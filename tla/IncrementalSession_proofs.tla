----------------------- MODULE IncrementalSession_proofs -----------------------
(***************************************************************************)
(* Proofs about the session's buffer, for every value of the limits and    *)
(* every detector set: the offsets stay in order, the buffer is always the *)
(* unreleased end of the text fed so far behind at most its lead, it never *)
(* outgrows max_buffered_bytes, and BufferLimitExceeded is never reported; *)
(* and what a session holds between calls, it holds for a reason: the      *)
(* second invariant, HInv, with its own theorems at the end.               *)
(***************************************************************************)
EXTENDS SessionContract, FiniteSetTheorems, WellFoundedInduction, TLAPS

------------------------------------------------------------------------------
(* The greatest and the least of a set of positions.                       *)

(* A nonempty set of numbers has a least element.                          *)
LEMMA LeastElement ==
  ASSUME NEW S \in SUBSET Nat, S # {}
  PROVE  \E x \in S : \A y \in S : x <= y
<1>1. PICK x \in S : \A y \in S : <<y, x>> \notin OpToRel(<, Nat)
  BY NatLessThanWellFounded, WFMin, Zenon
<1>2. \A y \in S : ~(y < x)
  <2> TAKE y \in S
  <2>1. x \in Nat /\ y \in Nat
    OBVIOUS
  <2> QED
    BY <1>1, <2>1, Zenon DEF OpToRel
<1>3. \A y \in S : x <= y
  BY <1>2
<1> QED
  BY <1>3

(* The greatest of a bounded set of numbers is one of them, and bounds     *)
(* them.                                                                   *)
LEMMA MaxOfBounded ==
  ASSUME NEW n \in Nat, NEW S \in SUBSET (0..n), S # {}
  PROVE  Max(S) \in S /\ \A y \in S : Max(S) >= y
<1> DEFINE T == {n - x : x \in S}
<1>1. T \subseteq Nat /\ T # {}
  <2>1. \A x \in S : x \in 0..n /\ n - x \in Nat
    OBVIOUS
  <2> QED
    BY <2>1, Zenon
<1>2. PICK x \in T : \A y \in T : x <= y
  BY <1>1, LeastElement
<1>3. PICK m \in S : x = n - m
  BY <1>2
<1>4. \A y \in S : m >= y
  BY <1>2, <1>3
<1> QED
  BY <1>4 DEF Max

(* The least of a set of numbers is one of them, and bounds them.          *)
LEMMA MinOfNaturals ==
  ASSUME NEW S \in SUBSET Nat, S # {}
  PROVE  Min(S) \in S /\ \A y \in S : Min(S) <= y
  BY LeastElement DEF Min

(* Induction, over a set of numbers rather than a predicate.               *)
LEMMA StepsReachAll ==
  ASSUME NEW P \in SUBSET Nat, 0 \in P, \A n \in P : n + 1 \in P
  PROVE  P = Nat
<1> SUFFICES ASSUME Nat \ P # {}
             PROVE  FALSE
  OBVIOUS
<1>1. PICK x \in Nat \ P : \A y \in Nat \ P : x <= y
  BY LeastElement
<1>2. x # 0 /\ x - 1 \in Nat /\ x - 1 \notin Nat \ P
  BY <1>1
<1>3. (x - 1) + 1 \in P
  BY <1>2
<1> QED
  BY <1>1, <1>3

------------------------------------------------------------------------------
(* Facts about slices and lines.                                           *)

(* A slice of a text is a text: its length, and what is in it.             *)
LEMMA SliceProperties ==
  ASSUME NEW text \in Seq(Symbols), NEW from \in Nat, NEW to \in Nat,
         from <= to, to <= Len(text)
  PROVE  /\ Slice(text, from, to) \in Seq(Symbols)
         /\ Len(Slice(text, from, to)) = to - from
         /\ \A i \in 1..(to - from) : Slice(text, from, to)[i] = text[from + i]
  BY DEF Slice

(* Two texts are the same when they agree symbol by symbol.                *)
LEMMA SameTexts ==
  ASSUME NEW a \in Seq(Symbols), NEW b \in Seq(Symbols), Len(a) = Len(b),
         \A i \in 1..Len(a) : a[i] = b[i]
  PROVE  a = b
  OBVIOUS

(* What two texts make together.                                           *)
LEMMA Concatenated ==
  ASSUME NEW a \in Seq(Symbols), NEW b \in Seq(Symbols)
  PROVE  /\ a \o b \in Seq(Symbols) /\ Len(a \o b) = Len(a) + Len(b)
         /\ \A i \in 1..Len(a) : (a \o b)[i] = a[i]
         /\ \A i \in 1..Len(b) : (a \o b)[Len(a) + i] = b[i]
  OBVIOUS

(* A slice of a slice.                                                     *)
LEMMA SliceOfSlice ==
  ASSUME NEW text \in Seq(Symbols), NEW i \in Nat, NEW j \in Nat, NEW k \in Nat, NEW m \in Nat,
         i <= j, j <= Len(text), k <= m, m <= j - i
  PROVE  Slice(Slice(text, i, j), k, m) = Slice(text, i + k, i + m)
<1> DEFINE inner == Slice(text, i, j)
           a == Slice(inner, k, m)
           b == Slice(text, i + k, i + m)
<1>1. inner \in Seq(Symbols) /\ Len(inner) = j - i /\ \A n \in 1..(j - i) : inner[n] = text[i + n]
  BY SliceProperties, Zenon
<1> HIDE DEF inner
<1>2. a \in Seq(Symbols) /\ Len(a) = m - k /\ \A n \in 1..(m - k) : a[n] = inner[k + n]
  <2>1. m <= Len(inner)
    BY <1>1
  <2> QED
    BY <1>1, <2>1, SliceProperties, Zenon
<1>3. b \in Seq(Symbols) /\ Len(b) = m - k /\ \A n \in 1..(m - k) : b[n] = text[i + k + n]
  <2>1. i + k \in Nat /\ i + m \in Nat /\ i + k <= i + m /\ i + m <= Len(text)
        /\ (i + m) - (i + k) = m - k
    OBVIOUS
  <2>2. b \in Seq(Symbols) /\ Len(b) = (i + m) - (i + k)
        /\ \A n \in 1..((i + m) - (i + k)) : b[n] = text[(i + k) + n]
    BY <2>1, SliceProperties, Zenon
  <2> QED
    BY <2>1, <2>2
<1> HIDE DEF a, b
<1>4. \A n \in 1..Len(a) : a[n] = b[n]
  <2> SUFFICES ASSUME NEW n \in 1..(m - k) PROVE a[n] = b[n]
    BY <1>2
  <2>1. k + n \in 1..(j - i) /\ i + (k + n) = i + k + n
    OBVIOUS
  <2> QED
    BY <1>1, <1>2, <1>3, <2>1
<1>5. a = b
  BY <1>2, <1>3, <1>4, SameTexts
<1> QED
  BY <1>5 DEF a, b, inner

(* Two slices that follow one another.                                     *)
LEMMA SlicesJoin ==
  ASSUME NEW text \in Seq(Symbols), NEW i \in Nat, NEW j \in Nat, NEW k \in Nat,
         i <= j, j <= k, k <= Len(text)
  PROVE  Slice(text, i, j) \o Slice(text, j, k) = Slice(text, i, k)
<1> DEFINE a == Slice(text, i, j)
           b == Slice(text, j, k)
           c == Slice(text, i, k)
<1>0. j <= Len(text) /\ i <= k
  OBVIOUS
<1>1. /\ a \in Seq(Symbols) /\ Len(a) = j - i /\ \A n \in 1..(j - i) : a[n] = text[i + n]
      /\ b \in Seq(Symbols) /\ Len(b) = k - j /\ \A n \in 1..(k - j) : b[n] = text[j + n]
      /\ c \in Seq(Symbols) /\ Len(c) = k - i /\ \A n \in 1..(k - i) : c[n] = text[i + n]
  BY <1>0, SliceProperties, Zenon
<1> HIDE DEF a, b, c
<1>2. /\ a \o b \in Seq(Symbols) /\ Len(a \o b) = k - i
      /\ \A n \in 1..Len(a) : (a \o b)[n] = a[n]
      /\ \A n \in 1..Len(b) : (a \o b)[Len(a) + n] = b[n]
  <2>1. Len(a) + Len(b) = k - i
    BY <1>1
  <2> QED
    BY <1>1, <2>1, Concatenated
<1>3. \A n \in 1..(k - i) : (a \o b)[n] = c[n]
  <2> SUFFICES ASSUME NEW n \in 1..(k - i) PROVE (a \o b)[n] = c[n]
    OBVIOUS
  <2>1. CASE n <= j - i
    <3>1. n \in 1..(j - i)
      BY <2>1
    <3> QED
      BY <1>1, <1>2, <3>1
  <2>2. CASE ~(n <= j - i)
    <3> DEFINE m == n - (j - i)
    <3>1. m \in 1..(k - j) /\ (j - i) + m = n /\ j + m = i + n
      BY <2>2
    <3> HIDE DEF m
    <3>2. (a \o b)[(j - i) + m] = b[m]
      BY <1>1, <1>2, <3>1
    <3> QED
      BY <1>1, <3>1, <3>2
  <2> QED
    BY <2>1, <2>2
<1>4. a \o b = c
  BY <1>1, <1>2, <1>3, SameTexts
<1> QED
  BY <1>4 DEF a, b, c

(* A slice of two texts, when it is of the first, runs over both, or is of *)
(* the second.                                                             *)
LEMMA SlicesOfBoth ==
  ASSUME NEW a \in Seq(Symbols), NEW b \in Seq(Symbols), NEW i \in Nat, NEW j \in Nat, i <= j
  PROVE  /\ j <= Len(a) => Slice(a \o b, i, j) = Slice(a, i, j)
         /\ i <= Len(a) => Slice(a \o b, i, Len(a) + Len(b)) = Slice(a, i, Len(a)) \o b
         /\ j <= Len(b) => Slice(a \o b, Len(a) + i, Len(a) + j) = Slice(b, i, j)
<1> DEFINE n == Len(a)
           m == Len(b)
           whole == a \o b
<1>1. /\ n \in Nat /\ m \in Nat
      /\ whole \in Seq(Symbols) /\ Len(whole) = n + m
      /\ \A k \in 1..n : whole[k] = a[k]
      /\ \A k \in 1..m : whole[n + k] = b[k]
  OBVIOUS
<1> HIDE DEF whole
<1>2. ASSUME j <= n PROVE Slice(whole, i, j) = Slice(a, i, j)
  <2> DEFINE x == Slice(whole, i, j)
             y == Slice(a, i, j)
  <2>1. j <= Len(whole)
    BY <1>1, <1>2
  <2>2. /\ x \in Seq(Symbols) /\ Len(x) = j - i /\ \A k \in 1..(j - i) : x[k] = whole[i + k]
        /\ y \in Seq(Symbols) /\ Len(y) = j - i /\ \A k \in 1..(j - i) : y[k] = a[i + k]
    BY <1>1, <1>2, <2>1, SliceProperties, Zenon
  <2> HIDE DEF x, y
  <2>3. \A k \in 1..(j - i) : i + k \in 1..n
    BY <1>1, <1>2
  <2>4. \A k \in 1..(j - i) : x[k] = y[k]
    BY <1>1, <2>2, <2>3
  <2>5. x = y
    BY <2>2, <2>4, SameTexts
  <2> QED
    BY <2>5 DEF x, y
<1>3. ASSUME j <= m PROVE Slice(whole, n + i, n + j) = Slice(b, i, j)
  <2> DEFINE x == Slice(whole, n + i, n + j)
             y == Slice(b, i, j)
  <2>1. n + i \in Nat /\ n + j \in Nat /\ n + i <= n + j /\ n + j <= Len(whole)
        /\ (n + j) - (n + i) = j - i
    BY <1>1, <1>3
  <2>2. /\ x \in Seq(Symbols) /\ Len(x) = (n + j) - (n + i)
        /\ \A k \in 1..((n + j) - (n + i)) : x[k] = whole[(n + i) + k]
        /\ y \in Seq(Symbols) /\ Len(y) = j - i /\ \A k \in 1..(j - i) : y[k] = b[i + k]
    BY <1>1, <1>3, <2>1, SliceProperties, Zenon
  <2> HIDE DEF x, y
  <2>3. \A k \in 1..(j - i) : i + k \in 1..m /\ (n + i) + k = n + (i + k)
    BY <1>1, <1>3
  <2>4. \A k \in 1..(j - i) : x[k] = y[k]
    <3> SUFFICES ASSUME NEW k \in 1..(j - i) PROVE x[k] = y[k]
      OBVIOUS
    <3>1. x[k] = whole[(n + i) + k]
      BY <2>1, <2>2
    <3>2. whole[n + (i + k)] = b[i + k]
      BY <1>1, <2>3
    <3> QED
      BY <2>2, <2>3, <3>1, <3>2
  <2>5. x = y
    BY <2>1, <2>2, <2>4, SameTexts
  <2> QED
    BY <2>5 DEF x, y
<1>4. ASSUME i <= n PROVE Slice(whole, i, n + m) = Slice(a, i, n) \o b
  <2> DEFINE x == Slice(whole, i, n + m)
             y == Slice(a, i, n)
  <2>1. n + m \in Nat /\ i <= n + m /\ n + m <= Len(whole) /\ n <= Len(a)
    BY <1>1, <1>4
  <2>2. /\ x \in Seq(Symbols) /\ Len(x) = (n + m) - i
        /\ \A k \in 1..((n + m) - i) : x[k] = whole[i + k]
        /\ y \in Seq(Symbols) /\ Len(y) = n - i /\ \A k \in 1..(n - i) : y[k] = a[i + k]
    BY <1>1, <1>4, <2>1, SliceProperties, Zenon
  <2> HIDE DEF x, y
  <2>3. /\ y \o b \in Seq(Symbols) /\ Len(y \o b) = (n - i) + m
        /\ \A k \in 1..(n - i) : (y \o b)[k] = y[k]
        /\ \A k \in 1..m : (y \o b)[(n - i) + k] = b[k]
    <3>1. /\ y \o b \in Seq(Symbols) /\ Len(y \o b) = Len(y) + Len(b)
          /\ \A k \in 1..Len(y) : (y \o b)[k] = y[k]
          /\ \A k \in 1..Len(b) : (y \o b)[Len(y) + k] = b[k]
      BY <2>2, Concatenated, Zenon
    <3> QED
      BY <2>2, <3>1
  <2>4. \A k \in 1..((n + m) - i) : x[k] = (y \o b)[k]
    <3> SUFFICES ASSUME NEW k \in 1..((n + m) - i) PROVE x[k] = (y \o b)[k]
      OBVIOUS
    <3>1. CASE k <= n - i
      <4>1. k \in 1..(n - i) /\ i + k \in 1..n
        BY <1>1, <1>4, <3>1
      <4> QED
        BY <1>1, <2>2, <2>3, <4>1
    <3>2. CASE ~(k <= n - i)
      <4> DEFINE l == k - (n - i)
      <4>1. l \in 1..m /\ (n - i) + l = k /\ n + l = i + k
        BY <1>1, <1>4, <3>2
      <4> HIDE DEF l
      <4>2. (y \o b)[(n - i) + l] = b[l] /\ whole[n + l] = b[l]
        BY <1>1, <2>3, <4>1
      <4> QED
        BY <2>2, <4>1, <4>2
    <3> QED
      BY <3>1, <3>2
  <2>5. x = y \o b
    <3>1. (n + m) - i = (n - i) + m
      BY <1>1
    <3> QED
      BY <2>2, <2>3, <2>4, <3>1, SameTexts
  <2> QED
    BY <2>5 DEF x, y
<1> QED
  BY <1>2, <1>3, <1>4 DEF whole

(* A slice of two texts that ends in the first is a slice of the first.    *)
LEMMA SliceOfFirst ==
  ASSUME NEW a \in Seq(Symbols), NEW b \in Seq(Symbols), NEW i \in Nat, NEW j \in Nat,
         i <= j, j <= Len(a)
  PROVE  Slice(a \o b, i, j) = Slice(a, i, j)
  BY SlicesOfBoth

(* A slice of all of it.                                                   *)
LEMMA SliceWhole ==
  ASSUME NEW text \in Seq(Symbols)
  PROVE  Slice(text, 0, Len(text)) = text
<1>1. Len(text) \in Nat /\ 0 \in Nat /\ 0 <= Len(text) /\ Len(text) <= Len(text)
      /\ Len(text) - 0 = Len(text) /\ \A i \in 1..Len(text) : 0 + i = i
  OBVIOUS
<1>2. /\ Slice(text, 0, Len(text)) \in Seq(Symbols)
      /\ Len(Slice(text, 0, Len(text))) = Len(text) - 0
      /\ \A i \in 1..(Len(text) - 0) : Slice(text, 0, Len(text))[i] = text[0 + i]
  BY <1>1, SliceProperties, Zenon
<1> QED
  BY <1>1, <1>2, SameTexts

(* Without a terminator at its end a text is a text, and no longer than it *)
(* was.                                                                    *)
LEMMA WithoutLastProperties ==
  ASSUME NEW text \in Seq(Symbols), NEW by
  PROVE  WithoutLast(text, by) \in Seq(Symbols) /\ Len(WithoutLast(text, by)) <= Len(text)
  BY DEF WithoutLast, IsTerminated

(* Where the last line starts, how long it is, and how long a piece is.    *)
LEMMA LastLineStartRange ==
  ASSUME NEW text \in Seq(Symbols)
  PROVE  LastLineStart(text) \in 0..Len(text)
<1> DEFINE body == WithoutLast(WithoutLast(text, LF), CR)
           breaks == {i \in 1..Len(body) : body[i] \in Terminators}
<1>1. body \in Seq(Symbols) /\ Len(body) <= Len(text)
  BY WithoutLastProperties
<1>2. breaks # {} => Max(breaks) \in breaks
  <2>1. breaks \in SUBSET (0..Len(body)) /\ Len(body) \in Nat
    BY <1>1
  <2> QED
    BY <2>1, MaxOfBounded, Zenon
<1>3. LastLineStart(text) = IF breaks = {} THEN 0 ELSE Max(breaks)
  BY DEF LastLineStart
<1> QED
  BY <1>1, <1>2, <1>3

(* lead_after keeps the end of what it is given, nothing or all of it      *)
(* included.                                                               *)
LEMMA LeadAfterRange ==
  ASSUME NEW text \in Seq(Symbols)
  PROVE  LeadAfter(text) \in 0..Len(text)
<1>1. LastLineStart(text) \in 0..Len(text)
  BY LastLineStartRange
<1>2. Len(LastLine(text)) = Len(text) - LastLineStart(text)
  <2>1. LastLineStart(text) \in Nat /\ Len(text) \in Nat /\ LastLineStart(text) <= Len(text)
        /\ Len(text) <= Len(text)
    BY <1>1
  <2>2. Len(Slice(text, LastLineStart(text), Len(text))) = Len(text) - LastLineStart(text)
    BY <2>1, SliceProperties, Zenon
  <2> QED
    BY <2>2 DEF LastLine
<1> QED
  BY <1>1, <1>2 DEF LeadAfter

(* A piece takes at least one symbol of what an append has not read yet,   *)
(* and never more than there is.                                           *)
LEMMA PieceLengthRange ==
  ASSUME NEW chunk \in Seq(Symbols), chunk # <<>>
  PROVE  PieceLength(chunk) \in 1..Len(chunk)
<1> DEFINE breaks == {i \in 1..Len(chunk) : chunk[i] \in Terminators}
<1>1. breaks # {} => Min(breaks) \in breaks
  <2>1. breaks \in SUBSET Nat
    OBVIOUS
  <2> QED
    BY <2>1, MinOfNaturals, Zenon
<1>2. PieceLength(chunk) = IF breaks = {} THEN Len(chunk) ELSE Min(breaks)
  BY DEF PieceLength
<1> QED
  BY <1>1, <1>2

------------------------------------------------------------------------------
(* The invariant of the struct, which every helper preserves.              *)

(* The fields of a session.                                                *)
Fields == {"state", "retained", "leadLen", "unitStart", "unitEnds", "awsHeldLine",
           "multilineOpen", "multilineDetected", "finalizedBytes", "totalInputBytes",
           "findingCount", "placeholderCount", "text", "found", "error"}

(* The lead, the closed units and the open unit lie behind one another in  *)
(* the buffer, and the lead is finalized text.                             *)
InOrder(s) ==
  /\ DOMAIN s = Fields
  /\ s.retained \in Seq(Symbols)
  /\ s.leadLen \in Nat /\ s.unitStart \in Nat
  /\ s.finalizedBytes \in Nat /\ s.totalInputBytes \in Nat
  /\ s.leadLen <= s.unitStart /\ s.unitStart <= Len(s.retained)
  /\ s.leadLen <= s.finalizedBytes
  /\ s.unitEnds \in Seq(Nat)
  /\ s.unitEnds = <<>> => s.unitStart = s.leadLen
  /\ \A k \in 1..Len(s.unitEnds) :
       UnitFrom(s, k) <= s.unitEnds[k] /\ s.unitEnds[k] <= s.unitStart

(* Where the buffer begins in the text fed so far.                         *)
Base(s) == s.finalizedBytes - s.leadLen

(* How much of the text fed is finalized or in the buffer.                 *)
ReadTo(s) == Base(s) + Len(s.retained)

(* The buffer is the part of text that starts at Base(s).                  *)
HoldsPartOf(s, text) ==
  /\ ReadTo(s) <= Len(text)
  /\ \A i \in 1..Len(s.retained) : s.retained[i] = text[Base(s) + i]

(* The invariant of the struct, as the helpers keep it.                    *)
Sound(s, text) == InOrder(s) /\ HoldsPartOf(s, text)

(* What a helper that reads nothing more leaves as it was.                 *)
Keeps(s, t) ==
  /\ ReadTo(t) = ReadTo(s)
  /\ Len(t.retained) - t.unitStart = Len(s.retained) - s.unitStart
  /\ Len(t.retained) - t.leadLen <= Len(s.retained) - s.leadLen
  /\ t.state = s.state
  /\ t.error = "none" \/ t.error \in StageErrors

(* The position a flush keeps text from lies inside the buffer, past the   *)
(* old lead.                                                               *)
LEMMA KeepFromRange ==
  ASSUME NEW s, InOrder(s)
  PROVE  KeepFrom(s) \in 0..s.unitStart
<1>1. Batch(s) \in Seq(Symbols) /\ Len(Batch(s)) = s.unitStart - s.leadLen
  BY SliceProperties DEF Batch, InOrder
<1>2. LeadAfter(Batch(s)) \in 0..Len(Batch(s))
  BY <1>1, LeadAfterRange
<1> QED
  BY <1>1, <1>2 DEF KeepFrom, InOrder

(* A batch fails with one of the errors of its stages: detection, policy,  *)
(* placeholders.                                                           *)
LEMMA StageErrorsReported ==
  ASSUME NEW s, NEW detected
  PROVE  BatchError(s, detected) = "none" \/ BatchError(s, detected) \in StageErrors
<1>1. ASSUME NEW text, NEW found, NEW before
      PROVE  RedactError(host, text, found, before) \in {"none"} \cup StageErrors
  BY DEF RedactError, StageErrors
<1>2. ASSUME NEW k
      PROVE  UnitError(s, k, detected) \in {"none"} \cup StageErrors
  BY <1>1 DEF UnitError, StageErrors
<1> QED
  BY <1>2 DEF BatchError

(* The rest of the struct is no concern of the invariant.                  *)
SameBuffer(s, t) ==
  /\ DOMAIN t = Fields
  /\ t.retained = s.retained /\ t.leadLen = s.leadLen
  /\ t.unitStart = s.unitStart /\ t.unitEnds = s.unitEnds
  /\ t.finalizedBytes = s.finalizedBytes /\ t.totalInputBytes = s.totalInputBytes

(* A step that leaves the buffer and its offsets alone leaves what the     *)
(* invariant says of them true.                                            *)
LEMMA SameBufferSound ==
  ASSUME NEW text, NEW s, NEW t, Sound(s, text), SameBuffer(s, t)
  PROVE  Sound(t, text) /\ ReadTo(t) = ReadTo(s)
<1>1. InOrder(t)
  BY DEF Sound, InOrder, UnitFrom, SameBuffer
<1>2. HoldsPartOf(t, text) /\ ReadTo(t) = ReadTo(s)
  BY DEF Sound, HoldsPartOf, Base, ReadTo, SameBuffer
<1> QED
  BY <1>1, <1>2 DEF Sound

(* Taking the first `from` bytes of the lead and batch off the buffer.     *)
LEMMA FlushBatchFields ==
  ASSUME NEW s, NEW detected, InOrder(s), BatchError(s, detected) = "none"
  PROVE  LET t == FinalizeUnits(s, detected) IN
         /\ DOMAIN t = Fields
         /\ t.retained = Slice(s.retained, KeepFrom(s), Len(s.retained))
         /\ t.leadLen = s.unitStart - KeepFrom(s)
         /\ t.unitStart = s.unitStart - KeepFrom(s)
         /\ t.unitEnds = <<>>
         /\ t.finalizedBytes = s.finalizedBytes + s.unitStart - s.leadLen
         /\ t.totalInputBytes = s.totalInputBytes
         /\ t.state = s.state
         /\ t.error = s.error
  BY DEF FinalizeUnits, InOrder, Fields

(* flush_batch leaves offsets in order, and a buffer that is the end of    *)
(* what was fed.                                                           *)
LEMMA FlushBatchSound ==
  ASSUME NEW text, NEW s, Sound(s, text), s.error = "none"
  PROVE  /\ Sound(FlushBatch(s), text)
         /\ Keeps(s, FlushBatch(s))
         /\ FlushBatch(s).error = "none" => FlushBatch(s).unitEnds = <<>>
<1> DEFINE t == FlushBatch(s)
           detected == Detections(s, DetectBatch(s))
<1> USE DEF Sound
<1>1. CASE s.unitEnds = <<>>
  <2>1. t = s
    BY <1>1 DEF FlushBatch
  <2>2. Keeps(s, s)
    BY DEF Keeps, InOrder
  <2> QED
    BY <1>1, <2>1, <2>2, Zenon
<1>2. CASE s.unitEnds # <<>> /\ BatchError(s, detected) # "none"
  <2>1. SameBuffer(s, t) /\ t.error = BatchError(s, detected) /\ t.state = s.state
    BY <1>2 DEF FlushBatch, FinalizeUnits, SameBuffer, InOrder, Fields
  <2>2. Sound(t, text) /\ ReadTo(t) = ReadTo(s)
    BY <2>1, SameBufferSound, Zenon
  <2>3. BatchError(s, detected) \in StageErrors /\ BatchError(s, detected) # "none"
    BY <1>2, StageErrorsReported
  <2> QED
    BY <2>1, <2>2, <2>3 DEF Keeps, InOrder, SameBuffer
<1>3. CASE s.unitEnds # <<>> /\ BatchError(s, detected) = "none"
  <2>0. t = FinalizeUnits(s, detected)
    BY <1>3 DEF FlushBatch
  <2> HIDE DEF t, detected
  <2>1. /\ DOMAIN t = Fields
        /\ t.retained = Slice(s.retained, KeepFrom(s), Len(s.retained))
        /\ t.leadLen = s.unitStart - KeepFrom(s)
        /\ t.unitStart = s.unitStart - KeepFrom(s)
        /\ t.unitEnds = <<>>
        /\ t.finalizedBytes = s.finalizedBytes + s.unitStart - s.leadLen
        /\ t.totalInputBytes = s.totalInputBytes
        /\ t.state = s.state
        /\ t.error = s.error
    BY <1>3, <2>0, FlushBatchFields
  <2>2. KeepFrom(s) \in 0..s.unitStart
    BY KeepFromRange
  <2>3. /\ t.retained \in Seq(Symbols)
        /\ Len(t.retained) = Len(s.retained) - KeepFrom(s)
        /\ \A i \in 1..Len(t.retained) : t.retained[i] = s.retained[KeepFrom(s) + i]
    <3>1. /\ KeepFrom(s) \in Nat /\ Len(s.retained) \in Nat
          /\ KeepFrom(s) <= Len(s.retained) /\ Len(s.retained) <= Len(s.retained)
          /\ s.retained \in Seq(Symbols)
      BY <2>2 DEF InOrder
    <3>2. /\ Slice(s.retained, KeepFrom(s), Len(s.retained)) \in Seq(Symbols)
          /\ Len(Slice(s.retained, KeepFrom(s), Len(s.retained))) = Len(s.retained) - KeepFrom(s)
          /\ \A i \in 1..(Len(s.retained) - KeepFrom(s)) :
               Slice(s.retained, KeepFrom(s), Len(s.retained))[i] = s.retained[KeepFrom(s) + i]
      BY <3>1, SliceProperties, Zenon
    <3> QED
      BY <2>1, <3>2, Zenon
  <2>4. InOrder(t)
    <3>1. s.retained \in Seq(Symbols) /\ s.leadLen \in Nat /\ s.unitStart \in Nat
          /\ s.finalizedBytes \in Nat /\ s.leadLen <= s.unitStart
          /\ s.unitStart <= Len(s.retained) /\ s.leadLen <= s.finalizedBytes
          /\ s.totalInputBytes \in Nat
      BY DEF InOrder
    <3>2. t.leadLen \in Nat /\ t.unitStart \in Nat /\ t.finalizedBytes \in Nat
          /\ t.leadLen <= t.unitStart /\ t.unitStart <= Len(t.retained)
          /\ t.leadLen <= t.finalizedBytes
      BY <2>1, <2>2, <2>3, <3>1, SMTT(30)
    <3> QED
      BY <2>1, <2>3, <3>1, <3>2 DEF InOrder
  <2>5. Base(t) = Base(s) + KeepFrom(s) /\ ReadTo(t) = ReadTo(s)
    BY <2>1, <2>2, <2>3, SMTT(30) DEF InOrder, Base, ReadTo
  <2>6. HoldsPartOf(t, text)
    <3>1. ASSUME NEW i \in 1..Len(t.retained)
          PROVE  t.retained[i] = text[Base(t) + i]
      <4>1. /\ KeepFrom(s) \in Nat /\ Len(s.retained) \in Nat /\ Base(s) \in Int
            /\ KeepFrom(s) <= Len(s.retained)
        BY <2>2 DEF InOrder, Base
      <4>2. KeepFrom(s) + i \in 1..Len(s.retained)
            /\ Base(s) + (KeepFrom(s) + i) = Base(t) + i
        BY <2>3, <2>5, <4>1
      <4>3. s.retained[KeepFrom(s) + i] = text[Base(s) + (KeepFrom(s) + i)]
        BY <4>2 DEF HoldsPartOf
      <4> QED
        BY <2>3, <4>2, <4>3
    <3> QED
      BY <2>5, <3>1 DEF HoldsPartOf
  <2>7. Keeps(s, t)
    BY <2>1, <2>2, <2>3, <2>5 DEF Keeps, InOrder
  <2> QED
    BY <2>1, <2>4, <2>6, <2>7 DEF t
<1> QED
  BY <1>1, <1>2, <1>3

------------------------------------------------------------------------------
(* Reading a piece.                                                        *)

(* What is held beyond the lead never outgrows the buffer limit.           *)
Bounded(s) == Len(s.retained) - s.leadLen <= MaxBufferedBytes

(* What a helper may report.                                               *)
Reported == {"none", "TokenLimitExceeded", "MultilineLimitExceeded"} \cup StageErrors

(* The piece is what comes next in the text.                               *)
Follows(piece, s, text) ==
  /\ piece \in Seq(Symbols)
  /\ ReadTo(s) + Len(piece) <= Len(text)
  /\ \A i \in 1..Len(piece) : piece[i] = text[ReadTo(s) + i]

(* t is s after it has read n more bytes of the text, or has failed.       *)
Reads(s, t, n, text) ==
  /\ Sound(t, text)
  /\ t.state = s.state
  /\ t.error \in Reported
  /\ t.error = "none" => ReadTo(t) = ReadTo(s) + n /\ Bounded(t)

(* Pushing a piece keeps the buffer the end of what was fed and the        *)
(* offsets in order.                                                       *)
LEMMA PushSound ==
  ASSUME NEW text, NEW s, Sound(s, text), NEW piece, Follows(piece, s, text)
  PROVE  LET t == Push(s, piece) IN
         /\ Sound(t, text)
         /\ ReadTo(t) = ReadTo(s) + Len(piece)
         /\ Len(t.retained) = Len(s.retained) + Len(piece)
         /\ t.leadLen = s.leadLen /\ t.unitStart = s.unitStart /\ t.unitEnds = s.unitEnds
         /\ t.state = s.state /\ t.error = s.error
<1> DEFINE t == Push(s, piece)
<1>1. /\ DOMAIN t = Fields
      /\ t.retained = s.retained \o piece
      /\ t.leadLen = s.leadLen /\ t.unitStart = s.unitStart /\ t.unitEnds = s.unitEnds
      /\ t.finalizedBytes = s.finalizedBytes /\ t.totalInputBytes = s.totalInputBytes
      /\ t.state = s.state /\ t.error = s.error
  BY DEF Push, Sound, InOrder, Fields
<1> HIDE DEF t
<1>2. /\ t.retained \in Seq(Symbols)
      /\ Len(t.retained) = Len(s.retained) + Len(piece)
      /\ Len(s.retained) \in Nat /\ Len(piece) \in Nat
      /\ \A i \in 1..Len(t.retained) :
           t.retained[i] = IF i <= Len(s.retained) THEN s.retained[i]
                                                   ELSE piece[i - Len(s.retained)]
  BY <1>1 DEF Sound, InOrder, Follows
<1>3. InOrder(t)
  BY <1>1, <1>2 DEF Sound, InOrder, UnitFrom
<1>4. Base(t) = Base(s) /\ Base(s) \in Nat /\ ReadTo(t) = ReadTo(s) + Len(piece)
  BY <1>1, <1>2 DEF Base, ReadTo, Sound, InOrder
<1>5. ASSUME NEW i \in 1..Len(t.retained)
      PROVE  t.retained[i] = text[Base(t) + i]
  <2>1. CASE i <= Len(s.retained)
    BY <1>2, <1>4, <2>1 DEF Sound, HoldsPartOf
  <2>2. CASE i > Len(s.retained)
    <3>1. i - Len(s.retained) \in 1..Len(piece)
          /\ ReadTo(s) + (i - Len(s.retained)) = Base(t) + i
      BY <1>2, <1>4, <2>2 DEF ReadTo
    <3>2. t.retained[i] = piece[i - Len(s.retained)]
      BY <1>2, <2>2
    <3>3. piece[i - Len(s.retained)] = text[ReadTo(s) + (i - Len(s.retained))]
      BY <3>1, Zenon DEF Follows
    <3> QED
      BY <3>1, <3>2, <3>3
  <2> QED
    BY <1>2, <2>1, <2>2
<1>6. HoldsPartOf(t, text)
  BY <1>4, <1>5 DEF HoldsPartOf, Follows
<1> QED
  BY <1>1, <1>2, <1>3, <1>4, <1>6 DEF Sound, t

(* The limit reported is never the buffer limit, and when none is reported *)
(* the unit fits the buffer limit.                                         *)
LEMMA ExceededReports ==
  ASSUME NEW s, InOrder(s), NEW closesLine
  PROVE  /\ Exceeded(s, closesLine) \in Reported
         /\ Exceeded(s, closesLine) = "none" =>
              Len(s.retained) - s.unitStart <= MaxBufferedBytes
  BY LimitsAssumption, SMTT(30) DEF Exceeded, Reported, InOrder

(* Making room for a piece leaves a sound buffer in which the piece fits.  *)
LEMMA MakeRoomSound ==
  ASSUME NEW text, NEW s, Sound(s, text), s.error = "none", NEW piece, piece \in Seq(Symbols)
  PROVE  LET t == MakeRoom(s, piece) IN
         /\ Sound(t, text)
         /\ Keeps(s, t)
         /\ t.error = "none" =>
              t.unitEnds = <<>> \/ Len(t.retained) - t.leadLen + Len(piece) <= MaxBufferedBytes
<1>1. Keeps(s, s)
  BY DEF Sound, Keeps, InOrder
<1>2. CASE s.unitEnds # <<>> /\ Len(s.retained) - s.leadLen + Len(piece) > MaxBufferedBytes
  <2>1. MakeRoom(s, piece) = FlushBatch(s)
    BY <1>2 DEF MakeRoom
  <2> QED
    BY <2>1, FlushBatchSound
<1>3. CASE ~(s.unitEnds # <<>> /\ Len(s.retained) - s.leadLen + Len(piece) > MaxBufferedBytes)
  <2>1. MakeRoom(s, piece) = s
    BY <1>3 DEF MakeRoom
  <2>2. s.unitEnds = <<>> \/ Len(s.retained) - s.leadLen + Len(piece) <= MaxBufferedBytes
    BY <1>3, LimitsAssumption DEF Sound, InOrder
  <2> QED
    BY <1>1, <2>1, <2>2
<1> QED
  BY <1>2, <1>3

(* Enforcing the limits, with or without a flush, leaves a sound and       *)
(* bounded buffer or an error to report.                                   *)
LEMMA EnforceLimitsSound ==
  ASSUME NEW text, NEW s, Sound(s, text), s.error = "none", NEW closesLine,
         s.unitEnds = <<>> \/ Bounded(s)
  PROVE  Reads(s, EnforceLimits(s, closesLine), 0, text)
<1> DEFINE t == EnforceLimits(s, closesLine)
           code == Exceeded(s, closesLine)
           flushed == FlushBatch(s)
<1>1. code \in Reported
  BY ExceededReports DEF Sound
<1>2. Sound(flushed, text) /\ Keeps(s, flushed)
  BY FlushBatchSound
<1>3. CASE code = "none"
  <2>1. t = s
    BY <1>3 DEF EnforceLimits, ReportUnlessFailed
  <2>2. Bounded(s)
    BY <1>3, ExceededReports DEF Bounded, Sound, InOrder
  <2>3. ReadTo(s) \in Int
    BY DEF Sound, InOrder, ReadTo, Base
  <2> QED
    BY <1>1, <1>3, <2>1, <2>2, <2>3 DEF Reads
<1>4. CASE code # "none" /\ flushed.error # "none"
  <2>1. t = flushed
    BY <1>4 DEF EnforceLimits, ReportUnlessFailed
  <2> QED
    BY <1>2, <1>4, <2>1 DEF Reads, Keeps, Reported
<1>5. CASE code # "none" /\ flushed.error = "none"
  <2>1. t = [flushed EXCEPT !.error = code]
    BY <1>5 DEF EnforceLimits, ReportUnlessFailed
  <2>2. SameBuffer(flushed, t) /\ t.error = code /\ t.state = flushed.state
    BY <1>2, <2>1 DEF SameBuffer, Sound, InOrder, Fields
  <2>3. Sound(t, text)
    BY <1>2, <2>2, SameBufferSound, Zenon
  <2> QED
    BY <1>1, <1>2, <1>5, <2>2, <2>3 DEF Reads, Keeps
<1> QED
  BY <1>3, <1>4, <1>5

(* append_retained, which makes room, pushes and enforces, leaves a sound  *)
(* buffer within its bound or an error.                                    *)
LEMMA AppendRetainedSound ==
  ASSUME NEW text, NEW s, Sound(s, text), s.error = "none",
         NEW piece, Follows(piece, s, text), NEW closesLine
  PROVE  Reads(s, AppendRetained(s, piece, closesLine), Len(piece), text)
<1> DEFINE roomy == MakeRoom(s, piece)
           pushed == Push(roomy, piece)
           t == AppendRetained(s, piece, closesLine)
<1>1. /\ Sound(roomy, text) /\ Keeps(s, roomy)
      /\ roomy.error = "none" =>
           roomy.unitEnds = <<>>
             \/ Len(roomy.retained) - roomy.leadLen + Len(piece) <= MaxBufferedBytes
  <2>1. piece \in Seq(Symbols)
    BY DEF Follows
  <2> QED
    BY <2>1, MakeRoomSound
<1>2. CASE roomy.error # "none"
  <2>1. t = roomy
    BY <1>2 DEF AppendRetained, PushAndEnforce
  <2> QED
    BY <1>1, <1>2, <2>1 DEF Reads, Keeps, Reported
<1>3. CASE roomy.error = "none"
  <2>1. t = EnforceLimits(pushed, closesLine)
    BY <1>3 DEF AppendRetained, PushAndEnforce
  <2>2. Follows(piece, roomy, text)
    BY <1>1 DEF Follows, Keeps
  <2>3. /\ Sound(pushed, text)
        /\ ReadTo(pushed) = ReadTo(roomy) + Len(piece)
        /\ Len(pushed.retained) = Len(roomy.retained) + Len(piece)
        /\ pushed.leadLen = roomy.leadLen /\ pushed.unitEnds = roomy.unitEnds
        /\ pushed.state = roomy.state /\ pushed.error = roomy.error
    BY <1>1, <2>2, PushSound
  <2> HIDE DEF roomy, pushed, t
  <2>4. pushed.unitEnds = <<>> \/ Bounded(pushed)
    <3>1. Len(roomy.retained) \in Nat /\ roomy.leadLen \in Nat /\ Len(piece) \in Nat
      BY <1>1, <2>2 DEF Sound, InOrder, Follows
    <3> QED
      BY <1>1, <1>3, <2>3, <3>1 DEF Bounded
  <2>5. Reads(pushed, t, 0, text)
    BY <1>3, <2>1, <2>3, <2>4, EnforceLimitsSound
  <2>6. ReadTo(pushed) \in Int
    BY <2>3 DEF Sound, InOrder, ReadTo, Base
  <2> QED
    BY <1>1, <2>3, <2>5, <2>6 DEF Reads, Keeps, t
<1> QED
  BY <1>2, <1>3

------------------------------------------------------------------------------
(* Closing the open unit.                                                  *)

(* t is s with its open unit appended to the batch.                        *)
Closes(s, t) ==
  /\ DOMAIN t = Fields
  /\ t.retained = s.retained /\ t.leadLen = s.leadLen
  /\ t.unitStart = Len(s.retained) /\ t.unitEnds = Append(s.unitEnds, Len(s.retained))
  /\ t.finalizedBytes = s.finalizedBytes /\ t.totalInputBytes = s.totalInputBytes
  /\ t.state = s.state /\ t.error = s.error

(* Closing the open unit, and flushing when it starts a new batch, leaves  *)
(* a sound buffer.                                                         *)
LEMMA ClosesSound ==
  ASSUME NEW text, NEW s, NEW t, Sound(s, text), Closes(s, t)
  PROVE  Sound(t, text) /\ ReadTo(t) = ReadTo(s)
<1> DEFINE n == Len(s.unitEnds)
<1>1. /\ n \in Nat /\ Len(s.retained) \in Nat
      /\ s.unitEnds \in Seq(Nat) /\ t.unitEnds \in Seq(Nat) /\ Len(t.unitEnds) = n + 1
      /\ \A k \in 1..n : t.unitEnds[k] = s.unitEnds[k]
      /\ t.unitEnds[n + 1] = Len(s.retained)
  BY DEF Sound, InOrder, Closes
<1>2. ASSUME NEW k \in 1..(n + 1)
      PROVE  UnitFrom(t, k) <= t.unitEnds[k] /\ t.unitEnds[k] <= t.unitStart
  <2>1. CASE k \in 1..n
    <3>1. k = 1 \/ k - 1 \in 1..n
      BY <1>1, <2>1
    <3>2. UnitFrom(t, k) = UnitFrom(s, k)
      BY <1>1, <3>1 DEF UnitFrom, Closes
    <3>3. UnitFrom(s, k) <= s.unitEnds[k] /\ s.unitEnds[k] <= s.unitStart
          /\ s.unitEnds[k] \in Nat
      BY <2>1 DEF Sound, InOrder
    <3> QED
      BY <1>1, <2>1, <3>2, <3>3 DEF Sound, InOrder, Closes
  <2>2. CASE k = n + 1
    <3>1. UnitFrom(t, k) <= s.unitStart
      <4>1. CASE n = 0
        BY <2>2, <4>1 DEF UnitFrom, Sound, InOrder, Closes
      <4>2. CASE n # 0
        <5>1. n \in 1..n /\ k # 1 /\ k - 1 = n
          BY <1>1, <2>2, <4>2
        <5> QED
          BY <1>1, <5>1 DEF UnitFrom, Sound, InOrder
      <4> QED
        BY <4>1, <4>2
    <3>2. UnitFrom(t, k) \in Nat
      BY <1>1, <2>2 DEF UnitFrom, Sound, InOrder, Closes
    <3> QED
      BY <1>1, <2>2, <3>1, <3>2 DEF Sound, InOrder, Closes
  <2> QED
    BY <1>1, <2>1, <2>2
<1>3. t.unitEnds # <<>>
  BY <1>1
<1>4. InOrder(t)
  BY <1>1, <1>2, <1>3 DEF Sound, InOrder, Closes
<1>5. HoldsPartOf(t, text) /\ ReadTo(t) = ReadTo(s)
  BY DEF Sound, HoldsPartOf, Base, ReadTo, Closes
<1> QED
  BY <1>4, <1>5 DEF Sound

(* close_unit leaves the buffer sound and reads nothing more, whether or   *)
(* not it flushes first.                                                   *)
LEMMA CloseUnitSound ==
  ASSUME NEW text, NEW s, Sound(s, text), s.error = "none"
  PROVE  LET t == CloseUnit(s) IN
         /\ Sound(t, text)
         /\ ReadTo(t) = ReadTo(s)
         /\ Len(t.retained) - t.leadLen <= Len(s.retained) - s.leadLen
         /\ t.state = s.state
         /\ t.error \in {"none"} \cup StageErrors
<1> DEFINE separate == SeparateBatch(s)
           t == CloseUnit(s)
<1>1. Sound(separate, text) /\ Keeps(s, separate)
  <2>1. Keeps(s, s)
    BY DEF Sound, Keeps, InOrder
  <2>2. Sound(FlushBatch(s), text) /\ Keeps(s, FlushBatch(s))
    BY FlushBatchSound
  <2> QED
    BY <2>1, <2>2 DEF SeparateBatch
<1>2. CASE separate.error # "none"
  <2>1. t = separate
    BY <1>2 DEF CloseUnit, StartNextUnit
  <2> QED
    BY <1>1, <1>2, <2>1 DEF Keeps
<1>3. CASE separate.error = "none"
  <2>1. t = ResetUnitState([separate EXCEPT !.unitEnds = Append(@, Len(separate.retained)),
                                            !.unitStart = Len(separate.retained)])
    BY <1>3 DEF CloseUnit, StartNextUnit
  <2>2. DOMAIN separate = Fields
    BY <1>1 DEF Sound, InOrder
  <2> HIDE DEF separate, t
  <2>3. Closes(separate, t)
    BY <2>1, <2>2 DEF Closes, ResetUnitState, Fields
  <2>4. Sound(t, text) /\ ReadTo(t) = ReadTo(separate)
    BY <1>1, <2>3, ClosesSound
  <2> QED
    BY <1>1, <1>3, <2>3, <2>4 DEF Keeps, Closes, t
<1> QED
  BY <1>2, <1>3

(* The released line that is kept above the batch.                         *)
Lead(s) == Slice(s.retained, 0, s.leadLen)

(* The buffer is the lead, the batch and the open unit.                    *)
LEMMA Parts ==
  ASSUME NEW s, InOrder(s)
  PROVE  /\ Lead(s) \in Seq(Symbols) /\ Len(Lead(s)) = s.leadLen
         /\ \A i \in 1..s.leadLen : Lead(s)[i] = s.retained[i]
         /\ Batch(s) \in Seq(Symbols) /\ Len(Batch(s)) = s.unitStart - s.leadLen
         /\ \A i \in 1..(s.unitStart - s.leadLen) : Batch(s)[i] = s.retained[s.leadLen + i]
         /\ Unit(s) \in Seq(Symbols) /\ Len(Unit(s)) = Len(s.retained) - s.unitStart
         /\ \A i \in 1..(Len(s.retained) - s.unitStart) : Unit(s)[i] = s.retained[s.unitStart + i]
<1>1. /\ s.retained \in Seq(Symbols) /\ Len(s.retained) \in Nat
      /\ 0 \in Nat /\ s.leadLen \in Nat /\ s.unitStart \in Nat /\ 0 <= s.leadLen
      /\ s.leadLen <= s.unitStart /\ s.unitStart <= Len(s.retained)
      /\ s.leadLen <= Len(s.retained) /\ Len(s.retained) <= Len(s.retained)
  BY DEF InOrder
<1>2. /\ Lead(s) \in Seq(Symbols) /\ Len(Lead(s)) = s.leadLen - 0
      /\ \A i \in 1..(s.leadLen - 0) : Lead(s)[i] = s.retained[0 + i]
  BY <1>1, SliceProperties, Zenon DEF Lead
<1>3. /\ Batch(s) \in Seq(Symbols) /\ Len(Batch(s)) = s.unitStart - s.leadLen
      /\ \A i \in 1..(s.unitStart - s.leadLen) : Batch(s)[i] = s.retained[s.leadLen + i]
  BY <1>1, SliceProperties, Zenon DEF Batch
<1>4. /\ Unit(s) \in Seq(Symbols) /\ Len(Unit(s)) = Len(s.retained) - s.unitStart
      /\ \A i \in 1..(Len(s.retained) - s.unitStart) : Unit(s)[i] = s.retained[s.unitStart + i]
  BY <1>1, SliceProperties, Zenon DEF Unit
<1> QED
  BY <1>1, <1>2, <1>3, <1>4

(* A buffer cut inside its open unit.                                      *)
LEMMA CutUnit ==
  ASSUME NEW text, NEW s, Sound(s, text), NEW k \in 0..Len(Unit(s))
  PROVE  LET t == [s EXCEPT !.retained = Slice(@, 0, s.unitStart + k)] IN
         /\ Sound(t, text)
         /\ t.error = s.error /\ t.state = s.state
         /\ Base(t) = Base(s) /\ ReadTo(t) = Base(s) + s.unitStart + k
         /\ Lead(t) = Lead(s) /\ Batch(t) = Batch(s) /\ t.unitEnds = s.unitEnds
         /\ Unit(t) = Slice(Unit(s), 0, k)
         /\ Slice(s.retained, s.unitStart + k, Len(s.retained))
              = Slice(Unit(s), k, Len(Unit(s)))
<1> DEFINE from == s.unitStart + k
           t == [s EXCEPT !.retained = Slice(@, 0, from)]
           n == Len(s.retained)
           m == Len(Unit(s))
<1>1. /\ DOMAIN s = Fields
      /\ s.retained \in Seq(Symbols) /\ n \in Nat /\ 0 \in Nat
      /\ s.leadLen \in Nat /\ s.unitStart \in Nat
      /\ s.leadLen <= s.unitStart /\ s.unitStart <= n /\ n <= Len(s.retained)
      /\ Base(s) \in Nat /\ ReadTo(s) = Base(s) + n
  BY DEF Sound, InOrder, Base, ReadTo
<1>2. m = n - s.unitStart
  BY Parts DEF Sound
<1> HIDE DEF m
<1>3. from \in Nat /\ s.unitStart <= from /\ from <= n /\ k \in Nat /\ k <= m /\ m \in Nat
  BY <1>1, <1>2 DEF m
<1>4. /\ DOMAIN t = Fields /\ t.retained = Slice(s.retained, 0, from)
      /\ t.leadLen = s.leadLen /\ t.unitStart = s.unitStart /\ t.unitEnds = s.unitEnds
      /\ t.finalizedBytes = s.finalizedBytes /\ t.totalInputBytes = s.totalInputBytes
      /\ t.error = s.error /\ t.state = s.state
  BY <1>1 DEF Fields
<1> HIDE DEF from, t
<1>5. /\ t.retained \in Seq(Symbols) /\ Len(t.retained) = from
      /\ \A i \in 1..from : t.retained[i] = s.retained[i]
  <2>1. 0 <= from /\ from - 0 = from /\ \A i \in 1..from : 0 + i = i
    BY <1>3
  <2>2. /\ Slice(s.retained, 0, from) \in Seq(Symbols)
        /\ Len(Slice(s.retained, 0, from)) = from - 0
        /\ \A i \in 1..(from - 0) : Slice(s.retained, 0, from)[i] = s.retained[0 + i]
    BY <1>1, <1>3, <2>1, SliceProperties, Zenon
  <2> QED
    BY <1>4, <2>1, <2>2
<1>6. Sound(t, text) /\ Base(t) = Base(s) /\ ReadTo(t) = Base(s) + from
  <2>1. InOrder(t)
    BY <1>1, <1>3, <1>4, <1>5 DEF Sound, InOrder, UnitFrom
  <2>2. Base(t) = Base(s) /\ ReadTo(t) = Base(s) + from
    BY <1>4, <1>5 DEF Base, ReadTo
  <2>3. ReadTo(t) <= Len(text)
    <3>1. ReadTo(t) <= ReadTo(s) /\ ReadTo(s) <= Len(text)
      BY <1>1, <1>3, <2>2 DEF Sound, HoldsPartOf
    <3>2. CASE Len(text) \in Int
      BY <1>1, <1>3, <2>2, <3>1, <3>2
    <3>3. CASE Len(text) \notin Int
      BY <1>1, <1>3, <2>2, <3>1, <3>3
    <3> QED
      BY <3>2, <3>3
  <2> QED
    BY <1>1, <1>3, <1>5, <2>1, <2>2, <2>3 DEF Sound, HoldsPartOf
<1>7. Lead(t) = Lead(s) /\ Batch(t) = Batch(s)
  <2>1. 0 <= s.leadLen /\ 0 <= from /\ from <= Len(s.retained) /\ from - 0 = from
        /\ s.leadLen <= from - 0 /\ s.unitStart <= from - 0
        /\ 0 + 0 = 0 /\ 0 + s.leadLen = s.leadLen /\ 0 + s.unitStart = s.unitStart
    BY <1>1, <1>3
  <2>2. /\ Slice(Slice(s.retained, 0, from), 0, s.leadLen) = Slice(s.retained, 0 + 0, 0 + s.leadLen)
        /\ Slice(Slice(s.retained, 0, from), s.leadLen, s.unitStart)
             = Slice(s.retained, 0 + s.leadLen, 0 + s.unitStart)
    BY <1>1, <1>3, <2>1, SliceOfSlice
  <2> QED
    BY <1>4, <2>1, <2>2 DEF Lead, Batch
<1>8. Unit(t) = Slice(Unit(s), 0, k)
  <2>1. /\ 0 <= from /\ from <= Len(s.retained) /\ from - 0 = from
        /\ s.unitStart <= from - 0 /\ from <= from - 0
        /\ 0 + s.unitStart = s.unitStart /\ 0 + from = from
    BY <1>1, <1>3
  <2>2. Slice(Slice(s.retained, 0, from), s.unitStart, from)
          = Slice(s.retained, 0 + s.unitStart, 0 + from)
    BY <1>1, <1>3, <2>1, SliceOfSlice
  <2>3. /\ 0 <= k /\ k <= n - s.unitStart /\ s.unitStart + 0 = s.unitStart
    BY <1>1, <1>2, <1>3
  <2>4. Slice(Slice(s.retained, s.unitStart, n), 0, k)
          = Slice(s.retained, s.unitStart + 0, s.unitStart + k)
    BY <1>1, <1>3, <2>3, SliceOfSlice
  <2> QED
    BY <1>4, <1>5, <2>1, <2>2, <2>3, <2>4 DEF Unit, from
<1>9. Slice(s.retained, from, n) = Slice(Unit(s), k, m)
  <2>1. /\ m <= n - s.unitStart /\ s.unitStart + m = n
    BY <1>1, <1>2
  <2>2. Slice(Slice(s.retained, s.unitStart, n), k, m)
          = Slice(s.retained, s.unitStart + k, s.unitStart + m)
    BY <1>1, <1>3, <2>1, SliceOfSlice
  <2> QED
    BY <2>1, <2>2 DEF Unit, from
<1> QED
  BY <1>1, <1>3, <1>4, <1>6, <1>7, <1>8, <1>9 DEF t, from, m

(* Closing the lines before the held one and taking that one again reads   *)
(* nothing twice and drops nothing.                                        *)
LEMMA SplitBeforeLastLineSound ==
  ASSUME NEW text, NEW s, Sound(s, text), s.error = "none"
  PROVE  Reads(s, SplitBeforeLastLine(s), 0, text)
<1> DEFINE k == LastLineStart(Unit(s))
           from == s.unitStart + k
           line == Slice(s.retained, from, Len(s.retained))
           above == [s EXCEPT !.retained = Slice(@, 0, from)]
           closed == CloseUnit(above)
           t == SplitBeforeLastLine(s)
<1>1. /\ s.retained \in Seq(Symbols) /\ Len(s.retained) \in Nat
      /\ s.unitStart \in Nat /\ s.unitStart <= Len(s.retained)
      /\ Base(s) \in Nat /\ ReadTo(s) = Base(s) + Len(s.retained)
  BY DEF Sound, InOrder, Base, ReadTo
<1>2. k \in 0..Len(Unit(s)) /\ Len(Unit(s)) = Len(s.retained) - s.unitStart
  BY Parts, LastLineStartRange DEF Sound
<1>3. t = IF closed.error # "none" THEN closed ELSE AppendRetained(closed, line, TRUE)
  BY DEF SplitBeforeLastLine, AppendHeldLine
<1>4. /\ Sound(above, text) /\ above.error = "none" /\ above.state = s.state
      /\ ReadTo(above) = Base(s) + from
  <2>1. ReadTo(above) = Base(s) + s.unitStart + k
    BY <1>2, CutUnit
  <2> HIDE DEF k, above
  <2>2. k \in Nat
    BY <1>1, <1>2
  <2> QED
    BY <1>1, <1>2, <2>1, <2>2, CutUnit DEF above
<1> HIDE DEF k, above
<1>5. from \in Nat /\ s.unitStart <= from /\ from <= Len(s.retained)
      /\ Len(s.retained) <= Len(s.retained)
  BY <1>1, <1>2
<1> HIDE DEF from
<1>6. /\ line \in Seq(Symbols) /\ Len(line) = Len(s.retained) - from
      /\ \A i \in 1..(Len(s.retained) - from) : line[i] = s.retained[from + i]
  BY <1>1, <1>5, SliceProperties, Zenon
<1> HIDE DEF line
<1>7. /\ Sound(closed, text) /\ ReadTo(closed) = Base(s) + from
      /\ closed.state = s.state /\ closed.error \in {"none"} \cup StageErrors
  BY <1>4, CloseUnitSound
<1> HIDE DEF closed, t
<1>8. CASE closed.error # "none"
  BY <1>3, <1>7, <1>8 DEF Reads, Reported, t
<1>9. CASE closed.error = "none"
  <2>1. t = AppendRetained(closed, line, TRUE)
    BY <1>3, <1>9
  <2>2. Follows(line, closed, text)
    <3>1. ASSUME NEW i \in 1..Len(line)
          PROVE  line[i] = text[ReadTo(closed) + i]
      <4>1. from + i \in 1..Len(s.retained)
            /\ Base(s) + (from + i) = ReadTo(closed) + i
        BY <1>1, <1>5, <1>6, <1>7
      <4>2. s.retained[from + i] = text[Base(s) + (from + i)]
        BY <4>1 DEF Sound, HoldsPartOf
      <4> QED
        BY <1>6, <4>1, <4>2
    <3>2. ReadTo(closed) + Len(line) = ReadTo(s)
      BY <1>1, <1>5, <1>6, <1>7
    <3> QED
      BY <1>6, <3>1, <3>2 DEF Follows, Sound, HoldsPartOf
  <2>3. Reads(closed, t, Len(line), text)
    BY <1>7, <1>9, <2>1, <2>2, AppendRetainedSound
  <2> QED
    BY <1>1, <1>5, <1>6, <1>7, <2>3 DEF Reads, t
<1> QED
  BY <1>8, <1>9

(* Judging a completed line leaves a sound buffer whichever way it         *)
(* decides.                                                                *)
LEMMA JudgeLineSound ==
  ASSUME NEW text, NEW s, Sound(s, text), s.error = "none", Bounded(s)
  PROVE  Reads(s, JudgeLine(s), 0, text)
<1> DEFINE other == OpenConstruct(Unit(s))
           aws == OpenAwsCandidate(Unit(s), LineAboveCarriesId(s))
           lineStart == LastLineStart(Unit(s))
           judged == IF ~other /\ ~aws THEN CloseUnit(s)
                     ELSE IF ~other /\ s.awsHeldLine \notin {NoLine, lineStart}
                       THEN SplitBeforeLastLine(s)
                     ELSE s
           t == JudgeLine(s)
<1>1. t = IF judged.error # "none" THEN judged
          ELSE [judged EXCEPT !.awsHeldLine =
                  IF ~other /\ aws THEN LastLineStart(Unit(judged)) ELSE NoLine]
  BY DEF JudgeLine, HoldLine
<1>2. ReadTo(s) \in Int
  BY DEF Sound, InOrder, ReadTo, Base
<1>3. Reads(s, judged, 0, text)
  <2>1. Reads(s, s, 0, text)
    BY <1>2 DEF Reads, Reported
  <2>2. Reads(s, SplitBeforeLastLine(s), 0, text)
    BY SplitBeforeLastLineSound
  <2>3. Reads(s, CloseUnit(s), 0, text)
    <3> DEFINE c == CloseUnit(s)
    <3>1. /\ Sound(c, text) /\ ReadTo(c) = ReadTo(s)
          /\ Len(c.retained) - c.leadLen <= Len(s.retained) - s.leadLen
          /\ c.state = s.state /\ c.error \in {"none"} \cup StageErrors
      BY CloseUnitSound
    <3> HIDE DEF c
    <3>2. Bounded(c)
      <4>1. /\ Len(c.retained) \in Nat /\ c.leadLen \in Nat
            /\ Len(s.retained) \in Nat /\ s.leadLen \in Nat
        BY <3>1 DEF Sound, InOrder
      <4> QED
        BY <3>1, <4>1, LimitsAssumption DEF Bounded
    <3>3. Reads(s, c, 0, text)
      BY <1>2, <3>1, <3>2 DEF Reads, Reported
    <3> QED
      BY <3>3 DEF c
  <2> QED
    BY <2>1, <2>2, <2>3
<1> HIDE DEF judged, t
<1>4. CASE judged.error # "none"
  BY <1>1, <1>3, <1>4 DEF t
<1>5. CASE judged.error = "none"
  <2>1. SameBuffer(judged, t) /\ t.error = "none" /\ t.state = judged.state
    BY <1>1, <1>3, <1>5 DEF SameBuffer, Reads, Sound, InOrder, Fields
  <2>2. Sound(t, text) /\ ReadTo(t) = ReadTo(judged)
    BY <1>3, <2>1, SameBufferSound DEF Reads
  <2>3. Bounded(t)
    BY <1>3, <1>5, <2>1 DEF Reads, Bounded, SameBuffer
  <2> QED
    BY <1>3, <1>5, <2>1, <2>2, <2>3 DEF Reads, t
<1> QED
  BY <1>4, <1>5

(* Taking one piece of an append, from push to judgement, leaves a sound   *)
(* buffer or an error to report.                                           *)
LEMMA TakePieceSound ==
  ASSUME NEW text, NEW s, Sound(s, text), s.error = "none",
         NEW piece, Follows(piece, s, text), NEW closesLine
  PROVE  Reads(s, TakePiece(s, piece, closesLine), Len(piece), text)
<1> DEFINE taken == AppendRetained(s, piece, closesLine)
           t == TakePiece(s, piece, closesLine)
<1>1. Reads(s, taken, Len(piece), text)
  BY AppendRetainedSound
<1>2. t = IF taken.error # "none" \/ ~closesLine THEN taken
          ELSE IF taken.multilineOpen THEN [taken EXCEPT !.awsHeldLine = NoLine]
          ELSE JudgeLine(taken)
  BY DEF TakePiece, JudgeClosedLine
<1> HIDE DEF taken, t
<1>3. CASE taken.error # "none" \/ ~closesLine
  BY <1>1, <1>2, <1>3 DEF t
<1>4. CASE taken.error = "none" /\ closesLine /\ taken.multilineOpen
  <2>1. t = [taken EXCEPT !.awsHeldLine = NoLine]
    BY <1>2, <1>4
  <2>2. SameBuffer(taken, t) /\ t.error = "none" /\ t.state = taken.state
    BY <1>1, <1>4, <2>1 DEF SameBuffer, Reads, Sound, InOrder, Fields
  <2>3. Sound(t, text) /\ ReadTo(t) = ReadTo(taken)
    BY <1>1, <2>2, SameBufferSound DEF Reads
  <2>4. Bounded(t)
    BY <1>1, <1>4, <2>2 DEF Reads, Bounded, SameBuffer
  <2> QED
    BY <1>1, <1>4, <2>2, <2>3, <2>4 DEF Reads, t
<1>5. CASE taken.error = "none" /\ closesLine /\ ~taken.multilineOpen
  <2>1. t = JudgeLine(taken)
    BY <1>2, <1>5
  <2>2. Sound(taken, text) /\ Bounded(taken) /\ taken.state = s.state
        /\ ReadTo(taken) = ReadTo(s) + Len(piece)
    BY <1>1, <1>5 DEF Reads
  <2>3. Reads(taken, t, 0, text)
    BY <1>5, <2>1, <2>2, JudgeLineSound, Zenon
  <2>4. ReadTo(taken) \in Int
    BY <2>2, SMTT(30) DEF Sound, InOrder, ReadTo, Base
  <2> QED
    BY <2>2, <2>3, <2>4 DEF Reads, t
<1> QED
  BY <1>3, <1>4, <1>5

------------------------------------------------------------------------------
(* The inductive invariant.                                                *)

(* What the call that is running has not read comes next in the text; when *)
(* none is, everything fed has been read.                                  *)
ReadsInOrder ==
  Accepting =>
    /\ HoldsPartOf(session, fed)
    /\ ReadTo(session) + Len(rest) = Len(fed)
    /\ \A i \in 1..Len(rest) : rest[i] = fed[ReadTo(session) + i]

(* Text is left to read only while an append runs, in an accepting         *)
(* session.                                                                *)
OnlyRunningReads ==
  /\ running \in BOOLEAN
  /\ running => Accepting
  /\ ~running => rest = <<>>

(* An ended session holds nothing.                                         *)
EndedIsEmpty ==
  ~Accepting =>
    /\ session.retained = <<>> /\ session.unitEnds = <<>>
    /\ session.leadLen = 0 /\ session.awsHeldLine = NoLine
    /\ ~session.multilineOpen /\ ~session.multilineDetected

(* The codes a call may return.                                            *)
Results == {"ok", "InvalidState", "InputLimitExceeded"} \cup (Reported \ {"none"})

(* The inductive invariant of the offsets, the limits and the codes.       *)
IInv ==
  /\ InOrder(session)
  /\ session.state \in {"accepting", "finalized", "aborted", "failed"}
  /\ session.error = "none"
  /\ fed \in Seq(Symbols) /\ rest \in Seq(Symbols)
  /\ failedUnit \in Nat
  /\ result \in Results
  /\ Bounded(session)
  /\ ReadsInOrder
  /\ OnlyRunningReads
  /\ EndedIsEmpty

(* A new session satisfies the invariant.                                  *)
LEMMA InitEstablishesIInv ==
  Init => IInv
<1> SUFFICES ASSUME Init
             PROVE  IInv
  OBVIOUS
<1>1. /\ DOMAIN session = Fields
      /\ session.retained = <<>> /\ session.unitEnds = <<>>
      /\ session.leadLen = 0 /\ session.unitStart = 0
      /\ session.finalizedBytes = 0 /\ session.totalInputBytes = 0
      /\ session.state = "accepting" /\ session.error = "none"
  BY DEF Init, Fresh, Fields
<1>2. InOrder(session)
  BY <1>1 DEF InOrder
<1>3. Bounded(session)
  BY <1>1, LimitsAssumption DEF Bounded
<1>4. ReadsInOrder
  <2>1. rest = <<>> /\ fed = <<>>
    BY DEF Init
  <2>2. ReadTo(session) = 0
    BY <1>1 DEF ReadTo, Base
  <2> QED
    BY <1>1, <2>1, <2>2 DEF ReadsInOrder, HoldsPartOf
<1>5. OnlyRunningReads /\ EndedIsEmpty
  BY <1>1 DEF Init, OnlyRunningReads, EndedIsEmpty, Accepting
<1> QED
  BY <1>1, <1>2, <1>3, <1>4, <1>5 DEF IInv, Init, Results

(* What discard_retained leaves: no text, and every offset back at nought. *)
LEMMA DiscardRetainedFields ==
  ASSUME NEW s, InOrder(s)
  PROVE  LET t == DiscardRetained(s) IN
         /\ DOMAIN t = Fields
         /\ t.retained = <<>> /\ t.unitEnds = <<>>
         /\ t.leadLen = 0 /\ t.unitStart = 0 /\ t.awsHeldLine = NoLine
         /\ t.multilineOpen = FALSE /\ t.multilineDetected = FALSE
         /\ t.finalizedBytes = s.finalizedBytes /\ t.totalInputBytes = s.totalInputBytes
         /\ t.state = s.state /\ t.error = s.error
  BY DEF DiscardRetained, ResetUnitState, InOrder, Fields

(* A session that ends in t keeps the invariant, whatever it held before.  *)
LEMMA EndKeepsIInv ==
  ASSUME IInv, NEW s, InOrder(s), NEW state \in {"finalized", "aborted", "failed"},
         session'.state = state, session'.error = "none",
         DOMAIN session' = Fields,
         session'.retained = <<>>, session'.unitEnds = <<>>,
         session'.leadLen = 0, session'.unitStart = 0, session'.awsHeldLine = NoLine,
         session'.multilineOpen = FALSE, session'.multilineDetected = FALSE,
         session'.finalizedBytes = s.finalizedBytes,
         session'.totalInputBytes = s.totalInputBytes,
         rest' = <<>>, running' = FALSE, fed' = fed, failedUnit' \in Nat, result' \in Results
  PROVE  IInv'
<1>1. InOrder(session)'
  BY DEF InOrder
<1>2. Bounded(session)'
  BY LimitsAssumption DEF Bounded
<1>3. ~Accepting'
  BY DEF Accepting
<1>4. ReadsInOrder' /\ OnlyRunningReads' /\ EndedIsEmpty'
  BY <1>3 DEF ReadsInOrder, OnlyRunningReads, EndedIsEmpty
<1> QED
  BY <1>1, <1>2, <1>4 DEF IInv

(* A session that fails holds nothing and keeps the invariant.             *)
LEMMA FailKeepsIInv ==
  ASSUME IInv, NEW s, InOrder(s), NEW error \in Results, Fail(s, error), fed' = fed
  PROVE  IInv'
<1> DEFINE t == DiscardRetained(s)
<1>1. /\ DOMAIN t = Fields
      /\ t.retained = <<>> /\ t.unitEnds = <<>>
      /\ t.leadLen = 0 /\ t.unitStart = 0 /\ t.awsHeldLine = NoLine
      /\ t.multilineOpen = FALSE /\ t.multilineDetected = FALSE
      /\ t.finalizedBytes = s.finalizedBytes /\ t.totalInputBytes = s.totalInputBytes
  BY DiscardRetainedFields
<1>2. /\ session' = [t EXCEPT !.state = "failed", !.text = <<>>, !.found = {}, !.error = "none"]
      /\ rest' = <<>> /\ running' = FALSE /\ result' = error
      /\ failedUnit' = s.finalizedBytes + s.unitStart - s.leadLen
  BY DEF Fail
<1>3. failedUnit' \in Nat
  BY <1>2 DEF InOrder
<1> HIDE DEF t
<1>4. /\ session'.state = "failed" /\ session'.error = "none"
      /\ DOMAIN session' = Fields
      /\ session'.retained = <<>> /\ session'.unitEnds = <<>>
      /\ session'.leadLen = 0 /\ session'.unitStart = 0 /\ session'.awsHeldLine = NoLine
      /\ session'.multilineOpen = FALSE /\ session'.multilineDetected = FALSE
      /\ session'.finalizedBytes = s.finalizedBytes
      /\ session'.totalInputBytes = s.totalInputBytes
  BY <1>1, <1>2 DEF Fields
<1> QED
  BY <1>2, <1>3, <1>4, EndKeepsIInv

(* While a call runs or between calls, the invariant is about the buffer.  *)
LEMMA ProceedKeepsIInv ==
  ASSUME IInv, Sound(session, fed)', Bounded(session)', session'.error = "none",
         session'.state = "accepting",
         fed' \in Seq(Symbols), rest' \in Seq(Symbols),
         ReadTo(session)' + Len(rest') = Len(fed'),
         \A i \in 1..Len(rest') : rest'[i] = fed'[ReadTo(session)' + i],
         running' \in BOOLEAN, ~running' => rest' = <<>>,
         failedUnit' = failedUnit, result' \in Results
  PROVE  IInv'
<1>1. Accepting'
  BY DEF Accepting
<1>2. ReadsInOrder'
  BY DEF ReadsInOrder, Sound
<1>3. OnlyRunningReads' /\ EndedIsEmpty'
  BY <1>1 DEF OnlyRunningReads, EndedIsEmpty
<1> QED
  BY <1>2, <1>3 DEF IInv, Sound

(* Starting an append keeps the invariant.                                 *)
LEMMA AppendCallKeepsIInv ==
  ASSUME IInv, NEW chunk, AppendCall(chunk)
  PROVE  IInv'
<1>1. session.state = "accepting" /\ ~running /\ chunk \in Seq(Symbols)
  BY DEF AppendCall
<1>2. CASE Len(chunk) > MaxInputBytes - session.totalInputBytes
  <2>1. Fail(session, "InputLimitExceeded") /\ fed' = fed
    BY <1>2 DEF AppendCall
  <2>2. "InputLimitExceeded" \in Results /\ InOrder(session)
    BY DEF Results, IInv
  <2> QED
    BY <2>1, <2>2, FailKeepsIInv
<1>3. CASE ~(Len(chunk) > MaxInputBytes - session.totalInputBytes)
  <2>1. /\ session' = [session EXCEPT !.totalInputBytes = @ + Len(chunk)]
        /\ rest' = chunk /\ running' = TRUE
        /\ fed' = fed \o chunk
        /\ result' = result /\ failedUnit' = failedUnit
    BY <1>3 DEF AppendCall
  <2>2. /\ InOrder(session) /\ HoldsPartOf(session, fed) /\ fed \in Seq(Symbols)
        /\ rest = <<>> /\ ReadTo(session) = Len(fed) /\ Bounded(session)
    <3>1. Accepting /\ ReadsInOrder /\ rest = <<>>
      BY <1>1 DEF Accepting, IInv, OnlyRunningReads
    <3>2. ReadTo(session) + Len(rest) = Len(fed) /\ ReadTo(session) \in Int
      BY <3>1 DEF ReadsInOrder, IInv, InOrder, ReadTo, Base
    <3> QED
      BY <3>1, <3>2 DEF ReadsInOrder, IInv
  <2>3. /\ DOMAIN session' = Fields
        /\ session'.retained = session.retained /\ session'.leadLen = session.leadLen
        /\ session'.unitStart = session.unitStart /\ session'.unitEnds = session.unitEnds
        /\ session'.finalizedBytes = session.finalizedBytes
        /\ session'.totalInputBytes = session.totalInputBytes + Len(chunk)
        /\ session'.state = "accepting" /\ session'.error = "none"
    <3>1. /\ DOMAIN session = Fields /\ session.error = "none" /\ session.totalInputBytes \in Nat
      BY <2>2 DEF IInv, InOrder
    <3>2. session.state = "accepting" /\ session' = [session EXCEPT !.totalInputBytes = @ + Len(chunk)]
      BY <1>1, <2>1
    <3> QED
      BY <3>1, <3>2 DEF Fields
  <2>4. /\ fed' \in Seq(Symbols) /\ Len(fed') = Len(fed) + Len(chunk)
        /\ \A i \in 1..Len(fed) : fed'[i] = fed[i]
        /\ \A i \in 1..Len(chunk) : fed'[Len(fed) + i] = chunk[i]
    BY <1>1, <2>1, <2>2
  <2>5. InOrder(session)'
    <3>1. session'.totalInputBytes \in Nat
      BY <1>1, <2>2, <2>3 DEF InOrder
    <3>2. \A k \in 1..Len(session.unitEnds) : UnitFrom(session, k)' = UnitFrom(session, k)
      BY <2>3 DEF UnitFrom
    <3> HIDE DEF UnitFrom
    <3> QED
      BY <2>2, <2>3, <3>1, <3>2 DEF InOrder
  <2>6. ReadTo(session)' = ReadTo(session) /\ Base(session)' = Base(session)
        /\ Base(session) \in Nat
    BY <2>2, <2>3 DEF ReadTo, Base, InOrder
  <2>7. HoldsPartOf(session, fed)'
    <3>1. ASSUME NEW i \in 1..Len(session.retained)
          PROVE  session'.retained[i] = fed'[Base(session)' + i]
      <4>1. Base(session) + i \in 1..Len(fed)
        BY <2>2, <2>6 DEF ReadTo, InOrder
      <4> QED
        BY <2>2, <2>3, <2>4, <2>6, <4>1 DEF HoldsPartOf
    <3>2. ReadTo(session)' <= Len(fed')
      BY <1>1, <2>2, <2>4, <2>6
    <3> QED
      BY <2>3, <3>1, <3>2 DEF HoldsPartOf
  <2>8. Bounded(session)'
    BY <2>2, <2>3 DEF Bounded
  <2>9. result' \in Results
    BY <2>1 DEF IInv
  <2>10. /\ ReadTo(session)' + Len(rest') = Len(fed')
         /\ \A i \in 1..Len(rest') : rest'[i] = fed'[ReadTo(session)' + i]
    <3>1. ReadTo(session)' = Len(fed)
      BY <2>2, <2>6
    <3>2. Len(rest') = Len(chunk) /\ \A i \in 1..Len(chunk) : rest'[i] = fed'[Len(fed) + i]
      BY <2>1, <2>4
    <3> QED
      BY <2>4, <3>1, <3>2
  <2>11. /\ Sound(session, fed)' /\ running' \in BOOLEAN /\ (~running' => rest' = <<>>)
         /\ rest' \in Seq(Symbols)
    BY <1>1, <2>1, <2>5, <2>7 DEF Sound
  <2> QED
    BY <2>1, <2>3, <2>4, <2>8, <2>9, <2>10, <2>11, ProceedKeepsIInv
<1> QED
  BY <1>2, <1>3

(* Taking one piece of an append keeps the invariant.                      *)
LEMMA AppendPieceKeepsIInv ==
  ASSUME IInv, AppendPiece
  PROVE  IInv'
<1> DEFINE length == PieceLength(rest)
           piece == SubSeq(rest, 1, length)
           after == TakePiece(session, piece, piece[length] \in Terminators)
<1>1. running /\ rest # <<>> /\ fed' = fed
  BY DEF AppendPiece, Proceed
<1>2. /\ Sound(session, fed) /\ session.error = "none" /\ session.state = "accepting"
      /\ ReadTo(session) + Len(rest) = Len(fed)
      /\ \A i \in 1..Len(rest) : rest[i] = fed[ReadTo(session) + i]
      /\ fed \in Seq(Symbols) /\ rest \in Seq(Symbols)
  BY <1>1 DEF IInv, OnlyRunningReads, ReadsInOrder, Sound, Accepting
<1>3. length \in 1..Len(rest)
  BY <1>1, <1>2, PieceLengthRange
<1>4. ReadTo(session) \in Nat
  BY <1>2 DEF Sound, InOrder, ReadTo, Base
<1>5. after.error # "none" => Fail(after, after.error)
  BY DEF AppendPiece, Proceed
<1>6. after.error = "none" =>
        /\ session' = after
        /\ rest' = SubSeq(rest, length + 1, Len(rest))
        /\ running' = running /\ result' = result /\ failedUnit' = failedUnit
  BY DEF AppendPiece, Proceed
<1> HIDE DEF length
<1>7. /\ piece \in Seq(Symbols) /\ Len(piece) = length
      /\ \A i \in 1..Len(piece) : piece[i] = rest[i]
  BY <1>2, <1>3
<1> HIDE DEF piece
<1>8. Follows(piece, session, fed)
  BY <1>2, <1>3, <1>4, <1>7 DEF Follows
<1>9. Reads(session, after, Len(piece), fed)
  BY <1>2, <1>8, TakePieceSound
<1> HIDE DEF after
<1>10. CASE after.error # "none"
  <2>1. after.error \in Results /\ InOrder(after)
    BY <1>9, <1>10 DEF Reads, Results, Sound
  <2> QED
    BY <1>1, <1>5, <1>10, <2>1, FailKeepsIInv
<1>11. CASE after.error = "none"
  <2>1. Sound(session, fed)' /\ Bounded(session)' /\ session'.state = "accepting"
        /\ ReadTo(session)' = ReadTo(session) + length
    BY <1>1, <1>2, <1>6, <1>7, <1>9, <1>11 DEF Reads
  <2>2. /\ rest' \in Seq(Symbols) /\ Len(rest') = Len(rest) - length
        /\ \A i \in 1..Len(rest') : rest'[i] = rest[length + i]
    <3>1. rest' = Slice(rest, length, Len(rest))
      BY <1>6, <1>11 DEF Slice
    <3>2. /\ length \in Nat /\ Len(rest) \in Nat
          /\ length <= Len(rest) /\ Len(rest) <= Len(rest)
      BY <1>2, <1>3
    <3>3. /\ rest' \in Seq(Symbols) /\ Len(rest') = Len(rest) - length
          /\ \A i \in 1..(Len(rest) - length) : rest'[i] = rest[length + i]
      BY <1>2, <3>1, <3>2, SliceProperties, Zenon
    <3> QED
      BY <3>3
  <2>3. ReadTo(session)' + Len(rest') = Len(fed')
    BY <1>1, <1>2, <1>3, <1>4, <2>1, <2>2
  <2>4. ASSUME NEW i \in 1..Len(rest')
        PROVE  rest'[i] = fed'[ReadTo(session)' + i]
    <3>1. length + i \in 1..Len(rest)
          /\ ReadTo(session) + (length + i) = ReadTo(session)' + i
      BY <1>2, <1>3, <1>4, <2>1, <2>2
    <3>2. rest[length + i] = fed[ReadTo(session) + (length + i)]
      BY <1>2, <3>1
    <3> QED
      BY <1>1, <2>2, <3>1, <3>2
  <2>5. result' \in Results /\ running' = TRUE
    BY <1>1, <1>6, <1>11 DEF IInv, OnlyRunningReads
  <2>6. session'.error = "none" /\ fed' \in Seq(Symbols) /\ failedUnit' = failedUnit
    BY <1>1, <1>2, <1>6, <1>11
  <2> QED
    BY <2>1, <2>2, <2>3, <2>4, <2>5, <2>6, ProceedKeepsIInv
<1> QED
  BY <1>10, <1>11

(* Returning from an append keeps the invariant.                           *)
LEMMA AppendReturnKeepsIInv ==
  ASSUME IInv, AppendReturn
  PROVE  IInv'
<1> DEFINE flushed == FlushBatch(session)
<1>1. running /\ rest = <<>> /\ fed' = fed
  BY DEF AppendReturn
<1>2. /\ Sound(session, fed) /\ session.error = "none" /\ session.state = "accepting"
      /\ ReadTo(session) + Len(rest) = Len(fed)
      /\ Bounded(session) /\ fed \in Seq(Symbols)
  BY <1>1 DEF IInv, OnlyRunningReads, ReadsInOrder, Sound, Accepting
<1>3. Sound(flushed, fed) /\ Keeps(session, flushed)
  BY <1>2, FlushBatchSound
<1>4. IF flushed.error # "none" THEN Fail(flushed, flushed.error)
      ELSE Return(flushed) /\ rest' = rest
  BY DEF AppendReturn
<1> HIDE DEF flushed
<1>5. CASE flushed.error # "none"
  <2>1. flushed.error \in Results /\ InOrder(flushed)
    BY <1>3, <1>5 DEF Keeps, Results, Reported, Sound
  <2> QED
    BY <1>1, <1>4, <1>5, <2>1, FailKeepsIInv
<1>6. CASE flushed.error = "none"
  <2>1. /\ session' = [flushed EXCEPT !.text = <<>>, !.found = {}]
        /\ result' = "ok" /\ running' = FALSE /\ rest' = <<>> /\ failedUnit' = failedUnit
    BY <1>1, <1>4, <1>6 DEF Return
  <2>2. SameBuffer(flushed, session') /\ session'.state = "accepting"
        /\ session'.error = "none"
    BY <1>2, <1>3, <1>6, <2>1 DEF SameBuffer, Keeps, Sound, InOrder, Fields
  <2>3. Sound(session', fed) /\ ReadTo(session') = ReadTo(session)
    <3>1. Sound(session', fed) /\ ReadTo(session') = ReadTo(flushed)
      BY <1>3, <2>2, SameBufferSound, Zenon
    <3> QED
      BY <1>3, <3>1 DEF Keeps
  <2>4. Sound(session, fed)' /\ ReadTo(session)' = ReadTo(session)
    BY <1>1, <2>3 DEF Sound, InOrder, HoldsPartOf, ReadTo, Base, UnitFrom
  <2>5. Bounded(session)'
    <3>1. /\ Len(flushed.retained) \in Nat /\ flushed.leadLen \in Nat
          /\ Len(session.retained) \in Nat /\ session.leadLen \in Nat
      BY <1>2, <1>3 DEF Sound, InOrder
    <3> QED
      BY <1>2, <1>3, <2>2, <3>1, LimitsAssumption, SMTT(30) DEF Bounded, Keeps, SameBuffer
  <2>6. /\ fed' \in Seq(Symbols) /\ rest' \in Seq(Symbols)
        /\ ReadTo(session)' + Len(rest') = Len(fed')
        /\ \A i \in 1..Len(rest') : rest'[i] = fed'[ReadTo(session)' + i]
    BY <1>1, <1>2, <2>1, <2>4
  <2>7. running' \in BOOLEAN /\ result' \in Results
    BY <2>1 DEF Results
  <2> QED
    BY <2>1, <2>2, <2>4, <2>5, <2>6, <2>7, ProceedKeepsIInv
<1> QED
  BY <1>5, <1>6

(* finalize keeps the invariant, whether it succeeds or reports a limit.   *)
LEMMA FinalizeKeepsIInv ==
  ASSUME IInv, Finalize
  PROVE  IInv'
<1> DEFINE closed == [session EXCEPT !.unitEnds = Append(@, Len(session.retained)),
                                     !.unitStart = Len(session.retained)]
           flushed == FlushBatch(closed)
           ended == DiscardRetained(flushed)
<1>1. session.state = "accepting" /\ ~running /\ fed' = fed
  BY DEF Finalize
<1>2. Sound(session, fed) /\ session.error = "none" /\ rest = <<>>
  BY <1>1 DEF IInv, OnlyRunningReads, ReadsInOrder, Sound, Accepting
<1>3. Closes(session, closed)
  BY <1>2 DEF Closes, Sound, InOrder, Fields
<1>4. IF flushed.error # "none" THEN Fail(flushed, flushed.error)
      ELSE Return([ended EXCEPT !.state = "finalized"]) /\ rest' = rest
  BY DEF Finalize
<1> HIDE DEF closed
<1>5. Sound(closed, fed) /\ closed.error = "none"
  <2>1. closed.error = "none"
    BY <1>2, <1>3 DEF Closes
  <2> QED
    BY <1>2, <1>3, <2>1, ClosesSound
<1>6. InOrder(flushed) /\ Keeps(closed, flushed)
  BY <1>5, FlushBatchSound DEF Sound
<1> HIDE DEF flushed
<1>7. CASE flushed.error # "none"
  <2>1. flushed.error \in Results
    BY <1>6, <1>7 DEF Keeps, Results, Reported
  <2> QED
    BY <1>1, <1>4, <1>6, <1>7, <2>1, FailKeepsIInv
<1>8. CASE flushed.error = "none"
  <2>1. /\ DOMAIN ended = Fields
        /\ ended.retained = <<>> /\ ended.unitEnds = <<>>
        /\ ended.leadLen = 0 /\ ended.unitStart = 0 /\ ended.awsHeldLine = NoLine
        /\ ended.multilineOpen = FALSE /\ ended.multilineDetected = FALSE
        /\ ended.finalizedBytes = flushed.finalizedBytes
        /\ ended.totalInputBytes = flushed.totalInputBytes
        /\ ended.error = "none"
    BY <1>6, <1>8, DiscardRetainedFields
  <2> HIDE DEF ended
  <2>2. /\ session' = [[ended EXCEPT !.state = "finalized"] EXCEPT !.text = <<>>, !.found = {}]
        /\ result' = "ok" /\ running' = FALSE /\ rest' = <<>> /\ failedUnit' = failedUnit
    BY <1>2, <1>4, <1>8 DEF Return
  <2>3. /\ session'.state = "finalized" /\ session'.error = "none"
        /\ DOMAIN session' = Fields
        /\ session'.retained = <<>> /\ session'.unitEnds = <<>>
        /\ session'.leadLen = 0 /\ session'.unitStart = 0 /\ session'.awsHeldLine = NoLine
        /\ session'.multilineOpen = FALSE /\ session'.multilineDetected = FALSE
        /\ session'.finalizedBytes = flushed.finalizedBytes
        /\ session'.totalInputBytes = flushed.totalInputBytes
    BY <2>1, <2>2 DEF Fields
  <2>4. failedUnit' \in Nat /\ result' \in Results
    BY <2>2 DEF IInv, Results
  <2> QED
    BY <1>1, <1>6, <2>2, <2>3, <2>4, EndKeepsIInv
<1> QED
  BY <1>7, <1>8

(* abort keeps the invariant.                                              *)
LEMMA AbortKeepsIInv ==
  ASSUME IInv, Abort
  PROVE  IInv'
<1> DEFINE ended == DiscardRetained(session)
<1>1. /\ ~running /\ session' = [ended EXCEPT !.state = "aborted"] /\ result' = "ok"
      /\ rest' = rest /\ running' = running /\ fed' = fed /\ failedUnit' = failedUnit
  BY DEF Abort
<1>2. rest' = <<>> /\ running' = FALSE /\ failedUnit' \in Nat /\ result' \in Results
  BY <1>1 DEF IInv, OnlyRunningReads, Results
<1>3. InOrder(session)
  BY DEF IInv
<1>4. /\ DOMAIN ended = Fields
      /\ ended.retained = <<>> /\ ended.unitEnds = <<>>
      /\ ended.leadLen = 0 /\ ended.unitStart = 0 /\ ended.awsHeldLine = NoLine
      /\ ended.multilineOpen = FALSE /\ ended.multilineDetected = FALSE
      /\ ended.finalizedBytes = session.finalizedBytes
      /\ ended.totalInputBytes = session.totalInputBytes
      /\ ended.error = "none"
  BY <1>3, DiscardRetainedFields DEF IInv
<1> HIDE DEF ended
<1>5. /\ session'.state = "aborted" /\ session'.error = "none"
      /\ DOMAIN session' = Fields
      /\ session'.retained = <<>> /\ session'.unitEnds = <<>>
      /\ session'.leadLen = 0 /\ session'.unitStart = 0 /\ session'.awsHeldLine = NoLine
      /\ session'.multilineOpen = FALSE /\ session'.multilineDetected = FALSE
      /\ session'.finalizedBytes = session.finalizedBytes
      /\ session'.totalInputBytes = session.totalInputBytes
  BY <1>1, <1>4 DEF Fields
<1> QED
  BY <1>1, <1>2, <1>3, <1>5, EndKeepsIInv

(* Refusing a call on a session that has ended keeps the invariant.        *)
LEMMA RefuseKeepsIInv ==
  ASSUME IInv, Refuse
  PROVE  IInv'
<1>1. /\ session' = session /\ rest' = rest /\ running' = running /\ fed' = fed
      /\ failedUnit' = failedUnit /\ result' = "InvalidState"
  BY DEF Refuse
<1> QED
  BY <1>1 DEF IInv, InOrder, UnitFrom, Bounded, ReadsInOrder, HoldsPartOf, ReadTo, Base,
              OnlyRunningReads, EndedIsEmpty, Accepting, Results

(* A step that changes nothing keeps the invariant.                        *)
LEMMA StutterKeepsIInv ==
  ASSUME IInv, UNCHANGED vars
  PROVE  IInv'
  BY DEF vars, IInv, InOrder, UnitFrom, Bounded, ReadsInOrder, HoldsPartOf, ReadTo, Base,
         OnlyRunningReads, EndedIsEmpty, Accepting

(* Every behaviour keeps the offsets in order and the buffer a part of the *)
(* text fed: the inductive invariant behind the theorems below.            *)
THEOREM InductiveInvariant == Spec => []IInv
<1>1. Init => IInv
  BY InitEstablishesIInv
<1>2. IInv /\ [Next]_vars => IInv'
  <2> SUFFICES ASSUME IInv, [Next]_vars
               PROVE  IInv'
    OBVIOUS
  <2>1. ASSUME NEW chunk \in Chunks(fed), AppendCall(chunk)
        PROVE  IInv'
    BY <2>1, AppendCallKeepsIInv
  <2>2. CASE AppendPiece
    BY <2>2, AppendPieceKeepsIInv
  <2>3. CASE AppendReturn
    BY <2>3, AppendReturnKeepsIInv
  <2>4. CASE Finalize
    BY <2>4, FinalizeKeepsIInv
  <2>5. CASE Abort
    BY <2>5, AbortKeepsIInv
  <2>6. CASE Refuse
    BY <2>6, RefuseKeepsIInv
  <2>7. CASE UNCHANGED vars
    BY <2>7, StutterKeepsIInv
  <2> QED
    BY <2>1, <2>2, <2>3, <2>4, <2>5, <2>6, <2>7 DEF Next
<1> QED
  BY <1>1, <1>2, PTL DEF Spec

------------------------------------------------------------------------------
(* What it implies.                                                        *)

(* In every session, whatever is appended and wherever it fails, the       *)
(* offsets into the buffer are in order and an error is a documented code. *)
THEOREM TypeCorrect == Spec => []TypeOK
<1>1. IInv => TypeOK
  BY DEF IInv, InOrder, TypeOK, OnlyRunningReads, Results, Reported, LimitErrors, StageErrors
<1> QED
  BY <1>1, InductiveInvariant, PTL

(* No flush, split, lead or limit ever drops, repeats or reorders a byte   *)
(* of what was appended (flush_batch, split_before_last_line).             *)
THEOREM NoByteIsLost == Spec => []RetainedIsSuffix
<1>1. IInv => RetainedIsSuffix
  <2> SUFFICES ASSUME IInv, Accepting
               PROVE  session.retained \o rest = Slice(fed, Base(session), Len(fed))
    BY DEF RetainedIsSuffix, Base
  <2> DEFINE n == Len(session.retained)
             m == Len(rest)
  <2>1. /\ session.retained \in Seq(Symbols) /\ rest \in Seq(Symbols) /\ fed \in Seq(Symbols)
        /\ n \in Nat /\ m \in Nat /\ Len(fed) \in Nat
        /\ Base(session) \in Nat /\ ReadTo(session) = Base(session) + n
        /\ Base(session) + n + m = Len(fed)
    BY DEF IInv, InOrder, ReadsInOrder, ReadTo, Base
  <2>2. \A i \in 1..n : session.retained[i] = fed[Base(session) + i]
    BY DEF IInv, ReadsInOrder, HoldsPartOf
  <2>3. \A i \in 1..m : rest[i] = fed[Base(session) + n + i]
    BY <2>1 DEF IInv, ReadsInOrder
  <2> DEFINE left == session.retained \o rest
             right == Slice(fed, Base(session), Len(fed))
  <2>4. /\ left \in Seq(Symbols) /\ Len(left) = n + m
        /\ \A i \in 1..n : left[i] = session.retained[i]
        /\ \A i \in 1..m : left[n + i] = rest[i]
    BY <2>1
  <2>5. /\ right \in Seq(Symbols) /\ Len(right) = Len(fed) - Base(session)
        /\ \A i \in 1..(Len(fed) - Base(session)) : right[i] = fed[Base(session) + i]
    <3>1. Base(session) <= Len(fed) /\ Len(fed) <= Len(fed)
      BY <2>1
    <3> QED
      BY <2>1, <3>1, SliceProperties, Zenon
  <2> HIDE DEF n, m, left, right
  <2>6. ASSUME NEW i \in 1..(n + m)
        PROVE  left[i] = right[i]
    <3>1. right[i] = fed[Base(session) + i]
      BY <2>1, <2>5
    <3>2. CASE i \in 1..n
      BY <2>2, <2>4, <3>1, <3>2
    <3>3. CASE i \notin 1..n
      <4>1. i - n \in 1..m /\ n + (i - n) = i /\ Base(session) + n + (i - n) = Base(session) + i
        BY <2>1, <3>3
      <4>2. left[n + (i - n)] = rest[i - n] /\ rest[i - n] = fed[Base(session) + n + (i - n)]
        BY <2>3, <2>4, <4>1
      <4> QED
        BY <3>1, <4>1, <4>2
    <3> QED
      BY <3>2, <3>3
  <2>7. Len(left) = n + m /\ Len(right) = n + m
    BY <2>1, <2>4, <2>5
  <2>8. left = right
    BY <2>4, <2>5, <2>6, <2>7
  <2> QED
    BY <2>8 DEF left, right
<1> QED
  BY <1>1, InductiveInvariant, PTL

(* Whatever the limits, what a session retains and has not released stays  *)
(* within max_buffered_bytes.                                              *)
THEOREM RetentionIsBounded == Spec => []RetentionBound
<1>1. IInv => RetentionBound
  BY DEF IInv, Bounded, RetentionBound
<1> QED
  BY <1>1, InductiveInvariant, PTL

(* With limits IncrementalLimits::new accepts, the buffer limit is never   *)
(* what fails.                                                             *)
THEOREM BufferLimitIsNeverReported == Spec => []BufferLimitNeverTrips
<1>1. IInv => BufferLimitNeverTrips
  BY DEF IInv, Results, Reported, StageErrors, BufferLimitNeverTrips
<1> QED
  BY <1>1, InductiveInvariant, PTL

(* However a session ends, no plaintext outlives it (discard_retained).    *)
THEOREM NothingOutlivesTheSession == Spec => []TerminalHoldsNothing
<1>1. IInv => TerminalHoldsNothing
  BY DEF IInv, EndedIsEmpty, OnlyRunningReads, TerminalHoldsNothing
<1> QED
  BY <1>1, InductiveInvariant, PTL

------------------------------------------------------------------------------
(* Lines.                                                                  *)

(* A text without the terminator at its end.                               *)
BodyLength(text) == Len(WithoutLast(WithoutLast(text, LF), CR))

(* The terminator at the end of a text, if there is one, is \n, \r or      *)
(* \r\n; what is before it is as it was.                                   *)
LEMMA BodyLengthIs ==
  ASSUME NEW text \in Seq(Symbols)
  PROVE  /\ BodyLength(text) =
              IF Len(text) > 1 /\ text[Len(text)] = LF /\ text[Len(text) - 1] = CR
                THEN Len(text) - 2
              ELSE IF Len(text) > 0 /\ text[Len(text)] \in Terminators
                THEN Len(text) - 1
              ELSE Len(text)
         /\ \A i \in 1..BodyLength(text) :
              WithoutLast(WithoutLast(text, LF), CR)[i] = text[i]
<1> DEFINE inner == WithoutLast(text, LF)
           body == WithoutLast(inner, CR)
<1>1. /\ inner \in Seq(Symbols) /\ Len(inner) \in Nat /\ Len(text) \in Nat
      /\ Len(inner) = IF Len(text) > 0 /\ text[Len(text)] = LF THEN Len(text) - 1 ELSE Len(text)
      /\ \A i \in 1..Len(inner) : inner[i] = text[i]
  BY DEF WithoutLast, IsTerminated
<1> HIDE DEF inner
<1>2. /\ Len(body) = IF Len(inner) > 0 /\ inner[Len(inner)] = CR
                       THEN Len(inner) - 1 ELSE Len(inner)
      /\ \A i \in 1..Len(body) : body[i] = inner[i]
  BY <1>1 DEF WithoutLast, IsTerminated
<1>3. BodyLength(text) = Len(body)
  BY DEF BodyLength, inner
<1> HIDE DEF body
<1>4. \A i \in 1..Len(body) : body[i] = text[i]
  BY <1>1, <1>2
<1>5. CASE Len(text) > 0 /\ text[Len(text)] = LF
  <2>1. Len(inner) = Len(text) - 1
    BY <1>1, <1>5
  <2>2. CASE Len(text) > 1
    <3>1. inner[Len(inner)] = text[Len(text) - 1]
      BY <1>1, <2>1, <2>2
    <3> QED
      BY <1>1, <1>2, <1>3, <1>4, <1>5, <2>1, <2>2, <3>1 DEF Terminators, body, inner
  <2>3. CASE ~(Len(text) > 1)
    BY <1>1, <1>2, <1>3, <1>4, <1>5, <2>1, <2>3 DEF Terminators, body, inner
  <2> QED
    BY <2>2, <2>3
<1>6. CASE ~(Len(text) > 0 /\ text[Len(text)] = LF)
  <2>1. Len(inner) = Len(text)
    BY <1>1, <1>6
  <2>2. Len(text) > 0 => inner[Len(inner)] = text[Len(text)]
    BY <1>1, <2>1
  <2> QED
    BY <1>1, <1>2, <1>3, <1>4, <1>6, <2>1, <2>2 DEF Terminators, body, inner
<1> QED
  BY <1>5, <1>6

(* ... and no longer than the text.                                        *)
LEMMA BodyLengthRange ==
  ASSUME NEW text \in Seq(Symbols)
  PROVE  BodyLength(text) \in 0..Len(text)
<1>1. Len(text) \in Nat OBVIOUS
<1> QED BY <1>1, BodyLengthIs

(* The last line starts behind the last terminator before its own.         *)
LEMMA LastLineStartIs ==
  ASSUME NEW text \in Seq(Symbols)
  PROVE  /\ LastLineStart(text) \in 0..BodyLength(text)
         /\ LastLineStart(text) = 0 \/ text[LastLineStart(text)] \in Terminators
         /\ \A i \in (LastLineStart(text) + 1)..BodyLength(text) : text[i] \notin Terminators
<1> DEFINE body == WithoutLast(WithoutLast(text, LF), CR)
           breaks == {i \in 1..Len(body) : body[i] \in Terminators}
<1>1. /\ BodyLength(text) = Len(body) /\ Len(body) \in Nat
      /\ \A i \in 1..Len(body) : body[i] = text[i]
  BY BodyLengthIs, BodyLengthRange DEF BodyLength
<1>2. LastLineStart(text) = IF breaks = {} THEN 0 ELSE Max(breaks)
  BY DEF LastLineStart
<1> HIDE DEF body
<1>3. breaks \in SUBSET (0..Len(body))
  BY <1>1
<1>4. breaks # {} => Max(breaks) \in breaks /\ \A y \in breaks : Max(breaks) >= y
  BY <1>1, <1>3, MaxOfBounded, Zenon
<1>5. CASE breaks = {}
  <2>1. \A i \in 1..Len(body) : text[i] \notin Terminators
    BY <1>1, <1>5
  <2> QED
    BY <1>1, <1>2, <1>5, <2>1
<1>6. CASE breaks # {}
  <2> DEFINE k == Max(breaks)
  <2>1. k \in 1..Len(body) /\ body[k] \in Terminators /\ \A y \in breaks : k >= y
    BY <1>4, <1>6
  <2> HIDE DEF k
  <2>2. \A i \in (k + 1)..Len(body) : text[i] \notin Terminators
    <3> SUFFICES ASSUME NEW i \in (k + 1)..Len(body), text[i] \in Terminators PROVE FALSE
      OBVIOUS
    <3>1. i \in breaks
      BY <1>1, <2>1
    <3> QED
      BY <1>1, <2>1, <3>1
  <2>3. LastLineStart(text) = k
    BY <1>2, <1>6 DEF k
  <2> QED
    BY <1>1, <2>1, <2>2, <2>3
<1> QED
  BY <1>5, <1>6

(* ... and there is one such place.                                        *)
LEMMA LastLineStartUnique ==
  ASSUME NEW text \in Seq(Symbols), NEW k \in 0..BodyLength(text),
         k = 0 \/ text[k] \in Terminators,
         \A i \in (k + 1)..BodyLength(text) : text[i] \notin Terminators
  PROVE  LastLineStart(text) = k
<1>1. BodyLength(text) \in Nat
  BY BodyLengthRange
<1>2. /\ LastLineStart(text) \in 0..BodyLength(text)
      /\ LastLineStart(text) = 0 \/ text[LastLineStart(text)] \in Terminators
      /\ \A i \in (LastLineStart(text) + 1)..BodyLength(text) : text[i] \notin Terminators
  BY LastLineStartIs
<1>3. ~(LastLineStart(text) < k)
  BY <1>1, <1>2
<1>4. ~(k < LastLineStart(text))
  BY <1>1, <1>2
<1> QED
  BY <1>1, <1>2, <1>3, <1>4

(* A text that is not empty has a last line that is not.                   *)
LEMMA LastLineIsNotEmpty ==
  ASSUME NEW text \in Seq(Symbols), text # <<>>
  PROVE  LastLineStart(text) < Len(text)
<1>1. Len(text) \in Nat /\ Len(text) > 0
  OBVIOUS
<1>2. /\ LastLineStart(text) \in 0..BodyLength(text)
      /\ LastLineStart(text) = 0 \/ text[LastLineStart(text)] \in Terminators
  BY LastLineStartIs
<1>3. BodyLength(text) <= Len(text) /\ BodyLength(text) \in Nat
      /\ (text[Len(text)] \in Terminators => BodyLength(text) < Len(text))
  BY <1>1, BodyLengthIs
<1> QED
  BY <1>1, <1>2, <1>3

(* Behind closed lines the last line is that of what follows them, unless  *)
(* that is the \n of a \r\n.                                               *)
LEMMA LastLineStartBehind ==
  ASSUME NEW above \in Seq(Symbols), above = <<>> \/ EndsLine(above),
         NEW text \in Seq(Symbols), text # <<>>,
         text = <<LF>> => above = <<>> \/ above[Len(above)] # CR
  PROVE  LastLineStart(above \o text) = Len(above) + LastLineStart(text)
<1> DEFINE n == Len(above)
           m == Len(text)
           whole == above \o text
           k == LastLineStart(text)
<1>1. /\ n \in Nat /\ m \in Nat /\ m > 0
      /\ whole \in Seq(Symbols) /\ Len(whole) = n + m
      /\ \A i \in 1..n : whole[i] = above[i]
      /\ \A i \in 1..m : whole[n + i] = text[i]
  OBVIOUS
<1> HIDE DEF whole
<1>2. /\ k \in 0..BodyLength(text) /\ (k = 0 \/ text[k] \in Terminators)
      /\ \A i \in (k + 1)..BodyLength(text) : text[i] \notin Terminators
  BY LastLineStartIs
<1> HIDE DEF k
<1>3. BodyLength(text) \in 0..m
  BY BodyLengthRange
<1>4. BodyLength(whole) = n + BodyLength(text)
  <2>1. whole[n + m] = text[m] /\ n + m > 0
    BY <1>1
  <2>2. BodyLength(whole) =
          IF n + m > 1 /\ whole[n + m] = LF /\ whole[n + m - 1] = CR THEN n + m - 2
          ELSE IF whole[n + m] \in Terminators THEN n + m - 1 ELSE n + m
    <3>1. BodyLength(whole) =
            IF Len(whole) > 1 /\ whole[Len(whole)] = LF /\ whole[Len(whole) - 1] = CR
              THEN Len(whole) - 2
            ELSE IF Len(whole) > 0 /\ whole[Len(whole)] \in Terminators
              THEN Len(whole) - 1
            ELSE Len(whole)
      BY <1>1, BodyLengthIs, Zenon
    <3> QED
      BY <1>1, <2>1, <3>1
  <2>3. BodyLength(text) =
          IF m > 1 /\ text[m] = LF /\ text[m - 1] = CR THEN m - 2
          ELSE IF text[m] \in Terminators THEN m - 1 ELSE m
    BY <1>1, BodyLengthIs
  <2>4. n > 0 => above[n] \in Terminators
    BY <1>1 DEF EndsLine
  <2>5. m = 1 /\ text[m] = LF => text = <<LF>>
    OBVIOUS
  <2>6. n > 0 => whole[n] = above[n]
    BY <1>1
  <2>7. m > 1 => whole[n + m - 1] = text[m - 1]
    <3> SUFFICES ASSUME m > 1 PROVE whole[n + m - 1] = text[m - 1]
      OBVIOUS
    <3>1. m - 1 \in 1..m /\ n + m - 1 = n + (m - 1)
      BY <1>1
    <3> QED
      BY <1>1, <3>1
  <2>8. n > 0 /\ text = <<LF>> => above[n] # CR
    BY <1>1
  <2> HIDE DEF n, m
  <2>9. CASE m > 1
    BY <1>1, <2>1, <2>2, <2>3, <2>7, <2>9
  <2>10. CASE m = 1
    <3>1. n + m - 1 = n /\ ~(m > 1)
      BY <1>1, <2>10
    <3>2. ~(n + m > 1 /\ whole[n + m] = LF /\ whole[n + m - 1] = CR)
      BY <1>1, <2>1, <2>5, <2>6, <2>8, <2>10, <3>1
    <3> QED
      BY <1>1, <2>1, <2>2, <2>3, <2>10, <3>1, <3>2
  <2> QED
    BY <1>1, <2>9, <2>10
<1>5. n + k \in 0..BodyLength(whole) /\ BodyLength(text) \in Nat
  BY <1>1, <1>2, <1>3, <1>4
<1>6. n + k = 0 \/ whole[n + k] \in Terminators
  <2>1. CASE k = 0
    BY <1>1, <2>1 DEF EndsLine
  <2>2. CASE k # 0
    <3>1. k \in 1..m
      BY <1>1, <1>2, <1>3, <2>2
    <3> QED
      BY <1>1, <1>2, <2>2, <3>1
  <2> QED
    BY <2>1, <2>2
<1>7. \A i \in (n + k + 1)..BodyLength(whole) : whole[i] \notin Terminators
  <2> SUFFICES ASSUME NEW i \in (n + k + 1)..BodyLength(whole)
               PROVE  whole[i] \notin Terminators
    OBVIOUS
  <2>1. i - n \in (k + 1)..BodyLength(text) /\ i - n \in 1..m /\ n + (i - n) = i
    BY <1>1, <1>2, <1>3, <1>4
  <2>2. whole[n + (i - n)] = text[i - n]
    BY <1>1, <2>1
  <2> QED
    BY <1>2, <2>1, <2>2
<1>8. LastLineStart(whole) = n + k
  BY <1>1, <1>5, <1>6, <1>7, LastLineStartUnique
<1> QED
  BY <1>8 DEF whole, k

(* The \n of a \r\n begins no line.                                        *)
LEMMA LastLineStartOfPair ==
  ASSUME NEW text \in Seq(Symbols), IsTerminated(text, CR)
  PROVE  LastLineStart(text \o <<LF>>) = LastLineStart(text)
<1> DEFINE n == Len(text)
           pair == text \o <<LF>>
           k == LastLineStart(text)
<1>1. LF \in Symbols /\ CR \in Terminators
  BY TerminatorAssumption DEF Terminators
<1>2. /\ n \in Nat /\ n > 0 /\ text[n] = CR
      /\ pair \in Seq(Symbols) /\ Len(pair) = n + 1
      /\ \A i \in 1..n : pair[i] = text[i]
      /\ pair[n + 1] = LF
  BY <1>1 DEF IsTerminated
<1> HIDE DEF pair
<1>3. BodyLength(text) = n - 1
  BY <1>1, <1>2, BodyLengthIs, TerminatorAssumption
<1>4. BodyLength(pair) = n - 1
  <2>1. Len(pair) > 1 /\ pair[Len(pair)] = LF /\ pair[Len(pair) - 1] = CR
    BY <1>2
  <2>2. BodyLength(pair) = Len(pair) - 2
    BY <1>2, <2>1, BodyLengthIs
  <2> QED
    BY <1>2, <2>2
<1>5. /\ k \in 0..(n - 1) /\ (k = 0 \/ text[k] \in Terminators)
      /\ \A i \in (k + 1)..(n - 1) : text[i] \notin Terminators
  BY <1>3, LastLineStartIs
<1> HIDE DEF k
<1>6. LastLineStart(pair) = k
  <2>1. k = 0 \/ pair[k] \in Terminators
    BY <1>2, <1>5
  <2>2. \A i \in (k + 1)..(n - 1) : pair[i] \notin Terminators
    BY <1>2, <1>5
  <2> QED
    BY <1>2, <1>4, <1>5, <2>1, <2>2, LastLineStartUnique
<1> QED
  BY <1>6 DEF pair, k

(* The last line of a text is one line.                                    *)
LEMMA LastLineIsALine ==
  ASSUME NEW text \in Seq(Symbols)
  PROVE  /\ LastLine(text) \in Seq(Symbols)
         /\ Len(LastLine(text)) = Len(text) - LastLineStart(text)
         /\ LastLineStart(LastLine(text)) = 0
         /\ text # <<>> => LastLine(text) # <<>>
<1> DEFINE n == Len(text)
           k == LastLineStart(text)
           line == LastLine(text)
<1>1. /\ n \in Nat /\ k \in 0..BodyLength(text)
      /\ \A i \in (k + 1)..BodyLength(text) : text[i] \notin Terminators
  BY LastLineStartIs
<1>2. k \in 0..n /\ (text # <<>> => k < n) /\ BodyLength(text) \in 0..n
  BY <1>1, LastLineIsNotEmpty, BodyLengthRange
<1> HIDE DEF k
<1>3. /\ line \in Seq(Symbols) /\ Len(line) = n - k
      /\ \A i \in 1..(n - k) : line[i] = text[k + i]
  <2>1. n \in Nat /\ k \in Nat /\ k <= n /\ n <= Len(text)
    BY <1>2
  <2>2. line = Slice(text, k, n)
    BY DEF LastLine, k
  <2>3. /\ Slice(text, k, n) \in Seq(Symbols) /\ Len(Slice(text, k, n)) = n - k
        /\ \A i \in 1..(n - k) : Slice(text, k, n)[i] = text[k + i]
    BY <2>1, SliceProperties, Zenon
  <2> QED
    BY <2>2, <2>3
<1> HIDE DEF line
<1>4. BodyLength(line) = BodyLength(text) - k
  <2>1. CASE n = k
    <3>1. n = 0 /\ Len(line) = 0
      BY <1>1, <1>2, <1>3, <2>1
    <3>2. BodyLength(line) \in 0..Len(line) /\ BodyLength(text) \in 0..Len(text)
      BY <1>3, BodyLengthRange
    <3> QED
      BY <2>1, <3>1, <3>2
  <2>2. CASE n # k
    <3>1. n - k \in 1..(n - k) /\ k + (n - k) = n
      BY <1>1, <1>2, <2>2
    <3>2. line[n - k] = text[n]
      BY <1>3, <3>1
    <3>3. CASE n > 1 /\ text[n] = LF /\ text[n - 1] = CR
      <4>1. BodyLength(text) = n - 2
        BY <3>3, BodyLengthIs
      <4>2. n - k > 1
        BY <1>1, <1>2, <4>1
      <4>3. line[n - k - 1] = text[n - 1]
        <5>1. n - k - 1 \in 1..(n - k) /\ k + (n - k - 1) = n - 1
          BY <1>1, <1>2, <4>2
        <5> QED
          BY <1>3, <5>1
      <4>4. BodyLength(line) = (n - k) - 2
        BY <1>3, <3>2, <3>3, <4>2, <4>3, BodyLengthIs
      <4> QED
        BY <1>1, <1>2, <4>1, <4>4
    <3>4. CASE ~(n > 1 /\ text[n] = LF /\ text[n - 1] = CR)
      <4>1. ~(n - k > 1 /\ line[n - k] = LF /\ line[n - k - 1] = CR)
        <5> SUFFICES ASSUME n - k > 1, line[n - k] = LF, line[n - k - 1] = CR PROVE FALSE
          OBVIOUS
        <5>1. n - k - 1 \in 1..(n - k) /\ k + (n - k - 1) = n - 1 /\ n > 1
          BY <1>1, <1>2
        <5>2. line[n - k - 1] = text[n - 1]
          BY <1>3, <5>1
        <5> QED
          BY <3>2, <3>4, <5>1, <5>2
      <4>2. BodyLength(line) = IF line[n - k] \in Terminators THEN n - k - 1 ELSE n - k
        <5>1. n - k > 0 /\ Len(line) = n - k
          BY <1>1, <1>2, <1>3, <3>1
        <5> QED
          BY <1>3, <4>1, <5>1, BodyLengthIs
      <4>3. BodyLength(text) = IF text[n] \in Terminators THEN n - 1 ELSE n
        <5>1. n > 0
          BY <1>1, <1>2, <2>2
        <5> QED
          BY <3>4, <5>1, BodyLengthIs
      <4> QED
        BY <1>1, <1>2, <3>2, <4>2, <4>3
    <3> QED
      BY <3>3, <3>4
  <2> QED
    BY <2>1, <2>2
<1>5. \A i \in 1..BodyLength(line) : line[i] \notin Terminators
  <2> SUFFICES ASSUME NEW i \in 1..BodyLength(line)
               PROVE  line[i] \notin Terminators
    OBVIOUS
  <2>1. i \in 1..(n - k) /\ k + i \in (k + 1)..BodyLength(text)
    BY <1>1, <1>2, <1>4
  <2> QED
    BY <1>1, <1>3, <2>1
<1>6. LastLineStart(line) = 0
  <2>1. BodyLength(line) \in Nat
    BY <1>3, BodyLengthRange
  <2> QED
    BY <1>3, <1>5, <2>1, LastLineStartUnique
<1>7. text # <<>> => line # <<>>
  BY <1>1, <1>2, <1>3
<1> QED
  BY <1>3, <1>6, <1>7 DEF line, k

------------------------------------------------------------------------------
(* What the session keeps beside its open unit.                            *)

(* What OneLineWaitsForAnId asks of the hint, for every text.              *)
AwsIsOfItsLine == AwsCandidateIsOfItsLine(Seq(Symbols))

(* One line at most is kept of what was released, and the closed units of  *)
(* the batch end a line.                                                   *)
Tidy(s) ==
  /\ LastLineStart(Lead(s)) = 0
  /\ s.unitEnds # <<>> => EndsLine(Batch(s))

(* What a flush, which may reshape the lead and the batch, leaves of s.    *)
Rests(s, t) ==
  /\ Tidy(t)
  /\ Unit(t) = Unit(s)
  /\ t.awsHeldLine = s.awsHeldLine
  /\ AwsIsOfItsLine => LineAboveCarriesId(t) = LineAboveCarriesId(s)

(* The next lead is a line, and there is one just when the line above the  *)
(* unit carried an ID before it became the lead.                           *)
LEMMA FlushedLead ==
  ASSUME NEW s, InOrder(s), Tidy(s), s.unitEnds # <<>>
  PROVE  /\ KeepFrom(s) \in 0..s.unitStart
         /\ LastLineStart(Slice(s.retained, KeepFrom(s), s.unitStart)) = 0
         /\ AwsIsOfItsLine => LineAboveCarriesId(s) = (s.unitStart - KeepFrom(s) > 0)
<1> DEFINE batch == Batch(s)
           from == KeepFrom(s)
           next == Slice(s.retained, from, s.unitStart)
<1>1. /\ s.retained \in Seq(Symbols) /\ s.leadLen \in Nat /\ s.unitStart \in Nat
      /\ s.leadLen <= s.unitStart /\ s.unitStart <= Len(s.retained) /\ Len(s.retained) \in Nat
  BY DEF InOrder
<1>2. batch \in Seq(Symbols) /\ Len(batch) = s.unitStart - s.leadLen /\ EndsLine(batch)
  BY Parts DEF Tidy
<1>3. from \in 0..s.unitStart
  BY KeepFromRange
<1>4. batch # <<>> /\ Len(batch) > 0
  BY <1>2 DEF EndsLine
<1>5. CASE CompletesLead(s, batch)
  <2>1. s.leadLen > 0 /\ s.retained[s.leadLen] = CR /\ batch = <<LF>>
    BY <1>5 DEF CompletesLead
  <2>2. from = 0
    BY <1>5 DEF KeepFrom
  <2>3. next = Lead(s) \o <<LF>>
    <3>1. Slice(s.retained, 0, s.leadLen) \o Slice(s.retained, s.leadLen, s.unitStart)
            = Slice(s.retained, 0, s.unitStart)
      <4>1. 0 \in Nat /\ 0 <= s.leadLen
        BY <1>1
      <4> QED
        BY <1>1, <4>1, SlicesJoin, Zenon
    <3> QED
      BY <2>1, <2>2, <3>1 DEF Lead, Batch
  <2>4. Lead(s) \in Seq(Symbols) /\ IsTerminated(Lead(s), CR)
    <3>1. /\ Lead(s) \in Seq(Symbols) /\ Len(Lead(s)) = s.leadLen
          /\ Lead(s)[s.leadLen] = s.retained[s.leadLen]
      <4>1. s.leadLen \in 1..s.leadLen
        BY <1>1, <2>1
      <4> QED
        BY <4>1, Parts, Zenon
    <3> QED
      BY <1>1, <2>1, <3>1 DEF IsTerminated
  <2>5. LastLineStart(next) = 0
    BY <2>3, <2>4, LastLineStartOfPair DEF Tidy
  <2>6. LineAboveCarriesId(s) = TRUE
    BY <1>5, <2>1 DEF LineAboveCarriesId
  <2>7. s.unitStart - from > 0
    BY <1>1, <2>1, <2>2
  <2> QED
    BY <1>3, <2>5, <2>6, <2>7
<1>6. CASE ~CompletesLead(s, batch)
  <2> DEFINE k == LastLineStart(batch)
  <2>1. k \in 0..Len(batch) /\ k < Len(batch)
    BY <1>2, <1>4, LastLineStartRange, LastLineIsNotEmpty
  <2>2. Len(LastLine(batch)) = Len(batch) - k /\ LastLineStart(LastLine(batch)) = 0
    BY <1>2, LastLineIsALine
  <2>3. from = s.unitStart - LeadAfter(batch)
    BY <1>6 DEF KeepFrom
  <2>4. LineAboveCarriesId(s) = CarriesId(LastLine(batch))
    BY <1>4, <1>6 DEF LineAboveCarriesId
  <2> HIDE DEF k
  <2>5. CASE CarriesId(LastLine(batch))
    <3>1. LeadAfter(batch) = Len(batch) - k
      BY <2>2, <2>5 DEF LeadAfter
    <3>2. from = s.leadLen + k
      BY <1>1, <1>2, <2>1, <2>3, <3>1
    <3>3. next = LastLine(batch)
      <4>1. k \in Nat /\ Len(batch) \in Nat /\ k <= Len(batch)
            /\ Len(batch) <= s.unitStart - s.leadLen
            /\ s.leadLen + Len(batch) = s.unitStart
        BY <1>1, <1>2, <2>1
      <4>2. Slice(Slice(s.retained, s.leadLen, s.unitStart), k, Len(batch))
              = Slice(s.retained, s.leadLen + k, s.leadLen + Len(batch))
        BY <1>1, <4>1, SliceOfSlice
      <4> QED
        BY <3>2, <4>1, <4>2 DEF LastLine, Batch, k
    <3>4. s.unitStart - from > 0
      BY <1>1, <1>2, <2>1, <3>2
    <3>5. AwsIsOfItsLine => CarriesId(LastLine(batch)) \in BOOLEAN
      BY <1>2, LastLineIsALine DEF AwsIsOfItsLine, AwsCandidateIsOfItsLine
    <3>6. AwsIsOfItsLine => LineAboveCarriesId(s) = TRUE
      BY <2>4, <2>5, <3>5, Zenon
    <3> QED
      BY <1>3, <2>2, <3>3, <3>4, <3>6
  <2>6. CASE ~CarriesId(LastLine(batch))
    <3>1. from = s.unitStart
      BY <1>1, <2>3, <2>6 DEF LeadAfter
    <3>2. next \in Seq(Symbols) /\ Len(next) = 0
      <4>1. s.unitStart <= s.unitStart /\ s.unitStart - s.unitStart = 0
        BY <1>1
      <4>2. /\ Slice(s.retained, s.unitStart, s.unitStart) \in Seq(Symbols)
            /\ Len(Slice(s.retained, s.unitStart, s.unitStart)) = s.unitStart - s.unitStart
        BY <1>1, <4>1, SliceProperties, Zenon
      <4> QED
        BY <3>1, <4>1, <4>2
    <3>3. LastLineStart(next) = 0
      BY <3>2, LastLineStartRange
    <3>4. ~(s.unitStart - from > 0)
      BY <1>1, <3>1
    <3>5. AwsIsOfItsLine => CarriesId(LastLine(batch)) \in BOOLEAN
      BY <1>2, LastLineIsALine DEF AwsIsOfItsLine, AwsCandidateIsOfItsLine
    <3>6. AwsIsOfItsLine => LineAboveCarriesId(s) = FALSE
      BY <2>4, <2>6, <3>5, Zenon
    <3>7. (s.unitStart - from > 0) = FALSE
      BY <3>4
    <3>8. AwsIsOfItsLine => LineAboveCarriesId(s) = (s.unitStart - from > 0)
      BY <3>6, <3>7, Zenon
    <3> QED
      BY <1>3, <3>3, <3>8, Zenon
  <2> QED
    BY <2>5, <2>6
<1> QED
  BY <1>5, <1>6

(* A flush leaves the open unit, and what is known of the line above it.   *)
LEMMA FlushBatchRests ==
  ASSUME NEW text, NEW s, Sound(s, text), s.error = "none", Tidy(s),
         FlushBatch(s).error = "none"
  PROVE  /\ Rests(s, FlushBatch(s))
         /\ FlushBatch(s).unitEnds = <<>>
         /\ FlushBatch(s).multilineOpen = s.multilineOpen
<1> DEFINE t == FlushBatch(s)
           detected == Detections(s, DetectBatch(s))
<1>1. CASE s.unitEnds = <<>>
  BY <1>1 DEF FlushBatch, Rests
<1>2. CASE s.unitEnds # <<>>
  <2>1. t = FinalizeUnits(s, detected)
    BY <1>2 DEF FlushBatch
  <2>2. InOrder(s)
    BY DEF Sound
  <2>3. BatchError(s, detected) = "none"
    <3> SUFFICES ASSUME BatchError(s, detected) # "none" PROVE FALSE
      OBVIOUS
    <3>1. t = [s EXCEPT !.error = BatchError(s, detected)]
      BY <2>1 DEF FinalizeUnits
    <3>2. t.error = BatchError(s, detected)
      BY <2>2, <3>1 DEF InOrder, Fields
    <3> QED
      BY <3>2
  <2>4. /\ t.awsHeldLine = s.awsHeldLine /\ t.multilineOpen = s.multilineOpen
        /\ t.retained = Slice(s.retained, KeepFrom(s), Len(s.retained))
        /\ t.leadLen = s.unitStart - KeepFrom(s)
        /\ t.unitStart = s.unitStart - KeepFrom(s)
        /\ t.unitEnds = <<>>
    BY <2>1, <2>2, <2>3 DEF FinalizeUnits, InOrder, Fields
  <2> HIDE DEF t, detected
  <2> DEFINE from == KeepFrom(s)
             n == Len(s.retained)
  <2>5. /\ from \in 0..s.unitStart
        /\ LastLineStart(Slice(s.retained, from, s.unitStart)) = 0
        /\ AwsIsOfItsLine => LineAboveCarriesId(s) = (s.unitStart - from > 0)
    BY <1>2, <2>2, FlushedLead
  <2>6. s.retained \in Seq(Symbols) /\ n \in Nat /\ s.unitStart \in Nat /\ s.unitStart <= n
    BY <2>2 DEF InOrder
  <2> HIDE DEF from
  <2>7. from \in Nat /\ from <= s.unitStart /\ from <= n
    BY <2>5, <2>6
  <2>8. t.retained \in Seq(Symbols) /\ Len(t.retained) = n - from
    <3>1. n <= Len(s.retained)
      BY <2>6
    <3>2. /\ Slice(s.retained, from, n) \in Seq(Symbols)
          /\ Len(Slice(s.retained, from, n)) = n - from
      BY <2>6, <2>7, <3>1, SliceProperties, Zenon
    <3> QED
      BY <2>4, <3>2 DEF from
  <2>9. Unit(t) = Unit(s)
    <3> DEFINE k == s.unitStart - from
               m == n - from
    <3>1. k \in Nat /\ m \in Nat /\ k <= m /\ m <= n - from /\ n <= Len(s.retained)
          /\ from + k = s.unitStart /\ from + m = n
      BY <2>6, <2>7
    <3> HIDE DEF k, m
    <3>2. Slice(Slice(s.retained, from, n), k, m) = Slice(s.retained, from + k, from + m)
      BY <2>6, <2>7, <3>1, SliceOfSlice
    <3> QED
      BY <2>4, <2>8, <3>1, <3>2 DEF Unit, k, m, from
  <2>10. Lead(t) = Slice(s.retained, from, s.unitStart)
    <3> DEFINE m == s.unitStart - from
    <3>1. 0 \in Nat /\ m \in Nat /\ 0 <= m /\ m <= n - from /\ n <= Len(s.retained)
          /\ from + 0 = from /\ from + m = s.unitStart
      BY <2>6, <2>7
    <3> HIDE DEF m
    <3>2. Slice(Slice(s.retained, from, n), 0, m) = Slice(s.retained, from + 0, from + m)
      BY <2>6, <2>7, <3>1, SliceOfSlice
    <3> QED
      BY <2>4, <3>1, <3>2 DEF Lead, m, from
  <2>11. Tidy(t)
    BY <2>4, <2>5, <2>10 DEF Tidy
  <2>12. LineAboveCarriesId(t) = (s.unitStart - from > 0)
    <3>1. Batch(t) = <<>>
      <4> DEFINE k == t.leadLen
      <4>1. k \in Nat /\ k <= k /\ k <= Len(t.retained) /\ t.retained \in Seq(Symbols) /\ k - k = 0
        BY <2>4, <2>6, <2>7, <2>8 DEF from
      <4> HIDE DEF k
      <4>2. Slice(t.retained, k, k) \in Seq(Symbols) /\ Len(Slice(t.retained, k, k)) = k - k
        BY <4>1, SliceProperties, Zenon
      <4>3. Slice(t.retained, k, k) = <<>>
        BY <4>1, <4>2
      <4> QED
        BY <2>4, <4>3 DEF Batch, k
    <3> QED
      BY <2>4, <3>1 DEF LineAboveCarriesId, from
  <2> QED
    BY <2>4, <2>5, <2>9, <2>11, <2>12 DEF Rests, t
<1> QED
  BY <1>1, <1>2

(* Pushing a piece adds to the open unit and to nothing else.              *)
LEMMA PushGrows ==
  ASSUME NEW text, NEW s, Sound(s, text), Tidy(s), NEW piece \in Seq(Symbols)
  PROVE  LET t == Push(s, piece) IN
         /\ Tidy(t)
         /\ Unit(t) = Unit(s) \o piece
         /\ t.awsHeldLine = s.awsHeldLine
         /\ t.multilineOpen = BlockOpen(Unit(t))
         /\ LineAboveCarriesId(t) = LineAboveCarriesId(s)
<1> DEFINE t == Push(s, piece)
           n == Len(s.retained)
<1>1. InOrder(s)
  BY DEF Sound
<1>2. /\ t.retained = s.retained \o piece /\ t.awsHeldLine = s.awsHeldLine
      /\ t.leadLen = s.leadLen /\ t.unitStart = s.unitStart /\ t.unitEnds = s.unitEnds
      /\ t.multilineOpen = BlockOpen(Unit(s) \o piece)
  BY <1>1 DEF Push, InOrder, Fields
<1> HIDE DEF t
<1>3. /\ s.retained \in Seq(Symbols) /\ n \in Nat /\ 0 \in Nat
      /\ s.leadLen \in Nat /\ s.unitStart \in Nat /\ 0 <= s.leadLen
      /\ s.leadLen <= s.unitStart /\ s.unitStart <= n /\ s.leadLen <= n
  BY <1>1 DEF InOrder
<1>4. Lead(t) = Lead(s)
  <2>1. Slice(s.retained \o piece, 0, s.leadLen) = Slice(s.retained, 0, s.leadLen)
    BY <1>3, SliceOfFirst
  <2> QED
    BY <1>2, <1>3, <2>1 DEF Lead
<1>5. Batch(t) = Batch(s)
  <2>1. Slice(s.retained \o piece, s.leadLen, s.unitStart)
          = Slice(s.retained, s.leadLen, s.unitStart)
    BY <1>3, SliceOfFirst
  <2> QED
    BY <1>2, <1>3, <2>1 DEF Batch
<1>6. Unit(t) = Unit(s) \o piece
  <2>1. Len(t.retained) = n + Len(piece)
    BY <1>2, <1>3, Concatenated
  <2>2. n + Len(piece) \in Nat /\ s.unitStart <= n + Len(piece)
    BY <1>3
  <2>3. Slice(s.retained \o piece, s.unitStart, n + Len(piece))
          = Slice(s.retained, s.unitStart, n) \o piece
    BY <1>3, <2>2, SlicesOfBoth
  <2> QED
    BY <1>2, <2>1, <2>3 DEF Unit
<1>7. s.leadLen > 0 => t.retained[s.leadLen] = s.retained[s.leadLen]
  <2>1. s.leadLen > 0 => s.leadLen \in 1..n
    BY <1>3
  <2> QED
    BY <1>2, <1>3, <2>1, Concatenated
<1>8. LineAboveCarriesId(t) = LineAboveCarriesId(s)
  <2>1. CompletesLead(t, Batch(t)) <=> CompletesLead(s, Batch(s))
    BY <1>2, <1>5, <1>7 DEF CompletesLead
  <2> QED
    BY <1>2, <1>5, <2>1 DEF LineAboveCarriesId
<1> QED
  BY <1>2, <1>4, <1>5, <1>6, <1>8 DEF Tidy, t

(* append_retained that does not fail adds the piece to the open unit,     *)
(* after a flush or not.                                                   *)
LEMMA AppendRetainedGrows ==
  ASSUME NEW text, NEW s, Sound(s, text), s.error = "none", Tidy(s),
         NEW piece \in Seq(Symbols), NEW closesLine,
         AppendRetained(s, piece, closesLine).error = "none"
  PROVE  LET t == AppendRetained(s, piece, closesLine) IN
         /\ Tidy(t)
         /\ Unit(t) = Unit(s) \o piece
         /\ t.awsHeldLine = s.awsHeldLine
         /\ t.multilineOpen = BlockOpen(Unit(t))
         /\ AwsIsOfItsLine => LineAboveCarriesId(t) = LineAboveCarriesId(s)
<1> DEFINE roomy == MakeRoom(s, piece)
           pushed == Push(roomy, piece)
           t == AppendRetained(s, piece, closesLine)
<1>1. roomy.error = "none"
  <2> SUFFICES ASSUME roomy.error # "none" PROVE FALSE
    OBVIOUS
  <2>1. t = roomy
    BY DEF AppendRetained, PushAndEnforce
  <2> QED
    BY <2>1
<1>2. Sound(roomy, text) /\ Rests(s, roomy)
  <2>1. CASE roomy = s
    BY <2>1 DEF Rests
  <2>2. CASE roomy = FlushBatch(s)
    BY <1>1, <2>2, FlushBatchSound, FlushBatchRests
  <2> QED
    BY <2>1, <2>2 DEF MakeRoom
<1>3. t = EnforceLimits(pushed, closesLine)
  BY <1>1 DEF AppendRetained, PushAndEnforce
<1>4. /\ Tidy(pushed) /\ Unit(pushed) = Unit(roomy) \o piece
      /\ pushed.awsHeldLine = roomy.awsHeldLine
      /\ pushed.multilineOpen = BlockOpen(Unit(pushed))
      /\ LineAboveCarriesId(pushed) = LineAboveCarriesId(roomy)
  BY <1>2, PushGrows DEF Rests
<1>5. t = pushed
  <2> DEFINE code == Exceeded(pushed, closesLine)
             flushed == FlushBatch(pushed)
  <2> SUFFICES ASSUME code # "none" PROVE FALSE
    BY <1>3 DEF EnforceLimits
  <2>1. t = ReportUnlessFailed(flushed, code)
    BY <1>3 DEF EnforceLimits
  <2>2. flushed.error = "none"
    <3> SUFFICES ASSUME flushed.error # "none" PROVE FALSE
      OBVIOUS
    <3>1. t = flushed
      BY <2>1 DEF ReportUnlessFailed
    <3> QED
      BY <3>1
  <2>3. DOMAIN flushed = Fields
    <3>1. pushed.error = "none"
      BY <1>1, <1>2 DEF Push, Sound, InOrder, Fields
    <3>2. DOMAIN pushed = Fields
      BY <1>2 DEF Push, Sound, InOrder, Fields
    <3>3. DOMAIN FinalizeUnits(pushed, Detections(pushed, DetectBatch(pushed))) = Fields
      BY <3>2 DEF FinalizeUnits, Fields
    <3> HIDE DEF pushed
    <3> QED
      BY <3>2, <3>3 DEF FlushBatch
  <2> HIDE DEF flushed, code
  <2>4. t = [flushed EXCEPT !.error = code]
    BY <2>1, <2>2 DEF ReportUnlessFailed
  <2>5. t.error = code
    BY <2>3, <2>4 DEF Fields
  <2> QED
    BY <2>5
<1> HIDE DEF roomy, pushed
<1> QED
  BY <1>2, <1>4, <1>5 DEF Rests

(* Closed lines behind closed lines: the last one is that of the latter.   *)
LEMMA LastLineBehind ==
  ASSUME NEW above \in Seq(Symbols), above = <<>> \/ EndsLine(above),
         NEW text \in Seq(Symbols), EndsLine(text)
  PROVE  /\ above \o text \in Seq(Symbols) /\ EndsLine(above \o text)
         /\ text # <<LF>> => LastLine(above \o text) = LastLine(text)
         /\ above \o text = <<LF>> => text = <<LF>>
<1> DEFINE n == Len(above)
           m == Len(text)
           whole == above \o text
           k == LastLineStart(text)
<1>1. /\ n \in Nat /\ m \in Nat /\ m > 0 /\ text # <<>>
      /\ whole \in Seq(Symbols) /\ Len(whole) = n + m
      /\ \A i \in 1..m : whole[n + i] = text[i]
  BY Concatenated DEF EndsLine
<1>2. EndsLine(whole)
  <2>1. whole[n + m] = text[m] /\ n + m > 0
    BY <1>1
  <2> QED
    BY <1>1, <2>1 DEF EndsLine
<1>3. ASSUME text # <<LF>> PROVE LastLine(whole) = LastLine(text)
  <2>1. LastLineStart(whole) = n + k
    BY <1>1, <1>3, LastLineStartBehind
  <2>2. k \in Nat /\ k <= m /\ m <= m
    BY <1>1, LastLineStartRange
  <2> HIDE DEF k
  <2>3. m <= Len(text) => Slice(whole, n + k, n + m) = Slice(text, k, m)
    BY <1>1, <2>2, SlicesOfBoth, Zenon
  <2>4. m <= Len(text)
    BY <1>1
  <2> QED
    BY <1>1, <2>1, <2>3, <2>4 DEF LastLine, k
<1>4. ASSUME whole = <<LF>> PROVE text = <<LF>>
  <2>1. n + m = 1 /\ n \in Nat /\ m \in Nat /\ m > 0
    BY <1>1, <1>4
  <2>2. whole[n + m] = text[m]
    BY <1>1
  <2> HIDE DEF n, m
  <2>3. n = 0 /\ m = 1
    BY <2>1
  <2> QED
    BY <1>4, <2>2, <2>3 DEF m
<1> QED
  BY <1>1, <1>2, <1>3, <1>4

(* close_unit leaves an empty unit, and above it what was the last line of *)
(* the unit closed.                                                        *)
LEMMA CloseUnitCloses ==
  ASSUME NEW text, NEW s, Sound(s, text), s.error = "none", Tidy(s), EndsLine(Unit(s)),
         CloseUnit(s).error = "none"
  PROVE  LET t == CloseUnit(s) IN
         /\ Tidy(t) /\ Unit(t) = <<>> /\ t.awsHeldLine = NoLine
         /\ Unit(s) # <<LF>> => LineAboveCarriesId(t) = CarriesId(LastLine(Unit(s)))
<1> DEFINE separate == SeparateBatch(s)
           t == CloseUnit(s)
<1>1. separate.error = "none"
  <2> SUFFICES ASSUME separate.error # "none" PROVE FALSE
    OBVIOUS
  <2>1. t = separate
    BY DEF CloseUnit, StartNextUnit
  <2> QED
    BY <2>1
<1>2. Sound(separate, text) /\ Rests(s, separate)
  <2>1. CASE separate = s
    BY <2>1 DEF Rests
  <2>2. CASE separate = FlushBatch(s)
    BY <1>1, <2>2, FlushBatchSound, FlushBatchRests
  <2> QED
    BY <2>1, <2>2 DEF SeparateBatch
<1>3. t = ResetUnitState([separate EXCEPT !.unitEnds = Append(@, Len(separate.retained)),
                                          !.unitStart = Len(separate.retained)])
  BY <1>1 DEF CloseUnit, StartNextUnit
<1>4. InOrder(separate) /\ Tidy(separate) /\ Unit(separate) = Unit(s)
  BY <1>2 DEF Sound, Rests
<1> HIDE DEF separate, t
<1> DEFINE n == Len(separate.retained)
<1>5. /\ t.retained = separate.retained /\ t.leadLen = separate.leadLen
      /\ t.unitStart = n /\ t.unitEnds = Append(separate.unitEnds, n)
      /\ t.awsHeldLine = NoLine
  BY <1>3, <1>4 DEF ResetUnitState, InOrder, Fields
<1>6. /\ separate.retained \in Seq(Symbols) /\ n \in Nat
      /\ separate.leadLen \in Nat /\ separate.unitStart \in Nat
      /\ separate.leadLen <= separate.unitStart /\ separate.unitStart <= n
      /\ (separate.unitEnds = <<>> => separate.unitStart = separate.leadLen)
  BY <1>4 DEF InOrder
<1>7. Batch(t) = Batch(separate) \o Unit(s)
  <2>1. Slice(separate.retained, separate.leadLen, separate.unitStart)
          \o Slice(separate.retained, separate.unitStart, n)
          = Slice(separate.retained, separate.leadLen, n)
    <3>1. n <= Len(separate.retained)
      BY <1>6
    <3> QED
      BY <1>6, <3>1, SlicesJoin, Zenon
  <2>2. Unit(s) = Slice(separate.retained, separate.unitStart, n)
    BY <1>4 DEF Unit
  <2> QED
    BY <1>5, <2>1, <2>2 DEF Batch
<1>8. Batch(separate) \in Seq(Symbols) /\ (Batch(separate) = <<>> \/ EndsLine(Batch(separate)))
  <2>1. Batch(separate) \in Seq(Symbols)
        /\ Len(Batch(separate)) = separate.unitStart - separate.leadLen
    BY <1>4, Parts
  <2>2. CASE separate.unitEnds = <<>>
    BY <1>6, <2>1, <2>2
  <2>3. CASE separate.unitEnds # <<>>
    BY <1>4, <2>1, <2>3 DEF Tidy
  <2> QED
    BY <2>2, <2>3, <2>1
<1>9. Unit(s) \in Seq(Symbols)
  BY Parts DEF Sound
<1>10. /\ EndsLine(Batch(t))
       /\ Unit(s) # <<LF>> => LastLine(Batch(t)) = LastLine(Unit(s))
       /\ Batch(t) = <<LF>> => Unit(s) = <<LF>>
  BY <1>7, <1>8, <1>9, LastLineBehind
<1>11. Tidy(t)
  <2>1. Lead(t) = Lead(separate)
    BY <1>5 DEF Lead
  <2> QED
    BY <1>4, <1>10, <2>1 DEF Tidy
<1>12. Unit(t) = <<>>
  <2>1. n <= n /\ n <= Len(separate.retained) /\ n - n = 0
    BY <1>6
  <2>2. Slice(separate.retained, n, n) \in Seq(Symbols)
        /\ Len(Slice(separate.retained, n, n)) = n - n
    BY <1>6, <2>1, SliceProperties, Zenon
  <2>3. Slice(separate.retained, n, n) = <<>>
    BY <2>1, <2>2
  <2> QED
    BY <1>5, <2>3 DEF Unit
<1>13. ASSUME Unit(s) # <<LF>>
       PROVE  LineAboveCarriesId(t) = CarriesId(LastLine(Unit(s)))
  <2>1. Batch(t) # <<>> /\ ~CompletesLead(t, Batch(t))
    BY <1>10, <1>13 DEF EndsLine, CompletesLead
  <2> QED
    BY <1>10, <1>13, <2>1 DEF LineAboveCarriesId
<1> QED
  BY <1>5, <1>11, <1>12, <1>13 DEF t

(* split_before_last_line leaves the last line, below the one before it.   *)
LEMMA SplitLeavesTheLine ==
  ASSUME NEW text, NEW s, Sound(s, text), s.error = "none", Tidy(s),
         LastLineStart(Unit(s)) > 0,
         SplitBeforeLastLine(s).error = "none"
  PROVE  LET t == SplitBeforeLastLine(s) IN
         /\ Tidy(t) /\ Unit(t) = LastLine(Unit(s))
         /\ AwsIsOfItsLine /\ LinesBeforeLast(Unit(s)) # <<LF>> =>
              LineAboveCarriesId(t) = CarriesId(LastLine(LinesBeforeLast(Unit(s))))
<1> DEFINE k == LastLineStart(Unit(s))
           from == s.unitStart + k
           line == Slice(s.retained, from, Len(s.retained))
           above == [s EXCEPT !.retained = Slice(@, 0, from)]
           closed == CloseUnit(above)
           t == SplitBeforeLastLine(s)
           before == LinesBeforeLast(Unit(s))
<1>1. Unit(s) \in Seq(Symbols)
  BY Parts DEF Sound
<1>2. k \in 0..Len(Unit(s)) /\ Unit(s)[k] \in Terminators
  BY <1>1, LastLineStartRange, LastLineStartIs
<1>3. t = AppendHeldLine(closed, line)
  BY DEF SplitBeforeLastLine
<1>4. /\ Sound(above, text) /\ above.error = "none"
      /\ Lead(above) = Lead(s) /\ Batch(above) = Batch(s) /\ above.unitEnds = s.unitEnds
      /\ Unit(above) = Slice(Unit(s), 0, k)
      /\ line = Slice(Unit(s), k, Len(Unit(s)))
  BY <1>2, CutUnit
<1> HIDE DEF k, above, line
<1>5. Unit(above) = before /\ line = LastLine(Unit(s))
  BY <1>4 DEF LinesBeforeLast, LastLine, k
<1>6. EndsLine(before)
  <2>1. k \in Nat /\ k > 0 /\ k <= Len(Unit(s)) /\ 0 \in Nat /\ 0 <= k /\ k - 0 = k
        /\ k \in 1..(k - 0) /\ 0 + k = k
    BY <1>1, <1>2 DEF k
  <2>2. /\ Slice(Unit(s), 0, k) \in Seq(Symbols) /\ Len(Slice(Unit(s), 0, k)) = k - 0
        /\ \A i \in 1..(k - 0) : Slice(Unit(s), 0, k)[i] = Unit(s)[0 + i]
    BY <1>1, <2>1, SliceProperties, Zenon
  <2>3. before = Slice(Unit(s), 0, k)
    BY DEF LinesBeforeLast, k
  <2> HIDE DEF before
  <2>4. Len(before) = k /\ before[k] = Unit(s)[k] /\ before \in Seq(Symbols)
    BY <2>1, <2>2, <2>3
  <2> QED
    BY <1>2, <2>1, <2>4 DEF EndsLine
<1> HIDE DEF before
<1>7. Tidy(above)
  BY <1>4 DEF Tidy
<1>8. closed.error = "none"
  <2> SUFFICES ASSUME closed.error # "none" PROVE FALSE
    OBVIOUS
  <2>1. t = closed
    BY <1>3 DEF AppendHeldLine
  <2> QED
    BY <2>1
<1>9. /\ Tidy(closed) /\ Unit(closed) = <<>>
      /\ before # <<LF>> => LineAboveCarriesId(closed) = CarriesId(LastLine(before))
  BY <1>4, <1>5, <1>6, <1>7, <1>8, CloseUnitCloses
<1>10. Sound(closed, text)
  BY <1>4, CloseUnitSound
<1>11. line \in Seq(Symbols)
  BY <1>1, <1>5, LastLineIsALine
<1>12. t = AppendRetained(closed, line, TRUE)
  BY <1>3, <1>8 DEF AppendHeldLine
<1> HIDE DEF closed, t
<1>13. /\ Tidy(t) /\ Unit(t) = Unit(closed) \o line
       /\ AwsIsOfItsLine => LineAboveCarriesId(t) = LineAboveCarriesId(closed)
  <2>1. t.error = "none"
    BY DEF t
  <2> QED
    BY <1>8, <1>9, <1>10, <1>11, <1>12, <2>1, AppendRetainedGrows
<1>14. Unit(t) = line
  BY <1>9, <1>11, <1>13
<1> QED
  BY <1>5, <1>9, <1>13, <1>14 DEF t, before

------------------------------------------------------------------------------
(* Why a unit is open.                                                     *)

(* Its lines are judged one by one: n is where the last of them ends.      *)
JudgedUpTo(unit, n) ==
  /\ n = 0 \/ unit[n] \in Terminators
  /\ \A i \in (n + 1)..Len(unit) : unit[i] \notin Terminators

(* A unit may be held for a block or for a construct that is open.         *)
HeldOtherwise(text) == BlockOpen(text) \/ OpenConstruct(text)

(* What is before the last of the lines held is held by something else.    *)
Alone(held) ==
  \/ LastLineStart(held) = 0
  \/ HeldOtherwise(LinesBeforeLast(held))
  \/ IsTerminated(WithoutLast(held, LF), CR) /\ HeldOtherwise(WithoutLast(held, LF))

(* Why the judged lines of the open unit are held.                         *)
HeldFor(s, held) ==
  \/ s.awsHeldLine = NoLine /\ (held = <<>> \/ HeldOtherwise(held))
  \/ /\ held # <<>> /\ s.awsHeldLine = LastLineStart(held) /\ Alone(held)
     /\ AwsIsOfItsLine => OpenAwsCandidate(held, LineAboveCarriesId(s))

(* The judged lines of the open unit are held for a reason.                *)
HeldOk(s) ==
  \E n \in 0..Len(Unit(s)) : JudgedUpTo(Unit(s), n) /\ HeldFor(s, Slice(Unit(s), 0, n))

(* A line that is closed under what was judged of a unit: the lines above  *)
(* it are those judged, unless it is the \n of their \r\n.                 *)
LEMMA NextLine ==
  ASSUME NEW unit \in Seq(Symbols), NEW n \in 0..Len(unit), JudgedUpTo(unit, n),
         NEW piece \in Seq(Symbols), EndsLine(piece),
         \A i \in 1..(Len(piece) - 1) : piece[i] \notin Terminators
  PROVE  LET whole == unit \o piece
             held == Slice(unit, 0, n)
         IN /\ whole \in Seq(Symbols) /\ EndsLine(whole)
            /\ held \in Seq(Symbols)
            /\ held = <<>> => LastLineStart(whole) = 0
            /\ held # <<>> =>
                 \/ /\ LastLineStart(whole) = Len(held) /\ LinesBeforeLast(whole) = held
                 \/ IsTerminated(held, CR) /\ whole = held \o <<LF>>
<1> DEFINE whole == unit \o piece
           held == Slice(unit, 0, n)
           a == Len(unit)
           m == Len(piece)
           tail == Slice(whole, n, a + m)
<1>1. /\ a \in Nat /\ m \in Nat /\ m > 0 /\ n \in Nat /\ n <= a /\ piece # <<>>
      /\ whole \in Seq(Symbols) /\ Len(whole) = a + m
      /\ \A i \in 1..a : whole[i] = unit[i]
      /\ \A i \in 1..m : whole[a + i] = piece[i]
  BY Concatenated DEF EndsLine
<1>2. EndsLine(whole)
  <2>1. whole[a + m] = piece[m] /\ a + m > 0
    BY <1>1
  <2> QED
    BY <1>1, <2>1 DEF EndsLine
<1>3. /\ held \in Seq(Symbols) /\ Len(held) = n
      /\ \A i \in 1..n : held[i] = unit[i]
  <2>1. 0 \in Nat /\ 0 <= n /\ n <= Len(unit) /\ n - 0 = n /\ \A i \in 1..n : 0 + i = i
    BY <1>1
  <2>2. /\ Slice(unit, 0, n) \in Seq(Symbols) /\ Len(Slice(unit, 0, n)) = n - 0
        /\ \A i \in 1..(n - 0) : Slice(unit, 0, n)[i] = unit[0 + i]
    BY <1>1, <2>1, SliceProperties, Zenon
  <2> QED
    BY <2>1, <2>2
<1>4. held = Slice(whole, 0, n)
  <2>1. 0 \in Nat /\ 0 <= n /\ n <= Len(unit)
    BY <1>1
  <2>2. n <= Len(unit) => Slice(unit \o piece, 0, n) = Slice(unit, 0, n)
    BY <1>1, <2>1, SlicesOfBoth
  <2> QED
    BY <2>1, <2>2
<1> HIDE DEF held, whole
<1>5. /\ tail \in Seq(Symbols) /\ Len(tail) = a + m - n
      /\ \A i \in 1..(a + m - n) : tail[i] = whole[n + i]
  <2>1. a + m \in Nat /\ n <= a + m /\ a + m <= Len(whole)
    BY <1>1
  <2>2. whole \in Seq(Symbols) /\ n \in Nat
    BY <1>1
  <2> DEFINE to == a + m
  <2> HIDE DEF to
  <2>3. to \in Nat /\ n <= to /\ to <= Len(whole)
    BY <2>1 DEF to
  <2>4. /\ Slice(whole, n, to) \in Seq(Symbols) /\ Len(Slice(whole, n, to)) = to - n
        /\ \A i \in 1..(to - n) : Slice(whole, n, to)[i] = whole[n + i]
    BY <2>2, <2>3, SliceProperties, Zenon
  <2> QED
    BY <2>4 DEF to
<1>6. whole = held \o tail
  <2>1. 0 \in Nat /\ 0 <= n /\ n <= a + m /\ a + m <= Len(whole) /\ a + m \in Nat
    BY <1>1
  <2>2. Slice(whole, 0, n) \o Slice(whole, n, a + m) = Slice(whole, 0, a + m)
    BY <1>1, <2>1, SlicesJoin, Zenon
  <2>3. Slice(whole, 0, a + m) = whole
    BY <1>1, SliceWhole
  <2> QED
    BY <1>4, <2>2, <2>3
<1> HIDE DEF tail
<1>7. tail # <<>> /\ a + m - n > 0
  BY <1>1, <1>5
<1>8. \A i \in 1..(a + m - n - 1) : tail[i] \notin Terminators
  <2> SUFFICES ASSUME NEW i \in 1..(a + m - n - 1) PROVE tail[i] \notin Terminators
    OBVIOUS
  <2>1. i \in 1..(a + m - n) /\ tail[i] = whole[n + i]
    BY <1>1, <1>5
  <2>2. CASE n + i <= a
    <3>1. n + i \in 1..a /\ n + i \in (n + 1)..a
      BY <1>1, <2>2
    <3>2. unit[n + i] \notin Terminators
      BY <3>1 DEF JudgedUpTo
    <3> QED
      BY <1>1, <2>1, <3>1, <3>2
  <2>3. CASE ~(n + i <= a)
    <3> DEFINE j == n + i - a
    <3>1. j \in 1..m /\ j \in 1..(m - 1) /\ a + j = n + i
      BY <1>1, <2>3
    <3> HIDE DEF j
    <3>2. whole[a + j] = piece[j]
      BY <1>1, <3>1
    <3> QED
      BY <2>1, <3>1, <3>2
  <2> QED
    BY <2>2, <2>3
<1>9. LastLineStart(tail) = 0
  <2>1. tail[Len(tail)] \in Terminators
    <3>1. a + m - n \in 1..(a + m - n) /\ n + (a + m - n) = a + m
      BY <1>1
    <3>2. tail[a + m - n] = whole[a + m]
      BY <1>5, <3>1
    <3> QED
      BY <1>1, <1>2, <1>5, <3>2 DEF EndsLine
  <2>2. BodyLength(tail) \in 0..(Len(tail) - 1)
    <3>1. Len(tail) \in Nat /\ Len(tail) > 0
      BY <1>1, <1>5
    <3>2. BodyLength(tail) \in 0..Len(tail)
      BY <1>5, BodyLengthRange
    <3>3. BodyLength(tail) < Len(tail)
      BY <1>5, <2>1, <3>1, BodyLengthIs
    <3> QED
      BY <3>1, <3>2, <3>3
  <2>3. \A i \in (0 + 1)..BodyLength(tail) : tail[i] \notin Terminators
    <3> SUFFICES ASSUME NEW i \in (0 + 1)..BodyLength(tail) PROVE tail[i] \notin Terminators
      OBVIOUS
    <3>1. i \in 1..(a + m - n - 1)
      BY <1>1, <1>5, <2>2
    <3> QED
      BY <1>8, <3>1
  <2>4. 0 \in 0..BodyLength(tail)
    BY <2>2
  <2> QED
    BY <1>5, <2>3, <2>4, LastLineStartUnique
<1>10. ASSUME held = <<>> PROVE LastLineStart(whole) = 0
  <2>1. whole = tail
    BY <1>5, <1>6, <1>10
  <2> QED
    BY <1>9, <2>1
<1>11. ASSUME held # <<>>
       PROVE  \/ LastLineStart(whole) = Len(held) /\ LinesBeforeLast(whole) = held
              \/ IsTerminated(held, CR) /\ whole = held \o <<LF>>
  <2>1. n > 0 /\ held[n] \in Terminators /\ EndsLine(held)
    <3>1. n > 0
      BY <1>1, <1>3, <1>11
    <3>2. held[n] = unit[n] /\ unit[n] \in Terminators
      <4>1. n \in 1..n
        BY <1>1, <3>1
      <4> QED
        BY <1>3, <3>1, <4>1 DEF JudgedUpTo
    <3> QED
      BY <1>3, <1>11, <3>1, <3>2 DEF EndsLine
  <2>2. CASE tail = <<LF>> /\ held[Len(held)] = CR
    BY <1>6, <1>11, <2>2 DEF IsTerminated
  <2>3. CASE ~(tail = <<LF>> /\ held[Len(held)] = CR)
    <3>1. LastLineStart(held \o tail) = Len(held) + LastLineStart(tail)
      BY <1>3, <1>5, <1>7, <2>1, <2>3, LastLineStartBehind
    <3>2. LastLineStart(whole) = Len(held)
      BY <1>1, <1>3, <1>6, <1>9, <3>1
    <3> QED
      BY <1>3, <1>4, <3>2 DEF LinesBeforeLast
  <2> QED
    BY <2>2, <2>3
<1> QED
  BY <1>1, <1>2, <1>3, <1>10, <1>11 DEF whole, held

(* A line closed under a unit that waits for no ID, or waits for one in    *)
(* its last line already, waits alone; any other that waits is what split  *)
(* cuts off.                                                               *)
LEMMA AloneNext ==
  ASSUME NEW unit \in Seq(Symbols), NEW n \in 0..Len(unit), JudgedUpTo(unit, n),
         NEW piece \in Seq(Symbols), EndsLine(piece),
         \A i \in 1..(Len(piece) - 1) : piece[i] \notin Terminators,
         NEW s, HeldFor(s, Slice(unit, 0, n))
  PROVE  LET whole == unit \o piece
             held == Slice(unit, 0, n)
         IN /\ s.awsHeldLine \in {NoLine, LastLineStart(whole)} => Alone(whole)
            /\ s.awsHeldLine \notin {NoLine, LastLineStart(whole)} =>
                 /\ LastLineStart(whole) > 0 /\ LinesBeforeLast(whole) = held
                 /\ AwsIsOfItsLine => OpenAwsCandidate(held, LineAboveCarriesId(s))
<1> DEFINE whole == unit \o piece
           held == Slice(unit, 0, n)
<1>1. /\ whole \in Seq(Symbols) /\ held \in Seq(Symbols)
      /\ held = <<>> => LastLineStart(whole) = 0
      /\ held # <<>> =>
           \/ LastLineStart(whole) = Len(held) /\ LinesBeforeLast(whole) = held
           \/ IsTerminated(held, CR) /\ whole = held \o <<LF>>
  BY NextLine, Zenon
<1>2. HeldFor(s, held)
  OBVIOUS
<1> HIDE DEF whole, held
<1>3. /\ LastLineStart(held) \in Nat /\ Len(held) \in Nat
      /\ held # <<>> => LastLineStart(held) < Len(held)
  BY <1>1, LastLineStartRange, LastLineIsNotEmpty
<1>4. LastLineStart(whole) \in Nat
  BY <1>1, LastLineStartRange
<1>5. ASSUME IsTerminated(held, CR), whole = held \o <<LF>>
      PROVE  /\ LastLineStart(whole) = LastLineStart(held)
             /\ LinesBeforeLast(whole) = LinesBeforeLast(held)
             /\ WithoutLast(whole, LF) = held /\ WithoutLast(held, LF) = held
  <2>1. LastLineStart(whole) = LastLineStart(held)
    BY <1>1, <1>5, LastLineStartOfPair
  <2>2. WithoutLast(whole, LF) = held
    BY <1>1, <1>5, TerminatorAssumption DEF WithoutLast, IsTerminated
  <2>3. WithoutLast(held, LF) = held
    BY <1>5, TerminatorAssumption DEF WithoutLast, IsTerminated
  <2>4. LinesBeforeLast(whole) = LinesBeforeLast(held)
    <3> DEFINE k == LastLineStart(held)
    <3>1. k \in Nat /\ 0 \in Nat /\ 0 <= k /\ k <= Len(held) /\ <<LF>> \in Seq(Symbols)
      BY <1>1, LastLineStartRange, TerminatorAssumption
    <3> HIDE DEF k
    <3>2. Slice(held \o <<LF>>, 0, k) = Slice(held, 0, k)
      BY <1>1, <3>1, SliceOfFirst
    <3> QED
      BY <1>5, <2>1, <3>1, <3>2 DEF LinesBeforeLast, k
  <2> QED
    BY <2>1, <2>2, <2>3, <2>4
<1>6. ASSUME s.awsHeldLine \in {NoLine, LastLineStart(whole)}
      PROVE  Alone(whole)
  <2>1. CASE held = <<>>
    BY <1>1, <2>1 DEF Alone
  <2>2. CASE /\ held # <<>>
             /\ LastLineStart(whole) = Len(held) /\ LinesBeforeLast(whole) = held
    <3>1. s.awsHeldLine # LastLineStart(held)
      BY <1>3, <1>6, <2>2 DEF NoLine
    <3>2. HeldOtherwise(held)
      BY <1>2, <2>2, <3>1 DEF HeldFor
    <3> QED
      BY <2>2, <3>2 DEF Alone
  <2>3. CASE IsTerminated(held, CR) /\ whole = held \o <<LF>>
    <3>1. CASE HeldOtherwise(held)
      BY <1>5, <2>3, <3>1 DEF Alone
    <3>2. CASE Alone(held)
      BY <1>5, <2>3, <3>2 DEF Alone
    <3>3. held # <<>>
      BY <2>3 DEF IsTerminated
    <3> QED
      BY <1>2, <3>1, <3>2, <3>3 DEF HeldFor
  <2> QED
    BY <1>1, <2>1, <2>2, <2>3
<1>7. ASSUME s.awsHeldLine \notin {NoLine, LastLineStart(whole)}
      PROVE  /\ LastLineStart(whole) > 0 /\ LinesBeforeLast(whole) = held
             /\ AwsIsOfItsLine => OpenAwsCandidate(held, LineAboveCarriesId(s))
  <2>1. /\ held # <<>> /\ s.awsHeldLine = LastLineStart(held)
        /\ AwsIsOfItsLine => OpenAwsCandidate(held, LineAboveCarriesId(s))
    BY <1>2, <1>7 DEF HeldFor
  <2>2. ~(IsTerminated(held, CR) /\ whole = held \o <<LF>>)
    BY <1>5, <1>7, <2>1
  <2>3. LastLineStart(whole) = Len(held) /\ LinesBeforeLast(whole) = held
    BY <1>1, <2>1, <2>2
  <2>4. LastLineStart(whole) > 0
    BY <1>3, <1>4, <2>1, <2>3
  <2> QED
    BY <2>1, <2>3, <2>4
<1> QED
  BY <1>6, <1>7 DEF whole, held

(* A unit that ends a line was judged as a whole.                          *)
LEMMA HeldWhole ==
  ASSUME NEW s, Unit(s) \in Seq(Symbols), EndsLine(Unit(s)), HeldFor(s, Unit(s))
  PROVE  HeldOk(s)
<1>1. Len(Unit(s)) \in Nat /\ Len(Unit(s)) \in 0..Len(Unit(s))
  OBVIOUS
<1>2. JudgedUpTo(Unit(s), Len(Unit(s)))
  BY <1>1 DEF JudgedUpTo, EndsLine
<1>3. HeldFor(s, Slice(Unit(s), 0, Len(Unit(s))))
  BY SliceWhole
<1> QED
  BY <1>1, <1>2, <1>3 DEF HeldOk

(* Noting the line a unit is held by changes nothing else.                 *)
LEMMA NotedLine ==
  ASSUME NEW s, DOMAIN s = Fields, NEW line
  PROVE  LET t == [s EXCEPT !.awsHeldLine = line] IN
         /\ t.awsHeldLine = line
         /\ Unit(t) = Unit(s) /\ LineAboveCarriesId(t) = LineAboveCarriesId(s)
         /\ Tidy(s) => Tidy(t)
<1> DEFINE t == [s EXCEPT !.awsHeldLine = line]
<1>1. /\ t.awsHeldLine = line /\ t.retained = s.retained /\ t.leadLen = s.leadLen
      /\ t.unitStart = s.unitStart /\ t.unitEnds = s.unitEnds
  BY DEF Fields
<1> HIDE DEF t
<1>2. Unit(t) = Unit(s) /\ Batch(t) = Batch(s) /\ Lead(t) = Lead(s)
  BY <1>1 DEF Unit, Batch, Lead
<1>3. LineAboveCarriesId(t) = LineAboveCarriesId(s)
  BY <1>1, <1>2 DEF LineAboveCarriesId, CompletesLead
<1> QED
  BY <1>1, <1>2, <1>3 DEF Tidy, t

(* What judging a line leaves is held for a reason.                        *)
LEMMA JudgeLineHolds ==
  ASSUME NEW text, NEW s, Sound(s, text), s.error = "none", Tidy(s), EndsLine(Unit(s)),
         s.awsHeldLine \in {NoLine, LastLineStart(Unit(s))} => Alone(Unit(s)),
         s.awsHeldLine \notin {NoLine, LastLineStart(Unit(s))} =>
           /\ LastLineStart(Unit(s)) > 0
           /\ AwsIsOfItsLine =>
                OpenAwsCandidate(LinesBeforeLast(Unit(s)), LineAboveCarriesId(s)),
         AwsIsOfItsLine => LineAboveCarriesId(s) \in BOOLEAN,
         JudgeLine(s).error = "none"
  PROVE  Tidy(JudgeLine(s)) /\ HeldOk(JudgeLine(s))
<1> DEFINE other == OpenConstruct(Unit(s))
           aws == OpenAwsCandidate(Unit(s), LineAboveCarriesId(s))
           lineStart == LastLineStart(Unit(s))
           judged == IF ~other /\ ~aws THEN CloseUnit(s)
                     ELSE IF ~other /\ s.awsHeldLine \notin {NoLine, lineStart}
                       THEN SplitBeforeLastLine(s)
                     ELSE s
           line == IF ~other /\ aws THEN LastLineStart(Unit(judged)) ELSE NoLine
           t == JudgeLine(s)
<1>1. t = IF judged.error # "none" THEN judged ELSE [judged EXCEPT !.awsHeldLine = line]
  BY DEF JudgeLine, HoldLine
<1>2. judged.error = "none"
  <2> SUFFICES ASSUME judged.error # "none" PROVE FALSE
    OBVIOUS
  <2>1. t = judged
    BY <1>1
  <2> HIDE DEF judged
  <2> QED
    BY <2>1
<1>3. Unit(s) \in Seq(Symbols) /\ Unit(s) # <<>>
  BY Parts DEF Sound, EndsLine
<1>4. CASE ~other /\ ~aws
  <2>1. judged = CloseUnit(s)
    BY <1>4
  <2> HIDE DEF judged, t, other, aws
  <2>2. /\ Tidy(judged) /\ Unit(judged) = <<>> /\ DOMAIN judged = Fields
    <3>1. Sound(judged, text)
      BY <2>1, CloseUnitSound
    <3> QED
      BY <1>2, <2>1, <3>1, CloseUnitCloses DEF Sound, InOrder
  <2>3. t = [judged EXCEPT !.awsHeldLine = NoLine]
    BY <1>1, <1>2, <1>4
  <2>4. Tidy(t) /\ Unit(t) = <<>> /\ t.awsHeldLine = NoLine
    BY <2>2, <2>3, NotedLine
  <2>5. HeldOk(t)
    <3>1. /\ 0 \in 0..Len(Unit(t)) /\ JudgedUpTo(Unit(t), 0)
          /\ Slice(Unit(t), 0, 0) = <<>>
      <4>1. Len(Unit(t)) = 0
        BY <2>4
      <4>2. <<>> \in Seq(Symbols) /\ Len(<<>>) = 0
        OBVIOUS
      <4>3. Slice(<<>>, 0, 0) = <<>>
        BY <4>2, SliceWhole
      <4> QED
        BY <2>4, <4>1, <4>3 DEF JudgedUpTo
    <3>2. HeldFor(t, Slice(Unit(t), 0, 0))
      BY <2>4, <3>1 DEF HeldFor
    <3> QED
      BY <3>1, <3>2 DEF HeldOk
  <2> QED
    BY <2>4, <2>5 DEF t
<1>5. CASE ~(~other /\ ~aws) /\ ~(~other /\ s.awsHeldLine \notin {NoLine, lineStart})
  <2>1. judged = s
    BY <1>5
  <2>2. t = [s EXCEPT !.awsHeldLine = line]
    BY <1>1, <1>2, <2>1
  <2>3. line = IF other THEN NoLine ELSE lineStart
    BY <1>5, <2>1
  <2> HIDE DEF judged, t, line
  <2>4. /\ Tidy(t) /\ Unit(t) = Unit(s) /\ t.awsHeldLine = line
        /\ LineAboveCarriesId(t) = LineAboveCarriesId(s)
    <3>1. DOMAIN s = Fields
      BY DEF Sound, InOrder
    <3> QED
      BY <2>2, <3>1, NotedLine
  <2>5. HeldFor(t, Unit(s))
    <3>1. CASE other
      BY <2>3, <2>4, <3>1 DEF HeldFor, HeldOtherwise
    <3>2. CASE ~other
      <4>1. aws /\ Alone(Unit(s)) /\ t.awsHeldLine = LastLineStart(Unit(s))
        BY <1>5, <2>3, <2>4, <3>2
      <4>2. OpenAwsCandidate(Unit(s), LineAboveCarriesId(t))
        BY <2>4, <4>1
      <4> QED
        BY <1>3, <4>1, <4>2 DEF HeldFor
    <3> QED
      BY <3>1, <3>2
  <2>6. HeldOk(t)
    BY <1>3, <2>4, <2>5, HeldWhole
  <2> QED
    BY <2>4, <2>6 DEF t
<1>6. CASE ~other /\ aws /\ s.awsHeldLine \notin {NoLine, lineStart}
  <2> DEFINE last == LastLine(Unit(s))
             before == LinesBeforeLast(Unit(s))
  <2>1. judged = SplitBeforeLastLine(s)
    BY <1>6
  <2>2. line = LastLineStart(Unit(judged))
    BY <1>6
  <2>3. /\ LastLineStart(Unit(s)) > 0
        /\ AwsIsOfItsLine => OpenAwsCandidate(before, LineAboveCarriesId(s))
    BY <1>6
  <2>4. aws
    BY <1>6
  <2> HIDE DEF judged, t, line
  <2>5. AwsIsOfItsLine => before # <<LF>>
    BY <2>3 DEF AwsIsOfItsLine, AwsCandidateIsOfItsLine
  <2>6. /\ Tidy(judged) /\ Unit(judged) = last
        /\ AwsIsOfItsLine => LineAboveCarriesId(judged) = CarriesId(LastLine(before))
    BY <1>2, <2>1, <2>3, <2>5, SplitLeavesTheLine
  <2>7. DOMAIN judged = Fields
    <3>1. Reads(s, judged, 0, text)
      BY <2>1, SplitBeforeLastLineSound
    <3> QED
      BY <3>1 DEF Reads, Sound, InOrder
  <2>8. /\ Tidy(t) /\ Unit(t) = last /\ t.awsHeldLine = line
        /\ LineAboveCarriesId(t) = LineAboveCarriesId(judged)
    BY <1>1, <1>2, <2>6, <2>7, NotedLine
  <2>9. last \in Seq(Symbols) /\ last # <<>> /\ LastLineStart(last) = 0
    BY <1>3, LastLineIsALine
  <2>10. EndsLine(last)
    <3> DEFINE k == LastLineStart(Unit(s))
               n == Len(Unit(s))
    <3>1. k \in Nat /\ n \in Nat /\ k < n /\ k <= n /\ n <= Len(Unit(s))
          /\ Unit(s)[n] \in Terminators
      BY <1>3, LastLineStartRange, LastLineIsNotEmpty DEF EndsLine
    <3> HIDE DEF k, n
    <3>2. /\ Len(Slice(Unit(s), k, n)) = n - k
          /\ \A i \in 1..(n - k) : Slice(Unit(s), k, n)[i] = Unit(s)[k + i]
      BY <1>3, <3>1, SliceProperties, Zenon
    <3>3. last = Slice(Unit(s), k, n)
      BY DEF LastLine, k, n
    <3>4. n - k \in 1..(n - k) /\ k + (n - k) = n
      BY <3>1
    <3> HIDE DEF last
    <3>5. last[Len(last)] = Unit(s)[n]
      BY <3>2, <3>3, <3>4
    <3> QED
      BY <2>9, <3>1, <3>5 DEF EndsLine, last
  <2>11. AwsIsOfItsLine => OpenAwsCandidate(last, LineAboveCarriesId(t))
    BY <1>3, <2>3, <2>4, <2>6, <2>8 DEF AwsIsOfItsLine, AwsCandidateIsOfItsLine
  <2> HIDE DEF last
  <2>12. HeldFor(t, Unit(t))
    BY <2>2, <2>6, <2>8, <2>9, <2>11 DEF HeldFor, Alone
  <2>13. HeldOk(t)
    BY <2>8, <2>9, <2>10, <2>12, HeldWhole
  <2> QED
    BY <2>8, <2>13 DEF t
<1> QED
  BY <1>4, <1>5, <1>6

(* Under the assumption whether the line above carries an ID is a truth    *)
(* value.                                                                  *)
LEMMA LineAboveIsBoolean ==
  ASSUME NEW s, InOrder(s), AwsIsOfItsLine
  PROVE  LineAboveCarriesId(s) \in BOOLEAN
<1>1. LastLine(Batch(s)) \in Seq(Symbols)
  BY Parts, LastLineIsALine
<1>2. CarriesId(LastLine(Batch(s))) \in BOOLEAN
  BY <1>1 DEF AwsIsOfItsLine, AwsCandidateIsOfItsLine
<1> DEFINE below == s.leadLen > 0
           on == CarriesId(LastLine(Batch(s)))
<1>3. below \in BOOLEAN
  OBVIOUS
<1>4. LineAboveCarriesId(s)
        = IF Batch(s) = <<>> \/ CompletesLead(s, Batch(s)) THEN below ELSE on
  BY DEF LineAboveCarriesId
<1> HIDE DEF below, on
<1>5. on \in BOOLEAN
  BY <1>2 DEF on
<1> QED
  BY <1>3, <1>4, <1>5, Zenon

(* A piece, which ends with the only terminator in it if it has one, joins *)
(* what is held, or is judged with it.                                     *)
LEMMA TakePieceHolds ==
  ASSUME NEW text, NEW s, Sound(s, text), s.error = "none", Tidy(s), HeldOk(s),
         NEW piece, Follows(piece, s, text), piece # <<>>,
         \A i \in 1..(Len(piece) - 1) : piece[i] \notin Terminators,
         TakePiece(s, piece, piece[Len(piece)] \in Terminators).error = "none"
  PROVE  LET t == TakePiece(s, piece, piece[Len(piece)] \in Terminators) IN
         Tidy(t) /\ HeldOk(t)
<1> DEFINE closes == piece[Len(piece)] \in Terminators
           taken == AppendRetained(s, piece, closes)
           t == TakePiece(s, piece, closes)
<1>1. t = IF taken.error # "none" \/ ~closes THEN taken
          ELSE IF taken.multilineOpen THEN [taken EXCEPT !.awsHeldLine = NoLine]
          ELSE JudgeLine(taken)
  BY DEF TakePiece, JudgeClosedLine
<1>2. t.error = "none"
  OBVIOUS
<1>3. piece \in Seq(Symbols)
  BY DEF Follows
<1> HIDE DEF closes, taken, t
<1>4. taken.error = "none"
  BY <1>1, <1>2
<1>5. /\ Tidy(taken) /\ Unit(taken) = Unit(s) \o piece
      /\ taken.awsHeldLine = s.awsHeldLine
      /\ taken.multilineOpen = BlockOpen(Unit(taken))
      /\ AwsIsOfItsLine => LineAboveCarriesId(taken) = LineAboveCarriesId(s)
  BY <1>3, <1>4, AppendRetainedGrows DEF taken
<1>6. Sound(taken, text)
  BY AppendRetainedSound DEF taken, Reads
<1>7. Unit(s) \in Seq(Symbols) /\ Unit(taken) \in Seq(Symbols)
  BY <1>6, Parts DEF Sound
<1>8. PICK n \in 0..Len(Unit(s)) :
        JudgedUpTo(Unit(s), n) /\ HeldFor(s, Slice(Unit(s), 0, n))
  BY DEF HeldOk
<1>9. HeldFor(taken, Slice(Unit(s), 0, n))
  BY <1>5, <1>8 DEF HeldFor
<1>10. CASE ~closes
  <2>1. t = taken
    BY <1>1, <1>10
  <2>2. /\ n \in 0..Len(Unit(taken)) /\ JudgedUpTo(Unit(taken), n)
    <3> DEFINE a == Len(Unit(s))
               m == Len(piece)
    <3>1. /\ a \in Nat /\ m \in Nat /\ m > 0 /\ n \in 0..a
          /\ Len(Unit(taken)) = a + m
          /\ \A i \in 1..a : Unit(taken)[i] = Unit(s)[i]
          /\ \A i \in 1..m : Unit(taken)[a + i] = piece[i]
      BY <1>3, <1>5, <1>7, Concatenated
    <3>2. \A i \in 1..m : piece[i] \notin Terminators
      <4>1. \A i \in 1..m : i \in 1..(m - 1) \/ i = m
        BY <3>1
      <4> QED
        BY <1>10, <4>1 DEF closes
    <3> HIDE DEF a, m
    <3>3. ASSUME NEW i \in (n + 1)..(a + m)
          PROVE  Unit(taken)[i] \notin Terminators
      <4>1. CASE i <= a
        <5>1. i \in 1..a /\ i \in (n + 1)..a
          BY <3>1, <4>1
        <5>2. Unit(s)[i] \notin Terminators
          BY <1>8, <5>1 DEF JudgedUpTo, a
        <5> QED
          BY <3>1, <5>1, <5>2
      <4>2. CASE ~(i <= a)
        <5> DEFINE j == i - a
        <5>1. j \in 1..m /\ a + j = i
          BY <3>1, <4>2
        <5> HIDE DEF j
        <5> QED
          BY <3>1, <3>2, <5>1
      <4> QED
        BY <4>1, <4>2
    <3>4. n = 0 \/ Unit(taken)[n] \in Terminators
      <4>1. n = 0 \/ n \in 1..a
        BY <3>1
      <4> QED
        BY <1>8, <3>1, <4>1 DEF JudgedUpTo
    <3>5. n \in 0..(a + m)
      BY <3>1
    <3> QED
      BY <3>1, <3>3, <3>4, <3>5 DEF JudgedUpTo
  <2>3. Slice(Unit(taken), 0, n) = Slice(Unit(s), 0, n)
    <3>1. 0 \in Nat /\ n \in Nat /\ 0 <= n /\ n <= Len(Unit(s))
      BY <1>7
    <3>2. n <= Len(Unit(s)) => Slice(Unit(s) \o piece, 0, n) = Slice(Unit(s), 0, n)
      BY <1>3, <1>7, <3>1, SlicesOfBoth
    <3> QED
      BY <1>5, <3>1, <3>2
  <2> QED
    BY <1>5, <1>9, <2>1, <2>2, <2>3 DEF HeldOk, t, closes
<1>11. CASE closes
  <2>1. EndsLine(piece)
    BY <1>11 DEF closes, EndsLine
  <2>2. EndsLine(Unit(taken))
    <3>1. Unit(s) \o piece \in Seq(Symbols) /\ EndsLine(Unit(s) \o piece)
      BY <1>3, <1>7, <1>8, <2>1, NextLine, Zenon
    <3> QED
      BY <1>5, <3>1
  <2>3. CASE taken.multilineOpen
    <3>1. t = [taken EXCEPT !.awsHeldLine = NoLine]
      BY <1>1, <1>4, <1>11, <2>3
    <3>2. DOMAIN taken = Fields
      BY <1>6 DEF Sound, InOrder
    <3>3. Tidy(t) /\ Unit(t) = Unit(taken) /\ t.awsHeldLine = NoLine
      BY <1>5, <3>1, <3>2, NotedLine
    <3>4. HeldFor(t, Unit(t))
      <4>1. BlockOpen(Unit(t))
        BY <1>5, <2>3, <3>3
      <4> QED
        BY <3>3, <4>1 DEF HeldFor, HeldOtherwise
    <3>5. HeldOk(t)
      BY <1>7, <2>2, <3>3, <3>4, HeldWhole
    <3> QED
      BY <3>3, <3>5 DEF t, closes
  <2>4. CASE ~taken.multilineOpen
    <3>1. t = JudgeLine(taken)
      BY <1>1, <1>4, <1>11, <2>4
    <3>2. /\ taken.awsHeldLine \in {NoLine, LastLineStart(Unit(taken))} => Alone(Unit(taken))
          /\ taken.awsHeldLine \notin {NoLine, LastLineStart(Unit(taken))} =>
               /\ LastLineStart(Unit(taken)) > 0
               /\ LinesBeforeLast(Unit(taken)) = Slice(Unit(s), 0, n)
               /\ AwsIsOfItsLine =>
                    OpenAwsCandidate(Slice(Unit(s), 0, n), LineAboveCarriesId(taken))
      <4> DEFINE whole == Unit(s) \o piece
                 held == Slice(Unit(s), 0, n)
      <4>1. /\ taken.awsHeldLine \in {NoLine, LastLineStart(whole)} => Alone(whole)
            /\ taken.awsHeldLine \notin {NoLine, LastLineStart(whole)} =>
                 /\ LastLineStart(whole) > 0 /\ LinesBeforeLast(whole) = held
                 /\ AwsIsOfItsLine => OpenAwsCandidate(held, LineAboveCarriesId(taken))
        BY <1>3, <1>7, <1>8, <1>9, <2>1, AloneNext, Zenon
      <4> QED
        BY <1>5, <4>1
    <3>3. AwsIsOfItsLine => LineAboveCarriesId(taken) \in BOOLEAN
      BY <1>6, LineAboveIsBoolean DEF Sound
    <3>4. JudgeLine(taken).error = "none"
      BY <1>2, <3>1
    <3>5. /\ taken.awsHeldLine \notin {NoLine, LastLineStart(Unit(taken))} =>
               /\ LastLineStart(Unit(taken)) > 0
               /\ AwsIsOfItsLine =>
                    OpenAwsCandidate(LinesBeforeLast(Unit(taken)), LineAboveCarriesId(taken))
      BY <3>2
    <3>6. Tidy(JudgeLine(taken)) /\ HeldOk(JudgeLine(taken))
      BY <1>4, <1>5, <1>6, <2>2, <3>2, <3>3, <3>4, <3>5, JudgeLineHolds
    <3> QED
      BY <3>1, <3>6 DEF t, closes
  <2> QED
    BY <2>3, <2>4
<1> QED
  BY <1>10, <1>11

(* What leaves the unit and what is above it alone leaves the reason too.  *)
LEMMA RestsHolds ==
  ASSUME NEW s, NEW t, HeldOk(s), Rests(s, t)
  PROVE  Tidy(t) /\ HeldOk(t)
<1>1. /\ Tidy(t) /\ Unit(t) = Unit(s) /\ t.awsHeldLine = s.awsHeldLine
      /\ AwsIsOfItsLine => LineAboveCarriesId(t) = LineAboveCarriesId(s)
  BY DEF Rests
<1>2. PICK n \in 0..Len(Unit(s)) :
        JudgedUpTo(Unit(s), n) /\ HeldFor(s, Slice(Unit(s), 0, n))
  BY DEF HeldOk
<1>3. HeldFor(t, Slice(Unit(s), 0, n))
  BY <1>1, <1>2 DEF HeldFor
<1> QED
  BY <1>1, <1>2, <1>3 DEF HeldOk

(* A session with the same buffer and offsets rests as well.               *)
LEMMA SameTextRests ==
  ASSUME NEW s, NEW t, Tidy(s),
         t.retained = s.retained, t.leadLen = s.leadLen, t.unitStart = s.unitStart,
         t.unitEnds = s.unitEnds, t.awsHeldLine = s.awsHeldLine
  PROVE  Rests(s, t)
<1>1. Unit(t) = Unit(s) /\ Batch(t) = Batch(s) /\ Lead(t) = Lead(s)
  BY DEF Unit, Batch, Lead
<1>2. LineAboveCarriesId(t) = LineAboveCarriesId(s)
  BY <1>1 DEF LineAboveCarriesId, CompletesLead
<1> QED
  BY <1>1, <1>2 DEF Rests, Tidy

(* A piece is not empty and ends with the only terminator in it.           *)
LEMMA PieceIsALine ==
  ASSUME NEW chunk \in Seq(Symbols), chunk # <<>>
  PROVE  LET piece == SubSeq(chunk, 1, PieceLength(chunk)) IN
         /\ piece \in Seq(Symbols) /\ piece # <<>> /\ Len(piece) = PieceLength(chunk)
         /\ \A i \in 1..(Len(piece) - 1) : piece[i] \notin Terminators
<1> DEFINE breaks == {i \in 1..Len(chunk) : chunk[i] \in Terminators}
           n == PieceLength(chunk)
           piece == SubSeq(chunk, 1, n)
<1>1. n \in 1..Len(chunk) /\ Len(chunk) \in Nat
  BY PieceLengthRange
<1>2. n = IF breaks = {} THEN Len(chunk) ELSE Min(breaks)
  BY DEF PieceLength
<1>3. \A i \in breaks : n <= i
  <2>1. CASE breaks = {}
    BY <2>1
  <2>2. CASE breaks # {}
    <3>1. breaks \in SUBSET Nat
      OBVIOUS
    <3>2. \A i \in breaks : Min(breaks) <= i
      BY <2>2, <3>1, MinOfNaturals, Zenon
    <3> QED
      BY <1>2, <2>2, <3>2
  <2> QED
    BY <2>1, <2>2
<1> HIDE DEF n
<1>4. /\ piece \in Seq(Symbols) /\ Len(piece) = n
      /\ \A i \in 1..n : piece[i] = chunk[i]
  BY <1>1
<1> HIDE DEF piece
<1>5. ASSUME NEW i \in 1..(n - 1), piece[i] \in Terminators PROVE FALSE
  <2>1. i \in 1..n /\ i \in 1..Len(chunk)
    BY <1>1
  <2>2. i \in breaks
    BY <1>4, <1>5, <2>1
  <2> QED
    BY <1>1, <1>3, <2>2
<1> QED
  BY <1>1, <1>4, <1>5 DEF piece, n

------------------------------------------------------------------------------
(* The invariant on what is held.                                          *)

(* Between calls nothing closed is held.                                   *)
Holds(s, idle) == Tidy(s) /\ HeldOk(s) /\ (idle => s.unitEnds = <<>>)

(* The second invariant: a session that accepts input holds text for a     *)
(* reason.                                                                 *)
HInv == Accepting => Holds(session, ~running)

(* A new session holds nothing.                                            *)
LEMMA NewSessionHolds ==
  Holds(Fresh, TRUE)
<1>1. /\ Fresh.retained = <<>> /\ Fresh.leadLen = 0 /\ Fresh.unitStart = 0
      /\ Fresh.unitEnds = <<>> /\ Fresh.awsHeldLine = NoLine
  BY DEF Fresh
<1>2. <<>> \in Seq(Symbols) /\ Len(<<>>) = 0
  OBVIOUS
<1>3. Slice(<<>>, 0, 0) = <<>>
  BY <1>2, SliceWhole
<1>4. Unit(Fresh) = <<>> /\ Lead(Fresh) = <<>>
  BY <1>1, <1>2, <1>3 DEF Unit, Lead
<1>5. LastLineStart(<<>>) = 0
  <2>1. LastLineStart(<<>>) \in 0..Len(<<>>)
    BY <1>2, LastLineStartRange, Zenon
  <2> DEFINE k == LastLineStart(<<>>)
  <2>2. k \in 0..0
    BY <1>2, <2>1
  <2> HIDE DEF k
  <2>3. k = 0
    BY <2>2
  <2> QED
    BY <2>3 DEF k
<1>6. HeldOk(Fresh)
  BY <1>1, <1>2, <1>3, <1>4 DEF HeldOk, JudgedUpTo, HeldFor
<1> QED
  BY <1>1, <1>4, <1>5, <1>6 DEF Holds, Tidy

(* The invariant is about the session in the next state as in this one.    *)
LEMMA HoldsNext ==
  ASSUME Accepting' => Holds(session', ~running')
  PROVE  HInv'
  BY DEF HInv, Holds, Tidy, HeldOk, HeldFor, Alone, HeldOtherwise, JudgedUpTo,
         EndsLine, Lead, Unit, Batch, LineAboveCarriesId, CompletesLead, AwsIsOfItsLine

(* A session that failed has ended.                                        *)
LEMMA FailHolds ==
  ASSUME NEW s, InOrder(s), NEW error, Fail(s, error)
  PROVE  HInv'
<1>1. DOMAIN DiscardRetained(s) = Fields
  BY DiscardRetainedFields
<1>2. session' = [DiscardRetained(s) EXCEPT !.state = "failed", !.text = <<>>,
                                            !.found = {}, !.error = "none"]
  BY DEF Fail
<1>3. session'.state = "failed"
  BY <1>1, <1>2 DEF Fields
<1> QED
  BY <1>3 DEF HInv, Accepting

(* Reading a line keeps the second invariant.                              *)
LEMMA AppendPieceHolds ==
  ASSUME IInv, HInv, AppendPiece
  PROVE  HInv'
<1> DEFINE length == PieceLength(rest)
           piece == SubSeq(rest, 1, length)
           after == TakePiece(session, piece, piece[length] \in Terminators)
<1>1. /\ running /\ rest # <<>>
      /\ IF after.error # "none" THEN Fail(after, after.error)
         ELSE session' = after /\ running' = running
  BY DEF AppendPiece, Proceed
<1>2. /\ Sound(session, fed) /\ session.error = "none" /\ Accepting
      /\ ReadTo(session) + Len(rest) = Len(fed)
      /\ \A i \in 1..Len(rest) : rest[i] = fed[ReadTo(session) + i]
      /\ rest \in Seq(Symbols)
  BY <1>1 DEF IInv, OnlyRunningReads, ReadsInOrder, Sound
<1>3. /\ piece \in Seq(Symbols) /\ piece # <<>> /\ Len(piece) = length
      /\ \A i \in 1..(Len(piece) - 1) : piece[i] \notin Terminators
      /\ length \in 1..Len(rest)
  BY <1>1, <1>2, PieceIsALine, PieceLengthRange
<1>4. Follows(piece, session, fed)
  <2>1. \A i \in 1..length : piece[i] = rest[i]
    BY <1>2, <1>3
  <2>2. ReadTo(session) \in Nat
    BY <1>2 DEF Sound, InOrder, ReadTo, Base
  <2> HIDE DEF piece, length
  <2>3. ReadTo(session) + Len(piece) <= Len(fed)
    BY <1>2, <1>3, <2>2
  <2>4. \A i \in 1..Len(piece) : piece[i] = fed[ReadTo(session) + i]
    <3>1. \A i \in 1..Len(piece) : i \in 1..Len(rest)
      BY <1>2, <1>3
    <3> QED
      BY <1>2, <1>3, <2>1, <3>1
  <2> QED
    BY <1>3, <2>3, <2>4 DEF Follows
<1>5. CASE after.error # "none"
  <2>1. InOrder(after)
    BY <1>2, <1>3, <1>4, TakePieceSound DEF Reads, Sound
  <2> HIDE DEF after
  <2> QED
    BY <1>1, <1>5, <2>1, FailHolds
<1>6. CASE after.error = "none"
  <2>1. session' = after /\ running'
    BY <1>1, <1>6
  <2>2. Tidy(session) /\ HeldOk(session)
    BY <1>2 DEF HInv, Holds
  <2>3. Tidy(after) /\ HeldOk(after)
    <3>1. after = TakePiece(session, piece, piece[Len(piece)] \in Terminators)
      BY <1>3
    <3> HIDE DEF piece, length, after
    <3> QED
      BY <1>2, <1>3, <1>4, <1>6, <2>2, <3>1, TakePieceHolds
  <2> HIDE DEF after
  <2>4. Holds(session', ~running')
    BY <2>1, <2>3 DEF Holds
  <2> QED
    BY <2>4, HoldsNext
<1> QED
  BY <1>5, <1>6

(* Beginning an append keeps the second invariant.                         *)
LEMMA AppendCallHolds ==
  ASSUME IInv, HInv, NEW chunk, AppendCall(chunk)
  PROVE  HInv'
<1>1. Accepting /\ ~running /\ InOrder(session)
  BY DEF AppendCall, Accepting, IInv
<1>2. CASE Len(chunk) > MaxInputBytes - session.totalInputBytes
  BY <1>1, <1>2, FailHolds DEF AppendCall
<1>3. CASE ~(Len(chunk) > MaxInputBytes - session.totalInputBytes)
  <2>1. session' = [session EXCEPT !.totalInputBytes = @ + Len(chunk)] /\ running' = TRUE
    BY <1>3 DEF AppendCall
  <2>2. /\ session'.retained = session.retained /\ session'.leadLen = session.leadLen
        /\ session'.unitStart = session.unitStart /\ session'.unitEnds = session.unitEnds
        /\ session'.awsHeldLine = session.awsHeldLine
    BY <1>1, <2>1 DEF InOrder, Fields
  <2>3. Tidy(session) /\ HeldOk(session)
    BY <1>1 DEF HInv, Holds
  <2>4. Tidy(session') /\ HeldOk(session')
    BY <2>2, <2>3, SameTextRests, RestsHolds
  <2>5. Holds(session', ~running')
    BY <2>1, <2>4 DEF Holds
  <2> QED
    BY <2>5, HoldsNext
<1> QED
  BY <1>2, <1>3

(* Returning from an append flushes what it closed.                        *)
LEMMA AppendReturnHolds ==
  ASSUME IInv, HInv, AppendReturn
  PROVE  HInv'
<1> DEFINE flushed == FlushBatch(session)
<1>1. /\ running
      /\ IF flushed.error # "none" THEN Fail(flushed, flushed.error)
         ELSE session' = [flushed EXCEPT !.text = <<>>, !.found = {}]
  BY DEF AppendReturn, Return
<1>2. /\ Sound(session, fed) /\ session.error = "none" /\ Accepting
      /\ Tidy(session) /\ HeldOk(session)
  BY <1>1 DEF IInv, HInv, Holds, OnlyRunningReads, ReadsInOrder, Sound
<1>3. /\ InOrder(flushed)
      /\ flushed.error = "none" => flushed.unitEnds = <<>> /\ Rests(session, flushed)
  BY <1>2, FlushBatchSound, FlushBatchRests DEF Sound
<1> HIDE DEF flushed
<1>4. CASE flushed.error # "none"
  BY <1>1, <1>3, <1>4, FailHolds
<1>5. CASE flushed.error = "none"
  <2>1. Tidy(flushed) /\ HeldOk(flushed)
    BY <1>2, <1>3, <1>5, RestsHolds
  <2>2. /\ session'.retained = flushed.retained /\ session'.leadLen = flushed.leadLen
        /\ session'.unitStart = flushed.unitStart /\ session'.unitEnds = flushed.unitEnds
        /\ session'.awsHeldLine = flushed.awsHeldLine
    BY <1>1, <1>3, <1>5 DEF InOrder, Fields
  <2>3. Tidy(session') /\ HeldOk(session')
    BY <2>1, <2>2, SameTextRests, RestsHolds
  <2>4. Holds(session', ~running')
    BY <1>3, <1>5, <2>2, <2>3 DEF Holds
  <2> QED
    BY <2>4, HoldsNext
<1> QED
  BY <1>4, <1>5

(* finalize and abort end the session, whatever was held.                  *)
LEMMA EndHolds ==
  ASSUME IInv, Finalize \/ Abort
  PROVE  HInv'
<1>1. CASE Finalize
  <2> DEFINE closed == [session EXCEPT !.unitEnds = Append(@, Len(session.retained)),
                                       !.unitStart = Len(session.retained)]
             flushed == FlushBatch(closed)
             ended == DiscardRetained(flushed)
  <2>1. IF flushed.error # "none" THEN Fail(flushed, flushed.error)
        ELSE session' = [[ended EXCEPT !.state = "finalized"] EXCEPT !.text = <<>>, !.found = {}]
    BY <1>1 DEF Finalize, Return
  <2>2. InOrder(flushed)
    <3>1. Sound(session, fed) /\ session.error = "none"
      BY <1>1 DEF Finalize, IInv, ReadsInOrder, Sound, Accepting
    <3>2. Closes(session, closed)
      BY <3>1 DEF Closes, Sound, InOrder, Fields
    <3> HIDE DEF closed
    <3>3. Sound(closed, fed) /\ closed.error = "none"
      BY <3>1, <3>2, ClosesSound DEF Closes
    <3> QED
      BY <3>3, FlushBatchSound DEF Sound
  <2> HIDE DEF flushed
  <2>3. CASE flushed.error # "none"
    BY <2>1, <2>2, <2>3, FailHolds
  <2>4. CASE flushed.error = "none"
    <3>1. DOMAIN ended = Fields
      BY <2>2, DiscardRetainedFields
    <3> HIDE DEF ended
    <3>2. session'.state = "finalized"
      BY <2>1, <2>4, <3>1 DEF Fields
    <3> QED
      BY <3>2 DEF HInv, Accepting
  <2> QED
    BY <2>3, <2>4
<1>2. CASE Abort
  <2> DEFINE ended == DiscardRetained(session)
  <2>1. session' = [ended EXCEPT !.state = "aborted"]
    BY <1>2 DEF Abort
  <2>2. DOMAIN ended = Fields
    BY DiscardRetainedFields DEF IInv
  <2> HIDE DEF ended
  <2>3. session'.state = "aborted"
    BY <2>1, <2>2 DEF Fields
  <2> QED
    BY <2>3 DEF HInv, Accepting
<1> QED
  BY <1>1, <1>2

(* A step that leaves the session alone keeps the second invariant.        *)
LEMMA SameSessionHolds ==
  ASSUME HInv, session' = session, running' = running
  PROVE  HInv'
<1>1. Accepting' => Holds(session', ~running')
  BY DEF HInv, Accepting
<1> QED
  BY <1>1, HoldsNext

(* Every behaviour keeps the reason every open unit is held for.           *)
THEOREM HeldInvariant == Spec => []HInv
<1>1. Init => HInv
  <2> SUFFICES ASSUME Init PROVE HInv
    OBVIOUS
  <2>1. session = Fresh /\ ~running
    BY DEF Init
  <2> QED
    BY <2>1, NewSessionHolds DEF HInv
<1>2. IInv /\ HInv /\ [Next]_vars => HInv'
  <2> SUFFICES ASSUME IInv, HInv, [Next]_vars
               PROVE  HInv'
    OBVIOUS
  <2>1. ASSUME NEW chunk \in Chunks(fed), AppendCall(chunk)
        PROVE  HInv'
    BY <2>1, AppendCallHolds
  <2>2. CASE AppendPiece
    BY <2>2, AppendPieceHolds
  <2>3. CASE AppendReturn
    BY <2>3, AppendReturnHolds
  <2>4. CASE Finalize
    BY <2>4, EndHolds
  <2>5. CASE Abort
    BY <2>5, EndHolds
  <2>6. CASE Refuse
    BY <2>6, SameSessionHolds DEF Refuse
  <2>7. CASE UNCHANGED vars
    BY <2>7, SameSessionHolds DEF vars
  <2> QED
    BY <2>1, <2>2, <2>3, <2>4, <2>5, <2>6, <2>7 DEF Next
<1> QED
  BY <1>1, <1>2, InductiveInvariant, PTL DEF Spec

(* The reason a unit that ends a line is held between calls.               *)
LEMMA ReasonForUnit ==
  ASSUME IInv, HInv, Idle, Unit(session) # <<>>,
         Unit(session)[Len(Unit(session))] \in Terminators
  PROVE  HeldFor(session, Unit(session))
<1> DEFINE unit == Unit(session)
<1>1. unit \in Seq(Symbols)
  BY Parts DEF IInv
<1>2. HeldOk(session)
  BY DEF HInv, Holds, Idle
<1>3. PICK n \in 0..Len(unit) : JudgedUpTo(unit, n) /\ HeldFor(session, Slice(unit, 0, n))
  BY <1>2 DEF HeldOk
<1> HIDE DEF unit
<1>4. n = Len(unit)
  <2>1. Len(unit) \in Nat /\ unit[Len(unit)] \in Terminators
    BY <1>1 DEF unit
  <2>2. n < Len(unit) => Len(unit) \in (n + 1)..Len(unit)
    BY <2>1
  <2> QED
    BY <1>3, <2>1, <2>2 DEF JudgedUpTo
<1> QED
  BY <1>1, <1>3, <1>4, SliceWhole DEF unit

(* A run of lines that each wait for an ID never accumulates: at most the  *)
(* last line of a unit is held for one, whatever the lines are and however *)
(* the caller cuts the text.                                               *)
THEOREM OneLineWaits == Spec => []OneLineWaitsForAnId
<1>1. IInv /\ HInv => OneLineWaitsForAnId
  <2> DEFINE unit == Unit(session)
             before == LinesBeforeLast(unit)
             atCr == {text \in {WithoutLast(unit, LF)} : IsTerminated(text, CR)}
  <2> SUFFICES ASSUME IInv, HInv, Idle, unit # <<>>, unit[Len(unit)] \in Terminators,
                      ~BlockOpen(unit), ~OpenConstruct(unit)
               PROVE  \/ before = <<>>
                      \/ \E held \in {before} \cup atCr : BlockOpen(held) \/ OpenConstruct(held)
    BY DEF OneLineWaitsForAnId
  <2>1. HeldFor(session, unit)
    BY ReasonForUnit
  <2>2. Alone(unit)
    BY <2>1 DEF HeldFor, HeldOtherwise
  <2>3. CASE LastLineStart(unit) = 0
    <3>1. Slice(unit, 0, 0) = <<>>
      BY DEF Slice
    <3> QED
      BY <2>3, <3>1 DEF LinesBeforeLast
  <2>4. CASE HeldOtherwise(before)
    BY <2>4 DEF HeldOtherwise
  <2>5. CASE IsTerminated(WithoutLast(unit, LF), CR) /\ HeldOtherwise(WithoutLast(unit, LF))
    BY <2>5 DEF HeldOtherwise
  <2> QED
    BY <2>2, <2>3, <2>4, <2>5 DEF Alone
<1> QED
  BY <1>1, InductiveInvariant, HeldInvariant, PTL

(* Between calls a complete line is held only while a block, a construct   *)
(* or an AWS candidate is open at its end, nothing closed is held, and the *)
(* lead is one line at most, for every detector that reads the AWS         *)
(* candidate off its line and the one above.                               *)
THEOREM HoldsOpenTextOnly ==
  AwsCandidateIsOfItsLine(Seq(Symbols)) => (Spec => []HoldsOnlyOpenText)
<1>1. AwsIsOfItsLine /\ IInv /\ HInv => HoldsOnlyOpenText
  <2> DEFINE unit == Unit(session)
             lead == Lead(session)
  <2> SUFFICES ASSUME AwsIsOfItsLine, IInv, HInv, Idle
               PROVE  /\ session.unitEnds = <<>> /\ LastLine(lead) = lead
                      /\ unit # <<>> /\ unit[Len(unit)] \in Terminators =>
                           \/ BlockOpen(unit)
                           \/ OpenConstruct(unit)
                           \/ OpenAwsCandidate(unit, LineAboveCarriesId(session))
    BY DEF HoldsOnlyOpenText, Lead
  <2>1. session.unitEnds = <<>> /\ Tidy(session)
    BY DEF HInv, Holds, Idle
  <2>2. LastLine(lead) = lead
    <3>1. lead \in Seq(Symbols)
      BY Parts DEF IInv
    <3>2. LastLineStart(lead) = 0
      BY <2>1 DEF Tidy
    <3> QED
      BY <3>1, <3>2, SliceWhole DEF LastLine
  <2>3. ASSUME unit # <<>>, unit[Len(unit)] \in Terminators
        PROVE  \/ BlockOpen(unit)
               \/ OpenConstruct(unit)
               \/ OpenAwsCandidate(unit, LineAboveCarriesId(session))
    <3>1. HeldFor(session, unit)
      BY <2>3, ReasonForUnit
    <3> QED
      BY <2>3, <3>1 DEF HeldFor, HeldOtherwise
  <2> QED
    BY <2>1, <2>2, <2>3
<1> SUFFICES ASSUME AwsIsOfItsLine PROVE Spec => []HoldsOnlyOpenText
  BY DEF AwsIsOfItsLine
<1>2. IInv /\ HInv => HoldsOnlyOpenText
  BY <1>1
<1> QED
  BY <1>2, InductiveInvariant, HeldInvariant, PTL
==============================================================================
