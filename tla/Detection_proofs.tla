--------------------------- MODULE Detection_proofs ----------------------------
(***************************************************************************)
(* Proofs about three parts of a detection pass.  DetectorPrefilter:       *)
(* whatever detectors there are, whatever they declare and ask for, in     *)
(* texts of any length and scans nested to any depth, nothing that could   *)
(* be found is skipped.  PolicyComparison: whatever is found, of any       *)
(* number of rules, a rule that decides is reported neither as shadowed    *)
(* nor for the detector or the type it decided on.  ScanCopy,              *)
(* PemDelimiters and UnitView: of texts of any length, in any pieces, the  *)
(* scan copy is that of the whole unit, its ranges move back to the bytes  *)
(* they were made of, and at a line end the unit is judged as one look at  *)
(* all of it would judge it.                                               *)
(***************************************************************************)
EXTENDS DetectorPrefilter, PolicyComparison, UnitView, FiniteSetTheorems, SequenceTheorems,
        WellFoundedInduction, TLAPS

(* A nonempty set of numbers has a least element.                          *)
LEMMA LeastElement ==
  ASSUME NEW S \in SUBSET Nat, S # {}
  PROVE  \E x \in S : \A y \in S : x <= y
<1>1. PICK x \in S : \A y \in S : <<y, x>> \notin OpToRel(<, Nat)
  BY NatLessThanWellFounded, WFMin, Zenon
<1>2. \A y \in S : ~(y < x)
  <2> TAKE y \in S
  <2>1. x \in Nat /\ y \in Nat
    OBVIOUS
  <2> QED
    BY <1>1, <2>1, Zenon DEF OpToRel
<1>3. \A y \in S : x <= y
  BY <1>2
<1> QED
  BY <1>3

(* A set of numbers with 0 in it and, with any number, the next one has    *)
(* them all.                                                               *)
LEMMA StepsReachAll ==
  ASSUME NEW P, P \subseteq Nat, 0 \in P, \A n \in P : n + 1 \in P
  PROVE  P = Nat
<1> SUFFICES ASSUME Nat \ P # {} PROVE FALSE OBVIOUS
<1>1. PICK x \in Nat \ P : \A y \in Nat \ P : <<y, x>> \notin OpToRel(<, Nat)
  BY NatLessThanWellFounded, WFMin, Zenon
<1>2. x \in Nat /\ x # 0 /\ x - 1 \in Nat /\ (x - 1) + 1 = x OBVIOUS
<1>3. x - 1 \notin P
  <2> SUFFICES ASSUME x - 1 \in P PROVE FALSE OBVIOUS
  <2>1. (x - 1) + 1 \in P OBVIOUS
  <2> QED BY <1>2, <2>1
<1>4. x - 1 \in Nat \ P /\ <<x - 1, x>> \in OpToRel(<, Nat)
  <2>1. x - 1 < x BY <1>2
  <2> QED BY <1>2, <1>3, <2>1, Zenon DEF OpToRel
<1> QED BY <1>1, <1>4

------------------------------------------------------------------------------
(* The matcher finds what occurs.                                          *)
IsMatcher(matcher) ==
  /\ \E n \in Nat : DOMAIN matcher \subseteq 1..n
  /\ \A slot \in DOMAIN matcher : \A l \in matcher[slot] : IsText(l) /\ Len(l) >= 2

Occurring(matcher, text, n) ==
  {slot \in Declaring(matcher) : \E l \in matcher[slot], at \in 1..n : OccursAt(l, text, at)}

(* At one offset: the group of its pair misses no literal that begins      *)
(* there.                                                                  *)
LEMMA GroupsMissNothing ==
  ASSUME NEW matcher, IsMatcher(matcher), NEW text, IsText(text), NEW at \in 1..Len(text),
         at < Len(text), NEW found
  PROVE  PresentAt(matcher, text, at, found)
           = {slot \in Declaring(matcher) \ found : \E l \in matcher[slot] : OccursAt(l, text, at)}
<1> DEFINE group == {e \in Declaring(matcher) \X UNION Range(matcher) :
                       e[2] \in matcher[e[1]] /\ SubSeq(e[2], 1, 2) = SubSeq(text, at, at + 1)}
<1>1. PresentAt(matcher, text, at, found) =
        {slot \in {e[1] : e \in group} \ found :
           \E e \in group : e[1] = slot /\ OccursAt(e[2], text, at)}
  BY DEF PresentAt
<1>2. ASSUME NEW slot \in Declaring(matcher), NEW l \in matcher[slot], OccursAt(l, text, at)
      PROVE  <<slot, l>> \in group
  <2>1. slot \in DOMAIN matcher /\ IsText(l) /\ Len(l) >= 2 BY DEF Declaring, IsMatcher
  <2>2. l \in UNION Range(matcher) BY <2>1 DEF Range
  <2>3. SubSeq(l, 1, 2) = SubSeq(text, at, at + 1)
    <3>1. l[1] = text[at] /\ l[2] = text[at + 1]
      <4>1. 1 \in DOMAIN l /\ 2 \in DOMAIN l BY <2>1 DEF IsText
      <4>2. \A k \in DOMAIN l : text[at + k - 1] = l[k] BY <1>2 DEF OccursAt
      <4>3. at + 1 - 1 = at /\ at + 2 - 1 = at + 1 OBVIOUS
      <4>4. text[at + 1 - 1] = l[1] /\ text[at + 2 - 1] = l[2] BY <4>1, <4>2
      <4> QED BY <4>3, <4>4
    <3>2. SubSeq(l, 1, 2) = [i \in 1..2 |-> l[i]]
      BY <2>1 DEF IsText
    <3>3. SubSeq(text, at, at + 1) = [i \in 1..2 |-> text[at + i - 1]]
      BY DEF IsText
    <3>4. \A i \in 1..2 : l[i] = text[at + i - 1]
      <4>1. 1..2 = {1, 2} /\ at + 1 - 1 = at /\ at + 2 - 1 = at + 1 OBVIOUS
      <4> QED BY <3>1, <4>1
    <3> QED BY <3>2, <3>3, <3>4
  <2> QED BY <2>1, <2>2, <2>3
<1>3. ASSUME NEW e \in group PROVE e[1] \in Declaring(matcher) /\ e[2] \in matcher[e[1]]
  OBVIOUS
<1> HIDE DEF group
<1>4. ASSUME NEW slot \in Declaring(matcher), NEW l \in matcher[slot], OccursAt(l, text, at)
      PROVE  \E e \in group : e[1] = slot /\ OccursAt(e[2], text, at)
  BY <1>2, <1>4
<1> QED BY <1>1, <1>3, <1>4

(* The table of what was found up to each offset.                          *)
IsLook(look, matcher, text) ==
  look = [at \in 0..Len(text) |->
            IF at = 0 THEN [present |-> {}, remaining |-> Cardinality(Declaring(matcher))]
            ELSE LET found == look[at - 1]
                     new == PresentAt(matcher, text, at, found.present)
                 IN IF found.remaining = 0 THEN found
                    ELSE [present |-> found.present \cup new,
                          remaining |-> found.remaining - Cardinality(new)]]

FoundUpto(matcher, text, at) ==
  [present |-> Occurring(matcher, text, at),
   remaining |-> Cardinality(Declaring(matcher) \ Occurring(matcher, text, at))]

LEMMA DeclaringIsFinite ==
  ASSUME NEW matcher, IsMatcher(matcher)
  PROVE  IsFiniteSet(Declaring(matcher))
<1>1. PICK n \in Nat : DOMAIN matcher \subseteq 1..n BY DEF IsMatcher
<1>2. IsFiniteSet(1..n) BY FS_Interval
<1>3. Declaring(matcher) \subseteq 1..n BY <1>1 DEF Declaring
<1> QED BY <1>2, <1>3, FS_Subset

(* A step of the search: when none remains to be found, all are.           *)
LEMMA LookGoesOn ==
  ASSUME NEW matcher, IsMatcher(matcher), NEW text, IsText(text),
         NEW at \in 1..Len(text), at < Len(text)
  PROVE  LET found == FoundUpto(matcher, text, at - 1)
             new == PresentAt(matcher, text, at, found.present)
         IN FoundUpto(matcher, text, at) =
              IF found.remaining = 0 THEN found
              ELSE [present |-> found.present \cup new,
                    remaining |-> found.remaining - Cardinality(new)]
<1> DEFINE D == Declaring(matcher)
           before == Occurring(matcher, text, at - 1)
           new == PresentAt(matcher, text, at, before)
<1>1. /\ FoundUpto(matcher, text, at - 1).present = before
      /\ FoundUpto(matcher, text, at - 1).remaining = Cardinality(D \ before)
      /\ FoundUpto(matcher, text, at - 1) = [present |-> before, remaining |-> Cardinality(D \ before)]
  BY DEF FoundUpto
<1>2. /\ before \subseteq D /\ new \subseteq D \ before
      /\ Occurring(matcher, text, at) = before \cup new
  <2>1. new = {slot \in D \ before : \E l \in matcher[slot] : OccursAt(l, text, at)}
    BY GroupsMissNothing
  <2>2. \A k : k \in 1..at <=> k \in 1..(at - 1) \/ k = at
    BY DEF IsText
  <2>3. \A slot : slot \in Occurring(matcher, text, at)
                    <=> slot \in before \/ (slot \in D /\ \E l \in matcher[slot] : OccursAt(l, text, at))
    <3> TAKE slot
    <3>1. slot \in Occurring(matcher, text, at)
            <=> slot \in D /\ \E l \in matcher[slot], k \in 1..at : OccursAt(l, text, k)
      BY DEF Occurring
    <3>2. slot \in before
            <=> slot \in D /\ \E l \in matcher[slot], k \in 1..(at - 1) : OccursAt(l, text, k)
      BY DEF Occurring
    <3> HIDE DEF D, before, new
    <3> QED BY <2>2, <3>1, <3>2
  <2>4. before \subseteq D BY DEF Occurring
  <2>5. Occurring(matcher, text, at) \subseteq D BY DEF Occurring
  <2> HIDE DEF D, before, new
  <2>6. \A slot : slot \in Occurring(matcher, text, at) <=> slot \in before \cup new
    BY <2>1, <2>3, <2>4, <2>5
  <2> QED BY <2>1, <2>4, <2>6
<1>3. IsFiniteSet(D) BY DeclaringIsFinite
<1>4. FoundUpto(matcher, text, at)
        = [present |-> before \cup new, remaining |-> Cardinality(D \ (before \cup new))]
  BY <1>2 DEF FoundUpto
<1> HIDE DEF D, before, new
<1>5. IsFiniteSet(D \ before) /\ IsFiniteSet(new) BY <1>2, <1>3, FS_Subset
<1>6. Cardinality(D \ (before \cup new)) = Cardinality(D \ before) - Cardinality(new)
  <2>1. D \ (before \cup new) = (D \ before) \ new BY <1>2
  <2>2. Cardinality((D \ before) \ new) = Cardinality(D \ before) - Cardinality((D \ before) \cap new)
    BY <1>5, FS_Difference
  <2>3. (D \ before) \cap new = new BY <1>2
  <2> QED BY <2>1, <2>2, <2>3
<1>7. CASE Cardinality(D \ before) = 0
  <2>1. D \ before = {} BY <1>5, <1>7, FS_EmptySet
  <2>2. new = {} BY <1>2, <2>1
  <2>3. before \cup new = before /\ D \ (before \cup new) = D \ before BY <2>2
  <2> QED BY <1>1, <1>4, <1>7, <2>3 DEF new
<1>8. CASE Cardinality(D \ before) # 0
  BY <1>1, <1>4, <1>6, <1>8 DEF new
<1> QED BY <1>7, <1>8

(* What the matcher says is present is what occurs.                        *)
LEMMA PresentIsExact ==
  ASSUME NEW matcher, IsMatcher(matcher), NEW text, IsText(text), text # <<>>
  PROVE  Present(matcher, text)
           = {slot \in Declaring(matcher) : \E l \in matcher[slot] : Occurs(l, text)}
<1> DEFINE n == Len(text)
<1>1. n \in Nat /\ n # 0 /\ n - 1 \in 0..n /\ DOMAIN text = 1..n BY DEF IsText
<1>2. \E look : IsLook(look, matcher, text)
  <2> DEFINE upto(at) == FoundUpto(matcher, text, at)
             new == PresentAt(matcher, text, n, upto(n - 1).present)
             end == IF upto(n - 1).remaining = 0 THEN upto(n - 1)
                    ELSE [present |-> upto(n - 1).present \cup new,
                          remaining |-> upto(n - 1).remaining - Cardinality(new)]
             table == [at \in 0..n |-> IF at = n THEN end ELSE upto(at)]
  <2>1. upto(0) = [present |-> {}, remaining |-> Cardinality(Declaring(matcher))]
    <3>1. Occurring(matcher, text, 0) = {} BY DEF Occurring
    <3>2. Declaring(matcher) \ {} = Declaring(matcher) OBVIOUS
    <3> QED BY <3>1, <3>2 DEF FoundUpto
  <2>2. ASSUME NEW at \in 1..n
        PROVE  LET found == table[at - 1]
                   more == PresentAt(matcher, text, at, found.present)
               IN table[at] = IF found.remaining = 0 THEN found
                              ELSE [present |-> found.present \cup more,
                                    remaining |-> found.remaining - Cardinality(more)]
    <3>1. at \in 0..n /\ at - 1 \in 0..n /\ at - 1 # n BY <1>1
    <3>2. table[at - 1] = upto(at - 1) BY <3>1
    <3>3. CASE at = n BY <3>1, <3>2, <3>3
    <3>4. CASE at < n
      <4>1. table[at] = upto(at) BY <3>1, <3>4
      <4> QED BY <3>2, <3>4, <4>1, LookGoesOn
    <3> HIDE DEF table, upto, end, new
    <3>5. (at = n) \/ (at < n)
      <4>1. n \in Nat BY <1>1
      <4> HIDE DEF n
      <4> QED BY <4>1
    <3> QED BY <3>3, <3>4, <3>5
  <2>3. table[0] = upto(0) BY <1>1
  <2> HIDE DEF table
  <2>4. IsLook(table, matcher, text)
    <3> DEFINE body(at) ==
          IF at = 0 THEN [present |-> {}, remaining |-> Cardinality(Declaring(matcher))]
          ELSE LET found == table[at - 1]
                   more == PresentAt(matcher, text, at, found.present)
               IN IF found.remaining = 0 THEN found
                  ELSE [present |-> found.present \cup more,
                        remaining |-> found.remaining - Cardinality(more)]
    <3>1. \A at \in 0..n : table[at] = body(at)
      <4>1. body(0) = [present |-> {}, remaining |-> Cardinality(Declaring(matcher))] OBVIOUS
      <4>2. \A at \in 1..n : table[at] = body(at)
        <5>1. \A at \in 1..n : at # 0 OBVIOUS
        <5> QED BY <2>2, <5>1
      <4>3. \A at \in 0..n : at = 0 \/ at \in 1..n BY <1>1
      <4> HIDE DEF body
      <4> QED BY <2>1, <2>3, <4>1, <4>2, <4>3
    <3>2. table = [at \in 0..n |-> table[at]] BY DEF table
    <3> HIDE DEF body
    <3>3. table = [at \in 0..n |-> body(at)] BY <3>1, <3>2
    <3> QED BY <3>3, Zenon DEF IsLook, body
  <2> QED BY <2>4
<1> DEFINE look == CHOOSE look : IsLook(look, matcher, text)
<1>3. IsLook(look, matcher, text) BY <1>2
<1>4. Present(matcher, text) = look[n - 1].present BY Zenon DEF Present, IsLook
<1> HIDE DEF look
<1>5. /\ look[0] = [present |-> {}, remaining |-> Cardinality(Declaring(matcher))]
      /\ \A at \in 1..n : look[at] =
           LET found == look[at - 1]
               new == PresentAt(matcher, text, at, found.present)
           IN IF found.remaining = 0 THEN found
              ELSE [present |-> found.present \cup new,
                    remaining |-> found.remaining - Cardinality(new)]
  <2> DEFINE body(at) ==
        IF at = 0 THEN [present |-> {}, remaining |-> Cardinality(Declaring(matcher))]
        ELSE LET found == look[at - 1]
                 new == PresentAt(matcher, text, at, found.present)
             IN IF found.remaining = 0 THEN found
                ELSE [present |-> found.present \cup new,
                      remaining |-> found.remaining - Cardinality(new)]
  <2>1. look = [at \in 0..n |-> body(at)] BY <1>3, Zenon DEF IsLook
  <2>2. \A at \in 0..n : look[at] = body(at)
    <3> HIDE DEF body
    <3> QED BY <2>1
  <2>3. 0 \in 0..n /\ \A at \in 1..n : at \in 0..n /\ at # 0 BY <1>1
  <2> QED BY <2>2, <2>3
<1> DEFINE P == {at \in Nat : at < n => look[at] = FoundUpto(matcher, text, at)}
<1>6. 0 \in P
  <2>1. Occurring(matcher, text, 0) = {} BY DEF Occurring
  <2>2. Declaring(matcher) \ {} = Declaring(matcher) OBVIOUS
  <2> QED BY <1>5, <2>1, <2>2 DEF FoundUpto
<1>7. ASSUME NEW at \in P PROVE at + 1 \in P
  <2> SUFFICES ASSUME at + 1 < n PROVE look[at + 1] = FoundUpto(matcher, text, at + 1)
    OBVIOUS
  <2>1. at + 1 \in 1..n /\ (at + 1) - 1 = at /\ at < n BY <1>1
  <2>2. look[at] = FoundUpto(matcher, text, at) BY <2>1
  <2> DEFINE found == FoundUpto(matcher, text, at)
             new == PresentAt(matcher, text, at + 1, found.present)
             next == IF found.remaining = 0 THEN found
                     ELSE [present |-> found.present \cup new,
                           remaining |-> found.remaining - Cardinality(new)]
  <2>3. look[at + 1] = next BY <1>5, <2>1, <2>2
  <2>4. FoundUpto(matcher, text, at + 1) = next
    <3>1. at + 1 \in 1..Len(text) /\ at + 1 < Len(text) BY <2>1
    <3>2. FoundUpto(matcher, text, (at + 1) - 1) = found BY <2>1
    <3> HIDE DEF found
    <3> QED BY <3>1, <3>2, LookGoesOn
  <2> QED BY <2>3, <2>4
<1>8. P = Nat
  <2>1. P \subseteq Nat OBVIOUS
  <2> HIDE DEF P
  <2> QED BY <1>6, <1>7, <2>1, StepsReachAll
<1>9. look[n - 1] = FoundUpto(matcher, text, n - 1)
  <2>1. n - 1 \in Nat /\ n - 1 < n BY <1>1
  <2>2. n - 1 \in P BY <1>8, <2>1
  <2> QED BY <2>1, <2>2
<1>10. Present(matcher, text) = Occurring(matcher, text, n - 1) BY <1>4, <1>9 DEF FoundUpto
<1>11. ASSUME NEW slot \in Declaring(matcher), NEW l \in matcher[slot]
       PROVE  Occurs(l, text) <=> \E at \in 1..(n - 1) : OccursAt(l, text, at)
  <2>1. Len(l) >= 2 /\ Len(l) \in Nat BY DEF IsMatcher, IsText, Declaring
  <2>2. \A at \in DOMAIN text : OccursAt(l, text, at) => at \in 1..(n - 1)
    BY <1>1, <2>1 DEF OccursAt
  <2>3. \A at \in 1..(n - 1) : at \in DOMAIN text BY <1>1
  <2> QED BY <2>2, <2>3 DEF Occurs
<1> QED BY <1>10, <1>11 DEF Occurring

------------------------------------------------------------------------------
(* The invariant.                                                          *)
Units == UNION {Range(t) : t \in Texts}
Declarations == {Required(BuiltIns[k]) : k \in DOMAIN BuiltIns} \cup {{}}
Copies == [buffer : Buffers, from : {1}, len : Nat]
Marks == [copy : Copies, pairs : (SUBSET (Units \X Units)) \cup {Nil}]
Registered == [held : {"built-in", "pii", "custom"}, literals : Declarations]
Scans == [copy : Copies, boundary : Nat, next : Nat, previous : Marks \cup {Nil},
          present : SUBSET Nat]

TypeOK ==
  /\ detectors \in Seq(Registered)
  /\ memory \in [Buffers -> Texts \cup {Nil}]
  /\ scans \in Seq(Scans)
  /\ mark \in Marks \cup {Nil}

(* The matcher was compiled from the built-in detectors as they are; those *)
(* it does not know declare nothing.                                       *)
MatcherFits ==
  prefilter # Nil =>
    /\ DOMAIN prefilter \subseteq DOMAIN detectors
    /\ \A slot \in DOMAIN prefilter : prefilter[slot] = detectors[slot].literals
    /\ \A slot \in DOMAIN detectors \ DOMAIN prefilter : detectors[slot].literals = {}

(* What a scan runs on stays where it is while the scan runs, and what was *)
(* present when it began is what occurs in it.                             *)
PresentIn(copy) ==
  IF prefilter = Nil THEN DOMAIN detectors ELSE Present(prefilter, Bytes(copy))

Holds(copy) == memory[copy.buffer] # Nil /\ copy.len \in 1..Len(memory[copy.buffer])

ScansHold ==
  \A k \in DOMAIN scans :
    Holds(scans[k].copy) /\ scans[k].present = PresentIn(scans[k].copy)

(* The mark is the innermost scan's, and what it will be restored to is    *)
(* that of the scan around it; its pairs are those of the bytes there.     *)
Marked(m, k) ==
  m # Nil => /\ k \in DOMAIN scans /\ m.copy = scans[k].copy
             /\ m.pairs # Nil => m.pairs = Pairs(Bytes(m.copy))

MarksAreCurrent ==
  Marked(mark, Len(scans)) /\ \A k \in DOMAIN scans : Marked(scans[k].previous, k - 1)

IInv == TypeOK /\ MatcherFits /\ ScansHold /\ MarksAreCurrent /\ SkipsNothingFound

------------------------------------------------------------------------------
(* Texts and what occurs in them.                                          *)
LEMMA SequencesAreTexts ==
  ASSUME NEW S, NEW t \in Seq(S)
  PROVE  IsText(t) /\ DOMAIN t = 1..Len(t) /\ Len(t) \in Nat
<1>1. DOMAIN t = 1..Len(t) /\ Len(t) \in Nat OBVIOUS
<1>2. \A i \in 1..Len(t) : t[i] \in Range(t) BY <1>1 DEF Range
<1> QED BY <1>1, <1>2 DEF IsText

LEMMA DeclaredAreLong ==
  ASSUME ConstantsAssumption, NEW literals \in Declarations, NEW l \in literals
  PROVE  IsText(l) /\ Len(l) >= 2
<1>1. PICK k \in DOMAIN BuiltIns : literals = Required(BuiltIns[k]) BY DEF Declarations
<1>2. literals = BuiltIns[k] /\ ~(Len(l) < 2) BY <1>1 DEF Required
<1>3. IsText(l) BY <1>2 DEF ConstantsAssumption
<1>4. Len(l) \in Nat BY <1>3 DEF IsText
<1> QED BY <1>2, <1>3, <1>4

LEMMA TheMatcher ==
  ASSUME ConstantsAssumption, TypeOK, MatcherFits, prefilter # Nil
  PROVE  IsMatcher(prefilter)
<1>1. DOMAIN prefilter \subseteq 1..Len(detectors) /\ Len(detectors) \in Nat
  BY DEF TypeOK, MatcherFits
<1>2. ASSUME NEW slot \in DOMAIN prefilter, NEW l \in prefilter[slot]
      PROVE  IsText(l) /\ Len(l) >= 2
  <2>1. slot \in 1..Len(detectors) /\ prefilter[slot] = detectors[slot].literals
    BY <1>1 DEF MatcherFits
  <2>2. detectors[slot] \in Registered BY <2>1 DEF TypeOK
  <2>3. prefilter[slot] \in Declarations BY <2>1, <2>2 DEF Registered
  <2> QED BY <2>3, DeclaredAreLong
<1> QED BY <1>1, <1>2 DEF IsMatcher

(* The bytes of a scan copy.                                               *)
LEMMA CopyIsText ==
  ASSUME ConstantsAssumption, TypeOK, NEW copy \in Copies, Holds(copy)
  PROVE  /\ Bytes(copy) \in Seq(Units) /\ IsText(Bytes(copy)) /\ Bytes(copy) # <<>>
         /\ Len(Bytes(copy)) = copy.len
<1> DEFINE t == memory[copy.buffer]
<1>1. t \in Texts /\ copy.from = 1 /\ copy.len \in 1..Len(t) BY DEF TypeOK, Copies, Holds
<1>2. t \in Seq(Range(t)) BY <1>1 DEF ConstantsAssumption, IsText
<1>3. Range(t) \subseteq Units BY <1>1 DEF Units
<1>4. t \in Seq(Units) BY <1>2, <1>3
<1>5. Bytes(copy) = SubSeq(t, 1, copy.len)
  <2>1. copy.len \in Nat /\ 1 + copy.len - 1 = copy.len BY <1>1, <1>2
  <2> QED BY <1>1, <2>1 DEF Bytes
<1> HIDE DEF t
<1>6. SubSeq(t, 1, copy.len) \in Seq(Units) /\ Len(SubSeq(t, 1, copy.len)) = copy.len
  BY <1>1, <1>4
<1>7. Bytes(copy) # <<>> BY <1>1, <1>4, <1>5, <1>6
<1> QED BY <1>5, <1>6, <1>7, SequencesAreTexts

(* A text has the pairs of what occurs in it.                              *)
LEMMA PairsOccur ==
  ASSUME NEW literal, IsText(literal), NEW text, IsText(text), Occurs(literal, text)
  PROVE  Pairs(literal) \subseteq Pairs(text)
<1>1. PICK at \in DOMAIN text : OccursAt(literal, text, at) BY DEF Occurs
<1>2. /\ Len(literal) \in Nat /\ DOMAIN literal = 1..Len(literal)
      /\ Len(text) \in Nat /\ DOMAIN text = 1..Len(text)
  BY DEF IsText
<1>3. /\ at \in Nat /\ at >= 1 /\ at + Len(literal) - 1 <= Len(text)
      /\ \A k \in 1..Len(literal) : text[at + k - 1] = literal[k]
  BY <1>1, <1>2 DEF OccursAt
<1>4. ASSUME NEW k \in 1..(Len(literal) - 1)
      PROVE  <<literal[k], literal[k + 1]>> \in Pairs(text)
  <2>1. k \in 1..Len(literal) /\ k + 1 \in 1..Len(literal) BY <1>2
  <2>2. at + k - 1 \in 1..(Len(text) - 1) /\ at + (k + 1) - 1 = (at + k - 1) + 1
    BY <1>2, <1>3
  <2>3. text[at + k - 1] = literal[k] /\ text[(at + k - 1) + 1] = literal[k + 1]
    BY <1>3, <2>1, <2>2
  <2> QED BY <2>2, <2>3 DEF Pairs
<1> QED BY <1>4 DEF Pairs

LEMMA PairsAreUnits ==
  ASSUME NEW S, NEW t \in Seq(S)
  PROVE  Pairs(t) \subseteq S \X S
<1>1. Len(t) \in Nat OBVIOUS
<1>2. ASSUME NEW k \in 1..(Len(t) - 1) PROVE t[k] \in S /\ t[k + 1] \in S BY <1>1
<1> QED BY <1>2 DEF Pairs

------------------------------------------------------------------------------
(* The registry, composed while nothing is scanned.                        *)
LEMMA NoScan ==
  ASSUME IInv, scans = <<>>
  PROVE  mark = Nil
<1>1. DOMAIN scans = {} OBVIOUS
<1> QED BY <1>1 DEF IInv, MarksAreCurrent, Marked

(* Nothing is scanned, and the matcher fits the detectors.                 *)
LEMMA Composes ==
  ASSUME IInv, scans = <<>>, UNCHANGED <<memory, scans, mark>>, answer' = Nil,
         detectors' \in Seq(Registered), MatcherFits'
  PROVE  IInv'
<1>1. mark' = Nil /\ scans' = <<>> BY NoScan
<1>2. DOMAIN scans' = {} BY <1>1
<1>3. ScansHold' /\ MarksAreCurrent' BY <1>1, <1>2 DEF ScansHold, MarksAreCurrent, Marked
<1>4. TypeOK' BY DEF IInv, TypeOK
<1> QED BY <1>3, <1>4 DEF IInv, SkipsNothingFound

LEMMA CompiledFits ==
  ASSUME NEW ds, prefilter' = Compile(ds), detectors' = ds
  PROVE  MatcherFits'
<1> SUFFICES ASSUME prefilter' # Nil PROVE MatcherFits' BY DEF MatcherFits
<1>1. prefilter' = [slot \in DOMAIN ds |-> ds[slot].literals] BY DEF Compile
<1> QED BY <1>1 DEF MatcherFits

LEMMA WithDetectionKeeps ==
  ASSUME ConstantsAssumption, IInv, NEW removed \in SUBSET DOMAIN detectors, WithDetection(removed)
  PROVE  IInv'
<1>1. /\ scans = <<>> /\ UNCHANGED <<memory, scans, mark>> /\ answer' = Nil
  BY DEF WithDetection, Composing
<1> DEFINE n == Len(detectors) - Cardinality(removed)
<1>2. PICK kept \in [1..n -> DOMAIN detectors \ removed] :
        /\ detectors' = [k \in DOMAIN kept |-> detectors[kept[k]]]
        /\ prefilter' = Compile([k \in DOMAIN kept |-> detectors[kept[k]]])
  BY DEF WithDetection, Recompiled
<1>3. n \in Int
  <2>1. detectors \in Seq(Registered) BY DEF IInv, TypeOK
  <2>2. Len(detectors) \in Nat /\ DOMAIN detectors = 1..Len(detectors) BY <2>1
  <2>3. IsFiniteSet(removed)
    <3>1. IsFiniteSet(1..Len(detectors)) BY <2>2, FS_Interval
    <3> QED BY <2>2, <3>1, FS_Subset
  <2>4. Cardinality(removed) \in Nat BY <2>3, FS_CardinalityType
  <2> QED BY <2>2, <2>4
<1>4. detectors' \in Seq(Registered)
  <2> HIDE DEF n
  <2> DEFINE D == DOMAIN detectors
  <2>5. \A i \in D : detectors[i] \in Registered BY DEF IInv, TypeOK
  <2>6. kept \in [1..n -> D] BY <1>2
  <2>1. \A k \in 1..n : detectors[kept[k]] \in Registered
    <3> HIDE DEF D
    <3> QED BY <2>5, <2>6
  <2>2. detectors' \in [1..n -> Registered] BY <1>2, <2>1
  <2>3. CASE n \in Nat BY <2>2, <2>3
  <2>4. CASE n \notin Nat
    <3>1. 1..n = {} /\ 1..0 = {} BY <1>3, <2>4
    <3>2. detectors' \in [1..0 -> Registered] BY <2>2, <3>1
    <3> QED BY <3>2
  <2> QED BY <2>3, <2>4
<1>5. MatcherFits' BY <1>2, CompiledFits
<1> QED BY <1>1, <1>4, <1>5, Composes

LEMMA RegisterKeeps ==
  ASSUME ConstantsAssumption, IInv, Register
  PROVE  IInv'
<1>1. /\ scans = <<>> /\ UNCHANGED <<memory, scans, mark>> /\ answer' = Nil
      /\ prefilter' = prefilter /\ detectors' = Append(detectors, Detector("custom", {}))
  BY DEF Register, Composing
<1>2. Detector("custom", {}) \in Registered BY DEF Detector, Registered, Declarations
<1>3. detectors \in Seq(Registered) BY DEF IInv, TypeOK
<1>4. /\ detectors' \in Seq(Registered)
      /\ DOMAIN detectors \subseteq DOMAIN detectors'
      /\ \A slot \in DOMAIN detectors : detectors'[slot] = detectors[slot]
      /\ \A slot \in DOMAIN detectors' \ DOMAIN detectors : detectors'[slot].literals = {}
  BY <1>1, <1>2, <1>3 DEF Detector
<1>5. MatcherFits'
  <2> SUFFICES ASSUME prefilter' # Nil PROVE MatcherFits' BY DEF MatcherFits
  <2>1. /\ DOMAIN prefilter \subseteq DOMAIN detectors
        /\ \A slot \in DOMAIN prefilter : prefilter[slot] = detectors[slot].literals
        /\ \A slot \in DOMAIN detectors \ DOMAIN prefilter : detectors[slot].literals = {}
    BY <1>1 DEF IInv, MatcherFits
  <2>2. DOMAIN prefilter' \subseteq DOMAIN detectors' BY <1>1, <1>4, <2>1
  <2>3. \A slot \in DOMAIN prefilter' : prefilter'[slot] = detectors'[slot].literals
    BY <1>1, <1>4, <2>1
  <2>4. \A slot \in DOMAIN detectors' \ DOMAIN prefilter' : detectors'[slot].literals = {}
    BY <1>1, <1>4, <2>1
  <2> QED BY <2>2, <2>3, <2>4 DEF MatcherFits
<1> QED BY <1>1, <1>4, <1>5, Composes

------------------------------------------------------------------------------
(* Memory: what a scan runs on is not touched.                             *)
LEMMA MemoryKeeps ==
  ASSUME IInv, UNCHANGED <<detectors, prefilter, scans, mark>>, answer' = Nil,
         memory' \in [Buffers -> Texts \cup {Nil}],
         \A k \in DOMAIN scans : memory'[scans[k].copy.buffer] = memory[scans[k].copy.buffer]
  PROVE  IInv'
<1>1. \A k \in DOMAIN scans : /\ Bytes(scans[k].copy)' = Bytes(scans[k].copy)
                             /\ Holds(scans[k].copy)' = Holds(scans[k].copy)
                             /\ PresentIn(scans[k].copy)' = PresentIn(scans[k].copy)
  BY DEF Bytes, Holds, PresentIn
<1>2. ScansHold' BY <1>1 DEF IInv, ScansHold
<1>3. \A m, k : Marked(m, k) => Marked(m, k)'
  <2> SUFFICES ASSUME NEW m, NEW k, Marked(m, k), m # Nil
               PROVE  Marked(m, k)'
    BY DEF Marked
  <2>1. k \in DOMAIN scans /\ m.copy = scans[k].copy BY DEF Marked
  <2>2. Bytes(m.copy)' = Bytes(m.copy) BY <1>1, <2>1
  <2> QED BY <2>1, <2>2 DEF Marked
<1>4. MarksAreCurrent' BY <1>3 DEF IInv, MarksAreCurrent
<1>5. TypeOK' BY DEF IInv, TypeOK
<1> QED BY <1>2, <1>4, <1>5 DEF IInv, MatcherFits, SkipsNothingFound

LEMMA AllocateKeeps ==
  ASSUME IInv, NEW buffer \in Buffers, NEW text \in Texts, Allocate(buffer, text)
  PROVE  IInv'
<1>1. /\ UNCHANGED <<detectors, prefilter, scans, mark>> /\ answer' = Nil
      /\ memory[buffer] = Nil /\ memory' = [memory EXCEPT ![buffer] = text]
  BY DEF Allocate
<1>2. memory' \in [Buffers -> Texts \cup {Nil}] BY <1>1 DEF IInv, TypeOK
<1>3. ASSUME NEW k \in DOMAIN scans
      PROVE  memory'[scans[k].copy.buffer] = memory[scans[k].copy.buffer]
  <2>1. memory[scans[k].copy.buffer] # Nil BY DEF IInv, ScansHold, Holds
  <2>2. scans[k].copy.buffer # buffer BY <1>1, <2>1
  <2> QED BY <1>1, <2>2 DEF IInv, TypeOK
<1> QED BY <1>1, <1>2, <1>3, MemoryKeeps

LEMMA FreeKeeps ==
  ASSUME IInv, NEW buffer \in Buffers, Free(buffer)
  PROVE  IInv'
<1>1. /\ UNCHANGED <<detectors, prefilter, scans, mark>> /\ answer' = Nil
      /\ memory' = [memory EXCEPT ![buffer] = Nil]
      /\ \A k \in DOMAIN scans : scans[k].copy.buffer # buffer
  BY DEF Free
<1>2. memory' \in [Buffers -> Texts \cup {Nil}] BY <1>1 DEF IInv, TypeOK
<1>3. \A k \in DOMAIN scans : memory'[scans[k].copy.buffer] = memory[scans[k].copy.buffer]
  BY <1>1 DEF IInv, TypeOK
<1> QED BY <1>1, <1>2, <1>3, MemoryKeeps

------------------------------------------------------------------------------
(* Scans.                                                                  *)

(* What a matcher can say of a text: places of detectors.                  *)
LEMMA PresentInType ==
  ASSUME ConstantsAssumption, IInv, NEW copy \in Copies, Holds(copy)
  PROVE  PresentIn(copy) \in SUBSET Nat
<1>1. DOMAIN detectors \subseteq Nat BY DEF IInv, TypeOK
<1>2. CASE prefilter = Nil BY <1>1, <1>2 DEF PresentIn
<1>3. CASE prefilter # Nil
  <2>1. IsMatcher(prefilter) BY <1>3, TheMatcher DEF IInv
  <2>2. IsText(Bytes(copy)) /\ Bytes(copy) # <<>> BY CopyIsText DEF IInv
  <2>3. PresentIn(copy) \subseteq Declaring(prefilter)
    BY <1>3, <2>1, <2>2, PresentIsExact DEF PresentIn
  <2>4. Declaring(prefilter) \subseteq DOMAIN detectors
    BY <1>3 DEF IInv, MatcherFits, Declaring
  <2> QED BY <1>1, <2>3, <2>4
<1> QED BY <1>2, <1>3

LEMMA BeginKeeps ==
  ASSUME ConstantsAssumption, IInv,
         NEW buffer \in Buffers, NEW len \in Lengths, NEW boundary \in Starts,
         Begin(buffer, len, boundary)
  PROVE  IInv'
<1> DEFINE copy == Piece(buffer, 1, len)
           scan == [copy |-> copy, boundary |-> boundary, next |-> 1, previous |-> mark,
                    present |-> PresentIn(copy)]
<1>1. /\ UNCHANGED <<detectors, prefilter, memory>> /\ answer' = Nil
      /\ memory[buffer] # Nil /\ len \in 1..Len(memory[buffer]) /\ boundary \in 0..len
      /\ scans' = Append(scans, scan)
      /\ mark' = [copy |-> copy, pairs |-> Nil]
  BY DEF Begin, PresentIn
<1>2. copy \in Copies /\ Holds(copy) /\ copy.buffer = buffer /\ boundary \in Nat
  <2>1. memory[buffer] \in Texts BY <1>1 DEF IInv, TypeOK
  <2>2. Len(memory[buffer]) \in Nat BY <2>1 DEF ConstantsAssumption, IsText
  <2>3. len \in Nat /\ boundary \in Nat BY <1>1, <2>2
  <2> QED BY <1>1, <2>3 DEF Piece, Copies, Holds
<1>3. PresentIn(copy) \in SUBSET Nat BY <1>2, PresentInType
<1>4. scan \in Scans BY <1>2, <1>3 DEF IInv, TypeOK, Scans
<1>5. scans \in Seq(Scans) BY DEF IInv, TypeOK
<1>7. /\ scan.copy = copy /\ scan.previous = mark /\ scan.present = PresentIn(copy)
      /\ mark' # Nil => mark'.copy = copy /\ mark'.pairs = Nil
  BY <1>1
<1> HIDE DEF copy, scan
<1>6. mark' \in Marks
  <2>1. \A c \in Copies, p \in (SUBSET (Units \X Units)) \cup {Nil} :
          [copy |-> c, pairs |-> p] \in Marks
    BY DEF Marks
  <2>2. Nil \in (SUBSET (Units \X Units)) \cup {Nil} BY Zenon
  <2>3. [copy |-> copy, pairs |-> Nil] \in Marks BY <1>2, <2>1, <2>2, Zenon
  <2> QED BY <1>1, <2>3, Zenon
<1>8. TypeOK' BY <1>1, <1>4, <1>5, <1>6 DEF IInv, TypeOK
<1>9. /\ Len(scans) \in Nat /\ Len(scans') = Len(scans) + 1
      /\ DOMAIN scans = 1..Len(scans) /\ DOMAIN scans' = 1..(Len(scans) + 1)
      /\ \A k \in DOMAIN scans : scans'[k] = scans[k]
      /\ scans'[Len(scans) + 1] = scan
  BY <1>1, <1>4, <1>5
<1>10. /\ \A c : Bytes(c)' = Bytes(c) /\ Holds(c)' = Holds(c) /\ PresentIn(c)' = PresentIn(c)
  BY <1>1 DEF Bytes, Holds, PresentIn
<1>11. ScansHold'
  <2> SUFFICES ASSUME NEW k \in DOMAIN scans'
               PROVE  Holds(scans'[k].copy) /\ scans'[k].present = PresentIn(scans'[k].copy)
    BY <1>10 DEF ScansHold
  <2>1. CASE k \in DOMAIN scans BY <1>9, <2>1 DEF IInv, ScansHold
  <2>2. CASE k = Len(scans) + 1 BY <1>2, <1>7, <1>9, <2>2
  <2> QED BY <1>9, <2>1, <2>2
<1>12. ASSUME NEW m, NEW k, Marked(m, k) PROVE Marked(m, k)'
  <2> SUFFICES ASSUME m # Nil PROVE Marked(m, k)' BY DEF Marked
  <2>1. /\ k \in DOMAIN scans /\ m.copy = scans[k].copy
        /\ m.pairs # Nil => m.pairs = Pairs(Bytes(m.copy))
    BY <1>12 DEF Marked
  <2>2. k \in DOMAIN scans' /\ scans'[k] = scans[k] BY <1>9, <2>1
  <2> QED BY <1>10, <2>1, <2>2 DEF Marked
<1>13. MarksAreCurrent'
  <2>1. Marked(mark, Len(scans))' BY <1>7, <1>9 DEF Marked
  <2>2. ASSUME NEW k \in DOMAIN scans' PROVE Marked(scans[k].previous, k - 1)'
    <3>1. PICK m : m = scans'[k].previous OBVIOUS
    <3>2. Marked(m, k - 1)
      <4>1. CASE k \in DOMAIN scans BY <1>9, <3>1, <4>1 DEF IInv, MarksAreCurrent
      <4>2. CASE k = Len(scans) + 1
        <5>1. m = mark /\ k - 1 = Len(scans) BY <1>7, <1>9, <3>1, <4>2
        <5> QED BY <5>1 DEF IInv, MarksAreCurrent
      <4> QED BY <1>9, <4>1, <4>2
    <3>3. Marked(m, k - 1)' BY <1>12, <3>2
    <3> QED BY <3>1, <3>3 DEF Marked
  <2> QED BY <2>1, <2>2 DEF MarksAreCurrent
<1> QED BY <1>1, <1>8, <1>11, <1>13 DEF IInv, MatcherFits, SkipsNothingFound

(* What the matcher decides of a detector is what occurs in the copy.      *)
LEMMA SkipIsExact ==
  ASSUME ConstantsAssumption, IInv, scans # <<>>, Running, Current.literals # {}
  PROVE  /\ prefilter # Nil =>
              (Skips(Innermost) = ~\E l \in Current.literals : Occurs(l, Bytes(Innermost.copy)))
         /\ prefilter = Nil => ~Skips(Innermost)
<1>1. Len(scans) \in DOMAIN scans /\ Innermost \in Scans
  BY DEF IInv, TypeOK, Innermost
<1>2. /\ Innermost.copy \in Copies /\ Holds(Innermost.copy)
      /\ Innermost.present = PresentIn(Innermost.copy)
  BY <1>1 DEF IInv, ScansHold, Innermost, Scans
<1> DEFINE next == Innermost.next
           text == Bytes(Innermost.copy)
<1>3. next \in DOMAIN detectors /\ detectors[next] = Current /\ Current.literals # {}
  BY DEF Running, Current
<1>4. Skips(Innermost) <=> next \notin Innermost.present BY <1>3 DEF Skips
<1>5. CASE prefilter = Nil BY <1>2, <1>3, <1>4, <1>5 DEF PresentIn
<1>6. CASE prefilter # Nil
  <2>1. IsMatcher(prefilter) BY <1>6, TheMatcher DEF IInv
  <2>2. IsText(text) /\ text # <<>> BY <1>2, CopyIsText DEF IInv
  <2>3. next \in DOMAIN prefilter /\ prefilter[next] = Current.literals
    BY <1>3, <1>6 DEF IInv, MatcherFits
  <2>4. next \in Declaring(prefilter) BY <1>3, <2>3 DEF Declaring
  <2> HIDE DEF next, text
  <2>5. Present(prefilter, text) =
          {slot \in Declaring(prefilter) : \E l \in prefilter[slot] : Occurs(l, text)}
    BY <2>1, <2>2, PresentIsExact
  <2>6. next \in Present(prefilter, text) <=> \E l \in Current.literals : Occurs(l, text)
    BY <2>3, <2>4, <2>5
  <2>7. Innermost.present = Present(prefilter, text) BY <1>2, <1>6 DEF PresentIn, text
  <2>8. Skips(Innermost) \in BOOLEAN BY DEF Skips
  <2> QED BY <1>4, <1>6, <2>6, <2>7, <2>8 DEF text
<1> QED BY <1>5, <1>6

LEMMA NextDetectorKeeps ==
  ASSUME ConstantsAssumption, IInv, NextDetector
  PROVE  IInv'
<1> DEFINE n == Len(scans)
<1>1. /\ scans # <<>> /\ Running /\ UNCHANGED <<detectors, prefilter, memory, mark>>
      /\ scans' = [scans EXCEPT ![n].next = @ + 1]
      /\ answer' = IF Current.literals = {} THEN answer
                   ELSE Said(Current.literals, Bytes(Innermost.copy), Skips(Innermost),
                             prefilter # Nil)
  BY DEF NextDetector
<1>2. scans \in Seq(Scans) /\ n \in DOMAIN scans /\ DOMAIN scans = 1..n /\ n \in Nat
  BY <1>1 DEF IInv, TypeOK
<1>3. [scans[n] EXCEPT !.next = @ + 1] \in Scans
  <2>1. scans[n] \in Scans BY <1>2
  <2>2. scans[n].next + 1 \in Nat BY <2>1 DEF Scans
  <2> QED BY <2>1, <2>2 DEF Scans
<1>4. /\ scans' \in Seq(Scans) /\ DOMAIN scans' = DOMAIN scans /\ Len(scans') = Len(scans)
      /\ \A k \in DOMAIN scans : /\ scans'[k].copy = scans[k].copy
                                /\ scans'[k].present = scans[k].present
                                /\ scans'[k].previous = scans[k].previous
  <2>1. scans' = [scans EXCEPT ![n] = [scans[n] EXCEPT !.next = @ + 1]] BY <1>1
  <2>2. scans' \in Seq(Scans) /\ DOMAIN scans' = DOMAIN scans /\ Len(scans') = Len(scans)
    BY <1>2, <1>3, <2>1
  <2>3. ASSUME NEW k \in DOMAIN scans
        PROVE  /\ scans'[k].copy = scans[k].copy /\ scans'[k].present = scans[k].present
               /\ scans'[k].previous = scans[k].previous
    <3>1. CASE k # n BY <1>2, <2>1, <3>1
    <3>2. CASE k = n
      <4>1. scans'[k] = [scans[n] EXCEPT !.next = @ + 1] BY <1>2, <2>1, <3>2
      <4>2. scans[n] \in Scans BY <1>2
      <4> QED BY <3>2, <4>1, <4>2 DEF Scans
    <3> QED BY <3>1, <3>2
  <2> QED BY <2>2, <2>3
<1>5. \A c : Bytes(c)' = Bytes(c) /\ Holds(c)' = Holds(c) /\ PresentIn(c)' = PresentIn(c)
  BY <1>1 DEF Bytes, Holds, PresentIn
<1>6. ScansHold' BY <1>4, <1>5 DEF IInv, ScansHold
<1>7. \A m, k : Marked(m, k)' = Marked(m, k) BY <1>4, <1>5 DEF Marked
<1>8. MarksAreCurrent'
  <2>1. Marked(mark, Len(scans))'
    <3>1. Marked(mark, Len(scans)) BY DEF IInv, MarksAreCurrent
    <3> QED BY <1>1, <1>4, <1>5, <3>1 DEF Marked
  <2>2. ASSUME NEW k \in DOMAIN scans' PROVE Marked(scans[k].previous, k - 1)'
    <3>1. Marked(scans[k].previous, k - 1) BY <1>4 DEF IInv, MarksAreCurrent
    <3>2. scans'[k].previous = scans[k].previous BY <1>4
    <3> QED BY <1>4, <1>5, <3>1, <3>2 DEF Marked
  <2> QED BY <2>1, <2>2 DEF MarksAreCurrent
<1>9. TypeOK' BY <1>1, <1>4 DEF IInv, TypeOK
<1>10. SkipsNothingFound'
  <2>1. CASE Current.literals = {} BY <1>1, <2>1 DEF IInv, SkipsNothingFound
  <2>2. CASE Current.literals # {}
    <3>1. /\ answer'.literals = Current.literals /\ answer'.text = Bytes(Innermost.copy)
          /\ answer'.ruledOut = Skips(Innermost) /\ answer'.exact = (prefilter # Nil)
      BY <1>1, <2>2 DEF Said
    <3> HIDE DEF Occurs
    <3>2. /\ prefilter # Nil =>
                (Skips(Innermost) = ~\E l \in Current.literals : Occurs(l, Bytes(Innermost.copy)))
          /\ prefilter = Nil => ~Skips(Innermost)
      BY <1>1, <2>2, SkipIsExact
    <3> QED BY <3>1, <3>2 DEF SkipsNothingFound
  <2> QED BY <2>1, <2>2
<1> QED BY <1>1, <1>6, <1>8, <1>9, <1>10 DEF IInv, MatcherFits

LEMMA EndKeeps ==
  ASSUME ConstantsAssumption, IInv, End
  PROVE  IInv'
<1> DEFINE n == Len(scans)
<1>1. /\ scans # <<>> /\ UNCHANGED <<detectors, prefilter, memory>> /\ answer' = Nil
      /\ scans' = SubSeq(scans, 1, n - 1) /\ mark' = scans[n].previous
  BY DEF End, Front, MarkRestored, Innermost
<1>2. scans \in Seq(Scans) /\ n \in DOMAIN scans /\ DOMAIN scans = 1..n /\ n \in Nat /\ n # 0
  BY <1>1 DEF IInv, TypeOK
<1>3. /\ scans' \in Seq(Scans) /\ Len(scans') = n - 1 /\ DOMAIN scans' = 1..(n - 1)
      /\ \A k \in 1..(n - 1) : k \in DOMAIN scans /\ scans'[k] = scans[k]
  BY <1>1, <1>2
<1>4. TypeOK'
  <2>1. scans[n] \in Scans BY <1>2
  <2>2. mark' \in Marks \cup {Nil} BY <1>1, <2>1 DEF Scans
  <2> QED BY <1>1, <1>3, <2>2 DEF IInv, TypeOK
<1>5. \A c : Bytes(c)' = Bytes(c) /\ Holds(c)' = Holds(c) /\ PresentIn(c)' = PresentIn(c)
  BY <1>1 DEF Bytes, Holds, PresentIn
<1>6. ScansHold' BY <1>3, <1>5 DEF IInv, ScansHold
<1>7. ASSUME NEW m, NEW k, Marked(m, k), k # n PROVE Marked(m, k)'
  BY <1>2, <1>3, <1>5, <1>7 DEF Marked
<1>8. MarksAreCurrent'
  <2>1. Marked(mark, Len(scans))'
    <3>1. PICK m : m = mark' OBVIOUS
    <3>2. PICK k : k = n - 1 OBVIOUS
    <3>3. Marked(m, k) BY <1>1, <1>2, <3>1, <3>2 DEF IInv, MarksAreCurrent
    <3>4. Marked(m, k)'
      <4>1. k # n
        <5>1. n \in Nat /\ k = n - 1 BY <1>2, <3>2
        <5> HIDE DEF n
        <5> QED BY <5>1
      <4> QED BY <1>7, <3>3, <4>1
    <3> QED BY <1>3, <3>1, <3>2, <3>4 DEF Marked
  <2>2. ASSUME NEW k \in DOMAIN scans' PROVE Marked(scans[k].previous, k - 1)'
    <3>1. PICK m : m = scans'[k].previous OBVIOUS
    <3>2. Marked(m, k - 1) BY <1>3, <3>1 DEF IInv, MarksAreCurrent
    <3>3. k - 1 # n BY <1>2, <1>3
    <3>4. Marked(m, k - 1)' BY <1>7, <3>2, <3>3
    <3> QED BY <3>1, <3>4 DEF Marked
  <2> QED BY <2>1, <2>2 DEF MarksAreCurrent
<1> QED BY <1>1, <1>4, <1>6, <1>8 DEF IInv, MatcherFits, SkipsNothingFound

------------------------------------------------------------------------------
(* What detectors ask.                                                     *)

(* Pairs of a text may seem to occur that do not, but never the other way  *)
(* round.                                                                  *)
LEMMA MayContainAll ==
  ASSUME NEW pairs, NEW literal, NEW len, NEW may \in MayContain(pairs, literal, len),
         Pairs(literal) \subseteq pairs
  PROVE  may = TRUE
BY DEF MayContain

(* The pairs are those of the marked text.                                 *)
MarkedPairs == IF mark.pairs = Nil THEN Pairs(Bytes(mark.copy)) ELSE mark.pairs

LEMMA TheMark ==
  ASSUME ConstantsAssumption, IInv, mark # Nil
  PROVE  /\ mark \in Marks /\ MarkedPairs = Pairs(Bytes(mark.copy))
         /\ MarkedPairs \in SUBSET (Units \X Units)
         /\ IsText(Bytes(mark.copy))
<1>1. mark \in Marks BY DEF IInv, TypeOK
<1>2. /\ Len(scans) \in DOMAIN scans /\ mark.copy = scans[Len(scans)].copy
      /\ mark.pairs # Nil => mark.pairs = Pairs(Bytes(mark.copy))
  BY DEF IInv, MarksAreCurrent, Marked
<1>3. mark.copy \in Copies /\ Holds(mark.copy) BY <1>1, <1>2 DEF IInv, ScansHold, Marks
<1>4. Bytes(mark.copy) \in Seq(Units) /\ IsText(Bytes(mark.copy)) BY <1>3, CopyIsText DEF IInv
<1>5. MarkedPairs = Pairs(Bytes(mark.copy)) BY <1>2 DEF MarkedPairs
<1>6. Pairs(Bytes(mark.copy)) \subseteq Units \X Units BY <1>4, PairsAreUnits
<1> QED BY <1>1, <1>4, <1>5, <1>6

LEMMA AskKeeps ==
  ASSUME ConstantsAssumption, IInv, NEW input, NEW literal \in Asked, Ask(input, literal)
  PROVE  IInv'
<1>1. UNCHANGED <<detectors, prefilter, memory, scans>> BY DEF Ask
<1>2. \A c : Bytes(c)' = Bytes(c) /\ Holds(c)' = Holds(c) /\ PresentIn(c)' = PresentIn(c)
  BY <1>1 DEF Bytes, Holds, PresentIn
<1>3. ScansHold' BY <1>1, <1>2 DEF IInv, ScansHold
<1>4. \A m, k : Marked(m, k)' = Marked(m, k) BY <1>1, <1>2 DEF Marked
<1>5. \A k \in DOMAIN scans' : Marked(scans[k].previous, k - 1)'
  <2> TAKE k \in DOMAIN scans'
  <2>1. PICK m : m = scans'[k].previous OBVIOUS
  <2>2. Marked(m, k - 1) BY <1>1, <2>1 DEF IInv, MarksAreCurrent
  <2>3. Marked(m, k - 1)' BY <1>4, <2>2
  <2> QED BY <2>1, <2>3 DEF Marked
<1>6. CASE Len(literal) < 2 \/ ~IsMarked(input)
  <2>1. answer' = Said({literal}, Bytes(input), FALSE, FALSE) /\ mark' = mark
    BY <1>6 DEF Ask
  <2>2. SkipsNothingFound' BY <2>1 DEF Said, SkipsNothingFound
  <2>3. MarksAreCurrent'
    <3>1. PICK m : m = mark OBVIOUS
    <3>2. Marked(m, Len(scans)) BY <3>1 DEF IInv, MarksAreCurrent
    <3>3. Marked(mark, Len(scans))' BY <1>1, <1>2, <2>1, <3>1, <3>2 DEF Marked
    <3> QED BY <1>5, <3>3 DEF MarksAreCurrent
  <2> QED BY <1>1, <1>3, <2>1, <2>2, <2>3 DEF IInv, TypeOK, MatcherFits
<1>7. CASE ~(Len(literal) < 2 \/ ~IsMarked(input))
  <2>1. mark # Nil /\ mark.copy = input BY <1>7 DEF IsMarked
  <2>2. PICK may \in MayContain(MarkedPairs, literal, mark.copy.len) :
          answer' = Said({literal}, Bytes(input), ~may, FALSE)
    BY <1>7 DEF Ask, MarkedPairs
  <2>3. mark' = [mark EXCEPT !.pairs = MarkedPairs] BY <1>7 DEF Ask, MarkedPairs
  <2>4. /\ mark \in Marks /\ MarkedPairs = Pairs(Bytes(mark.copy))
        /\ MarkedPairs \in SUBSET (Units \X Units) /\ IsText(Bytes(mark.copy))
    BY <2>1, TheMark
  <2>5. SkipsNothingFound'
    <3>1. /\ answer'.literals = {literal} /\ answer'.text = Bytes(mark.copy)
          /\ answer'.ruledOut = ~may /\ answer'.exact = FALSE
      BY <2>1, <2>2 DEF Said
    <3>2. IsText(literal) BY DEF ConstantsAssumption
    <3>3. ASSUME Occurs(literal, Bytes(mark.copy)) PROVE may = TRUE
      <4>1. Pairs(literal) \subseteq MarkedPairs BY <2>4, <3>2, <3>3, PairsOccur
      <4> QED BY <2>2, <4>1, MayContainAll
    <3> HIDE DEF Occurs
    <3> QED BY <3>1, <3>3 DEF SkipsNothingFound
  <2>6. mark' \in Marks /\ mark'.copy = mark.copy /\ mark'.pairs = Pairs(Bytes(mark.copy))
    <3>1. MarkedPairs \in (SUBSET (Units \X Units)) \cup {Nil} BY <2>4, Zenon
    <3> QED BY <2>3, <2>4, <3>1 DEF Marks
  <2>7. MarksAreCurrent'
    <3>1. Len(scans) \in DOMAIN scans /\ mark.copy = scans[Len(scans)].copy
      BY <2>1 DEF IInv, MarksAreCurrent, Marked
    <3>2. Marked(mark, Len(scans))' BY <1>1, <1>2, <2>6, <3>1 DEF Marked
    <3> QED BY <1>5, <3>2 DEF MarksAreCurrent
  <2> QED BY <1>1, <1>3, <2>5, <2>6, <2>7 DEF IInv, TypeOK, MatcherFits
<1> QED BY <1>6, <1>7

------------------------------------------------------------------------------
LEMMA Initially ==
  ASSUME ConstantsAssumption, Init
  PROVE  IInv
<1>1. PICK pii \in BOOLEAN : detectors = Composed(pii) /\ prefilter = Compile(Composed(FALSE))
  BY DEF Init
<1>2. /\ memory = [b \in Buffers |-> Nil] /\ scans = <<>> /\ mark = Nil /\ answer = Nil
  BY DEF Init
<1> DEFINE builtIns == [k \in DOMAIN BuiltIns |-> Detector("built-in", Required(BuiltIns[k]))]
<1>3. BuiltIns \in Seq(Range(BuiltIns)) BY DEF ConstantsAssumption
<1>4. DOMAIN BuiltIns = 1..Len(BuiltIns) /\ Len(BuiltIns) \in Nat BY <1>3
<1>5. \A k \in DOMAIN BuiltIns : Detector("built-in", Required(BuiltIns[k])) \in Registered
  BY DEF Detector, Registered, Declarations
<1>6. builtIns \in [1..Len(BuiltIns) -> Registered] BY <1>4, <1>5
<1>7. builtIns \in Seq(Registered) /\ Len(builtIns) = Len(BuiltIns) BY <1>4, <1>6
<1>8. Detector("pii", {}) \in Registered BY DEF Detector, Registered, Declarations
<1>9. Composed(FALSE) = builtIns
  <2>1. Composed(FALSE) = builtIns \o <<>> BY DEF Composed
  <2> HIDE DEF builtIns
  <2> QED BY <1>7, <2>1, ConcatEmptySeq
<1>10. Composed(TRUE) = builtIns \o <<Detector("pii", {})>> BY DEF Composed
<1> HIDE DEF builtIns
<1>11. /\ detectors \in Seq(Registered)
       /\ DOMAIN builtIns \subseteq DOMAIN detectors
       /\ \A slot \in DOMAIN builtIns : detectors[slot] = builtIns[slot]
       /\ \A slot \in DOMAIN detectors \ DOMAIN builtIns : detectors[slot].literals = {}
  <2>1. CASE pii = FALSE BY <1>1, <1>7, <1>9, <2>1
  <2>2. CASE pii = TRUE
    <3>1. detectors = builtIns \o <<Detector("pii", {})>> BY <1>1, <1>10, <2>2
    <3>2. Detector("pii", {}).literals = {} BY DEF Detector
    <3> QED BY <1>7, <1>8, <3>1, <3>2
  <2> QED BY <2>1, <2>2
<1>12. MatcherFits
  <2> SUFFICES ASSUME prefilter # Nil PROVE MatcherFits BY DEF MatcherFits
  <2>1. prefilter = [slot \in DOMAIN builtIns |-> builtIns[slot].literals]
    BY <1>1, <1>9 DEF Compile
  <2> QED BY <1>11, <2>1 DEF MatcherFits
<1>13. TypeOK BY <1>2, <1>11 DEF TypeOK
<1>14. ScansHold /\ MarksAreCurrent BY <1>2 DEF ScansHold, MarksAreCurrent, Marked
<1> QED BY <1>2, <1>12, <1>13, <1>14 DEF IInv, SkipsNothingFound

LEMMA Steps ==
  ASSUME ConstantsAssumption, IInv, [Next]_vars
  PROVE  IInv'
<1>1. CASE \E removed \in SUBSET DOMAIN detectors : WithDetection(removed)
  BY <1>1, WithDetectionKeeps
<1>2. CASE Register BY <1>2, RegisterKeeps
<1>3. CASE \E buffer \in Buffers, text \in Texts : Allocate(buffer, text)
  BY <1>3, AllocateKeeps
<1>4. CASE \E buffer \in Buffers : Free(buffer) BY <1>4, FreeKeeps
<1>5. CASE \E buffer \in Buffers, len \in Lengths, boundary \in Starts : Begin(buffer, len, boundary)
  BY <1>5, BeginKeeps
<1>6. CASE NextDetector BY <1>6, NextDetectorKeeps
<1>7. CASE Detect
  <2>1. PICK input \in Handed, literal \in Asked : Ask(input, literal) BY <1>7 DEF Detect
  <2> QED BY <2>1, AskKeeps
<1>8. CASE DetectAlone
  <2>1. PICK buffer \in Buffers, literal \in Asked :
          Ask(Piece(buffer, 1, Len(memory[buffer])), literal)
    BY <1>8 DEF DetectAlone
  <2> QED BY <2>1, AskKeeps
<1>9. CASE End BY <1>9, EndKeeps
<1>10. CASE UNCHANGED vars
  BY <1>10 DEF vars, IInv, TypeOK, MatcherFits, ScansHold, Holds, PresentIn, Bytes,
               MarksAreCurrent, Marked, SkipsNothingFound
<1> QED BY <1>1, <1>2, <1>3, <1>4, <1>5, <1>6, <1>7, <1>8, <1>9, <1>10 DEF Next

(* The matcher fits the detectors, and the mark is the innermost scan's.   *)
THEOREM PrefilterInvariant == ConstantsAssumption => (Spec => []IInv)
<1> SUFFICES ASSUME ConstantsAssumption PROVE Spec => []IInv OBVIOUS
<1>1. Init => IInv BY Initially
<1>2. IInv /\ [Next]_vars => IInv' BY Steps
<1> QED BY <1>1, <1>2, PTL DEF Spec

(* However a registry is composed, whatever memory is reused for and       *)
(* however scans nest: a detector is skipped, or a literal ruled out, only *)
(* when nothing it looks for is in the text it was handed.                 *)
THEOREM NothingIsSkipped == ConstantsAssumption => (Spec => []SkipsNothingFound)
<1> SUFFICES ASSUME ConstantsAssumption PROVE Spec => []SkipsNothingFound OBVIOUS
<1>1. Spec => []IInv BY PrefilterInvariant
<1>2. IInv => SkipsNothingFound BY DEF IInv
<1> QED BY <1>1, <1>2, PTL

------------------------------------------------------------------------------
(* Comparisons.                                                            *)

(* What a column of decisions is: the rules' answers to the findings.      *)
Decided(side, findings, decisions) ==
  side.policy.kind = "rules" =>
    \A n \in DOMAIN decisions : decisions[n] = Explain(side.policy.rules, findings[n])

IsSequence(s) == \E S : s \in Seq(S)

(* The sides that are done were decided by their own policies; so is the   *)
(* side under way, as far as it has come, and one that fails has no column. *)
DecisionsAgree ==
  /\ request \in Requests
  /\ IsSequence(results) /\ IsSequence(column)
  /\ \A k \in DOMAIN results :
       /\ k \in DOMAIN request
       /\ Decided(request[k], results[k].findings, results[k].decisions)
  /\ column # <<>> => Comparing /\ Scanned(Side) /\ Decided(Side, Side.findings, column)

------------------------------------------------------------------------------
(* A rule that covers another matches what that one matches.               *)
LEMMA ShadowsMatches ==
  ASSUME NEW earlier, NEW later, NEW finding, Shadows(earlier, later), Matches(later, finding)
  PROVE  Matches(earlier, finding)
<1> SUFFICES ASSUME NEW key \in MatchKeys
             PROVE  earlier.match[key] = {} \/ finding[key] \in earlier.match[key]
  BY DEF Matches
<1>1. \/ earlier.match[key] = {}
      \/ later.match[key] # {} /\ later.match[key] \subseteq earlier.match[key]
  BY DEF Shadows
<1>2. later.match[key] = {} \/ finding[key] \in later.match[key] BY DEF Matches
<1> QED BY <1>1, <1>2

(* The rule that decides is the first that matches, and none before it     *)
(* covers it.                                                              *)
LEMMA FirstIsNotShadowed ==
  ASSUME NEW S, NEW rules \in Seq(S), NEW finding,
         Explain(rules, finding).basis.index # 0
  PROVE  LET k == Explain(rules, finding).basis.index
         IN k \in DOMAIN rules /\ Matches(rules[k], finding) /\ ShadowedBy(rules, k) = {}
<1> DEFINE matching == {k \in DOMAIN rules : Matches(rules[k], finding)}
           first == Min(matching)
<1>1. DOMAIN rules = 1..Len(rules) /\ Len(rules) \in Nat OBVIOUS
<1>2. matching # {}
  <2> SUFFICES ASSUME matching = {} PROVE FALSE OBVIOUS
  <2>1. Explain(rules, finding).basis.index = 0 BY DEF Explain, Basis
  <2> QED BY <2>1
<1>3. Explain(rules, finding).basis.index = first
  BY <1>2 DEF Explain, Basis
<1>4. first \in matching /\ \A k \in matching : first <= k
  <2>1. matching \in SUBSET Nat BY <1>1
  <2> HIDE DEF matching
  <2>2. \E x \in matching : \A y \in matching : x <= y BY <1>2, <2>1, LeastElement
  <2> QED BY <2>2 DEF Min
<1> HIDE DEF first
<1>5. first \in 1..Len(rules) /\ Matches(rules[first], finding) BY <1>1, <1>4
<1>6. ShadowedBy(rules, first) = {}
  <2> SUFFICES ASSUME NEW e \in 1..(first - 1), Shadows(rules[e], rules[first]) PROVE FALSE
    BY DEF ShadowedBy
  <2>1. e \in DOMAIN rules /\ ~(first <= e) BY <1>1, <1>5
  <2>2. Matches(rules[e], finding) BY <1>5, ShadowsMatches
  <2>3. e \in matching BY <2>1, <2>2
  <2> QED BY <1>4, <2>1, <2>3
<1> QED BY <1>1, <1>3, <1>5, <1>6

(* What a configuration has is not reported.                               *)
LEMMA FindersAreSilent ==
  ASSUME ComparisonConstants, NEW rule, NEW known, NEW name \in Finders(known)
  PROVE  <<"detector", name>> \notin {<<r.key, r.name>> : r \in Reported(rule, known)}
<1> SUFFICES ASSUME NEW r \in Reported(rule, known), r.key = "detector", r.name = name
             PROVE  FALSE
  OBVIOUS
<1>1. r.code = DetectorCode(name, known) /\ r.code # "silent" BY DEF Reported
<1>2. DetectorCode(name, known) = "silent"
  <2>1. CASE name \in known.enabled \cup known.rulesetIds BY <2>1 DEF DetectorCode
  <2>2. CASE name \notin known.enabled \cup known.rulesetIds
    <3>1. name = PiiAdapter /\ known.pii BY <2>2 DEF Finders
    <3>2. name \notin DOMAIN Manifest.declared /\ name \notin Manifest.notIncluded
      BY <3>1 DEF ComparisonConstants
    <3> QED BY <2>2, <3>1, <3>2 DEF DetectorCode
  <2> QED BY <2>1, <2>2
<1> QED BY <1>1, <1>2

LEMMA DeclaredIsSilent ==
  ASSUME NEW rule, NEW known, NEW d \in known.enabled, NEW name \in Manifest.declared[d]
  PROVE  <<"type", name>> \notin {<<r.key, r.name>> : r \in Reported(rule, known)}
<1> SUFFICES ASSUME NEW r \in Reported(rule, known), r.key = "type", r.name = name
             PROVE  FALSE
  OBVIOUS
<1>1. r.code = TypeCode(name, known) /\ r.code # "silent" BY DEF Reported
<1>2. TypeCode(name, known) = "silent" BY DEF TypeCode
<1> QED BY <1>1, <1>2

------------------------------------------------------------------------------
LEMMA ComparisonBegins ==
  ASSUME ComparisonInit
  PROVE  DecisionsAgree
<1>1. <<>> \in Seq({}) OBVIOUS
<1>2. IsSequence(results) /\ IsSequence(column) BY <1>1 DEF ComparisonInit, IsSequence
<1>3. DOMAIN results = {} BY DEF ComparisonInit
<1> QED BY <1>2, <1>3 DEF ComparisonInit, DecisionsAgree

LEMMA DecisionAppended ==
  ASSUME NEW s, IsSequence(s), NEW e
  PROVE  /\ IsSequence(Append(s, e)) /\ Append(s, e) # <<>> /\ Len(s) \in Nat
         /\ DOMAIN s = 1..Len(s) /\ DOMAIN Append(s, e) = 1..(Len(s) + 1)
         /\ Len(Append(s, e)) = Len(s) + 1
         /\ \A k \in DOMAIN s : Append(s, e)[k] = s[k]
         /\ Append(s, e)[Len(s) + 1] = e
<1>1. PICK S : s \in Seq(S) BY DEF IsSequence
<1> DEFINE T == S \cup {e}
<1>2. s \in Seq(T) /\ e \in T BY <1>1
<1> HIDE DEF T
<1>3. /\ Append(s, e) \in Seq(T) /\ Append(s, e) # <<>>
      /\ Len(Append(s, e)) = Len(s) + 1
      /\ \A k \in 1..Len(s) : Append(s, e)[k] = s[k]
      /\ Append(s, e)[Len(s) + 1] = e
  BY <1>2, AppendProperties
<1>4. /\ Len(s) \in Nat /\ DOMAIN s = 1..Len(s)
      /\ DOMAIN Append(s, e) = 1..Len(Append(s, e))
  BY <1>2, <1>3
<1> QED BY <1>3, <1>4 DEF IsSequence

(* Another side is done, in the order of the request.                      *)
LEMMA SideIsDone ==
  ASSUME ComparisonConstants, DecisionsAgree, Comparing, NEW result, results' = Append(results, result), column' = <<>>,
         UNCHANGED request, Decided(Side, result.findings, result.decisions)
  PROVE  DecisionsAgree'
<1>1. /\ IsSequence(results') /\ DOMAIN results' = 1..(Len(results) + 1)
      /\ Len(results) \in Nat /\ DOMAIN results = 1..Len(results)
      /\ \A k \in DOMAIN results : results'[k] = results[k]
      /\ results'[Len(results) + 1] = result
  BY DecisionAppended DEF DecisionsAgree
<1>2. IsSequence(column')
  <2>1. <<>> \in Seq({}) OBVIOUS
  <2> QED BY <2>1 DEF IsSequence
<1>3. ASSUME NEW k \in DOMAIN results'
      PROVE  /\ k \in DOMAIN request
             /\ Decided(request[k], results'[k].findings, results'[k].decisions)
  <2>1. CASE k \in DOMAIN results BY <1>1, <2>1 DEF DecisionsAgree
  <2>2. CASE k = Len(results) + 1
    <3>1. request \in Seq(Range(request)) BY DEF DecisionsAgree, ComparisonConstants
    <3>2. k \in DOMAIN request BY <1>1, <2>2, <3>1 DEF Comparing
    <3> QED BY <1>1, <2>2, <3>2 DEF Side
  <2> QED BY <1>1, <2>1, <2>2
<1>4. column' = <<>> OBVIOUS
<1> QED BY <1>1, <1>2, <1>3, <1>4 DEF DecisionsAgree

LEMMA ComparisonGoesOn ==
  ASSUME ComparisonConstants, DecisionsAgree, [ComparisonNext]_comparisonVars
  PROVE  DecisionsAgree'
<1>1. CASE FailSide
  <2>1. /\ Comparing /\ ~Scanned(Side) /\ UNCHANGED <<context, request, column, outcome>>
        /\ results' = Append(results,
             [failure |-> Side.failure, findings |-> <<>>, decisions |-> <<>>])
    BY <1>1 DEF FailSide
  <2>2. column' = <<>> BY <2>1 DEF DecisionsAgree
  <2>3. Decided(Side, <<>>, <<>>) BY DEF Decided
  <2> QED BY <2>1, <2>2, <2>3, SideIsDone
<1>2. CASE Decide
  <2> DEFINE finding == Side.findings[Len(column) + 1]
  <2>1. Comparing /\ Scanned(Side) /\ UNCHANGED <<context, request>> BY <1>2 DEF Decide
  <2>2. ASSUME NEW d, column' = Append(column, d), UNCHANGED <<results, outcome>>,
               Side.policy.kind = "rules" => d = Explain(Side.policy.rules, finding)
        PROVE  DecisionsAgree'
    <3>1. /\ IsSequence(column') /\ Len(column) \in Nat
          /\ DOMAIN column = 1..Len(column) /\ DOMAIN column' = 1..(Len(column) + 1)
          /\ \A n \in DOMAIN column : column'[n] = column[n]
          /\ column'[Len(column) + 1] = d
      BY <2>2, DecisionAppended DEF DecisionsAgree
    <3>2. Decided(Side, Side.findings, column)
      <4>1. CASE column = <<>> BY <4>1 DEF Decided
      <4> QED BY <4>1 DEF DecisionsAgree
    <3>3. Decided(Side, Side.findings, column')
      <4> SUFFICES ASSUME Side.policy.kind = "rules", NEW n \in DOMAIN column'
                   PROVE  column'[n] = Explain(Side.policy.rules, Side.findings[n])
        BY DEF Decided
      <4>1. CASE n \in DOMAIN column BY <3>1, <3>2, <4>1 DEF Decided
      <4>2. CASE n = Len(column) + 1 BY <2>2, <3>1, <4>2
      <4> QED BY <3>1, <4>1, <4>2
    <3>4. Side' = Side /\ Comparing' = Comparing BY <2>1, <2>2 DEF Side, Comparing
    <3> QED BY <2>1, <2>2, <3>1, <3>3, <3>4 DEF DecisionsAgree
  <2>3. CASE outcome' = "POLICY_FAILURE" /\ column' = <<>> /\ results' = <<>>
    <3>1. <<>> \in Seq({}) OBVIOUS
    <3>2. IsSequence(results') /\ IsSequence(column') BY <2>3, <3>1 DEF IsSequence
    <3>3. DOMAIN results' = {} BY <2>3
    <3> QED BY <2>1, <2>3, <3>2, <3>3 DEF DecisionsAgree
  <2>4. CASE Side.policy.kind = "default"
    <3>1. column' = Append(column, [action |-> default_action_for(finding),
                                    basis |-> Basis("default", None, 0)])
          /\ UNCHANGED <<results, outcome>>
      BY <1>2, <2>4 DEF Decide
    <3>2. Side.policy.kind # "rules" BY <2>4
    <3> QED BY <2>2, <3>1, <3>2
  <2>5. CASE Side.policy.kind = "callback"
    <3>1. \/ \E action \in Side.policy.answers :
               column' = Append(column, [action |-> action, basis |-> Basis("callback", None, 0)])
               /\ UNCHANGED <<results, outcome>>
          \/ outcome' = "POLICY_FAILURE" /\ column' = <<>> /\ results' = <<>>
      BY <1>2, <2>5 DEF Decide
    <3>2. Side.policy.kind # "rules" BY <2>5
    <3> QED BY <2>2, <2>3, <3>1, <3>2
  <2>6. CASE Side.policy.kind \notin {"default", "callback"}
    <3>1. column' = Append(column, Explain(Side.policy.rules, finding))
          /\ UNCHANGED <<results, outcome>>
      BY <1>2, <2>6 DEF Decide
    <3> QED BY <2>2, <3>1
  <2> QED BY <2>4, <2>5, <2>6
<1>3. CASE FinishSide
  <2>1. /\ Comparing /\ Scanned(Side) /\ UNCHANGED <<context, request, outcome>>
        /\ results' = Append(results,
             [failure |-> None, findings |-> Side.findings, decisions |-> column])
        /\ column' = <<>>
    BY <1>3 DEF FinishSide
  <2>2. Decided(Side, Side.findings, column)
    <3>1. CASE column = <<>> BY <3>1 DEF Decided
    <3> QED BY <3>1 DEF DecisionsAgree
  <2> QED BY <2>1, <2>2, SideIsDone
<1>4. CASE FinishComparison
  <2>1. /\ ~Comparing /\ UNCHANGED <<context, request, results, column>>
    BY <1>4 DEF FinishComparison, Comparing, DecisionsAgree, ComparisonConstants
  <2> QED BY <2>1 DEF DecisionsAgree
<1>5. CASE UNCHANGED comparisonVars BY <1>5 DEF comparisonVars, DecisionsAgree, Comparing, Side
<1> QED BY <1>1, <1>2, <1>3, <1>4, <1>5 DEF ComparisonNext

(* What the invariant says of the rules that decided.                      *)
LEMMA Warned ==
  ASSUME ComparisonConstants, DecisionsAgree
  PROVE  WarnedRulesNeverDecide
<1> SUFFICES ASSUME NEW k \in DOMAIN results, request[k].policy.kind = "rules",
                    NEW n \in DOMAIN results[k].decisions,
                    results[k].decisions[n].basis.index # 0
             PROVE
               LET rule == results[k].decisions[n].basis.index
                   finding == results[k].findings[n]
                   rules == request[k].policy.rules
                   named == {<<r.key, r.name>> : r \in Reported(rules[rule], context)}
               IN /\ ShadowedBy(rules, rule) = {}
                  /\ finding.detector \in Finders(context) =>
                       <<"detector", finding.detector>> \notin named
                  /\ /\ finding.detector \in context.enabled
                     /\ finding.type \in Manifest.declared[finding.detector]
                     => <<"type", finding.type>> \notin named
  BY DEF WarnedRulesNeverDecide
<1> DEFINE rules == request[k].policy.rules
           finding == results[k].findings[n]
<1>1. k \in DOMAIN request /\ rules \in Seq(Range(rules))
  BY DEF DecisionsAgree, ComparisonConstants
<1>2. results[k].decisions[n] = Explain(rules, finding) BY DEF DecisionsAgree, Decided
<1> HIDE DEF rules, finding
<1>3. ShadowedBy(rules, results[k].decisions[n].basis.index) = {}
  BY <1>1, <1>2, FirstIsNotShadowed
<1> QED BY <1>3, FindersAreSilent, DeclaredIsSilent DEF rules, finding

------------------------------------------------------------------------------
(* Every decision that is kept is the one its policy's rules make.         *)
THEOREM ComparisonInvariant == ComparisonConstants => (ComparisonSpec => []DecisionsAgree)
<1> SUFFICES ASSUME ComparisonConstants PROVE ComparisonSpec => []DecisionsAgree OBVIOUS
<1>1. ComparisonInit => DecisionsAgree BY ComparisonBegins
<1>2. DecisionsAgree /\ [ComparisonNext]_comparisonVars => DecisionsAgree' BY ComparisonGoesOn
<1> QED BY <1>1, <1>2, PTL DEF ComparisonSpec

(* For policies and findings of any kind, a rule that decides is warned of *)
(* neither as shadowed nor for what it decided on.                         *)
THEOREM WarningsAreTrue == ComparisonConstants => (ComparisonSpec => []WarnedRulesNeverDecide)
<1> SUFFICES ASSUME ComparisonConstants PROVE ComparisonSpec => []WarnedRulesNeverDecide OBVIOUS
<1>1. ComparisonSpec => []DecisionsAgree BY ComparisonInvariant
<1>2. DecisionsAgree => WarnedRulesNeverDecide BY Warned
<1> QED BY <1>1, <1>2, PTL

------------------------------------------------------------------------------
(* Kept bytes are counted one by one.                                      *)
LEMMA KeptGoesOn ==
  ASSUME NEW input
  PROVE  /\ KeptBefore(input, 0) = 0
         /\ \A k \in Nat : KeptBefore(input, k) \in Nat
         /\ \A k \in Nat : KeptBefore(input, k + 1) =
              KeptBefore(input, k) + IF IsKept(input, k + 1) THEN 1 ELSE 0
<1> DEFINE S(k) == {j \in 1..k : IsKept(input, j)}
<1>1. \A k \in Nat : IsFiniteSet(S(k))
  <2> TAKE k \in Nat
  <2>1. IsFiniteSet(1..k) BY FS_Interval
  <2>2. S(k) \in SUBSET (1..k) OBVIOUS
  <2> HIDE DEF S
  <2> QED BY <2>1, <2>2, FS_Subset
<1>2. \A k : KeptBefore(input, k) = Cardinality(S(k)) BY DEF KeptBefore
<1>3. S(0) = {} OBVIOUS
<1>4. ASSUME NEW k \in Nat
      PROVE  /\ IsKept(input, k + 1) => S(k + 1) = S(k) \cup {k + 1}
             /\ ~IsKept(input, k + 1) => S(k + 1) = S(k)
             /\ k + 1 \notin S(k)
  <2>1. \A j : j \in 1..(k + 1) <=> j \in 1..k \/ j = k + 1 OBVIOUS
  <2>2. k + 1 \notin 1..k OBVIOUS
  <2> QED BY <2>1, <2>2
<1> HIDE DEF S
<1>5. \A k \in Nat : Cardinality(S(k)) \in Nat BY <1>1, FS_CardinalityType
<1>6. Cardinality(S(0)) = 0 BY <1>3, FS_EmptySet
<1>7. ASSUME NEW k \in Nat
      PROVE  Cardinality(S(k + 1)) = Cardinality(S(k)) + IF IsKept(input, k + 1) THEN 1 ELSE 0
  <2>1. CASE IsKept(input, k + 1) BY <1>1, <1>4, <2>1, FS_AddElement
  <2>2. CASE ~IsKept(input, k + 1) BY <1>4, <1>5, <2>2
  <2> QED BY <2>1, <2>2
<1> QED BY <1>2, <1>5, <1>6, <1>7

(* Between two offsets lie no more kept bytes than bytes.                  *)
LEMMA KeptBetween ==
  ASSUME NEW input, NEW j \in Nat, NEW k \in Nat, j <= k
  PROVE  /\ KeptBefore(input, j) <= KeptBefore(input, k)
         /\ (\A x \in (j + 1)..k : IsKept(input, x)) =>
              KeptBefore(input, k) = KeptBefore(input, j) + (k - j)
         /\ KeptBefore(input, k) = KeptBefore(input, j) =>
              \A x \in (j + 1)..k : ~IsKept(input, x)
         /\ (\A x \in (j + 1)..k : ~IsKept(input, x)) =>
              KeptBefore(input, k) = KeptBefore(input, j)
<1> DEFINE K(x) == KeptBefore(input, x)
           Q(m) == /\ K(j) <= K(j + m)
                   /\ (\A x \in (j + 1)..(j + m) : IsKept(input, x)) => K(j + m) = K(j) + m
                   /\ K(j + m) = K(j) => \A x \in (j + 1)..(j + m) : ~IsKept(input, x)
                   /\ (\A x \in (j + 1)..(j + m) : ~IsKept(input, x)) => K(j + m) = K(j)
           P == {m \in Nat : Q(m)}
<1>1. \A x \in Nat : K(x) \in Nat BY KeptGoesOn
<1>2. \A x \in Nat : K(x + 1) = K(x) + IF IsKept(input, x + 1) THEN 1 ELSE 0 BY KeptGoesOn
<1> HIDE DEF K
<1>3. 0 \in P
  <2>1. K(j + 0) = K(j) /\ K(j) \in Nat BY <1>1
  <2>2. (j + 1)..(j + 0) = {} OBVIOUS
  <2> QED BY <2>1, <2>2
<1>4. ASSUME NEW m \in P PROVE m + 1 \in P
  <2>1. m \in Nat /\ j + m \in Nat /\ (j + m) + 1 = j + (m + 1) OBVIOUS
  <2>2. K(j + (m + 1)) = K(j + m) + IF IsKept(input, j + (m + 1)) THEN 1 ELSE 0
    BY <1>2, <2>1
  <2>3. K(j) \in Nat /\ K(j + m) \in Nat BY <1>1, <2>1
  <2>4. Q(m) OBVIOUS
  <2>5. \A x : x \in (j + 1)..(j + (m + 1)) <=> x \in (j + 1)..(j + m) \/ x = j + (m + 1)
    BY <2>1
  <2>6. K(j) <= K(j + (m + 1)) BY <2>2, <2>3, <2>4
  <2>7. ASSUME \A x \in (j + 1)..(j + (m + 1)) : IsKept(input, x)
        PROVE  K(j + (m + 1)) = K(j) + (m + 1)
    <3>1. IsKept(input, j + (m + 1)) /\ \A x \in (j + 1)..(j + m) : IsKept(input, x)
      BY <2>5, <2>7
    <3>2. K(j + m) = K(j) + m BY <2>4, <3>1
    <3> QED BY <2>1, <2>2, <2>3, <3>1, <3>2
  <2>8. ASSUME K(j + (m + 1)) = K(j) PROVE \A x \in (j + 1)..(j + (m + 1)) : ~IsKept(input, x)
    <3>1. K(j + m) = K(j) /\ ~IsKept(input, j + (m + 1)) BY <2>2, <2>3, <2>4, <2>8
    <3>2. \A x \in (j + 1)..(j + m) : ~IsKept(input, x) BY <2>4, <3>1
    <3> QED BY <2>5, <3>1, <3>2
  <2>9. ASSUME \A x \in (j + 1)..(j + (m + 1)) : ~IsKept(input, x)
        PROVE  K(j + (m + 1)) = K(j)
    <3>1. ~IsKept(input, j + (m + 1)) /\ \A x \in (j + 1)..(j + m) : ~IsKept(input, x)
      BY <2>5, <2>9
    <3> QED BY <2>2, <2>3, <2>4, <3>1
  <2>10. Q(m + 1) BY <2>6, <2>7, <2>8, <2>9
  <2> QED BY <2>1, <2>10
<1>5. P = Nat
  <2>1. P \subseteq Nat OBVIOUS
  <2> HIDE DEF P
  <2> QED BY <1>3, <1>4, <2>1, StepsReachAll
<1>6. k - j \in P /\ j + (k - j) = k
  <2>1. k - j \in Nat /\ j + (k - j) = k OBVIOUS
  <2>2. k - j \in P
    <3> HIDE DEF P
    <3> QED BY <1>5, <2>1
  <2> QED BY <2>1, <2>2
<1>7. Q(k - j) BY <1>6
<1> QED BY <1>6, <1>7 DEF K

(* A kept byte counts.                                                     *)
LEMMA KeptCounts ==
  ASSUME NEW input, NEW k \in Nat \ {0}
  PROVE  /\ KeptBefore(input, k) \in Nat /\ KeptBefore(input, k - 1) \in Nat
         /\ IsKept(input, k) => KeptBefore(input, k) = KeptBefore(input, k - 1) + 1
         /\ ~IsKept(input, k) => KeptBefore(input, k) = KeptBefore(input, k - 1)
<1>1. k - 1 \in Nat /\ (k - 1) + 1 = k OBVIOUS
<1>2. KeptBefore(input, (k - 1) + 1) =
        KeptBefore(input, k - 1) + IF IsKept(input, (k - 1) + 1) THEN 1 ELSE 0
  BY <1>1, KeptGoesOn
<1>3. KeptBefore(input, k) \in Nat /\ KeptBefore(input, k - 1) \in Nat BY <1>1, KeptGoesOn
<1> QED BY <1>1, <1>2, <1>3

(* Two texts of which one keeps, behind an offset, what the other keeps.   *)
AlikeFrom(a, d, b, n) == \A k \in 1..n : IsKept(a, d + k) <=> IsKept(b, k)

(* They keep as many bytes there.                                          *)
LEMMA KeptAlike ==
  ASSUME NEW a, NEW b, NEW d \in Nat, NEW n \in Nat, AlikeFrom(a, d, b, n)
  PROVE  \A k \in 0..n : KeptBefore(a, d + k) = KeptBefore(a, d) + KeptBefore(b, k)
<1> DEFINE P == {m \in Nat : m <= n =>
                   KeptBefore(a, d + m) = KeptBefore(a, d) + KeptBefore(b, m)}
<1>0. \A x \in Nat : KeptBefore(a, x) \in Nat /\ KeptBefore(b, x) \in Nat BY KeptGoesOn
<1>1. 0 \in P
  <2>1. KeptBefore(b, 0) = 0 BY KeptGoesOn
  <2>2. d + 0 = d /\ KeptBefore(a, d) \in Nat BY <1>0
  <2> QED BY <2>1, <2>2
<1>2. ASSUME NEW m \in P PROVE m + 1 \in P
  <2> SUFFICES ASSUME m + 1 <= n
               PROVE  KeptBefore(a, d + (m + 1)) = KeptBefore(a, d) + KeptBefore(b, m + 1)
    OBVIOUS
  <2>1. m \in Nat /\ m <= n /\ d + m \in Nat /\ (d + m) + 1 = d + (m + 1) /\ m + 1 \in 1..n
    OBVIOUS
  <2>2. KeptBefore(a, d + m) = KeptBefore(a, d) + KeptBefore(b, m) BY <2>1
  <2>3. KeptBefore(a, d + (m + 1)) =
          KeptBefore(a, d + m) + IF IsKept(a, d + (m + 1)) THEN 1 ELSE 0
    <3>1. KeptBefore(a, (d + m) + 1) =
            KeptBefore(a, d + m) + IF IsKept(a, (d + m) + 1) THEN 1 ELSE 0
      BY <2>1, KeptGoesOn
    <3> QED BY <2>1, <3>1
  <2>4. KeptBefore(b, m + 1) = KeptBefore(b, m) + IF IsKept(b, m + 1) THEN 1 ELSE 0
    BY <2>1, KeptGoesOn
  <2>5. IsKept(a, d + (m + 1)) <=> IsKept(b, m + 1) BY <2>1 DEF AlikeFrom
  <2>6. KeptBefore(a, d) \in Nat /\ KeptBefore(b, m) \in Nat BY <1>0, <2>1
  <2> QED BY <2>2, <2>3, <2>4, <2>5, <2>6
<1>3. P = Nat
  <2>1. P \subseteq Nat OBVIOUS
  <2> HIDE DEF P
  <2> QED BY <1>1, <1>2, <2>1, StepsReachAll
<1> QED
  <2> TAKE k \in 0..n
  <2>1. k \in Nat /\ k <= n OBVIOUS
  <2>2. k \in P BY <1>3, <2>1
  <2> QED BY <2>1, <2>2

(* The copy of a text up to an offset.                                     *)
CopyUpTo(copy, input, n) ==
  /\ copy \in Seq(Range(input))
  /\ Len(copy) = KeptBefore(input, n)
  /\ \A k \in 1..n : IsKept(input, k) => copy[KeptBefore(input, k)] = input[k]

(* Where runs of lost bytes end that another byte follows, up to an offset.*)
RunEnds(input, n) == {r \in 1..(n - 1) : ~IsKept(input, r) /\ IsKept(input, r + 1)}

(* One seam for each of them, in order.                                    *)
AreSeams(seams, input, ends) ==
  /\ seams \in Seq([normalized : Nat, originalAfter : Nat])
  /\ \A i \in DOMAIN seams :
       /\ seams[i].originalAfter \in ends
       /\ seams[i].normalized = KeptBefore(input, seams[i].originalAfter)
  /\ \A r \in ends : \E i \in DOMAIN seams : seams[i].originalAfter = r
  /\ \A i, j \in DOMAIN seams : i < j => seams[i].originalAfter < seams[j].originalAfter

CopySoFar(strip, input, n) == IF strip.inRun THEN strip.text ELSE WithKept(strip, input, n)

(* What the walk has at an offset.                                         *)
Walking(strip, input, n) ==
  /\ strip \in [text : Seq(Range(input)), seams : Seq([normalized : Nat, originalAfter : Nat]),
                keptFrom : 0..n, inRun : BOOLEAN]
  /\ strip.inRun <=> n # 0 /\ ~IsKept(input, n)
  /\ CopyUpTo(CopySoFar(strip, input, n), input, n)
  /\ AreSeams(strip.seams, input, RunEnds(input, n))

(* A lost byte leaves the copy as it is.                                   *)
LEMMA CopySkips ==
  ASSUME NEW input, NEW n \in Nat, NEW copy, CopyUpTo(copy, input, n), ~IsKept(input, n + 1)
  PROVE  CopyUpTo(copy, input, n + 1)
<1>1. KeptBefore(input, n + 1) = KeptBefore(input, n)
  <2>1. n + 1 \in Nat \ {0} /\ (n + 1) - 1 = n OBVIOUS
  <2> QED BY <2>1, KeptCounts
<1>2. \A k \in 1..(n + 1) : k \in 1..n \/ k = n + 1 OBVIOUS
<1> QED BY <1>1, <1>2 DEF CopyUpTo

(* A kept one is put behind it.                                            *)
LEMMA CopyGrows ==
  ASSUME NEW input, NEW n \in Nat, NEW copy, CopyUpTo(copy, input, n), IsKept(input, n + 1),
         input[n + 1] \in Range(input)
  PROVE  CopyUpTo(Append(copy, input[n + 1]), input, n + 1)
<1> DEFINE longer == Append(copy, input[n + 1])
           K(k) == KeptBefore(input, k)
<1>1. K(n + 1) = K(n) + 1 /\ K(n) \in Nat
  <2>1. n + 1 \in Nat \ {0} /\ (n + 1) - 1 = n OBVIOUS
  <2> QED BY <2>1, KeptCounts
<1>2. copy \in Seq(Range(input)) /\ Len(copy) = K(n) BY DEF CopyUpTo
<1>3. /\ longer \in Seq(Range(input)) /\ Len(longer) = K(n) + 1
      /\ longer[K(n) + 1] = input[n + 1]
      /\ \A p \in 1..K(n) : longer[p] = copy[p]
  BY <1>2, AppendProperties
<1>0. \A k : K(k) = KeptBefore(input, k) OBVIOUS
<1> HIDE DEF longer, K
<1>4. ASSUME NEW k \in 1..(n + 1), IsKept(input, k) PROVE longer[K(k)] = input[k]
  <2>1. CASE k = n + 1 BY <1>1, <1>3, <2>1
  <2>2. CASE k \in 1..n
    <3>1. k \in Nat /\ k \in Nat \ {0} /\ k <= n BY <2>2
    <3>2. K(k) <= K(n) BY <1>0, <3>1, KeptBetween
    <3>3. K(k) \in Nat /\ K(k - 1) \in Nat /\ K(k) = K(k - 1) + 1 BY <1>0, <1>4, <3>1, KeptCounts
    <3>4. K(k) \in 1..K(n) BY <1>1, <3>2, <3>3
    <3>5. copy[K(k)] = input[k] BY <1>0, <1>4, <2>2 DEF CopyUpTo
    <3> QED BY <1>3, <3>4, <3>5
  <2> QED BY <2>1, <2>2
<1>5. CopyUpTo(longer, input, n + 1) BY <1>0, <1>1, <1>3, <1>4 DEF CopyUpTo
<1> QED BY <1>5 DEF longer

(* What is kept since an offset, one byte more of it.                      *)
LEMMA KeptPieceGrows ==
  ASSUME NEW input, IsText(input), NEW n \in Nat, n < Len(input), NEW strip,
         strip.text \in Seq(Range(input)), strip.keptFrom \in 0..n
  PROVE  /\ WithKept(strip, input, n) \in Seq(Range(input))
         /\ WithKept(strip, input, n + 1) = Append(WithKept(strip, input, n), input[n + 1])
         /\ input[n + 1] \in Range(input)
<1> DEFINE from == strip.keptFrom + 1
           before == SubSeq(input, from, n)
           after == SubSeq(input, from, n + 1)
           S == Range(input)
<1>1. input \in Seq(S) /\ from \in 1..Len(input) /\ n + 1 \in from..Len(input)
      /\ n + 1 \in 1..Len(input) /\ (n + 1) - 1 = n
  BY DEF IsText
<1>2. input[n + 1] \in S BY <1>1, ElementOfSeq
<1>3. before \in Seq(S)
  <2>1. \A i \in from..n : input[i] \in S
    <3> TAKE i \in from..n
    <3>1. i \in 1..Len(input) BY <1>1
    <3> QED BY <1>1, <3>1, ElementOfSeq
  <2>2. from \in Int /\ n \in Int BY <1>1
  <2> HIDE DEF from, S
  <2> QED BY <2>1, <2>2, SubSeqProperties
<1>4. after = before \o <<input[n + 1]>>
  <2> HIDE DEF from, S
  <2>1. after = SubSeq(input, from, (n + 1) - 1) \o <<input[n + 1]>>
    BY <1>1, SubSeqRecursiveSecond, Zenon
  <2> QED BY <1>1, <2>1
<1>5. strip.text \in Seq(S) OBVIOUS
<1> HIDE DEF before, after, from, S
<1>6. strip.text \o before \in Seq(S) BY <1>3, <1>5, ConcatProperties
<1>7. <<input[n + 1]>> \in Seq(S) BY <1>2
<1>8. strip.text \o after = (strip.text \o before) \o <<input[n + 1]>>
  <2> DEFINE kept == strip.text
             one == <<input[n + 1]>>
  <2>1. (kept \o before) \o one = kept \o (before \o one)
    <3>1. kept \in Seq(S) /\ one \in Seq(S) BY <1>5, <1>7
    <3> HIDE DEF kept, one
    <3> QED BY <1>3, <3>1, ConcatAssociative
  <2> QED BY <1>4, <2>1
<1>9. strip.text \o after = Append(strip.text \o before, input[n + 1])
  BY <1>2, <1>6, <1>8, AppendIsConcat
<1> QED BY <1>2, <1>6, <1>9 DEF WithKept, before, after, from, S

(* Run ends go on with the text.                                           *)
LEMMA RunEndsGoOn ==
  ASSUME NEW input, NEW n \in Nat
  PROVE  /\ RunEnds(input, 0) = {}
         /\ RunEnds(input, n + 1) = RunEnds(input, n) \cup
              IF n # 0 /\ ~IsKept(input, n) /\ IsKept(input, n + 1) THEN {n} ELSE {}
<1>1. RunEnds(input, 0) = {} BY DEF RunEnds
<1>2. \A r : r \in 1..((n + 1) - 1) <=> r \in 1..(n - 1) \/ (n # 0 /\ r = n) OBVIOUS
<1> QED BY <1>1, <1>2 DEF RunEnds

(* One seam more.                                                          *)
LEMMA SeamsGoOn ==
  ASSUME NEW input, NEW seams, NEW n \in Nat \ {0}, AreSeams(seams, input, RunEnds(input, n)),
         NEW normalized, normalized = KeptBefore(input, n)
  PROVE  AreSeams(Append(seams, [normalized |-> normalized, originalAfter |-> n]), input,
                  RunEnds(input, n) \cup {n})
<1> DEFINE seam == [normalized |-> normalized, originalAfter |-> n]
           more == Append(seams, seam)
           T == [normalized : Nat, originalAfter : Nat]
<1>1. normalized \in Nat BY KeptCounts
<1>2. seams \in Seq(T) /\ seam \in T BY <1>1 DEF AreSeams
<1>3. /\ more \in Seq(T) /\ Len(more) = Len(seams) + 1 /\ Len(seams) \in Nat
      /\ DOMAIN more = 1..(Len(seams) + 1) /\ DOMAIN seams = 1..Len(seams)
      /\ \A i \in 1..Len(seams) : more[i] = seams[i]
      /\ more[Len(seams) + 1] = seam
  <2> HIDE DEF T, seam
  <2> QED BY <1>2, AppendProperties
<1>4. seam.originalAfter = n /\ seam.normalized = normalized OBVIOUS
<1>5. \A r \in RunEnds(input, n) : r \in Nat /\ r < n BY DEF RunEnds
<1> HIDE DEF more, seam, T
<1>6. \A i \in DOMAIN more : i \in DOMAIN seams \/ i = Len(seams) + 1 BY <1>3
<1>7. ASSUME NEW i \in DOMAIN more
      PROVE  /\ more[i].originalAfter \in RunEnds(input, n) \cup {n}
             /\ more[i].normalized = KeptBefore(input, more[i].originalAfter)
  <2>1. CASE i \in DOMAIN seams BY <1>3, <2>1 DEF AreSeams
  <2>2. CASE i = Len(seams) + 1 BY <1>3, <1>4, <2>2
  <2> QED BY <1>6, <2>1, <2>2
<1>8. ASSUME NEW r \in RunEnds(input, n) \cup {n} PROVE \E i \in DOMAIN more : more[i].originalAfter = r
  <2>1. CASE r = n BY <1>3, <1>4, <2>1
  <2>2. CASE r \in RunEnds(input, n)
    <3>1. PICK i \in DOMAIN seams : seams[i].originalAfter = r BY <2>2 DEF AreSeams
    <3>2. i \in DOMAIN more /\ more[i] = seams[i] BY <1>3, <3>1
    <3> QED BY <3>1, <3>2
  <2> QED BY <2>1, <2>2
<1>9. ASSUME NEW i \in DOMAIN more, NEW j \in DOMAIN more, i < j
      PROVE  more[i].originalAfter < more[j].originalAfter
  <2>1. i \in DOMAIN seams /\ more[i] = seams[i] BY <1>3, <1>9
  <2>2. CASE j \in DOMAIN seams
    <3>1. more[j] = seams[j] BY <1>3, <2>2
    <3> QED BY <1>9, <2>1, <2>2, <3>1 DEF AreSeams
  <2>3. CASE j = Len(seams) + 1
    <3>1. seams[i].originalAfter \in RunEnds(input, n) BY <2>1 DEF AreSeams
    <3> QED BY <1>3, <1>4, <1>5, <2>1, <2>3, <3>1
  <2> QED BY <1>6, <2>2, <2>3
<1>10. AreSeams(more, input, RunEnds(input, n) \cup {n})
  BY <1>3, <1>7, <1>8, <1>9 DEF AreSeams, T
<1> QED BY <1>10 DEF more, seam

(* The walk has what it is to have, byte for byte.                         *)
LEMMA WalkBegins ==
  ASSUME NEW input
  PROVE  Walking(NewStrip, input, 0)
<1>1. NewStrip = [text |-> <<>>, seams |-> <<>>, keptFrom |-> 0, inRun |-> FALSE] BY DEF NewStrip
<1>2. NewStrip \in [text : Seq(Range(input)), seams : Seq([normalized : Nat, originalAfter : Nat]),
                    keptFrom : 0..0, inRun : BOOLEAN]
  BY <1>1
<1>3. WithKept(NewStrip, input, 0) = <<>>
  <2>1. SubSeq(input, 0 + 1, 0) = <<>> BY SubSeqEmpty
  <2> QED BY <1>1, <2>1, ConcatEmptySeq DEF WithKept
<1>4. CopyUpTo(<<>>, input, 0) BY KeptGoesOn DEF CopyUpTo
<1>5. RunEnds(input, 0) = {} BY RunEndsGoOn
<1>6. AreSeams(<<>>, input, {}) BY DEF AreSeams
<1> QED BY <1>1, <1>2, <1>3, <1>4, <1>5, <1>6 DEF Walking, CopySoFar

(* A step of the walk keeps it.                                            *)
LEMMA WalkGoesOn ==
  ASSUME NEW input, IsText(input), NEW n \in Nat, n < Len(input), NEW strip,
         Walking(strip, input, n)
  PROVE  Walking(Walked(strip, input, n), input, n + 1)
<1> DEFINE next == Walked(strip, input, n)
           Texts0 == Seq(Range(input))
           Seams0 == Seq([normalized : Nat, originalAfter : Nat])
<1>0. Len(input) \in Nat BY DEF IsText
<1>1. /\ strip \in [text : Texts0, seams : Seams0, keptFrom : 0..n, inRun : BOOLEAN]
      /\ strip.text \in Texts0 /\ strip.seams \in Seams0 /\ strip.keptFrom \in 0..n
      /\ strip.inRun \in BOOLEAN
  BY DEF Walking
<1>2. strip.inRun <=> n # 0 /\ ~IsKept(input, n) BY DEF Walking
<1>3. CopyUpTo(CopySoFar(strip, input, n), input, n) BY DEF Walking
<1>4. AreSeams(strip.seams, input, RunEnds(input, n)) BY DEF Walking
<1>5. strip.keptFrom \in 0..(n + 1) /\ n \in 0..(n + 1) /\ n + 1 # 0 /\ (n + 1) - 1 = n BY <1>1
<1>6. /\ WithKept(strip, input, n) \in Texts0
      /\ WithKept(strip, input, n + 1) = Append(WithKept(strip, input, n), input[n + 1])
      /\ input[n + 1] \in Range(input)
  BY <1>1, KeptPieceGrows
<1>7. RunEnds(input, n + 1) = RunEnds(input, n) \cup
        IF n # 0 /\ ~IsKept(input, n) /\ IsKept(input, n + 1) THEN {n} ELSE {}
  BY RunEndsGoOn
<1>8. IsKept(input, n + 1) <=> ~(input[n + 1] \in Invisible) BY DEF IsKept
<1> HIDE DEF Texts0, Seams0
<1>9. CASE ~IsKept(input, n + 1) /\ ~strip.inRun
  <2>1. next = [strip EXCEPT !.inRun = TRUE, !.text = WithKept(strip, input, n)]
    BY <1>8, <1>9 DEF Walked
  <2> HIDE DEF next
  <2>2. /\ next \in [text : Texts0, seams : Seams0, keptFrom : 0..(n + 1), inRun : BOOLEAN]
        /\ next.inRun = TRUE /\ next.text = WithKept(strip, input, n) /\ next.seams = strip.seams
    BY <1>1, <1>5, <1>6, <2>1
  <2>3. CopySoFar(next, input, n + 1) = CopySoFar(strip, input, n) BY <1>9, <2>2 DEF CopySoFar
  <2>4. CopyUpTo(CopySoFar(next, input, n + 1), input, n + 1) BY <1>3, <1>9, <2>3, CopySkips
  <2>5. RunEnds(input, n + 1) = RunEnds(input, n) BY <1>7, <1>9
  <2>6. Walking(next, input, n + 1)
    BY <1>4, <1>5, <1>9, <2>2, <2>4, <2>5 DEF Walking, Texts0, Seams0
  <2> QED BY <2>6 DEF next
<1>10. CASE IsKept(input, n + 1) /\ strip.inRun
  <2>1. next = [strip EXCEPT !.inRun = FALSE, !.keptFrom = n, !.seams = WithSeam(strip, n)]
    BY <1>8, <1>10 DEF Walked
  <2> DEFINE seam == [normalized |-> Len(strip.text), originalAfter |-> n]
  <2>2. WithSeam(strip, n) = Append(strip.seams, seam) BY DEF WithSeam
  <2>3. CopySoFar(strip, input, n) = strip.text BY <1>10 DEF CopySoFar
  <2>4. Len(strip.text) = KeptBefore(input, n) BY <1>3, <2>3 DEF CopyUpTo
  <2>5. n \in Nat \ {0} /\ RunEnds(input, n + 1) = RunEnds(input, n) \cup {n} BY <1>2, <1>7, <1>10
  <2>6. AreSeams(Append(strip.seams, seam), input, RunEnds(input, n + 1))
    BY <1>4, <2>4, <2>5, SeamsGoOn
  <2>7. WithSeam(strip, n) \in Seams0 BY <2>2, <2>6 DEF AreSeams, Seams0
  <2> HIDE DEF next, seam
  <2>8. /\ next \in [text : Texts0, seams : Seams0, keptFrom : 0..(n + 1), inRun : BOOLEAN]
        /\ next.inRun = FALSE /\ next.text = strip.text /\ next.seams = WithSeam(strip, n)
        /\ next.keptFrom = n
    BY <1>1, <1>5, <2>1, <2>7
  <2>9. CopySoFar(next, input, n + 1) = Append(strip.text, input[n + 1])
    <3>1. CopySoFar(next, input, n + 1) = WithKept(next, input, n + 1) BY <2>8 DEF CopySoFar
    <3>2. /\ next.text \in Seq(Range(input)) /\ next.keptFrom \in 0..n
      BY <1>1, <2>8 DEF Texts0
    <3>3. WithKept(next, input, n + 1) = Append(WithKept(next, input, n), input[n + 1])
      BY <3>2, KeptPieceGrows
    <3>4. WithKept(next, input, n) = strip.text
      <4>1. SubSeq(input, n + 1, n) = <<>> BY SubSeqEmpty
      <4> QED BY <2>8, <3>2, <4>1, ConcatEmptySeq DEF WithKept
    <3> QED BY <3>1, <3>3, <3>4
  <2>10. CopyUpTo(CopySoFar(next, input, n + 1), input, n + 1)
    BY <1>3, <1>6, <1>10, <2>3, <2>9, CopyGrows
  <2>11. Walking(next, input, n + 1)
    BY <1>10, <2>2, <2>6, <2>8, <2>10 DEF Walking, Texts0, Seams0
  <2> QED BY <2>11 DEF next
<1>11. CASE ~IsKept(input, n + 1) /\ strip.inRun
  <2>1. next = strip BY <1>8, <1>11 DEF Walked
  <2>2. CopySoFar(strip, input, n + 1) = CopySoFar(strip, input, n) BY <1>11 DEF CopySoFar
  <2>3. CopyUpTo(CopySoFar(strip, input, n + 1), input, n + 1) BY <1>3, <1>11, <2>2, CopySkips
  <2>4. RunEnds(input, n + 1) = RunEnds(input, n) BY <1>7, <1>11
  <2>5. strip \in [text : Texts0, seams : Seams0, keptFrom : 0..(n + 1), inRun : BOOLEAN]
    BY <1>1, <1>5
  <2>6. Walking(strip, input, n + 1)
    BY <1>4, <1>5, <1>11, <2>3, <2>4, <2>5 DEF Walking, Texts0, Seams0
  <2> QED BY <2>1, <2>6
<1>12. CASE IsKept(input, n + 1) /\ ~strip.inRun
  <2>1. next = strip BY <1>8, <1>12 DEF Walked
  <2>2. /\ CopySoFar(strip, input, n + 1) = WithKept(strip, input, n + 1)
        /\ CopySoFar(strip, input, n) = WithKept(strip, input, n)
    BY <1>12 DEF CopySoFar
  <2>3. CopyUpTo(CopySoFar(strip, input, n + 1), input, n + 1)
    BY <1>3, <1>6, <1>12, <2>2, CopyGrows
  <2>4. RunEnds(input, n + 1) = RunEnds(input, n) BY <1>2, <1>7, <1>12
  <2>5. strip \in [text : Texts0, seams : Seams0, keptFrom : 0..(n + 1), inRun : BOOLEAN]
    BY <1>1, <1>5
  <2>6. Walking(strip, input, n + 1)
    BY <1>4, <1>12, <2>3, <2>4, <2>5 DEF Walking, Texts0, Seams0
  <2> QED BY <2>1, <2>6
<1> QED BY <1>1, <1>9, <1>10, <1>11, <1>12

(* The recursion of the walk.                                              *)
IsWalk(f, input, n) ==
  f = [offset \in 0..n |-> IF offset = 0 THEN NewStrip ELSE Walked(f[offset - 1], input, offset - 1)]

(* There is a walk over each text.                                         *)
LEMMA WalkExists ==
  ASSUME NEW input, NEW n \in Nat
  PROVE  \E f : IsWalk(f, input, n)
<1> DEFINE P == {m \in Nat : \E f : IsWalk(f, input, m)}
<1>1. 0 \in P
  <2> DEFINE f == [offset \in 0..0 |-> NewStrip]
  <2>1. IsWalk(f, input, 0) BY DEF IsWalk
  <2> HIDE DEF f
  <2> QED BY <2>1
<1>2. ASSUME NEW m \in P PROVE m + 1 \in P
  <2>1. PICK f : IsWalk(f, input, m) OBVIOUS
  <2> DEFINE last == Walked(f[m], input, m)
             g == [offset \in 0..(m + 1) |-> IF offset <= m THEN f[offset] ELSE last]
             body(h, offset) == IF offset = 0 THEN NewStrip
                                ELSE Walked(h[offset - 1], input, offset - 1)
  <2>2. \A offset \in 0..m : f[offset] = body(f, offset)
    <3>1. f = [offset \in 0..m |-> body(f, offset)] BY <2>1, Zenon DEF IsWalk
    <3> HIDE DEF body
    <3> QED BY <3>1
  <2>3. \A offset \in 0..(m + 1) : g[offset] = body(g, offset)
    <3> TAKE offset \in 0..(m + 1)
    <3>1. CASE offset = 0
      <4>1. g[offset] = f[0] /\ f[0] = NewStrip BY <2>2, <3>1
      <4> QED BY <3>1, <4>1
    <3>2. CASE offset \in 1..m
      <4>1. g[offset] = f[offset] /\ g[offset - 1] = f[offset - 1] /\ offset # 0 BY <3>2
      <4>2. f[offset] = Walked(f[offset - 1], input, offset - 1) BY <2>2, <3>2, <4>1
      <4> HIDE DEF g
      <4> QED BY <4>1, <4>2
    <3>3. CASE offset = m + 1
      <4>1. g[offset] = last /\ g[offset - 1] = f[m] /\ offset # 0 /\ offset - 1 = m BY <3>3
      <4> HIDE DEF g
      <4> QED BY <4>1
    <3> QED BY <3>1, <3>2, <3>3
  <2>4. g = [offset \in 0..(m + 1) |-> g[offset]] OBVIOUS
  <2> HIDE DEF g
  <2>5. g = [offset \in 0..(m + 1) |-> body(g, offset)]
    <3> HIDE DEF body
    <3> QED BY <2>3, <2>4
  <2>6. IsWalk(g, input, m + 1) BY <2>5, Zenon DEF IsWalk
  <2> QED BY <2>6
<1>3. P = Nat
  <2>1. P \subseteq Nat OBVIOUS
  <2> HIDE DEF P
  <2> QED BY <1>1, <1>2, <2>1, StepsReachAll
<1> QED BY <1>3

(* The walk of the whole text has what it is to have at its end.           *)
LEMMA WalkIs ==
  ASSUME NEW input, IsText(input)
  PROVE  Walking(WalkedWhole(input), input, Len(input))
<1> DEFINE n == Len(input)
           f == CHOOSE h : IsWalk(h, input, n)
           body(offset) == IF offset = 0 THEN NewStrip
                           ELSE Walked(f[offset - 1], input, offset - 1)
           P == {m \in Nat : m <= n => Walking(f[m], input, m)}
<1>0. n \in Nat BY DEF IsText
<1>1. IsWalk(f, input, n)
  <2> HIDE DEF n
  <2> QED BY <1>0, WalkExists, Zenon
<1>2. WalkedWhole(input) = f[n] BY Zenon DEF WalkedWhole, IsWalk
<1> HIDE DEF f
<1>3. \A offset \in 0..n : f[offset] = body(offset)
  <2>1. f = [offset \in 0..n |-> body(offset)] BY <1>1, Zenon DEF IsWalk
  <2> HIDE DEF body, n
  <2> QED BY <2>1
<1>4. 0 \in P
  <2>1. f[0] = NewStrip BY <1>0, <1>3
  <2> QED BY <2>1, WalkBegins
<1>5. ASSUME NEW m \in P PROVE m + 1 \in P
  <2> SUFFICES ASSUME m + 1 <= n PROVE Walking(f[m + 1], input, m + 1) OBVIOUS
  <2>1. m \in Nat /\ m < n /\ m <= n /\ m + 1 \in 0..n /\ m + 1 # 0 /\ (m + 1) - 1 = m BY <1>0
  <2>2. Walking(f[m], input, m) BY <2>1
  <2>3. f[m + 1] = Walked(f[m], input, m) BY <1>3, <2>1
  <2> QED BY <2>1, <2>2, <2>3, WalkGoesOn
<1>6. P = Nat
  <2>1. P \subseteq Nat OBVIOUS
  <2> HIDE DEF P
  <2> QED BY <1>4, <1>5, <2>1, StepsReachAll
<1>7. Walking(f[n], input, n)
  <2>1. n \in P BY <1>0, <1>6
  <2>2. n <= n BY <1>0
  <2> QED BY <2>1, <2>2
<1> QED BY <1>2, <1>7

(* Where all runs of lost bytes end.                                       *)
AllRunEnds(input) ==
  {r \in 1..Len(input) : ~IsKept(input, r) /\ (r # Len(input) => IsKept(input, r + 1))}

(* What a text is stripped to: the bytes it keeps, and a seam per run.     *)
LEMMA StripIs ==
  ASSUME NEW input, IsText(input)
  PROVE  /\ CopyUpTo(StripRemoved(input).text, input, Len(input))
         /\ AreSeams(StripRemoved(input).seams, input, AllRunEnds(input))
<1> DEFINE n == Len(input)
           strip == WalkedWhole(input)
<1>1. Walking(strip, input, n) BY WalkIs
<1>2. n \in Nat BY DEF IsText
<1>3. /\ StripRemoved(input).text = CopySoFar(strip, input, n)
      /\ StripRemoved(input).seams = IF strip.inRun THEN WithSeam(strip, n) ELSE strip.seams
  BY DEF StripRemoved, CopySoFar
<1> HIDE DEF strip
<1>4. /\ strip.inRun <=> n # 0 /\ ~IsKept(input, n)
      /\ CopyUpTo(CopySoFar(strip, input, n), input, n)
      /\ AreSeams(strip.seams, input, RunEnds(input, n))
      /\ strip.inRun \in BOOLEAN
  BY <1>1 DEF Walking
<1>5. AllRunEnds(input) =
        RunEnds(input, n) \cup IF n # 0 /\ ~IsKept(input, n) THEN {n} ELSE {}
  <2>1. \A r : r \in 1..n <=> r \in 1..(n - 1) \/ (n # 0 /\ r = n) BY <1>2
  <2>2. \A r \in 1..(n - 1) : r # n BY <1>2
  <2> HIDE DEF n
  <2>3. AllRunEnds(input) = {r \in 1..n : ~IsKept(input, r) /\ (r # n => IsKept(input, r + 1))}
    BY DEF AllRunEnds, n
  <2> QED BY <2>1, <2>2, <2>3 DEF RunEnds
<1>6. CASE strip.inRun
  <2>1. CopySoFar(strip, input, n) = strip.text BY <1>6 DEF CopySoFar
  <2>2. Len(strip.text) = KeptBefore(input, n) BY <1>4, <2>1 DEF CopyUpTo
  <2>3. n \in Nat \ {0} /\ AllRunEnds(input) = RunEnds(input, n) \cup {n}
    <3> HIDE DEF n
    <3> QED BY <1>2, <1>4, <1>5, <1>6
  <2>4. AreSeams(WithSeam(strip, n), input, AllRunEnds(input))
    <3> HIDE DEF n
    <3> QED BY <1>4, <2>2, <2>3, SeamsGoOn DEF WithSeam
  <2> QED BY <1>3, <1>4, <1>6, <2>4
<1>7. CASE ~strip.inRun
  <2>1. AllRunEnds(input) = RunEnds(input, n)
    <3> HIDE DEF n
    <3> QED BY <1>4, <1>5, <1>7
  <2> QED BY <1>3, <1>4, <1>7, <2>1
<1> QED BY <1>4, <1>6, <1>7

(* A set of numbers from 1 on that has all before its last is an interval. *)
LEMMA BeginningIs ==
  ASSUME NEW n \in Nat, NEW S \in SUBSET (1..n),
         \A j, k \in 1..n : j < k /\ k \in S => j \in S
  PROVE  Cardinality(S) \in 0..n /\ S = 1..Cardinality(S)
<1> DEFINE Out == {x \in Nat : x # 0 /\ x \notin S}
<1>1. n + 1 \in Out OBVIOUS
<1>2. PICK x \in Out : \A y \in Out : x <= y
  <2>1. Out \in SUBSET Nat /\ Out # {} BY <1>1
  <2> HIDE DEF Out
  <2> QED BY <2>1, LeastElement
<1>3. x \in 1..(n + 1) /\ x \notin S BY <1>1, <1>2
<1>4. \A y \in 1..(x - 1) : y \in S BY <1>2, <1>3
<1>5. \A y \in S : y < x
  <2> TAKE y \in S
  <2>1. CASE x \in 1..n BY <2>1, <1>3
  <2>2. CASE x = n + 1 BY <2>2
  <2> QED BY <1>3, <2>1, <2>2
<1>6. S = 1..(x - 1)
  <2>1. S \subseteq 1..(x - 1) BY <1>3, <1>5
  <2> QED BY <1>4, <2>1
<1>7. Cardinality(S) = x - 1 BY <1>3, <1>6, FS_Interval
<1> QED BY <1>3, <1>6, <1>7

(* A run of lost bytes ends at or behind each of them, and before a byte   *)
(* that is kept.                                                           *)
LEMMA RunEndsBehind ==
  ASSUME NEW input, IsText(input), NEW x \in 1..Len(input), ~IsKept(input, x)
  PROVE  \E r \in AllRunEnds(input) : x <= r /\ \A y \in x..r : ~IsKept(input, y)
<1> DEFINE n == Len(input)
           After == {y \in Nat : x < y /\ (y = n + 1 \/ (y <= n /\ IsKept(input, y)))}
<1>1. n \in Nat BY DEF IsText
<1>2. PICK y \in After : \A z \in After : y <= z
  <2>1. n + 1 \in After BY <1>1
  <2>2. After \in SUBSET Nat /\ After # {} BY <2>1
  <2> HIDE DEF After
  <2> QED BY <2>2, LeastElement
<1>3. y \in Nat /\ x < y /\ y <= n + 1 BY <1>1
<1>4. \A z \in x..(y - 1) : ~IsKept(input, z)
  <2> SUFFICES ASSUME NEW z \in x..(y - 1), IsKept(input, z) PROVE FALSE OBVIOUS
  <2>1. z # x OBVIOUS
  <2>2. z \in Nat /\ x < z /\ z <= n /\ z < y BY <1>1, <1>3, <2>1
  <2>3. z \in After BY <2>2
  <2>4. y <= z BY <1>2, <2>3
  <2> QED BY <1>3, <2>2, <2>4
<1>5. y - 1 \in AllRunEnds(input)
  <2>1. y - 1 \in 1..n /\ y - 1 \in x..(y - 1) /\ (y - 1) + 1 = y BY <1>1, <1>3
  <2>2. ~IsKept(input, y - 1) BY <1>4, <2>1
  <2>3. y - 1 # n => IsKept(input, y) BY <1>1, <1>3
  <2> QED BY <2>1, <2>2, <2>3 DEF AllRunEnds
<1>6. x <= y - 1 BY <1>3
<1> QED BY <1>4, <1>5, <1>6

(* One ends before an offset, if the offset is not within one.             *)
IsBoundary(input, at) ==
  at \in 0..Len(input) /\
    (at = 0 \/ at = Len(input) \/ IsKept(input, at) \/ IsKept(input, at + 1))

(* A run that begins before a boundary ends before it.                     *)
LEMMA RunEndsWithin ==
  ASSUME NEW input, IsText(input), NEW x \in 1..Len(input), ~IsKept(input, x),
         NEW at, IsBoundary(input, at), x <= at
  PROVE  \E r \in AllRunEnds(input) : x <= r /\ r <= at
<1>1. PICK r \in AllRunEnds(input) : x <= r /\ \A y \in x..r : ~IsKept(input, y)
  BY RunEndsBehind
<1>2. Len(input) \in Nat /\ r \in 1..Len(input) BY DEF AllRunEnds, IsText
<1>3. at \in 0..Len(input) BY DEF IsBoundary
<1>4. CASE r <= at BY <1>1, <1>4
<1>5. CASE at < r
  <2>1. at \in x..r /\ at + 1 \in x..r /\ at # 0 /\ at # Len(input) BY <1>2, <1>3, <1>5
  <2>2. ~IsKept(input, at) /\ ~IsKept(input, at + 1) BY <1>1, <2>1
  <2> QED BY <2>1, <2>2 DEF IsBoundary
<1> QED BY <1>2, <1>3, <1>4, <1>5

(* Seams lie in the order of the text, in the copy as in the text.         *)
LEMMA SeamsInOrder ==
  ASSUME NEW input, NEW seams, AreSeams(seams, input, AllRunEnds(input))
  PROVE  /\ DOMAIN seams = 1..Len(seams) /\ Len(seams) \in Nat
         /\ \A i \in DOMAIN seams :
              /\ seams[i].originalAfter \in Nat \ {0} /\ seams[i].normalized \in Nat
              /\ seams[i].originalAfter \in AllRunEnds(input)
              /\ seams[i].normalized = KeptBefore(input, seams[i].originalAfter)
         /\ \A i, j \in DOMAIN seams : i < j =>
              /\ seams[i].originalAfter < seams[j].originalAfter
              /\ seams[i].normalized <= seams[j].normalized
<1>1. DOMAIN seams = 1..Len(seams) /\ Len(seams) \in Nat BY DEF AreSeams
<1>2. ASSUME NEW i \in DOMAIN seams
      PROVE  /\ seams[i].originalAfter \in Nat \ {0} /\ seams[i].normalized \in Nat
             /\ seams[i].originalAfter \in AllRunEnds(input)
             /\ seams[i].normalized = KeptBefore(input, seams[i].originalAfter)
  <2>1. /\ seams[i].originalAfter \in AllRunEnds(input)
        /\ seams[i].normalized = KeptBefore(input, seams[i].originalAfter)
    BY DEF AreSeams
  <2>2. seams[i].originalAfter \in Nat \ {0} BY <2>1 DEF AllRunEnds
  <2>3. seams[i].normalized \in Nat BY <2>1, <2>2, KeptCounts
  <2> QED BY <2>1, <2>2, <2>3
<1>3. ASSUME NEW i \in DOMAIN seams, NEW j \in DOMAIN seams, i < j
      PROVE  /\ seams[i].originalAfter < seams[j].originalAfter
             /\ seams[i].normalized <= seams[j].normalized
  <2>1. seams[i].originalAfter < seams[j].originalAfter BY <1>3 DEF AreSeams
  <2>2. seams[i].originalAfter \in Nat /\ seams[j].originalAfter \in Nat BY <1>2
  <2>3. seams[i].originalAfter <= seams[j].originalAfter BY <2>1, <2>2
  <2>4. KeptBefore(input, seams[i].originalAfter) <= KeptBefore(input, seams[j].originalAfter)
    BY <2>2, <2>3, KeptBetween
  <2> QED BY <1>2, <2>1, <2>4
<1> QED BY <1>1, <1>2, <1>3

(* Counting the seams that lie before something counts the first ones.     *)
LEMMA SeamsAreCounted ==
  ASSUME NEW input, NEW seams, AreSeams(seams, input, AllRunEnds(input)), NEW at \in Int
  PROVE  /\ SeamsBelow(seams, at) \in 0..Len(seams)
         /\ \A i \in DOMAIN seams : i <= SeamsBelow(seams, at) <=> seams[i].normalized < at
         /\ SeamsUpTo(seams, at) \in 0..Len(seams)
         /\ \A i \in DOMAIN seams : i <= SeamsUpTo(seams, at) <=> seams[i].normalized <= at
         /\ RunsBefore(seams, at) \in 0..Len(seams)
         /\ \A i \in DOMAIN seams : i <= RunsBefore(seams, at) <=> seams[i].originalAfter <= at
<1> DEFINE n == Len(seams)
           A == {i \in DOMAIN seams : seams[i].normalized < at}
           B == {i \in DOMAIN seams : seams[i].normalized <= at}
           C == {i \in DOMAIN seams : seams[i].originalAfter <= at}
<1>1. /\ DOMAIN seams = 1..n /\ n \in Nat
      /\ \A i \in DOMAIN seams : seams[i].originalAfter \in Nat /\ seams[i].normalized \in Nat
      /\ \A i, j \in DOMAIN seams : i < j =>
              /\ seams[i].originalAfter < seams[j].originalAfter
              /\ seams[i].normalized <= seams[j].normalized
  BY SeamsInOrder
<1>2. /\ SeamsBelow(seams, at) = Cardinality(A) /\ SeamsUpTo(seams, at) = Cardinality(B)
      /\ RunsBefore(seams, at) = Cardinality(C)
  BY DEF SeamsBelow, SeamsUpTo, RunsBefore
<1> HIDE DEF n
<1>3. A \in SUBSET (1..n) /\ B \in SUBSET (1..n) /\ C \in SUBSET (1..n) BY <1>1
<1>4. ASSUME NEW j \in 1..n, NEW k \in 1..n, j < k
      PROVE (k \in A => j \in A) /\ (k \in B => j \in B) /\ (k \in C => j \in C)
  <2>1. /\ seams[j].originalAfter < seams[k].originalAfter
        /\ seams[j].normalized <= seams[k].normalized
        /\ seams[j].originalAfter \in Nat /\ seams[k].originalAfter \in Nat
        /\ seams[j].normalized \in Nat /\ seams[k].normalized \in Nat
    BY <1>1, <1>4
  <2> QED BY <1>1, <2>1
<1>5. ASSUME NEW S \in SUBSET (1..n), \A j, k \in 1..n : j < k /\ k \in S => j \in S
      PROVE  Cardinality(S) \in 0..n /\ \A i \in 1..n : i <= Cardinality(S) <=> i \in S
  <2>1. Cardinality(S) \in 0..n /\ S = 1..Cardinality(S) BY <1>1, <1>5, BeginningIs
  <2>2. \A i \in 1..n : i \in S <=> i \in 1..Cardinality(S) BY <2>1
  <2>3. \A i \in 1..n : i \in 1..Cardinality(S) <=> i <= Cardinality(S) BY <2>1
  <2> QED BY <2>1, <2>2, <2>3
<1>6. \A i \in DOMAIN seams : /\ i \in A <=> seams[i].normalized < at
                              /\ i \in B <=> seams[i].normalized <= at
                              /\ i \in C <=> seams[i].originalAfter <= at
  OBVIOUS
<1> HIDE DEF A, B, C
<1>7. /\ Cardinality(A) \in 0..n /\ \A i \in 1..n : i <= Cardinality(A) <=> i \in A
      /\ Cardinality(B) \in 0..n /\ \A i \in 1..n : i <= Cardinality(B) <=> i \in B
      /\ Cardinality(C) \in 0..n /\ \A i \in 1..n : i <= Cardinality(C) <=> i \in C
  BY <1>3, <1>4, <1>5
<1> QED BY <1>1, <1>2, <1>6, <1>7 DEF n

(* At an offset that is not within a run, the last seam before it says how *)
(* many bytes were lost so far.                                            *)
LEMMA OffsetMovesBack ==
  ASSUME NEW input, IsText(input), NEW seams, AreSeams(seams, input, AllRunEnds(input)),
         NEW at, IsBoundary(input, at)
  PROVE  /\ RemovedBefore(seams, RunsBefore(seams, at)) = at - KeptBefore(input, at)
         /\ at \in Nat /\ KeptBefore(input, at) \in Nat
<1> DEFINE c == RunsBefore(seams, at)
           base == IF c = 0 THEN 0 ELSE seams[c].originalAfter
<1>1. /\ Len(input) \in Nat /\ at \in Nat /\ at <= Len(input) BY DEF IsBoundary, IsText
<1>2. c \in 0..Len(seams) /\ \A i \in DOMAIN seams : i <= c <=> seams[i].originalAfter <= at
  BY <1>1, SeamsAreCounted
<1>3. /\ DOMAIN seams = 1..Len(seams) /\ Len(seams) \in Nat
      /\ \A i \in DOMAIN seams :
              /\ seams[i].originalAfter \in Nat \ {0}
              /\ seams[i].normalized = KeptBefore(input, seams[i].originalAfter)
      /\ \A i, j \in DOMAIN seams : i < j => seams[i].originalAfter < seams[j].originalAfter
  BY SeamsInOrder
<1> HIDE DEF c
<1>4. base \in Nat /\ base <= at
  <2>1. CASE c = 0 BY <1>1, <2>1
  <2>2. CASE c # 0
    <3>1. c \in DOMAIN seams /\ c <= c BY <1>2, <1>3, <2>2
    <3> QED BY <1>2, <1>3, <2>2, <3>1
  <2> QED BY <2>1, <2>2
<1>5. \A x \in (base + 1)..at : IsKept(input, x)
  <2> SUFFICES ASSUME NEW x \in (base + 1)..at, ~IsKept(input, x) PROVE FALSE OBVIOUS
  <2>1. x \in 1..Len(input) /\ x <= at /\ base < x BY <1>1, <1>4
  <2>2. PICK r \in AllRunEnds(input) : x <= r /\ r <= at BY <2>1, RunEndsWithin
  <2>3. PICK i \in DOMAIN seams : seams[i].originalAfter = r BY <2>2 DEF AreSeams
  <2>4. i <= c /\ i \in 1..Len(seams) BY <1>2, <1>3, <2>2, <2>3
  <2>5. c \in DOMAIN seams /\ c # 0 BY <1>2, <1>3, <2>4
  <2>6. base = seams[c].originalAfter /\ base \in Nat /\ r \in Nat BY <1>3, <2>3, <2>5
  <2>7. i = c \/ i < c BY <1>2, <2>4
  <2>8. r <= base BY <1>3, <2>3, <2>5, <2>6, <2>7
  <2> HIDE DEF base
  <2> QED BY <1>4, <2>1, <2>2, <2>6, <2>8
<1>6. /\ KeptBefore(input, at) = KeptBefore(input, base) + (at - base)
      /\ KeptBefore(input, base) \in Nat /\ KeptBefore(input, at) \in Nat
  <2> HIDE DEF base
  <2> QED BY <1>1, <1>4, <1>5, KeptBetween, KeptGoesOn
<1>7. RemovedBefore(seams, c) = base - KeptBefore(input, base)
  <2>1. CASE c = 0
    <3>1. base = 0 /\ KeptBefore(input, 0) = 0 BY <2>1, KeptGoesOn
    <3> QED BY <2>1, <3>1 DEF RemovedBefore
  <2>2. CASE c # 0
    <3>1. c \in DOMAIN seams BY <1>2, <1>3, <2>2
    <3> QED BY <1>3, <2>2, <3>1 DEF RemovedBefore
  <2> QED BY <2>1, <2>2
<1> HIDE DEF base
<1>8. RemovedBefore(seams, c) = at - KeptBefore(input, at) BY <1>1, <1>4, <1>6, <1>7
<1> QED BY <1>1, <1>6, <1>8 DEF c

(* What lies before a range, as the seams tell it.                         *)
LEMMA RangeEndsCount ==
  ASSUME NEW input, IsText(input), NEW seams, AreSeams(seams, input, AllRunEnds(input)),
         NEW k \in 1..Len(input), IsKept(input, k)
  PROVE  /\ SeamsUpTo(seams, KeptBefore(input, k - 1)) = RunsBefore(seams, k - 1)
         /\ SeamsBelow(seams, KeptBefore(input, k)) = RunsBefore(seams, k)
<1> DEFINE K(x) == KeptBefore(input, x)
<1>0. Len(input) \in Nat BY DEF IsText
<1>1. /\ k \in Nat \ {0} /\ k - 1 \in Nat /\ K(k) \in Nat /\ K(k - 1) \in Nat
      /\ K(k) = K(k - 1) + 1
  BY KeptCounts
<1>2. \A i \in DOMAIN seams :
        /\ seams[i].originalAfter \in Nat \ {0} /\ seams[i].normalized \in Nat
        /\ seams[i].originalAfter \in AllRunEnds(input)
        /\ seams[i].normalized = K(seams[i].originalAfter)
  BY SeamsInOrder
<1>3. ASSUME NEW i \in DOMAIN seams
      PROVE  /\ seams[i].normalized <= K(k - 1) <=> seams[i].originalAfter <= k - 1
             /\ seams[i].normalized < K(k) <=> seams[i].originalAfter <= k
  <2> DEFINE r == seams[i].originalAfter
  <2>1. r \in Nat /\ seams[i].normalized = K(r) /\ ~IsKept(input, r) /\ r # k /\ K(r) \in Nat
    BY <1>2 DEF AllRunEnds
  <2> HIDE DEF r, K
  <2>2. CASE r < k
    <3>1. r <= k - 1 BY <1>1, <2>1, <2>2
    <3>2. K(r) <= K(k - 1) BY <1>1, <2>1, <3>1, KeptBetween DEF K
    <3> QED BY <1>1, <2>1, <2>2, <3>1, <3>2 DEF r
  <2>3. CASE k < r
    <3>1. K(k) <= K(r) BY <1>1, <2>1, <2>3, KeptBetween DEF K
    <3> QED BY <1>1, <2>1, <2>3, <3>1 DEF r
  <2> QED BY <1>1, <2>1, <2>2, <2>3
<1> HIDE DEF K
<1>4. {i \in DOMAIN seams : seams[i].normalized <= K(k - 1)}
        = {i \in DOMAIN seams : seams[i].originalAfter <= k - 1}
  BY <1>3
<1>5. {i \in DOMAIN seams : seams[i].normalized < K(k)}
        = {i \in DOMAIN seams : seams[i].originalAfter <= k}
  BY <1>3
<1> QED BY <1>4, <1>5 DEF SeamsUpTo, SeamsBelow, RunsBefore, K

(* Of two counts of seams one is greater if a seam is in the one only.     *)
LEMMA CountsCompare ==
  ASSUME NEW n \in Nat, NEW a \in 0..n, NEW b \in 0..n
  PROVE  a > b <=> \E i \in 1..n : i <= a /\ ~(i <= b)
<1>1. a > b => b + 1 \in 1..n /\ b + 1 <= a /\ ~(b + 1 <= b) OBVIOUS
<1>2. ASSUME NEW i \in 1..n, i <= a, ~(i <= b) PROVE a > b BY <1>2
<1> QED BY <1>1, <1>2

(* A seam within a range: bytes were lost there.                           *)
LEMMA WithinIsLost ==
  ASSUME NEW input, IsText(input), NEW seams, AreSeams(seams, input, AllRunEnds(input)),
         NEW first \in 1..Len(input), NEW last \in 1..Len(input), first <= last,
         IsKept(input, first), IsKept(input, last)
  PROVE  RunsBefore(seams, last) > RunsBefore(seams, first - 1) <=> Loses(input, first, last)
<1>1. /\ DOMAIN seams = 1..Len(seams) /\ Len(seams) \in Nat
      /\ \A i \in DOMAIN seams :
              seams[i].originalAfter \in Nat /\ seams[i].originalAfter \in AllRunEnds(input)
  BY SeamsInOrder
<1>2. /\ first - 1 \in Int /\ last \in Int /\ Len(input) \in Nat
      /\ DOMAIN input = 1..Len(input)
  BY DEF IsText
<1> DEFINE a == RunsBefore(seams, last)
           b == RunsBefore(seams, first - 1)
<1>3. /\ a \in 0..Len(seams) /\ b \in 0..Len(seams)
      /\ \A i \in DOMAIN seams : i <= a <=> seams[i].originalAfter <= last
      /\ \A i \in DOMAIN seams : i <= b <=> seams[i].originalAfter <= first - 1
  BY <1>2, SeamsAreCounted
<1> HIDE DEF a, b
<1>4. a > b <=> \E i \in 1..Len(seams) : i <= a /\ ~(i <= b) BY <1>1, <1>3, CountsCompare
<1>5. ASSUME NEW i \in 1..Len(seams), i <= a, ~(i <= b) PROVE Loses(input, first, last)
  <2>1. /\ seams[i].originalAfter \in AllRunEnds(input) /\ seams[i].originalAfter <= last
        /\ ~(seams[i].originalAfter <= first - 1)
    BY <1>1, <1>3, <1>5
  <2>2. PICK r \in AllRunEnds(input) : r <= last /\ ~(r <= first - 1) BY <2>1
  <2>3. r \in 1..Len(input) /\ ~IsKept(input, r) BY DEF AllRunEnds
  <2>4. r # first /\ r \in Nat BY <2>3
  <2>5. first < r BY <2>2, <2>4
  <2> QED BY <1>2, <2>2, <2>3, <2>5 DEF Loses
<1>6. ASSUME Loses(input, first, last) PROVE \E i \in 1..Len(seams) : i <= a /\ ~(i <= b)
  <2>1. PICK k \in 1..Len(input) : first < k /\ k <= last /\ ~IsKept(input, k)
    BY <1>2, <1>6 DEF Loses
  <2>2. IsBoundary(input, last) BY <1>2 DEF IsBoundary
  <2>3. PICK r \in AllRunEnds(input) : k <= r /\ r <= last BY <2>1, <2>2, RunEndsWithin
  <2>4. PICK i \in DOMAIN seams : seams[i].originalAfter = r BY <2>3 DEF AreSeams
  <2>5. r \in Nat /\ ~(r <= first - 1) BY <2>1, <2>3 DEF AllRunEnds
  <2> QED BY <1>1, <1>3, <2>3, <2>4, <2>5
<1> QED BY <1>4, <1>5, <1>6 DEF a, b

(* A seam within a range or at an end: bytes were lost there or beside it. *)
LEMMA BesideIsLost ==
  ASSUME NEW input, IsText(input), NEW seams, AreSeams(seams, input, AllRunEnds(input)),
         NEW first \in 1..Len(input), NEW last \in 1..Len(input), first <= last,
         IsKept(input, first), IsKept(input, last)
  PROVE  TouchesRemovedRun(seams, KeptBefore(input, first - 1), KeptBefore(input, last))
           <=> Loses(input, first - 2, last + 1)
<1> DEFINE K(x) == KeptBefore(input, x)
           a == SeamsUpTo(seams, K(last))
           b == SeamsBelow(seams, K(first - 1))
<1>1. /\ DOMAIN seams = 1..Len(seams) /\ Len(seams) \in Nat
      /\ \A i \in DOMAIN seams :
              /\ seams[i].originalAfter \in Nat /\ seams[i].originalAfter \in AllRunEnds(input)
              /\ seams[i].normalized = K(seams[i].originalAfter)
  BY SeamsInOrder
<1>0. DOMAIN input = 1..Len(input) BY DEF IsText
<1>2. /\ first - 1 \in Nat /\ last \in Nat /\ first \in Nat /\ Len(input) \in Nat
      /\ first <= last /\ first <= Len(input) /\ last <= Len(input) /\ 1 <= first
  <2>1. Len(input) \in Nat BY DEF IsText
  <2> QED BY <2>1
<1>3. \A x \in Nat : K(x) \in Nat BY KeptGoesOn
<1>4. \A x, y \in Nat : x <= y =>
        /\ K(x) <= K(y)
        /\ K(x) = K(y) => \A z \in (x + 1)..y : ~IsKept(input, z)
        /\ (\A z \in (x + 1)..y : ~IsKept(input, z)) => K(x) = K(y)
  BY KeptBetween
<1> HIDE DEF K
<1>5. /\ a \in 0..Len(seams) /\ b \in 0..Len(seams)
      /\ \A i \in DOMAIN seams : i <= a <=> seams[i].normalized <= K(last)
      /\ \A i \in DOMAIN seams : i <= b <=> seams[i].normalized < K(first - 1)
  <2>1. K(last) \in Int /\ K(first - 1) \in Int BY <1>2, <1>3
  <2> QED BY <2>1, SeamsAreCounted
<1> HIDE DEF a, b
<1>6. a > b <=> \E i \in 1..Len(seams) : i <= a /\ ~(i <= b) BY <1>1, <1>5, CountsCompare
<1>7. ASSUME NEW i \in 1..Len(seams), i <= a, ~(i <= b) PROVE Loses(input, first - 2, last + 1)
  <2>1. PICK r \in AllRunEnds(input) : K(r) <= K(last) /\ ~(K(r) < K(first - 1))
    BY <1>1, <1>5, <1>7
  <2>2. /\ r \in 1..Len(input) /\ r \in Nat /\ ~IsKept(input, r)
        /\ r # Len(input) => IsKept(input, r + 1)
    BY DEF AllRunEnds
  <2>3. K(r) \in Nat /\ K(last) \in Nat /\ K(first - 1) \in Nat BY <1>2, <1>3, <2>2
  <2>4. ~(r < first - 1)
    <3> SUFFICES ASSUME r < first - 1 PROVE FALSE OBVIOUS
    <3>1. K(r) <= K(first - 1) BY <1>2, <1>4, <2>2
    <3>2. K(r) = K(first - 1) BY <2>1, <2>3, <3>1
    <3>3. r + 1 \in (r + 1)..(first - 1) /\ r # Len(input) BY <1>2, <2>2
    <3>4. ~IsKept(input, r + 1)
      <4>1. r <= first - 1 BY <1>2, <2>2
      <4> QED BY <1>2, <1>4, <2>2, <3>2, <3>3, <4>1
    <3> QED BY <2>2, <3>3, <3>4
  <2>5. CASE r <= last + 1
    <3>1. first - 2 < r BY <1>2, <2>2, <2>4
    <3> QED BY <1>0, <2>2, <2>5, <3>1 DEF Loses
  <2>6. CASE r > last + 1
    <3>1. K(last) <= K(r) BY <1>2, <1>4, <2>2, <2>6
    <3>2. K(last) = K(r) /\ last <= r BY <1>2, <2>1, <2>2, <2>3, <2>6, <3>1
    <3>3. last + 1 \in (last + 1)..r /\ last + 1 \in 1..Len(input) BY <1>2, <2>2, <2>6
    <3>4. ~IsKept(input, last + 1) BY <1>2, <1>4, <2>2, <3>2, <3>3
    <3>5. first - 2 < last + 1 BY <1>2
    <3> QED BY <1>0, <1>2, <3>3, <3>4, <3>5 DEF Loses
  <2> QED BY <1>2, <2>2, <2>5, <2>6
<1>8. ASSUME Loses(input, first - 2, last + 1) PROVE \E i \in 1..Len(seams) : i <= a /\ ~(i <= b)
  <2>1. PICK k \in 1..Len(input) : first - 2 < k /\ k <= last + 1 /\ ~IsKept(input, k)
    BY <1>0, <1>2, <1>8 DEF Loses
  <2>2. SUFFICES \E r \in AllRunEnds(input) : K(first - 1) <= K(r) /\ K(r) <= K(last)
    <3>1. PICK r \in AllRunEnds(input) : K(first - 1) <= K(r) /\ K(r) <= K(last) BY <2>2
    <3>2. PICK i \in DOMAIN seams : seams[i].originalAfter = r BY <3>1 DEF AreSeams
    <3>3. K(r) \in Nat /\ K(first - 1) \in Nat BY <1>2, <1>3 DEF AllRunEnds
    <3>4. seams[i].normalized = K(r) BY <1>1, <3>2
    <3> QED BY <1>1, <1>5, <3>1, <3>2, <3>3, <3>4
  <2>3. k \in Nat /\ k # first /\ k # last BY <2>1
  <2>4. CASE k < first
    <3>1. k = first - 1 /\ k # Len(input) /\ k + 1 = first BY <1>2, <2>1, <2>3, <2>4
    <3>2. k \in AllRunEnds(input) BY <2>1, <3>1 DEF AllRunEnds
    <3>3. K(first - 1) <= K(first - 1) /\ K(first - 1) <= K(last)
      <4>1. first - 1 <= last BY <1>2
      <4>2. K(first - 1) <= K(last) BY <1>2, <1>4, <4>1
      <4>3. K(first - 1) \in Nat BY <1>2, <1>3
      <4> QED BY <4>2, <4>3
    <3> QED BY <3>1, <3>2, <3>3
  <2>5. CASE first < k /\ k < last
    <3>1. IsBoundary(input, last) BY <1>2 DEF IsBoundary
    <3>2. k <= last BY <2>3, <2>5, <1>2
    <3>3. PICK r \in AllRunEnds(input) : k <= r /\ r <= last BY <2>1, <3>1, <3>2, RunEndsWithin
    <3>4. r \in Nat /\ first - 1 <= r BY <1>2, <2>3, <2>5, <3>3 DEF AllRunEnds
    <3>5. K(first - 1) <= K(r) /\ K(r) <= K(last) BY <1>2, <1>4, <3>3, <3>4
    <3> QED BY <3>5
  <2>6. CASE last < k
    <3>1. k = last + 1 BY <1>2, <2>1, <2>3, <2>6
    <3>2. PICK r \in AllRunEnds(input) : k <= r /\ \A y \in k..r : ~IsKept(input, y)
      BY <2>1, RunEndsBehind
    <3>3. r \in Nat /\ last <= r /\ first - 1 <= r
      BY <1>2, <2>3, <3>1, <3>2 DEF AllRunEnds
    <3>4. K(last) = K(r) BY <1>2, <1>4, <3>1, <3>2, <3>3
    <3>5. K(first - 1) <= K(r) BY <1>2, <1>4, <3>3
    <3>6. K(r) <= K(last) BY <1>2, <1>3, <3>4
    <3> QED BY <3>5, <3>6
  <2> QED BY <1>2, <2>3, <2>4, <2>5, <2>6
<1> QED BY <1>6, <1>7, <1>8 DEF TouchesRemovedRun, a, b, K

(* Every range of a scan copy moves back to the bytes it was made of.      *)
LEMMA StripMovesBack ==
  ASSUME NEW input, IsText(input)
  PROVE  /\ IsScanCopy(StripRemoved(input).text, input)
         /\ RangesStandFor(StripRemoved(input), input)
         /\ \A at : IsBoundary(input, at) =>
              ToScannedOffset(StripRemoved(input).seams, at) = KeptBefore(input, at)
<1> DEFINE strip == StripRemoved(input)
           seams == strip.seams
<1>1. CopyUpTo(strip.text, input, Len(input)) BY StripIs
<1>2. AreSeams(seams, input, AllRunEnds(input)) BY StripIs
<1>3. DOMAIN input = 1..Len(input) /\ Len(input) \in Nat BY DEF IsText
<1>4. IsScanCopy(strip.text, input) BY <1>1, <1>3 DEF IsScanCopy, CopyUpTo
<1> HIDE DEF strip
<1>5. ASSUME NEW first \in 1..Len(input), NEW last \in 1..Len(input), first <= last,
             IsKept(input, first), IsKept(input, last)
      PROVE  /\ Translate(seams, KeptBefore(input, first - 1), KeptBefore(input, last))
                  = [start |-> first - 1, end |-> last,
                     containsRun |-> Loses(input, first, last)]
             /\ TouchesRemovedRun(seams, KeptBefore(input, first - 1), KeptBefore(input, last))
                  = Loses(input, first - 2, last + 1)
  <2> DEFINE start == KeptBefore(input, first - 1)
             end == KeptBefore(input, last)
  <2>1. /\ SeamsUpTo(seams, start) = RunsBefore(seams, first - 1)
        /\ SeamsBelow(seams, end) = RunsBefore(seams, last)
    BY <1>2, <1>5, RangeEndsCount
  <2>2. IsBoundary(input, first - 1) /\ IsBoundary(input, last)
    <3>1. first - 1 \in 0..Len(input) /\ (first - 1) + 1 = first /\ last \in 0..Len(input)
      BY <1>3
    <3> QED BY <1>5, <3>1 DEF IsBoundary
  <2>3. /\ RemovedBefore(seams, RunsBefore(seams, first - 1)) = (first - 1) - start
        /\ RemovedBefore(seams, RunsBefore(seams, last)) = last - end
        /\ start \in Nat /\ end \in Nat
    BY <1>2, <2>2, OffsetMovesBack
  <2>4. (RunsBefore(seams, last) > RunsBefore(seams, first - 1)) = Loses(input, first, last)
    <3>1. RunsBefore(seams, last) > RunsBefore(seams, first - 1) <=> Loses(input, first, last)
      BY <1>2, <1>5, WithinIsLost
    <3>2. Loses(input, first, last) \in BOOLEAN BY DEF Loses
    <3> QED BY <3>1, <3>2
  <2>5. TouchesRemovedRun(seams, start, end) = Loses(input, first - 2, last + 1)
    <3>1. TouchesRemovedRun(seams, start, end) <=> Loses(input, first - 2, last + 1)
      BY <1>2, <1>5, BesideIsLost
    <3>2. Loses(input, first - 2, last + 1) \in BOOLEAN BY DEF Loses
    <3>3. TouchesRemovedRun(seams, start, end) \in BOOLEAN BY DEF TouchesRemovedRun
    <3> QED BY <3>1, <3>2, <3>3
  <2> HIDE DEF start, end, seams
  <2>6. /\ start + RemovedBefore(seams, SeamsUpTo(seams, start)) = first - 1
        /\ end + RemovedBefore(seams, SeamsBelow(seams, end)) = last
    <3>1. first - 1 \in Int /\ last \in Int OBVIOUS
    <3> QED BY <2>1, <2>3, <3>1
  <2>7. Translate(seams, start, end)
          = [start |-> first - 1, end |-> last, containsRun |-> Loses(input, first, last)]
    BY <2>1, <2>4, <2>6 DEF Translate
  <2> QED BY <2>5, <2>7 DEF start, end
<1>6. RangesStandFor(strip, input) BY <1>3, <1>5 DEF RangesStandFor
<1>7. ASSUME NEW at, IsBoundary(input, at)
      PROVE  ToScannedOffset(seams, at) = KeptBefore(input, at)
  <2>1. /\ RemovedBefore(seams, RunsBefore(seams, at)) = at - KeptBefore(input, at)
        /\ at \in Nat /\ KeptBefore(input, at) \in Nat
    BY <1>2, <1>7, OffsetMovesBack
  <2>2. at - (at - KeptBefore(input, at)) = KeptBefore(input, at) BY <2>1
  <2> QED BY <2>1, <2>2 DEF ToScannedOffset
<1> QED BY <1>4, <1>6, <1>7 DEF strip

(* There is one copy of a text.                                            *)
LEMMA CopiesAreOne ==
  ASSUME NEW input, NEW n \in Nat, NEW a, NEW b, CopyUpTo(a, input, n), CopyUpTo(b, input, n)
  PROVE  a = b
<1> DEFINE K(x) == KeptBefore(input, x)
<1>1. /\ a \in Seq(Range(input)) /\ b \in Seq(Range(input))
      /\ Len(a) = K(n) /\ Len(b) = K(n)
      /\ \A k \in 1..n : IsKept(input, k) => a[K(k)] = input[k] /\ b[K(k)] = input[k]
  BY DEF CopyUpTo
<1>2. \A k \in Nat : K(k) \in Nat BY KeptGoesOn
<1>3. K(0) = 0 BY KeptGoesOn
<1>4. \A k \in Nat \ {0} : /\ IsKept(input, k) => K(k) = K(k - 1) + 1
                           /\ ~IsKept(input, k) => K(k) = K(k - 1)
  BY KeptCounts
<1> HIDE DEF K
<1>5. ASSUME NEW p \in 1..K(n) PROVE a[p] = b[p]
  <2> DEFINE Reach == {k \in Nat : k <= n /\ p <= K(k)}
  <2>1. PICK k \in Reach : \A j \in Reach : k <= j
    <3>1. n \in Reach BY <1>2
    <3>2. Reach \in SUBSET Nat /\ Reach # {} BY <3>1
    <3> HIDE DEF Reach
    <3> QED BY <3>2, LeastElement
  <2>2. k \in Nat /\ k <= n /\ p <= K(k) BY <2>1
  <2>3. k # 0 BY <1>3, <2>2
  <2>4. k - 1 \in Nat /\ k - 1 <= n /\ ~(k <= k - 1) BY <2>2, <2>3
  <2>5. ~(p <= K(k - 1))
    <3> SUFFICES ASSUME p <= K(k - 1) PROVE FALSE OBVIOUS
    <3>1. k - 1 \in Reach BY <2>4
    <3> HIDE DEF Reach
    <3> QED BY <2>1, <2>4, <3>1
  <2>6. K(k) \in Nat /\ K(k - 1) \in Nat BY <1>2, <2>2, <2>4
  <2>7. IsKept(input, k) /\ K(k) = p BY <1>4, <2>2, <2>3, <2>5, <2>6
  <2>8. k \in 1..n BY <2>2, <2>3
  <2> HIDE DEF Reach
  <2> QED BY <1>1, <2>7, <2>8
<1>6. Len(a) = Len(b) /\ \A p \in 1..Len(a) : a[p] = b[p] BY <1>1, <1>5
<1> QED BY <1>1, <1>6, SeqEqual

(* The copy of two texts is that of the one and that of the other.         *)
LEMMA CopiesConcatenate ==
  ASSUME NEW S, NEW a \in Seq(S), NEW b \in Seq(S), NEW ca, NEW cb,
         CopyUpTo(ca, a, Len(a)), CopyUpTo(cb, b, Len(b))
  PROVE  CopyUpTo(ca \o cb, a \o b, Len(a \o b))
<1> DEFINE u == a \o b
           la == Len(a)
           lb == Len(b)
           c == ca \o cb
           T == Range(u)
<1>1. /\ u \in Seq(S) /\ Len(u) = la + lb /\ la \in Nat /\ lb \in Nat
      /\ \A k \in 1..la : u[k] = a[k]
      /\ \A k \in 1..lb : u[la + k] = b[k]
  <2>1. /\ u \in Seq(S) /\ Len(u) = la + lb /\ la \in Nat /\ lb \in Nat
        /\ \A i \in 1..(la + lb) : u[i] = IF i <= la THEN a[i] ELSE b[i - la]
    BY ConcatProperties
  <2> HIDE DEF u, la, lb
  <2>2. \A k \in 1..la : k \in 1..(la + lb) /\ k <= la BY <2>1
  <2>3. \A k \in 1..lb : la + k \in 1..(la + lb) /\ ~(la + k <= la) /\ (la + k) - la = k
    BY <2>1
  <2> QED BY <2>1, <2>2, <2>3
<1>2. T = Range(a) \cup Range(b) BY RangeConcatenation
<1>3. ca \in Seq(T) /\ cb \in Seq(T)
  <2>1. Range(a) \subseteq T /\ Range(b) \subseteq T BY <1>2
  <2>2. ca \in Seq(Range(a)) /\ cb \in Seq(Range(b)) BY DEF CopyUpTo
  <2> HIDE DEF T
  <2> QED BY <2>1, <2>2, SeqMonotonic
<1>4. \A k \in 0..la : KeptBefore(u, k) = KeptBefore(a, k)
  <2>1. AlikeFrom(u, 0, a, la)
    <3>1. \A k \in 1..la : 0 + k = k BY <1>1
    <3> QED BY <1>1, <3>1 DEF IsKept, AlikeFrom
  <2>2. 0 \in Nat /\ la \in Nat BY <1>1
  <2> HIDE DEF u, la
  <2>3. \A k \in 0..la : KeptBefore(u, 0 + k) = KeptBefore(u, 0) + KeptBefore(a, k)
    BY <2>1, <2>2, KeptAlike
  <2>4. KeptBefore(u, 0) = 0 BY KeptGoesOn
  <2>5. \A k \in 0..la : KeptBefore(a, k) \in Nat /\ 0 + k = k
    <3>1. \A k \in 0..la : k \in Nat /\ 0 + k = k BY <2>2
    <3>2. \A k \in Nat : KeptBefore(a, k) \in Nat BY KeptGoesOn, Zenon
    <3> QED BY <3>1, <3>2, Zenon
  <2> QED BY <2>3, <2>4, <2>5
<1>5. \A k \in 0..lb : KeptBefore(u, la + k) = KeptBefore(a, la) + KeptBefore(b, k)
  <2>1. AlikeFrom(u, la, b, lb) BY <1>1 DEF IsKept, AlikeFrom
  <2>2. KeptBefore(u, la) = KeptBefore(a, la) BY <1>1, <1>4
  <2>3. la \in Nat /\ lb \in Nat BY <1>1
  <2> HIDE DEF u, la, lb
  <2>4. \A k \in 0..lb : KeptBefore(u, la + k) = KeptBefore(u, la) + KeptBefore(b, k)
    BY <2>1, <2>3, KeptAlike
  <2> QED BY <2>2, <2>4
<1>6. /\ Len(ca) = KeptBefore(a, la) /\ Len(cb) = KeptBefore(b, lb)
      /\ \A k \in 1..la : IsKept(a, k) => ca[KeptBefore(a, k)] = a[k]
      /\ \A k \in 1..lb : IsKept(b, k) => cb[KeptBefore(b, k)] = b[k]
  BY DEF CopyUpTo
<1> HIDE DEF T
<1>7. /\ c \in Seq(T) /\ Len(c) = Len(ca) + Len(cb)
      /\ \A i \in 1..(Len(ca) + Len(cb)) : c[i] = IF i <= Len(ca) THEN ca[i] ELSE cb[i - Len(ca)]
  BY <1>3, ConcatProperties
<1> HIDE DEF c, u, la, lb
<1>8. Len(c) = KeptBefore(u, la + lb)
  <2>1. lb \in 0..lb BY <1>1
  <2> QED BY <1>5, <1>6, <1>7, <2>1
<1>9. ASSUME NEW k \in 1..(la + lb), IsKept(u, k) PROVE c[KeptBefore(u, k)] = u[k]
  <2>1. CASE k \in 1..la
    <3>1. IsKept(a, k) /\ k \in 0..la BY <1>1, <1>9, <2>1 DEF IsKept
    <3>2. KeptBefore(u, k) = KeptBefore(a, k) BY <1>4, <3>1
    <3>3. KeptBefore(a, k) \in 1..Len(ca)
      <4>1. k \in Nat \ {0} /\ k <= la BY <1>1, <2>1
      <4>2. /\ KeptBefore(a, k) = KeptBefore(a, k - 1) + 1
            /\ KeptBefore(a, k - 1) \in Nat /\ KeptBefore(a, k) \in Nat
        BY <3>1, <4>1, KeptCounts
      <4>3. KeptBefore(a, k) <= KeptBefore(a, la) BY <1>1, <4>1, KeptBetween
      <4>4. KeptBefore(a, la) \in Nat BY <1>1, KeptGoesOn
      <4> QED BY <1>6, <4>2, <4>3, <4>4
    <3>4. Len(cb) \in Nat /\ Len(ca) \in Nat BY <1>3
    <3>5. KeptBefore(a, k) \in 1..(Len(ca) + Len(cb)) /\ KeptBefore(a, k) <= Len(ca)
      BY <3>3, <3>4
    <3>6. c[KeptBefore(a, k)] = ca[KeptBefore(a, k)] BY <1>7, <3>5
    <3> QED BY <1>1, <1>6, <2>1, <3>1, <3>2, <3>6
  <2>2. CASE k \notin 1..la
    <3> DEFINE j == k - la
    <3>1. j \in 1..lb /\ k = la + j BY <1>1, <2>2
    <3>0. j \in Nat \ {0} /\ j <= lb /\ j \in 0..lb BY <1>1, <3>1
    <3> HIDE DEF j
    <3>2. u[k] = b[j] /\ IsKept(b, j) BY <1>1, <1>9, <3>1 DEF IsKept
    <3>3. KeptBefore(u, k) = Len(ca) + KeptBefore(b, j) BY <1>5, <1>6, <3>0, <3>1
    <3>4. KeptBefore(b, j) \in 1..Len(cb)
      <4>2. /\ KeptBefore(b, j) = KeptBefore(b, j - 1) + 1
            /\ KeptBefore(b, j - 1) \in Nat /\ KeptBefore(b, j) \in Nat
        BY <3>0, <3>2, KeptCounts
      <4>3. KeptBefore(b, j) <= KeptBefore(b, lb) BY <1>1, <3>0, KeptBetween
      <4>4. KeptBefore(b, lb) \in Nat BY <1>1, KeptGoesOn
      <4> QED BY <1>6, <4>2, <4>3, <4>4
    <3>5. Len(cb) \in Nat /\ Len(ca) \in Nat BY <1>3
    <3> DEFINE p == KeptBefore(b, j)
    <3>6. /\ Len(ca) + p \in 1..(Len(ca) + Len(cb)) /\ ~(Len(ca) + p <= Len(ca))
          /\ (Len(ca) + p) - Len(ca) = p
      <4> HIDE DEF p
      <4> QED BY <3>4, <3>5 DEF p
    <3>7. c[Len(ca) + p] = cb[p] BY <1>7, <3>6
    <3>8. cb[p] = b[j] BY <1>6, <3>1, <3>2
    <3> QED BY <3>2, <3>3, <3>7, <3>8
  <2> QED BY <2>1, <2>2
<1> QED BY <1>1, <1>7, <1>8, <1>9 DEF CopyUpTo, T, c, u

(* The scan copy of a text is its copy, a text of the same bytes.          *)
LEMMA NormalizedIs ==
  ASSUME NEW S, NEW input \in Seq(S)
  PROVE  /\ CopyUpTo(Normalized(input), input, Len(input))
         /\ Normalized(input) \in Seq(S)
<1>1. IsText(input) BY SeqOfRange DEF IsText
<1>2. CopyUpTo(Normalized(input), input, Len(input)) BY <1>1, StripIs DEF Normalized
<1>3. Range(input) \subseteq S BY DEF Range
<1>4. Normalized(input) \in Seq(Range(input)) BY <1>2 DEF CopyUpTo
<1> QED BY <1>2, <1>3, <1>4, SeqMonotonic

(* A text may be stripped piece by piece.                                  *)
LEMMA NormalizedPieces ==
  ASSUME NEW S, NEW a \in Seq(S), NEW b \in Seq(S)
  PROVE  Normalized(a \o b) = Normalized(a) \o Normalized(b)
<1>1. a \o b \in Seq(S) /\ Len(a \o b) \in Nat BY ConcatProperties
<1>2. CopyUpTo(Normalized(a), a, Len(a)) /\ CopyUpTo(Normalized(b), b, Len(b))
  BY NormalizedIs
<1>3. CopyUpTo(Normalized(a) \o Normalized(b), a \o b, Len(a \o b)) BY <1>2, CopiesConcatenate
<1>4. CopyUpTo(Normalized(a \o b), a \o b, Len(a \o b)) BY <1>1, NormalizedIs
<1> QED BY <1>1, <1>3, <1>4, CopiesAreOne

(* Of nothing there is nothing.                                            *)
LEMMA NormalizedEmpty == Normalized(<<>>) = <<>>
<1>1. <<>> \in Seq({}) OBVIOUS
<1>2. Normalized(<<>>) \in Seq({}) BY <1>1, NormalizedIs
<1>3. CopyUpTo(Normalized(<<>>), <<>>, Len(<<>>)) BY <1>1, NormalizedIs
<1>4. Len(Normalized(<<>>)) = 0
  <2>1. Len(<<>>) = 0 OBVIOUS
  <2> QED BY <1>3, <2>1, KeptGoesOn DEF CopyUpTo
<1> QED BY <1>2, <1>4, EmptySeq

(* A nonempty set of bounded numbers has a greatest element.               *)
LEMMA MaxIs ==
  ASSUME NEW n \in Nat, NEW S \in SUBSET (0..n), S # {}
  PROVE  Max(S) \in S /\ \A y \in S : y <= Max(S)
<1> DEFINE D == {d \in Nat : d <= n /\ n - d \in S}
<1>1. PICK y \in S : TRUE OBVIOUS
<1>2. n - y \in D
  <2>1. n - y \in Nat /\ n - y <= n /\ n - (n - y) = y BY <1>1
  <2> QED BY <2>1, <1>1
<1>3. PICK d \in D : \A e \in D : d <= e
  <2>1. D \in SUBSET Nat /\ D # {} BY <1>2
  <2> HIDE DEF D
  <2> QED BY <2>1, LeastElement
<1>4. d \in Nat /\ n - d \in S OBVIOUS
<1>5. \A z \in S : n - d >= z
  <2> TAKE z \in S
  <2>1. n - z \in Nat /\ n - z <= n /\ n - (n - z) = z OBVIOUS
  <2>2. n - z \in D BY <2>1
  <2>3. d <= n - z BY <1>3, <2>2
  <2> QED BY <1>4, <2>1, <2>3
<1>6. Max(S) \in S /\ \A z \in S : Max(S) >= z
  <2> DEFINE IsMax(x) == \A z \in S : x >= z
  <2>1. \E x \in S : IsMax(x) BY <1>4, <1>5
  <2>2. Max(S) = CHOOSE x \in S : IsMax(x) BY DEF Max
  <2> HIDE DEF IsMax
  <2>3. Max(S) \in S /\ IsMax(Max(S)) BY <2>1, <2>2
  <2> QED BY <2>3 DEF IsMax
<1>7. \A z \in S : z <= Max(S) BY <1>6
<1> QED BY <1>6, <1>7

(* And a nonempty set of numbers a least one.                              *)
LEMMA MinIs ==
  ASSUME NEW S \in SUBSET Nat, S # {}
  PROVE  Min(S) \in S /\ \A y \in S : Min(S) <= y
<1> DEFINE IsMin(x) == \A y \in S : x <= y
<1>1. \E x \in S : IsMin(x) BY LeastElement
<1>2. Min(S) = CHOOSE x \in S : IsMin(x) BY DEF Min
<1> HIDE DEF IsMin
<1>3. Min(S) \in S /\ IsMin(Min(S)) BY <1>1, <1>2
<1> QED BY <1>3 DEF IsMin

(* Texts that are alike but for white space at their end end alike.        *)
SameText(a, b, m) ==
  /\ m <= Len(a) /\ m <= Len(b) /\ \A k \in 1..m : a[k] = b[k]
  /\ \A k \in (m + 1)..Len(a) : a[k] \in Whitespace
  /\ \A k \in (m + 1)..Len(b) : b[k] \in Whitespace

(* They end alike but for white space.                                     *)
LEMMA SameSolidEnd ==
  ASSUME NEW S, NEW a \in Seq(S), NEW b \in Seq(S), NEW m \in Nat, SameText(a, b, m)
  PROVE  SolidEnd(a) = SolidEnd(b) /\ SolidEnd(a) \in 0..m
<1> DEFINE solid(t) == {k \in DOMAIN t : t[k] \notin Whitespace}
<1>1. DOMAIN a = 1..Len(a) /\ DOMAIN b = 1..Len(b) /\ Len(a) \in Nat /\ Len(b) \in Nat OBVIOUS
<1>2. ASSUME NEW t \in {a, b} PROVE \A k \in solid(t) : k \in 1..m
  <2>1. \A k \in 1..Len(t) : k \in 1..m \/ k \in (m + 1)..Len(t) BY <1>1
  <2>2. \A k \in (m + 1)..Len(t) : t[k] \in Whitespace BY DEF SameText
  <2> QED BY <1>1, <2>1, <2>2
<1>3. solid(a) = solid(b)
  <2>1. \A k \in 1..m : a[k] = b[k] /\ k \in 1..Len(a) /\ k \in 1..Len(b) BY <1>1 DEF SameText
  <2> QED BY <1>1, <1>2, <2>1
<1>4. solid(a) \in SUBSET (1..m) BY <1>2
<1>5. /\ SolidEnd(a) = IF solid(a) = {} THEN 0 ELSE Max(solid(a))
      /\ SolidEnd(b) = IF solid(b) = {} THEN 0 ELSE Max(solid(b))
  BY DEF SolidEnd
<1> HIDE DEF solid
<1>6. solid(a) # {} => Max(solid(a)) \in 1..m
  <2>1. solid(a) \in SUBSET (0..m) BY <1>4
  <2> QED BY <1>4, <2>1, MaxIs
<1> QED BY <1>3, <1>5, <1>6

(* A text ends within it.                                                  *)
LEMMA SolidEndIs ==
  ASSUME NEW S, NEW a \in Seq(S)
  PROVE  SolidEnd(a) \in 0..Len(a)
<1>1. Len(a) \in Nat /\ SameText(a, a, Len(a)) BY DEF SameText
<1> QED BY <1>1, SameSolidEnd

(* The answer to whether their end can be continued is the same.           *)
LEMMA SameAnswer ==
  ASSUME NEW S, NEW a \in Seq(S), NEW b \in Seq(S), NEW m \in Nat, SameText(a, b, m)
  PROVE  HasOpenAssignment(a) = HasOpenAssignment(b)
<1> DEFINE name(t) == IF SolidEnd(t) > 0 /\ t[SolidEnd(t)] = "="
                        THEN SolidEnd(SubSeq(t, 1, SolidEnd(t) - 1)) ELSE SolidEnd(t)
<1>1. SolidEnd(a) = SolidEnd(b) /\ SolidEnd(a) \in 0..m BY SameSolidEnd
<1>2. /\ m <= Len(a) /\ m <= Len(b) /\ \A k \in 1..m : a[k] = b[k]
      /\ Len(a) \in Nat /\ Len(b) \in Nat
  BY DEF SameText
<1>3. ASSUME NEW end \in 1..m
      PROVE  /\ SubSeq(a, 1, end - 1) = SubSeq(b, 1, end - 1)
             /\ SolidEnd(SubSeq(a, 1, end - 1)) \in 0..m
  <2> DEFINE sa == SubSeq(a, 1, end - 1)
             sb == SubSeq(b, 1, end - 1)
  <2>1. /\ sa \in Seq(S) /\ sb \in Seq(S) /\ Len(sa) = end - 1 /\ Len(sb) = end - 1
        /\ \A k \in 1..(end - 1) : sa[k] = a[k] /\ sb[k] = b[k]
    BY <1>2
  <2>2. \A k \in 1..(end - 1) : a[k] = b[k] BY <1>2
  <2> HIDE DEF sa, sb
  <2>3. sa = sb
    <3>1. Len(sa) = Len(sb) /\ \A k \in 1..Len(sa) : sa[k] = sb[k] BY <2>1, <2>2
    <3> QED BY <2>1, <3>1, SeqEqual
  <2>4. SolidEnd(sa) \in 0..Len(sa) BY <2>1, SolidEndIs
  <2>5. SolidEnd(sa) \in 0..m BY <2>1, <2>4
  <2> QED BY <2>3, <2>5 DEF sa, sb
<1>4. name(a) = name(b) /\ name(a) \in 0..m
  <2>1. CASE SolidEnd(a) = 0 BY <1>1, <2>1
  <2>2. CASE SolidEnd(a) \in 1..m
    <3>1. a[SolidEnd(a)] = b[SolidEnd(a)] BY <1>2, <2>2
    <3>2. /\ SubSeq(a, 1, SolidEnd(a) - 1) = SubSeq(b, 1, SolidEnd(a) - 1)
          /\ SolidEnd(SubSeq(a, 1, SolidEnd(a) - 1)) \in 0..m
      BY <1>3, <2>2
    <3> QED BY <1>1, <3>1, <3>2
  <2> QED BY <1>1, <2>1, <2>2
<1>5. \A t : HasOpenAssignment(t) <=>
        /\ name(t) >= 2 /\ t[name(t) - 1] = "p" /\ t[name(t)] = "w"
        /\ name(t) > 2 => t[name(t) - 2] \notin {"p", "w", "V"}
  BY DEF HasOpenAssignment
<1> DEFINE k == name(a)
<1>6. name(b) = k /\ k \in 0..m BY <1>4
<1> HIDE DEF k
<1>7. k >= 2 => a[k - 1] = b[k - 1] /\ a[k] = b[k]
  <2>1. k >= 2 => k - 1 \in 1..m /\ k \in 1..m BY <1>6
  <2> QED BY <1>2, <2>1
<1>8. k > 2 => a[k - 2] = b[k - 2]
  <2>1. k > 2 => k - 2 \in 1..m BY <1>6
  <2> QED BY <1>2, <2>1
<1>9. HasOpenAssignment(a) <=> HasOpenAssignment(b)
  <2>1. HasOpenAssignment(a) <=>
        /\ k >= 2 /\ a[k - 1] = "p" /\ a[k] = "w"
        /\ k > 2 => a[k - 2] \notin {"p", "w", "V"}
    BY <1>5 DEF k
  <2>2. HasOpenAssignment(b) <=>
        /\ k >= 2 /\ b[k - 1] = "p" /\ b[k] = "w"
        /\ k > 2 => b[k - 2] \notin {"p", "w", "V"}
    <3> HIDE DEF name
    <3> QED BY <1>5, <1>6
  <2> QED BY <1>7, <1>8, <2>1, <2>2
<1> QED BY <1>9 DEF HasOpenAssignment

(* The last answer is still the answer when only white space came since.   *)
AnswersFor(tail, copy) ==
  tail.checked \in 0..Len(copy) /\ tail.open = HasOpenAssignment(SubSeq(copy, 1, tail.checked))

(* Judged again, the answer is that for the whole copy.                    *)
LEMMA TailAnswers ==
  ASSUME NEW S, NEW copy \in Seq(S), NEW tail, AnswersFor(tail, copy)
  PROVE  /\ JudgeTail(tail, copy).open = HasOpenAssignment(copy)
         /\ AnswersFor(JudgeTail(tail, copy), copy)
<1> DEFINE m == tail.checked
           before == SubSeq(copy, 1, m)
           since == SubSeq(copy, m + 1, Len(copy))
<1>1. /\ m \in 0..Len(copy) /\ Len(copy) \in Nat /\ m \in Nat
      /\ tail.open = HasOpenAssignment(before)
  BY DEF AnswersFor
<1>2. JudgeTail(tail, copy).open =
        IF IsOpenTailNeutral(since) THEN tail.open ELSE HasOpenAssignment(copy)
  BY DEF JudgeTail
<1>3. JudgeTail(tail, copy).checked = Len(copy) BY DEF JudgeTail
<1>4. ASSUME IsOpenTailNeutral(since) PROVE HasOpenAssignment(before) = HasOpenAssignment(copy)
  <2> HIDE DEF m
  <2>1. /\ before \in Seq(S) /\ Len(before) = m /\ \A k \in 1..m : before[k] = copy[k] BY <1>1
  <2>2. /\ DOMAIN since = 1..(Len(copy) - m)
        /\ \A k \in 1..(Len(copy) - m) : since[k] = copy[m + k]
    BY <1>1
  <2>3. \A k \in (m + 1)..Len(copy) : copy[k] \in Whitespace
    <3> TAKE k \in (m + 1)..Len(copy)
    <3>1. k - m \in 1..(Len(copy) - m) /\ m + (k - m) = k BY <1>1
    <3>2. since[k - m] = copy[k] /\ k - m \in DOMAIN since BY <2>2, <3>1
    <3> HIDE DEF since
    <3>3. since[k - m] \in Range(since) BY <3>2 DEF Range
    <3> QED BY <1>4, <3>2, <3>3 DEF IsOpenTailNeutral
  <2> HIDE DEF before
  <2>4. (m + 1)..Len(before) = {} BY <1>1, <2>1
  <2>5. SameText(before, copy, m)
    <3>1. m <= Len(before) /\ m <= Len(copy) BY <1>1, <2>1
    <3> QED BY <2>1, <2>3, <2>4, <3>1 DEF SameText
  <2> QED BY <1>1, <2>1, <2>5, SameAnswer
<1>5. JudgeTail(tail, copy).open = HasOpenAssignment(copy)
  <2> HIDE DEF before, since
  <2> QED BY <1>1, <1>2, <1>4
<1>6. SubSeq(copy, 1, Len(copy)) = copy BY SubSeqFull
<1>7. Len(copy) \in 0..Len(copy) BY <1>1
<1> QED BY <1>3, <1>5, <1>6, <1>7 DEF AnswersFor

(* A unit's first answer is that for nothing.                              *)
LEMMA NewTailAnswers ==
  ASSUME NEW S, NEW copy \in Seq(S)
  PROVE  AnswersFor(NewTail, copy)
<1>1. NewTail.checked = 0 /\ NewTail.open = FALSE BY DEF NewTail
<1>2. SubSeq(copy, 1, 0) = <<>> BY SubSeqEmpty
<1>3. <<>> \in Seq(S) /\ Len(<<>>) = 0 OBVIOUS
<1>4. SolidEnd(<<>>) = 0
  <2>1. SolidEnd(<<>>) \in 0..0 BY <1>3, SolidEndIs
  <2> QED BY <2>1
<1>5. HasOpenAssignment(<<>>) = FALSE BY <1>4 DEF HasOpenAssignment
<1>6. 0 \in 0..Len(copy) OBVIOUS
<1> QED BY <1>1, <1>2, <1>5, <1>6 DEF AnswersFor

(* The answers for a copy are answers when more is appended to it.         *)
LEMMA AnswersStay ==
  ASSUME NEW S, NEW copy \in Seq(S), NEW more \in Seq(S), NEW tail, AnswersFor(tail, copy)
  PROVE  AnswersFor(tail, copy \o more)
<1> DEFINE m == tail.checked
           longer == copy \o more
<1>1. m \in 0..Len(copy) /\ tail.open = HasOpenAssignment(SubSeq(copy, 1, m)) BY DEF AnswersFor
<1>2. Len(longer) = Len(copy) + Len(more) /\ Len(copy) \in Nat /\ Len(more) \in Nat
  BY ConcatProperties
<1>3. SubSeq(longer, 1, m) = SubSeq(copy, 1, m)
  <2>1. CASE m = 0 BY <2>1, SubSeqEmpty
  <2>2. CASE m # 0
    <3>1. 1 \in 1..Len(copy) /\ m \in 1..Len(copy) BY <1>1, <1>2, <2>2
    <3> HIDE DEF m
    <3> QED BY <3>1, SubSeqOfConcat1
  <2> QED BY <2>1, <2>2
<1>4. m \in 0..Len(longer)
  <2> HIDE DEF m, longer
  <2> QED BY <1>1, <1>2
<1> QED BY <1>1, <1>3, <1>4 DEF AnswersFor

------------------------------------------------------------------------------
(* The delimiters of private keys.                                         *)

(* A literal stands at an offset when its bytes do.                        *)
Stands(bytes, at, literal) ==
  at + Len(literal) <= Len(bytes) /\ \A k \in 1..Len(literal) : bytes[at + k] = literal[k]

LEMMA StartsWithIs ==
  ASSUME NEW S, NEW bytes \in Seq(S), NEW at \in Nat, NEW T, NEW literal \in Seq(T),
         Len(literal) # 0
  PROVE  StartsWith(bytes, at, literal) <=> Stands(bytes, at, literal)
<1> DEFINE n == Len(bytes)
           m == Len(literal)
           end == Lesser(at + m, n)
           cut == SubSeq(bytes, at + 1, end)
<1>1. n \in Nat /\ m \in Nat /\ m >= 1 /\ end \in Nat /\ end <= n /\ end <= at + m
      /\ (at + m <= n => end = at + m)
  BY DEF Lesser
<1> HIDE DEF end
<1>2. CASE at + m <= n
  <2>0. end = at + m /\ at + 1 >= 1 BY <1>1, <1>2
  <2>1. /\ cut \in Seq(S) /\ Len(cut) = m /\ \A k \in 1..m : cut[k] = bytes[at + k]
    BY <1>1, <1>2, <2>0
  <2>2. cut = literal <=> \A k \in 1..m : cut[k] = literal[k]
    <3> HIDE DEF cut
    <3>1. ASSUME \A k \in 1..m : cut[k] = literal[k] PROVE cut = literal
      BY <2>1, <3>1, SeqEqual
    <3> QED BY <3>1
  <2> QED BY <1>2, <2>1, <2>2 DEF StartsWith, Stands, end
<1>3. CASE ~(at + m <= n)
  <2>1. Len(cut) # m
    <3>1. CASE at + 1 <= end
      <4>1. Len(cut) = end - at BY <1>1, <3>1
      <4> HIDE DEF cut
      <4> QED BY <1>1, <1>3, <4>1
    <3>2. CASE ~(at + 1 <= end)
      <4>1. cut = <<>> BY <1>1, <3>2, SubSeqEmpty
      <4> HIDE DEF cut
      <4>2. Len(cut) = 0 BY <4>1
      <4> QED BY <1>1, <4>2
    <3> QED BY <3>1, <3>2
  <2>2. cut # literal BY <2>1
  <2> QED BY <1>3, <2>2 DEF StartsWith, Stands, end
<1> QED BY <1>2, <1>3

LEMMA DashesIs ==
  ASSUME DelimiterConstants
  PROVE  /\ Dashes \in Seq({"-"}) /\ Len(Dashes) = DashRun
         /\ \A k \in 1..DashRun : Dashes[k] = "-"
BY DEF DelimiterConstants, Dashes

(* A run of dashes.                                                        *)
DashesAt(bytes, at) ==
  at + DashRun <= Len(bytes) /\ \A k \in 1..DashRun : bytes[at + k] = "-"

LEMMA DashesStand ==
  ASSUME DelimiterConstants, NEW S, NEW bytes \in Seq(S), NEW at \in Nat
  PROVE  StartsWith(bytes, at, Dashes) <=> DashesAt(bytes, at)
<1>1. /\ Dashes \in Seq({"-"}) /\ Len(Dashes) = DashRun /\ DashRun # 0
      /\ \A k \in 1..DashRun : Dashes[k] = "-"
  BY DashesIs DEF DelimiterConstants
<1>2. StartsWith(bytes, at, Dashes) <=> Stands(bytes, at, Dashes) BY <1>1, StartsWithIs
<1> QED BY <1>1, <1>2 DEF Stands, DashesAt

(* What a delimiter of a kind and a label is, byte by byte.                *)
DelimiterStands(bytes, at, kind, label) ==
  /\ at + (2 * DashRun + 1 + Len(label)) <= Len(bytes)
  /\ \A k \in 1..DashRun : bytes[at + k] = "-"
  /\ bytes[at + (DashRun + 1)] = kind
  /\ \A k \in 1..Len(label) : bytes[at + (DashRun + 1 + k)] = label[k]
  /\ \A k \in 1..DashRun : bytes[at + (DashRun + 1 + Len(label) + k)] = "-"

SpellsOut(whole, kind, label) ==
  /\ \E T : whole \in Seq(T)
  /\ Len(whole) = 2 * DashRun + 1 + Len(label)
  /\ \A k \in 1..DashRun : whole[k] = "-"
  /\ whole[DashRun + 1] = kind
  /\ \A k \in 1..Len(label) : whole[DashRun + 1 + k] = label[k]
  /\ \A k \in 1..DashRun : whole[DashRun + 1 + Len(label) + k] = "-"

LEMMA DelimiterBytes ==
  ASSUME DelimiterConstants, NEW kind, NEW label \in Labels,
         NEW whole, whole = Dashes \o <<kind>> \o label \o Dashes
  PROVE  SpellsOut(whole, kind, label)
<1> DEFINE T == {"-", kind} \cup Range(label)
           D == DashRun
           L == Len(label)
           p == Dashes \o <<kind>>
           q == p \o label
<1>1. Dashes \in Seq({"-"}) /\ Len(Dashes) = D /\ \A k \in 1..D : Dashes[k] = "-" BY DashesIs
<1>2. Dashes \in Seq(T)
  <2>1. {"-"} \subseteq T OBVIOUS
  <2> HIDE DEF T
  <2> QED BY <1>1, <2>1, SeqMonotonic
<1>3. label \in Seq(T) /\ L \in Nat
  <2>1. label \in Seq(Range(label)) BY DEF DelimiterConstants
  <2>2. Range(label) \subseteq T OBVIOUS
  <2> HIDE DEF T
  <2> QED BY <2>1, <2>2, SeqMonotonic
<1>4. <<kind>> \in Seq(T) /\ Len(<<kind>>) = 1 /\ <<kind>>[1] = kind
  <2>1. kind \in T OBVIOUS
  <2> HIDE DEF T
  <2> QED BY <2>1
<1>5. D \in Nat \ {0} BY DEF DelimiterConstants
<1> HIDE DEF T
<1>6. /\ p \in Seq(T) /\ Len(p) = Len(Dashes) + Len(<<kind>>)
      /\ \A i \in 1..(Len(Dashes) + Len(<<kind>>)) :
           p[i] = IF i <= Len(Dashes) THEN Dashes[i] ELSE <<kind>>[i - Len(Dashes)]
  BY <1>2, <1>4, ConcatProperties, Zenon
<1>7. Len(p) = D + 1 /\ (\A k \in 1..D : p[k] = "-") /\ p[D + 1] = kind
  <2> HIDE DEF p, D
  <2>1. Len(p) = D + 1 BY <1>1, <1>4, <1>6
  <2>2. \A i \in 1..(D + 1) : p[i] = IF i <= D THEN Dashes[i] ELSE <<kind>>[i - D]
    BY <1>1, <1>4, <1>6, <1>5
  <2>3. D + 1 \in 1..(D + 1) /\ ~(D + 1 <= D) /\ (D + 1) - D = 1 BY <1>5
  <2>4. p[D + 1] = kind BY <2>2, <2>3, <1>4
  <2>5. \A k \in 1..D : p[k] = "-" BY <1>1, <1>5, <2>2
  <2> QED BY <2>1, <2>4, <2>5
<1>9. whole = q \o Dashes OBVIOUS
<1> HIDE DEF p
<1>8. /\ q \in Seq(T) /\ Len(q) = Len(p) + Len(label)
      /\ \A i \in 1..(Len(p) + Len(label)) :
           q[i] = IF i <= Len(p) THEN p[i] ELSE label[i - Len(p)]
  <2>1. p \in Seq(T) /\ label \in Seq(T) BY <1>3, <1>6
  <2> QED BY <2>1, ConcatProperties
<1> HIDE DEF q
<1>10. /\ whole \in Seq(T) /\ Len(whole) = Len(q) + Len(Dashes)
       /\ \A i \in 1..(Len(q) + Len(Dashes)) :
            whole[i] = IF i <= Len(q) THEN q[i] ELSE Dashes[i - Len(q)]
  <2>1. q \in Seq(T) BY <1>8
  <2> QED BY <1>2, <1>9, <2>1, ConcatProperties
<1> HIDE DEF D, L
<1>11. /\ Len(q) = D + 1 + L /\ Len(whole) = 2 * D + 1 + L
       /\ \A i \in 1..(D + 1 + L) : q[i] = IF i <= D + 1 THEN p[i] ELSE label[i - (D + 1)]
       /\ \A i \in 1..(2 * D + 1 + L) :
            whole[i] = IF i <= D + 1 + L THEN q[i] ELSE Dashes[i - (D + 1 + L)]
  <2>1. Len(label) = L BY DEF L
  <2>2. Len(q) = D + 1 + L BY <1>7, <1>8, <2>1
  <2>3. Len(whole) = 2 * D + 1 + L BY <1>1, <1>3, <1>5, <1>10, <2>2
  <2>4. \A i \in 1..(D + 1 + L) : q[i] = IF i <= D + 1 THEN p[i] ELSE label[i - (D + 1)]
    BY <1>7, <1>8, <2>1
  <2>5. Len(q) + Len(Dashes) = 2 * D + 1 + L BY <1>1, <1>3, <1>5, <2>2
  <2>6. \A i \in 1..(2 * D + 1 + L) :
          whole[i] = IF i <= D + 1 + L THEN q[i] ELSE Dashes[i - (D + 1 + L)]
    BY <1>10, <2>2, <2>5
  <2> QED BY <2>2, <2>3, <2>4, <2>6
<1>12. \A k \in 1..D : whole[k] = "-"
  <2> TAKE k \in 1..D
  <2>1. k \in 1..(2 * D + 1 + L) /\ k <= D + 1 + L /\ k \in 1..(D + 1 + L) /\ k <= D + 1
    BY <1>3, <1>5
  <2> QED BY <1>7, <1>11, <2>1
<1>13. whole[D + 1] = kind
  <2>1. D + 1 \in 1..(2 * D + 1 + L) /\ D + 1 <= D + 1 + L /\ D + 1 \in 1..(D + 1 + L)
        /\ D + 1 <= D + 1
    BY <1>3, <1>5
  <2> QED BY <1>7, <1>11, <2>1
<1>14. \A k \in 1..L : whole[D + 1 + k] = label[k]
  <2> TAKE k \in 1..L
  <2>1. /\ D + 1 + k \in 1..(2 * D + 1 + L) /\ D + 1 + k <= D + 1 + L
        /\ D + 1 + k \in 1..(D + 1 + L) /\ ~(D + 1 + k <= D + 1) /\ (D + 1 + k) - (D + 1) = k
    BY <1>3, <1>5
  <2> QED BY <1>11, <2>1
<1>15. \A k \in 1..D : whole[D + 1 + L + k] = "-"
  <2> TAKE k \in 1..D
  <2>1. /\ D + 1 + L + k \in 1..(2 * D + 1 + L) /\ ~(D + 1 + L + k <= D + 1 + L)
        /\ (D + 1 + L + k) - (D + 1 + L) = k
    BY <1>3, <1>5
  <2> QED BY <1>1, <1>11, <2>1
<1> QED BY <1>10, <1>11, <1>12, <1>13, <1>14, <1>15 DEF D, L, SpellsOut

(* The parts of a delimiter lie within it.                                 *)
LEMMA PartsWithin ==
  ASSUME NEW D \in Nat \ {0}, NEW L \in Nat
  PROVE  /\ \A k \in 1..D : k \in 1..(2 * D + 1 + L)
         /\ D + 1 \in 1..(2 * D + 1 + L)
         /\ \A k \in 1..L : D + 1 + k \in 1..(2 * D + 1 + L)
         /\ \A k \in 1..D : D + 1 + L + k \in 1..(2 * D + 1 + L)
<1>1. \A k \in 1..D : k \in 1..(2 * D + 1 + L) OBVIOUS
<1>2. D + 1 \in 1..(2 * D + 1 + L) OBVIOUS
<1>3. \A k \in 1..L : D + 1 + k \in 1..(2 * D + 1 + L) OBVIOUS
<1>4. \A k \in 1..D : D + 1 + L + k \in 1..(2 * D + 1 + L) OBVIOUS
<1> QED BY <1>1, <1>2, <1>3, <1>4

(* It stands where a text has its bytes.                                   *)
LEMMA DelimiterIs ==
  ASSUME DelimiterConstants, NEW S, NEW bytes \in Seq(S), NEW at \in Nat,
         NEW kind, NEW label \in Labels
  PROVE  StartsWith(bytes, at, Dashes \o <<kind>> \o label \o Dashes)
           <=> DelimiterStands(bytes, at, kind, label)
<1> DEFINE whole == Dashes \o <<kind>> \o label \o Dashes
           D == DashRun
           L == Len(label)
<1>0. whole = Dashes \o <<kind>> \o label \o Dashes OBVIOUS
<1> HIDE DEF whole
<1>1. /\ \E T : whole \in Seq(T)
      /\ Len(whole) = 2 * D + 1 + L
      /\ \A k \in 1..D : whole[k] = "-"
      /\ whole[D + 1] = kind
      /\ \A k \in 1..L : whole[D + 1 + k] = label[k]
      /\ \A k \in 1..D : whole[D + 1 + L + k] = "-"
  <2>1. SpellsOut(whole, kind, label) BY <1>0, DelimiterBytes
  <2> QED BY <2>1, Zenon DEF SpellsOut
<1>2. D \in Nat \ {0} /\ L \in Nat BY DEF DelimiterConstants
<1> HIDE DEF D, L
<1>3. Len(whole) # 0 BY <1>1, <1>2
<1>4. StartsWith(bytes, at, whole) <=> Stands(bytes, at, whole) BY <1>1, <1>3, StartsWithIs
<1>5. ASSUME Stands(bytes, at, whole)
      PROVE  /\ \A k \in 1..D : bytes[at + k] = "-"
             /\ bytes[at + (D + 1)] = kind
             /\ \A k \in 1..L : bytes[at + (D + 1 + k)] = label[k]
             /\ \A k \in 1..D : bytes[at + (D + 1 + L + k)] = "-"
  <2>1. \A k \in 1..(2 * D + 1 + L) : bytes[at + k] = whole[k] BY <1>1, <1>5 DEF Stands
  <2>2. /\ \A k \in 1..D : k \in 1..(2 * D + 1 + L)
        /\ D + 1 \in 1..(2 * D + 1 + L)
        /\ \A k \in 1..L : D + 1 + k \in 1..(2 * D + 1 + L)
        /\ \A k \in 1..D : D + 1 + L + k \in 1..(2 * D + 1 + L)
    BY <1>2, PartsWithin, Zenon
  <2> QED BY <1>1, <2>1, <2>2
<1>6. ASSUME /\ \A k \in 1..D : bytes[at + k] = "-"
             /\ bytes[at + (D + 1)] = kind
             /\ \A k \in 1..L : bytes[at + (D + 1 + k)] = label[k]
             /\ \A k \in 1..D : bytes[at + (D + 1 + L + k)] = "-"
      PROVE  \A k \in 1..(2 * D + 1 + L) : bytes[at + k] = whole[k]
  <2> TAKE k \in 1..(2 * D + 1 + L)
  <2>1. CASE k \in 1..D BY <1>1, <1>6, <2>1
  <2>2. CASE k = D + 1 BY <1>1, <1>6, <2>2
  <2>3. CASE k \in (D + 2)..(D + 1 + L)
    <3>1. k - (D + 1) \in 1..L /\ D + 1 + (k - (D + 1)) = k BY <1>2, <2>3
    <3> QED BY <1>1, <1>6, <3>1
  <2>4. CASE k \in (D + 2 + L)..(2 * D + 1 + L)
    <3>1. k - (D + 1 + L) \in 1..D /\ D + 1 + L + (k - (D + 1 + L)) = k BY <1>2, <2>4
    <3> QED BY <1>1, <1>6, <3>1
  <2>5. k \in 1..D \/ k = D + 1 \/ k \in (D + 2)..(D + 1 + L) \/ k \in (D + 2 + L)..(2 * D + 1 + L)
    BY <1>2
  <2> QED BY <2>1, <2>2, <2>3, <2>4, <2>5
<1>7. Stands(bytes, at, whole) <=>
        at + (2 * D + 1 + L) <= Len(bytes)
          /\ \A k \in 1..(2 * D + 1 + L) : bytes[at + k] = whole[k]
  BY <1>1 DEF Stands
<1>8. DelimiterStands(bytes, at, kind, label) <=>
        /\ at + (2 * D + 1 + L) <= Len(bytes)
        /\ \A k \in 1..D : bytes[at + k] = "-"
        /\ bytes[at + (D + 1)] = kind
        /\ \A k \in 1..L : bytes[at + (D + 1 + k)] = label[k]
        /\ \A k \in 1..D : bytes[at + (D + 1 + L + k)] = "-"
  BY Zenon DEF DelimiterStands, D, L
<1>9. StartsWith(bytes, at, whole) <=> DelimiterStands(bytes, at, kind, label)
  BY <1>4, <1>5, <1>6, <1>7, <1>8
<1> QED BY <1>9 DEF whole

Delimiter(at, kind, label) ==
  [kind |-> kind, label |-> label, start |-> at, end |-> at + 2 * DashRun + 1 + Len(label)]

LEMMA DelimitersAre ==
  ASSUME DelimiterConstants, NEW S, NEW bytes \in Seq(S), NEW at \in Nat
  PROVE  \A d : d \in DelimitersAt(bytes, at) <=>
           \E kind \in {"b", "e"}, label \in Labels :
             d = Delimiter(at, kind, label) /\ DelimiterStands(bytes, at, kind, label)
<1> DEFINE Are == {Delimiter(at, kind, label) : kind \in {"b", "e"}, label \in Labels}
           StartsAt(kind, label) == StartsWith(bytes, at, Dashes \o <<kind>> \o label \o Dashes)
<1>1. \A d : d \in DelimitersAt(bytes, at) <=> d \in Are /\ StartsAt(d.kind, d.label)
  BY DEF DelimitersAt, Delimiter
<1>2. \A d : d \in Are <=> \E kind \in {"b", "e"}, label \in Labels : d = Delimiter(at, kind, label)
  OBVIOUS
<1>3. \A kind, label : Delimiter(at, kind, label).kind = kind
                       /\ Delimiter(at, kind, label).label = label
  BY DEF Delimiter
<1>4. \A kind \in {"b", "e"}, label \in Labels :
        StartsAt(kind, label) <=> DelimiterStands(bytes, at, kind, label)
  BY DelimiterIs
<1> HIDE DEF Are, StartsAt
<1>5. ASSUME NEW d, d \in DelimitersAt(bytes, at)
      PROVE  \E kind \in {"b", "e"}, label \in Labels :
               d = Delimiter(at, kind, label) /\ DelimiterStands(bytes, at, kind, label)
  <2>1. PICK kind \in {"b", "e"}, label \in Labels : d = Delimiter(at, kind, label)
    BY <1>1, <1>2, <1>5
  <2>2. StartsAt(kind, label) BY <1>1, <1>3, <1>5, <2>1
  <2> QED BY <1>4, <2>1, <2>2
<1>6. ASSUME NEW kind \in {"b", "e"}, NEW label \in Labels, DelimiterStands(bytes, at, kind, label)
      PROVE  Delimiter(at, kind, label) \in DelimitersAt(bytes, at)
  <2>1. StartsAt(kind, label) /\ Delimiter(at, kind, label) \in Are BY <1>2, <1>4, <1>6
  <2> QED BY <1>1, <1>3, <2>1
<1> QED BY <1>5, <1>6

LEMMA LongestLabel ==
  ASSUME DelimiterConstants
  PROVE  /\ MAX_DELIMITER_LEN \in Nat \ {0}
         /\ \A label \in Labels : Len(label) \in Nat
                                  /\ 2 * DashRun + 1 + Len(label) <= MAX_DELIMITER_LEN
<1> DEFINE LabelLengths == {Len(label) : label \in Labels}
           IsMax(x) == \A y \in LabelLengths : x >= y
<1>1. \A label \in Labels : Len(label) \in Nat BY DEF DelimiterConstants
<1>2. DashRun \in Nat \ {0} BY DEF DelimiterConstants
<1>3. PICK label \in Labels : \A other \in Labels : Len(other) <= Len(label)
  BY DEF DelimiterConstants
<1>4. Len(label) \in LabelLengths /\ IsMax(Len(label)) BY <1>1, <1>3
<1>5. Max(LabelLengths) = CHOOSE x \in LabelLengths : IsMax(x) BY DEF Max
<1>6. Max(LabelLengths) \in LabelLengths /\ IsMax(Max(LabelLengths))
  <2> HIDE DEF LabelLengths, IsMax
  <2> QED BY <1>4, <1>5
<1> DEFINE longest == Max(LabelLengths)
<1>7. longest \in Nat /\ \A other \in Labels : Len(other) <= longest
  <2>1. longest \in Nat BY <1>1, <1>6
  <2>2. \A other \in Labels : longest >= Len(other) BY <1>6
  <2> HIDE DEF longest
  <2> QED BY <1>1, <2>1, <2>2
<1>8. MAX_DELIMITER_LEN = 2 * DashRun + 1 + longest BY DEF MAX_DELIMITER_LEN
<1> HIDE DEF longest
<1> QED BY <1>1, <1>2, <1>7, <1>8

(* Where a delimiter lies and how long it is.                              *)
LEMMA DelimiterFacts ==
  ASSUME DelimiterConstants, NEW S, NEW bytes \in Seq(S), NEW at \in Nat,
         NEW d \in DelimitersAt(bytes, at)
  PROVE  /\ d.start = at /\ d.end \in Nat /\ at < d.end /\ d.end <= Len(bytes)
         /\ d.end - at <= MAX_DELIMITER_LEN /\ bytes[at + 1] = "-" /\ DashesAt(bytes, at)
         /\ d = [kind |-> d.kind, label |-> d.label, start |-> d.start, end |-> d.end]
<1>1. PICK kind \in {"b", "e"}, label \in Labels :
        d = Delimiter(at, kind, label) /\ DelimiterStands(bytes, at, kind, label)
  BY DelimitersAre
<1>2. /\ d.start = at /\ d.end = at + 2 * DashRun + 1 + Len(label)
      /\ d = [kind |-> d.kind, label |-> d.label, start |-> d.start, end |-> d.end]
  BY <1>1 DEF Delimiter
<1>3. /\ at + (2 * DashRun + 1 + Len(label)) <= Len(bytes)
      /\ \A k \in 1..DashRun : bytes[at + k] = "-"
  BY <1>1 DEF DelimiterStands
<1>4. /\ DashRun \in Nat \ {0} /\ Len(label) \in Nat /\ MAX_DELIMITER_LEN \in Nat
      /\ 2 * DashRun + 1 + Len(label) <= MAX_DELIMITER_LEN
  BY LongestLabel DEF DelimiterConstants
<1>5. Len(bytes) \in Nat OBVIOUS
<1>6. bytes[at + 1] = "-"
  <2>1. 1 \in 1..DashRun BY <1>4
  <2> QED BY <1>3, <2>1
<1>7. at + DashRun <= Len(bytes) BY <1>3, <1>4, <1>5
<1>8. DashesAt(bytes, at) BY <1>3, <1>7 DEF DashesAt
<1>9. d.end \in Nat /\ at < d.end /\ d.end <= Len(bytes) /\ d.end - at <= MAX_DELIMITER_LEN
  <2>1. d.end = at + (2 * DashRun + 1 + Len(label)) BY <1>2, <1>4
  <2> HIDE DEF MAX_DELIMITER_LEN
  <2> QED BY <1>3, <1>4, <1>5, <2>1
<1> QED BY <1>2, <1>6, <1>8, <1>9

(* No two delimiters start at one offset: labels have no dashes.           *)
LEMMA OneDelimiter ==
  ASSUME DelimiterConstants, NEW S, NEW bytes \in Seq(S), NEW at \in Nat,
         NEW d \in DelimitersAt(bytes, at), NEW e \in DelimitersAt(bytes, at)
  PROVE  d = e
<1>1. PICK kd \in {"b", "e"}, ld \in Labels :
        d = Delimiter(at, kd, ld) /\ DelimiterStands(bytes, at, kd, ld)
  BY DelimitersAre
<1>2. PICK ke \in {"b", "e"}, le \in Labels :
        e = Delimiter(at, ke, le) /\ DelimiterStands(bytes, at, ke, le)
  BY DelimitersAre
<1>3. kd = ke BY <1>1, <1>2 DEF DelimiterStands
<1> DEFINE D == DashRun
<1>4. ASSUME NEW l \in Labels, NEW m \in Labels, NEW k,
             DelimiterStands(bytes, at, k, l), DelimiterStands(bytes, at, k, m), Len(l) < Len(m)
      PROVE  FALSE
  <2>1. /\ D \in Nat \ {0} /\ Len(l) \in Nat /\ Len(m) \in Nat
        /\ m \in Seq(Range(m)) /\ "-" \notin Range(m)
    BY LongestLabel DEF DelimiterConstants
  <2>2. Len(l) + 1 \in 1..Len(m) /\ 1 \in 1..D BY <1>4, <2>1
  <2>3. bytes[at + (D + 1 + (Len(l) + 1))] = m[Len(l) + 1] BY <1>4, <2>2 DEF DelimiterStands
  <2>4. bytes[at + (D + 1 + Len(l) + 1)] = "-" BY <1>4, <2>2 DEF DelimiterStands
  <2>5. at + (D + 1 + (Len(l) + 1)) = at + (D + 1 + Len(l) + 1) BY <2>1
  <2>6. m[Len(l) + 1] \in Range(m) BY <2>1, <2>2 DEF Range
  <2> QED BY <2>1, <2>3, <2>4, <2>5, <2>6
<1>5. Len(ld) = Len(le)
  <2>1. Len(ld) \in Nat /\ Len(le) \in Nat BY LongestLabel
  <2>2. ~(Len(ld) < Len(le)) BY <1>1, <1>2, <1>3, <1>4
  <2>3. ~(Len(le) < Len(ld)) BY <1>1, <1>2, <1>3, <1>4
  <2> QED BY <2>1, <2>2, <2>3
<1>6. ld = le
  <2>1. \A k \in 1..Len(ld) : ld[k] = le[k] BY <1>1, <1>2, <1>5 DEF DelimiterStands
  <2>2. ld \in Seq(Range(ld) \cup Range(le)) /\ le \in Seq(Range(ld) \cup Range(le))
    <3>1. ld \in Seq(Range(ld)) /\ le \in Seq(Range(le)) BY DEF DelimiterConstants
    <3>2. Range(ld) \subseteq Range(ld) \cup Range(le) /\ Range(le) \subseteq Range(ld) \cup Range(le)
      OBVIOUS
    <3> QED BY <3>1, <3>2, SeqMonotonic
  <2> QED BY <1>5, <2>1, <2>2, SeqEqual
<1> QED BY <1>1, <1>2, <1>3, <1>6

(* A delimiter is matched by its own bytes alone: where they stand in      *)
(* another text, it does.                                                  *)
LEMMA DelimiterMoves ==
  ASSUME DelimiterConstants, NEW S, NEW a \in Seq(S), NEW b \in Seq(S), NEW by \in Int,
         NEW at \in Nat, by + at \in Nat, NEW d \in DelimitersAt(a, at), by + d.end <= Len(b),
         \A k \in (at + 1)..d.end : b[by + k] = a[k]
  PROVE  Moved(d, by) \in DelimitersAt(b, by + at)
<1> DEFINE D == DashRun
<1>1. PICK kind \in {"b", "e"}, label \in Labels :
        d = Delimiter(at, kind, label) /\ DelimiterStands(a, at, kind, label)
  BY DelimitersAre
<1> DEFINE L == Len(label)
<1>2. /\ D \in Nat \ {0} /\ L \in Nat /\ Len(a) \in Nat /\ Len(b) \in Nat
  BY LongestLabel DEF DelimiterConstants
<1>3. d.end = at + 2 * D + 1 + L BY <1>1 DEF Delimiter
<1>4. /\ \A k \in 1..D : a[at + k] = "-"
      /\ a[at + (D + 1)] = kind
      /\ \A k \in 1..L : a[at + (D + 1 + k)] = label[k]
      /\ \A k \in 1..D : a[at + (D + 1 + L + k)] = "-"
  BY <1>1 DEF DelimiterStands
<1> HIDE DEF D, L
<1>5. \A k \in 1..(2 * D + 1 + L) : b[(by + at) + k] = a[at + k]
  <2> TAKE k \in 1..(2 * D + 1 + L)
  <2>1. at + k \in (at + 1)..d.end /\ by + (at + k) = (by + at) + k BY <1>2, <1>3
  <2> QED BY <2>1
<1>6. /\ (by + at) + (2 * D + 1 + L) <= Len(b)
      /\ \A k \in 1..D : b[(by + at) + k] = "-"
      /\ b[(by + at) + (D + 1)] = kind
      /\ \A k \in 1..L : b[(by + at) + (D + 1 + k)] = label[k]
      /\ \A k \in 1..D : b[(by + at) + (D + 1 + L + k)] = "-"
  <2>1. /\ \A k \in 1..D : k \in 1..(2 * D + 1 + L)
        /\ D + 1 \in 1..(2 * D + 1 + L)
        /\ \A k \in 1..L : D + 1 + k \in 1..(2 * D + 1 + L)
        /\ \A k \in 1..D : D + 1 + L + k \in 1..(2 * D + 1 + L)
    BY <1>2, PartsWithin, Zenon
  <2>2. (by + at) + (2 * D + 1 + L) <= Len(b) BY <1>2, <1>3
  <2> QED BY <1>4, <1>5, <2>1, <2>2
<1>7. DelimiterStands(b, by + at, kind, label) BY <1>6, Zenon DEF DelimiterStands, D, L
<1>8. Moved(d, by) = Delimiter(by + at, kind, label)
  <2>1. by + (at + 2 * D + 1 + L) = (by + at) + 2 * D + 1 + L BY <1>2
  <2>2. d.kind = kind /\ d.label = label /\ d.start = at /\ d.end = at + 2 * D + 1 + L
    BY <1>1 DEF Delimiter, D, L
  <2>3. Delimiter(by + at, kind, label)
          = [kind |-> kind, label |-> label, start |-> by + at, end |-> (by + at) + 2 * D + 1 + L]
    BY DEF Delimiter, D, L
  <2> QED BY <2>1, <2>2, <2>3, Zenon DEF Moved
<1> QED BY <1>7, <1>8, DelimitersAre

(* The first run of dashes at or behind an offset, or none.                *)
IsFirstRun(bytes, from, run) ==
  \/ run = Nowhere /\ \A at \in Nat : at >= from => ~DashesAt(bytes, at)
  \/ /\ run \in Nat /\ run >= from /\ DashesAt(bytes, run)
     /\ \A at \in Nat : at >= from /\ at < run => ~DashesAt(bytes, at)

(* Among as many consecutive offsets as a run is long there is a sample.   *)
LEMMA SampleWithin ==
  ASSUME NEW D \in Nat \ {0}, NEW x \in Nat
  PROVE  \E n \in Nat \ {0} : n * D - 1 \in x..(x + D - 1) /\ n <= x + 1
<1> DEFINE P == {y \in Nat : \E n \in Nat \ {0} : n * D - 1 \in y..(y + D - 1) /\ n <= y + 1}
<1>1. 0 \in P
  <2>1. 1 * D - 1 \in 0..(0 + D - 1) /\ 1 <= 0 + 1 OBVIOUS
  <2> QED BY <2>1
<1>2. ASSUME NEW y \in P PROVE y + 1 \in P
  <2>1. PICK n \in Nat \ {0} : n * D - 1 \in y..(y + D - 1) /\ n <= y + 1 OBVIOUS
  <2>2. CASE n * D - 1 = y
    <3>1. (n + 1) * D = n * D + D OBVIOUS
    <3>2. (n + 1) * D - 1 = y + D BY <2>2, <3>1
    <3>3. y + D \in (y + 1)..((y + 1) + D - 1) /\ n + 1 \in Nat \ {0} /\ n + 1 <= (y + 1) + 1
      BY <2>1
    <3>4. y + 1 \in Nat BY <2>1
    <3> QED BY <3>2, <3>3, <3>4, Zenon
  <2>3. CASE n * D - 1 # y
    <3> DEFINE s == n * D - 1
    <3>1. s \in y..(y + D - 1) /\ s # y BY <2>1, <2>3
    <3> HIDE DEF s
    <3>2. s \in (y + 1)..((y + 1) + D - 1) /\ n <= (y + 1) + 1 BY <2>1, <3>1
    <3>3. y + 1 \in Nat BY <2>1
    <3> QED BY <3>2, <3>3, Zenon DEF s
  <2> QED BY <2>2, <2>3
<1>3. P = Nat
  <2>1. P \subseteq Nat OBVIOUS
  <2> HIDE DEF P
  <2> QED BY <1>1, <1>2, <2>1, StepsReachAll
<1>4. x \in P
  <2> HIDE DEF P
  <2> QED BY <1>3
<1> QED BY <1>4, Zenon

LEMMA StridedIs ==
  ASSUME DelimiterConstants, NEW S, NEW bytes \in Seq(S), NEW from \in Nat
  PROVE  IsFirstRun(bytes, from, NextDashRunStrided(bytes, from))
<1> DEFINE D == DashRun
           N == Len(bytes)
           sampled == {at \in {from + n * D - 1 : n \in 1..N} : at < N /\ bytes[at + 1] = "-"}
           dashes(a, b) == \A at \in a..b : bytes[at + 1] = "-"
           start(at) == Min({a \in from..at : dashes(a, at)})
           end(at) == Max({b \in at..(N - 1) : dashes(at, b)}) + 1
           Long == {at \in sampled : end(at) - start(at) >= D}
           starts == {start(at) : at \in Long}
<1>0. NextDashRunStrided(bytes, from) = IF starts = {} THEN Nowhere ELSE Min(starts)
  BY DEF NextDashRunStrided, FirstOr
<1>1. D \in Nat \ {0} /\ N \in Nat /\ Nowhere \notin Nat BY DEF DelimiterConstants
<1>2. ASSUME NEW at \in sampled
      PROVE  /\ at \in from..(N - 1) /\ at \in Nat
             /\ start(at) \in from..at /\ dashes(start(at), at)
             /\ \A a \in from..at : dashes(a, at) => start(at) <= a
             /\ end(at) \in (at + 1)..N /\ dashes(at, end(at) - 1)
             /\ \A b \in at..(N - 1) : dashes(at, b) => b < end(at)
  <2>1. PICK n \in 1..N : at = from + n * D - 1 OBVIOUS
  <2>2. at \in from..(N - 1) /\ at \in Nat /\ bytes[at + 1] = "-"
    <3>1. n * D >= 1 /\ n * D \in Nat BY <1>1
    <3> QED BY <1>1, <2>1, <3>1
  <2> DEFINE lefts == {a \in from..at : dashes(a, at)}
             rights == {b \in at..(N - 1) : dashes(at, b)}
  <2>3. dashes(at, at) BY <2>2
  <2>4. at \in lefts /\ at \in rights /\ lefts \in SUBSET Nat /\ rights \in SUBSET (0..(N - 1))
    BY <2>2, <2>3, <1>1
  <2>5. N - 1 \in Nat BY <1>1, <2>2
  <2>6. start(at) = Min(lefts) /\ end(at) = Max(rights) + 1 OBVIOUS
  <2> HIDE DEF lefts, rights, start, end
  <2>7. Min(lefts) \in lefts /\ \A y \in lefts : Min(lefts) <= y BY <2>4, MinIs
  <2>8. Max(rights) \in rights /\ \A y \in rights : y <= Max(rights) BY <2>4, <2>5, MaxIs
  <2>9. /\ start(at) \in from..at /\ dashes(start(at), at)
        /\ \A a \in from..at : dashes(a, at) => start(at) <= a
    BY <2>6, <2>7 DEF lefts
  <2> DEFINE m == Max(rights)
  <2>10. m \in at..(N - 1) /\ dashes(at, m) /\ \A b \in at..(N - 1) : dashes(at, b) => b <= m
    BY <2>8 DEF rights
  <2>11. end(at) = m + 1 BY <2>6
  <2> HIDE DEF m
  <2>12. m \in Nat /\ (m + 1) - 1 = m /\ m + 1 \in (at + 1)..N BY <1>1, <2>2, <2>10
  <2>13. \A b \in at..(N - 1) : dashes(at, b) => b < m + 1
    <3> HIDE DEF dashes
    <3> QED BY <2>2, <2>10, <2>12
  <2> HIDE DEF dashes
  <2> QED BY <2>2, <2>9, <2>10, <2>11, <2>12, <2>13
<1> HIDE DEF start, end
<1>3. ASSUME NEW at \in Long
      PROVE  start(at) \in Nat /\ start(at) >= from /\ DashesAt(bytes, start(at))
  <2>1. /\ at \in from..(N - 1) /\ at \in Nat
        /\ start(at) \in from..at /\ dashes(start(at), at)
        /\ end(at) \in (at + 1)..N /\ dashes(at, end(at) - 1) /\ end(at) - start(at) >= D
    BY <1>2
  <2> DEFINE s == start(at)
             e == end(at)
  <2>2. s \in from..at /\ e \in (at + 1)..N /\ e - s >= D BY <2>1
  <2>3. (\A x \in s..at : bytes[x + 1] = "-") /\ (\A x \in at..(e - 1) : bytes[x + 1] = "-")
    BY <2>1
  <2> HIDE DEF s, e
  <2>4. s + D <= N BY <1>1, <2>1, <2>2
  <2>5. \A k \in 1..D : bytes[s + k] = "-"
    <3> TAKE k \in 1..D
    <3>1. s + k - 1 \in s..at \/ s + k - 1 \in at..(e - 1) BY <1>1, <2>1, <2>2
    <3>2. (s + k - 1) + 1 = s + k BY <1>1, <2>1, <2>2
    <3> QED BY <2>3, <3>1, <3>2
  <2>6. s \in Nat /\ s >= from BY <2>1, <2>2
  <2> QED BY <2>4, <2>5, <2>6 DEF DashesAt, s
<1>4. ASSUME NEW at \in Nat, at >= from, DashesAt(bytes, at)
      PROVE  \E x \in Long : start(x) <= at
  <2>1. at + D <= N /\ \A k \in 1..D : bytes[at + k] = "-" BY <1>4 DEF DashesAt
  <2>2. at - from \in Nat BY <1>4
  <2>3. PICK n \in Nat \ {0} : n * D - 1 \in (at - from)..((at - from) + D - 1)
                               /\ n <= (at - from) + 1
    BY <1>1, <2>2, SampleWithin
  <2> DEFINE p == n * D - 1
             x == from + n * D - 1
  <2>4. p \in (at - from)..((at - from) + D - 1) /\ n <= (at - from) + 1 BY <2>3
  <2>5. x = from + p
    <3>1. n * D \in Nat BY <1>1
    <3> QED BY <3>1
  <2>6. n \in 1..N BY <1>1, <1>4, <2>1, <2>3
  <2>7. x \in {from + i * D - 1 : i \in 1..N} BY <2>6
  <2> HIDE DEF x, p
  <2>8. x \in at..(at + D - 1) /\ x \in Nat /\ x < N
    <3>1. x \in at..(at + D - 1) BY <1>1, <1>4, <2>4, <2>5
    <3> QED BY <1>1, <2>1, <3>1
  <2>9. \A y \in at..(at + D - 1) : bytes[y + 1] = "-"
    <3> TAKE y \in at..(at + D - 1)
    <3>1. y + 1 - at \in 1..D /\ at + (y + 1 - at) = y + 1 BY <1>1
    <3> QED BY <2>1, <3>1
  <2>10. x \in sampled BY <2>7, <2>8, <2>9
  <2>11. at \in from..x /\ dashes(at, x)
    <3>1. at \in from..x /\ \A y \in at..x : y \in at..(at + D - 1) BY <1>1, <1>4, <2>8
    <3> QED BY <2>9, <3>1
  <2>12. at + D - 1 \in x..(N - 1) /\ dashes(x, at + D - 1)
    <3>1. at + D - 1 \in x..(N - 1) /\ \A y \in x..(at + D - 1) : y \in at..(at + D - 1)
      BY <1>1, <2>1, <2>8
    <3> QED BY <2>9, <3>1
  <2>13. start(x) <= at /\ at + D - 1 < end(x) /\ start(x) \in from..x /\ end(x) \in (x + 1)..N
    <3> HIDE DEF sampled, dashes
    <3> QED BY <1>2, <2>10, <2>11, <2>12
  <2>14. end(x) - start(x) >= D
    <3> DEFINE s == start(x)
               e == end(x)
    <3>1. s <= at /\ at + D - 1 < e /\ s \in from..x /\ e \in (x + 1)..N BY <2>13
    <3> HIDE DEF s, e
    <3>2. e - s >= D BY <1>1, <2>8, <3>1
    <3> QED BY <3>2 DEF s, e
  <2>15. x \in Long BY <2>10, <2>14
  <2> QED BY <2>13, <2>15
<1>5. CASE starts = {}
  <2>1. Long = {} BY <1>5
  <2>2. \A at \in Nat : at >= from => ~DashesAt(bytes, at)
    <3> HIDE DEF Long
    <3> QED BY <1>4, <2>1
  <2> HIDE DEF starts
  <2> QED BY <1>0, <1>5, <2>2 DEF IsFirstRun
<1>6. CASE starts # {}
  <2>1. starts \in SUBSET Nat BY <1>3
  <2> DEFINE r == Min(starts)
  <2>2. r \in starts /\ \A y \in starts : r <= y
    <3> HIDE DEF starts
    <3> QED BY <1>6, <2>1, MinIs
  <2>3. PICK x \in Long : r = start(x) BY <2>2
  <2>4. r \in Nat /\ r >= from /\ DashesAt(bytes, r) BY <1>3, <2>3
  <2>5. \A at \in Nat : at >= from /\ at < r => ~DashesAt(bytes, at)
    <3> SUFFICES ASSUME NEW at \in Nat, at >= from, at < r, DashesAt(bytes, at) PROVE FALSE OBVIOUS
    <3>1. PICK y \in Long : start(y) <= at BY <1>4
    <3>2. start(y) \in starts /\ start(y) \in Nat BY <1>3
    <3>3. r <= start(y) BY <2>2, <3>2
    <3> HIDE DEF r
    <3> QED BY <2>4, <3>1, <3>2, <3>3
  <2>6. NextDashRunStrided(bytes, from) = r
    <3> HIDE DEF starts
    <3> QED BY <1>0, <1>6
  <2> HIDE DEF r
  <2> QED BY <2>4, <2>5, <2>6 DEF IsFirstRun
<1> QED BY <1>5, <1>6

(* The search finds the first run of dashes, wherever the probe ends.      *)
LEMMA NextDashRunIs ==
  ASSUME DelimiterConstants, NEW S, NEW bytes \in Seq(S), NEW from \in Nat
  PROVE  IsFirstRun(bytes, from, NextDashRun(bytes, from))
<1> DEFINE N == Len(bytes)
           probe == Lesser(from + ProbeBytes, N)
           found == {at \in from..(probe - 1) : StartsWith(bytes, at, Dashes)}
           beyond == NextDashRunStrided(bytes, probe)
<1>0. NextDashRun(bytes, from) = IF found = {} THEN beyond ELSE Min(found)
  BY DEF NextDashRun, FirstOr
<1>1. /\ N \in Nat /\ probe \in Nat /\ (probe = N \/ (probe <= N /\ probe >= from))
      /\ Nowhere \notin Nat
  BY DEF DelimiterConstants, Lesser
<1>2. IsFirstRun(bytes, probe, beyond) BY <1>1, StridedIs
<1>3. \A at \in Nat : StartsWith(bytes, at, Dashes) <=> DashesAt(bytes, at) BY DashesStand
<1>4. \A at \in Nat : DashesAt(bytes, at) => at < N
  <2> TAKE at \in Nat
  <2>1. DashRun \in Nat \ {0} BY DEF DelimiterConstants
  <2> QED BY <1>1, <2>1 DEF DashesAt
<1> HIDE DEF N, probe, beyond
<1>5. \A at \in Nat : at \in from..(probe - 1) <=> from <= at /\ at < probe BY <1>1
<1>6. CASE found = {}
  <2>1. \A at \in Nat : from <= at /\ at < probe => ~DashesAt(bytes, at)
    <3> TAKE at \in Nat
    <3> SUFFICES ASSUME from <= at, at < probe, DashesAt(bytes, at) PROVE FALSE OBVIOUS
    <3>1. at \in found BY <1>3, <1>5
    <3> QED BY <1>6, <3>1
  <2>2. NextDashRun(bytes, from) = beyond
    <3> HIDE DEF found
    <3> QED BY <1>0, <1>6
  <2>3. CASE beyond = Nowhere /\ \A at \in Nat : at >= probe => ~DashesAt(bytes, at)
    <3>1. \A at \in Nat : at >= from => ~DashesAt(bytes, at)
      <4> TAKE at \in Nat
      <4>1. at >= probe \/ at < probe BY <1>1
      <4> QED BY <2>1, <2>3, <4>1
    <3> QED BY <2>2, <2>3, <3>1 DEF IsFirstRun
  <2>4. CASE /\ beyond \in Nat /\ beyond >= probe /\ DashesAt(bytes, beyond)
             /\ \A at \in Nat : at >= probe /\ at < beyond => ~DashesAt(bytes, at)
    <3>1. beyond >= from BY <1>1, <1>4, <2>4
    <3>2. \A at \in Nat : at >= from /\ at < beyond => ~DashesAt(bytes, at)
      <4> TAKE at \in Nat
      <4>1. at >= probe \/ at < probe BY <1>1
      <4> QED BY <2>1, <2>4, <4>1
    <3> QED BY <2>2, <2>4, <3>1, <3>2 DEF IsFirstRun
  <2> QED BY <1>2, <2>3, <2>4 DEF IsFirstRun
<1>7. CASE found # {}
  <2>1. found \in SUBSET Nat OBVIOUS
  <2> DEFINE r == Min(found)
  <2>2. r \in found /\ \A y \in found : r <= y
    <3> HIDE DEF found
    <3> QED BY <1>7, <2>1, MinIs
  <2>3. NextDashRun(bytes, from) = r
    <3> HIDE DEF found
    <3> QED BY <1>0, <1>7
  <2>4. r \in Nat /\ r \in from..(probe - 1) /\ DashesAt(bytes, r) BY <1>3, <2>1, <2>2
  <2>5. \A at \in Nat : at >= from /\ at < r => ~DashesAt(bytes, at)
    <3> TAKE at \in Nat
    <3> SUFFICES ASSUME at >= from, at < r, DashesAt(bytes, at) PROVE FALSE OBVIOUS
    <3>1. at \in found
      <4> HIDE DEF r
      <4>1. at < probe BY <1>1, <2>4
      <4> QED BY <1>3, <1>5, <4>1
    <3>2. r <= at BY <2>2, <3>1
    <3> HIDE DEF r
    <3> QED BY <2>4, <3>2
  <2> HIDE DEF r
  <2>6. r >= from BY <1>1, <2>4
  <2> QED BY <2>3, <2>4, <2>5, <2>6 DEF IsFirstRun
<1> QED BY <1>6, <1>7

(* What a search for the next delimiter is to find: those at the first     *)
(* offset that has one.                                                    *)
IsNext(bytes, from, found) ==
  \/ found = {} /\ \A at \in Nat : at >= from => DelimitersAt(bytes, at) = {}
  \/ \E r \in Nat : /\ r >= from /\ found = DelimitersAt(bytes, r) /\ found # {}
                    /\ \A at \in Nat : at >= from /\ at < r => DelimitersAt(bytes, at) = {}

LEMMA OneNext ==
  ASSUME NEW bytes, NEW from \in Nat, NEW x, NEW y, IsNext(bytes, from, x), IsNext(bytes, from, y)
  PROVE  x = y
<1>1. CASE x = {} /\ \A at \in Nat : at >= from => DelimitersAt(bytes, at) = {}
  BY <1>1 DEF IsNext
<1>2. CASE y = {} /\ \A at \in Nat : at >= from => DelimitersAt(bytes, at) = {}
  BY <1>2 DEF IsNext
<1>3. CASE /\ \E r \in Nat : /\ r >= from /\ x = DelimitersAt(bytes, r) /\ x # {}
                    /\ \A at \in Nat : at >= from /\ at < r => DelimitersAt(bytes, at) = {}
           /\ \E r \in Nat : /\ r >= from /\ y = DelimitersAt(bytes, r) /\ y # {}
                    /\ \A at \in Nat : at >= from /\ at < r => DelimitersAt(bytes, at) = {}
  <2>1. PICK r \in Nat : /\ r >= from /\ x = DelimitersAt(bytes, r) /\ x # {}
                    /\ \A at \in Nat : at >= from /\ at < r => DelimitersAt(bytes, at) = {}
    BY <1>3
  <2>2. PICK s \in Nat : /\ s >= from /\ y = DelimitersAt(bytes, s) /\ y # {}
                    /\ \A at \in Nat : at >= from /\ at < s => DelimitersAt(bytes, at) = {}
    BY <1>3
  <2>3. ~(r < s) /\ ~(s < r) BY <2>1, <2>2
  <2>4. r = s BY <2>3
  <2> QED BY <2>1, <2>2, <2>4
<1> QED BY <1>1, <1>2, <1>3 DEF IsNext

(* There is always one.                                                    *)
LEMMA SomeNext ==
  ASSUME NEW bytes, NEW from \in Nat
  PROVE  \E found : IsNext(bytes, from, found)
<1> DEFINE starts == {r \in Nat : r >= from /\ DelimitersAt(bytes, r) # {}}
<1>1. CASE starts = {}
  <2>1. IsNext(bytes, from, {}) BY <1>1 DEF IsNext
  <2> QED BY <2>1
<1>2. CASE starts # {}
  <2>0. starts \in SUBSET Nat OBVIOUS
  <2>1. PICK r \in starts : \A y \in starts : r <= y
    <3> HIDE DEF starts
    <3> QED BY <1>2, <2>0, LeastElement
  <2>2. \A at \in Nat : at >= from /\ at < r => DelimitersAt(bytes, at) = {}
    <3> TAKE at \in Nat
    <3> SUFFICES ASSUME at >= from, at < r, DelimitersAt(bytes, at) # {} PROVE FALSE OBVIOUS
    <3>1. at \in starts OBVIOUS
    <3>2. r <= at /\ r \in Nat BY <2>1, <3>1
    <3> QED BY <3>2
  <2>3. r \in Nat /\ r >= from /\ DelimitersAt(bytes, r) # {} OBVIOUS
  <2>4. IsNext(bytes, from, DelimitersAt(bytes, r)) BY <2>2, <2>3 DEF IsNext
  <2> QED BY <2>4
<1> QED BY <1>1, <1>2

(* The recursion of the search.                                            *)
Try(bytes, f, run) ==
  IF run = Nowhere THEN {}
  ELSE IF DelimitersAt(bytes, run) # {} THEN DelimitersAt(bytes, run)
  ELSE f[run + 1]

IsSearch(f, bytes) == f = [at \in 0..(Len(bytes) + 1) |-> Try(bytes, f, NextDashRun(bytes, at))]

(* One step of it, when what it goes on with is right.                     *)
LEMMA TryIs ==
  ASSUME DelimiterConstants, NEW S, NEW bytes \in Seq(S), NEW at \in Nat, NEW f,
         NEW run, run = NextDashRun(bytes, at),
         run \in Nat /\ run >= at /\ run < Len(bytes) => IsNext(bytes, run + 1, f[run + 1])
  PROVE  IsNext(bytes, at, Try(bytes, f, run))
<1>0. Nowhere \notin Nat /\ DashRun \in Nat \ {0} BY DEF DelimiterConstants
<1>1. IsFirstRun(bytes, at, run) BY NextDashRunIs
<1>2. \A r \in Nat : DelimitersAt(bytes, r) # {} => DashesAt(bytes, r)
  <2> SUFFICES ASSUME NEW r \in Nat, NEW d \in DelimitersAt(bytes, r) PROVE DashesAt(bytes, r)
    OBVIOUS
  <2> QED BY DelimiterFacts
<1>3. CASE run = Nowhere /\ \A r \in Nat : r >= at => ~DashesAt(bytes, r)
  <2>1. Try(bytes, f, run) = {} BY <1>3 DEF Try
  <2>2. \A r \in Nat : r >= at => DelimitersAt(bytes, r) = {} BY <1>2, <1>3
  <2> QED BY <2>1, <2>2 DEF IsNext
<1>4. CASE /\ run \in Nat /\ run >= at /\ DashesAt(bytes, run)
           /\ \A r \in Nat : r >= at /\ r < run => ~DashesAt(bytes, r)
  <2>1. run # Nowhere BY <1>0, <1>4
  <2>2. \A r \in Nat : r >= at /\ r < run => DelimitersAt(bytes, r) = {} BY <1>2, <1>4
  <2>3. CASE DelimitersAt(bytes, run) # {}
    <3>1. Try(bytes, f, run) = DelimitersAt(bytes, run) BY <2>1, <2>3 DEF Try
    <3> QED BY <1>4, <2>2, <2>3, <3>1 DEF IsNext
  <2>4. CASE DelimitersAt(bytes, run) = {}
    <3>1. Try(bytes, f, run) = f[run + 1] BY <2>1, <2>4 DEF Try
    <3>2. run < Len(bytes)
      <4>1. Len(bytes) \in Nat OBVIOUS
      <4> QED BY <1>0, <1>4, <4>1 DEF DashesAt
    <3>3. IsNext(bytes, run + 1, f[run + 1]) BY <1>4, <3>2
    <3>4. \A r \in Nat : r >= at /\ r < run + 1 => DelimitersAt(bytes, r) = {}
      <4> TAKE r \in Nat
      <4>1. r < run + 1 => r < run \/ r = run BY <1>4
      <4> QED BY <2>2, <2>4, <4>1
    <3>5. CASE f[run + 1] = {} /\ \A r \in Nat : r >= run + 1 => DelimitersAt(bytes, r) = {}
      <4>1. \A r \in Nat : r >= at => DelimitersAt(bytes, r) = {}
        <5> TAKE r \in Nat
        <5>1. r >= run + 1 \/ r < run + 1 BY <1>4
        <5> QED BY <3>4, <3>5, <5>1
      <4> QED BY <3>1, <3>5, <4>1 DEF IsNext
    <3>6. CASE \E r \in Nat : /\ r >= run + 1 /\ f[run + 1] = DelimitersAt(bytes, r) /\ f[run + 1] # {}
                    /\ \A q \in Nat : q >= run + 1 /\ q < r => DelimitersAt(bytes, q) = {}
      <4>1. PICK r \in Nat : /\ r >= run + 1 /\ f[run + 1] = DelimitersAt(bytes, r) /\ f[run + 1] # {}
                    /\ \A q \in Nat : q >= run + 1 /\ q < r => DelimitersAt(bytes, q) = {}
        BY <3>6
      <4>2. r >= at BY <1>4, <4>1
      <4>3. \A q \in Nat : q >= at /\ q < r => DelimitersAt(bytes, q) = {}
        <5> TAKE q \in Nat
        <5>1. q >= run + 1 \/ q < run + 1 BY <1>4
        <5> QED BY <3>4, <4>1, <5>1
      <4> QED BY <3>1, <4>1, <4>2, <4>3 DEF IsNext
    <3> QED BY <3>3, <3>5, <3>6 DEF IsNext
  <2> QED BY <2>3, <2>4
<1> QED BY <1>1, <1>3, <1>4 DEF IsFirstRun

(* There is such a search.                                                 *)
LEMMA SearchExists ==
  ASSUME DelimiterConstants, NEW S, NEW bytes \in Seq(S)
  PROVE  \E f : IsSearch(f, bytes)
<1> DEFINE N == Len(bytes)
           found(at) == CHOOSE x : IsNext(bytes, at, x)
           g == [at \in 0..(N + 1) |-> found(at)]
           run(at) == NextDashRun(bytes, at)
<1>0. N \in Nat OBVIOUS
<1>1. \A at \in Nat : IsNext(bytes, at, found(at))
  <2> TAKE at \in Nat
  <2>1. \E x : IsNext(bytes, at, x) BY SomeNext
  <2> QED BY <2>1, Zenon
<1> HIDE DEF found, N
<1>2. \A at \in 0..(N + 1) : g[at] = found(at) OBVIOUS
<1>3. ASSUME NEW at \in 0..(N + 1) PROVE g[at] = Try(bytes, g, run(at))
  <2>1. at \in Nat BY <1>0
  <2>2. run(at) \in Nat /\ run(at) >= at /\ run(at) < Len(bytes) =>
          IsNext(bytes, run(at) + 1, g[run(at) + 1])
    <3> SUFFICES ASSUME run(at) \in Nat, run(at) < N
                 PROVE  IsNext(bytes, run(at) + 1, g[run(at) + 1])
      BY DEF N
    <3>1. run(at) + 1 \in 0..(N + 1) /\ run(at) + 1 \in Nat BY <1>0
    <3>2. g[run(at) + 1] = found(run(at) + 1) BY <1>2, <3>1
    <3> HIDE DEF g
    <3> QED BY <1>1, <3>1, <3>2
  <2> HIDE DEF g
  <2>3. IsNext(bytes, at, Try(bytes, g, run(at))) BY <2>1, <2>2, TryIs
  <2>4. IsNext(bytes, at, g[at]) BY <1>1, <1>2, <2>1
  <2> QED BY <2>1, <2>3, <2>4, OneNext
<1>4. g = [at \in 0..(N + 1) |-> g[at]] OBVIOUS
<1> HIDE DEF g, run
<1>5. g = [at \in 0..(N + 1) |-> Try(bytes, g, run(at))] BY <1>3, <1>4
<1>6. IsSearch(g, bytes) BY <1>5, Zenon DEF IsSearch, N, run
<1> QED BY <1>6

(* The search finds the first delimiter at or behind an offset, whatever   *)
(* runs of dashes the probe and the stride meet (private_key.rs,           *)
(* next_dash_run, find_next_delimiter).                                    *)
THEOREM FindNextIs ==
  ASSUME DelimiterConstants, NEW S, NEW bytes \in Seq(S), NEW from \in 0..Len(bytes)
  PROVE  IsNext(bytes, from, FindNextDelimiter(bytes, from))
<1> DEFINE N == Len(bytes)
           f == CHOOSE h : IsSearch(h, bytes)
           run(at) == NextDashRun(bytes, at)
           P == {n \in Nat : \A at \in 0..(N + 1) : (N + 1) - at <= n => IsNext(bytes, at, f[at])}
<1>0. N \in Nat OBVIOUS
<1>1. IsSearch(f, bytes) BY SearchExists, Zenon
<1>2. FindNextDelimiter(bytes, from) = f[from] BY Zenon DEF FindNextDelimiter, IsSearch, Try
<1> HIDE DEF f, N
<1>3. \A at \in 0..(N + 1) : f[at] = Try(bytes, f, run(at))
  <2>1. f = [at \in 0..(N + 1) |-> Try(bytes, f, run(at))] BY <1>1, Zenon DEF IsSearch, N
  <2> HIDE DEF run
  <2> QED BY <2>1
<1>4. ASSUME NEW at \in 0..(N + 1),
             run(at) \in Nat /\ run(at) >= at /\ run(at) < N => IsNext(bytes, run(at) + 1, f[run(at) + 1])
      PROVE  IsNext(bytes, at, f[at])
  <2>1. at \in Nat BY <1>0
  <2>2. IsNext(bytes, at, Try(bytes, f, run(at))) BY <1>4, <2>1, TryIs DEF N
  <2> QED BY <1>3, <2>2
<1>5. 0 \in P
  <2> SUFFICES ASSUME NEW at \in 0..(N + 1), (N + 1) - at <= 0 PROVE IsNext(bytes, at, f[at])
    OBVIOUS
  <2>1. at = N + 1 BY <1>0
  <2> DEFINE r == run(at)
  <2>2. ~(r \in Nat /\ r >= at /\ r < N)
    <3> HIDE DEF r
    <3> QED BY <1>0, <2>1
  <2> QED BY <1>4, <2>2
<1>6. ASSUME NEW n \in P PROVE n + 1 \in P
  <2> SUFFICES ASSUME NEW at \in 0..(N + 1), (N + 1) - at <= n + 1 PROVE IsNext(bytes, at, f[at])
    OBVIOUS
  <2> DEFINE r == run(at)
  <2>1. r \in Nat /\ r >= at /\ r < N => IsNext(bytes, r + 1, f[r + 1])
    <3> SUFFICES ASSUME r \in Nat, r >= at, r < N PROVE IsNext(bytes, r + 1, f[r + 1]) OBVIOUS
    <3> HIDE DEF r
    <3>1. r + 1 \in 0..(N + 1) /\ (N + 1) - (r + 1) <= n BY <1>0
    <3> QED BY <3>1
  <2> QED BY <1>4, <2>1
<1>7. P = Nat
  <2>1. P \subseteq Nat OBVIOUS
  <2> HIDE DEF P
  <2> QED BY <1>5, <1>6, <2>1, StepsReachAll
<1>8. N + 1 \in P
  <2>1. N + 1 \in Nat BY <1>0
  <2> HIDE DEF P
  <2> QED BY <1>7, <2>1
<1>9. from \in 0..(N + 1) /\ (N + 1) - from <= N + 1 BY <1>0 DEF N
<1>10. IsNext(bytes, from, f[from]) BY <1>8, <1>9
<1> QED BY <1>2, <1>10

(* All the delimiters of a text.                                           *)
DelimitersOf(t) == UNION {DelimitersAt(t, at) : at \in 0..(Len(t) - 1)}

LEMMA DelimitersOfAre ==
  ASSUME DelimiterConstants, NEW S, NEW t \in Seq(S)
  PROVE  /\ \A at \in Nat : \A d \in DelimitersAt(t, at) : d \in DelimitersOf(t)
         /\ \A d \in DelimitersOf(t) :
              /\ d.start \in Nat /\ d \in DelimitersAt(t, d.start)
              /\ d.end \in Nat /\ d.start < d.end /\ d.end <= Len(t)
              /\ d.end - d.start <= MAX_DELIMITER_LEN /\ t[d.start + 1] = "-"
              /\ d = [kind |-> d.kind, label |-> d.label, start |-> d.start, end |-> d.end]
<1>1. ASSUME NEW at \in Nat, NEW d \in DelimitersAt(t, at) PROVE d \in DelimitersOf(t)
  <2>1. at < d.end /\ d.end <= Len(t) /\ d.end \in Nat BY DelimiterFacts
  <2>2. Len(t) \in Nat OBVIOUS
  <2>3. at \in 0..(Len(t) - 1) BY <2>1, <2>2
  <2> QED BY <2>3 DEF DelimitersOf
<1>2. ASSUME NEW d \in DelimitersOf(t)
      PROVE  /\ d.start \in Nat /\ d \in DelimitersAt(t, d.start)
             /\ d.end \in Nat /\ d.start < d.end /\ d.end <= Len(t)
             /\ d.end - d.start <= MAX_DELIMITER_LEN /\ t[d.start + 1] = "-"
             /\ d = [kind |-> d.kind, label |-> d.label, start |-> d.start, end |-> d.end]
  <2>1. PICK at \in 0..(Len(t) - 1) : d \in DelimitersAt(t, at) BY DEF DelimitersOf
  <2>2. at \in Nat OBVIOUS
  <2>3. /\ d.start = at /\ d.end \in Nat /\ at < d.end /\ d.end <= Len(t)
        /\ d.end - at <= MAX_DELIMITER_LEN /\ t[at + 1] = "-"
        /\ d = [kind |-> d.kind, label |-> d.label, start |-> d.start, end |-> d.end]
    BY <2>1, <2>2, DelimiterFacts
  <2> QED BY <2>1, <2>2, <2>3, Zenon
<1> QED BY <1>1, <1>2

(* Delimiters that share no dashes lie apart.                              *)
LEMMA DelimitersApart ==
  ASSUME DelimiterConstants, NEW S, NEW t \in Seq(S), DashesAreNotShared(t),
         NEW d \in DelimitersOf(t), NEW e \in DelimitersOf(t)
  PROVE  d = e \/ d.end <= e.start \/ e.end <= d.start
<1>1. /\ d.start \in Nat /\ d.end \in Nat /\ d \in DelimitersAt(t, d.start)
      /\ e.start \in Nat /\ e.end \in Nat /\ e \in DelimitersAt(t, e.start)
  BY DelimitersOfAre
<1>2. ~(d.start < e.start /\ e.start < d.end) /\ ~(e.start < d.start /\ d.start < e.end)
  BY DEF DashesAreNotShared, DelimitersOf
<1>3. d.start = e.start => d = e BY <1>1, OneDelimiter
<1> QED BY <1>1, <1>2, <1>3

(* One text lies in another.                                               *)
Aligned(x, t, o) ==
  /\ o \in Nat /\ o + Len(x) <= Len(t)
  /\ \A k \in 1..Len(x) : t[o + k] = x[k]

LEMMA DelimitersAlign ==
  ASSUME DelimiterConstants, NEW S, NEW x \in Seq(S), NEW t \in Seq(S), NEW o, Aligned(x, t, o)
  PROVE  /\ \A d \in DelimitersOf(x) : Moved(d, o) \in DelimitersOf(t)
         /\ \A e \in DelimitersOf(t) : e.start >= o /\ e.end <= o + Len(x) =>
              \E d \in DelimitersOf(x) : e = Moved(d, o)
<1>0. /\ o \in Nat /\ o + Len(x) <= Len(t) /\ Len(x) \in Nat /\ Len(t) \in Nat
      /\ \A k \in 1..Len(x) : t[o + k] = x[k]
  BY DEF Aligned
<1>1. ASSUME NEW d \in DelimitersOf(x) PROVE Moved(d, o) \in DelimitersOf(t)
  <2>1. /\ d.start \in Nat /\ d \in DelimitersAt(x, d.start)
        /\ d.end \in Nat /\ d.start < d.end /\ d.end <= Len(x)
    BY DelimitersOfAre
  <2>2. o + d.start \in Nat /\ o + d.end <= Len(t) /\ o \in Int BY <1>0, <2>1
  <2>3. \A k \in (d.start + 1)..d.end : t[o + k] = x[k]
    <3> TAKE k \in (d.start + 1)..d.end
    <3>1. k \in 1..Len(x) BY <1>0, <2>1
    <3> QED BY <1>0, <3>1
  <2>4. Moved(d, o) \in DelimitersAt(t, o + d.start) BY <2>1, <2>2, <2>3, DelimiterMoves
  <2> QED BY <2>2, <2>4, DelimitersOfAre
<1>2. ASSUME NEW e \in DelimitersOf(t), e.start >= o, e.end <= o + Len(x)
      PROVE  \E d \in DelimitersOf(x) : e = Moved(d, o)
  <2>1. /\ e.start \in Nat /\ e \in DelimitersAt(t, e.start)
        /\ e.end \in Nat /\ e.start < e.end /\ e.end <= Len(t)
        /\ e = [kind |-> e.kind, label |-> e.label, start |-> e.start, end |-> e.end]
    BY DelimitersOfAre
  <2>2. (-o) + e.start \in Nat /\ (-o) + e.end <= Len(x) /\ -o \in Int BY <1>0, <1>2, <2>1
  <2>3. \A k \in (e.start + 1)..e.end : x[(-o) + k] = t[k]
    <3> TAKE k \in (e.start + 1)..e.end
    <3>1. (-o) + k \in 1..Len(x) /\ o + ((-o) + k) = k BY <1>0, <1>2, <2>1
    <3> QED BY <1>0, <3>1
  <2> DEFINE d == Moved(e, -o)
  <2>4. d \in DelimitersAt(x, (-o) + e.start) BY <2>1, <2>2, <2>3, DelimiterMoves
  <2>5. d \in DelimitersOf(x) BY <2>2, <2>4, DelimitersOfAre
  <2>6. /\ d.kind = e.kind /\ d.label = e.label /\ d.start = (-o) + e.start
        /\ d.end = (-o) + e.end
    BY DEF Moved
  <2> HIDE DEF d
  <2>7. o + d.start = e.start /\ o + d.end = e.end BY <1>0, <2>1, <2>6
  <2>8. Moved(d, o) = e BY <2>1, <2>6, <2>7, Zenon DEF Moved
  <2> QED BY <2>5, <2>8
<1> QED BY <1>1, <1>2

------------------------------------------------------------------------------
(* The state behind the delimiters that ended up to an offset.             *)
Ending(t, n) == {d \in DelimitersOf(t) : d.end = n}

Behind(t, n, state) ==
  IF Ending(t, n) = {} THEN state ELSE ProcessDelimiter(state, CHOOSE d \in Ending(t, n) : TRUE)

IsTrace(f, t, m) == f = [n \in 0..m |-> IF n = 0 THEN NewState ELSE Behind(t, n, f[n - 1])]

StateAt(t, n) == (CHOOSE f : IsTrace(f, t, Len(t)))[n]

LEMMA TraceExists ==
  ASSUME NEW t, NEW n \in Nat
  PROVE  \E f : IsTrace(f, t, n)
<1> DEFINE P == {m \in Nat : \E f : IsTrace(f, t, m)}
<1>1. 0 \in P
  <2> DEFINE f == [k \in 0..0 |-> NewState]
  <2>1. IsTrace(f, t, 0) BY DEF IsTrace
  <2> HIDE DEF f
  <2> QED BY <2>1
<1>2. ASSUME NEW m \in P PROVE m + 1 \in P
  <2>1. PICK f : IsTrace(f, t, m) OBVIOUS
  <2> DEFINE last == Behind(t, m + 1, f[m])
             g == [k \in 0..(m + 1) |-> IF k <= m THEN f[k] ELSE last]
             body(h, k) == IF k = 0 THEN NewState ELSE Behind(t, k, h[k - 1])
  <2>2. \A k \in 0..m : f[k] = body(f, k)
    <3>1. f = [k \in 0..m |-> body(f, k)] BY <2>1, Zenon DEF IsTrace
    <3> HIDE DEF body
    <3> QED BY <3>1
  <2>3. \A k \in 0..(m + 1) : g[k] = body(g, k)
    <3> TAKE k \in 0..(m + 1)
    <3>1. CASE k = 0
      <4>1. g[k] = f[0] /\ f[0] = NewState BY <2>2, <3>1
      <4> QED BY <3>1, <4>1
    <3>2. CASE k \in 1..m
      <4>1. g[k] = f[k] /\ g[k - 1] = f[k - 1] /\ k # 0 BY <3>2
      <4>2. f[k] = Behind(t, k, f[k - 1]) BY <2>2, <3>2, <4>1
      <4> HIDE DEF g
      <4> QED BY <4>1, <4>2
    <3>3. CASE k = m + 1
      <4>1. g[k] = last /\ g[k - 1] = f[m] /\ k # 0 BY <3>3
      <4> HIDE DEF g
      <4> QED BY <3>3, <4>1
    <3> QED BY <3>1, <3>2, <3>3
  <2>4. g = [k \in 0..(m + 1) |-> g[k]] OBVIOUS
  <2> HIDE DEF g
  <2>5. g = [k \in 0..(m + 1) |-> body(g, k)]
    <3> HIDE DEF body
    <3> QED BY <2>3, <2>4
  <2>6. IsTrace(g, t, m + 1) BY <2>5, Zenon DEF IsTrace
  <2> QED BY <2>6
<1>3. P = Nat
  <2>1. P \subseteq Nat OBVIOUS
  <2> HIDE DEF P
  <2> QED BY <1>1, <1>2, <2>1, StepsReachAll
<1> QED BY <1>3

LEMMA StateAtIs ==
  ASSUME NEW S, NEW t \in Seq(S)
  PROVE  /\ StateAt(t, 0) = NewState
         /\ \A n \in 1..Len(t) : StateAt(t, n) = Behind(t, n, StateAt(t, n - 1))
<1> DEFINE N == Len(t)
           f == CHOOSE h : IsTrace(h, t, N)
           body(n) == IF n = 0 THEN NewState ELSE Behind(t, n, f[n - 1])
<1>0. N \in Nat OBVIOUS
<1>1. IsTrace(f, t, N)
  <2> HIDE DEF N
  <2> QED BY <1>0, TraceExists, Zenon
<1>2. \A n : StateAt(t, n) = f[n] BY DEF StateAt
<1> HIDE DEF f, N
<1>3. \A n \in 0..N : f[n] = body(n)
  <2>1. f = [n \in 0..N |-> body(n)] BY <1>1, Zenon DEF IsTrace
  <2> HIDE DEF body
  <2> QED BY <2>1
<1>4. f[0] = NewState
  <2>1. 0 \in 0..N BY <1>0
  <2> QED BY <1>3, <2>1
<1>5. \A n \in 1..N : f[n] = Behind(t, n, f[n - 1])
  <2> TAKE n \in 1..N
  <2>1. n \in 0..N /\ n # 0 BY <1>0
  <2> QED BY <1>3, <2>1
<1> QED BY <1>2, <1>4, <1>5 DEF N

(* Where no delimiter ends, the state stays.                               *)
LEMMA StateStays ==
  ASSUME NEW S, NEW t \in Seq(S), NEW a \in Nat, NEW b \in Nat, a <= b, b <= Len(t),
         \A d \in DelimitersOf(t) : d.end > a => d.end > b
  PROVE  StateAt(t, b) = StateAt(t, a)
<1> DEFINE P == {n \in Nat : a + n <= b => StateAt(t, a + n) = StateAt(t, a)}
<1>1. 0 \in P
  <2>1. a + 0 = a OBVIOUS
  <2> QED BY <2>1
<1>2. ASSUME NEW n \in P PROVE n + 1 \in P
  <2> SUFFICES ASSUME a + (n + 1) <= b PROVE StateAt(t, a + (n + 1)) = StateAt(t, a) OBVIOUS
  <2>1. n \in Nat /\ a + n <= b /\ a + (n + 1) \in 1..Len(t) /\ (a + (n + 1)) - 1 = a + n
    <3>1. Len(t) \in Nat OBVIOUS
    <3> QED BY <3>1
  <2>2. StateAt(t, a + n) = StateAt(t, a) BY <2>1
  <2>3. Ending(t, a + (n + 1)) = {}
    <3> SUFFICES ASSUME NEW d \in DelimitersOf(t), d.end = a + (n + 1) PROVE FALSE BY DEF Ending
    <3>1. d.end > a /\ ~(d.end > b) BY <2>1
    <3> QED BY <3>1
  <2>4. StateAt(t, a + (n + 1)) = Behind(t, a + (n + 1), StateAt(t, a + n))
    <3>1. StateAt(t, a + (n + 1)) = Behind(t, a + (n + 1), StateAt(t, (a + (n + 1)) - 1))
      BY <2>1, StateAtIs
    <3> QED BY <2>1, <3>1
  <2> QED BY <2>2, <2>3, <2>4 DEF Behind
<1>3. P = Nat
  <2>1. P \subseteq Nat OBVIOUS
  <2> HIDE DEF P
  <2> QED BY <1>1, <1>2, <2>1, StepsReachAll
<1>4. b - a \in P
  <2>1. b - a \in Nat OBVIOUS
  <2> HIDE DEF P
  <2> QED BY <1>3, <2>1
<1>5. a + (b - a) = b OBVIOUS
<1> QED BY <1>4, <1>5

(* Behind the next delimiter it is that one that is accounted for.         *)
LEMMA StateGoesOn ==
  ASSUME DelimiterConstants, NEW S, NEW t \in Seq(S), DashesAreNotShared(t), NEW a \in Nat,
         NEW d \in DelimitersOf(t), a < d.end,
         \A e \in DelimitersOf(t) : e.end > a => e.end >= d.end
  PROVE  StateAt(t, d.end) = ProcessDelimiter(StateAt(t, a), d)
<1> DEFINE n == d.end
<1>1. n \in Nat /\ n <= Len(t) /\ Len(t) \in Nat BY DelimitersOfAre
<1>2. Ending(t, n) = {d}
  <2>1. d \in Ending(t, n) BY DEF Ending
  <2>2. ASSUME NEW e \in Ending(t, n) PROVE e = d
    <3>1. e \in DelimitersOf(t) /\ e.end = n BY DEF Ending
    <3>2. e = d \/ e.end <= d.start \/ d.end <= e.start BY <3>1, DelimitersApart
    <3>3. d.start < d.end /\ e.start < e.end /\ d.start \in Nat /\ e.start \in Nat
      BY <3>1, DelimitersOfAre
    <3> QED BY <1>1, <3>1, <3>2, <3>3
  <2> QED BY <2>1, <2>2
<1>3. (CHOOSE e \in Ending(t, n) : TRUE) = d BY <1>2
<1>4. n \in 1..Len(t) /\ n - 1 \in Nat /\ a <= n - 1 /\ n - 1 <= Len(t) BY <1>1
<1>5. StateAt(t, n - 1) = StateAt(t, a)
  <2>1. \A e \in DelimitersOf(t) : e.end > a => e.end > n - 1
    <3> TAKE e \in DelimitersOf(t)
    <3>1. e.end \in Nat BY DelimitersOfAre
    <3>2. e.end > a => e.end >= n OBVIOUS
    <3> HIDE DEF n
    <3> QED BY <1>1, <3>1, <3>2
  <2> HIDE DEF n
  <2> QED BY <1>4, <2>1, StateStays
<1>6. StateAt(t, n) = Behind(t, n, StateAt(t, n - 1)) BY <1>4, StateAtIs
<1>7. Behind(t, n, StateAt(t, n - 1)) = ProcessDelimiter(StateAt(t, n - 1), d)
  <2>1. Ending(t, n) # {} BY <1>2
  <2> HIDE DEF n
  <2> QED BY <1>3, <2>1, Zenon DEF Behind
<1> QED BY <1>5, <1>6, <1>7

(* What a text begins with has the delimiters that end in it, and the      *)
(* state behind them.                                                      *)
LEMMA DelimitersBegin ==
  ASSUME DelimiterConstants, NEW S, NEW x \in Seq(S), NEW t \in Seq(S), Aligned(x, t, 0)
  PROVE  \A d : d \in DelimitersOf(x) <=> d \in DelimitersOf(t) /\ d.end <= Len(x)
<1>1. ASSUME NEW d \in DelimitersOf(x) PROVE Moved(d, 0) = d
  <2>1. /\ d = [kind |-> d.kind, label |-> d.label, start |-> d.start, end |-> d.end]
        /\ d.start \in Nat /\ d.end \in Nat
    BY DelimitersOfAre
  <2>2. 0 + d.start = d.start /\ 0 + d.end = d.end BY <2>1
  <2> QED BY <2>1, <2>2, Zenon DEF Moved
<1>2. ASSUME NEW d \in DelimitersOf(x) PROVE d \in DelimitersOf(t) /\ d.end <= Len(x)
  <2>1. Moved(d, 0) \in DelimitersOf(t) BY DelimitersAlign
  <2>2. d.end <= Len(x) BY DelimitersOfAre
  <2> QED BY <1>1, <2>1, <2>2
<1>3. ASSUME NEW d \in DelimitersOf(t), d.end <= Len(x) PROVE d \in DelimitersOf(x)
  <2>1. d.start \in Nat /\ d.end \in Nat /\ Len(x) \in Nat BY DelimitersOfAre
  <2>2. d.start >= 0 /\ d.end <= 0 + Len(x) BY <1>3, <2>1
  <2>3. PICK e \in DelimitersOf(x) : d = Moved(e, 0) BY <2>2, DelimitersAlign
  <2> QED BY <1>1, <2>3
<1> QED BY <1>2, <1>3

LEMMA StateBegins ==
  ASSUME DelimiterConstants, NEW S, NEW x \in Seq(S), NEW t \in Seq(S), Aligned(x, t, 0)
  PROVE  /\ DashesAreNotShared(t) => DashesAreNotShared(x)
         /\ \A n \in 0..Len(x) : StateAt(x, n) = StateAt(t, n)
<1>1. \A d : d \in DelimitersOf(x) <=> d \in DelimitersOf(t) /\ d.end <= Len(x)
  BY DelimitersBegin
<1>2. DashesAreNotShared(t) => DashesAreNotShared(x)
  <2>1. DelimitersOf(x) \subseteq DelimitersOf(t) BY <1>1
  <2> HIDE DEF DelimitersOf
  <2>2. \A y : DashesAreNotShared(y) <=>
          ~\E d, e \in DelimitersOf(y) : d.start < e.start /\ e.start < d.end
    BY Zenon DEF DashesAreNotShared, DelimitersOf
  <2> QED BY <2>1, <2>2
<1> DEFINE P == {n \in Nat : n <= Len(x) => StateAt(x, n) = StateAt(t, n)}
<1>3. 0 \in P BY StateAtIs
<1>4. ASSUME NEW n \in P PROVE n + 1 \in P
  <2> SUFFICES ASSUME n + 1 <= Len(x) PROVE StateAt(x, n + 1) = StateAt(t, n + 1) OBVIOUS
  <2>1. n + 1 \in 1..Len(x) /\ n + 1 \in 1..Len(t) /\ (n + 1) - 1 = n /\ n <= Len(x)
    <3>1. Len(x) \in Nat /\ Len(t) \in Nat /\ Len(x) <= Len(t) /\ n \in Nat BY DEF Aligned
    <3> QED BY <3>1
  <2>2. Ending(x, n + 1) = Ending(t, n + 1)
    <3>1. ASSUME NEW d PROVE d \in Ending(x, n + 1) <=> d \in Ending(t, n + 1)
      BY <1>1, <2>1 DEF Ending
    <3> QED BY <3>1
  <2>3. StateAt(x, n) = StateAt(t, n) BY <2>1
  <2>4. StateAt(x, n + 1) = Behind(x, n + 1, StateAt(x, (n + 1) - 1)) BY <2>1, StateAtIs
  <2>5. StateAt(t, n + 1) = Behind(t, n + 1, StateAt(t, (n + 1) - 1)) BY <2>1, StateAtIs
  <2> QED BY <2>1, <2>2, <2>3, <2>4, <2>5 DEF Behind
<1>5. P = Nat
  <2>1. P \subseteq Nat OBVIOUS
  <2> HIDE DEF P
  <2> QED BY <1>3, <1>4, <2>1, StepsReachAll
<1>6. \A n \in 0..Len(x) : StateAt(x, n) = StateAt(t, n)
  <2> TAKE n \in 0..Len(x)
  <2>1. n \in Nat /\ n <= Len(x) OBVIOUS
  <2>2. n \in P
    <3> HIDE DEF P
    <3> QED BY <1>5, <2>1
  <2> QED BY <2>1, <2>2
<1> QED BY <1>2, <1>6

(* What the search finds of a text that lies in another.                   *)
LEMMA NextAligned ==
  ASSUME DelimiterConstants, NEW S, NEW x \in Seq(S), NEW t \in Seq(S), NEW o, Aligned(x, t, o),
         NEW position \in 0..Len(x), NEW next, next = FindNextDelimiter(x, position)
  PROVE  /\ next = {} =>
              \A e \in DelimitersOf(t) : e.end <= o + Len(x) => e.start < o + position
         /\ next # {} => \E dx \in DelimitersOf(x) :
              /\ dx = (CHOOSE d \in next : TRUE) /\ dx.start >= position
              /\ \A e \in DelimitersOf(t) :
                   e.end <= o + Len(x) /\ e.start >= o + position => e.start >= o + dx.start
<1>0. o \in Nat /\ Len(x) \in Nat /\ position \in Nat BY DEF Aligned
<1>1. IsNext(x, position, next) BY FindNextIs
<1>2. ASSUME NEW e \in DelimitersOf(t), e.end <= o + Len(x), e.start >= o + position
      PROVE  \E d \in DelimitersOf(x) :
               /\ d.start \in Nat /\ d.start >= position /\ e.start = o + d.start
               /\ DelimitersAt(x, d.start) # {}
  <2>1. e.start \in Nat /\ e.end \in Nat BY DelimitersOfAre
  <2>2. e.start >= o BY <1>0, <1>2, <2>1
  <2>3. PICK d \in DelimitersOf(x) : e = Moved(d, o) BY <1>2, <2>2, DelimitersAlign
  <2>4. e.start = o + d.start BY <2>3 DEF Moved
  <2>5. d.start \in Nat /\ d \in DelimitersAt(x, d.start) BY DelimitersOfAre
  <2>6. d.start >= position BY <1>0, <1>2, <2>1, <2>4, <2>5
  <2> QED BY <2>4, <2>5, <2>6
<1>3. CASE next = {} /\ \A at \in Nat : at >= position => DelimitersAt(x, at) = {}
  <2>1. ASSUME NEW e \in DelimitersOf(t), e.end <= o + Len(x) PROVE e.start < o + position
    <3>1. ~(e.start >= o + position) BY <1>2, <1>3, <2>1
    <3>2. e.start \in Nat BY DelimitersOfAre
    <3> QED BY <1>0, <3>1, <3>2
  <2> QED BY <1>3, <2>1
<1>4. CASE \E r \in Nat : /\ r >= position /\ next = DelimitersAt(x, r) /\ next # {}
             /\ \A at \in Nat : at >= position /\ at < r => DelimitersAt(x, at) = {}
  <2>1. PICK r \in Nat : /\ r >= position /\ next = DelimitersAt(x, r) /\ next # {}
             /\ \A at \in Nat : at >= position /\ at < r => DelimitersAt(x, at) = {}
    BY <1>4
  <2> DEFINE dx == CHOOSE d \in next : TRUE
  <2>2. dx \in next BY <2>1
  <2> HIDE DEF dx
  <2>3. dx \in DelimitersAt(x, r) BY <2>1, <2>2
  <2>4. dx.start = r BY <2>3, DelimiterFacts
  <2>5. dx \in DelimitersOf(x) BY <2>3, DelimitersOfAre
  <2>6. ASSUME NEW e \in DelimitersOf(t), e.end <= o + Len(x), e.start >= o + position
        PROVE  e.start >= o + r
    <3>1. PICK d \in DelimitersOf(x) :
               /\ d.start \in Nat /\ d.start >= position /\ e.start = o + d.start
               /\ DelimitersAt(x, d.start) # {}
      BY <1>2, <2>6
    <3>2. ~(d.start < r) BY <2>1, <3>1
    <3> QED BY <1>0, <2>1, <3>1, <3>2
  <2> QED BY <2>1, <2>4, <2>5, <2>6 DEF dx
<1> QED BY <1>1, <1>3, <1>4 DEF IsNext

(* The delimiters not accounted for in the state at a are those that start *)
(* at or behind an offset and end behind another.                          *)
Due(t, limit, a, from, m) ==
  \A d \in DelimitersOf(t) :
    d.end <= limit => (d.end > a <=> d.start >= from /\ d.end > m)

(* Where a scan of a text stands that lies in another.                     *)
ScanStands(x, t, o, from, m, scan) ==
  /\ scan.position \in from..Len(x)
  /\ scan.next = FindNextDelimiter(x, scan.position)
  /\ \E a \in Nat : /\ a <= o + Len(x) /\ scan.state = StateAt(t, a)
                    /\ Due(t, o + Len(x), a, o + scan.position, m)
  /\ scan.position = from \/ \E d \in DelimitersOf(t) : d.end = o + scan.position

LEMMA ScanGoesOn ==
  ASSUME DelimiterConstants, NEW S, NEW x \in Seq(S), NEW t \in Seq(S), NEW o, Aligned(x, t, o),
         DashesAreNotShared(t), NEW from \in Nat, NEW m \in Nat, NEW scan, scan.next # {},
         ScanStands(x, t, o, from, m, scan)
  PROVE  /\ ScanStands(x, t, o, from, m, ScanOne(x, scan, m, o))
         /\ ScanOne(x, scan, m, o).position > scan.position
<1> DEFINE n == Len(x)
           E == o + n
           p == scan.position
           dx == CHOOSE d \in scan.next : TRUE
           d == Moved(dx, o)
           after == ScanOne(x, scan, m, o)
           q == dx.end
<1>0. o \in Nat /\ n \in Nat /\ p \in from..n /\ p \in 0..n /\ p \in Nat
  <2>1. p \in from..n BY DEF ScanStands
  <2>2. o \in Nat /\ n \in Nat BY DEF Aligned
  <2> HIDE DEF p, n
  <2> QED BY <2>1, <2>2
<1>1. /\ dx \in DelimitersOf(x) /\ dx.start >= p
      /\ \A e \in DelimitersOf(t) : e.end <= E /\ e.start >= o + p => e.start >= o + dx.start
  <2>1. scan.next = FindNextDelimiter(x, p) BY DEF ScanStands
  <2> QED BY <1>0, <2>1, NextAligned
<1>2. /\ dx.start \in Nat /\ q \in Nat /\ dx.start < q /\ q <= n BY <1>1, DelimitersOfAre
<1>3. d \in DelimitersOf(t) /\ d.start = o + dx.start /\ d.end = o + q
  <2>1. d \in DelimitersOf(t) BY <1>1, DelimitersAlign
  <2> QED BY <2>1 DEF Moved
<1>4. PICK a \in Nat : a <= E /\ scan.state = StateAt(t, a) /\ Due(t, E, a, o + p, m)
  BY DEF ScanStands
<1>5. after = Scanning(x, q, IF d.end <= m THEN scan.state ELSE ProcessDelimiter(scan.state, d))
  BY DEF ScanOne
<1>6. /\ after.position = q /\ after.next = FindNextDelimiter(x, q)
      /\ after.state = IF d.end <= m THEN scan.state ELSE ProcessDelimiter(scan.state, d)
  BY <1>5 DEF Scanning
<1> HIDE DEF d, dx, after, q, E, p
<1>7. /\ d.start \in Nat /\ d.end \in Nat /\ d.end <= E /\ d.start >= o + p
      /\ d.end > d.start /\ E \in Nat
  <2>1. E = o + n BY DEF E
  <2> HIDE DEF n
  <2> QED BY <1>0, <1>1, <1>2, <1>3, <2>1
<1>8. ASSUME NEW e \in DelimitersOf(t), e.end <= E, e.start >= o + p, e # d
      PROVE  e.start >= d.end /\ e.end > d.end
  <2>1. e.start \in Nat /\ e.end \in Nat /\ e.start < e.end BY DelimitersOfAre
  <2>2. e.start >= d.start BY <1>1, <1>3, <1>8
  <2>3. e.end <= d.start \/ d.end <= e.start BY <1>3, <1>8, DelimitersApart
  <2> QED BY <1>7, <2>1, <2>2, <2>3
<1>9. \A e \in DelimitersOf(t) : e.end <= E => (e.end > a <=> e.start >= o + p /\ e.end > m)
  BY <1>4 DEF Due
<1>10. CASE d.end <= m
  <2>1. after.state = StateAt(t, a) BY <1>4, <1>6, <1>10
  <2>2. ASSUME NEW e \in DelimitersOf(t), e.end <= E
        PROVE  e.end > a <=> e.start >= o + q /\ e.end > m
    <3>0. e.start \in Nat /\ e.end \in Nat /\ e.start < e.end BY DelimitersOfAre
    <3>1. ASSUME e.end > a PROVE e.start >= o + q /\ e.end > m
      <4>1. e.start >= o + p /\ e.end > m BY <1>9, <2>2, <3>1
      <4>2. e # d BY <1>7, <1>10, <4>1
      <4> QED BY <1>3, <1>8, <2>2, <4>1, <4>2
    <3>2. ASSUME e.start >= o + q, e.end > m PROVE e.end > a
      <4>1. e.start >= o + p BY <1>0, <1>1, <1>2, <1>3, <1>7, <3>0, <3>2
      <4> QED BY <1>9, <2>2, <3>2, <4>1
    <3> QED BY <3>1, <3>2
  <2>3. Due(t, E, a, o + q, m) BY <2>2 DEF Due
  <2> QED BY <1>0, <1>1, <1>2, <1>3, <1>4, <1>6, <2>1, <2>3 DEF ScanStands, E, p, after
<1>11. CASE ~(d.end <= m)
  <2>0. d.end > m BY <1>7, <1>11
  <2>1. d.end > a BY <1>3, <1>7, <1>9, <2>0
  <2>2. ASSUME NEW e \in DelimitersOf(t), e.end > a PROVE e.end >= d.end
    <3>0. e.start \in Nat /\ e.end \in Nat /\ e.start < e.end BY DelimitersOfAre
    <3>1. CASE e.end <= E
      <4>1. e.start >= o + p BY <1>9, <2>2, <3>1
      <4>2. e = d \/ e.end > d.end BY <1>8, <3>1, <4>1
      <4> QED BY <1>7, <3>0, <4>2
    <3>2. CASE ~(e.end <= E) BY <1>7, <3>0, <3>2
    <3> QED BY <3>1, <3>2
  <2>3. StateAt(t, d.end) = ProcessDelimiter(StateAt(t, a), d)
    BY <1>3, <2>1, <2>2, StateGoesOn
  <2>4. after.state = StateAt(t, d.end) BY <1>4, <1>6, <1>11, <2>3
  <2>5. ASSUME NEW e \in DelimitersOf(t), e.end <= E
        PROVE  e.end > d.end <=> e.start >= o + q /\ e.end > m
    <3>0. e.start \in Nat /\ e.end \in Nat /\ e.start < e.end BY DelimitersOfAre
    <3>1. ASSUME e.end > d.end PROVE e.start >= o + q /\ e.end > m
      <4>1. e.end > a BY <1>7, <2>1, <3>0, <3>1
      <4>2. e.start >= o + p /\ e.end > m BY <1>9, <2>5, <4>1
      <4>3. e # d BY <1>7, <3>1
      <4> QED BY <1>3, <1>8, <2>5, <4>2, <4>3
    <3>2. ASSUME e.start >= o + q PROVE e.end > d.end
      <4> QED BY <1>3, <1>7, <3>0, <3>2
    <3> QED BY <3>1, <3>2
  <2>6. Due(t, E, d.end, o + q, m) BY <2>5 DEF Due
  <2> QED BY <1>0, <1>1, <1>2, <1>3, <1>6, <1>7, <2>4, <2>6 DEF ScanStands, E, p, after
<1> QED BY <1>10, <1>11

(* The recursion of the scan.                                              *)
IsScan(f, x, from, state, m, o, n) ==
  f = [k \in 0..n |-> IF k = 0 THEN Scanning(x, from, state) ELSE ScanOne(x, f[k - 1], m, o)]

LEMMA ScanExists ==
  ASSUME NEW x, NEW from, NEW state, NEW m, NEW o, NEW n \in Nat
  PROVE  \E f : IsScan(f, x, from, state, m, o, n)
<1> DEFINE P == {i \in Nat : \E f : IsScan(f, x, from, state, m, o, i)}
<1>1. 0 \in P
  <2> DEFINE f == [k \in 0..0 |-> Scanning(x, from, state)]
  <2>1. IsScan(f, x, from, state, m, o, 0) BY DEF IsScan
  <2> HIDE DEF f
  <2> QED BY <2>1
<1>2. ASSUME NEW i \in P PROVE i + 1 \in P
  <2>1. PICK f : IsScan(f, x, from, state, m, o, i) OBVIOUS
  <2> DEFINE last == ScanOne(x, f[i], m, o)
             g == [k \in 0..(i + 1) |-> IF k <= i THEN f[k] ELSE last]
             body(h, k) == IF k = 0 THEN Scanning(x, from, state) ELSE ScanOne(x, h[k - 1], m, o)
  <2>2. \A k \in 0..i : f[k] = body(f, k)
    <3>1. f = [k \in 0..i |-> body(f, k)] BY <2>1, Zenon DEF IsScan
    <3> HIDE DEF body
    <3> QED BY <3>1
  <2>3. \A k \in 0..(i + 1) : g[k] = body(g, k)
    <3> TAKE k \in 0..(i + 1)
    <3>1. CASE k = 0
      <4>1. g[k] = f[0] /\ f[0] = Scanning(x, from, state) BY <2>2, <3>1
      <4> QED BY <3>1, <4>1
    <3>2. CASE k \in 1..i
      <4>1. g[k] = f[k] /\ g[k - 1] = f[k - 1] /\ k # 0 BY <3>2
      <4>2. f[k] = ScanOne(x, f[k - 1], m, o) BY <2>2, <3>2, <4>1
      <4> HIDE DEF g
      <4> QED BY <4>1, <4>2
    <3>3. CASE k = i + 1
      <4>1. g[k] = last /\ g[k - 1] = f[i] /\ k # 0 BY <3>3
      <4> HIDE DEF g
      <4> QED BY <4>1
    <3> QED BY <3>1, <3>2, <3>3
  <2>4. g = [k \in 0..(i + 1) |-> g[k]] OBVIOUS
  <2> HIDE DEF g
  <2>5. g = [k \in 0..(i + 1) |-> body(g, k)]
    <3> HIDE DEF body
    <3> QED BY <2>3, <2>4
  <2>6. IsScan(g, x, from, state, m, o, i + 1) BY <2>5, Zenon DEF IsScan
  <2> QED BY <2>6
<1>3. P = Nat
  <2>1. P \subseteq Nat OBVIOUS
  <2> HIDE DEF P
  <2> QED BY <1>1, <1>2, <2>1, StepsReachAll
<1> QED BY <1>3

(* A scan of a text that lies in another, from a state that accounts for   *)
(* all but what it is to find, gives the state at its end.                 *)
LEMMA ScanIs ==
  ASSUME DelimiterConstants, NEW S, NEW x \in Seq(S), NEW t \in Seq(S), NEW o, Aligned(x, t, o),
         DashesAreNotShared(t), NEW from \in 0..Len(x), NEW m \in Nat, NEW a \in Nat,
         a <= o + Len(x), Due(t, o + Len(x), a, o + from, m),
         NEW scan, scan = ScanDelimiters(x, from, StateAt(t, a), m, o)
  PROVE  /\ scan.position \in from..Len(x)
         /\ scan.state = StateAt(t, o + Len(x))
         /\ scan.position = from \/ \E d \in DelimitersOf(t) : d.end = o + scan.position
         /\ \A d \in DelimitersOf(t) : d.end <= o + Len(x) => d.start < o + scan.position
<1> DEFINE n == Len(x)
           E == o + n
           state == StateAt(t, a)
           f == CHOOSE g : IsScan(g, x, from, state, m, o, n)
           body(k) == IF k = 0 THEN Scanning(x, from, state) ELSE ScanOne(x, f[k - 1], m, o)
           Good(k) == /\ ScanStands(x, t, o, from, m, f[k])
                      /\ f[k].next = {} \/ f[k].position >= from + k
           P == {k \in Nat : k <= n => Good(k)}
<1>0. o \in Nat /\ n \in Nat /\ from \in Nat /\ from <= n /\ E \in Nat
  <2>1. o \in Nat /\ n \in Nat BY DEF Aligned
  <2> QED BY <2>1
<1>1. IsScan(f, x, from, state, m, o, n)
  <2> HIDE DEF n, state
  <2> QED BY <1>0, ScanExists, Zenon
<1>2. scan = f[n] BY Zenon DEF ScanDelimiters, IsScan
<1> HIDE DEF f, state, n
<1>3. \A k \in 0..n : f[k] = body(k)
  <2>1. f = [k \in 0..n |-> body(k)] BY <1>1, Zenon DEF IsScan
  <2> HIDE DEF body
  <2> QED BY <2>1
<1>4. 0 \in P
  <2>1. f[0] = Scanning(x, from, state) BY <1>0, <1>3
  <2>2. /\ f[0].position = from /\ f[0].next = FindNextDelimiter(x, from) /\ f[0].state = state
    BY <2>1 DEF Scanning
  <2>3. ScanStands(x, t, o, from, m, f[0])
    <3>1. from \in from..Len(x) BY <1>0 DEF n
    <3> QED BY <2>2, <3>1 DEF ScanStands, state
  <2>4. f[0].position >= from + 0 BY <1>0, <2>2
  <2> QED BY <2>3, <2>4
<1>5. ASSUME NEW k \in P PROVE k + 1 \in P
  <2> SUFFICES ASSUME k + 1 <= n PROVE Good(k + 1) OBVIOUS
  <2>0. k \in Nat OBVIOUS
  <2>1. k \in Nat /\ k <= n /\ k + 1 \in 0..n /\ k + 1 # 0 /\ (k + 1) - 1 = k
    <3> HIDE DEF P, Good
    <3> QED BY <1>0, <2>0
  <2>2. Good(k) BY <2>1
  <2>3. f[k + 1] = ScanOne(x, f[k], m, o) BY <1>3, <2>1
  <2>4. CASE f[k].next = {}
    <3>1. f[k + 1] = f[k] BY <2>3, <2>4 DEF ScanOne
    <3> QED BY <2>2, <2>4, <3>1
  <2>5. CASE f[k].next # {}
    <3>1. ScanStands(x, t, o, from, m, f[k]) /\ f[k].position >= from + k BY <2>2, <2>5
    <3> HIDE DEF Good
    <3>2. /\ ScanStands(x, t, o, from, m, f[k + 1]) /\ f[k + 1].position > f[k].position
      BY <1>0, <2>3, <2>5, <3>1, ScanGoesOn
    <3>3. f[k].position \in from..Len(x) /\ f[k + 1].position \in from..Len(x)
      BY <3>1, <3>2 DEF ScanStands
    <3>4. f[k + 1].position >= from + (k + 1)
      <4> DEFINE p == f[k].position
                 q == f[k + 1].position
      <4>1. p \in Int /\ q \in Int /\ p >= from + k /\ q > p BY <3>1, <3>2, <3>3
      <4> HIDE DEF p, q
      <4>2. q >= from + (k + 1) BY <1>0, <2>1, <4>1
      <4> QED BY <4>2 DEF q
    <3> QED BY <3>2, <3>4 DEF Good
  <2> QED BY <2>4, <2>5
<1>6. P = Nat
  <2>1. P \subseteq Nat OBVIOUS
  <2> HIDE DEF P
  <2> QED BY <1>4, <1>5, <2>1, StepsReachAll
<1>7. Good(n)
  <2>1. n \in P
    <3> HIDE DEF P
    <3> QED BY <1>0, <1>6
  <2> HIDE DEF Good
  <2> QED BY <1>0, <2>1
<1>8. /\ scan.position \in from..Len(x) /\ scan.next = FindNextDelimiter(x, scan.position)
      /\ scan.position = from \/ \E d \in DelimitersOf(t) : d.end = o + scan.position
  BY <1>2, <1>7 DEF ScanStands
<1>9. PICK b \in Nat : /\ b <= o + Len(x) /\ scan.state = StateAt(t, b)
                       /\ Due(t, o + Len(x), b, o + scan.position, m)
  BY <1>2, <1>7 DEF ScanStands
<1> DEFINE p == scan.position
<1>10. p \in 0..n /\ p \in Nat
  <2>1. p \in from..n BY <1>8 DEF n
  <2> HIDE DEF p
  <2> QED BY <1>0, <2>1
<1>11. \A d \in DelimitersOf(t) : d.end <= o + Len(x) => d.start < o + p
  <2>1. CASE scan.next = {}
    BY <1>8, <1>10, <2>1, NextAligned DEF n
  <2>2. CASE scan.next # {}
    <3>1. p >= from + n BY <1>2, <1>7, <2>2
    <3> HIDE DEF p
    <3>2. p = n BY <1>0, <1>10, <3>1
    <3> TAKE d \in DelimitersOf(t)
    <3>3. d.start \in Nat /\ d.end \in Nat /\ d.start < d.end BY DelimitersOfAre
    <3> QED BY <1>0, <3>2, <3>3 DEF n
  <2> QED BY <2>1, <2>2
<1>12. scan.state = StateAt(t, o + Len(x))
  <2>1. \A d \in DelimitersOf(t) : d.end > b => d.end > o + Len(x)
    <3> TAKE d \in DelimitersOf(t)
    <3> SUFFICES ASSUME d.end > b, d.end <= o + Len(x) PROVE FALSE
      <4>1. d.end \in Nat /\ o + Len(x) \in Nat BY <1>0, DelimitersOfAre DEF n
      <4> QED BY <4>1
    <3>1. d.start >= o + p BY <1>9 DEF Due
    <3>2. d.start < o + p BY <1>11
    <3>3. d.start \in Nat BY DelimitersOfAre
    <3> HIDE DEF p
    <3> QED BY <1>0, <1>10, <3>1, <3>2, <3>3
  <2>2. o + Len(x) \in Nat /\ o + Len(x) <= Len(t) BY <1>0 DEF Aligned, n
  <2> QED BY <1>9, <2>1, <2>2, StateStays
<1> QED BY <1>8, <1>11, <1>12

(* One look at all of a text gives the state at its end.                   *)
LEMMA ParsedIs ==
  ASSUME DelimiterConstants, NEW S, NEW t \in Seq(S), DashesAreNotShared(t)
  PROVE  Parsed(t) = StateAt(t, Len(t))
<1>1. Aligned(t, t, 0) /\ Len(t) \in Nat /\ 0 \in 0..Len(t)
  <2>1. Len(t) \in Nat OBVIOUS
  <2>2. 0 + Len(t) <= Len(t) /\ \A k \in 1..Len(t) : t[0 + k] = t[k] BY <2>1
  <2> QED BY <2>1, <2>2 DEF Aligned
<1>2. Due(t, 0 + Len(t), 0, 0 + 0, 0)
  <2> SUFFICES ASSUME NEW d \in DelimitersOf(t)
               PROVE  d.end > 0 <=> d.start >= 0 + 0 /\ d.end > 0
    BY DEF Due
  <2>1. d.start \in Nat /\ d.end \in Nat BY DelimitersOfAre
  <2> QED BY <2>1
<1>3. StateAt(t, 0) = NewState BY StateAtIs
<1>4. ScanDelimiters(t, 0, StateAt(t, 0), 0, 0).state = StateAt(t, 0 + Len(t))
  <2>1. 0 <= 0 + Len(t) /\ 0 \in Nat BY <1>1
  <2> QED BY <1>1, <1>2, <2>1, ScanIs
<1>5. 0 + Len(t) = Len(t) BY <1>1
<1> QED BY <1>3, <1>4, <1>5 DEF Parsed

(* The end of a text that may begin a delimiter: no dash before it is near *)
(* enough.                                                                 *)
Ends(x, t, limit) ==
  /\ Len(x) <= Len(t) /\ Aligned(x, t, Len(t) - Len(x))
  /\ \A k \in 1..(Len(t) - Len(x)) : k > Len(t) - limit => t[k] # "-"

LookbehindFits(lookbehind, t) ==
  /\ Len(lookbehind) <= MAX_DELIMITER_LEN - 1
  /\ Ends(lookbehind, t, MAX_DELIMITER_LEN - 1)

LEMMA SuffixEnds ==
  ASSUME NEW S, NEW y \in Seq(S), NEW t \in Seq(S), NEW limit \in Nat, Ends(y, t, limit),
         NEW z, z = ByteSuffix(y, limit)
  PROVE  z \in Seq(S) /\ Len(z) <= limit /\ Ends(z, t, limit)
<1> DEFINE n == Len(y)
           T == Len(t)
           c == Lesser(limit, n)
<1>1. /\ n \in Nat /\ T \in Nat /\ n <= T /\ \A k \in 1..n : t[(T - n) + k] = y[k]
      /\ \A k \in 1..(T - n) : k > T - limit => t[k] # "-"
  BY DEF Ends, Aligned
<1>2. c \in Nat /\ c <= limit /\ c <= n /\ (c = limit \/ c = n) BY <1>1 DEF Lesser
<1>3. z = SubSeq(y, n - c + 1, n) BY DEF ByteSuffix
<1> HIDE DEF c
<1>4. z \in Seq(S) /\ Len(z) = c /\ \A k \in 1..c : z[k] = y[(n - c) + k]
  <2>1. CASE c = 0
    <3>1. n - c + 1 = n + 1 /\ n < n + 1 BY <1>1, <2>1
    <3>2. z = <<>>
      <4>1. SubSeq(y, n + 1, n) = <<>>
        <5> HIDE DEF n
        <5> QED BY <1>1, <3>1, SubSeqEmpty
      <4> QED BY <1>3, <3>1, <4>1
    <3> QED BY <2>1, <3>2
  <2>2. CASE c # 0
    <3>1. n - c + 1 \in 1..n /\ n \in 1..n BY <1>1, <1>2, <2>2
    <3>2. /\ z \in Seq(S) /\ Len(z) = n - (n - c + 1) + 1
          /\ \A k \in 1..(n - (n - c + 1) + 1) : z[k] = y[(n - c + 1) + k - 1]
      BY <1>3, <3>1
    <3>3. n - (n - c + 1) + 1 = c /\ \A k \in 1..c : (n - c + 1) + k - 1 = (n - c) + k
      BY <1>1, <1>2
    <3> QED BY <3>2, <3>3
  <2> QED BY <2>1, <2>2
<1> HIDE DEF n, T
<1>5. ASSUME NEW k \in 1..c PROVE t[(T - c) + k] = z[k]
  <2>1. (n - c) + k \in 1..n /\ (T - n) + ((n - c) + k) = (T - c) + k BY <1>1, <1>2
  <2> QED BY <1>1, <1>4, <2>1
<1>6. ASSUME NEW k \in 1..(T - c), k > T - limit PROVE t[k] # "-"
  <2>1. k \in 1..(T - n) BY <1>1, <1>2, <1>6
  <2> QED BY <1>1, <1>6, <2>1
<1>7. c <= T /\ T - c \in Nat /\ (T - c) + c <= T BY <1>1, <1>2
<1> QED BY <1>2, <1>4, <1>5, <1>6, <1>7 DEF Ends, Aligned, T

LEMMA FromFirstDashEnds ==
  ASSUME NEW S, NEW z \in Seq(S), NEW t \in Seq(S), NEW limit \in Nat, Ends(z, t, limit),
         Len(z) <= limit, NEW lb, lb = FromFirstDash(z)
  PROVE  lb \in Seq(S) /\ Len(lb) <= limit /\ Ends(lb, t, limit)
<1> DEFINE c == Len(z)
           T == Len(t)
           dashes == {k \in DOMAIN z : z[k] = "-"}
<1>1. /\ c \in Nat /\ T \in Nat /\ c <= T /\ c <= limit /\ \A k \in 1..c : t[(T - c) + k] = z[k]
      /\ \A k \in 1..(T - c) : k > T - limit => t[k] # "-"
  BY DEF Ends, Aligned
<1>2. \E m \in 1..(c + 1) : /\ lb \in Seq(S) /\ Len(lb) = c - m + 1
                            /\ \A k \in 1..(c - m + 1) : lb[k] = z[(m - 1) + k]
                            /\ \A k \in 1..(m - 1) : z[k] # "-"
  <2>1. CASE dashes = {}
    <3>1. lb = <<>> BY <2>1 DEF FromFirstDash
    <3>2. \A k \in 1..c : z[k] # "-" BY <2>1
    <3> HIDE DEF c, dashes
    <3>3. c + 1 \in 1..(c + 1) /\ c - (c + 1) + 1 = 0 /\ (c + 1) - 1 = c BY <1>1
    <3>4. lb \in Seq(S) /\ Len(lb) = 0 BY <3>1
    <3> QED BY <3>2, <3>3, <3>4
  <2>2. CASE dashes # {}
    <3> DEFINE m == Min(dashes)
    <3>0. dashes \in SUBSET Nat OBVIOUS
    <3>1. m \in dashes /\ \A k \in dashes : m <= k
      <4> HIDE DEF dashes
      <4> QED BY <2>2, <3>0, MinIs
    <3>2. lb = SubSeq(z, m, c) BY <2>2 DEF FromFirstDash
    <3> HIDE DEF m
    <3>3. m \in 1..c /\ c \in 1..c BY <1>1, <3>1
    <3>4. /\ lb \in Seq(S) /\ Len(lb) = c - m + 1
          /\ \A k \in 1..(c - m + 1) : lb[k] = z[m + k - 1]
      BY <3>2, <3>3
    <3>5. \A k \in 1..(m - 1) : z[k] # "-"
      <4> TAKE k \in 1..(m - 1)
      <4>1. k \in 1..c /\ ~(m <= k) BY <1>1, <3>3
      <4> QED BY <3>1, <4>1
    <3> HIDE DEF c, dashes
    <3>6. m \in 1..(c + 1) /\ \A k \in 1..(c - m + 1) : m + k - 1 = (m - 1) + k BY <1>1, <3>3
    <3>7. \A k \in 1..(c - m + 1) : lb[k] = z[(m - 1) + k] BY <3>4, <3>6
    <3> QED BY <3>4, <3>5, <3>6, <3>7
  <2> QED BY <2>1, <2>2
<1> HIDE DEF c, T
<1>3. PICK m \in 1..(c + 1) : /\ lb \in Seq(S) /\ Len(lb) = c - m + 1
                              /\ \A k \in 1..(c - m + 1) : lb[k] = z[(m - 1) + k]
                              /\ \A k \in 1..(m - 1) : z[k] # "-"
  BY <1>2
<1> DEFINE l == c - m + 1
<1>4. l \in Nat /\ l <= limit /\ l <= T /\ T - l \in Nat /\ (T - l) + l <= T BY <1>1, <1>3
<1>5. ASSUME NEW k \in 1..l PROVE t[(T - l) + k] = lb[k]
  <2>1. (m - 1) + k \in 1..c /\ (T - c) + ((m - 1) + k) = (T - l) + k BY <1>1, <1>3
  <2>2. lb[k] = z[(m - 1) + k] BY <1>3
  <2> QED BY <1>1, <2>1, <2>2
<1>6. ASSUME NEW k \in 1..(T - l), k > T - limit PROVE t[k] # "-"
  <2>1. CASE k \in 1..(T - c) BY <1>1, <1>6, <2>1
  <2>2. CASE ~(k \in 1..(T - c))
    <3>1. k - (T - c) \in 1..(m - 1) /\ k - (T - c) \in 1..c /\ (T - c) + (k - (T - c)) = k
      BY <1>1, <1>3, <2>2
    <3> HIDE DEF l
    <3> QED BY <1>1, <1>3, <3>1
  <2> QED BY <2>1, <2>2
<1>7. Len(lb) = l BY <1>3
<1> HIDE DEF l
<1> QED BY <1>3, <1>4, <1>5, <1>6, <1>7 DEF Ends, Aligned, T

LEMMA LookbehindIs ==
  ASSUME DelimiterConstants, NEW S, NEW y \in Seq(S), NEW t \in Seq(S),
         Ends(y, t, MAX_DELIMITER_LEN - 1)
  PROVE  Lookbehind(y) \in Seq(S) /\ LookbehindFits(Lookbehind(y), t)
<1> DEFINE limit == MAX_DELIMITER_LEN - 1
           z == ByteSuffix(y, limit)
<1>1. limit \in Nat
  <2>1. MAX_DELIMITER_LEN \in Nat \ {0} BY LongestLabel
  <2> QED BY <2>1
<1>2. Lookbehind(y) = FromFirstDash(z) BY DEF Lookbehind
<1> HIDE DEF limit, z
<1>3. z \in Seq(S) /\ Len(z) <= limit /\ Ends(z, t, limit) BY <1>1, SuffixEnds DEF limit, z
<1>4. Lookbehind(y) \in Seq(S) /\ Len(Lookbehind(y)) <= limit /\ Ends(Lookbehind(y), t, limit)
  BY <1>1, <1>2, <1>3, FromFirstDashEnds
<1> QED BY <1>4 DEF LookbehindFits, limit

(* What the tracker is to know of a text.                                  *)
TrackerFits(S, known, t) ==
  /\ known.processed = Len(t)
  /\ known.lookbehind \in Seq(S) /\ LookbehindFits(known.lookbehind, t)
  /\ DashesAreNotShared(t) => known.state = StateAt(t, Len(t))

LEMMA NewTrackerFits ==
  ASSUME DelimiterConstants, NEW S
  PROVE  TrackerFits(S, NewTracker, <<>>)
<1>1. <<>> \in Seq(S) /\ Len(<<>>) = 0 OBVIOUS
<1>2. MAX_DELIMITER_LEN \in Nat \ {0} BY LongestLabel
<1>3. /\ NewTracker.processed = 0 /\ NewTracker.lookbehind = <<>>
      /\ NewTracker.state = NewState
  BY DEF NewTracker
<1> DEFINE e == <<>>
<1>4. e \in Seq(S) /\ Len(e) = 0 BY <1>1
<1>5. StateAt(e, 0) = NewState BY <1>4, StateAtIs
<1> HIDE DEF e
<1>6. Aligned(e, e, 0) BY <1>4 DEF Aligned
<1>7. LookbehindFits(e, e)
  <2>1. 0 <= MAX_DELIMITER_LEN - 1 BY <1>2
  <2>2. 0 - 0 = 0 /\ 1..0 = {} OBVIOUS
  <2> QED BY <1>4, <1>6, <2>1, <2>2 DEF LookbehindFits, Ends
<1> QED BY <1>3, <1>4, <1>5, <1>7 DEF TrackerFits, e

(* A text and a piece.                                                     *)
LEMMA PieceAligned ==
  ASSUME NEW S, NEW t \in Seq(S), NEW p \in Seq(S)
  PROVE  /\ t \o p \in Seq(S) /\ Len(t \o p) = Len(t) + Len(p)
         /\ Len(t) \in Nat /\ Len(p) \in Nat
         /\ Aligned(t, t \o p, 0) /\ Aligned(p, t \o p, Len(t))
<1> DEFINE T == Len(t)
           N == Len(p)
           u == t \o p
<1>1. /\ u \in Seq(S) /\ Len(u) = T + N /\ T \in Nat /\ N \in Nat
      /\ \A i \in 1..(T + N) : u[i] = IF i <= T THEN t[i] ELSE p[i - T]
  BY ConcatProperties
<1> HIDE DEF u, T, N
<1>2. \A k \in 1..T : u[0 + k] = t[k] BY <1>1
<1>3. \A k \in 1..N : u[T + k] = p[k]
  <2> TAKE k \in 1..N
  <2>1. T + k \in 1..(T + N) /\ ~(T + k <= T) /\ (T + k) - T = k BY <1>1
  <2> QED BY <1>1, <2>1
<1>4. 0 + T <= T + N /\ T + N <= T + N BY <1>1
<1> QED BY <1>1, <1>2, <1>3, <1>4 DEF Aligned, u, T, N

(* What is joined to the lookbehind lies in the text with the piece.       *)
LEMMA JoinAligned ==
  ASSUME NEW S, NEW t \in Seq(S), NEW p \in Seq(S), NEW lb \in Seq(S),
         Len(lb) <= Len(t), Aligned(lb, t, Len(t) - Len(lb)), NEW head \in 0..Len(p)
  PROVE  /\ lb \o SubSeq(p, 1, head) \in Seq(S)
         /\ Len(lb \o SubSeq(p, 1, head)) = Len(lb) + head
         /\ Aligned(lb \o SubSeq(p, 1, head), t \o p, Len(t) - Len(lb))
<1> DEFINE T == Len(t)
           N == Len(p)
           B == Len(lb)
           u == t \o p
           h == SubSeq(p, 1, head)
           j == lb \o h
<1>1. /\ u \in Seq(S) /\ Len(u) = T + N /\ T \in Nat /\ N \in Nat /\ B \in Nat
      /\ B <= T /\ head \in Nat /\ head <= N
      /\ \A i \in 1..(T + N) : u[i] = IF i <= T THEN t[i] ELSE p[i - T]
      /\ \A k \in 1..B : t[(T - B) + k] = lb[k]
  <2>1. /\ u \in Seq(S) /\ Len(u) = T + N /\ T \in Nat /\ N \in Nat /\ B \in Nat
        /\ \A i \in 1..(T + N) : u[i] = IF i <= T THEN t[i] ELSE p[i - T]
    BY ConcatProperties
  <2>2. \A k \in 1..B : t[(T - B) + k] = lb[k] BY DEF Aligned
  <2> HIDE DEF u
  <2> QED BY <2>1, <2>2
<1>2. h \in Seq(S) /\ Len(h) = head /\ \A k \in 1..head : h[k] = p[k]
  <2>1. CASE head = 0
    <3>1. SubSeq(p, 1, 0) = <<>> BY SubSeqEmpty
    <3> QED BY <2>1, <3>1
  <2>2. CASE head # 0
    <3>1. 1 \in 1..Len(p) /\ head \in 1..Len(p) BY <2>2
    <3> QED BY <3>1
  <2> QED BY <2>1, <2>2
<1> HIDE DEF u, h, T, N, B
<1>3. /\ j \in Seq(S) /\ Len(j) = B + head
      /\ \A k \in 1..(B + head) : j[k] = IF k <= B THEN lb[k] ELSE h[k - B]
  <2>1. /\ j \in Seq(S) /\ Len(j) = Len(lb) + Len(h)
        /\ \A k \in 1..(Len(lb) + Len(h)) : j[k] = IF k <= Len(lb) THEN lb[k] ELSE h[k - Len(lb)]
    BY <1>2, ConcatProperties
  <2> HIDE DEF j
  <2> QED BY <1>2, <2>1 DEF B
<1> HIDE DEF j
<1>4. ASSUME NEW k \in 1..(B + head) PROVE u[(T - B) + k] = j[k]
  <2>1. CASE k <= B
    <3>1. (T - B) + k \in 1..(T + N) /\ (T - B) + k <= T /\ k \in 1..B BY <1>1, <2>1
    <3> QED BY <1>1, <1>3, <2>1, <3>1
  <2>2. CASE ~(k <= B)
    <3>1. /\ (T - B) + k \in 1..(T + N) /\ ~((T - B) + k <= T) /\ k - B \in 1..head
          /\ ((T - B) + k) - T = k - B
      BY <1>1, <2>2
    <3> QED BY <1>1, <1>2, <1>3, <2>2, <3>1
  <2> QED BY <2>1, <2>2
<1>5. T - B \in Nat /\ (T - B) + (B + head) <= T + N BY <1>1
<1>6. Aligned(j, u, T - B) BY <1>1, <1>3, <1>4, <1>5 DEF Aligned
<1> QED BY <1>3, <1>6 DEF j, h, u, T, B

(* A delimiter that ends in the piece starts in the lookbehind or in it.   *)
LEMMA ReachesBack ==
  ASSUME DelimiterConstants, NEW S, NEW t \in Seq(S), NEW p \in Seq(S), NEW lb \in Seq(S),
         LookbehindFits(lb, t), NEW d \in DelimitersOf(t \o p), d.end > Len(t)
  PROVE  d.start >= Len(t) - Len(lb)
<1> DEFINE T == Len(t)
           B == Len(lb)
           u == t \o p
           limit == MAX_DELIMITER_LEN - 1
<1>1. /\ u \in Seq(S) /\ T \in Nat /\ \A k \in 1..T : u[0 + k] = t[k]
  <2>1. u \in Seq(S) /\ T \in Nat /\ Aligned(t, u, 0) BY PieceAligned
  <2> QED BY <2>1 DEF Aligned
<1> HIDE DEF u
<1>2. /\ d.start \in Nat /\ d.end \in Nat /\ d.end - d.start <= MAX_DELIMITER_LEN
      /\ u[d.start + 1] = "-"
  BY <1>1, DelimitersOfAre DEF u
<1>3. MAX_DELIMITER_LEN \in Nat BY LongestLabel
<1>4. /\ B \in Nat /\ B <= T /\ \A k \in 1..(T - B) : k > T - limit => t[k] # "-"
  BY DEF LookbehindFits, Ends
<1>5. limit = MAX_DELIMITER_LEN - 1 OBVIOUS
<1> HIDE DEF T, B, limit
<1> SUFFICES ASSUME d.start < T - B PROVE FALSE
  BY <1>1, <1>2, <1>4 DEF T, B
<1>6. d.end > T BY DEF T
<1> DEFINE k == d.start + 1
<1>7. k \in 1..(T - B) /\ k > T - limit /\ k \in 1..T /\ 0 + k = k
  BY <1>1, <1>2, <1>3, <1>4, <1>5, <1>6
<1>8. u[k] = "-" BY <1>2
<1> HIDE DEF k
<1>9. t[k] = "-" BY <1>1, <1>7, <1>8
<1> QED BY <1>4, <1>7, <1>9

(* A text that is looked at whole, or from the lookbehind on, leaves what  *)
(* may begin a delimiter.                                                  *)
LEMMA EndsOfPiece ==
  ASSUME DelimiterConstants, NEW S, NEW t \in Seq(S), NEW p \in Seq(S), NEW lb \in Seq(S),
         LookbehindFits(lb, t), NEW y \in Seq(S),
         Aligned(y, t \o p, Len(t \o p) - Len(y)), Len(y) <= Len(t \o p),
         Len(y) = Len(lb) + Len(p) \/ (Len(y) = Len(p) /\ Len(p) >= MAX_DELIMITER_LEN - 1)
  PROVE  Lookbehind(y) \in Seq(S) /\ LookbehindFits(Lookbehind(y), t \o p)
<1> DEFINE T == Len(t)
           N == Len(p)
           B == Len(lb)
           u == t \o p
           limit == MAX_DELIMITER_LEN - 1
<1>1. /\ u \in Seq(S) /\ Len(u) = T + N /\ T \in Nat /\ N \in Nat
      /\ \A k \in 1..T : u[0 + k] = t[k]
  <2>1. u \in Seq(S) /\ Len(u) = T + N /\ T \in Nat /\ N \in Nat /\ Aligned(t, u, 0)
    BY PieceAligned
  <2> QED BY <2>1 DEF Aligned
<1>2. MAX_DELIMITER_LEN \in Nat BY LongestLabel
<1>3. /\ B \in Nat /\ B <= T /\ \A k \in 1..(T - B) : k > T - limit => t[k] # "-"
  BY DEF LookbehindFits, Ends
<1>4. Len(y) = B + N \/ (Len(y) = N /\ N >= limit) OBVIOUS
<1>5. Aligned(y, u, Len(u) - Len(y)) /\ Len(y) <= Len(u) OBVIOUS
<1>6. limit = MAX_DELIMITER_LEN - 1 OBVIOUS
<1> HIDE DEF T, N, B, u, limit
<1>7. ASSUME NEW k \in 1..(Len(u) - Len(y)), k > Len(u) - limit PROVE u[k] # "-"
  <2>1. CASE Len(y) = B + N
    <3>1. k \in 1..(T - B) /\ k > T - limit /\ k \in 1..T /\ 0 + k = k
      BY <1>1, <1>2, <1>3, <1>6, <1>7, <2>1
    <3> QED BY <1>1, <1>3, <3>1
  <2>2. CASE Len(y) = N /\ N >= limit
    BY <1>1, <1>2, <1>6, <1>7, <2>2
  <2> QED BY <1>4, <2>1, <2>2
<1>8. Ends(y, u, limit) BY <1>5, <1>7 DEF Ends
<1> QED BY <1>1, <1>8, LookbehindIs DEF u, limit

(* What is due of the longer text, behind the shorter.                     *)
LEMMA DueBehind ==
  ASSUME DelimiterConstants, NEW S, NEW t \in Seq(S), NEW p \in Seq(S), NEW lb \in Seq(S),
         LookbehindFits(lb, t), NEW limit
  PROVE  Due(t \o p, limit, Len(t), Len(t) - Len(lb), Len(t))
<1>1. \A d \in DelimitersOf(t \o p) : d.end > Len(t) => d.start >= Len(t) - Len(lb)
  BY ReachesBack
<1> QED BY <1>1 DEF Due

(* A scan of a piece in place.                                             *)
LEMMA PieceScanned ==
  ASSUME DelimiterConstants, NEW S, NEW p \in Seq(S), NEW u \in Seq(S), NEW T \in Nat,
         Aligned(p, u, T), DashesAreNotShared(u), NEW from \in 0..Len(p), NEW a \in Nat,
         a <= T + Len(p), Due(u, T + Len(p), a, T + from, T)
  PROVE  ScanDelimiters(p, from, StateAt(u, a), T, T).state = StateAt(u, T + Len(p))
<1> DEFINE scan == ScanDelimiters(p, from, StateAt(u, a), T, T)
<1>1. scan = ScanDelimiters(p, from, StateAt(u, a), T, T) OBVIOUS
<1> HIDE DEF scan
<1>2. scan.state = StateAt(u, T + Len(p)) BY <1>1, ScanIs
<1> QED BY <1>1, <1>2

(* A piece is scanned on its own when nothing is kept to join it to.       *)
LEMMA AloneFits ==
  ASSUME DelimiterConstants, NEW S, NEW t \in Seq(S), NEW p \in Seq(S), NEW lb \in Seq(S),
         LookbehindFits(lb, t), Len(lb) = 0, DashesAreNotShared(t \o p)
  PROVE  ScanDelimiters(p, 0, StateAt(t \o p, Len(t)), Len(t), Len(t)).state
           = StateAt(t \o p, Len(t \o p))
<1> DEFINE u == t \o p
           scan == ScanDelimiters(p, 0, StateAt(u, Len(t)), Len(t), Len(t))
<1>1. /\ u \in Seq(S) /\ Len(u) = Len(t) + Len(p) /\ Len(t) \in Nat /\ Len(p) \in Nat
      /\ Aligned(p, u, Len(t))
  BY PieceAligned
<1>2. Due(u, Len(t) + Len(p), Len(t), Len(t) - Len(lb), Len(t)) BY DueBehind
<1>3. Len(t) - Len(lb) = Len(t) + 0 /\ 0 \in 0..Len(p) /\ Len(t) <= Len(t) + Len(p) BY <1>1
<1>4. Due(u, Len(t) + Len(p), Len(t), Len(t) + 0, Len(t)) BY <1>2, <1>3
<1>5. DashesAreNotShared(u) /\ scan = ScanDelimiters(p, 0, StateAt(u, Len(t)), Len(t), Len(t))
  OBVIOUS
<1> HIDE DEF u, scan
<1>6. scan.state = StateAt(u, Len(t) + Len(p)) BY <1>1, <1>3, <1>4, <1>5, PieceScanned
<1> QED BY <1>1, <1>6 DEF u, scan

(* A piece joined to the lookbehind, as far as head reaches.               *)
LEMMA JunctionFits ==
  ASSUME DelimiterConstants, NEW S, NEW t \in Seq(S), NEW p \in Seq(S), NEW lb \in Seq(S),
         LookbehindFits(lb, t), DashesAreNotShared(t \o p), NEW head \in 0..Len(p),
         NEW junction, junction = ScanDelimiters(lb \o SubSeq(p, 1, head), 0,
                                                 StateAt(t \o p, Len(t)), Len(t), Len(t) - Len(lb))
  PROVE  /\ junction.position \in Nat
         /\ junction.state = StateAt(t \o p, Len(t) + head)
         /\ junction.position = 0 \/ \E d \in DelimitersOf(t \o p) :
              d.end = (Len(t) - Len(lb)) + junction.position
         /\ junction.position <= Len(lb) + head
         /\ \A d \in DelimitersOf(t \o p) : d.end <= Len(t) + head =>
              d.start < (Len(t) - Len(lb)) + junction.position
<1> DEFINE u == t \o p
           j == lb \o SubSeq(p, 1, head)
           T == Len(t)
           B == Len(lb)
           o == T - B
<1>1. u \in Seq(S) /\ T \in Nat BY PieceAligned
<1>2. B \in Nat /\ B <= T /\ Aligned(lb, t, T - B) BY DEF LookbehindFits, Ends
<1>3. j \in Seq(S) /\ Len(j) = B + head /\ Aligned(j, u, o) BY <1>2, JoinAligned
<1>4. Due(u, o + Len(j), T, o, T) BY DueBehind
<1>5. DashesAreNotShared(u) OBVIOUS
<1>6. junction = ScanDelimiters(j, 0, StateAt(u, T), T, o) OBVIOUS
<1> HIDE DEF u, j, T, B
<1>7. head \in Nat /\ o + 0 = o /\ 0 \in 0..Len(j) /\ T <= o + Len(j) /\ o + Len(j) = T + head
  BY <1>1, <1>2, <1>3
<1>8. Due(u, o + Len(j), T, o + 0, T) BY <1>4, <1>7
<1> HIDE DEF o
<1>9. /\ junction.position \in 0..Len(j)
      /\ junction.state = StateAt(u, o + Len(j))
      /\ junction.position = 0 \/ \E d \in DelimitersOf(u) : d.end = o + junction.position
      /\ \A d \in DelimitersOf(u) : d.end <= o + Len(j) => d.start < o + junction.position
  BY <1>1, <1>3, <1>5, <1>6, <1>7, <1>8, ScanIs
<1>10. junction.position \in Nat /\ junction.position <= B + head BY <1>3, <1>9
<1> QED BY <1>7, <1>9, <1>10 DEF u, T, B, o

(* The rest of a long piece, from where the junction's scan ended.         *)
LEMMA RestFits ==
  ASSUME DelimiterConstants, NEW S, NEW t \in Seq(S), NEW p \in Seq(S), NEW lb \in Seq(S),
         LookbehindFits(lb, t), DashesAreNotShared(t \o p), NEW head,
         head = MAX_DELIMITER_LEN - 1, head <= Len(p), NEW q \in Nat, q <= Len(lb) + head,
         q = 0 \/ \E d \in DelimitersOf(t \o p) : d.end = (Len(t) - Len(lb)) + q,
         \A d \in DelimitersOf(t \o p) :
           d.end <= Len(t) + head => d.start < (Len(t) - Len(lb)) + q,
         NEW from, from = (IF q > Len(lb) THEN q - Len(lb) ELSE 0)
  PROVE  ScanDelimiters(p, from, StateAt(t \o p, Len(t) + head), Len(t), Len(t)).state
           = StateAt(t \o p, Len(t \o p))
<1> DEFINE u == t \o p
           T == Len(t)
           N == Len(p)
           B == Len(lb)
           a == T + head
           scan == ScanDelimiters(p, from, StateAt(u, a), T, T)
<1>1. /\ u \in Seq(S) /\ Len(u) = T + N /\ T \in Nat /\ N \in Nat /\ Aligned(p, u, T)
  BY PieceAligned
<1>2. B \in Nat /\ B <= T BY DEF LookbehindFits, Ends
<1>3. MAX_DELIMITER_LEN \in Nat \ {0} /\ head \in Nat /\ head <= N
  <2>1. MAX_DELIMITER_LEN \in Nat \ {0} BY LongestLabel
  <2> QED BY <2>1
<1>4. DashesAreNotShared(u) OBVIOUS
<1>5. /\ q = 0 \/ \E d \in DelimitersOf(u) : d.end = (T - B) + q
      /\ \A d \in DelimitersOf(u) : d.end <= a => d.start < (T - B) + q
      /\ q <= B + head /\ from = IF q > B THEN q - B ELSE 0
  OBVIOUS
<1>6. head = MAX_DELIMITER_LEN - 1 OBVIOUS
<1>7. a = T + head OBVIOUS
<1> HIDE DEF u, T, N, B, a
<1>8. from \in 0..N /\ from \in Nat /\ a \in Nat /\ a <= T + N BY <1>1, <1>2, <1>3, <1>5, <1>7
<1>9. ASSUME NEW d \in DelimitersOf(u) PROVE d.end > a <=> d.start >= T + from /\ d.end > T
  <2>0. d.start \in Nat /\ d.end \in Nat /\ d.start < d.end /\ d.end - d.start <= MAX_DELIMITER_LEN
    BY <1>1, DelimitersOfAre
  <2>1. ASSUME d.end > a PROVE d.start >= T + from /\ d.end > T
    <3>1. d.start >= T /\ d.end > T BY <1>1, <1>3, <1>6, <1>7, <2>0, <2>1
    <3>2. CASE q > B
      <4>1. PICK e \in DelimitersOf(u) : e.end = (T - B) + q BY <1>2, <1>5, <3>2
      <4>2. e.start \in Nat /\ e.end \in Nat /\ e.start < e.end BY <1>1, DelimitersOfAre
      <4>0. from = q - B /\ q <= B + head BY <1>5, <3>2
      <4>3. e.end = T + from /\ e.end <= a
        <5>1. (T - B) + q = T + (q - B) BY <1>1, <1>2
        <5>2. e.end = T + from BY <4>0, <4>1, <5>1
        <5>3. (T - B) + q <= T + head BY <1>1, <1>2, <1>3, <4>0
        <5>4. e.end <= a BY <1>7, <4>1, <5>3
        <5> QED BY <5>2, <5>4
      <4>4. e # d BY <1>8, <2>0, <2>1, <4>3
      <4>5. d.end <= e.start \/ e.end <= d.start BY <1>1, <1>4, <4>4, DelimitersApart
      <4>6. e.end <= d.start BY <1>8, <2>0, <2>1, <4>2, <4>3, <4>5
      <4> QED BY <3>1, <4>3, <4>6
    <3>3. CASE ~(q > B)
      <4>1. from = 0 BY <1>5, <3>3
      <4>2. T + from = T BY <1>1, <4>1
      <4> QED BY <3>1, <4>2
    <3> QED BY <3>2, <3>3
  <2>2. ASSUME d.start >= T + from PROVE d.end > a
    <3> SUFFICES ASSUME d.end <= a PROVE FALSE BY <1>8, <2>0
    <3>1. d.start < (T - B) + q BY <1>5
    <3>2. T + from >= (T - B) + q BY <1>1, <1>2, <1>5
    <3> QED BY <1>1, <1>2, <1>8, <2>0, <2>2, <3>1, <3>2
  <2> QED BY <2>1, <2>2
<1>10. Due(u, T + N, a, T + from, T) BY <1>9 DEF Due
<1>11. scan.state = StateAt(u, T + N)
  <2>1. Len(p) = N /\ scan = ScanDelimiters(p, from, StateAt(u, a), T, T) BY DEF N
  <2> HIDE DEF scan
  <2>2. Due(u, T + Len(p), a, T + from, T) /\ from \in 0..Len(p) /\ a <= T + Len(p)
    BY <1>8, <1>10, <2>1
  <2>3. /\ Aligned(p, u, T) /\ DashesAreNotShared(u) /\ T \in Nat /\ a \in Nat /\ u \in Seq(S)
        /\ scan = ScanDelimiters(p, from, StateAt(u, a), T, T)
    BY <1>1, <1>4, <1>8, <2>1
  <2>4. scan.state = StateAt(u, T + Len(p)) BY <2>2, <2>3, PieceScanned
  <2> QED BY <2>1, <2>4
<1> QED BY <1>1, <1>11 DEF u, T, N, B, a

(* The tracker goes on knowing what it is to know, piece by piece: its     *)
(* state accounts for the delimiters of all the text, and what it keeps of *)
(* the text is all a delimiter not yet ended may begin in (private_key.rs, *)
(* PrivateKeyRetentionTracker::append).                                    *)
THEOREM TrackedFits ==
  ASSUME DelimiterConstants, NEW S, NEW t \in Seq(S), NEW p \in Seq(S), NEW known,
         TrackerFits(S, known, t)
  PROVE  TrackerFits(S, Tracked(known, p), t \o p)
<1> DEFINE u == t \o p
           T == Len(t)
           lb == known.lookbehind
           B == Len(lb)
           head == Lesser(Len(p), MAX_DELIMITER_LEN - 1)
           join == lb \o SubSeq(p, 1, head)
           junction == ScanDelimiters(join, 0, known.state, T, T - B)
           after == Tracked(known, p)
           Alone(from, state) ==
             [state |-> ScanDelimiters(p, from, state, T, T).state,
              processed |-> T + Len(p), lookbehind |-> Lookbehind(p)]
           Joined == [state |-> junction.state, processed |-> T + Len(p),
                      lookbehind |-> Lookbehind(join)]
           resumed == IF junction.position > B THEN junction.position - B ELSE 0
<1>1. known.processed = T /\ lb \in Seq(S) /\ LookbehindFits(lb, t) BY DEF TrackerFits
<1>2. DashesAreNotShared(u) => known.state = StateAt(u, T)
  <2>1. /\ u \in Seq(S) /\ Aligned(t, u, 0) /\ T \in 0..T
    BY PieceAligned
  <2>2. DashesAreNotShared(u) => DashesAreNotShared(t) /\ StateAt(t, T) = StateAt(u, T)
    BY <2>1, StateBegins
  <2> QED BY <2>2 DEF TrackerFits
<1>3. after = IF B = 0 THEN Alone(0, known.state)
              ELSE IF head = Len(p) THEN Joined
              ELSE Alone(resumed, junction.state)
  BY <1>1 DEF Tracked
<1>4. /\ u \in Seq(S) /\ Len(u) = T + Len(p) /\ T \in Nat /\ Len(p) \in Nat
      /\ Aligned(p, u, T)
  BY PieceAligned
<1>5. MAX_DELIMITER_LEN \in Nat \ {0} BY LongestLabel
<1>6. /\ head \in 0..Len(p) /\ head <= MAX_DELIMITER_LEN - 1
      /\ (head = Len(p) \/ head = MAX_DELIMITER_LEN - 1)
  BY <1>4, <1>5 DEF Lesser
<1>7. B \in Nat /\ B <= T /\ Aligned(lb, t, T - B) BY <1>1 DEF LookbehindFits, Ends
<1>8. join \in Seq(S) /\ Len(join) = B + head /\ Aligned(join, u, T - B)
  BY <1>1, <1>6, <1>7, JoinAligned
<1> HIDE DEF after, lb, head, u, T, B, join
<1>9. ASSUME B = 0 \/ Len(p) >= MAX_DELIMITER_LEN - 1
      PROVE  Lookbehind(p) \in Seq(S) /\ LookbehindFits(Lookbehind(p), u)
  <2>1. Len(u) - Len(p) = T /\ Len(p) <= Len(u) BY <1>4
  <2>2. Len(p) = B + Len(p) \/ (Len(p) = Len(p) /\ Len(p) >= MAX_DELIMITER_LEN - 1)
    BY <1>4, <1>9
  <2>3. Aligned(p, u, Len(u) - Len(p)) BY <1>4, <2>1
  <2> QED BY <1>1, <2>1, <2>2, <2>3, EndsOfPiece DEF u, B
<1>10. CASE B = 0
  <2>1. after = Alone(0, known.state) BY <1>3, <1>10
  <2>2. /\ after.state = ScanDelimiters(p, 0, known.state, T, T).state
        /\ after.processed = T + Len(p) /\ after.lookbehind = Lookbehind(p)
    BY <2>1
  <2>3. DashesAreNotShared(u) => after.state = StateAt(u, Len(u))
    <3> SUFFICES ASSUME DashesAreNotShared(u) PROVE after.state = StateAt(u, Len(u)) OBVIOUS
    <3>1. ScanDelimiters(p, 0, StateAt(u, T), T, T).state = StateAt(u, Len(u))
      BY <1>1, <1>10, AloneFits DEF u, T, B
    <3> QED BY <1>2, <2>2, <3>1
  <2> QED BY <1>4, <1>9, <1>10, <2>2, <2>3 DEF TrackerFits, after, u
<1>11. CASE B # 0 /\ head = Len(p)
  <2>1. after = Joined BY <1>3, <1>11
  <2>2. /\ after.state = junction.state
        /\ after.processed = T + Len(p) /\ after.lookbehind = Lookbehind(join)
    BY <2>1
  <2>3. DashesAreNotShared(u) => after.state = StateAt(u, Len(u))
    <3> SUFFICES ASSUME DashesAreNotShared(u) PROVE after.state = StateAt(u, Len(u)) OBVIOUS
    <3>1. junction = ScanDelimiters(join, 0, StateAt(u, T), T, T - B) BY <1>2
    <3> HIDE DEF junction
    <3>2. junction.state = StateAt(u, T + head)
      BY <1>1, <1>6, <3>1, JunctionFits DEF u, T, B, join
    <3> QED BY <1>4, <1>11, <2>2, <3>2
  <2>4. Lookbehind(join) \in Seq(S) /\ LookbehindFits(Lookbehind(join), u)
    <3>1. Len(u) - Len(join) = T - B /\ Len(join) <= Len(u) /\ Len(join) = B + Len(p)
      BY <1>4, <1>7, <1>8, <1>11
    <3>2. Aligned(join, u, Len(u) - Len(join)) BY <1>8, <3>1
    <3> QED BY <1>1, <1>8, <3>1, <3>2, EndsOfPiece DEF u, B
  <2> HIDE DEF junction
  <2> QED BY <1>4, <2>2, <2>3, <2>4 DEF TrackerFits, after, u
<1>12. CASE B # 0 /\ head # Len(p)
  <2>1. after = Alone(resumed, junction.state) BY <1>3, <1>12
  <2>2. /\ after.state = ScanDelimiters(p, resumed, junction.state, T, T).state
        /\ after.processed = T + Len(p) /\ after.lookbehind = Lookbehind(p)
    BY <2>1
  <2>3. head = MAX_DELIMITER_LEN - 1 /\ head <= Len(p) BY <1>6, <1>12
  <2>4. DashesAreNotShared(u) => after.state = StateAt(u, Len(u))
    <3> SUFFICES ASSUME DashesAreNotShared(u) PROVE after.state = StateAt(u, Len(u)) OBVIOUS
    <3>1. junction = ScanDelimiters(join, 0, StateAt(u, T), T, T - B) BY <1>2
    <3> HIDE DEF junction
    <3>2. /\ junction.position \in Nat
          /\ junction.state = StateAt(u, T + head)
          /\ junction.position = 0 \/ \E d \in DelimitersOf(u) :
               d.end = (T - B) + junction.position
          /\ junction.position <= B + head
          /\ \A d \in DelimitersOf(u) : d.end <= T + head =>
               d.start < (T - B) + junction.position
      BY <1>1, <1>6, <3>1, JunctionFits DEF u, T, B, join
    <3>3. ScanDelimiters(p, resumed, StateAt(u, T + head), T, T).state = StateAt(u, Len(u))
      <4> DEFINE q == junction.position
      <4>1. /\ q \in Nat /\ q <= B + head
            /\ q = 0 \/ \E d \in DelimitersOf(u) : d.end = (T - B) + q
            /\ \A d \in DelimitersOf(u) : d.end <= T + head => d.start < (T - B) + q
            /\ resumed = IF q > B THEN q - B ELSE 0
        BY <3>2
      <4> HIDE DEF q, resumed
      <4> QED BY <1>1, <2>3, <4>1, RestFits DEF u, T, B
    <3> HIDE DEF resumed
    <3> QED BY <2>2, <3>2, <3>3
  <2> HIDE DEF junction, resumed
  <2>5. Len(p) >= MAX_DELIMITER_LEN - 1 BY <2>3, <1>4, <1>5
  <2> QED BY <1>4, <1>9, <2>2, <2>4, <2>5 DEF TrackerFits, after, u
<1> QED BY <1>10, <1>11, <1>12

------------------------------------------------------------------------------
(* The view a session keeps.                                               *)

(* A unit ends behind a line feed, or with the text.                       *)
EndsUnit(at) ==
  at \in 0..Len(fed) /\ ((finished /\ at = Len(fed)) \/ (at # 0 /\ fed[at] = "n"))

ViewInvariant ==
  /\ appends \in Appends /\ finished \in BOOLEAN
  /\ fed \in Seq(AllBytes) /\ unitStart \in 0..Len(fed)
  /\ unitEnds \in Seq(Nat) /\ \A k \in DOMAIN unitEnds : EndsUnit(unitEnds[k])
  /\ CopyIsWhole /\ AnswersFor(openTail, Normalized(Unit)) /\ TailJudgedAsWhole
  /\ TrackerFits(AllBytes, tracker, Normalized(Unit)) /\ BlockJudgedAsWhole

(* The unit, and the unit when a piece was appended.                       *)
LEMMA UnitIs ==
  ASSUME NEW S, NEW text \in Seq(S), NEW from \in 0..Len(text), NEW piece \in Seq(S)
  PROVE  /\ SubSeq(text, from + 1, Len(text)) \in Seq(S)
         /\ SubSeq(text \o piece, from + 1, Len(text \o piece))
              = SubSeq(text, from + 1, Len(text)) \o piece
         /\ SubSeq(text \o piece, Len(text \o piece) + 1, Len(text \o piece)) = <<>>
<1> DEFINE all == text \o piece
           n == Len(text)
           a == SubSeq(text, from + 1, n)
           b == SubSeq(all, from + 1, Len(all))
<1>1. /\ all \in Seq(S) /\ Len(all) = n + Len(piece) /\ n \in Nat /\ Len(piece) \in Nat
      /\ \A i \in 1..(n + Len(piece)) : all[i] = IF i <= n THEN text[i] ELSE piece[i - n]
  BY ConcatProperties
<1>2. from \in Nat /\ from <= n BY <1>1
<1>3. a \in Seq(S) /\ Len(a) = n - from /\ \A i \in 1..(n - from) : a[i] = text[from + i]
  BY <1>2
<1> HIDE DEF all
<1>4. /\ b \in Seq(S) /\ Len(b) = n + Len(piece) - from
      /\ \A i \in 1..(n + Len(piece) - from) : b[i] = all[from + i]
  BY <1>1, <1>2
<1> DEFINE c == a \o piece
<1> HIDE DEF a, b, n
<1>5. /\ c \in Seq(S) /\ Len(c) = (n - from) + Len(piece)
      /\ \A i \in 1..((n - from) + Len(piece)) :
           c[i] = IF i <= n - from THEN a[i] ELSE piece[i - (n - from)]
  <2>1. a \in Seq(S) /\ Len(a) = n - from BY <1>3
  <2>2. /\ c \in Seq(S) /\ Len(c) = Len(a) + Len(piece)
        /\ \A i \in 1..(Len(a) + Len(piece)) :
             c[i] = IF i <= Len(a) THEN a[i] ELSE piece[i - Len(a)]
    BY <2>1, ConcatProperties, Zenon
  <2> HIDE DEF c
  <2> QED BY <2>1, <2>2
<1>6. ASSUME NEW i \in 1..(n + Len(piece) - from) PROVE b[i] = c[i]
  <2>1. from + i \in 1..(n + Len(piece)) /\ i \in 1..((n - from) + Len(piece)) BY <1>1, <1>2
  <2>2. b[i] = IF from + i <= n THEN text[from + i] ELSE piece[(from + i) - n]
    BY <1>1, <1>4, <2>1
  <2>3. CASE i <= n - from
    <3>1. i \in 1..(n - from) /\ from + i <= n BY <1>1, <1>2, <2>3
    <3> HIDE DEF c
    <3> QED BY <1>3, <1>5, <2>1, <2>2, <2>3, <3>1
  <2>4. CASE ~(i <= n - from)
    <3>1. ~(from + i <= n) /\ (from + i) - n = i - (n - from) BY <1>1, <1>2, <2>4
    <3> HIDE DEF c
    <3> QED BY <1>5, <2>1, <2>2, <2>4, <3>1
  <2> QED BY <2>3, <2>4
<1> HIDE DEF c
<1>7. b = c
  <2>1. Len(b) = Len(c) BY <1>1, <1>2, <1>4, <1>5
  <2>2. \A i \in 1..Len(b) : b[i] = c[i] BY <1>4, <1>6
  <2> QED BY <1>4, <1>5, <2>1, <2>2, SeqEqual
<1>8. SubSeq(all, Len(all) + 1, Len(all)) = <<>>
  <2>1. Len(all) \in Int /\ Len(all) + 1 \in Int /\ Len(all) < Len(all) + 1 BY <1>1
  <2> QED BY <2>1, SubSeqEmpty
<1> QED BY <1>3, <1>7, <1>8 DEF a, b, c, all, n

(* The copy grows to that of the longer unit.                              *)
LEMMA CopyGrowsToo ==
  ASSUME NEW S, Nowhere \notin Seq(S), NEW unit \in Seq(S), NEW piece \in Seq(S), NEW copy,
         CopyOf(copy, unit) = Normalized(unit)
  PROVE  CopyOf(Grown(copy, unit, piece), unit \o piece) = Normalized(unit \o piece)
<1>1. Normalized(unit \o piece) = Normalized(unit) \o Normalized(piece) BY NormalizedPieces
<1>2. /\ Normalized(unit) \in Seq(S) /\ Normalized(piece) \in Seq(S)
  BY NormalizedIs
<1>3. /\ unit \o Normalized(piece) \in Seq(S)
      /\ Normalized(unit) \o Normalized(piece) \in Seq(S)
  BY <1>2, ConcatProperties
<1>4. CASE copy # Nowhere
  <2>1. copy = Normalized(unit) BY <1>4 DEF CopyOf
  <2>2. Grown(copy, unit, piece) = Normalized(unit) \o Normalized(piece) BY <1>4, <2>1 DEF Grown
  <2>3. Grown(copy, unit, piece) # Nowhere BY <1>3, <2>2
  <2> QED BY <1>1, <2>2, <2>3 DEF CopyOf
<1>5. CASE copy = Nowhere
  <2>1. unit = Normalized(unit) BY <1>5 DEF CopyOf
  <2>2. CASE Normalized(piece) # piece
    <3>1. Grown(copy, unit, piece) = unit \o Normalized(piece) BY <1>5, <2>2 DEF Grown
    <3>2. Grown(copy, unit, piece) # Nowhere BY <1>3, <3>1
    <3> QED BY <1>1, <2>1, <3>1, <3>2 DEF CopyOf
  <2>3. CASE Normalized(piece) = piece
    <3>1. Grown(copy, unit, piece) = Nowhere BY <1>5, <2>3 DEF Grown
    <3> QED BY <1>1, <2>1, <2>3, <3>1 DEF CopyOf
  <2> QED BY <2>2, <2>3
<1> QED BY <1>4, <1>5

(* A block is open, and was begun, as one look at the whole unit says.     *)
LEMMA BlockIsWhole ==
  ASSUME DelimiterConstants, NEW S, NEW t \in Seq(S), NEW known, TrackerFits(S, known, t),
         DashesAreNotShared(t)
  PROVE  /\ HasOpenBlock(known) = (Parsed(t).stack # <<>>)
         /\ known.state.hasBegin = Parsed(t).hasBegin
<1>1. known.state = Parsed(t) BY ParsedIs DEF TrackerFits
<1> QED BY <1>1 DEF HasOpenBlock

(* The invariant holds at the start.                                       *)
LEMMA ViewBegins == ASSUME ViewConstants, ViewInit PROVE ViewInvariant
<1>1. /\ appends \in Appends /\ fed = <<>> /\ unitStart = 0 /\ unitEnds = <<>>
      /\ scanned = Nowhere /\ openTail = NewTail /\ judged = Nowhere /\ finished = FALSE
  BY DEF ViewInit
<1>2. fed \in Seq(AllBytes) /\ Len(fed) = 0 /\ unitStart \in 0..Len(fed) BY <1>1
<1>3. unitEnds \in Seq(Nat) /\ DOMAIN unitEnds = {} BY <1>1
<1>4. Unit = <<>>
  <2>1. SubSeq(fed, 0 + 1, 0) = <<>> BY SubSeqEmpty
  <2> QED BY <1>1, <1>2, <2>1 DEF Unit
<1>5. CopyIsWhole BY <1>1, <1>4, NormalizedEmpty DEF CopyIsWhole, CopyOf
<1>6. AnswersFor(openTail, Normalized(Unit))
  <2>1. <<>> \in Seq(AllBytes) OBVIOUS
  <2> QED BY <1>1, <1>4, <2>1, NormalizedEmpty, NewTailAnswers
<1>7. TailJudgedAsWhole BY <1>1 DEF TailJudgedAsWhole
<1>8. TrackerFits(AllBytes, tracker, Normalized(Unit))
  <2>1. tracker = NewTracker BY DEF ViewInit
  <2> QED BY <1>4, <2>1, NormalizedEmpty, NewTrackerFits DEF ViewConstants
<1>9. BlockJudgedAsWhole BY <1>1 DEF BlockJudgedAsWhole
<1> QED BY <1>1, <1>2, <1>3, <1>5, <1>6, <1>7, <1>8, <1>9 DEF ViewInvariant

(* Where units ended, they still do when more text comes.                  *)
LEMMA EndsStay ==
  ASSUME ViewInvariant, NEW piece \in Seq(AllBytes), fed' = fed \o piece, ~finished,
         finished' = finished
  PROVE  \A k \in DOMAIN unitEnds :
           unitEnds[k] \in 0..Len(fed') /\ unitEnds[k] # 0 /\ fed'[unitEnds[k]] = "n"
<1>1. /\ fed \in Seq(AllBytes) /\ unitEnds \in Seq(Nat)
      /\ \A k \in DOMAIN unitEnds : EndsUnit(unitEnds[k])
  BY DEF ViewInvariant
<1>2. /\ Len(fed') = Len(fed) + Len(piece) /\ Len(fed) \in Nat /\ Len(piece) \in Nat
      /\ \A i \in 1..Len(fed) : fed'[i] = fed[i]
  BY <1>1, ConcatProperties
<1> TAKE k \in DOMAIN unitEnds
<1>3. unitEnds[k] \in 0..Len(fed) /\ unitEnds[k] # 0 /\ fed[unitEnds[k]] = "n"
  BY <1>1 DEF EndsUnit
<1>4. unitEnds[k] \in 1..Len(fed) /\ unitEnds[k] \in 0..Len(fed') BY <1>2, <1>3
<1>5. fed'[unitEnds[k]] = "n" BY <1>2, <1>3, <1>4
<1> QED BY <1>3, <1>4, <1>5

(* A piece keeps the invariant: whether the unit goes on, is held, or      *)
(* closes.                                                                 *)
LEMMA AppendKeepsView ==
  ASSUME ViewConstants, ViewInvariant, NEW piece \in appends.pieces, AppendPiece(piece)
  PROVE  ViewInvariant'
<1>1. /\ appends \in Appends /\ fed \in Seq(AllBytes) /\ unitStart \in 0..Len(fed)
      /\ unitEnds \in Seq(Nat) /\ finished \in BOOLEAN
      /\ CopyIsWhole /\ AnswersFor(openTail, Normalized(Unit)) /\ TailJudgedAsWhole
  BY DEF ViewInvariant
<1>2. piece \in Seq(AllBytes) /\ piece # <<>> BY <1>1 DEF ViewConstants
<1> DEFINE copy == Grown(scanned, Unit, piece)
           tracked == Tracked(tracker, Normalized(piece))
           unit == Unit \o piece
           tail == JudgeTail(openTail, CopyOf(copy, unit))
           block == HasOpenBlock(tracked)
<1>3. /\ ~finished /\ fed' = fed \o piece /\ appends' = appends /\ finished' = finished
      /\ Retain(piece, copy, tracked)
  BY DEF AppendPiece
<1>4. /\ Unit \in Seq(AllBytes) /\ unit \in Seq(AllBytes)
      /\ SubSeq(fed', unitStart + 1, Len(fed')) = unit
      /\ SubSeq(fed', Len(fed') + 1, Len(fed')) = <<>>
  BY <1>1, <1>2, <1>3, UnitIs, ConcatProperties DEF Unit
<1>5. CopyOf(copy, unit) = Normalized(unit)
  <2>1. CopyOf(scanned, Unit) = Normalized(Unit) BY <1>1 DEF CopyIsWhole
  <2>2. Nowhere \notin Seq(AllBytes) BY DEF ViewConstants
  <2> QED BY <1>2, <1>4, <2>1, <2>2, CopyGrowsToo
<1>6. Normalized(unit) \in Seq(AllBytes) BY <1>4, NormalizedIs
<1>7. AnswersFor(openTail, Normalized(unit))
  <2>1. Normalized(Unit) \in Seq(AllBytes) /\ Normalized(piece) \in Seq(AllBytes)
    BY <1>2, <1>4, NormalizedIs
  <2>2. Normalized(unit) = Normalized(Unit) \o Normalized(piece)
    BY <1>2, <1>4, NormalizedPieces
  <2> QED BY <1>1, <2>1, <2>2, AnswersStay
<1>8. tail.open = HasOpenAssignment(Normalized(unit)) /\ AnswersFor(tail, Normalized(unit))
  BY <1>5, <1>6, <1>7, TailAnswers
<1>17. TrackerFits(AllBytes, tracked, Normalized(unit))
  <2>1. Normalized(Unit) \in Seq(AllBytes) /\ Normalized(piece) \in Seq(AllBytes)
    BY <1>2, <1>4, NormalizedIs
  <2>2. Normalized(unit) = Normalized(Unit) \o Normalized(piece)
    BY <1>2, <1>4, NormalizedPieces
  <2>3. TrackerFits(AllBytes, tracker, Normalized(Unit)) BY DEF ViewInvariant
  <2>4. DelimiterConstants BY DEF ViewConstants
  <2>5. TrackerFits(AllBytes, Tracked(tracker, Normalized(piece)),
                    Normalized(Unit) \o Normalized(piece))
    BY <2>1, <2>3, <2>4, TrackedFits
  <2> QED BY <2>2, <2>5
<1>18. /\ \A k : TrackerFits(AllBytes, k, <<>>) <=> TrackerFits(AllBytes, k, Normalized(<<>>))
       /\ TrackerFits(AllBytes, NewTracker, <<>>)
  BY NormalizedEmpty, NewTrackerFits DEF ViewConstants
<1>19. DashesAreNotShared(Normalized(unit)) =>
         /\ block = (Parsed(Normalized(unit)).stack # <<>>)
         /\ tracked.state.hasBegin = Parsed(Normalized(unit)).hasBegin
  <2>1. DelimiterConstants BY DEF ViewConstants
  <2> HIDE DEF tracked, unit
  <2> QED BY <1>6, <1>17, <2>1, BlockIsWhole
<1>9. /\ fed' \in Seq(AllBytes) /\ Len(fed') \in Nat /\ Len(fed') = Len(fed) + Len(piece)
      /\ Len(fed) \in Nat /\ Len(piece) \in Nat \ {0} /\ fed'[Len(fed')] = Last(piece)
  <2>1. /\ fed \o piece \in Seq(AllBytes) /\ Len(fed \o piece) = Len(fed) + Len(piece)
        /\ Len(fed) \in Nat /\ Len(piece) \in Nat \ {0}
        /\ \A i \in 1..(Len(fed) + Len(piece)) :
             (fed \o piece)[i] = IF i <= Len(fed) THEN fed[i] ELSE piece[i - Len(fed)]
    <3>1. Len(piece) # 0 BY <1>2, EmptySeq
    <3>2. Len(fed) \in Nat /\ Len(piece) \in Nat BY <1>1, <1>2
    <3>3. Len(piece) \in Nat \ {0} BY <3>1, <3>2
    <3> QED BY <1>1, <1>2, <3>2, <3>3, ConcatProperties, Zenon
  <2> DEFINE n == Len(fed)
             m == Len(piece)
  <2>2. n + m \in 1..(n + m) /\ ~(n + m <= n) /\ (n + m) - n = m /\ n + m \in Nat
    <3>1. n \in Nat /\ m \in Nat \ {0} BY <2>1
    <3> HIDE DEF n, m
    <3> QED BY <3>1
  <2>3. (fed \o piece)[n + m] = piece[m] BY <2>1, <2>2
  <2> QED BY <1>3, <2>1, <2>2, <2>3 DEF Last
<1>10. \A k \in DOMAIN unitEnds :
         unitEnds[k] \in 0..Len(fed') /\ unitEnds[k] # 0 /\ fed'[unitEnds[k]] = "n"
  BY <1>2, <1>3, EndsStay
<1> HIDE DEF copy, tracked, unit, tail, block
<1>11. IF Last(piece) # "n" THEN
         /\ scanned' = copy /\ tracker' = tracked
         /\ UNCHANGED <<unitStart, unitEnds, openTail, judged>>
       ELSE
         /\ judged' = [unit |-> unit, hasBegin |-> tracked.state.hasBegin, block |-> block,
                       tail |-> IF block THEN Nowhere ELSE tail.open]
         /\ IF block \/ tail.open
              THEN /\ scanned' = copy /\ tracker' = tracked
                   /\ openTail' = IF block THEN openTail ELSE tail
                   /\ UNCHANGED <<unitStart, unitEnds>>
              ELSE /\ ResetUnitState
                   /\ unitStart' = Len(fed') /\ unitEnds' = Append(unitEnds, Len(fed'))
  BY <1>3, Zenon DEF Retain, copy, tracked, unit, tail, block
<1>12. ASSUME scanned' = copy, unitStart' = unitStart, unitEnds' = unitEnds
       PROVE  /\ CopyIsWhole' /\ Unit' = unit /\ unitStart' \in 0..Len(fed')
              /\ unitEnds' \in Seq(Nat) /\ \A k \in DOMAIN unitEnds' : EndsUnit(unitEnds[k])'
  <2>1. Unit' = unit BY <1>4, <1>12 DEF Unit
  <2>2. CopyIsWhole' BY <1>5, <1>12, <2>1 DEF CopyIsWhole
  <2>3. unitStart' \in 0..Len(fed') BY <1>1, <1>9, <1>12
  <2>4. \A k \in DOMAIN unitEnds' : EndsUnit(unitEnds[k])' BY <1>10, <1>12 DEF EndsUnit
  <2> QED BY <1>1, <1>12, <2>1, <2>2, <2>3, <2>4
<1>13. ASSUME judged' = [unit |-> unit, hasBegin |-> tracked.state.hasBegin, block |-> block,
                         tail |-> IF block THEN Nowhere ELSE tail.open]
       PROVE  TailJudgedAsWhole' /\ BlockJudgedAsWhole'
  <2>1. /\ judged'.unit = unit /\ judged'.tail = IF block THEN Nowhere ELSE tail.open
        /\ judged'.block = block /\ judged'.hasBegin = tracked.state.hasBegin
    BY <1>13
  <2>2. TailJudgedAsWhole' BY <1>8, <2>1 DEF TailJudgedAsWhole
  <2>3. BlockJudgedAsWhole' BY <1>19, <2>1 DEF BlockJudgedAsWhole
  <2> QED BY <2>2, <2>3
<1>14. CASE Last(piece) # "n"
  <2>1. /\ scanned' = copy /\ unitStart' = unitStart /\ unitEnds' = unitEnds
        /\ openTail' = openTail /\ judged' = judged /\ tracker' = tracked
    BY <1>11, <1>14
  <2>2. /\ CopyIsWhole' /\ Unit' = unit /\ unitStart' \in 0..Len(fed')
        /\ unitEnds' \in Seq(Nat) /\ \A k \in DOMAIN unitEnds' : EndsUnit(unitEnds[k])'
    BY <1>12, <2>1
  <2>3. AnswersFor(openTail, Normalized(Unit))' BY <1>7, <2>1, <2>2
  <2>4. TailJudgedAsWhole' BY <1>1, <2>1 DEF TailJudgedAsWhole
  <2>5. BlockJudgedAsWhole' BY <2>1 DEF ViewInvariant, BlockJudgedAsWhole
  <2>6. TrackerFits(AllBytes, tracker, Normalized(Unit))' BY <1>17, <2>1, <2>2
  <2> QED BY <1>1, <1>3, <1>9, <2>2, <2>3, <2>4, <2>5, <2>6 DEF ViewInvariant
<1>15. CASE Last(piece) = "n" /\ (block \/ tail.open)
  <2>1. /\ scanned' = copy /\ unitStart' = unitStart /\ unitEnds' = unitEnds
        /\ openTail' = (IF block THEN openTail ELSE tail) /\ tracker' = tracked
        /\ judged' = [unit |-> unit, hasBegin |-> tracked.state.hasBegin, block |-> block,
                         tail |-> IF block THEN Nowhere ELSE tail.open]
    BY <1>11, <1>15
  <2>2. /\ CopyIsWhole' /\ Unit' = unit /\ unitStart' \in 0..Len(fed')
        /\ unitEnds' \in Seq(Nat) /\ \A k \in DOMAIN unitEnds' : EndsUnit(unitEnds[k])'
    BY <1>12, <2>1
  <2>3. AnswersFor(openTail, Normalized(Unit))' BY <1>7, <1>8, <2>1, <2>2
  <2>4. TailJudgedAsWhole' /\ BlockJudgedAsWhole' BY <1>13, <2>1
  <2>5. TrackerFits(AllBytes, tracker, Normalized(Unit))' BY <1>17, <2>1, <2>2
  <2> QED BY <1>1, <1>3, <1>9, <2>2, <2>3, <2>4, <2>5 DEF ViewInvariant
<1>16. CASE Last(piece) = "n" /\ ~(block \/ tail.open)
  <2>1. /\ scanned' = Nowhere /\ openTail' = NewTail /\ tracker' = NewTracker
        /\ unitStart' = Len(fed') /\ unitEnds' = Append(unitEnds, Len(fed'))
        /\ judged' = [unit |-> unit, hasBegin |-> tracked.state.hasBegin, block |-> block,
                         tail |-> IF block THEN Nowhere ELSE tail.open]
    BY <1>11, <1>16 DEF ResetUnitState
  <2>2. Unit' = <<>> BY <1>4, <2>1 DEF Unit
  <2>3. CopyIsWhole' BY <2>1, <2>2, NormalizedEmpty DEF CopyIsWhole, CopyOf
  <2>4. AnswersFor(openTail, Normalized(Unit))'
    <3>1. <<>> \in Seq(AllBytes) OBVIOUS
    <3> QED BY <2>1, <2>2, <3>1, NormalizedEmpty, NewTailAnswers
  <2>5. unitStart' \in 0..Len(fed') BY <1>9, <2>1
  <2>6. /\ unitEnds' \in Seq(Nat) /\ Len(unitEnds') = Len(unitEnds) + 1 /\ Len(unitEnds) \in Nat
        /\ \A i \in 1..Len(unitEnds) : unitEnds'[i] = unitEnds[i]
        /\ unitEnds'[Len(unitEnds) + 1] = Len(fed')
    BY <1>1, <1>9, <2>1, AppendProperties
  <2>7. EndsUnit(Len(fed))'
    <3>1. Len(fed') \in 0..Len(fed') /\ Len(fed') # 0 BY <1>9
    <3>2. fed'[Len(fed')] = "n" BY <1>9, <1>16
    <3> QED BY <3>1, <3>2 DEF EndsUnit
  <2>8. \A k \in DOMAIN unitEnds' : EndsUnit(unitEnds[k])'
    <3> TAKE k \in DOMAIN unitEnds'
    <3>1. k \in DOMAIN unitEnds \/ k = Len(unitEnds) + 1 BY <1>1, <2>6
    <3>2. CASE k \in DOMAIN unitEnds
      <4>1. unitEnds'[k] = unitEnds[k] BY <1>1, <2>6, <3>2
      <4> QED BY <1>10, <3>2, <4>1 DEF EndsUnit
    <3>3. CASE k = Len(unitEnds) + 1
      BY <2>6, <2>7, <3>3 DEF EndsUnit
    <3> QED BY <3>1, <3>2, <3>3
  <2>9. TailJudgedAsWhole' /\ BlockJudgedAsWhole' BY <1>13, <2>1
  <2>10. TrackerFits(AllBytes, tracker, Normalized(Unit))' BY <1>18, <2>1, <2>2
  <2> QED BY <1>1, <1>3, <1>9, <2>3, <2>4, <2>5, <2>6, <2>8, <2>9, <2>10 DEF ViewInvariant
<1> QED BY <1>14, <1>15, <1>16

(* The end of the text keeps the invariant.                                *)
LEMMA FinalizeKeepsView == ASSUME ViewConstants, ViewInvariant, Finalize PROVE ViewInvariant'
<1>1. /\ appends \in Appends /\ fed \in Seq(AllBytes) /\ unitStart \in 0..Len(fed)
      /\ unitEnds \in Seq(Nat) /\ \A k \in DOMAIN unitEnds : EndsUnit(unitEnds[k])
      /\ TailJudgedAsWhole
  BY DEF ViewInvariant
<1>2. /\ ~finished /\ finished' = TRUE /\ appends' = appends /\ fed' = fed /\ judged' = judged
      /\ unitEnds' = Append(unitEnds, Len(fed)) /\ unitStart' = Len(fed)
      /\ scanned' = Nowhere /\ openTail' = NewTail /\ tracker' = NewTracker
  BY DEF Finalize, ResetUnitState
<1>3. Len(fed) \in Nat /\ Len(fed) \in 0..Len(fed) BY <1>1
<1>4. Unit' = <<>>
  <2>1. Len(fed) \in Int /\ Len(fed) + 1 \in Int /\ Len(fed) < Len(fed) + 1 BY <1>3
  <2>2. SubSeq(fed, Len(fed) + 1, Len(fed)) = <<>> BY <2>1, SubSeqEmpty
  <2> QED BY <1>2, <2>2 DEF Unit
<1>5. CopyIsWhole' BY <1>2, <1>4, NormalizedEmpty DEF CopyIsWhole, CopyOf
<1>6. AnswersFor(openTail, Normalized(Unit))'
  <2>1. <<>> \in Seq(AllBytes) OBVIOUS
  <2> QED BY <1>2, <1>4, <2>1, NormalizedEmpty, NewTailAnswers
<1>7. TailJudgedAsWhole' BY <1>1, <1>2 DEF TailJudgedAsWhole
<1>8. /\ unitEnds' \in Seq(Nat) /\ Len(unitEnds') = Len(unitEnds) + 1 /\ Len(unitEnds) \in Nat
      /\ \A i \in 1..Len(unitEnds) : unitEnds'[i] = unitEnds[i]
      /\ unitEnds'[Len(unitEnds) + 1] = Len(fed)
  BY <1>1, <1>2, <1>3, AppendProperties
<1>9. \A k \in DOMAIN unitEnds' : EndsUnit(unitEnds[k])'
  <2> TAKE k \in DOMAIN unitEnds'
  <2>1. k \in DOMAIN unitEnds \/ k = Len(unitEnds) + 1 BY <1>1, <1>8
  <2>2. CASE k \in DOMAIN unitEnds
    <3>1. unitEnds'[k] = unitEnds[k] BY <1>1, <1>8, <2>2
    <3>2. unitEnds[k] \in 0..Len(fed) /\ unitEnds[k] # 0 /\ fed[unitEnds[k]] = "n"
      BY <1>1, <1>2, <2>2 DEF EndsUnit
    <3> QED BY <1>2, <3>1, <3>2 DEF EndsUnit
  <2>3. CASE k = Len(unitEnds) + 1
    BY <1>2, <1>3, <1>8, <2>3 DEF EndsUnit
  <2> QED BY <2>1, <2>2, <2>3
<1>10. BlockJudgedAsWhole' BY <1>2 DEF ViewInvariant, BlockJudgedAsWhole
<1>11. TrackerFits(AllBytes, tracker, Normalized(Unit))'
  BY <1>2, <1>4, NormalizedEmpty, NewTrackerFits DEF ViewConstants
<1> QED BY <1>1, <1>2, <1>3, <1>5, <1>6, <1>7, <1>8, <1>9, <1>10, <1>11 DEF ViewInvariant

(* So does a step that changes nothing of the view.                        *)
LEMMA StutterKeepsView ==
  ASSUME ViewInvariant, UNCHANGED viewVars
  PROVE  ViewInvariant'
<1>1. /\ appends' = appends /\ fed' = fed /\ unitStart' = unitStart /\ unitEnds' = unitEnds
      /\ scanned' = scanned /\ openTail' = openTail /\ judged' = judged /\ finished' = finished
      /\ tracker' = tracker
  BY DEF viewVars
<1>2. Unit' = Unit BY <1>1 DEF Unit
<1>3. CopyIsWhole' BY <1>1, <1>2 DEF ViewInvariant, CopyIsWhole
<1>4. AnswersFor(openTail, Normalized(Unit))' BY <1>1, <1>2 DEF ViewInvariant
<1>5. TailJudgedAsWhole' BY <1>1 DEF ViewInvariant, TailJudgedAsWhole
<1>6. \A k \in DOMAIN unitEnds' : EndsUnit(unitEnds[k])' BY <1>1 DEF ViewInvariant, EndsUnit
<1>7. BlockJudgedAsWhole' BY <1>1 DEF ViewInvariant, BlockJudgedAsWhole
<1>8. TrackerFits(AllBytes, tracker, Normalized(Unit))' BY <1>1, <1>2 DEF ViewInvariant
<1> QED BY <1>1, <1>3, <1>4, <1>5, <1>6, <1>7, <1>8 DEF ViewInvariant

(* The inductive invariant: the copy is that of the whole unit, the last   *)
(* answer is that for the part of it that was judged, and units end behind *)
(* a line feed or with the text.                                           *)
THEOREM ViewInvariantHolds == ViewConstants => (ViewSpec => []ViewInvariant)
<1> SUFFICES ASSUME ViewConstants PROVE ViewSpec => []ViewInvariant OBVIOUS
<1>1. ViewInit => ViewInvariant BY ViewBegins
<1>2. ViewInvariant /\ [ViewNext]_viewVars => ViewInvariant'
  <2> SUFFICES ASSUME ViewInvariant, [ViewNext]_viewVars PROVE ViewInvariant' OBVIOUS
  <2>1. ASSUME NEW piece \in appends.pieces, AppendPiece(piece) PROVE ViewInvariant'
    BY <2>1, AppendKeepsView
  <2>2. CASE Finalize BY <2>2, FinalizeKeepsView
  <2>3. CASE UNCHANGED viewVars BY <2>3, StutterKeepsView
  <2> QED BY <2>1, <2>2, <2>3 DEF ViewNext
<1> QED BY <1>1, <1>2, PTL DEF ViewSpec

(* Wherever the caller cuts the text, the copy a session grows piece by    *)
(* piece is the scan copy of the whole unit, and at a line end an          *)
(* assignment is judged open exactly if it is in that copy, and a block of *)
(* a private key, whose delimiters share no dashes, exactly if one look at *)
(* all of the copy finds it open (incremental.rs, append_retained,         *)
(* has_open_single_line_construct; private_key.rs, append).                *)
THEOREM UnitsAreJudgedAsWhole == ViewConstants => (ViewSpec => []JudgedAsWhole)
<1> SUFFICES ASSUME ViewConstants PROVE ViewSpec => []JudgedAsWhole OBVIOUS
<1>1. ViewSpec => []ViewInvariant BY ViewInvariantHolds
<1>2. ViewInvariant => JudgedAsWhole BY DEF ViewInvariant, JudgedAsWhole
<1> QED BY <1>1, <1>2, PTL

(* A unit never ends within a removed run, a line feed being kept.         *)
LEMMA UnitEndsAreBoundaries ==
  ASSUME ViewConstants, NEW at, EndsUnit(at)
  PROVE  IsBoundary(fed, at)
<1>1. at \in 0..Len(fed) BY DEF EndsUnit
<1>2. CASE finished /\ at = Len(fed) BY <1>1, <1>2 DEF IsBoundary
<1>3. CASE at # 0 /\ fed[at] = "n"
  <2>1. IsKept(fed, at) BY <1>3 DEF IsKept, ViewConstants
  <2> QED BY <1>1, <2>1 DEF IsBoundary
<1> QED BY <1>2, <1>3 DEF EndsUnit

(* Of any text in any pieces: a range of the scan copy moves back to the   *)
(* bytes it was made of, what was lost within or beside it is told, and    *)
(* units end at the same place of the copy whether it is made of the batch *)
(* or of each of them (normalize.rs).                                      *)
THEOREM RangesAlwaysMoveBack == ViewConstants => (ViewSpec => []RangesMoveBack)
<1> SUFFICES ASSUME ViewConstants PROVE ViewSpec => []RangesMoveBack OBVIOUS
<1>1. ViewSpec => []ViewInvariant BY ViewInvariantHolds
<1>2. ViewInvariant => RangesMoveBack
  <2> SUFFICES ASSUME ViewInvariant PROVE RangesMoveBack OBVIOUS
  <2> DEFINE strip == StripRemoved(fed)
  <2>1. /\ fed \in Seq(AllBytes)
        /\ \A k \in DOMAIN unitEnds : EndsUnit(unitEnds[k])
    BY DEF ViewInvariant
  <2>2. IsText(fed) BY <2>1, SeqOfRange DEF IsText
  <2>3. /\ IsScanCopy(strip.text, fed) /\ RangesStandFor(strip, fed)
        /\ \A at : IsBoundary(fed, at) =>
             ToScannedOffset(strip.seams, at) = KeptBefore(fed, at)
    BY <2>2, StripMovesBack
  <2>4. \A k \in DOMAIN unitEnds : IsBoundary(fed, unitEnds[k])
    BY <2>1, UnitEndsAreBoundaries
  <2> HIDE DEF strip
  <2>5. \A k \in DOMAIN unitEnds :
          ToScannedOffset(strip.seams, unitEnds[k]) = KeptBefore(fed, unitEnds[k])
    BY <2>3, <2>4
  <2> QED BY <2>3, <2>5 DEF RangesMoveBack, strip
<1> QED BY <1>1, <1>2, PTL
===============================================================================
