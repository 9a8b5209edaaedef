--------------------------- MODULE EIMLoopsProofs ---------------------------
(***************************************************************************)
(* Proofs about EIMLoops, for any operands: the loops compute the operators *)
(* of EIM in whatever order they take the records.  No induction over the   *)
(* data is needed: the invariant says of each key by itself what the loops  *)
(* have made of it, which depends on the records they have taken only.      *)
(***************************************************************************)
EXTENDS EIMLoops, TLAPS

(* Records under the three operators. *)
LEMMA RecordTypes ==
  ASSUME NEW a \in Record, NEW b \in Record
  PROVE  RecAdd(a, b) \in Record /\ RecSub(a, b) \in Record /\ RecOr(a, b) \in Record
  BY DEF Record, RecAdd, RecSub, RecOr

LEMMA BlankTypes == Blank \in Record /\ NoRecords \in RecordSet /\ EmptyDiff \in Diff
  BY DEF NoRecords, EmptyDiff, RecordSet, Diff, Record, Blank

LEMMA WithBlank ==
  ASSUME NEW r \in Record
  PROVE  /\ RecAdd(r, Blank) = r /\ RecAdd(Blank, r) = r
         /\ RecSub(r, Blank) = r /\ RecSub(Blank, r) = Blank
         /\ RecOr(r, Blank) = r /\ RecOr(Blank, r) = r
         /\ RecOr(r, r) = r
  BY DEF Record, Blank, RecAdd, RecSub, RecOr

LEMMA OrSymmetric ==
  ASSUME NEW a \in Record, NEW b \in Record
  PROVE  RecOr(a, b) = RecOr(b, a)
  BY DEF Record, RecOr

LEMMA CloneType ==
  ASSUME NEW d \in Diff, NEW e \in Diff
  PROVE  RSAdd(d.inc, e) \in RecordSet /\ DiffIAdd(d, e) \in Diff
<1>1. \A k \in Key : d.inc[k] \in Record /\ e.inc[k] \in Record
  BY DEF Diff, RecordSet
<1>2. RSAdd(d.inc, e) \in RecordSet
  BY <1>1, RecordTypes, BlankTypes DEF RSAdd, RecordSet
<1> QED
  BY <1>2 DEF DiffIAdd, Diff

-----------------------------------------------------------------------------
(* What the loops start with, and the records they will take. *)
Base == CASE op = "diff+diff" -> DiffClone(left)
          [] op = "diff|diff" -> EmptyDiff
          [] OTHER -> AsDiff(left.inc)

Including == CASE op = "rs-rs" -> {}
               [] op = "diff|diff" -> Pairs(left.inc) \cup Pairs(right.inc)
               [] OTHER -> Pairs(right.inc)

Excluding == CASE op = "rs-rs" -> Pairs(right.inc)
               [] op = "diff|diff" -> KeysOnly(left.exc \cup right.exc)
               [] OTHER -> KeysOnly(right.exc)

(* A record has been taken; the exclusion of a key has been. *)
Included(k, r) == <<k, r>> \in Including \ toInclude
Excluded(k) == \E r \in Record : <<k, r>> \in Excluding \ toExclude

(* The second loop begins when the first is through. *)
InOrder ==
  /\ toInclude \subseteq Including /\ toExclude \subseteq Excluding
  /\ toInclude # {} => toExclude = Excluding

(* update() has, for key k, the record that it started with, with right's  *)
(* record added and then deleted or subtracted, as far as it has got.      *)
Updated(k) ==
  IF Included(k, right.inc[k]) THEN RecAdd(Base.inc[k], right.inc[k]) ELSE Base.inc[k]

UpdateInv ==
  ~Merging => \A k \in Key :
    /\ index[k] = IF ~Excluded(k) THEN Updated(k)
                  ELSE IF op = "rs-rs" THEN RecSub(Updated(k), right.inc[k]) ELSE Blank
    /\ k \in exclusions <=> \/ k \in Base.exc
                            \/ op # "rs+diff" /\ Excluded(k) /\ Updated(k) = Blank
    /\ k \notin conflicts

(* _merge() has combined the records that it has taken; a key is in         *)
(* conflict when nothing was left of two, or when it was included and      *)
(* excluded; an exclusion is kept if nothing was included.                 *)
Merged(k) ==
  RecOr(IF Included(k, left.inc[k]) THEN left.inc[k] ELSE Blank,
        IF Included(k, right.inc[k]) THEN right.inc[k] ELSE Blank)
SomeIncluded(k) == Included(k, left.inc[k]) \/ Included(k, right.inc[k])

MergeInv ==
  Merging => \A k \in Key :
    /\ index[k] = IF Excluded(k) THEN Blank ELSE Merged(k)
    /\ k \in conflicts <=> SomeIncluded(k) /\ (Merged(k) = Blank \/ Excluded(k))
    /\ k \in exclusions <=> Excluded(k) /\ ~SomeIncluded(k)

LoopInv == TypeOK /\ InOrder /\ UpdateInv /\ MergeInv

LEMMA BaseType ==
  ASSUME left \in Diff
  PROVE  Base \in Diff
<1>1. DiffClone(left) \in Diff
  BY BlankTypes, CloneType DEF DiffClone
<1> QED
  BY <1>1, BlankTypes DEF Base, AsDiff, Diff

LEMMA RecordsOf ==
  ASSUME TypeOK, NEW k \in Key
  PROVE  /\ left.inc[k] \in Record /\ right.inc[k] \in Record /\ Base.inc[k] \in Record
         /\ index[k] \in Record
         /\ Updated(k) \in Record /\ Merged(k) \in Record
<1>1. /\ left.inc[k] \in Record /\ right.inc[k] \in Record /\ index[k] \in Record
      /\ Base.inc[k] \in Record
  BY BaseType DEF TypeOK, Diff, RecordSet
<1> QED
  BY <1>1, RecordTypes, BlankTypes DEF Updated, Merged

(* What the loops can take. *)
LEMMA IncludingAt ==
  ASSUME TypeOK, NEW p \in Including
  PROVE  /\ p[1] \in Key /\ p[2] \in Record /\ p = <<p[1], p[2]>> /\ p[2] # Blank
         /\ op # "rs-rs"
         /\ Merging => p[2] \in {left.inc[p[1]], right.inc[p[1]]}
         /\ ~Merging => p[2] = right.inc[p[1]]
<1>1. ASSUME NEW q \in Pairs(left.inc) \cup Pairs(right.inc)
      PROVE  \E k \in Key : /\ q \in {<<k, left.inc[k]>>, <<k, right.inc[k]>>}
                            /\ q[2] # Blank
                            /\ q \notin Pairs(left.inc) => q = <<k, right.inc[k]>>
                            /\ q \in Pairs(right.inc) => q = <<k, right.inc[k]>>
  <2>1. CASE q \in Pairs(right.inc)
    BY <2>1 DEF Pairs, Keys
  <2>2. CASE q \notin Pairs(right.inc)
    BY <2>2 DEF Pairs, Keys
  <2> QED
    BY <2>1, <2>2
<1>2. p \in Pairs(left.inc) \cup Pairs(right.inc) /\ op # "rs-rs"
  BY DEF Including
<1>3. PICK k \in Key : /\ p \in {<<k, left.inc[k]>>, <<k, right.inc[k]>>}
                       /\ p[2] # Blank
                       /\ p \in Pairs(right.inc) => p = <<k, right.inc[k]>>
  BY <1>1, <1>2
<1>4. ~Merging => p \in Pairs(right.inc)
  BY DEF Including, Merging
<1>5. left.inc[k] \in Record /\ right.inc[k] \in Record
  BY RecordsOf
<1> QED
  BY <1>2, <1>3, <1>4, <1>5

LEMMA ExcludingAt ==
  ASSUME TypeOK, NEW p \in Excluding
  PROVE  /\ p[1] \in Key /\ p[2] \in Record /\ p = <<p[1], p[2]>>
         /\ p[2] = IF op = "rs-rs" THEN right.inc[p[1]] ELSE Blank
<1>1. CASE op = "rs-rs"
  <2>1. PICK k \in Key : p = <<k, right.inc[k]>>
    BY <1>1 DEF Excluding, Pairs, Keys
  <2> QED
    BY <1>1, <2>1, RecordsOf
<1>2. CASE op # "rs-rs"
  <2>1. PICK k \in left.exc \cup right.exc : p = <<k, Blank>>
    BY <1>2 DEF Excluding, KeysOnly
  <2> QED
    BY <1>2, <2>1, BlankTypes DEF TypeOK, Diff
<1> QED
  BY <1>1, <1>2

LEMMA PairTypes ==
  ASSUME NEW r \in RecordSet, NEW S \in SUBSET Key
  PROVE  Pairs(r) \subseteq Key \X Record /\ KeysOnly(S) \subseteq Key \X Record
  BY BlankTypes DEF Pairs, Keys, KeysOnly, RecordSet

LEMMA LoopInit == Init => LoopInv
<1> SUFFICES ASSUME Init PROVE LoopInv
  OBVIOUS
<1>1. left \in Diff /\ right \in Diff
  BY OperandAssumption DEF Init
<1>2. /\ left.inc \in RecordSet /\ right.inc \in RecordSet
      /\ left.exc \subseteq Key /\ right.exc \subseteq Key
  BY <1>1 DEF Diff
<1>3. /\ op \in {"rs+diff", "diff+diff", "rs-rs", "diff|diff"}
      /\ toInclude = Including /\ toExclude = Excluding
      /\ index = Base.inc /\ exclusions = Base.exc /\ conflicts = {}
  <2>1. CASE Start("rs+diff", left.inc, {}, Pairs(right.inc), KeysOnly(right.exc))
    BY <2>1 DEF Start, Including, Excluding, Base, AsDiff
  <2>2. CASE Start("diff+diff", DiffClone(left).inc, DiffClone(left).exc,
                   Pairs(right.inc), KeysOnly(right.exc))
    BY <2>2 DEF Start, Including, Excluding, Base
  <2>3. CASE Start("rs-rs", left.inc, {}, {}, Pairs(right.inc))
    BY <2>3 DEF Start, Including, Excluding, Base, AsDiff
  <2>4. CASE Start("diff|diff", NoRecords, {}, Pairs(left.inc) \cup Pairs(right.inc),
                   KeysOnly(left.exc \cup right.exc))
    BY <2>4 DEF Start, Including, Excluding, Base, EmptyDiff
  <2> QED
    BY <2>1, <2>2, <2>3, <2>4 DEF Init
<1>4. Including \subseteq Key \X Record /\ Excluding \subseteq Key \X Record
  <2>1. /\ Pairs(left.inc) \subseteq Key \X Record /\ Pairs(right.inc) \subseteq Key \X Record
        /\ KeysOnly(left.exc \cup right.exc) \subseteq Key \X Record
        /\ KeysOnly(right.exc) \subseteq Key \X Record
    BY <1>2, PairTypes
  <2> QED
    BY <2>1 DEF Including, Excluding
<1>5. TypeOK
  BY <1>1, <1>3, <1>4, BaseType DEF TypeOK, Diff
<1>6. \A k \in Key : ~Excluded(k) /\ \A r : ~Included(k, r)
  BY <1>3 DEF Included, Excluded
<1>7. UpdateInv
  BY <1>3, <1>6 DEF UpdateInv, Updated
<1>8. MergeInv
  <2> SUFFICES ASSUME Merging, NEW k \in Key
               PROVE  index[k] = Merged(k)
    BY <1>3, <1>6 DEF MergeInv, SomeIncluded, Merging, Base, EmptyDiff
  <2>1. Merged(k) = Blank
    BY <1>6, BlankTypes, WithBlank DEF Merged
  <2> QED
    BY <1>3, <2>1 DEF Base, Merging, EmptyDiff, NoRecords
<1> QED
  BY <1>3, <1>5, <1>7, <1>8 DEF LoopInv, InOrder

(* The first loop takes a record. *)
LEMMA IncludeKeeps ==
  ASSUME LoopInv, Include
  PROVE  LoopInv'
<1>1. PICK p \in toInclude :
        /\ toInclude' = toInclude \ {p}
        /\ IF Merging THEN MergeInclude(p[1], p[2]) ELSE UpdateInclude(p[1], p[2])
        /\ UNCHANGED <<op, left, right, toExclude>>
  BY DEF Include
<1> DEFINE k0 == p[1]
           r0 == p[2]
<1>2. TypeOK /\ p \in Including /\ toExclude = Excluding
  BY <1>1 DEF LoopInv, InOrder
<1>3. /\ k0 \in Key /\ r0 \in Record /\ p = <<k0, r0>> /\ r0 # Blank /\ op # "rs-rs"
      /\ Merging => r0 \in {left.inc[k0], right.inc[k0]}
      /\ ~Merging => r0 = right.inc[k0]
  BY <1>2, IncludingAt
<1> HIDE DEF k0, r0
<1>4. /\ Base' = Base /\ Including' = Including /\ Excluding' = Excluding /\ Merging' = Merging
      /\ op' = op /\ left' = left /\ right' = right
  BY <1>1 DEF Base, Including, Excluding, Merging
<1>5. \A k \in Key : ~Excluded(k) /\ ~Excluded(k)'
  BY <1>1, <1>2, <1>4 DEF Excluded
<1>6. \A k, r : Included(k, r)' <=> Included(k, r) \/ (k = k0 /\ r = r0)
  BY <1>1, <1>2, <1>3, <1>4 DEF Included
<1>7. ~Included(k0, r0)
  BY <1>1, <1>3 DEF Included
<1>8. /\ toInclude' \subseteq toInclude /\ toExclude' = toExclude
  BY <1>1
<1>9. InOrder'
  BY <1>2, <1>4, <1>8 DEF LoopInv, InOrder
<1>10. /\ index \in RecordSet /\ exclusions \subseteq Key /\ conflicts \subseteq Key
       /\ toInclude \subseteq Key \X Record /\ toExclude \subseteq Key \X Record
       /\ left \in Diff /\ right \in Diff
  BY <1>2 DEF TypeOK
<1>11. CASE ~Merging
  <2>1. index' = [index EXCEPT ![k0] = RecAdd(@, r0)] /\ exclusions' = exclusions /\ conflicts' = conflicts
    BY <1>1, <1>11 DEF UpdateInclude, k0, r0
  <2>2. index[k0] \in Record /\ RecAdd(index[k0], r0) \in Record
    BY <1>2, <1>3, RecordsOf, RecordTypes
  <2>3. index' \in RecordSet
    BY <1>10, <2>1, <2>2 DEF RecordSet
  <2>4. TypeOK'
    BY <1>2, <1>4, <1>8, <1>10, <2>1, <2>3 DEF TypeOK
  <2>5. \A k \in Key : Updated(k)' = IF k = k0 THEN RecAdd(index[k0], r0) ELSE Updated(k)
    <3> TAKE k \in Key
    <3>1. CASE k = k0
      <4>1. Updated(k)' = RecAdd(Base.inc[k], r0)
        BY <1>3, <1>4, <1>6, <1>11, <3>1 DEF Updated
      <4>2. index[k] = Base.inc[k]
        BY <1>3, <1>5, <1>7, <1>11, <3>1 DEF LoopInv, UpdateInv, Updated
      <4> QED
        BY <3>1, <4>1, <4>2
    <3>2. CASE k # k0
      BY <1>4, <1>6, <3>2 DEF Updated
    <3> QED
      BY <3>1, <3>2
  <2>6. \A k \in Key : index'[k] = IF k = k0 THEN RecAdd(index[k0], r0) ELSE index[k]
    BY <1>10, <2>1 DEF RecordSet
  <2>7. UpdateInv'
    BY <1>4, <1>5, <1>11, <2>1, <2>5, <2>6 DEF LoopInv, UpdateInv
  <2>8. MergeInv'
    BY <1>4, <1>11 DEF MergeInv
  <2> QED
    BY <1>9, <2>4, <2>7, <2>8 DEF LoopInv
<1>12. CASE Merging
  <2> DEFINE a == left.inc[k0]
             b == right.inc[k0]
             both == RecOr(index[k0], r0)
  <2>1. /\ index[k0] = Merged(k0) /\ k0 \notin exclusions
        /\ k0 \in conflicts <=> SomeIncluded(k0) /\ Merged(k0) = Blank
    BY <1>3, <1>5, <1>12 DEF LoopInv, MergeInv
  <2>2. a \in Record /\ b \in Record /\ r0 \in {a, b} /\ index[k0] \in Record /\ both \in Record
    BY <1>2, <1>3, <1>12, RecordsOf, RecordTypes
  <2>3. \A k \in Key : k # k0 => Merged(k)' = Merged(k) /\ (SomeIncluded(k)' <=> SomeIncluded(k))
    BY <1>4, <1>6 DEF Merged, SomeIncluded
  <2>4. SomeIncluded(k0)'
    BY <1>4, <1>6, <2>2 DEF SomeIncluded
  <2>5. Merged(k0)' = both /\ (~SomeIncluded(k0) => index[k0] = Blank)
    <3> DEFINE L == Included(k0, a)
               R == Included(k0, b)
    <3>1. Merged(k0)' = RecOr(IF L \/ r0 = a THEN a ELSE Blank, IF R \/ r0 = b THEN b ELSE Blank)
      BY <1>4, <1>6 DEF Merged
    <3>2. index[k0] = RecOr(IF L THEN a ELSE Blank, IF R THEN b ELSE Blank)
      BY <2>1 DEF Merged
    <3>3. ~(r0 = a /\ L) /\ ~(r0 = b /\ R)
      BY <1>7
    <3>4. /\ RecOr(Blank, a) = a /\ RecOr(Blank, b) = b /\ RecOr(a, Blank) = a
          /\ RecOr(b, Blank) = b /\ RecOr(a, b) = RecOr(b, a) /\ RecOr(a, a) = a
          /\ RecOr(Blank, Blank) = Blank
      BY <2>2, WithBlank, OrSymmetric, BlankTypes
    <3>5. ~SomeIncluded(k0) <=> ~L /\ ~R
      BY DEF SomeIncluded
    <3> HIDE DEF a, b, L, R
    <3> QED
      BY <2>2, <3>1, <3>2, <3>3, <3>4, <3>5
  <2>6. k0 \notin conflicts
    <3> SUFFICES ASSUME k0 \in conflicts PROVE FALSE
      OBVIOUS
    <3>1. SomeIncluded(k0) /\ Merged(k0) = Blank
      BY <2>1
    <3>2. Included(k0, a) => a # Blank
      BY <1>2, IncludingAt DEF Included
    <3>3. Included(k0, b) => b # Blank
      BY <1>2, IncludingAt DEF Included
    <3>4. RecOr(a, Blank) = a /\ RecOr(Blank, b) = b /\ RecOr(a, a) = a
      BY <2>2, WithBlank
    <3> HIDE DEF a, b
    <3>5. Merged(k0) = RecOr(IF Included(k0, a) THEN a ELSE Blank,
                             IF Included(k0, b) THEN b ELSE Blank)
      BY DEF Merged, a, b
    <3>6. Included(k0, a) \/ Included(k0, b)
      BY <3>1 DEF SomeIncluded, a, b
    <3> QED
      BY <1>7, <2>2, <3>1, <3>2, <3>3, <3>4, <3>5, <3>6
  <2>7. /\ index' = [index EXCEPT ![k0] = both] /\ exclusions' = exclusions
        /\ conflicts' = IF both = Blank THEN conflicts \cup {k0} ELSE conflicts
    BY <1>1, <1>12, <2>1, <2>6 DEF MergeInclude, k0, r0
  <2> HIDE DEF both
  <2>8. index' \in RecordSet
    BY <1>10, <2>2, <2>7 DEF RecordSet
  <2>9. TypeOK'
    BY <1>2, <1>3, <1>4, <1>8, <1>10, <2>7, <2>8 DEF TypeOK
  <2>10. \A k \in Key : index'[k] = IF k = k0 THEN both ELSE index[k]
    BY <1>10, <2>7 DEF RecordSet
  <2>11. MergeInv'
    <3> SUFFICES ASSUME NEW k \in Key
                 PROVE  /\ index'[k] = Merged(k)'
                        /\ k \in conflicts' <=> SomeIncluded(k)' /\ Merged(k)' = Blank
                        /\ k \notin exclusions'
      BY <1>5 DEF MergeInv
    <3>1. /\ index[k] = Merged(k) /\ k \notin exclusions
          /\ k \in conflicts <=> SomeIncluded(k) /\ Merged(k) = Blank
      BY <1>5, <1>12 DEF LoopInv, MergeInv
    <3>2. CASE k = k0
      BY <2>4, <2>5, <2>6, <2>7, <2>10, <3>1, <3>2
    <3>3. CASE k # k0
      BY <2>3, <2>7, <2>10, <3>1, <3>3
    <3> QED
      BY <3>2, <3>3
  <2>12. UpdateInv'
    BY <1>4, <1>12 DEF UpdateInv
  <2> QED
    BY <1>9, <2>9, <2>11, <2>12 DEF LoopInv
<1> QED
  BY <1>11, <1>12

(* The second loop takes a key. *)
LEMMA ExcludeKeeps ==
  ASSUME LoopInv, Exclude
  PROVE  LoopInv'
<1>1. PICK p \in toExclude :
        /\ toExclude' = toExclude \ {p}
        /\ IF Merging THEN MergeExclude(p[1]) ELSE UpdateExclude(p[1], p[2])
  BY DEF Exclude
<1> DEFINE k0 == p[1]
           r0 == p[2]
<1>2. TypeOK /\ p \in Excluding /\ toInclude = {} /\ UNCHANGED <<op, left, right, toInclude>>
  BY <1>1 DEF LoopInv, InOrder, Exclude
<1>3. /\ k0 \in Key /\ r0 \in Record /\ p = <<k0, r0>>
      /\ r0 = IF op = "rs-rs" THEN right.inc[k0] ELSE Blank
  BY <1>2, ExcludingAt
<1> HIDE DEF k0, r0
<1>4. /\ Base' = Base /\ Including' = Including /\ Excluding' = Excluding /\ Merging' = Merging
      /\ op' = op /\ left' = left /\ right' = right
  BY <1>2 DEF Base, Including, Excluding, Merging
<1>5. \A k, r : Included(k, r)' <=> Included(k, r)
  BY <1>2, <1>4 DEF Included
<1>6. \A k \in Key : /\ Updated(k)' = Updated(k) /\ Merged(k)' = Merged(k)
                     /\ SomeIncluded(k)' <=> SomeIncluded(k)
  BY <1>4, <1>5 DEF Updated, Merged, SomeIncluded
<1>7. ~Excluded(k0)
  <2> SUFFICES ASSUME NEW r \in Record, <<k0, r>> \in Excluding \ toExclude PROVE FALSE
    BY DEF Excluded
  <2>1. r = IF op = "rs-rs" THEN right.inc[k0] ELSE Blank
    BY <1>2, ExcludingAt
  <2> QED
    BY <1>1, <1>3, <2>1
<1>8. \A k \in Key : Excluded(k)' <=> Excluded(k) \/ k = k0
  <2> TAKE k \in Key
  <2>1. \A r \in Record : <<k, r>> \in Excluding \ toExclude'
          <=> <<k, r>> \in Excluding \ toExclude \/ (k = k0 /\ r = r0)
    BY <1>1, <1>2, <1>3
  <2> QED
    BY <1>3, <1>4, <2>1 DEF Excluded
<1>9. InOrder'
  BY <1>1, <1>2, <1>4 DEF LoopInv, InOrder
<1>10. /\ index \in RecordSet /\ exclusions \subseteq Key /\ conflicts \subseteq Key
       /\ toInclude \subseteq Key \X Record /\ toExclude \subseteq Key \X Record
       /\ left \in Diff /\ right \in Diff
  BY <1>2 DEF TypeOK
<1>11. CASE ~Merging
  <2> DEFINE new == IF index[k0] = Blank THEN Blank
                    ELSE IF op = "rs-rs" THEN RecSub(index[k0], r0) ELSE Blank
  <2>1. /\ index' = [index EXCEPT ![k0] = new] /\ conflicts' = conflicts
        /\ exclusions' = IF index[k0] # Blank \/ op = "rs+diff" THEN exclusions ELSE exclusions \cup {k0}
    <3>1. UpdateExclude(k0, r0)
      BY <1>1, <1>11 DEF k0, r0
    <3>2. [index EXCEPT ![k0] = index[k0]] = index
      BY <1>10 DEF RecordSet
    <3>3. CASE index[k0] # Blank
      BY <3>1, <3>3 DEF UpdateExclude
    <3>4. CASE index[k0] = Blank
      BY <3>1, <3>2, <3>4 DEF UpdateExclude
    <3> QED
      BY <3>3, <3>4
  <2>2. index[k0] \in Record /\ new \in Record
    BY <1>2, <1>3, BlankTypes, RecordsOf, RecordTypes
  <2>3. RecSub(Blank, r0) = Blank
    BY <1>3, WithBlank
  <2>4. new = IF op = "rs-rs" THEN RecSub(index[k0], right.inc[k0]) ELSE Blank
    BY <1>3, <2>3
  <2> HIDE DEF new
  <2>5. index' \in RecordSet /\ \A k \in Key : index'[k] = IF k = k0 THEN new ELSE index[k]
    BY <1>10, <2>1, <2>2 DEF RecordSet
  <2>6. TypeOK'
    BY <1>1, <1>2, <1>3, <1>4, <1>10, <2>1, <2>5 DEF TypeOK
  <2>7. UpdateInv'
    <3> SUFFICES ASSUME NEW k \in Key
                 PROVE  /\ index'[k] = IF ~Excluded(k)' THEN Updated(k)
                                       ELSE IF op = "rs-rs" THEN RecSub(Updated(k), right.inc[k])
                                            ELSE Blank
                        /\ k \in exclusions' <=>
                             \/ k \in Base.exc
                             \/ op # "rs+diff" /\ Excluded(k)' /\ Updated(k) = Blank
                        /\ k \notin conflicts'
      BY <1>4, <1>6 DEF UpdateInv
    <3>1. /\ index[k] = IF ~Excluded(k) THEN Updated(k)
                        ELSE IF op = "rs-rs" THEN RecSub(Updated(k), right.inc[k]) ELSE Blank
          /\ k \in exclusions <=> \/ k \in Base.exc
                                  \/ op # "rs+diff" /\ Excluded(k) /\ Updated(k) = Blank
          /\ k \notin conflicts
      BY <1>11 DEF LoopInv, UpdateInv
    <3>2. CASE k = k0
      BY <1>7, <1>8, <2>1, <2>4, <2>5, <3>1, <3>2
    <3>3. CASE k # k0
      BY <1>8, <2>1, <2>5, <3>1, <3>3
    <3> QED
      BY <3>2, <3>3
  <2>8. MergeInv'
    BY <1>4, <1>11 DEF MergeInv
  <2> QED
    BY <1>9, <2>6, <2>7, <2>8 DEF LoopInv
<1>12. CASE Merging
  <2>1. /\ index[k0] = Merged(k0) /\ k0 \notin exclusions
        /\ k0 \in conflicts <=> SomeIncluded(k0) /\ Merged(k0) = Blank
    BY <1>3, <1>7, <1>12 DEF LoopInv, MergeInv
  <2>2. ~SomeIncluded(k0) => Merged(k0) = Blank
    BY BlankTypes, WithBlank DEF Merged, SomeIncluded
  <2>3. /\ index' = [index EXCEPT ![k0] = Blank]
        /\ conflicts' = IF SomeIncluded(k0) THEN conflicts \cup {k0} ELSE conflicts
        /\ exclusions' = IF SomeIncluded(k0) THEN exclusions ELSE exclusions \cup {k0}
    <3>1. MergeExclude(k0)
      BY <1>1, <1>12 DEF k0
    <3>2. [index EXCEPT ![k0] = index[k0]] = index
      BY <1>10 DEF RecordSet
    <3>3. CASE k0 \in conflicts
      BY <2>1, <3>1, <3>2, <3>3 DEF MergeExclude
    <3>4. CASE k0 \notin conflicts /\ index[k0] # Blank
      BY <2>1, <2>2, <3>1, <3>4 DEF MergeExclude
    <3>5. CASE k0 \notin conflicts /\ index[k0] = Blank
      BY <2>1, <3>1, <3>2, <3>5 DEF MergeExclude
    <3> QED
      BY <3>3, <3>4, <3>5
  <2>4. index' \in RecordSet /\ \A k \in Key : index'[k] = IF k = k0 THEN Blank ELSE index[k]
    BY <1>10, <2>3, BlankTypes DEF RecordSet
  <2>5. TypeOK'
    BY <1>1, <1>2, <1>3, <1>4, <1>10, <2>3, <2>4 DEF TypeOK
  <2>6. MergeInv'
    <3> SUFFICES ASSUME NEW k \in Key
                 PROVE  /\ index'[k] = IF Excluded(k)' THEN Blank ELSE Merged(k)
                        /\ k \in conflicts' <=>
                             SomeIncluded(k) /\ (Merged(k) = Blank \/ Excluded(k)')
                        /\ k \in exclusions' <=> Excluded(k)' /\ ~SomeIncluded(k)
      BY <1>6 DEF MergeInv
    <3>1. /\ index[k] = IF Excluded(k) THEN Blank ELSE Merged(k)
          /\ k \in conflicts <=> SomeIncluded(k) /\ (Merged(k) = Blank \/ Excluded(k))
          /\ k \in exclusions <=> Excluded(k) /\ ~SomeIncluded(k)
      BY <1>12 DEF LoopInv, MergeInv
    <3>2. CASE k = k0
      BY <1>7, <1>8, <2>1, <2>3, <2>4, <3>1, <3>2
    <3>3. CASE k # k0
      BY <1>8, <2>3, <2>4, <3>1, <3>3
    <3> QED
      BY <3>2, <3>3
  <2>7. UpdateInv'
    BY <1>4, <1>12 DEF UpdateInv
  <2> QED
    BY <1>9, <2>5, <2>6, <2>7 DEF LoopInv
<1> QED
  BY <1>11, <1>12

LEMMA LoopNext == LoopInv /\ [Next]_vars => LoopInv'
<1> SUFFICES ASSUME LoopInv, [Next]_vars PROVE LoopInv'
  OBVIOUS
<1>1. CASE Include
  BY <1>1, IncludeKeeps
<1>2. CASE Exclude
  BY <1>2, ExcludeKeeps
<1>3. CASE UNCHANGED vars
  <2> USE <1>3 DEF vars
  <2>1. TypeOK' /\ Base' = Base /\ Including' = Including /\ Excluding' = Excluding
    BY DEF LoopInv, TypeOK, Base, Including, Excluding
  <2>2. \A k : (Excluded(k)' <=> Excluded(k)) /\ \A r : Included(k, r)' <=> Included(k, r)
    BY <2>1 DEF Excluded, Included
  <2>3. \A k : Updated(k)' = Updated(k) /\ Merged(k)' = Merged(k)
    BY <2>1, <2>2 DEF Updated, Merged
  <2>4. UpdateInv' /\ MergeInv'
    BY <2>1, <2>2, <2>3 DEF LoopInv, UpdateInv, MergeInv, SomeIncluded, Merging
  <2> QED
    BY <2>1, <2>4 DEF LoopInv, InOrder
<1> QED
  BY <1>1, <1>2, <1>3 DEF Next

LEMMA LoopAlways == Spec => []LoopInv
  BY LoopInit, LoopNext, PTL DEF Spec

(* When the loops are through, each key has been taken by the first if it   *)
(* is included and by the second if it is excluded.                        *)
LEMMA AllTaken ==
  ASSUME LoopInv, toInclude = {}, toExclude = {}, NEW k \in Key
  PROVE  /\ ~Merging => /\ Included(k, right.inc[k]) <=> op # "rs-rs" /\ right.inc[k] # Blank
                        /\ Excluded(k) <=> IF op = "rs-rs" THEN right.inc[k] # Blank
                                           ELSE k \in right.exc
         /\ Merging => /\ Included(k, left.inc[k]) <=> left.inc[k] # Blank
                       /\ Included(k, right.inc[k]) <=> right.inc[k] # Blank
                       /\ Excluded(k) <=> k \in left.exc \cup right.exc
<1>1. TypeOK /\ left.inc[k] \in Record /\ right.inc[k] \in Record
  BY RecordsOf DEF LoopInv
<1>2. \A r : <<k, r>> \in Pairs(left.inc) <=> r = left.inc[k] /\ r # Blank
  BY DEF Pairs, Keys
<1>3. \A r : <<k, r>> \in Pairs(right.inc) <=> r = right.inc[k] /\ r # Blank
  BY DEF Pairs, Keys
<1>4. \A S, r : <<k, r>> \in KeysOnly(S) <=> k \in S /\ r = Blank
  BY DEF KeysOnly
<1>5. CASE op = "rs-rs"
  BY <1>1, <1>3, <1>5 DEF Included, Excluded, Including, Excluding, Merging
<1>6. CASE op = "diff|diff"
  BY <1>1, <1>2, <1>3, <1>4, <1>6, BlankTypes DEF Included, Excluded, Including, Excluding, Merging
<1>7. CASE op \notin {"rs-rs", "diff|diff"}
  BY <1>1, <1>3, <1>4, <1>7, BlankTypes DEF Included, Excluded, Including, Excluding, Merging
<1> QED
  BY <1>5, <1>6, <1>7

LEMMA UpdateComputes ==
  ASSUME LoopInv, ~Merging, toInclude = {}, toExclude = {}
  PROVE  [inc |-> index, exc |-> exclusions] = Defined
<1>1. /\ TypeOK /\ Base \in Diff /\ right.exc \subseteq Key /\ index \in RecordSet /\ exclusions \subseteq Key
      /\ Base.exc \subseteq Key
      /\ op \in {"rs+diff", "diff+diff", "rs-rs"}
  BY BaseType DEF LoopInv, TypeOK, Diff, Merging
<1>2. \A k \in Key : left.inc[k] \in Record /\ right.inc[k] \in Record /\ Base.inc[k] \in Record
  BY <1>1, RecordsOf
<1>3. \A k \in Key : Updated(k) = IF op = "rs-rs" THEN Base.inc[k]
                                  ELSE RecAdd(Base.inc[k], right.inc[k])
  BY <1>2, AllTaken, WithBlank DEF Updated
<1>4. \A k \in Key :
        /\ index[k] = IF op = "rs-rs" THEN RecSub(Base.inc[k], right.inc[k])
                      ELSE IF k \in right.exc THEN Blank ELSE RecAdd(Base.inc[k], right.inc[k])
        /\ k \in exclusions <=>
             CASE op = "rs+diff" -> k \in Base.exc
               [] op = "diff+diff" -> k \in Base.exc \/ (k \in right.exc /\ RecAdd(Base.inc[k], right.inc[k]) = Blank)
               [] op = "rs-rs" -> k \in Base.exc \/ (right.inc[k] # Blank /\ Base.inc[k] = Blank)
  <2> TAKE k \in Key
  <2>1. /\ index[k] = IF ~Excluded(k) THEN Updated(k)
                      ELSE IF op = "rs-rs" THEN RecSub(Updated(k), right.inc[k]) ELSE Blank
        /\ k \in exclusions <=> \/ k \in Base.exc
                                \/ op # "rs+diff" /\ Excluded(k) /\ Updated(k) = Blank
    BY DEF LoopInv, UpdateInv
  <2>2. Excluded(k) <=> IF op = "rs-rs" THEN right.inc[k] # Blank ELSE k \in right.exc
    BY AllTaken
  <2>3. RecSub(Base.inc[k], Blank) = Base.inc[k]
    BY <1>2, WithBlank
  <2>4. CASE op = "rs-rs"
    BY <1>3, <2>1, <2>2, <2>3, <2>4
  <2>5. CASE op = "rs+diff"
    BY <1>3, <2>1, <2>2, <2>5
  <2>6. CASE op = "diff+diff"
    BY <1>3, <2>1, <2>2, <2>6
  <2> QED
    BY <1>1, <2>4, <2>5, <2>6
<1>5. CASE op = "rs-rs"
  <2>1. Base = AsDiff(left.inc)
    BY <1>5 DEF Base
  <2>2. index = [k \in Key |-> RecSub(left.inc[k], right.inc[k])]
    BY <1>1, <1>4, <1>5, <2>1 DEF AsDiff, RecordSet
  <2>3. exclusions = Keys(right.inc) \ Keys(left.inc)
    BY <1>1, <1>4, <1>5, <2>1 DEF AsDiff, Keys
  <2> QED
    BY <1>5, <2>2, <2>3 DEF Defined, RSSub
<1>6. CASE op = "rs+diff"
  <2>1. Base = AsDiff(left.inc)
    BY <1>6 DEF Base
  <2>2. index = RSAdd(left.inc, right)
    BY <1>1, <1>4, <1>6, <2>1 DEF AsDiff, RecordSet, RSAdd
  <2>3. exclusions = {}
    BY <1>1, <1>4, <1>6, <2>1 DEF AsDiff
  <2> QED
    BY <1>6, <2>2, <2>3 DEF Defined, AsDiff
<1>7. CASE op = "diff+diff"
  <2>1. Base = DiffClone(left)
    BY <1>7 DEF Base
  <2>2. index = RSAdd(Base.inc, right)
    BY <1>1, <1>4, <1>7 DEF RecordSet, RSAdd
  <2>3. exclusions = Base.exc \cup {k \in right.exc : RecAdd(Base.inc[k], right.inc[k]) = Blank}
    BY <1>1, <1>4, <1>7
  <2> QED
    BY <1>7, <2>1, <2>2, <2>3 DEF Defined, DiffAdd, DiffIAdd
<1> QED
  BY <1>1, <1>5, <1>6, <1>7

LEMMA MergeComputes ==
  ASSUME LoopInv, Merging, toInclude = {}, toExclude = {}
  PROVE  [inc |-> index, exc |-> exclusions] = Defined
<1>1. /\ TypeOK /\ left.exc \subseteq Key /\ right.exc \subseteq Key
      /\ index \in RecordSet /\ exclusions \subseteq Key
  BY DEF LoopInv, TypeOK, Diff
<1>2. \A k \in Key :
        /\ index[k] = IF k \in left.exc \cup right.exc THEN Blank ELSE RecOr(left.inc[k], right.inc[k])
        /\ k \in exclusions <=> /\ k \in left.exc \cup right.exc
                                /\ left.inc[k] = Blank /\ right.inc[k] = Blank
  <2> TAKE k \in Key
  <2>1. /\ index[k] = IF Excluded(k) THEN Blank ELSE Merged(k)
        /\ k \in exclusions <=> Excluded(k) /\ ~SomeIncluded(k)
    BY DEF LoopInv, MergeInv
  <2>2. /\ Included(k, left.inc[k]) <=> left.inc[k] # Blank
        /\ Included(k, right.inc[k]) <=> right.inc[k] # Blank
        /\ Excluded(k) <=> k \in left.exc \cup right.exc
    BY AllTaken
  <2>3. Merged(k) = RecOr(left.inc[k], right.inc[k])
    BY <2>2 DEF Merged
  <2> QED
    BY <2>1, <2>2, <2>3 DEF SomeIncluded
<1>3. index = [k \in Key |-> IF k \in left.exc \cup right.exc THEN Blank
                             ELSE RecOr(left.inc[k], right.inc[k])]
  BY <1>1, <1>2 DEF RecordSet
<1>4. exclusions = (left.exc \cup right.exc) \ (Keys(left.inc) \cup Keys(right.inc))
  BY <1>1, <1>2 DEF Keys
<1> QED
  BY <1>3, <1>4 DEF Defined, Merging, DiffOr

(* Type correctness of the loops' variables. *)
THEOREM LoopsTypeTheorem == Spec => []TypeOK
<1>1. LoopInv => TypeOK
  BY DEF LoopInv
<1> QED
  BY <1>1, LoopAlways, PTL

(* AbstractRS.update and Diff._merge compute, in whatever order Python      *)
(* hands them the records and for operands of any size, what the operators  *)
(* of EIM say key by key.                                                  *)
THEOREM LoopsTheorem == Spec => []LoopsComputeOperators
<1>1. LoopInv => LoopsComputeOperators
  BY UpdateComputes, MergeComputes DEF LoopsComputeOperators
<1> QED
  BY <1>1, LoopAlways, PTL

(* A key that _merge() has found in conflict stays out of its result,       *)
(* whatever it still meets of that key.                                    *)
THEOREM ConflictsOutTheorem == Spec => []ConflictsStayOut
<1>1. LoopInv => ConflictsStayOut
  <2> SUFFICES ASSUME LoopInv, NEW k \in conflicts
               PROVE  index[k] = Blank /\ k \notin exclusions
    BY DEF ConflictsStayOut
  <2>1. k \in Key
    BY DEF LoopInv, TypeOK
  <2> QED
    BY <2>1 DEF LoopInv, UpdateInv, MergeInv
<1> QED
  BY <1>1, LoopAlways, PTL
=============================================================================
