--------------------------- MODULE StateMergeProofs ---------------------------
(***************************************************************************)
(* Facts about the record algebra and about what class State computes with *)
(* it, for every set of keys, fields and values: what merge() and           *)
(* autoResolve() leave in agreed and pending, what they tell the user, and  *)
(* what discarding a conflict leaves.                                       *)
(***************************************************************************)
EXTENDS StateMerge, TLAPS

-----------------------------------------------------------------------------
(* The record algebra. *)

(* Every operator yields a record, record set or diff again. *)
LEMMA RecordOps ==
  ASSUME NEW a \in Record, NEW b \in Record
  PROVE  /\ RecSub(a, b) \in Record
         /\ RecAdd(a, b) \in Record
         /\ RecOr(a, b) \in Record
         /\ \A S : FilterRec(a, S) \in Record
  BY DEF Record, RecSub, RecAdd, RecOr, FilterRec

LEMMA ConstantTypes ==
  /\ Blank \in Record
  /\ NoRecords \in RecordSet
  /\ EmptyDiff \in Diff
  /\ \A r \in RecordSet : AsDiff(r) \in Diff
  BY DEF NoRecords, EmptyDiff, AsDiff, RecordSet, Diff, Record, Blank

(* Two record sets are equal when they agree on every field of every key. *)
LEMMA RecordSetEquality ==
  ASSUME NEW r \in RecordSet, NEW s \in RecordSet,
         \A k \in Key, f \in Field : r[k][f] = s[k][f]
  PROVE  r = s
<1>1. SUFFICES ASSUME NEW k \in Key PROVE r[k] = s[k]
  BY DEF RecordSet
<1>2. r[k] \in Record /\ s[k] \in Record
  BY DEF RecordSet
<1> QED
  BY <1>2 DEF Record

(* A record is Blank exactly when it says nothing of any field. *)
LEMMA BlankRecord ==
  ASSUME NEW r \in Record
  PROVE  r = Blank <=> \A f \in Field : r[f] = NoChange
  BY DEF Record, Blank

LEMMA AddType ==
  ASSUME NEW r \in RecordSet, NEW d \in Diff
  PROVE  RSAdd(r, d) \in RecordSet
<1>1. \A k \in Key : r[k] \in Record /\ d.inc[k] \in Record
  BY DEF RecordSet, Diff
<1> QED
  BY <1>1, RecordOps, ConstantTypes DEF RSAdd, RecordSet

LEMMA SubType ==
  ASSUME NEW r \in RecordSet, NEW s \in RecordSet
  PROVE  RSSub(r, s) \in Diff
<1>1. \A k \in Key : r[k] \in Record /\ s[k] \in Record
  BY DEF RecordSet
<1> QED
  BY <1>1, RecordOps DEF RSSub, RecordSet, Diff, Keys

LEMMA FilterType ==
  ASSUME NEW r \in RecordSet, NEW S
  PROVE  FilterRS(r, S) \in RecordSet
<1>1. \A k \in Key : r[k] \in Record
  BY DEF RecordSet
<1> QED
  BY <1>1, RecordOps DEF FilterRS, RecordSet

LEMMA OrType ==
  ASSUME NEW d \in Diff, NEW e \in Diff
  PROVE  DiffOr(d, e) \in Diff
<1>1. \A k \in Key : d.inc[k] \in Record /\ e.inc[k] \in Record
  BY DEF RecordSet, Diff
<1>2. DiffOr(d, e).inc \in RecordSet
  BY <1>1, RecordOps, ConstantTypes DEF DiffOr, RecordSet
<1>3. DiffOr(d, e).exc \subseteq Key
  BY DEF DiffOr, Diff
<1> QED
  BY <1>2, <1>3 DEF DiffOr, Diff

LEMMA RemoveType ==
  ASSUME NEW d \in Diff, NEW c \in Diff
  PROVE  DiffRemove(d, c) \in Diff
<1>1. \A k \in Key : d.inc[k] \in Record /\ c.inc[k] \in Record
  BY DEF RecordSet, Diff
<1> QED
  BY <1>1, RecordOps DEF DiffRemove, RecordSet, Diff

LEMMA IAddType ==
  ASSUME NEW d \in Diff, NEW e \in Diff
  PROVE  DiffIAdd(d, e) \in Diff
<1>1. RSAdd(d.inc, e) \in RecordSet
  BY AddType DEF Diff
<1> QED
  BY <1>1 DEF DiffIAdd, Diff

(* The operators on record sets, one field of one key at a time. *)
LEMMA AddAt ==
  ASSUME NEW r \in RecordSet, NEW d \in Diff, NEW k \in Key, NEW f \in Field
  PROVE  RSAdd(r, d)[k][f] = IF k \in d.exc \/ (d.inc[k][f] = NoChange /\ r[k][f] = NoChange)
                             THEN NoChange
                             ELSE IF d.inc[k][f] = NoChange THEN r[k][f] ELSE d.inc[k][f]
  BY DEF RSAdd, RecAdd, Blank

LEMMA SubAt ==
  ASSUME NEW n \in RecordSet, NEW o \in RecordSet, NEW k \in Key, NEW f \in Field
  PROVE  RSSub(n, o).inc[k][f] = IF n[k][f] = o[k][f] THEN NoChange ELSE n[k][f]
  BY DEF RSSub, RecSub

LEMMA SubExcluded ==
  ASSUME NEW n \in RecordSet, NEW o \in RecordSet, NEW k \in Key
  PROVE  k \in RSSub(n, o).exc <=> o[k] # Blank /\ n[k] = Blank
  BY DEF RSSub, Keys

LEMMA RemoveAt ==
  ASSUME NEW d \in Diff, NEW c \in Diff, NEW k \in Key, NEW f \in Field
  PROVE  DiffRemove(d, c).inc[k][f] = IF d.inc[k][f] = c.inc[k][f] THEN NoChange ELSE d.inc[k][f]
  BY DEF DiffRemove, RecSub

(* What `-` yields is proper, ... *)
LEMMA SubProper ==
  ASSUME NEW n \in RecordSet, NEW o \in RecordSet
  PROVE  Proper(RSSub(n, o))
<1>1. SUFFICES ASSUME NEW k \in RSSub(n, o).exc
               PROVE  RSSub(n, o).inc[k] = Blank
  BY DEF Proper
<1>2. k \in Key /\ n[k] = Blank
  BY <1>1 DEF RSSub, Keys
<1>3. RSSub(n, o).inc[k] \in Record
  BY <1>2, SubType DEF Diff, RecordSet
<1>4. \A f \in Field : RSSub(n, o).inc[k][f] = NoChange
  BY <1>2, SubAt DEF Blank
<1> QED
  BY <1>3, <1>4, BlankRecord

(* ... and rebuilding a proper diff with its filter only clears fields. *)
LEMMA FilterProper ==
  ASSUME NEW d \in Diff, Proper(d), NEW S
  PROVE  /\ FilterDiff(d, S) \in Diff
         /\ Proper(FilterDiff(d, S))
         /\ FilterDiff(d, S).exc = d.exc
         /\ \A k \in Key, f \in Field :
              FilterDiff(d, S).inc[k][f] = IF f \in S THEN NoChange ELSE d.inc[k][f]
<1> DEFINE e == [inc |-> FilterRS(d.inc, S), exc |-> d.exc]
<1>1. d.inc \in RecordSet /\ e \in Diff /\ d.exc \subseteq Key
  BY FilterType DEF Diff
<1>2. \A k \in Key, f \in Field :
        e.inc[k][f] = IF f \in S THEN NoChange ELSE d.inc[k][f]
  BY DEF FilterRS, FilterRec
<1>3. \A k \in d.exc : e.inc[k] = Blank
  BY <1>1, <1>2 DEF Proper, FilterRS, FilterRec, Blank
<1>4. \A r \in Record : RecAdd(Blank, r) = r
  BY DEF RecAdd, Record, Blank
<1>5. \A k \in Key : e.inc[k] \in Record
  BY <1>1 DEF Diff, RecordSet
<1>6. RSAdd(NoRecords, e) = e.inc
  <2>1. \A k \in Key : RSAdd(NoRecords, e)[k] = e.inc[k]
    BY <1>1, <1>3, <1>4, <1>5 DEF RSAdd, NoRecords
  <2> QED
    BY <2>1, <1>1 DEF RSAdd, Diff, RecordSet
<1>7. {k \in e.exc : RecAdd(EmptyDiff.inc[k], e.inc[k]) = Blank} = d.exc
  BY <1>1, <1>3, <1>4, <1>5 DEF EmptyDiff, NoRecords
<1>8. FilterDiff(d, S) = e
  BY <1>6, <1>7 DEF FilterDiff, DiffClone, DiffIAdd, EmptyDiff
<1> QED
  BY <1>1, <1>2, <1>3, <1>8 DEF Proper

(* The round trip sharing rests on: adding `new - old` to old gives new, as *)
(* long as new says something of every field that old speaks of.            *)
THEOREM RoundTrip ==
  ASSUME NEW old \in RecordSet, NEW new \in RecordSet,
         \A k \in Keys(new), f \in Field : new[k][f] = NoChange => old[k][f] = NoChange
  PROVE  RSAdd(old, RSSub(new, old)) = new
<1> DEFINE d == RSSub(new, old)
<1>1. d \in Diff /\ RSAdd(old, d) \in RecordSet
  BY SubType, AddType
<1>2. ASSUME NEW k \in Key, NEW f \in Field
      PROVE  RSAdd(old, d)[k][f] = new[k][f]
  <2>1. CASE new[k] = Blank
    BY <1>1, <2>1, AddAt, SubAt, SubExcluded DEF Blank
  <2>2. CASE new[k] # Blank
    <3>1. new[k][f] = NoChange => old[k][f] = NoChange
      BY <2>2 DEF Keys
    <3> QED
      BY <1>1, <2>2, <3>1, AddAt, SubAt, SubExcluded
  <2> QED
    BY <2>1, <2>2
<1> QED
  BY <1>1, <1>2, RecordSetEquality

(* _cleanDiff loses nothing: adding the cleaned diff has d's effect. *)
LEMMA CleanAdd ==
  ASSUME NEW r \in RecordSet, NEW d \in Diff
  PROVE  RSAdd(r, RSSub(RSAdd(r, d), r)) = RSAdd(r, d)
<1>1. RSAdd(r, d) \in RecordSet
  BY AddType
<1>2. \A k \in Keys(RSAdd(r, d)), f \in Field :
         RSAdd(r, d)[k][f] = NoChange => r[k][f] = NoChange
  BY DEF Keys, RSAdd, RecAdd
<1> QED
  BY <1>1, <1>2, RoundTrip

(* The merge `|` of two diffs does not depend on which side is which. *)
THEOREM MergeSymmetric ==
  ASSUME NEW d \in Diff, NEW e \in Diff
  PROVE  DiffOr(d, e) = DiffOr(e, d)
<1>1. \A a, b \in Record : RecOr(a, b) = RecOr(b, a)
  BY DEF RecOr, Record
<1>2. \A k \in Key : d.inc[k] \in Record /\ e.inc[k] \in Record
  BY DEF Diff, RecordSet
<1> QED
  BY <1>1, <1>2 DEF DiffOr, Keys

-----------------------------------------------------------------------------
(* Class State. *)

Unfiltered == Field \ Filtered

(* Two record sets that agree on every unfiltered field. *)
Agree(r, s) == \A k \in Key, f \in Unfiltered : r[k][f] = s[k][f]

(* A record set that says something of every unfiltered field. *)
SaysAll(rs) == \A k \in Keys(rs), f \in Unfiltered : rs[k][f] # NoChange

FilterClear(st) ==
  \A k \in Key, f \in Filtered :
    st.agreed[k][f] = NoChange /\ st.pending.inc[k][f] = NoChange

(* What holds of a merge's new state and of what it sends to a peer that   *)
(* holds ext.                                                              *)
MergeGood(m, ext) ==
  /\ m.agreed \in RecordSet /\ m.pending \in Diff /\ m.send \in Diff
  /\ m.apply \in Diff
  /\ Proper(m.pending)
  /\ FilterClear(m)
  /\ SaysAll(RSAdd(ext, m.send))
  /\ Agree(Known(m), RSAdd(ext, m.send))
  /\ \A k \in Key : m.pending.inc[k] # Blank => RSAdd(ext, m.send)[k] # Blank

LEMMA FilterAgree ==
  ASSUME NEW r \in RecordSet, NEW s \in RecordSet
  PROVE  FilterRS(r, Filtered) = FilterRS(s, Filtered) <=> Agree(r, s)
<1> DEFINE a == FilterRS(r, Filtered)
           b == FilterRS(s, Filtered)
<1>1. a \in RecordSet /\ b \in RecordSet
  BY FilterType
<1>2. \A k \in Key, f \in Field :
        /\ a[k][f] = IF f \in Filtered THEN NoChange ELSE r[k][f]
        /\ b[k][f] = IF f \in Filtered THEN NoChange ELSE s[k][f]
  BY DEF FilterRS, FilterRec
<1>3. a = b => Agree(r, s)
  BY <1>2 DEF Agree, Unfiltered
<1>4. Agree(r, s) => a = b
  BY <1>1, <1>2, RecordSetEquality DEF Agree, Unfiltered
<1> QED
  BY <1>3, <1>4

LEMMA KnownType ==
  ASSUME NEW st, st.agreed \in RecordSet, st.pending \in Diff
  PROVE  Known(st) \in RecordSet
  BY AddType DEF Known

(* Adding the same diff to both keeps two record sets in agreement. *)
LEMMA AddAgree ==
  ASSUME NEW r \in RecordSet, NEW s \in RecordSet, Agree(r, s), NEW d \in Diff
  PROVE  Agree(RSAdd(r, d), RSAdd(s, d))
  BY AddAt DEF Agree, Unfiltered

LEMMA RecordAt ==
  ASSUME NEW r \in RecordSet, NEW k \in Key
  PROVE  r[k] = Blank <=> \A f \in Field : r[k][f] = NoChange
  BY BlankRecord DEF RecordSet

(* The changes that merge() applies to both sides: their type, that they   *)
(* are proper and filtered, and that a key neither side agreed on before   *)
(* gets the whole local record.                                            *)
LEMMA NcdFacts ==
  ASSUME NEW st, st.agreed \in RecordSet,
         NEW int \in FullRecordSet, NEW ext \in RecordSet, SaysAll(ext),
         NEW ncd, ncd = NonConflicting(st, int, ext)
  PROVE  /\ ncd \in Diff
         /\ \A k \in Key, f \in Filtered : ncd.inc[k][f] = NoChange
         /\ SaysAll(RSAdd(ext, ncd))
<1> DEFINE I == RSSub(int, st.agreed)
           X == RSSub(ext, st.agreed)
<1> int \in RecordSet
  BY DEF FullRecordSet
<1>1. /\ I \in Diff /\ Proper(I)
      /\ X \in Diff /\ Proper(X)
  BY SubType, SubProper
<1>2. /\ Flt(I) \in Diff /\ Flt(I).exc = I.exc
      /\ Flt(X) \in Diff /\ Flt(X).exc = X.exc
      /\ \A k \in Key, f \in Field :
           /\ Flt(I).inc[k][f] = IF f \in Filtered THEN NoChange ELSE I.inc[k][f]
           /\ Flt(X).inc[k][f] = IF f \in Filtered THEN NoChange ELSE X.inc[k][f]
  BY <1>1, FilterProper DEF Flt
<1> HIDE DEF I, X
<1>3. ncd = DiffOr(Flt(I), Flt(X))
  BY DEF NonConflicting, I, X
<1>5. ncd \in Diff
  BY <1>2, <1>3, OrType
<1>6. \A k \in Key, f \in Field :
        ncd.inc[k][f] = IF k \in Flt(I).exc \cup Flt(X).exc THEN NoChange
                        ELSE RecOr(Flt(I).inc[k], Flt(X).inc[k])[f]
  BY <1>3 DEF DiffOr, Blank
<1>7. StateMergeAssumption!1
  BY StateMergeAssumption
<1>8. \A k \in Key, f \in Filtered : ncd.inc[k][f] = NoChange
  BY <1>2, <1>6, <1>7 DEF RecOr
<1>9. ASSUME NEW k \in Keys(RSAdd(ext, ncd)), NEW f \in Unfiltered
      PROVE  RSAdd(ext, ncd)[k][f] # NoChange
  <2>1. k \in Key /\ f \in Field /\ f \notin Filtered
    BY <1>9 DEF Keys, Unfiltered
  <2>2. k \notin ncd.exc
    BY <1>9, <2>1 DEF Keys, RSAdd
  <2>3. CASE ext[k] # Blank
    BY <1>5, <1>9, <2>1, <2>2, <2>3, AddAt DEF SaysAll, Keys
  <2>4. CASE ext[k] = Blank
    <3>1. RSAdd(ext, ncd) \in RecordSet
      BY <1>5, AddType
    <3>2. PICK g \in Field : RSAdd(ext, ncd)[k][g] # NoChange
      BY <1>9, <2>1, <3>1, RecordAt DEF Keys
    <3>3. ncd.inc[k][g] # NoChange
      BY <1>5, <2>1, <2>4, <3>2, AddAt DEF Blank
    <3>4. k \notin Flt(I).exc /\ k \notin Flt(X).exc
      BY <1>6, <2>1, <3>3
    <3>5. st.agreed[k] = Blank
      BY <1>2, <2>1, <2>4, <3>4, SubExcluded DEF X
    <3>6. \A x \in Field : X.inc[k][x] = NoChange
      BY <2>1, <2>4, <3>5, SubAt DEF X, Blank
    <3>7. \A x \in Field : ncd.inc[k][x] = IF x \in Filtered THEN NoChange ELSE I.inc[k][x]
      BY <1>2, <1>6, <2>1, <3>4, <3>6 DEF RecOr
    <3>8. I.inc[k][g] # NoChange
      BY <3>3, <3>7
    <3>9. int[k] # Blank
      BY <2>1, <3>5, <3>8, SubAt DEF I, Blank
    <3>10. int[k][f] # NoChange
      BY <2>1, <3>9 DEF FullRecordSet, Keys
    <3>11. I.inc[k][f] # NoChange
      BY <2>1, <3>5, <3>10, SubAt DEF I, Blank
    <3>12. ncd.inc[k][f] # NoChange
      BY <2>1, <3>7, <3>11
    <3> QED
      BY <1>5, <2>1, <2>2, <3>12, AddAt
  <2> QED
    BY <2>3, <2>4
<1> QED
  BY <1>5, <1>8, <1>9 DEF SaysAll

(* merge() on a share that sends. *)
LEMMA MergeFacts ==
  ASSUME NEW st, st.agreed \in RecordSet,
         \A k \in Key, f \in Filtered : st.agreed[k][f] = NoChange,
         NEW int \in FullRecordSet, NEW ext \in RecordSet, SaysAll(ext),
         NEW m, m = MergeReadWrite(st, int, ext)
  PROVE  MergeGood(m, ext)
<1> DEFINE ncd == NonConflicting(st, int, ext)
           ext1 == RSAdd(ext, m.send)
           P == RSSub(ext1, m.agreed)
<1>1. /\ ncd \in Diff
      /\ \A k \in Key, f \in Filtered : ncd.inc[k][f] = NoChange
      /\ SaysAll(RSAdd(ext, ncd))
  BY NcdFacts
<1>2. /\ m.agreed = RSAdd(st.agreed, ncd)
      /\ m.send = RSSub(RSAdd(ext, ncd), ext)
      /\ m.pending = Flt(P)
  BY DEF MergeReadWrite, CleanDiff
<1> HIDE DEF ncd
<1>3. m.agreed \in RecordSet /\ m.send \in Diff /\ ext1 \in RecordSet
  BY <1>1, <1>2, AddType, SubType
<1>4. ext1 = RSAdd(ext, ncd)
  BY <1>1, <1>2, CleanAdd
<1> HIDE DEF ext1
<1>5. P \in Diff /\ Proper(P)
  BY <1>3, SubType, SubProper
<1>6. /\ m.pending \in Diff /\ Proper(m.pending) /\ m.pending.exc = P.exc
      /\ \A k \in Key, f \in Field :
           m.pending.inc[k][f] = IF f \in Filtered THEN NoChange ELSE P.inc[k][f]
  BY <1>2, <1>5, FilterProper DEF Flt
<1>7. Filtered \subseteq Field
  BY StateMergeAssumption
<1>8. FilterClear(m)
  BY <1>1, <1>2, <1>6, <1>7, AddAt DEF FilterClear
<1>9. ASSUME NEW k \in Key, NEW f \in Unfiltered
      PROVE  Known(m)[k][f] = ext1[k][f]
  <2>1. f \in Field /\ f \notin Filtered
    BY DEF Unfiltered
  <2>2. k \in P.exc <=> m.agreed[k] # Blank /\ ext1[k] = Blank
    BY <1>3, SubExcluded
  <2>3. CASE k \in P.exc
    BY <1>3, <1>6, <2>1, <2>2, <2>3, AddAt DEF Known, Blank
  <2>4. CASE k \notin P.exc
    <3>1. m.pending.inc[k][f] = IF ext1[k][f] = m.agreed[k][f] THEN NoChange ELSE ext1[k][f]
      BY <1>3, <1>6, <2>1, SubAt
    <3>2. ext1[k][f] = NoChange => ext1[k][f] = m.agreed[k][f]
      BY <1>1, <1>4, <2>1, <2>2, <2>4 DEF SaysAll, Keys, Blank
    <3> QED
      BY <1>3, <1>6, <2>1, <2>4, <3>1, <3>2, AddAt DEF Known
  <2> QED
    BY <2>3, <2>4
<1>11. m.apply \in Diff
  <2>1. int \in RecordSet
    BY DEF FullRecordSet
  <2> QED
    BY <1>1, <2>1, AddType, SubType DEF MergeReadWrite, CleanDiff, ncd
<1>10. ASSUME NEW k \in Key, m.pending.inc[k] # Blank
       PROVE  ext1[k] # Blank
  <2>1. PICK f \in Field : m.pending.inc[k][f] # NoChange
    BY <1>6, <1>10, RecordAt DEF Diff
  <2> QED
    BY <1>3, <1>6, <2>1, SubAt DEF Blank
<1> QED
  BY <1>1, <1>3, <1>4, <1>6, <1>8, <1>9, <1>10, <1>11 DEF MergeGood, Agree, ext1

(* What autoResolve() settles, field by field: lost are the conflicting     *)
(* values that give way to the local ones (kept), won those that are taken. *)
Resolution(m, int, r, lost, won, kept) ==
  /\ \A k \in Key, f \in Field :
       /\ lost[k][f] \in {NoChange, m.pending.inc[k][f]}
       /\ won[k][f] \in {NoChange, m.pending.inc[k][f]}
       /\ lost[k][f] = NoChange \/ won[k][f] = NoChange
       /\ kept[k][f] = IF lost[k][f] = NoChange THEN NoChange ELSE int[k][f]
       /\ lost[k][f] # NoChange =>
            /\ int[k] # Blank /\ kept[k][f] # NoChange
            /\ f \in NonNoneField
               \/ (m.pending.inc[k][f] = None /\ m.agreed[k][f] \in {NoChange, Inherit})
       /\ won[k][f] # NoChange => int[k] # Blank /\ int[k][f] = None
       /\ f \in NonNoneField /\ int[k] # Blank /\ m.pending.inc[k][f] # NoChange =>
            lost[k][f] # NoChange \/ won[k][f] # NoChange
       /\ r.agreed[k][f] = IF won[k][f] # NoChange THEN won[k][f]
                           ELSE IF kept[k][f] # NoChange THEN kept[k][f]
                           ELSE m.agreed[k][f]
       /\ r.pending.inc[k][f] = IF lost[k][f] # NoChange \/ won[k][f] # NoChange
                                THEN NoChange ELSE m.pending.inc[k][f]
       /\ r.send.inc[k][f] = IF kept[k][f] # NoChange THEN kept[k][f] ELSE m.send.inc[k][f]
       /\ r.apply.inc[k][f] = IF won[k][f] # NoChange THEN won[k][f] ELSE m.apply.inc[k][f]
  /\ r.pending.exc = m.pending.exc
  /\ r.send.exc = m.send.exc
  /\ r.apply.exc = m.apply.exc
  /\ r.agreed \in RecordSet /\ r.pending \in Diff /\ r.send \in Diff /\ r.apply \in Diff

LEMMA ResolveAt ==
  ASSUME NEW m, m.agreed \in RecordSet, m.pending \in Diff, m.send \in Diff, m.apply \in Diff,
         NEW int \in FullRecordSet, NEW r, r = AutoResolve(m, int)
  PROVE  \E lost \in RecordSet, won \in RecordSet, kept \in RecordSet :
           Resolution(m, int, r, lost, won, kept)
<1> DEFINE lost == Resolvable(m, int, LocalWins)
           won == Resolvable(m, int, RemoteWins)
           kept == [k \in Key |-> [f \in Field |->
                      IF lost[k][f] = NoChange THEN NoChange ELSE int[k][f]]]
           p == m.pending.inc
<1>1. p \in RecordSet /\ int \in RecordSet /\ m.send.inc \in RecordSet /\ m.apply.inc \in RecordSet
  BY DEF Diff, FullRecordSet
<1>2. \A k \in Key, f \in Field :
        /\ p[k][f] \in Value \cup {NoChange}
        /\ int[k][f] \in Value \cup {NoChange}
        /\ int[k] # Blank => int[k][f] # NoChange
  BY <1>1 DEF RecordSet, Record, FullRecordSet, Keys
<1>3. \A k \in Key, f \in Field :
        /\ lost[k][f] \in {NoChange, p[k][f]}
        /\ won[k][f] \in {NoChange, p[k][f]}
        /\ lost[k][f] = NoChange \/ won[k][f] = NoChange
        /\ kept[k][f] = IF lost[k][f] = NoChange THEN NoChange ELSE int[k][f]
        /\ lost[k][f] # NoChange =>
             /\ int[k] # Blank /\ kept[k][f] # NoChange
             /\ f \in NonNoneField
                \/ (p[k][f] = None /\ m.agreed[k][f] \in {NoChange, Inherit})
        /\ won[k][f] # NoChange => int[k] # Blank /\ int[k][f] = None
        /\ f \in NonNoneField /\ int[k] # Blank /\ p[k][f] # NoChange =>
             lost[k][f] # NoChange \/ won[k][f] # NoChange
  BY <1>2 DEF Resolvable, LocalWins, RemoteWins
<1>4. lost \in RecordSet /\ won \in RecordSet /\ kept \in RecordSet
  BY <1>2 DEF Resolvable, RecordSet, Record
<1>5. /\ r.agreed = RSAdd(RSAdd(m.agreed, AsDiff(kept)), AsDiff(won))
      /\ r.pending = DiffRemove(DiffRemove(m.pending, AsDiff(lost)), AsDiff(won))
      /\ r.send = DiffIAdd(m.send, AsDiff(kept))
      /\ r.apply = DiffIAdd(m.apply, AsDiff(won))
  BY DEF AutoResolve
<1> HIDE DEF lost, won, kept
<1>6. /\ AsDiff(lost) \in Diff /\ AsDiff(won) \in Diff /\ AsDiff(kept) \in Diff
      /\ AsDiff(won).inc = won /\ AsDiff(kept).inc = kept /\ AsDiff(lost).inc = lost
      /\ AsDiff(won).exc = {} /\ AsDiff(kept).exc = {} /\ AsDiff(lost).exc = {}
  BY <1>4, ConstantTypes DEF AsDiff
<1>7. RSAdd(m.agreed, AsDiff(kept)) \in RecordSet
  BY <1>1, <1>6, AddType
<1>8. r.agreed \in RecordSet /\ r.pending \in Diff /\ r.send \in Diff /\ r.apply \in Diff
  <2>1. r.agreed \in RecordSet
    BY <1>5, <1>6, <1>7, AddType
  <2>2. DiffRemove(m.pending, AsDiff(lost)) \in Diff
    BY <1>1, <1>6, RemoveType
  <2>3. r.pending \in Diff
    BY <1>5, <1>6, <2>2, RemoveType
  <2>4. r.send \in Diff
    BY <1>1, <1>5, <1>6, IAddType
  <2>5. r.apply \in Diff
    BY <1>1, <1>5, <1>6, IAddType
  <2> QED
    BY <2>1, <2>3, <2>4, <2>5
<1>9. \A k \in Key, f \in Field :
        r.agreed[k][f] = IF won[k][f] # NoChange THEN won[k][f]
                         ELSE IF kept[k][f] # NoChange THEN kept[k][f]
                         ELSE m.agreed[k][f]
  BY <1>1, <1>5, <1>6, <1>7, AddAt
<1>10. /\ r.pending.exc = m.pending.exc
       /\ \A k \in Key, f \in Field :
            r.pending.inc[k][f] = IF lost[k][f] # NoChange \/ won[k][f] # NoChange
                                  THEN NoChange ELSE p[k][f]
  <2> DEFINE q == DiffRemove(m.pending, AsDiff(lost))
  <2>1. q \in Diff /\ r.pending = DiffRemove(q, AsDiff(won))
    BY <1>1, <1>5, <1>6, RemoveType
  <2>2. \A k \in Key, f \in Field :
          q.inc[k][f] = IF p[k][f] = lost[k][f] THEN NoChange ELSE p[k][f]
    BY <1>1, <1>6, RemoveAt
  <2>3. q.exc = m.pending.exc /\ r.pending.exc = q.exc
    BY <1>5, <1>6 DEF DiffRemove
  <2> HIDE DEF q
  <2>4. \A k \in Key, f \in Field :
          r.pending.inc[k][f] = IF q.inc[k][f] = won[k][f] THEN NoChange ELSE q.inc[k][f]
    BY <1>6, <2>1, RemoveAt
  <2> HIDE DEF p
  <2>5. ASSUME NEW k \in Key, NEW f \in Field
        PROVE  r.pending.inc[k][f] = IF lost[k][f] # NoChange \/ won[k][f] # NoChange
                                     THEN NoChange ELSE p[k][f]
    <3>1. /\ lost[k][f] \in {NoChange, p[k][f]} /\ won[k][f] \in {NoChange, p[k][f]}
          /\ lost[k][f] = NoChange \/ won[k][f] = NoChange
      BY <1>3
    <3> QED
      BY <2>2, <2>4, <3>1
  <2> QED
    BY <2>3, <2>5
<1>11. /\ r.send.inc = RSAdd(m.send.inc, AsDiff(kept)) /\ r.send.exc = m.send.exc
       /\ r.apply.inc = RSAdd(m.apply.inc, AsDiff(won)) /\ r.apply.exc = m.apply.exc
  BY <1>5, <1>6 DEF DiffIAdd
<1>12. \A k \in Key, f \in Field :
         /\ r.send.inc[k][f] = IF kept[k][f] # NoChange THEN kept[k][f] ELSE m.send.inc[k][f]
         /\ r.apply.inc[k][f] = IF won[k][f] # NoChange THEN won[k][f] ELSE m.apply.inc[k][f]
  <2>1. /\ m.send.inc \in RecordSet /\ m.apply.inc \in RecordSet
        /\ AsDiff(kept) \in Diff /\ AsDiff(kept).exc = {} /\ AsDiff(kept).inc = kept
        /\ AsDiff(won) \in Diff /\ AsDiff(won).exc = {} /\ AsDiff(won).inc = won
    BY <1>1, <1>6 DEF Diff, AsDiff
  <2>2. \A k \in Key, f \in Field :
          /\ RSAdd(m.send.inc, AsDiff(kept))[k][f]
               = IF kept[k][f] # NoChange THEN kept[k][f] ELSE m.send.inc[k][f]
          /\ RSAdd(m.apply.inc, AsDiff(won))[k][f]
               = IF won[k][f] # NoChange THEN won[k][f] ELSE m.apply.inc[k][f]
    BY <2>1, AddAt
  <2> QED
    BY <1>11, <2>2
<1>13. Resolution(m, int, r, lost, won, kept)
  BY <1>3, <1>8, <1>9, <1>10, <1>11, <1>12 DEF Resolution
<1> QED
  BY <1>4, <1>13

(* autoResolve() settles a conflict on both sides at once. *)
LEMMA AutoResolveFacts ==
  ASSUME NEW m, NEW ext \in RecordSet, MergeGood(m, ext),
         NEW int \in FullRecordSet, NEW r, r = AutoResolve(m, int)
  PROVE  MergeGood(r, ext)
<1> DEFINE p == m.pending.inc
           ext1 == RSAdd(ext, m.send)
           ext2 == RSAdd(ext, r.send)
<1>1. /\ m.agreed \in RecordSet /\ m.pending \in Diff /\ m.send \in Diff /\ m.apply \in Diff
      /\ p \in RecordSet /\ int \in RecordSet
  BY DEF MergeGood, Diff, FullRecordSet
<1>2. PICK lost \in RecordSet, won \in RecordSet, kept \in RecordSet :
        Resolution(m, int, r, lost, won, kept)
  BY <1>1, ResolveAt
<1>3. \A k \in Key, f \in Field :
        /\ lost[k][f] \in {NoChange, p[k][f]}
        /\ won[k][f] \in {NoChange, p[k][f]}
        /\ lost[k][f] = NoChange \/ won[k][f] = NoChange
        /\ kept[k][f] = IF lost[k][f] = NoChange THEN NoChange ELSE int[k][f]
        /\ lost[k][f] # NoChange => kept[k][f] # NoChange
  BY <1>2 DEF Resolution
<1>8. r.agreed \in RecordSet /\ r.pending \in Diff /\ r.send \in Diff /\ r.apply \in Diff
  BY <1>2 DEF Resolution
<1>9. \A k \in Key, f \in Field :
        r.agreed[k][f] = IF won[k][f] # NoChange THEN won[k][f]
                         ELSE IF kept[k][f] # NoChange THEN kept[k][f]
                         ELSE m.agreed[k][f]
  BY <1>2 DEF Resolution
<1>10. /\ r.pending.exc = m.pending.exc
       /\ \A k \in Key, f \in Field :
            r.pending.inc[k][f] = IF lost[k][f] # NoChange \/ won[k][f] # NoChange
                                  THEN NoChange ELSE p[k][f]
  BY <1>2 DEF Resolution
<1>11. /\ r.send.exc = m.send.exc
       /\ \A k \in Key, f \in Field :
            r.send.inc[k][f] = IF kept[k][f] # NoChange THEN kept[k][f] ELSE m.send.inc[k][f]
  BY <1>2 DEF Resolution
<1>12. ext1 \in RecordSet /\ ext2 \in RecordSet
  BY <1>1, <1>8, AddType
<1>13. \A k \in Key, f \in Field :
         ext2[k][f] = IF k \in m.send.exc THEN NoChange
                      ELSE IF kept[k][f] # NoChange THEN kept[k][f] ELSE ext1[k][f]
  <2>1. ASSUME NEW k \in Key, NEW f \in Field
        PROVE  /\ ext1[k][f] = IF k \in m.send.exc \/ (m.send.inc[k][f] = NoChange /\ ext[k][f] = NoChange)
                               THEN NoChange
                               ELSE IF m.send.inc[k][f] = NoChange THEN ext[k][f] ELSE m.send.inc[k][f]
               /\ ext2[k][f] = IF k \in r.send.exc \/ (r.send.inc[k][f] = NoChange /\ ext[k][f] = NoChange)
                               THEN NoChange
                               ELSE IF r.send.inc[k][f] = NoChange THEN ext[k][f] ELSE r.send.inc[k][f]
    BY <1>1, <1>8, AddAt
  <2> HIDE DEF ext1, ext2
  <2> QED
    BY <1>11, <2>1
<1>14. \A k \in Key : k \in m.send.exc => ext1[k] = Blank
  BY DEF RSAdd
<1>15. \A k \in Key : p[k] # Blank => ext1[k] # Blank
  BY DEF MergeGood
<1>16. \A k \in Key, f \in Field : p[k] = Blank => kept[k][f] = NoChange /\ won[k][f] = NoChange
  BY <1>3 DEF Blank
<1>17. SaysAll(ext1) /\ Agree(Known(m), ext1) /\ Proper(m.pending) /\ FilterClear(m)
  BY DEF MergeGood
<1> HIDE DEF ext1, ext2, p
<1>20. \A k \in Key : ext2[k] # Blank => ext1[k] # Blank
  BY <1>12, <1>13, <1>14, <1>15, <1>16, RecordAt
<1>21. SaysAll(ext2)
  <2>1. SUFFICES ASSUME NEW k \in Keys(ext2), NEW f \in Unfiltered
                 PROVE  ext2[k][f] # NoChange
    BY DEF SaysAll
  <2>2. k \in Key /\ f \in Field /\ ext2[k] # Blank
    BY DEF Keys, Unfiltered
  <2>3. PICK g \in Field : ext2[k][g] # NoChange
    BY <1>12, <2>2, RecordAt
  <2>4. k \notin m.send.exc
    BY <1>13, <2>2, <2>3
  <2>5. ext1[k][f] # NoChange
    BY <1>17, <1>20, <2>2 DEF SaysAll, Keys
  <2> QED
    BY <1>13, <2>2, <2>4, <2>5
<1>22. ASSUME NEW k \in Key, NEW f \in Unfiltered
       PROVE  Known(r)[k][f] = ext2[k][f]
  <2>1. f \in Field
    BY DEF Unfiltered
  <2>2. /\ Known(m)[k][f] = ext1[k][f]
        /\ Known(m)[k][f] = IF k \in m.pending.exc THEN NoChange
                            ELSE IF p[k][f] # NoChange THEN p[k][f] ELSE m.agreed[k][f]
        /\ Known(r)[k][f] = IF k \in m.pending.exc THEN NoChange
                            ELSE IF r.pending.inc[k][f] # NoChange THEN r.pending.inc[k][f]
                            ELSE r.agreed[k][f]
    <3>1. Known(m)[k][f] = ext1[k][f]
      BY <1>17 DEF Agree
    <3>2. Known(m)[k][f] = IF k \in m.pending.exc THEN NoChange
                           ELSE IF p[k][f] # NoChange THEN p[k][f] ELSE m.agreed[k][f]
      BY <1>1, <2>1, AddAt DEF Known, p
    <3>3. Known(r)[k][f] = IF k \in r.pending.exc THEN NoChange
                           ELSE IF r.pending.inc[k][f] # NoChange THEN r.pending.inc[k][f]
                           ELSE r.agreed[k][f]
      BY <1>8, <2>1, AddAt DEF Known
    <3> QED
      BY <1>10, <3>1, <3>2, <3>3
  <2>3. k \in m.pending.exc \/ k \in m.send.exc
          => kept[k][f] = NoChange /\ won[k][f] = NoChange /\ lost[k][f] = NoChange
    BY <1>3, <1>14, <1>15, <1>16, <1>17, <2>1 DEF Proper, p
  <2>4. k \in m.send.exc => ext1[k][f] = NoChange
    BY <1>14, <2>1 DEF Blank
  <2>5. /\ ext2[k][f] = IF k \in m.send.exc THEN NoChange
                        ELSE IF kept[k][f] # NoChange THEN kept[k][f] ELSE ext1[k][f]
        /\ r.agreed[k][f] = IF won[k][f] # NoChange THEN won[k][f]
                            ELSE IF kept[k][f] # NoChange THEN kept[k][f]
                            ELSE m.agreed[k][f]
        /\ r.pending.inc[k][f] = IF lost[k][f] # NoChange \/ won[k][f] # NoChange
                                 THEN NoChange ELSE p[k][f]
        /\ won[k][f] \in {NoChange, p[k][f]}
        /\ lost[k][f] = NoChange \/ won[k][f] = NoChange
        /\ kept[k][f] = NoChange <=> lost[k][f] = NoChange
    BY <1>3, <1>9, <1>10, <1>13, <2>1
  <2>6. CASE lost[k][f] # NoChange
    BY <2>2, <2>3, <2>5, <2>6
  <2>7. CASE won[k][f] # NoChange
    BY <2>2, <2>3, <2>5, <2>7
  <2>8. CASE lost[k][f] = NoChange /\ won[k][f] = NoChange
    BY <2>2, <2>3, <2>4, <2>5, <2>8
  <2> QED
    BY <2>6, <2>7, <2>8
<1>23. Proper(r.pending)
  <2>1. SUFFICES ASSUME NEW k \in m.pending.exc PROVE r.pending.inc[k] = Blank
    BY <1>10 DEF Proper
  <2>2. k \in Key /\ p[k] = Blank
    BY <1>1, <1>17 DEF Proper, p, Diff
  <2>3. \A f \in Field : r.pending.inc[k][f] = NoChange
    BY <1>10, <2>2 DEF Blank
  <2> QED
    BY <1>8, <2>2, <2>3, RecordAt DEF Diff
<1>24. FilterClear(r)
  <2>1. \A f \in Filtered : f \in Field
    BY StateMergeAssumption
  <2>2. \A k \in Key, f \in Filtered : m.agreed[k][f] = NoChange /\ p[k][f] = NoChange
    BY <1>17 DEF FilterClear, p
  <2> QED
    BY <1>3, <1>9, <1>10, <2>1, <2>2 DEF FilterClear
<1>25. ASSUME NEW k \in Key, r.pending.inc[k] # Blank
       PROVE  ext2[k] # Blank
  <2>1. PICK f \in Field : r.pending.inc[k][f] # NoChange
    BY <1>8, <1>25, RecordAt DEF Diff
  <2>2. p[k] # Blank
    BY <1>10, <2>1 DEF Blank
  <2>3. ext1[k] # Blank /\ k \notin m.send.exc
    BY <1>14, <1>15, <2>2
  <2>4. PICK g \in Field : ext1[k][g] # NoChange
    BY <1>12, <2>3, RecordAt
  <2> QED
    BY <1>12, <1>13, <2>3, <2>4, RecordAt
<1> QED
  BY <1>8, <1>21, <1>22, <1>23, <1>24, <1>25 DEF MergeGood, Agree, ext2

(* The local records after a merge's result m is applied to them, before a *)
(* new record gets its defaults.                                           *)
Applied(m, int) == RSAdd(int, m.apply)

(* A conflict tells the user why the two sides differ in field f of k.     *)
Tells(m, int, k, f) ==
  \/ k \in m.pending.exc
  \/ m.pending.inc[k][f] # NoChange
  \/ Applied(m, int)[k] = Blank /\ m.pending.inc[k] # Blank

(* What a merge of int and ext on top of st tells about key k: a conflict  *)
(* is pending where, and only where, the two sides stay different, and it  *)
(* was the peer who departed from what was agreed.                         *)
Honest(m, st, int, ext, k) ==
  /\ k \in m.pending.exc =>
       /\ Applied(m, int)[k] # Blank /\ m.agreed[k] # Blank
       /\ st.agreed[k] # Blank /\ ext[k] = Blank
  /\ \A f \in Filtered :
       /\ Applied(m, int)[k] # Blank => Applied(m, int)[k][f] = int[k][f]
       /\ m.send.inc[k][f] = NoChange
  /\ \A f \in Unfiltered :
       /\ Applied(m, int)[k] # Blank => Applied(m, int)[k][f] # NoChange
       /\ m.pending.inc[k][f] # NoChange =>
            /\ ext[k] # Blank /\ ext[k][f] # st.agreed[k][f]
            /\ Applied(m, int)[k][f] # m.pending.inc[k][f]
       /\ ~Tells(m, int, k, f) => Applied(m, int)[k][f] = m.agreed[k][f]

(* merge() itself gives neither side's change up: what differs stays as it *)
(* is on both sides, pending.                                              *)
Cautious(m, st, int, ext, k) ==
  /\ m.pending.inc[k] # Blank => (int[k] = Blank <=> Applied(m, int)[k] = Blank)
  /\ \A f \in Unfiltered :
       /\ m.pending.inc[k][f] # NoChange =>
            /\ m.pending.inc[k][f] = ext[k][f]
            /\ Applied(m, int)[k][f] = int[k][f]
            /\ RSAdd(ext, m.send)[k][f] = ext[k][f]
       /\ ext[k][f] # st.agreed[k][f] => RSAdd(ext, m.send)[k][f] = ext[k][f]
       /\ int[k][f] # st.agreed[k][f] => Applied(m, int)[k][f] = int[k][f]

LEMMA HonestMerge ==
  ASSUME NEW st, st.agreed \in RecordSet,
         \A k \in Key, f \in Filtered : st.agreed[k][f] = NoChange,
         NEW int \in FullRecordSet, NEW ext \in RecordSet, SaysAll(ext),
         NEW m, m = MergeReadWrite(st, int, ext), NEW k \in Key
  PROVE  Honest(m, st, int, ext, k) /\ Cautious(m, st, int, ext, k)
<1> DEFINE I == RSSub(int, st.agreed)
           X == RSSub(ext, st.agreed)
           FI == Flt(I)
           FX == Flt(X)
           ncd == NonConflicting(st, int, ext)
           ext1 == RSAdd(ext, m.send)
           int1 == Applied(m, int)
           gone == k \in ncd.exc
<1> int \in RecordSet
  BY DEF FullRecordSet
<1>1. /\ I \in Diff /\ Proper(I)
      /\ X \in Diff /\ Proper(X)
  BY SubType, SubProper
<1>2. /\ FI \in Diff /\ FI.exc = I.exc /\ Proper(FI)
      /\ FX \in Diff /\ FX.exc = X.exc /\ Proper(FX)
      /\ \A f \in Field :
           /\ FI.inc[k][f] = IF f \in Filtered THEN NoChange ELSE I.inc[k][f]
           /\ FX.inc[k][f] = IF f \in Filtered THEN NoChange ELSE X.inc[k][f]
  BY <1>1, FilterProper DEF Flt
<1>3. ncd = DiffOr(FI, FX)
  BY DEF NonConflicting
<1>4. ncd \in Diff
  BY <1>2, <1>3, OrType
<1>5. /\ k \in I.exc <=> st.agreed[k] # Blank /\ int[k] = Blank
      /\ k \in X.exc <=> st.agreed[k] # Blank /\ ext[k] = Blank
      /\ \A f \in Field :
           /\ I.inc[k][f] = IF int[k][f] = st.agreed[k][f] THEN NoChange ELSE int[k][f]
           /\ X.inc[k][f] = IF ext[k][f] = st.agreed[k][f] THEN NoChange ELSE ext[k][f]
  BY SubAt, SubExcluded
<1>6. /\ gone <=> /\ k \in I.exc \cup X.exc
                  /\ FI.inc[k] = Blank /\ FX.inc[k] = Blank
      /\ k \in I.exc \cup X.exc => \A f \in Field : ncd.inc[k][f] = NoChange
      /\ k \notin I.exc \cup X.exc =>
           \A f \in Field : ncd.inc[k][f] =
              IF FX.inc[k][f] = NoChange THEN FI.inc[k][f]
              ELSE IF FI.inc[k][f] \in {NoChange, FX.inc[k][f]} THEN FX.inc[k][f] ELSE NoChange
  <2>1. /\ gone <=> /\ k \in FI.exc \cup FX.exc
                    /\ k \notin Keys(FI.inc) \cup Keys(FX.inc)
        /\ k \in FI.exc \cup FX.exc => ncd.inc[k] = Blank
        /\ k \notin FI.exc \cup FX.exc => ncd.inc[k] = RecOr(FI.inc[k], FX.inc[k])
    BY <1>3 DEF DiffOr
  <2>2. \A f \in Field : RecOr(FI.inc[k], FX.inc[k])[f] =
              IF FX.inc[k][f] = NoChange THEN FI.inc[k][f]
              ELSE IF FI.inc[k][f] \in {NoChange, FX.inc[k][f]} THEN FX.inc[k][f] ELSE NoChange
    BY DEF RecOr
  <2> HIDE DEF I, X, FI, FX, ncd
  <2> QED
    BY <1>2, <2>1, <2>2 DEF Keys, Blank
<1>7. /\ FI.inc[k] = Blank <=> \A f \in Unfiltered : I.inc[k][f] = NoChange
      /\ FX.inc[k] = Blank <=> \A f \in Unfiltered : X.inc[k][f] = NoChange
  <2>1. FI.inc \in RecordSet /\ FX.inc \in RecordSet
    BY <1>2 DEF Diff
  <2> HIDE DEF I, X, FI, FX, ncd
  <2> QED
    BY <1>2, <2>1, RecordAt DEF Unfiltered
<1>8. /\ m.agreed = RSAdd(st.agreed, ncd)
      /\ m.send = RSSub(RSAdd(ext, ncd), ext)
      /\ m.apply = RSSub(RSAdd(int, ncd), int)
      /\ m.pending = Flt(RSSub(ext1, m.agreed))
  BY DEF MergeReadWrite, CleanDiff
<1> HIDE DEF ncd, I, X, FI, FX
<1>9. /\ ext1 = RSAdd(ext, ncd)
      /\ int1 = RSAdd(int, ncd)
  BY <1>4, <1>8, CleanAdd DEF Applied
<1>10. ext1 \in RecordSet /\ int1 \in RecordSet /\ m.agreed \in RecordSet
  BY <1>4, <1>8, <1>9, AddType
<1> HIDE DEF ext1, int1
<1>11. /\ RSSub(ext1, m.agreed) \in Diff /\ Proper(RSSub(ext1, m.agreed))
       /\ k \in RSSub(ext1, m.agreed).exc <=> m.agreed[k] # Blank /\ ext1[k] = Blank
       /\ \A f \in Field : RSSub(ext1, m.agreed).inc[k][f] =
            IF ext1[k][f] = m.agreed[k][f] THEN NoChange ELSE ext1[k][f]
  BY <1>10, SubType, SubProper, SubExcluded, SubAt
<1>12. /\ k \in m.pending.exc <=> m.agreed[k] # Blank /\ ext1[k] = Blank
       /\ m.pending \in Diff
       /\ \A f \in Field : m.pending.inc[k][f] =
            IF f \in Filtered \/ ext1[k][f] = m.agreed[k][f] THEN NoChange ELSE ext1[k][f]
  BY <1>8, <1>11, FilterProper DEF Flt
<1>13. /\ gone => int1[k] = Blank /\ ext1[k] = Blank /\ m.agreed[k] = Blank
       /\ ~gone => \A f \in Field :
            /\ int1[k][f] = IF ncd.inc[k][f] = NoChange THEN int[k][f] ELSE ncd.inc[k][f]
            /\ ext1[k][f] = IF ncd.inc[k][f] = NoChange THEN ext[k][f] ELSE ncd.inc[k][f]
            /\ m.agreed[k][f] = IF ncd.inc[k][f] = NoChange THEN st.agreed[k][f] ELSE ncd.inc[k][f]
  <2>1. /\ gone => int1[k] = Blank /\ ext1[k] = Blank /\ m.agreed[k] = Blank
    BY <1>8, <1>9 DEF RSAdd
  <2>2. \A f \in Field :
            /\ int1[k][f] = IF gone \/ (ncd.inc[k][f] = NoChange /\ int[k][f] = NoChange) THEN NoChange ELSE IF ncd.inc[k][f] = NoChange THEN int[k][f] ELSE ncd.inc[k][f]
            /\ ext1[k][f] = IF gone \/ (ncd.inc[k][f] = NoChange /\ ext[k][f] = NoChange) THEN NoChange ELSE IF ncd.inc[k][f] = NoChange THEN ext[k][f] ELSE ncd.inc[k][f]
            /\ m.agreed[k][f] = IF gone \/ (ncd.inc[k][f] = NoChange /\ st.agreed[k][f] = NoChange) THEN NoChange ELSE IF ncd.inc[k][f] = NoChange THEN st.agreed[k][f] ELSE ncd.inc[k][f]
    BY <1>4, <1>8, <1>9, AddAt
  <2> QED
    BY <2>1, <2>2
<1>14. \A f \in Filtered : f \in Field /\ f \notin Unfiltered
  BY StateMergeAssumption DEF Unfiltered
<1>15. \A f \in Unfiltered : f \in Field /\ f \notin Filtered
  BY DEF Unfiltered
<1>16. /\ int[k] # Blank => \A f \in Field : int[k][f] # NoChange
       /\ ext[k] # Blank => \A f \in Unfiltered : ext[k][f] # NoChange
       /\ int[k] = Blank => \A f \in Field : int[k][f] = NoChange
       /\ ext[k] = Blank => \A f \in Field : ext[k][f] = NoChange
       /\ st.agreed[k] = Blank => \A f \in Field : st.agreed[k][f] = NoChange
       /\ int1[k] = Blank => \A f \in Field : int1[k][f] = NoChange
       /\ ext1[k] = Blank => \A f \in Field : ext1[k][f] = NoChange
       /\ m.agreed[k] = Blank => \A f \in Field : m.agreed[k][f] = NoChange
  BY DEF FullRecordSet, SaysAll, Keys, Blank
<1>17. \A f \in Filtered : ncd.inc[k][f] = NoChange
  BY <1>2, <1>6, <1>14
<1>18. m.pending.inc[k] = Blank <=> \A f \in Unfiltered : m.pending.inc[k][f] = NoChange
  <2>1. m.pending.inc \in RecordSet
    BY <1>12 DEF Diff
  <2> QED
    BY <1>12, <2>1, RecordAt DEF Unfiltered
<1>19. /\ int1[k] = Blank <=> \A f \in Field : int1[k][f] = NoChange
       /\ ext1[k] = Blank <=> \A f \in Field : ext1[k][f] = NoChange
       /\ m.agreed[k] = Blank <=> \A f \in Field : m.agreed[k][f] = NoChange
       /\ st.agreed[k] = Blank <=> \A f \in Field : st.agreed[k][f] = NoChange
  BY <1>10, RecordAt
<1>20. \A f \in Field : m.send.inc[k][f] = IF ext1[k][f] = ext[k][f] THEN NoChange ELSE ext1[k][f]
  BY <1>8, <1>9, <1>10, SubAt
<1>21. \A f \in Filtered : m.send.inc[k][f] = NoChange /\ (int1[k] # Blank => int1[k][f] = int[k][f])
  BY <1>13, <1>14, <1>16, <1>17, <1>20
<1> DEFINE Goal == Honest(m, st, int, ext, k) /\ Cautious(m, st, int, ext, k)
<1>22. CASE gone
  <2>1. int1[k] = Blank /\ ext1[k] = Blank /\ m.agreed[k] = Blank
    BY <1>13, <1>22
  <2>2. \A f \in Unfiltered : m.pending.inc[k][f] = NoChange
    BY <1>12, <1>15, <1>16, <2>1
  <2>3. \A f \in Unfiltered : int[k][f] = st.agreed[k][f] \/ int[k][f] = NoChange
    BY <1>5, <1>6, <1>7, <1>15, <1>22
  <2>4. \A f \in Unfiltered : ext[k][f] = st.agreed[k][f] \/ ext[k][f] = NoChange
    BY <1>5, <1>6, <1>7, <1>15, <1>22
  <2> QED
    BY <1>12, <1>15, <1>16, <1>18, <1>21, <2>1, <2>2, <2>3, <2>4 DEF Honest, Cautious, Tells, int1, ext1
<1>23. CASE k \in I.exc \cup X.exc /\ ~gone
  <2>1. \A f \in Field : int1[k][f] = int[k][f] /\ ext1[k][f] = ext[k][f] /\ m.agreed[k][f] = st.agreed[k][f]
    BY <1>6, <1>13, <1>23
  <2>2. int1[k] = int[k] /\ ext1[k] = ext[k] /\ m.agreed[k] = st.agreed[k]
    BY <1>10, <2>1 DEF RecordSet, Record
  <2>3. /\ st.agreed[k] # Blank
        /\ (int[k] = Blank) # (ext[k] = Blank)
    <3>1. st.agreed[k] # Blank /\ (int[k] = Blank \/ ext[k] = Blank)
      BY <1>5, <1>23
    <3>2. ~ (int[k] = Blank /\ ext[k] = Blank)
      BY <1>5, <1>6, <1>7, <1>15, <1>16, <1>23
    <3> QED
      BY <3>1, <3>2
  <2>4. CASE int[k] = Blank /\ ext[k] # Blank
    <3>1. k \notin m.pending.exc
      BY <1>12, <2>2, <2>4
    <3>2. m.pending.inc[k] # Blank
      <4>1. PICK f \in Unfiltered : X.inc[k][f] # NoChange
        BY <1>5, <1>6, <1>7, <1>15, <1>16, <1>23, <2>4
      <4> QED
        BY <1>5, <1>12, <1>15, <1>18, <2>1, <4>1
    <3> QED
      BY <1>12, <1>15, <1>16, <1>21, <2>1, <2>2, <2>4, <3>1, <3>2 DEF Honest, Cautious, Tells, int1, ext1
  <2>5. CASE int[k] # Blank /\ ext[k] = Blank
    <3>1. k \in m.pending.exc
      BY <1>12, <2>2, <2>3, <2>5
    <3>2. \A f \in Unfiltered : m.pending.inc[k][f] = NoChange
      BY <1>12, <1>15, <1>16, <2>2, <2>5
    <3> QED
      BY <1>15, <1>16, <1>18, <1>21, <2>1, <2>2, <2>3, <2>5, <3>1, <3>2 DEF Honest, Cautious, Tells, int1, ext1
  <2> QED
    BY <2>3, <2>4, <2>5
<1>24. CASE k \notin I.exc \cup X.exc
  <2>1. ~gone
    BY <1>6, <1>24
  <2>2. st.agreed[k] # Blank => int[k] # Blank /\ ext[k] # Blank
    BY <1>5, <1>24
  <2>3. ASSUME NEW f \in Unfiltered
        PROVE  /\ f \in Field
               /\ ncd.inc[k][f] = IF ext[k][f] = st.agreed[k][f] \/ ext[k][f] = NoChange
                                  THEN IF int[k][f] = st.agreed[k][f] THEN NoChange ELSE int[k][f]
                                  ELSE IF int[k][f] \in {NoChange, st.agreed[k][f], ext[k][f]}
                                  THEN ext[k][f] ELSE NoChange
    BY <1>2, <1>5, <1>6, <1>15, <1>24
  <2>4. k \notin m.pending.exc
    <3>1. CASE st.agreed[k] = Blank
      <4>1. ASSUME NEW f \in Field, m.agreed[k][f] # NoChange PROVE ext1[k][f] # NoChange
        BY <1>13, <1>16, <2>1, <3>1, <4>1
      <4> QED
        BY <1>12, <1>19, <4>1
    <3>2. CASE st.agreed[k] # Blank
      <4>1. PICK f \in Field : st.agreed[k][f] # NoChange
        BY <1>19, <3>2
      <4>2. f \in Unfiltered
        BY <4>1 DEF Unfiltered
      <4>3. ext1[k][f] # NoChange
        BY <1>13, <1>16, <2>1, <2>2, <3>2, <4>2, <4>1
      <4> QED
        BY <1>12, <1>16, <4>1, <4>3
    <3> QED
      BY <3>1, <3>2
  <2>5. ASSUME NEW f \in Unfiltered
        PROVE  /\ int[k] # Blank \/ ext[k] # Blank => int1[k][f] # NoChange
               /\ int[k] = Blank /\ ext[k] = Blank => int1[k][f] = NoChange
               /\ m.pending.inc[k][f] # NoChange =>
                    /\ ext[k] # Blank /\ ext[k][f] # st.agreed[k][f]
                    /\ int[k] # Blank /\ int[k][f] # ext[k][f]
                    /\ m.pending.inc[k][f] = ext[k][f]
                    /\ int1[k][f] = int[k][f] /\ ext1[k][f] = ext[k][f]
               /\ m.pending.inc[k][f] = NoChange => int1[k][f] = m.agreed[k][f]
               /\ ext[k][f] # st.agreed[k][f] => ext1[k][f] = ext[k][f]
               /\ int[k][f] # st.agreed[k][f] => int1[k][f] = int[k][f]
    <3>1. /\ f \in Field /\ f \notin Filtered
          /\ ext[k] = Blank => ext[k][f] = NoChange /\ st.agreed[k][f] = NoChange
          /\ int[k] = Blank => int[k][f] = NoChange /\ st.agreed[k][f] = NoChange
          /\ ext[k] # Blank => ext[k][f] # NoChange
          /\ int[k] # Blank => int[k][f] # NoChange
      BY <1>15, <1>16, <2>2
    <3>2. /\ int1[k][f] = IF ncd.inc[k][f] = NoChange THEN int[k][f] ELSE ncd.inc[k][f]
          /\ ext1[k][f] = IF ncd.inc[k][f] = NoChange THEN ext[k][f] ELSE ncd.inc[k][f]
          /\ m.agreed[k][f] = IF ncd.inc[k][f] = NoChange THEN st.agreed[k][f] ELSE ncd.inc[k][f]
          /\ m.pending.inc[k][f] = IF ext1[k][f] = m.agreed[k][f] THEN NoChange ELSE ext1[k][f]
      BY <1>12, <1>13, <2>1, <3>1
    <3> QED
      BY <2>3, <3>1, <3>2
  <2>6. int[k] = Blank /\ ext[k] = Blank => int1[k] = Blank
    BY <1>13, <1>16, <1>17, <1>19, <2>1, <2>5 DEF Unfiltered
  <2>7. int[k] # Blank => int1[k] # Blank
    <3>1. CASE int[k] # Blank
      <4>1. PICK f \in Field : int[k][f] # NoChange
        BY <3>1, RecordAt
      <4> QED
        BY <1>13, <1>19, <2>1, <4>1
    <3> QED
      BY <3>1
  <2>8. ASSUME m.pending.inc[k] # Blank PROVE int[k] # Blank
    BY <1>18, <2>5, <2>8
  <2> QED
    BY <1>21, <2>4, <2>5, <2>6, <2>7, <2>8 DEF Honest, Cautious, Tells, int1, ext1
<1> QED
  BY <1>22, <1>23, <1>24

(* translator.resolve decides the conflict of a and b in field f.          *)
Decided(f, a, b) == f \in NonNoneField \/ None \in {a, b}

(* A side's own change gives way only where translator.resolve decides.    *)
Yields(m, st, int, ext, k) ==
  \A f \in Unfiltered :
    /\ ext[k][f] # st.agreed[k][f] /\ RSAdd(ext, m.send)[k][f] # ext[k][f]
         => Decided(f, int[k][f], ext[k][f])
    /\ int[k][f] # st.agreed[k][f] /\ Applied(m, int)[k][f] # int[k][f]
         => Decided(f, int[k][f], ext[k][f])

LEMMA HonestResolve ==
  ASSUME NEW st, NEW m, NEW int \in FullRecordSet, NEW ext \in RecordSet, MergeGood(m, ext),
         NEW k \in Key, Honest(m, st, int, ext, k), Cautious(m, st, int, ext, k),
         NEW r, r = AutoResolve(m, int)
  PROVE  Honest(r, st, int, ext, k) /\ Yields(r, st, int, ext, k)
<1> DEFINE L == Applied(m, int)
           N == Applied(r, int)
           ext1 == RSAdd(ext, m.send)
           ext2 == RSAdd(ext, r.send)
<1>1. /\ m.agreed \in RecordSet /\ m.pending \in Diff /\ m.send \in Diff /\ m.apply \in Diff
      /\ int \in RecordSet /\ m.pending.inc \in RecordSet
  BY DEF MergeGood, FullRecordSet, Diff
<1>2. PICK lost \in RecordSet, won \in RecordSet, kept \in RecordSet :
        Resolution(m, int, r, lost, won, kept)
  BY <1>1, ResolveAt
<1>3. /\ r.pending.exc = m.pending.exc /\ r.send.exc = m.send.exc /\ r.apply.exc = m.apply.exc
      /\ r.agreed \in RecordSet /\ r.pending \in Diff /\ r.send \in Diff /\ r.apply \in Diff
      /\ r.pending.inc \in RecordSet
  BY <1>2 DEF Resolution, Diff
<1>4. ASSUME NEW f \in Field
      PROVE  /\ lost[k][f] \in {NoChange, m.pending.inc[k][f]}
             /\ won[k][f] \in {NoChange, m.pending.inc[k][f]}
             /\ lost[k][f] = NoChange \/ won[k][f] = NoChange
             /\ kept[k][f] = IF lost[k][f] = NoChange THEN NoChange ELSE int[k][f]
             /\ lost[k][f] # NoChange =>
                  /\ int[k] # Blank /\ kept[k][f] # NoChange
                  /\ f \in NonNoneField \/ m.pending.inc[k][f] = None
             /\ won[k][f] # NoChange => int[k] # Blank /\ int[k][f] = None
             /\ r.agreed[k][f] = IF won[k][f] # NoChange THEN won[k][f]
                                 ELSE IF kept[k][f] # NoChange THEN kept[k][f]
                                 ELSE m.agreed[k][f]
             /\ r.pending.inc[k][f] = IF lost[k][f] # NoChange \/ won[k][f] # NoChange
                                      THEN NoChange ELSE m.pending.inc[k][f]
             /\ r.send.inc[k][f] = IF kept[k][f] # NoChange THEN kept[k][f] ELSE m.send.inc[k][f]
             /\ r.apply.inc[k][f] = IF won[k][f] # NoChange THEN won[k][f] ELSE m.apply.inc[k][f]
  BY <1>2 DEF Resolution
<1>5. L \in RecordSet /\ N \in RecordSet /\ ext1 \in RecordSet /\ ext2 \in RecordSet
  BY <1>1, <1>3, AddType DEF Applied
<1>6. ASSUME NEW f \in Field
      PROVE  /\ N[k][f] = IF k \in m.apply.exc THEN NoChange
                          ELSE IF won[k][f] # NoChange THEN won[k][f] ELSE L[k][f]
             /\ ext2[k][f] = IF k \in m.send.exc THEN NoChange
                             ELSE IF kept[k][f] # NoChange THEN kept[k][f] ELSE ext1[k][f]
  <2>1. /\ L[k][f] = IF k \in m.apply.exc \/ (m.apply.inc[k][f] = NoChange /\ int[k][f] = NoChange)
                     THEN NoChange
                     ELSE IF m.apply.inc[k][f] = NoChange THEN int[k][f] ELSE m.apply.inc[k][f]
        /\ N[k][f] = IF k \in r.apply.exc \/ (r.apply.inc[k][f] = NoChange /\ int[k][f] = NoChange)
                     THEN NoChange
                     ELSE IF r.apply.inc[k][f] = NoChange THEN int[k][f] ELSE r.apply.inc[k][f]
    BY <1>1, <1>3, AddAt DEF Applied
  <2>2. /\ ext1[k][f] = IF k \in m.send.exc \/ (m.send.inc[k][f] = NoChange /\ ext[k][f] = NoChange)
                        THEN NoChange
                        ELSE IF m.send.inc[k][f] = NoChange THEN ext[k][f] ELSE m.send.inc[k][f]
        /\ ext2[k][f] = IF k \in r.send.exc \/ (r.send.inc[k][f] = NoChange /\ ext[k][f] = NoChange)
                        THEN NoChange
                        ELSE IF r.send.inc[k][f] = NoChange THEN ext[k][f] ELSE r.send.inc[k][f]
    BY <1>1, <1>3, AddAt
  <2>3. N[k][f] = IF k \in m.apply.exc THEN NoChange
                  ELSE IF won[k][f] # NoChange THEN won[k][f] ELSE L[k][f]
    <3> HIDE DEF L, N, ext1, ext2
    <3> QED
      BY <1>3, <1>4, <2>1
  <2>4. ext2[k][f] = IF k \in m.send.exc THEN NoChange
                     ELSE IF kept[k][f] # NoChange THEN kept[k][f] ELSE ext1[k][f]
    <3> HIDE DEF L, N, ext1, ext2
    <3> QED
      BY <1>3, <1>4, <2>2
  <2> QED
    BY <2>3, <2>4
<1>7. /\ k \in m.apply.exc => L[k] = Blank
      /\ k \in m.send.exc => ext1[k] = Blank
  BY DEF Applied, RSAdd
<1>8. m.pending.inc[k] # Blank => ext1[k] # Blank
  BY DEF MergeGood
<1>9. FilterClear(m) /\ Proper(m.pending)
  BY DEF MergeGood
<1>10. /\ L[k] = Blank <=> \A f \in Field : L[k][f] = NoChange
       /\ N[k] = Blank <=> \A f \in Field : N[k][f] = NoChange
       /\ m.agreed[k] = Blank <=> \A f \in Field : m.agreed[k][f] = NoChange
       /\ r.agreed[k] = Blank <=> \A f \in Field : r.agreed[k][f] = NoChange
       /\ m.pending.inc[k] = Blank <=> \A f \in Field : m.pending.inc[k][f] = NoChange
       /\ r.pending.inc[k] = Blank <=> \A f \in Field : r.pending.inc[k][f] = NoChange
  BY <1>1, <1>3, <1>5, RecordAt
<1>11. ASSUME NEW f \in Unfiltered
       PROVE  /\ f \in Field
              /\ L[k] # Blank => L[k][f] # NoChange
              /\ m.pending.inc[k][f] # NoChange =>
                   /\ ext[k] # Blank /\ ext[k][f] # st.agreed[k][f]
                   /\ m.pending.inc[k][f] = ext[k][f]
                   /\ L[k][f] # m.pending.inc[k][f]
                   /\ L[k][f] = int[k][f]
                   /\ ext1[k][f] = ext[k][f]
              /\ ~Tells(m, int, k, f) => L[k][f] = m.agreed[k][f]
              /\ ext[k][f] # st.agreed[k][f] => ext1[k][f] = ext[k][f]
              /\ int[k][f] # st.agreed[k][f] => L[k][f] = int[k][f]
  BY DEF Honest, Cautious, Unfiltered
<1>12. m.pending.inc[k] # Blank => (int[k] = Blank <=> L[k] = Blank)
  BY DEF Cautious
<1>13. k \in m.pending.exc =>
         L[k] # Blank /\ m.agreed[k] # Blank /\ st.agreed[k] # Blank /\ ext[k] = Blank
  BY DEF Honest
<1>14. ASSUME NEW f \in Filtered
       PROVE  /\ f \in Field
              /\ m.pending.inc[k][f] = NoChange
              /\ L[k] # Blank => L[k][f] = int[k][f]
              /\ m.send.inc[k][f] = NoChange
  BY <1>9, StateMergeAssumption DEF Honest, FilterClear
<1> HIDE DEF L, N, ext1, ext2
<1>15. \A f \in Field : won[k][f] # NoChange \/ lost[k][f] # NoChange =>
         /\ m.pending.inc[k] # Blank /\ int[k] # Blank /\ L[k] # Blank
         /\ k \notin m.apply.exc /\ k \notin m.send.exc
  BY <1>4, <1>7, <1>8, <1>10, <1>12
<1>16. L[k] = Blank <=> N[k] = Blank
  <2>1. ASSUME NEW f \in Field, L[k][f] # NoChange PROVE N[k][f] # NoChange
    BY <1>6, <1>7, <1>10, <2>1
  <2>2. ASSUME NEW f \in Field, N[k][f] # NoChange PROVE L[k] # Blank
    BY <1>6, <1>10, <1>15, <2>2
  <2> QED
    BY <1>10, <2>1, <2>2
<1>17. \A f \in Field : m.agreed[k][f] # NoChange => r.agreed[k][f] # NoChange
  BY <1>4
<1>18. m.agreed[k] # Blank => r.agreed[k] # Blank
  BY <1>10, <1>17
<1>19. ASSUME NEW f \in Filtered
       PROVE  (N[k] # Blank => N[k][f] = int[k][f]) /\ r.send.inc[k][f] = NoChange
  BY <1>4, <1>6, <1>7, <1>14, <1>16
<1>20. ASSUME NEW f \in Unfiltered
       PROVE  /\ N[k] # Blank => N[k][f] # NoChange
              /\ r.pending.inc[k][f] # NoChange =>
                   /\ ext[k] # Blank /\ ext[k][f] # st.agreed[k][f]
                   /\ N[k][f] # r.pending.inc[k][f]
              /\ ~Tells(r, int, k, f) => N[k][f] = r.agreed[k][f]
  <2>1. f \in Field
    BY <1>11
  <2>2. N[k] # Blank => N[k][f] # NoChange
    BY <1>6, <1>7, <1>11, <1>16, <2>1
  <2>3. won[k][f] = NoChange => N[k][f] = L[k][f]
    BY <1>6, <1>7, <2>1 DEF Blank
  <2>4. ASSUME r.pending.inc[k][f] # NoChange
        PROVE  ext[k] # Blank /\ ext[k][f] # st.agreed[k][f] /\ N[k][f] # r.pending.inc[k][f]
    BY <1>4, <1>11, <2>1, <2>3, <2>4
  <2>5. ASSUME ~Tells(r, int, k, f) PROVE N[k][f] = r.agreed[k][f]
    <3>1. /\ k \notin m.pending.exc /\ r.pending.inc[k][f] = NoChange
          /\ N[k] = Blank => r.pending.inc[k] = Blank
      BY <1>3, <2>5 DEF Tells, N
    <3>2. CASE lost[k][f] # NoChange
      BY <1>4, <1>11, <2>1, <2>3, <3>2
    <3>3. CASE won[k][f] # NoChange
      BY <1>4, <1>6, <1>15, <2>1, <3>3
    <3>4. CASE lost[k][f] = NoChange /\ won[k][f] = NoChange
      <4>1. m.pending.inc[k][f] = NoChange
        BY <1>4, <2>1, <3>1, <3>4
      <4>2. L[k] = Blank => m.pending.inc[k] = Blank
        <5>1. ASSUME L[k] = Blank, NEW g \in Field PROVE m.pending.inc[k][g] = NoChange
          BY <1>4, <1>10, <1>15, <1>16, <3>1, <5>1
        <5> QED
          BY <1>10, <5>1
      <4>3. ~Tells(m, int, k, f)
        BY <3>1, <4>1, <4>2 DEF Tells, L
      <4> QED
        BY <1>4, <1>11, <2>1, <2>3, <3>4, <4>3
    <3> QED
      BY <3>2, <3>3, <3>4
  <2> QED
    BY <2>2, <2>4, <2>5
<1>21. ASSUME NEW f \in Unfiltered
       PROVE  /\ ext[k][f] # st.agreed[k][f] /\ ext2[k][f] # ext[k][f]
                   => Decided(f, int[k][f], ext[k][f])
              /\ int[k][f] # st.agreed[k][f] /\ N[k][f] # int[k][f]
                   => Decided(f, int[k][f], ext[k][f])
  <2>1. f \in Field
    BY <1>11
  <2>2. ASSUME ext[k][f] # st.agreed[k][f], ext2[k][f] # ext[k][f]
        PROVE  Decided(f, int[k][f], ext[k][f])
    <3>1. ext1[k][f] = ext[k][f]
      BY <1>11, <2>2
    <3>2. lost[k][f] # NoChange
      BY <1>4, <1>6, <1>7, <2>1, <2>2, <3>1 DEF Blank
    <3> QED
      BY <1>4, <1>11, <2>1, <3>2 DEF Decided
  <2>3. ASSUME int[k][f] # st.agreed[k][f], N[k][f] # int[k][f]
        PROVE  Decided(f, int[k][f], ext[k][f])
    <3>1. L[k][f] = int[k][f]
      BY <1>11, <2>3
    <3>2. won[k][f] # NoChange
      BY <1>6, <1>7, <2>1, <2>3, <3>1 DEF Blank
    <3> QED
      BY <1>4, <2>1, <3>2 DEF Decided
  <2> QED
    BY <2>2, <2>3
<1>22. Honest(r, st, int, ext, k)
  BY <1>3, <1>13, <1>16, <1>18, <1>19, <1>20 DEF Honest, N
<1>23. Yields(r, st, int, ext, k)
  BY <1>21 DEF Yields, N, ext2
<1> QED
  BY <1>22, <1>23

(* The conflicts that the dialog offers, and those verify() takes for      *)
(* settled, are parts of pending.                                          *)
PartOf(c, p) ==
  /\ c \in Diff
  /\ \A k \in Key, f \in Field : c.inc[k][f] \in {NoChange, p.inc[k][f]}
  /\ c.exc \subseteq p.exc

StateGood(st) ==
  /\ st.agreed \in RecordSet /\ st.pending \in Diff
  /\ Proper(st.pending)
  /\ FilterClear(st)

(* Discarding a part of pending moves it into agreed. *)
LEMMA DiscardAt ==
  ASSUME NEW st, StateGood(st), NEW c, PartOf(c, st.pending)
  PROVE  /\ Discard(st, c).agreed = RSAdd(st.agreed, c)
         /\ Discard(st, c).pending \in Diff
         /\ Discard(st, c).pending.exc = st.pending.exc \ c.exc
         /\ \A k \in Key, f \in Field :
              Discard(st, c).pending.inc[k][f] =
                IF c.inc[k][f] = NoChange THEN st.pending.inc[k][f] ELSE NoChange
<1>1. c \in Diff /\ st.pending \in Diff /\ c.inc \in RecordSet
  BY DEF PartOf, StateGood, Diff
<1>2. CanRemove(st.pending, c)
  <2>1. SUFFICES ASSUME NEW k \in Key, c.inc[k] # Blank PROVE st.pending.inc[k] # Blank
    BY DEF CanRemove, Keys
  <2>2. PICK f \in Field : c.inc[k][f] # NoChange
    BY <1>1, <2>1, RecordAt
  <2> QED
    BY <2>2 DEF PartOf, Blank
<1>3. /\ Discard(st, c).agreed = RSAdd(st.agreed, c)
      /\ Discard(st, c).pending = DiffRemove(st.pending, c)
  BY <1>2 DEF Discard
<1>4. DiffRemove(st.pending, c) \in Diff
  BY <1>1, RemoveType
<1> QED
  BY <1>3, <1>4 DEF DiffRemove, RecSub, PartOf

LEMMA DiscardKeepsKnown ==
  ASSUME NEW st, StateGood(st), NEW c, PartOf(c, st.pending)
  PROVE  StateGood(Discard(st, c)) /\ Known(Discard(st, c)) = Known(st)
<1> DEFINE D == Discard(st, c)
<1>1. /\ st.agreed \in RecordSet /\ st.pending \in Diff /\ c \in Diff
      /\ st.pending.inc \in RecordSet
  BY DEF StateGood, PartOf, Diff
<1>2. /\ D.agreed = RSAdd(st.agreed, c) /\ D.agreed \in RecordSet
      /\ D.pending \in Diff /\ D.pending.inc \in RecordSet
      /\ D.pending.exc = st.pending.exc \ c.exc
      /\ \A k \in Key, f \in Field :
           D.pending.inc[k][f] =
             IF c.inc[k][f] = NoChange THEN st.pending.inc[k][f] ELSE NoChange
  BY <1>1, DiscardAt, AddType DEF Diff
<1> HIDE DEF D
<1>3. \A k \in st.pending.exc, f \in Field :
        st.pending.inc[k][f] = NoChange /\ c.inc[k][f] = NoChange
  BY <1>1 DEF StateGood, Proper, PartOf, Blank, Diff
<1>4. Proper(D.pending)
  <2>1. SUFFICES ASSUME NEW k \in D.pending.exc PROVE D.pending.inc[k] = Blank
    BY DEF Proper
  <2>2. k \in Key /\ \A f \in Field : D.pending.inc[k][f] = NoChange
    BY <1>1, <1>2, <1>3 DEF Diff
  <2> QED
    BY <1>2, <2>2, RecordAt
<1>5. FilterClear(D)
  <2>1. \A f \in Filtered : f \in Field
    BY StateMergeAssumption
  <2>2. \A k \in Key, f \in Filtered :
          st.agreed[k][f] = NoChange /\ st.pending.inc[k][f] = NoChange /\ c.inc[k][f] = NoChange
    BY <2>1 DEF StateGood, FilterClear, PartOf
  <2>3. \A k \in Key, f \in Filtered : D.agreed[k][f] = NoChange
    BY <1>1, <1>2, <2>1, <2>2, AddAt
  <2> QED
    BY <1>2, <2>1, <2>2, <2>3 DEF FilterClear
<1>6. ASSUME NEW k \in Key, NEW f \in Field
      PROVE  Known(D)[k][f] = Known(st)[k][f]
  <2>1. /\ Known(D)[k][f] = IF k \in D.pending.exc THEN NoChange
                            ELSE IF D.pending.inc[k][f] # NoChange THEN D.pending.inc[k][f]
                            ELSE D.agreed[k][f]
        /\ Known(st)[k][f] = IF k \in st.pending.exc THEN NoChange
                            ELSE IF st.pending.inc[k][f] # NoChange THEN st.pending.inc[k][f]
                            ELSE st.agreed[k][f]
        /\ D.agreed[k][f] = IF k \in c.exc THEN NoChange
                            ELSE IF c.inc[k][f] # NoChange THEN c.inc[k][f]
                            ELSE st.agreed[k][f]
    BY <1>1, <1>2, AddAt DEF Known
  <2>2. /\ c.inc[k][f] \in {NoChange, st.pending.inc[k][f]}
        /\ c.exc \subseteq st.pending.exc
    BY DEF PartOf
  <2>3. CASE k \in st.pending.exc
    BY <1>2, <1>3, <2>1, <2>3
  <2>4. CASE k \notin st.pending.exc
    BY <1>2, <2>1, <2>2, <2>4
  <2> QED
    BY <2>3, <2>4
<1>7. Known(D) \in RecordSet /\ Known(st) \in RecordSet
  BY <1>1, <1>2, KnownType
<1>8. Known(D) = Known(st)
  BY <1>6, <1>7, RecordSetEquality
<1> QED
  BY <1>1, <1>2, <1>4, <1>5, <1>8 DEF StateGood, D

(* Applying a conflict adds it to agreed twice, which is adding it once. *)
LEMMA AcceptIsDiscard ==
  ASSUME NEW st \in State, NEW c \in Diff
  PROVE  Discard([st EXCEPT !.agreed = RSAdd(@, c)], c) = Discard(st, c)
<1> DEFINE st1 == [st EXCEPT !.agreed = RSAdd(@, c)]
<1>1. /\ st1.agreed = RSAdd(st.agreed, c) /\ st1.pending = st.pending
      /\ st.agreed \in RecordSet
  BY DEF State
<1>2. RSAdd(RSAdd(st.agreed, c), c) = RSAdd(st.agreed, c)
  <2>1. RSAdd(st.agreed, c) \in RecordSet
    BY <1>1, AddType
  <2>2. RSAdd(RSAdd(st.agreed, c), c) \in RecordSet
    BY <2>1, AddType
  <2>3. \A k \in Key, f \in Field :
          RSAdd(RSAdd(st.agreed, c), c)[k][f] = RSAdd(st.agreed, c)[k][f]
    BY <1>1, <2>1, AddAt
  <2> QED
    BY <2>1, <2>2, <2>3, RecordSetEquality
<1> QED
  BY <1>1, <1>2 DEF Discard

LEMMA SettledIsPart ==
  ASSUME NEW p \in Diff, NEW int
  PROVE  PartOf(Settled(p, int), p)
<1>1. \A k \in Key, f \in Field : p.inc[k][f] \in Value \cup {NoChange}
  BY DEF Diff, RecordSet, Record
<1>2. \A k \in Key, f \in Field :
        Settled(p, int).inc[k][f] \in {NoChange, p.inc[k][f]}
  BY DEF Settled
<1>3. Settled(p, int).exc \subseteq p.exc
  BY DEF Settled
<1>4. Settled(p, int) \in Diff
  BY <1>1 DEF Settled, Diff, RecordSet, Record
<1> QED
  BY <1>2, <1>3, <1>4 DEF PartOf

(* The one-field diff that stands for a conflict in field f of k. *)
LEMMA FieldChangeAt ==
  ASSUME NEW p \in Diff, NEW k \in Key, NEW f \in Field
  PROVE  /\ FieldChange(p, k, f) \in Diff
         /\ FieldChange(p, k, f).exc = {}
         /\ \A x \in Key, y \in Field :
              FieldChange(p, k, f).inc[x][y] = IF x = k /\ y = f THEN p.inc[k][f] ELSE NoChange
<1> DEFINE rs == [NoRecords EXCEPT ![k][f] = p.inc[k][f]]
<1>1. p.inc[k][f] \in Value \cup {NoChange}
  BY DEF Diff, RecordSet, Record
<1>2. rs \in RecordSet
  BY <1>1 DEF NoRecords, Blank, RecordSet, Record
<1>3. \A x \in Key, y \in Field : rs[x][y] = IF x = k /\ y = f THEN p.inc[k][f] ELSE NoChange
  BY DEF NoRecords, Blank
<1> QED
  BY <1>2, <1>3, ConstantTypes DEF FieldChange, AsDiff

LEMMA ChangesAre ==
  ASSUME NEW p \in Diff, NEW c
  PROVE  c \in Changes(p) <=>
           \/ \E k \in Key, f \in Field : p.inc[k][f] # NoChange /\ c = FieldChange(p, k, f)
           \/ \E k \in p.exc : c = [inc |-> NoRecords, exc |-> {k}]
<1> DEFINE S == {kf \in Key \X Field : p.inc[kf[1]][kf[2]] # NoChange}
           E == {[inc |-> NoRecords, exc |-> {k}] : k \in p.exc}
<1>1. c \in Changes(p) <=> c \in {FieldChange(p, kf[1], kf[2]) : kf \in S} \/ c \in E
  BY DEF Changes
<1>2. c \in {FieldChange(p, kf[1], kf[2]) : kf \in S}
        <=> \E k \in Key, f \in Field : p.inc[k][f] # NoChange /\ c = FieldChange(p, k, f)
  <2>1. ASSUME NEW kf \in S, c = FieldChange(p, kf[1], kf[2])
        PROVE  \E k \in Key, f \in Field : p.inc[k][f] # NoChange /\ c = FieldChange(p, k, f)
    BY <2>1
  <2>2. ASSUME NEW k \in Key, NEW f \in Field, p.inc[k][f] # NoChange, c = FieldChange(p, k, f)
        PROVE  c \in {FieldChange(p, kf[1], kf[2]) : kf \in S}
    <3>1. <<k, f>> \in S
      BY <2>2
    <3> QED
      BY <2>2, <3>1
  <2> QED
    BY <2>1, <2>2
<1>3. c \in E <=> \E k \in p.exc : c = [inc |-> NoRecords, exc |-> {k}]
  OBVIOUS
<1> QED
  BY <1>1, <1>2, <1>3

LEMMA ChangesArePart ==
  ASSUME NEW p \in Diff, NEW c \in Changes(p)
  PROVE  PartOf(c, p)
<1>1. CASE \E k \in Key, f \in Field : p.inc[k][f] # NoChange /\ c = FieldChange(p, k, f)
  BY <1>1, FieldChangeAt DEF PartOf
<1>2. CASE \E k \in p.exc : c = [inc |-> NoRecords, exc |-> {k}]
  BY <1>2, ConstantTypes DEF PartOf, Diff, NoRecords, Blank
<1> QED
  BY <1>1, <1>2, ChangesAre

(* Settling one conflict leaves the others pending as they were. *)
LEMMA OthersStay ==
  ASSUME NEW st, StateGood(st), NEW c \in Changes(st.pending),
         NEW d \in Changes(st.pending), d # c
  PROVE  d \in Changes(Discard(st, c).pending)
<1> DEFINE p == st.pending
           q == Discard(st, c).pending
<1>1. p \in Diff /\ PartOf(c, p)
  BY ChangesArePart DEF StateGood
<1>2. /\ q \in Diff /\ q.exc = p.exc \ c.exc
      /\ \A k \in Key, f \in Field :
           q.inc[k][f] = IF c.inc[k][f] = NoChange THEN p.inc[k][f] ELSE NoChange
  BY <1>1, DiscardAt
<1> HIDE DEF p, q
<1>3. c \in Changes(p) /\ d \in Changes(p)
  BY DEF p
<1>4. ASSUME \E k \in Key, f \in Field : p.inc[k][f] # NoChange /\ d = FieldChange(p, k, f)
      PROVE  d \in Changes(q)
  <2>1. PICK k \in Key, f \in Field : p.inc[k][f] # NoChange /\ d = FieldChange(p, k, f)
    BY <1>4
  <2>2. c.inc[k][f] = NoChange
    <3>1. CASE \E x \in Key, y \in Field : p.inc[x][y] # NoChange /\ c = FieldChange(p, x, y)
      BY <1>1, <2>1, <3>1, FieldChangeAt
    <3>2. CASE \E x \in p.exc : c = [inc |-> NoRecords, exc |-> {x}]
      BY <3>2 DEF NoRecords, Blank
    <3> QED
      BY <1>1, <1>3, <3>1, <3>2, ChangesAre
  <2>3. q.inc[k][f] = p.inc[k][f]
    BY <1>2, <2>2
  <2>4. d = FieldChange(q, k, f)
    BY <2>1, <2>3 DEF FieldChange
  <2> QED
    BY <1>2, <2>1, <2>3, <2>4, ChangesAre
<1>5. ASSUME \E k \in p.exc : d = [inc |-> NoRecords, exc |-> {k}]
      PROVE  d \in Changes(q)
  <2>1. PICK k \in p.exc : d = [inc |-> NoRecords, exc |-> {k}]
    BY <1>5
  <2>2. k \notin c.exc
    <3>1. CASE \E x \in Key, y \in Field : p.inc[x][y] # NoChange /\ c = FieldChange(p, x, y)
      BY <1>1, <3>1, FieldChangeAt
    <3>2. CASE \E x \in p.exc : c = [inc |-> NoRecords, exc |-> {x}]
      BY <2>1, <3>2
    <3> QED
      BY <1>1, <1>3, <3>1, <3>2, ChangesAre
  <2> QED
    BY <1>2, <2>1, <2>2, ChangesAre
<1> QED
  BY <1>1, <1>3, <1>4, <1>5, ChangesAre DEF q

(* What a part of pending does to a good state, dialog included. *)
LEMMA DecideOne ==
  ASSUME NEW st, StateGood(st), NEW D \in SUBSET Changes(st.pending), NEW c \in D
  PROVE  /\ StateGood(Discard(st, c)) /\ Known(Discard(st, c)) = Known(st)
         /\ D \ {c} \subseteq Changes(Discard(st, c).pending)
<1>1. PartOf(c, st.pending)
  BY ChangesArePart DEF StateGood
<1>2. ASSUME NEW d \in D \ {c} PROVE d \in Changes(Discard(st, c).pending)
  BY OthersStay
<1> QED
  BY <1>1, <1>2, DiscardKeepsKnown

LEMMA ImportType ==
  ASSUME NEW rs \in FullRecordSet, NEW d \in Diff
  PROVE  Import(rs, d) \in FullRecordSet
<1>1. rs \in RecordSet /\ None \in Value
  BY StateMergeAssumption DEF FullRecordSet
<1>2. RSAdd(rs, d) \in RecordSet
  BY <1>1, AddType
<1>3. \A k \in Key, f \in Field : RSAdd(rs, d)[k][f] \in Value \cup {NoChange}
  BY <1>2 DEF RecordSet, Record
<1>4. Import(rs, d) \in RecordSet
  BY <1>1, <1>3 DEF Import, RecordSet, Record, Blank
<1>5. \A k \in Key, f \in Field : Import(rs, d)[k] = Blank \/ Import(rs, d)[k][f] # NoChange
  BY <1>1, NoChangeAssumption DEF Import
<1> QED
  BY <1>4, <1>5 DEF FullRecordSet, Keys

(* What importRecords leaves: a new record's open fields get the default.  *)
LEMMA ImportAt ==
  ASSUME NEW rs \in RecordSet, NEW d \in Diff, NEW k \in Key
  PROVE  /\ Import(rs, d)[k] = Blank <=> RSAdd(rs, d)[k] = Blank
         /\ \A f \in Field :
              Import(rs, d)[k][f] = IF RSAdd(rs, d)[k] # Blank /\ RSAdd(rs, d)[k][f] = NoChange
                                    THEN None ELSE RSAdd(rs, d)[k][f]
<1> DEFINE new == RSAdd(rs, d)
<1>1. new \in RecordSet /\ None # NoChange
  BY AddType, StateMergeAssumption, NoChangeAssumption
<1>2. Import(rs, d)[k] = IF new[k] = Blank THEN Blank
                         ELSE [f \in Field |-> IF new[k][f] = NoChange THEN None ELSE new[k][f]]
  BY DEF Import
<1> HIDE DEF new
<1>3. \A f \in Field : Import(rs, d)[k][f] = IF new[k] # Blank /\ new[k][f] = NoChange
                                             THEN None ELSE new[k][f]
  BY <1>2
<1>4. new[k] # Blank => Import(rs, d)[k] # Blank
  <2>1. ASSUME new[k] # Blank PROVE Import(rs, d)[k] # Blank
    <3>1. PICK f \in Field : new[k][f] # NoChange
      BY <1>1, <2>1, RecordAt
    <3> QED
      BY <1>3, <3>1 DEF Blank
  <2> QED
    BY <2>1
<1> QED
  BY <1>2, <1>3, <1>4 DEF new

-----------------------------------------------------------------------------
(* The next facts assume nothing of the peer's records, which may lack      *)
(* fields: a put that was lost may leave a server with part of a record.    *)

LEMMA NcdType ==
  ASSUME NEW st, st.agreed \in RecordSet, NEW int \in RecordSet, NEW ext \in RecordSet
  PROVE  NonConflicting(st, int, ext) \in Diff
<1>1. /\ RSSub(int, st.agreed) \in Diff /\ Proper(RSSub(int, st.agreed))
      /\ RSSub(ext, st.agreed) \in Diff /\ Proper(RSSub(ext, st.agreed))
  BY SubType, SubProper
<1>2. Flt(RSSub(int, st.agreed)) \in Diff /\ Flt(RSSub(ext, st.agreed)) \in Diff
  BY <1>1, FilterProper DEF Flt
<1> QED
  BY <1>2, OrType DEF NonConflicting

(* What of the two sides' changes does not conflict, at one key: a record   *)
(* that one side deletes and neither changes; nothing, if one side deletes  *)
(* and the other changes; otherwise, field by field, what one has changed.  *)
LEMMA NcdAt ==
  ASSUME NEW st, st.agreed \in RecordSet, NEW int \in RecordSet, NEW ext \in RecordSet,
         NEW ncd, ncd = NonConflicting(st, int, ext), NEW k \in Key
  PROVE  /\ \A f \in Filtered : ncd.inc[k][f] = NoChange
         /\ k \in ncd.exc => \A f \in Field : ncd.inc[k][f] = NoChange
         /\ k \in ncd.exc => st.agreed[k] # Blank
         /\ IF st.agreed[k] # Blank /\ (int[k] = Blank \/ ext[k] = Blank)
            THEN /\ \A f \in Field : ncd.inc[k][f] = NoChange
                 /\ k \notin ncd.exc =>
                      \E f \in Unfiltered : \/ int[k][f] \notin {st.agreed[k][f], NoChange}
                                            \/ ext[k][f] \notin {st.agreed[k][f], NoChange}
            ELSE /\ k \notin ncd.exc
                 /\ \A f \in Unfiltered : ncd.inc[k][f] =
                      IF ext[k][f] \in {st.agreed[k][f], NoChange}
                      THEN IF int[k][f] = st.agreed[k][f] THEN NoChange ELSE int[k][f]
                      ELSE IF int[k][f] \in {NoChange, st.agreed[k][f], ext[k][f]}
                      THEN ext[k][f] ELSE NoChange
<1> DEFINE I == RSSub(int, st.agreed)
           X == RSSub(ext, st.agreed)
           FI == Flt(I)
           FX == Flt(X)
<1>1. /\ I \in Diff /\ Proper(I)
      /\ X \in Diff /\ Proper(X)
  BY SubType, SubProper
<1>2. /\ FI \in Diff /\ FI.exc = I.exc /\ FX \in Diff /\ FX.exc = X.exc
      /\ \A f \in Field :
           /\ FI.inc[k][f] = IF f \in Filtered THEN NoChange ELSE I.inc[k][f]
           /\ FX.inc[k][f] = IF f \in Filtered THEN NoChange ELSE X.inc[k][f]
  BY <1>1, FilterProper DEF Flt
<1>3. ncd = DiffOr(FI, FX)
  BY DEF NonConflicting
<1>4. /\ k \in I.exc <=> st.agreed[k] # Blank /\ int[k] = Blank
      /\ k \in X.exc <=> st.agreed[k] # Blank /\ ext[k] = Blank
      /\ \A f \in Field :
           /\ I.inc[k][f] = IF int[k][f] = st.agreed[k][f] THEN NoChange ELSE int[k][f]
           /\ X.inc[k][f] = IF ext[k][f] = st.agreed[k][f] THEN NoChange ELSE ext[k][f]
  BY SubAt, SubExcluded
<1> HIDE DEF I, X
<1>5. /\ k \in ncd.exc <=> /\ k \in FI.exc \cup FX.exc
                           /\ k \notin Keys(FI.inc) \cup Keys(FX.inc)
      /\ k \in FI.exc \cup FX.exc => ncd.inc[k] = Blank
      /\ k \notin FI.exc \cup FX.exc => ncd.inc[k] = RecOr(FI.inc[k], FX.inc[k])
  BY <1>3 DEF DiffOr
<1>6. \A f \in Field : RecOr(FI.inc[k], FX.inc[k])[f] =
             IF FX.inc[k][f] = NoChange THEN FI.inc[k][f]
             ELSE IF FI.inc[k][f] \in {NoChange, FX.inc[k][f]} THEN FX.inc[k][f] ELSE NoChange
  BY DEF RecOr
<1> HIDE DEF FI, FX
<1>8. Filtered \subseteq Field /\ \A f \in Unfiltered : f \in Field /\ f \notin Filtered
  BY StateMergeAssumption DEF Unfiltered
<1>9. /\ FI.inc[k] = Blank <=> \A f \in Unfiltered : I.inc[k][f] = NoChange
      /\ FX.inc[k] = Blank <=> \A f \in Unfiltered : X.inc[k][f] = NoChange
  <2>1. FI.inc \in RecordSet /\ FX.inc \in RecordSet
    BY <1>2 DEF Diff
  <2> QED
    BY <1>2, <2>1, RecordAt DEF Unfiltered
<1> DEFINE deleted == st.agreed[k] # Blank /\ (int[k] = Blank \/ ext[k] = Blank)
<1>10. deleted <=> k \in FI.exc \cup FX.exc
  BY <1>2, <1>4
<1>11. deleted => \A f \in Field : ncd.inc[k][f] = NoChange
  BY <1>5, <1>10 DEF Blank
<1>12. \A f \in Filtered : ncd.inc[k][f] = NoChange
  BY <1>2, <1>5, <1>6, <1>8 DEF Blank
<1>13. k \in ncd.exc => deleted
  BY <1>5, <1>10
<1>14. ASSUME deleted, k \notin ncd.exc
       PROVE  \E f \in Unfiltered : \/ int[k][f] \notin {st.agreed[k][f], NoChange}
                                    \/ ext[k][f] \notin {st.agreed[k][f], NoChange}
  <2>1. FI.inc[k] # Blank \/ FX.inc[k] # Blank
    BY <1>5, <1>10, <1>14 DEF Keys
  <2>2. PICK f \in Unfiltered : I.inc[k][f] # NoChange \/ X.inc[k][f] # NoChange
    BY <1>9, <2>1
  <2> QED
    BY <1>4, <1>8, <2>2
<1>15. ASSUME ~deleted, NEW f \in Unfiltered
       PROVE  ncd.inc[k][f] =
                IF ext[k][f] \in {st.agreed[k][f], NoChange}
                THEN IF int[k][f] = st.agreed[k][f] THEN NoChange ELSE int[k][f]
                ELSE IF int[k][f] \in {NoChange, st.agreed[k][f], ext[k][f]}
                THEN ext[k][f] ELSE NoChange
  BY <1>2, <1>4, <1>5, <1>6, <1>8, <1>10, <1>15
<1> QED
  BY <1>11, <1>12, <1>13, <1>14, <1>15

LEMMA MergeAt ==
  ASSUME NEW st, st.agreed \in RecordSet, NEW int \in RecordSet, NEW ext \in RecordSet,
         NEW m, m = MergeReadWrite(st, int, ext),
         NEW ncd, ncd = NonConflicting(st, int, ext)
  PROVE  /\ m.agreed = RSAdd(st.agreed, ncd) /\ m.agreed \in RecordSet
         /\ m.send \in Diff /\ RSAdd(ext, m.send) = RSAdd(ext, ncd)
         /\ m.apply \in Diff /\ RSAdd(int, m.apply) = RSAdd(int, ncd)
         /\ m.pending \in Diff
         /\ \A k \in Key :
              /\ k \in m.pending.exc <=> m.agreed[k] # Blank /\ RSAdd(ext, ncd)[k] = Blank
              /\ \A f \in Field : m.pending.inc[k][f] =
                   IF f \in Filtered \/ RSAdd(ext, ncd)[k][f] = m.agreed[k][f] THEN NoChange
                   ELSE RSAdd(ext, ncd)[k][f]
<1>1. ncd \in Diff
  BY NcdType
<1>2. /\ m.agreed = RSAdd(st.agreed, ncd)
      /\ m.send = RSSub(RSAdd(ext, ncd), ext)
      /\ m.apply = RSSub(RSAdd(int, ncd), int)
      /\ m.pending = Flt(RSSub(RSAdd(ext, m.send), m.agreed))
  BY DEF MergeReadWrite, CleanDiff
<1>3. RSAdd(ext, m.send) = RSAdd(ext, ncd) /\ RSAdd(int, m.apply) = RSAdd(int, ncd)
  BY <1>1, <1>2, CleanAdd
<1> DEFINE ext1 == RSAdd(ext, ncd)
           P == RSSub(ext1, m.agreed)
<1>4. m.agreed \in RecordSet /\ ext1 \in RecordSet /\ m.send \in Diff /\ m.apply \in Diff
  <2>1. RSAdd(st.agreed, ncd) \in RecordSet /\ ext1 \in RecordSet /\ RSAdd(int, ncd) \in RecordSet
    BY <1>1, AddType
  <2> HIDE DEF ext1
  <2>2. RSSub(ext1, ext) \in Diff /\ RSSub(RSAdd(int, ncd), int) \in Diff
    BY <2>1, SubType
  <2> QED
    BY <1>2, <2>1, <2>2 DEF ext1
<1>5. m.pending = Flt(P)
  BY <1>2, <1>3
<1> HIDE DEF ext1
<1>6. P \in Diff /\ Proper(P)
  BY <1>4, SubType, SubProper
<1>7. m.pending \in Diff /\ m.pending.exc = P.exc
      /\ \A k \in Key, f \in Field :
           m.pending.inc[k][f] = IF f \in Filtered THEN NoChange ELSE P.inc[k][f]
  BY <1>5, <1>6, FilterProper DEF Flt
<1>8. \A k \in Key :
        /\ k \in P.exc <=> m.agreed[k] # Blank /\ ext1[k] = Blank
        /\ \A f \in Field : P.inc[k][f] = IF ext1[k][f] = m.agreed[k][f] THEN NoChange ELSE ext1[k][f]
  BY <1>4, SubAt, SubExcluded
<1> HIDE DEF P
<1> QED
  BY <1>2, <1>3, <1>4, <1>7, <1>8 DEF ext1

(* Where nothing is applied and no conflict told, the local record is as    *)
(* agreed.                                                                 *)
LEMMA SettledAt ==
  ASSUME NEW st, st.agreed \in RecordSet, NEW int \in FullRecordSet, NEW ext \in RecordSet,
         NEW m, m = MergeReadWrite(st, int, ext), RSAdd(int, m.apply) = int,
         NEW k \in Key, k \notin m.pending.exc,
         int[k] = Blank => \A g \in Field : m.pending.inc[k][g] = NoChange,
         NEW f \in Unfiltered, m.pending.inc[k][f] = NoChange
  PROVE  int[k][f] = m.agreed[k][f]
<1> DEFINE ncd == NonConflicting(st, int, ext)
           a == st.agreed
           ext1 == RSAdd(ext, ncd)
           deleted == a[k] # Blank /\ (int[k] = Blank \/ ext[k] = Blank)
<1>1. int \in RecordSet /\ (int[k] # Blank => \A g \in Field : int[k][g] # NoChange)
  BY DEF FullRecordSet, Keys
<1>2. ncd \in Diff
  BY <1>1, NcdType
<1>3. /\ k \in ncd.exc => a[k] # Blank
      /\ deleted =>
           /\ \A g \in Field : ncd.inc[k][g] = NoChange
           /\ k \notin ncd.exc =>
                \E g \in Unfiltered : \/ int[k][g] \notin {a[k][g], NoChange}
                                      \/ ext[k][g] \notin {a[k][g], NoChange}
      /\ ~deleted =>
           /\ k \notin ncd.exc
           /\ \A g \in Unfiltered : ncd.inc[k][g] =
                IF ext[k][g] \in {a[k][g], NoChange}
                THEN IF int[k][g] = a[k][g] THEN NoChange ELSE int[k][g]
                ELSE IF int[k][g] \in {NoChange, a[k][g], ext[k][g]}
                THEN ext[k][g] ELSE NoChange
  BY <1>1, NcdAt
<1>4. /\ m.agreed = RSAdd(a, ncd) /\ RSAdd(int, ncd) = int
      /\ k \in m.pending.exc <=> m.agreed[k] # Blank /\ ext1[k] = Blank
      /\ \A g \in Field : m.pending.inc[k][g] =
           IF g \in Filtered \/ ext1[k][g] = m.agreed[k][g] THEN NoChange ELSE ext1[k][g]
  BY <1>1, MergeAt
<1> HIDE DEF ncd
<1>5. \A g \in Field : k \notin ncd.exc =>
        /\ int[k][g] = IF ncd.inc[k][g] = NoChange THEN int[k][g] ELSE ncd.inc[k][g]
        /\ ext1[k][g] = IF ncd.inc[k][g] = NoChange THEN ext[k][g] ELSE ncd.inc[k][g]
        /\ m.agreed[k][g] = IF ncd.inc[k][g] = NoChange THEN a[k][g] ELSE ncd.inc[k][g]
  <2> SUFFICES ASSUME NEW g \in Field, k \notin ncd.exc
               PROVE  /\ int[k][g] = IF ncd.inc[k][g] = NoChange THEN int[k][g] ELSE ncd.inc[k][g]
                      /\ ext1[k][g] = IF ncd.inc[k][g] = NoChange THEN ext[k][g] ELSE ncd.inc[k][g]
                      /\ m.agreed[k][g] = IF ncd.inc[k][g] = NoChange THEN a[k][g] ELSE ncd.inc[k][g]
    OBVIOUS
  <2>1. RSAdd(int, ncd)[k][g] = IF ncd.inc[k][g] = NoChange THEN int[k][g] ELSE ncd.inc[k][g]
    BY <1>1, <1>2, AddAt
  <2> QED
    BY <1>2, <1>4, <2>1, AddAt
<1>6. \A g \in Unfiltered : g \in Field /\ g \notin Filtered
  BY DEF Unfiltered
<1>7. k \in ncd.exc => int[k] = Blank /\ m.agreed[k] = Blank
  <2>1. k \in ncd.exc => RSAdd(int, ncd)[k] = Blank /\ RSAdd(a, ncd)[k] = Blank
    BY DEF RSAdd
  <2> QED
    BY <1>4, <2>1
<1>8. CASE k \in ncd.exc
  BY <1>7, <1>8
<1>9. CASE deleted /\ k \notin ncd.exc
  <2>1. \A g \in Field : ext1[k][g] = ext[k][g] /\ m.agreed[k][g] = a[k][g]
    BY <1>3, <1>5, <1>9
  <2>2. ext1 \in RecordSet /\ m.agreed \in RecordSet
    BY <1>2, <1>4, AddType
  <2>3. ext1[k] = ext[k] /\ m.agreed[k] = a[k]
    BY <2>1, <2>2 DEF RecordSet, Record
  <2>4. int[k] = Blank
    BY <1>4, <1>9, <2>3
  <2>5. \A g \in Unfiltered : ext[k][g] = a[k][g] \/ ext[k][g] = NoChange
    <3> HIDE DEF ext1, a
    <3> QED
      BY <1>4, <1>6, <2>1, <2>4
  <2>6. \A g \in Field : int[k][g] = NoChange
    BY <2>4 DEF Blank
  <2> QED
    BY <1>3, <1>6, <1>9, <2>5, <2>6
<1>10. CASE ~deleted
  <2>1. a[k] = Blank => a[k][f] = NoChange
    BY <1>6 DEF Blank
  <2>2. int[k] = Blank => int[k][f] = NoChange
    BY <1>6 DEF Blank
  <2>3. f \in Field /\ f \notin Filtered /\ k \notin ncd.exc
    BY <1>3, <1>6, <1>10
  <2> HIDE DEF ext1, a
  <2>4. int[k][f] = NoChange => a[k][f] = NoChange
    BY <1>1, <1>10, <2>1, <2>3
  <2> QED
    BY <1>3, <1>4, <1>5, <1>10, <2>3, <2>4
<1> QED
  BY <1>8, <1>9, <1>10

(* A merge that leaves no conflict and has nothing to apply finds the local *)
(* records as agreed.                                                      *)
LEMMA MergeSettles ==
  ASSUME NEW st, st.agreed \in RecordSet, NEW int \in FullRecordSet, NEW ext \in RecordSet,
         NEW m, m = MergeReadWrite(st, int, ext), NEW r \in {m, AutoResolve(m, int)},
         r.pending = EmptyDiff, r.apply = EmptyDiff
  PROVE  Agree(int, r.agreed)
<1>1. int \in RecordSet /\ EmptyDiff.exc = {}
  BY DEF FullRecordSet, EmptyDiff
<1>2. \A k \in Key, f \in Field : EmptyDiff.inc[k][f] = NoChange
  BY DEF EmptyDiff, NoRecords, Blank
<1>3. m.agreed \in RecordSet /\ m.pending \in Diff /\ m.send \in Diff /\ m.apply \in Diff
  BY <1>1, MergeAt
<1>4. RSAdd(int, EmptyDiff) = int
  <2>1. \A k \in Key, f \in Field : RSAdd(int, EmptyDiff)[k][f] = int[k][f]
    BY <1>1, <1>2, AddAt, ConstantTypes
  <2>2. RSAdd(int, EmptyDiff) \in RecordSet
    BY <1>1, AddType, ConstantTypes
  <2> QED
    BY <1>1, <2>1, <2>2, RecordSetEquality
<1>5. CASE r = m
  <2>1. ASSUME NEW k \in Key, NEW f \in Unfiltered PROVE int[k][f] = m.agreed[k][f]
    <3>1. m.pending.inc[k][f] = NoChange /\ \A g \in Field : m.pending.inc[k][g] = NoChange
      BY <1>2, <1>5 DEF Unfiltered
    <3> QED
      BY <1>1, <1>4, <1>5, <3>1, SettledAt
  <2> QED
    BY <1>5, <2>1 DEF Agree
<1>6. CASE r = AutoResolve(m, int)
  <2>1. PICK lost \in RecordSet, won \in RecordSet, kept \in RecordSet :
          Resolution(m, int, r, lost, won, kept)
    BY <1>3, <1>6, ResolveAt
  <2>2. \A k \in Key, f \in Field :
          /\ r.pending.inc[k][f] = NoChange /\ r.apply.inc[k][f] = NoChange
          /\ won[k][f] = NoChange /\ m.apply.inc[k][f] = NoChange
          /\ lost[k][f] # NoChange \/ m.pending.inc[k][f] = NoChange
    BY <1>2, <2>1 DEF Resolution
  <2>3. m.pending.exc = {} /\ m.apply.exc = {}
    BY <1>1, <2>1 DEF Resolution
  <2>4. RSAdd(int, m.apply) = int
    <3>1. \A k \in Key, f \in Field : RSAdd(int, m.apply)[k][f] = int[k][f]
      BY <1>1, <1>3, <2>2, <2>3, AddAt
    <3>2. RSAdd(int, m.apply) \in RecordSet
      BY <1>1, <1>3, AddType
    <3> QED
      BY <1>1, <3>1, <3>2, RecordSetEquality
  <2>5. ASSUME NEW k \in Key, NEW f \in Unfiltered PROVE int[k][f] = r.agreed[k][f]
    <3>1. f \in Field
      BY DEF Unfiltered
    <3>2. CASE lost[k][f] # NoChange
      BY <2>1, <2>2, <3>1, <3>2 DEF Resolution
    <3>3. CASE lost[k][f] = NoChange
      <4>1. r.agreed[k][f] = m.agreed[k][f] /\ m.pending.inc[k][f] = NoChange
        BY <2>1, <2>2, <3>1, <3>3 DEF Resolution
      <4>2. int[k] = Blank => \A g \in Field : m.pending.inc[k][g] = NoChange
        BY <2>1, <2>2 DEF Resolution
      <4> QED
        BY <2>3, <2>4, <4>1, <4>2, SettledAt
    <3> QED
      BY <3>2, <3>3
  <2> QED
    BY <2>5 DEF Agree
<1> QED
  BY <1>5, <1>6

(* A merge over a peer that holds what was agreed has something to send if  *)
(* the local records are not as agreed.                                    *)
LEMMA NothingToSend ==
  ASSUME NEW st, st.agreed \in RecordSet, NEW int \in FullRecordSet,
         NEW m, m = MergeReadWrite(st, int, st.agreed), NEW r \in {m, AutoResolve(m, int)},
         r.send = EmptyDiff
  PROVE  Agree(int, st.agreed)
<1> DEFINE ncd == NonConflicting(st, int, st.agreed)
           a == st.agreed
<1>1. int \in RecordSet /\ EmptyDiff.exc = {}
  BY DEF FullRecordSet, EmptyDiff
<1>2. \A k \in Key, f \in Field : EmptyDiff.inc[k][f] = NoChange
  BY DEF EmptyDiff, NoRecords, Blank
<1>3. /\ m.agreed \in RecordSet /\ m.pending \in Diff /\ m.send \in Diff /\ m.apply \in Diff
      /\ RSAdd(a, m.send) = RSAdd(a, ncd) /\ ncd \in Diff
  BY <1>1, MergeAt, NcdType
<1>4. m.send.exc = {} /\ \A k \in Key, f \in Field : m.send.inc[k][f] = NoChange
  <2>1. CASE r = m
    BY <1>1, <1>2, <2>1
  <2>2. CASE r = AutoResolve(m, int)
    <3>1. PICK lost \in RecordSet, won \in RecordSet, kept \in RecordSet :
            Resolution(m, int, r, lost, won, kept)
      BY <1>3, <2>2, ResolveAt
    <3>2. m.send.exc = {}
      BY <1>1, <3>1 DEF Resolution
    <3>3. \A k \in Key, f \in Field : r.send.inc[k][f] = NoChange
      BY <1>2
    <3>4. \A k \in Key, f \in Field : m.send.inc[k][f] = NoChange
      BY <3>1, <3>3 DEF Resolution
    <3> QED
      BY <3>2, <3>4
  <2> QED
    BY <2>1, <2>2
<1>5. \A k \in Key, f \in Field : RSAdd(a, ncd)[k][f] = a[k][f]
  <2>1. \A k \in Key, f \in Field : RSAdd(a, m.send)[k][f] = a[k][f]
    BY <1>3, <1>4, AddAt
  <2> QED
    BY <1>3, <2>1
<1> HIDE DEF ncd
<1>6. ASSUME NEW k \in Key, NEW f \in Unfiltered PROVE int[k][f] = a[k][f]
  <2>1. f \in Field /\ f \notin Filtered /\ \A g \in Unfiltered : g \in Field
    BY DEF Unfiltered
  <2>2. /\ int[k] # Blank => int[k][f] # NoChange
        /\ \A g \in Field : /\ int[k] = Blank => int[k][g] = NoChange
                            /\ a[k] = Blank => a[k][g] = NoChange
    BY <2>1 DEF FullRecordSet, Keys, Blank
  <2> DEFINE deleted == a[k] # Blank /\ (int[k] = Blank \/ a[k] = Blank)
  <2>3. /\ k \in ncd.exc => a[k] # Blank
        /\ deleted /\ k \notin ncd.exc =>
              \E g \in Unfiltered : \/ int[k][g] \notin {a[k][g], NoChange}
                                    \/ a[k][g] \notin {a[k][g], NoChange}
        /\ ~deleted =>
             /\ k \notin ncd.exc
             /\ ncd.inc[k][f] =
                  IF a[k][f] \in {a[k][f], NoChange}
                  THEN IF int[k][f] = a[k][f] THEN NoChange ELSE int[k][f]
                  ELSE IF int[k][f] \in {NoChange, a[k][f], a[k][f]}
                  THEN a[k][f] ELSE NoChange
    BY <1>1, NcdAt DEF ncd
  <2>4. k \notin ncd.exc
    <3> SUFFICES ASSUME k \in ncd.exc PROVE FALSE
      OBVIOUS
    <3>1. \A g \in Field : RSAdd(a, ncd)[k][g] = NoChange
      BY <1>3, AddAt
    <3>2. \A g \in Field : a[k][g] = NoChange
      BY <1>5, <3>1
    <3> QED
      BY <2>3, <3>2, RecordAt
  <2>5. ~deleted
    BY <2>1, <2>2, <2>3, <2>4
  <2>6. a[k][f] = IF ncd.inc[k][f] = NoChange THEN a[k][f] ELSE ncd.inc[k][f]
    BY <1>3, <1>5, <2>1, <2>4, AddAt
  <2> QED
    BY <2>2, <2>3, <2>5, <2>6
<1> QED
  BY <1>6 DEF Agree

(* Filtered fields do not get into a State. *)
LEMMA MergeClear ==
  ASSUME NEW st, st.agreed \in RecordSet,
         \A k \in Key, f \in Filtered : st.agreed[k][f] = NoChange,
         NEW int \in FullRecordSet, NEW ext \in RecordSet,
         NEW m, m = MergeReadWrite(st, int, ext), NEW r \in {m, AutoResolve(m, int)}
  PROVE  FilterClear(r)
<1> DEFINE ncd == NonConflicting(st, int, ext)
<1>1. int \in RecordSet /\ Filtered \subseteq Field
  BY StateMergeAssumption DEF FullRecordSet
<1>2. ncd \in Diff /\ \A k \in Key, f \in Filtered : ncd.inc[k][f] = NoChange
  BY <1>1, NcdType, NcdAt
<1>3. /\ m.agreed = RSAdd(st.agreed, ncd)
      /\ m.agreed \in RecordSet /\ m.pending \in Diff /\ m.send \in Diff /\ m.apply \in Diff
      /\ \A k \in Key, f \in Filtered : m.pending.inc[k][f] = NoChange
  BY <1>1, MergeAt
<1> HIDE DEF ncd
<1>4. FilterClear(m)
  BY <1>1, <1>2, <1>3, AddAt DEF FilterClear
<1>5. CASE r = AutoResolve(m, int)
  <2>1. PICK lost \in RecordSet, won \in RecordSet, kept \in RecordSet :
          Resolution(m, int, r, lost, won, kept)
    BY <1>3, <1>5, ResolveAt
  <2>2. \A k \in Key, f \in Filtered :
          won[k][f] = NoChange /\ kept[k][f] = NoChange
    BY <1>1, <1>3, <2>1 DEF Resolution
  <2> QED
    BY <1>1, <1>3, <1>4, <2>1, <2>2 DEF Resolution, FilterClear
<1> QED
  BY <1>4, <1>5

(* Whole records. *)
LEMMA FullFacts ==
  ASSUME NEW rs \in FullRecordSet
  PROVE  /\ rs \in RecordSet /\ SaysAll(rs)
         /\ \A k \in Key, f \in Field : rs[k] # Blank => rs[k][f] # NoChange
         /\ \A k \in Key, f \in Field : rs[k] = Blank => rs[k][f] = NoChange
  BY DEF FullRecordSet, Keys, SaysAll, Unfiltered, Blank

(* The merge with an item that is as agreed: what the peer has is agreed    *)
(* and applied, and nothing is pending.                                    *)
LEMMA MergeUntouched ==
  ASSUME Filtered = {}, NEW st, NEW ext \in FullRecordSet, st.agreed \in FullRecordSet,
         NEW m, m = MergeReadWrite(st, st.agreed, ext)
  PROVE  /\ m.agreed = ext /\ m.pending = EmptyDiff
         /\ m.apply \in Diff /\ Import(st.agreed, m.apply) = ext
<1> DEFINE old == st.agreed
           ncd == NonConflicting(st, old, ext)
<1>1. old \in RecordSet /\ ext \in RecordSet /\ ncd \in Diff
  BY FullFacts, NcdType
<1> HIDE DEF ncd
<1>2. ASSUME NEW k \in Key, NEW f \in Field
      PROVE  RSAdd(old, ncd)[k][f] = ext[k][f] /\ RSAdd(ext, ncd)[k][f] = ext[k][f]
  <2>1. /\ old[k] # Blank => old[k][f] # NoChange
        /\ old[k] = Blank => old[k][f] = NoChange
        /\ ext[k] # Blank => ext[k][f] # NoChange
        /\ ext[k] = Blank => \A h \in Field : ext[k][h] = NoChange
    BY FullFacts
  <2>2. f \in Unfiltered
    BY DEF Unfiltered
  <2>3. CASE old[k] # Blank /\ ext[k] = Blank
    <3>1. k \notin ncd.exc =>
            \E h \in Unfiltered : \/ old[k][h] \notin {old[k][h], NoChange}
                                  \/ ext[k][h] \notin {old[k][h], NoChange}
      BY <1>1, <2>3, NcdAt DEF ncd
    <3>2. k \in ncd.exc
      BY <2>1, <2>3, <3>1 DEF Unfiltered
    <3> QED
      BY <1>1, <2>1, <2>3, <3>2, AddAt
  <2>4. CASE ~(old[k] # Blank /\ ext[k] = Blank)
    <3>1. /\ k \notin ncd.exc
          /\ ncd.inc[k][f] = IF ext[k][f] \in {old[k][f], NoChange}
                             THEN NoChange ELSE ext[k][f]
      BY <1>1, <2>2, <2>1, <2>4, NcdAt DEF ncd
    <3> QED
      BY <1>1, <2>1, <2>4, <3>1, AddAt
  <2> QED
    BY <2>3, <2>4
<1>3. RSAdd(old, ncd) = ext /\ RSAdd(ext, ncd) = ext
  BY <1>1, <1>2, AddType, RecordSetEquality
<1>4. /\ m.agreed = ext
      /\ m.apply \in Diff /\ RSAdd(old, m.apply) = ext
      /\ m.pending \in Diff
      /\ \A k \in Key : k \notin m.pending.exc
      /\ \A k \in Key, f \in Field : m.pending.inc[k][f] = NoChange
  BY <1>1, <1>3, MergeAt DEF ncd
<1>5. m.pending = EmptyDiff
  <2>1. m.pending.inc = NoRecords
    <3>1. m.pending.inc \in RecordSet /\ NoRecords \in RecordSet
      BY <1>4, ConstantTypes DEF Diff
    <3>2. \A k \in Key, f \in Field : m.pending.inc[k][f] = NoRecords[k][f]
      BY <1>4 DEF NoRecords, Blank
    <3> QED
      BY <3>1, <3>2, RecordSetEquality
  <2>2. m.pending.exc = {}
    BY <1>4 DEF Diff
  <2> QED
    BY <1>4, <2>1, <2>2 DEF Diff, EmptyDiff
<1>6. Import(old, m.apply) = ext
  <2>1. Import(old, m.apply) \in RecordSet
    BY <1>4, ImportType, FullFacts
  <2>2. \A k \in Key, f \in Field : Import(old, m.apply)[k][f] = ext[k][f]
    BY <1>1, <1>4, ImportAt, FullFacts
  <2> QED
    BY <1>1, <2>1, <2>2, RecordSetEquality
<1> QED
  BY <1>4, <1>5, <1>6
-----------------------------------------------------------------------------
(* A read-only subscription.                                               *)

(* What is pending says nothing that agreed does not say already, as agreed *)
(* is the peer's state.                                                     *)
PendingIsAgreed(st) == StateGood(st) /\ Known(st) = st.agreed

LEMMA AgreedHasPending ==
  ASSUME NEW st, PendingIsAgreed(st), NEW k \in Key
  PROVE  /\ k \in st.pending.exc => st.agreed[k] = Blank /\ st.pending.inc[k] = Blank
         /\ \A f \in Field : st.pending.inc[k][f] \in {NoChange, st.agreed[k][f]}
<1>1. /\ st.agreed \in RecordSet /\ st.pending \in Diff /\ Proper(st.pending)
      /\ RSAdd(st.agreed, st.pending) = st.agreed
  BY DEF PendingIsAgreed, StateGood, Known
<1>2. k \in st.pending.exc => st.agreed[k] = Blank /\ st.pending.inc[k] = Blank
  <2>1. k \in st.pending.exc => RSAdd(st.agreed, st.pending)[k] = Blank
    BY DEF RSAdd
  <2> QED
    BY <1>1, <2>1 DEF Proper
<1>3. ASSUME NEW f \in Field
      PROVE  st.pending.inc[k][f] \in {NoChange, st.agreed[k][f]}
  <2>1. k \in st.pending.exc => st.pending.inc[k][f] = NoChange
    BY <1>2 DEF Blank
  <2> QED
    BY <1>1, <2>1, AddAt
<1> QED
  BY <1>2, <1>3

(* So that a decision of a conflict leaves agreed as it is.                *)
LEMMA PartIsAgreed ==
  ASSUME NEW st, PendingIsAgreed(st), NEW c, PartOf(c, st.pending)
  PROVE  RSAdd(st.agreed, c) = st.agreed
<1>1. st.agreed \in RecordSet /\ c \in Diff /\ c.exc \subseteq st.pending.exc
  BY DEF PendingIsAgreed, StateGood, PartOf
<1>2. ASSUME NEW k \in Key, NEW f \in Field
      PROVE  RSAdd(st.agreed, c)[k][f] = st.agreed[k][f]
  <2>1. c.inc[k][f] \in {NoChange, st.agreed[k][f]}
    BY AgreedHasPending DEF PartOf
  <2>2. k \in c.exc => st.agreed[k][f] = NoChange
    BY <1>1, AgreedHasPending DEF Blank
  <2> QED
    BY <1>1, <2>1, <2>2, AddAt
<1> QED
  BY <1>1, <1>2, AddType, RecordSetEquality

(* The filtered difference of two record sets, and what adding it yields.  *)
LEMMA FltSubAt ==
  ASSUME NEW n \in RecordSet, NEW a \in RecordSet, NEW d, d = Flt(RSSub(n, a))
  PROVE  /\ d \in Diff
         /\ \A k \in Key :
              /\ k \in d.exc <=> a[k] # Blank /\ n[k] = Blank
              /\ \A f \in Field : d.inc[k][f] = IF f \in Filtered \/ n[k][f] = a[k][f]
                                                THEN NoChange ELSE n[k][f]
<1>1. RSSub(n, a) \in Diff /\ Proper(RSSub(n, a))
  BY SubType, SubProper
<1> QED
  BY <1>1, FilterProper, SubAt, SubExcluded DEF Flt

LEMMA AddFltSub ==
  ASSUME NEW n \in RecordSet, SaysAll(n), NEW a \in RecordSet,
         \A k \in Key, f \in Filtered : a[k][f] = NoChange
  PROVE  /\ RSAdd(a, Flt(RSSub(n, a))) \in RecordSet
         /\ \A k \in Key, f \in Field :
              RSAdd(a, Flt(RSSub(n, a)))[k][f] = IF f \in Filtered THEN NoChange ELSE n[k][f]
<1> DEFINE d == Flt(RSSub(n, a))
<1>1. /\ d \in Diff
      /\ \A k \in Key :
           /\ k \in d.exc <=> a[k] # Blank /\ n[k] = Blank
           /\ \A f \in Field : d.inc[k][f] = IF f \in Filtered \/ n[k][f] = a[k][f]
                                             THEN NoChange ELSE n[k][f]
  BY FltSubAt
<1> HIDE DEF d
<1>2. ASSUME NEW k \in Key, NEW f \in Field
      PROVE  RSAdd(a, d)[k][f] = IF f \in Filtered THEN NoChange ELSE n[k][f]
  <2>1. n[k] # Blank /\ f \notin Filtered => n[k][f] # NoChange
    BY DEF SaysAll, Keys, Unfiltered
  <2>2. n[k] = Blank => n[k][f] = NoChange
    BY DEF Blank
  <2>3. a[k] = Blank => a[k][f] = NoChange
    BY DEF Blank
  <2>4. f \in Filtered => a[k][f] = NoChange
    OBVIOUS
  <2> QED
    BY <1>1, <2>1, <2>2, <2>3, <2>4, AddAt
<1> QED
  BY <1>1, <1>2, AddType DEF d

(* The two ways to settle everything that merge() compares: the peer's     *)
(* changes last, or the local ones last.                                   *)
LEMMA BothWaysAt ==
  ASSUME NEW st, PendingIsAgreed(st), NEW int \in FullRecordSet, NEW ext \in RecordSet, SaysAll(ext),
         NEW I, I = Flt(RSSub(int, st.agreed)), NEW X, X = Flt(RSSub(ext, st.agreed)),
         NEW extWins, extWins = RSAdd(RSAdd(RSAdd(st.agreed, I), st.pending), X),
         NEW intWins, intWins = RSAdd(RSAdd(RSAdd(st.agreed, st.pending), X), I),
         NEW k \in Key
  PROVE  /\ extWins \in RecordSet /\ intWins \in RecordSet
         /\ \A f \in Filtered : extWins[k][f] = NoChange /\ intWins[k][f] = NoChange
         /\ \A f \in Unfiltered :
              /\ extWins[k][f] =
                   IF st.agreed[k] # Blank /\ ext[k] = Blank THEN NoChange
                   ELSE IF ext[k][f] # st.agreed[k][f] THEN ext[k][f]
                   ELSE IF k \in st.pending.exc THEN NoChange
                   ELSE IF st.pending.inc[k][f] # NoChange THEN ext[k][f] ELSE int[k][f]
              /\ intWins[k][f] =
                   IF st.agreed[k] # Blank /\ int[k] = Blank THEN NoChange
                   ELSE IF int[k][f] = st.agreed[k][f] THEN ext[k][f] ELSE
                   IF int[k][f] = NoChange THEN ext[k][f] ELSE int[k][f]
<1> DEFINE a == st.agreed
           p == st.pending
           B == RSAdd(a, I)
           C == RSAdd(B, p)
           D == RSAdd(a, X)
<1>1. /\ a \in RecordSet /\ p \in Diff /\ int \in RecordSet /\ SaysAll(int)
      /\ \A j \in Key, f \in Filtered : a[j][f] = NoChange /\ p.inc[j][f] = NoChange
      /\ RSAdd(a, p) = a
  BY FullFacts DEF PendingIsAgreed, StateGood, FilterClear, Known
<1>2. /\ I \in Diff /\ X \in Diff
      /\ k \in I.exc <=> a[k] # Blank /\ int[k] = Blank
      /\ k \in X.exc <=> a[k] # Blank /\ ext[k] = Blank
      /\ \A f \in Field :
           /\ I.inc[k][f] = IF f \in Filtered \/ int[k][f] = a[k][f] THEN NoChange ELSE int[k][f]
           /\ X.inc[k][f] = IF f \in Filtered \/ ext[k][f] = a[k][f] THEN NoChange ELSE ext[k][f]
  BY <1>1, FltSubAt
<1>3. /\ B \in RecordSet /\ \A f \in Field : B[k][f] = IF f \in Filtered THEN NoChange ELSE int[k][f]
      /\ D \in RecordSet /\ \A f \in Field : D[k][f] = IF f \in Filtered THEN NoChange ELSE ext[k][f]
  BY <1>1, AddFltSub
<1>4. /\ k \in p.exc => a[k] = Blank /\ p.inc[k] = Blank
      /\ \A f \in Field : p.inc[k][f] \in {NoChange, a[k][f]}
  BY AgreedHasPending
<1>5. extWins = RSAdd(C, X) /\ intWins = RSAdd(D, I)
  BY <1>1
<1> HIDE DEF B, D
<1>6. /\ C \in RecordSet
      /\ \A f \in Field : C[k][f] = IF k \in p.exc THEN NoChange
                                    ELSE IF p.inc[k][f] # NoChange THEN p.inc[k][f] ELSE B[k][f]
  BY <1>1, <1>3, AddType, AddAt
<1> HIDE DEF C, a, p
<1>7. extWins \in RecordSet /\ intWins \in RecordSet
  BY <1>2, <1>3, <1>5, <1>6, AddType
<1>8. \A f \in Field :
        /\ extWins[k][f] = IF k \in X.exc THEN NoChange
                           ELSE IF X.inc[k][f] # NoChange THEN X.inc[k][f] ELSE C[k][f]
        /\ intWins[k][f] = IF k \in I.exc THEN NoChange
                           ELSE IF I.inc[k][f] # NoChange THEN I.inc[k][f] ELSE D[k][f]
  BY <1>2, <1>3, <1>5, <1>6, AddAt
<1>9. Filtered \subseteq Field /\ \A f \in Unfiltered : f \in Field /\ f \notin Filtered
  BY StateMergeAssumption DEF Unfiltered
<1>10. ASSUME NEW f \in Filtered
       PROVE  extWins[k][f] = NoChange /\ intWins[k][f] = NoChange
  BY <1>1, <1>2, <1>3, <1>6, <1>8, <1>9 DEF p
<1>11. ASSUME NEW f \in Unfiltered
       PROVE  /\ extWins[k][f] =
                   IF a[k] # Blank /\ ext[k] = Blank THEN NoChange
                   ELSE IF ext[k][f] # a[k][f] THEN ext[k][f]
                   ELSE IF k \in p.exc THEN NoChange
                   ELSE IF p.inc[k][f] # NoChange THEN ext[k][f] ELSE int[k][f]
              /\ intWins[k][f] =
                   IF a[k] # Blank /\ int[k] = Blank THEN NoChange
                   ELSE IF int[k][f] = a[k][f] THEN ext[k][f]
                   ELSE IF int[k][f] = NoChange THEN ext[k][f] ELSE int[k][f]
  <2>1. /\ f \in Field /\ f \notin Filtered
        /\ ext[k] # Blank => ext[k][f] # NoChange
        /\ ext[k] = Blank => ext[k][f] = NoChange
        /\ a[k] = Blank => a[k][f] = NoChange
    BY <1>9 DEF SaysAll, Keys, Blank
  <2>2. extWins[k][f] =
                   IF a[k] # Blank /\ ext[k] = Blank THEN NoChange
                   ELSE IF ext[k][f] # a[k][f] THEN ext[k][f]
                   ELSE IF k \in p.exc THEN NoChange
                   ELSE IF p.inc[k][f] # NoChange THEN ext[k][f] ELSE int[k][f]
    BY <1>2, <1>3, <1>4, <1>6, <1>8, <2>1
  <2>3. intWins[k][f] =
                   IF a[k] # Blank /\ int[k] = Blank THEN NoChange
                   ELSE IF int[k][f] = a[k][f] THEN ext[k][f]
                   ELSE IF int[k][f] = NoChange THEN ext[k][f] ELSE int[k][f]
    BY <1>2, <1>3, <1>8, <2>1
  <2> QED
    BY <2>2, <2>3
<1> QED
  BY <1>7, <1>10, <1>11 DEF a, p

(* What a subscriber's merge leaves: it sends nothing, agrees with the peer *)
(* on everything the filter lets through, and ...                          *)
FollowsPeer(m, ext) ==
  /\ PendingIsAgreed(m) /\ Agree(m.agreed, ext)
  /\ m.send = EmptyDiff /\ m.apply \in Diff

(* ... tells of key k what the peer has and the local item, changed here,  *)
(* has not, if the peer changed it too or it was told before; and it        *)
(* overwrites no change made here that resolve does not decide.            *)
TellsPeers(m, st, int, ext, k) ==
  /\ k \in m.pending.exc =>
       /\ ext[k] = Blank /\ \E f \in Unfiltered : Applied(m, int)[k][f] # NoChange
       /\ k \in st.pending.exc \/ \E g \in Unfiltered : ext[k][g] # st.agreed[k][g]
  /\ \A f \in Filtered : Applied(m, int)[k] # Blank => Applied(m, int)[k][f] = int[k][f]
  /\ \A f \in Unfiltered :
       /\ Applied(m, int)[k] # Blank => Applied(m, int)[k][f] # NoChange
       /\ m.pending.inc[k][f] # NoChange =>
            /\ Applied(m, int)[k][f] # ext[k][f]
            /\ int[k] = Blank => Applied(m, int)[k][f] = NoChange
            /\ st.pending.inc[k][f] # NoChange \/ ext[k][f] # st.agreed[k][f]
       /\ int[k][f] # st.agreed[k][f] =>
            Applied(m, int)[k][f] = int[k][f] \/ None \in {int[k][f], ext[k][f]}

LEMMA ReadOnlyMerge ==
  ASSUME NEW st, PendingIsAgreed(st), NEW int \in FullRecordSet, NEW ext \in RecordSet, SaysAll(ext),
         NEW m, m = MergeReadOnly(st, int, ext)
  PROVE  FollowsPeer(m, ext) /\ \A k \in Key : TellsPeers(m, st, int, ext, k)
<1> DEFINE a == st.agreed
           I == Flt(RSSub(int, a))
           X == Flt(RSSub(ext, a))
           extWins == RSAdd(RSAdd(RSAdd(a, I), st.pending), X)
           intWins == RSAdd(RSAdd(RSAdd(a, st.pending), X), I)
           w == MergeReadWrite(st, int, ext)
           A == Applied(m, int)
<1>1. /\ a \in RecordSet /\ st.pending \in Diff /\ int \in RecordSet
      /\ \A k \in Key, f \in Filtered : a[k][f] = NoChange
      /\ Filtered \subseteq Field /\ \A f \in Unfiltered : f \in Field /\ f \notin Filtered
  BY FullFacts, StateMergeAssumption DEF PendingIsAgreed, StateGood, FilterClear, Unfiltered
<1>2. /\ m.agreed = FilterRS(ext, Filtered) /\ m.pending = Flt(RSSub(extWins, intWins))
      /\ m.send = EmptyDiff /\ m.apply = w.apply
  BY DEF MergeReadOnly, MergeReadWrite, NonConflicting
<1>3. \A k \in Key : Honest(w, st, int, ext, k) /\ Cautious(w, st, int, ext, k)
  BY <1>1, HonestMerge
<1>4. w.apply \in Diff /\ A = RSAdd(int, NonConflicting(st, int, ext)) /\ Applied(w, int) = A
  BY <1>1, <1>2, MergeAt DEF Applied
<1>5. extWins \in RecordSet /\ intWins \in RecordSet
      /\ \A k \in Key :
           /\ \A f \in Filtered : extWins[k][f] = NoChange /\ intWins[k][f] = NoChange
           /\ \A f \in Unfiltered :
                /\ extWins[k][f] =
                     IF a[k] # Blank /\ ext[k] = Blank THEN NoChange
                     ELSE IF ext[k][f] # a[k][f] THEN ext[k][f]
                     ELSE IF k \in st.pending.exc THEN NoChange
                     ELSE IF st.pending.inc[k][f] # NoChange THEN ext[k][f] ELSE int[k][f]
                /\ intWins[k][f] =
                     IF a[k] # Blank /\ int[k] = Blank THEN NoChange
                     ELSE IF int[k][f] = a[k][f] THEN ext[k][f] ELSE
                     IF int[k][f] = NoChange THEN ext[k][f] ELSE int[k][f]
  <2>1. (extWins \in RecordSet /\ intWins \in RecordSet) \/ Key = {}
    BY BothWaysAt
  <2>2. Key = {} => extWins \in RecordSet /\ intWins \in RecordSet
    BY DEF RSAdd, RecordSet
  <2> QED
    BY <2>1, <2>2, BothWaysAt
<1> HIDE DEF extWins, intWins, w, A
<1>6. /\ m.pending \in Diff
      /\ \A k \in Key :
           /\ k \in m.pending.exc <=> intWins[k] # Blank /\ extWins[k] = Blank
           /\ \A f \in Field : m.pending.inc[k][f] = IF f \in Filtered \/ extWins[k][f] = intWins[k][f]
                                                     THEN NoChange ELSE extWins[k][f]
  BY <1>2, <1>5, FltSubAt
<1>7. Proper(m.pending)
  <2>1. RSSub(extWins, intWins) \in Diff /\ Proper(RSSub(extWins, intWins))
    BY <1>5, SubType, SubProper
  <2> QED
    BY <1>2, <2>1, FilterProper DEF Flt
<1>8. /\ m.agreed \in RecordSet
      /\ \A k \in Key, f \in Field : m.agreed[k][f] = IF f \in Filtered THEN NoChange ELSE ext[k][f]
  <2>1. m.agreed = FilterRS(ext, Filtered) /\ FilterRS(ext, Filtered) \in RecordSet
    BY <1>2, FilterType
  <2>2. \A k \in Key, f \in Field :
          FilterRS(ext, Filtered)[k][f] = IF f \in Filtered THEN NoChange ELSE ext[k][f]
    BY DEF FilterRS, FilterRec
  <2> QED
    BY <2>1, <2>2
<1>9. ASSUME NEW k \in Key
      PROVE  /\ int[k] # Blank => \A f \in Field : int[k][f] # NoChange
             /\ int[k] = Blank => \A f \in Field : int[k][f] = NoChange
             /\ ext[k] # Blank => \A f \in Unfiltered : ext[k][f] # NoChange
             /\ ext[k] = Blank => \A f \in Unfiltered : ext[k][f] = NoChange
             /\ a[k] = Blank => \A f \in Unfiltered : a[k][f] = NoChange
             /\ a[k] # Blank => \E f \in Unfiltered : a[k][f] # NoChange
  BY <1>1, FullFacts, RecordAt DEF SaysAll, Keys, Blank, Unfiltered
<1>10. ASSUME NEW k \in Key, NEW f \in Unfiltered, m.pending.inc[k][f] # NoChange
       PROVE  /\ m.pending.inc[k][f] = ext[k][f]
              /\ \/ int[k] = Blank /\ a[k] # Blank
                 \/ int[k][f] # a[k][f] /\ int[k][f] # ext[k][f]
              /\ st.pending.inc[k][f] # NoChange \/ ext[k][f] # a[k][f]
  <2>1. m.pending.inc[k][f] = extWins[k][f] /\ extWins[k][f] # intWins[k][f]
    BY <1>1, <1>6, <1>10
  <2> QED
    BY <1>1, <1>5, <1>9, <1>10, <2>1
<1>11. ASSUME NEW k \in m.pending.exc
       PROVE  /\ k \in Key /\ ext[k] = Blank
              /\ \E f \in Unfiltered : int[k][f] # a[k][f] /\ int[k][f] # NoChange
              /\ k \in st.pending.exc \/ \E g \in Unfiltered : ext[k][g] # a[k][g]
  <2>1. k \in Key /\ intWins[k] # Blank /\ extWins[k] = Blank
    BY <1>6, <1>11 DEF Diff
  <2>2. PICK f \in Field : intWins[k][f] # NoChange
    BY <1>5, <2>1, RecordAt
  <2>3. f \in Unfiltered /\ extWins[k][f] = NoChange
    BY <1>5, <2>1, <2>2 DEF Unfiltered, Blank
  <2>4. st.pending.inc[k][f] \in {NoChange, a[k][f]}
    BY <2>1, <2>3, <1>1, AgreedHasPending
  <2>5. k \in st.pending.exc => a[k] = Blank
    BY <2>1, AgreedHasPending
  <2>6. ext[k][f] = NoChange
    BY <1>5, <1>9, <2>1, <2>2, <2>3, <2>4, <2>5
  <2>7. ext[k] = Blank
    BY <1>9, <2>1, <2>3, <2>6
  <2>8. int[k][f] # a[k][f] /\ int[k][f] # NoChange
    BY <1>5, <2>1, <2>2, <2>3, <2>6
  <2>9. k \in st.pending.exc \/ \E g \in Unfiltered : ext[k][g] # a[k][g]
    BY <1>5, <1>9, <2>1, <2>3, <2>4, <2>6, <2>7, <2>8
  <2> QED
    BY <2>1, <2>3, <2>7, <2>8, <2>9
<1>12. PendingIsAgreed(m)
  <2>1. StateGood(m)
    BY <1>1, <1>6, <1>7, <1>8 DEF StateGood, FilterClear
  <2>2. ASSUME NEW k \in Key, NEW f \in Field
        PROVE  Known(m)[k][f] = m.agreed[k][f]
    <3>1. m.pending.inc[k][f] \in {NoChange, m.agreed[k][f]}
      BY <1>6, <1>8, <1>10 DEF Unfiltered
    <3>2. k \in m.pending.exc => m.agreed[k][f] = NoChange
      BY <1>8, <1>11 DEF Blank
    <3> QED
      BY <1>6, <1>8, <3>1, <3>2, AddAt DEF Known
  <2>3. Known(m) = m.agreed
    BY <1>6, <1>8, <2>2, KnownType, RecordSetEquality
  <2> QED
    BY <2>1, <2>3 DEF PendingIsAgreed
<1>13. Agree(m.agreed, ext)
  BY <1>1, <1>8 DEF Agree
<1>14. ASSUME NEW k \in Key
       PROVE  TellsPeers(m, st, int, ext, k)
  <2>1. ASSUME NEW f \in Unfiltered
        PROVE  /\ int[k][f] # a[k][f] => A[k][f] = int[k][f]
               /\ A[k] # Blank => A[k][f] # NoChange
    BY <1>3, <1>4 DEF Honest, Cautious
  <2>2. \A f \in Filtered : A[k] # Blank => A[k][f] = int[k][f]
    BY <1>3, <1>4 DEF Honest
  <2>3. ASSUME NEW f \in Unfiltered, m.pending.inc[k][f] # NoChange
        PROVE  /\ A[k][f] # ext[k][f] /\ (st.pending.inc[k][f] # NoChange \/ ext[k][f] # a[k][f])
               /\ int[k] = Blank => A[k][f] = NoChange
    <3>1. CASE int[k] = Blank /\ a[k] # Blank
      <4>1. NonConflicting(st, int, ext) \in Diff
            /\ NonConflicting(st, int, ext).inc[k][f] = NoChange
        BY <1>1, <3>1, NcdType, NcdAt
      <4>2. A[k][f] = NoChange
        BY <1>1, <1>4, <1>9, <3>1, <4>1, AddAt
      <4> QED
        BY <1>10, <2>3, <4>2
    <3>2. CASE ~(int[k] = Blank /\ a[k] # Blank)
      <4>1. int[k] # Blank
        BY <1>9, <1>10, <2>3, <3>2
      <4> QED
        BY <1>10, <2>1, <2>3, <3>2, <4>1
    <3> QED
      BY <3>1, <3>2
  <2>4. ASSUME k \in m.pending.exc
        PROVE  /\ ext[k] = Blank /\ \E f \in Unfiltered : A[k][f] # NoChange
               /\ k \in st.pending.exc \/ \E g \in Unfiltered : ext[k][g] # a[k][g]
    BY <1>11, <2>1, <2>4
  <2> QED
    BY <2>1, <2>2, <2>3, <2>4 DEF TellsPeers, A
<1> QED
  BY <1>2, <1>4, <1>12, <1>13, <1>14 DEF FollowsPeer

(* Two record sets that agree up to the values of the fields that resolve   *)
(* always settles.                                                         *)
NearlyAgree(r, s) ==
  \A k \in Key, f \in Unfiltered :
    /\ r[k][f] = NoChange <=> s[k][f] = NoChange
    /\ f \in NonNoneField \/ r[k][f] = s[k][f]

(* Elsewhere resolve() has nothing to decide for a value that is agreed,    *)
(* except that an empty field may take the peer's if that is Inherit.       *)
LEMMA ReadOnlyResolve ==
  ASSUME Inherit # None,
         NEW st, NEW int \in FullRecordSet, NEW ext \in RecordSet,
         NEW m, FollowsPeer(m, ext), \A k \in Key : TellsPeers(m, st, int, ext, k),
         NEW r, r = AutoResolve(m, int)
  PROVE  /\ PendingIsAgreed(r) /\ NearlyAgree(r.agreed, ext) /\ r.apply \in Diff
         /\ \A k \in Key : TellsPeers(r, st, int, ext, k)
         /\ \A k \in Key, f \in NonNoneField \cap Unfiltered :
              r.pending.inc[k][f] # NoChange => int[k] = Blank
<1>1. /\ m.agreed \in RecordSet /\ m.pending \in Diff /\ m.send \in Diff /\ m.apply \in Diff
      /\ int \in RecordSet /\ Filtered \subseteq Field
  BY ConstantTypes, FullFacts, StateMergeAssumption DEF FollowsPeer, PendingIsAgreed, StateGood
<1>2. PICK lost \in RecordSet, won \in RecordSet, kept \in RecordSet :
        Resolution(m, int, r, lost, won, kept)
  BY <1>1, ResolveAt
<1>3. /\ r.agreed \in RecordSet /\ r.pending \in Diff /\ r.apply \in Diff
      /\ r.pending.exc = m.pending.exc /\ r.apply.exc = m.apply.exc
  BY <1>2 DEF Resolution
<1>4. ASSUME NEW k \in Key, NEW f \in Field
      PROVE  /\ m.pending.inc[k][f] \in {NoChange, m.agreed[k][f]}
             /\ lost[k][f] \in {NoChange, m.pending.inc[k][f]}
             /\ won[k][f] \in {NoChange, m.pending.inc[k][f]}
             /\ f \in NonNoneField \/ lost[k][f] = NoChange
             /\ kept[k][f] # NoChange <=> lost[k][f] # NoChange
             /\ won[k][f] # NoChange => int[k] # Blank /\ int[k][f] = None
             /\ r.agreed[k][f] = IF won[k][f] # NoChange THEN won[k][f]
                                 ELSE IF kept[k][f] # NoChange THEN kept[k][f] ELSE m.agreed[k][f]
             /\ r.pending.inc[k][f] = IF lost[k][f] # NoChange \/ won[k][f] # NoChange
                                      THEN NoChange ELSE m.pending.inc[k][f]
             /\ r.apply.inc[k][f] = IF won[k][f] # NoChange THEN won[k][f] ELSE m.apply.inc[k][f]
             /\ f \in NonNoneField /\ int[k] # Blank => r.pending.inc[k][f] = NoChange
  <2>1. m.pending.inc[k][f] \in {NoChange, m.agreed[k][f]}
    BY AgreedHasPending DEF FollowsPeer
  <2>2. /\ lost[k][f] \in {NoChange, m.pending.inc[k][f]}
        /\ won[k][f] \in {NoChange, m.pending.inc[k][f]}
        /\ kept[k][f] = IF lost[k][f] = NoChange THEN NoChange ELSE int[k][f]
        /\ lost[k][f] # NoChange =>
             /\ kept[k][f] # NoChange
             /\ f \in NonNoneField
                \/ (m.pending.inc[k][f] = None /\ m.agreed[k][f] \in {NoChange, Inherit})
        /\ won[k][f] # NoChange => int[k] # Blank /\ int[k][f] = None
        /\ f \in NonNoneField /\ int[k] # Blank /\ m.pending.inc[k][f] # NoChange =>
             lost[k][f] # NoChange \/ won[k][f] # NoChange
        /\ r.agreed[k][f] = IF won[k][f] # NoChange THEN won[k][f]
                            ELSE IF kept[k][f] # NoChange THEN kept[k][f] ELSE m.agreed[k][f]
        /\ r.pending.inc[k][f] = IF lost[k][f] # NoChange \/ won[k][f] # NoChange
                                 THEN NoChange ELSE m.pending.inc[k][f]
        /\ r.apply.inc[k][f] = IF won[k][f] # NoChange THEN won[k][f] ELSE m.apply.inc[k][f]
    BY <1>2 DEF Resolution
  <2>3. None # NoChange
    BY StateMergeAssumption, NoChangeAssumption
  <2> QED
    BY <2>1, <2>2, <2>3
<1>5. PendingIsAgreed(r)
  <2>1. Proper(m.pending) /\ FilterClear(m)
    BY DEF FollowsPeer, PendingIsAgreed, StateGood
  <2>2. Proper(r.pending)
    <3>1. SUFFICES ASSUME NEW k \in m.pending.exc PROVE r.pending.inc[k] = Blank
      BY <1>3 DEF Proper
    <3>2. k \in Key /\ m.pending.inc[k] = Blank
      BY <1>1, <2>1 DEF Proper, Diff
    <3>3. \A f \in Field : r.pending.inc[k][f] = NoChange
      BY <1>4, <3>2 DEF Blank
    <3> QED
      BY <1>3, <3>2, <3>3, RecordAt DEF Diff
  <2>3. FilterClear(r)
    <3>1. \A k \in Key, f \in Filtered :
            f \in Field /\ m.agreed[k][f] = NoChange /\ m.pending.inc[k][f] = NoChange
      BY <1>1, <2>1 DEF FilterClear
    <3> QED
      BY <1>4, <3>1 DEF FilterClear
  <2>4. ASSUME NEW k \in Key, NEW f \in Field
        PROVE  Known(r)[k][f] = r.agreed[k][f]
    <3>1. k \in m.pending.exc => m.agreed[k][f] = NoChange
      <4>1. PendingIsAgreed(m)
        BY DEF FollowsPeer
      <4>2. k \in m.pending.exc => m.agreed[k] = Blank
        BY <4>1, AgreedHasPending
      <4> QED
        BY <4>2 DEF Blank
    <3>2. Known(r)[k][f] = IF k \in m.pending.exc THEN NoChange
                           ELSE IF r.pending.inc[k][f] # NoChange THEN r.pending.inc[k][f]
                           ELSE r.agreed[k][f]
      BY <1>3, AddAt DEF Known
    <3>3. r.pending.inc[k][f] # NoChange => r.pending.inc[k][f] = r.agreed[k][f]
      BY <1>4
    <3>4. m.agreed[k][f] = NoChange => r.agreed[k][f] = NoChange
      BY <1>4
    <3> QED
      BY <3>1, <3>2, <3>3, <3>4
  <2>5. Known(r) = r.agreed
    BY <1>3, <2>4, KnownType, RecordSetEquality
  <2> QED
    BY <1>3, <2>2, <2>3, <2>5 DEF PendingIsAgreed, StateGood
<1>6. NearlyAgree(r.agreed, ext)
  <2>1. SUFFICES ASSUME NEW k \in Key, NEW f \in Unfiltered
                 PROVE  /\ r.agreed[k][f] = NoChange <=> ext[k][f] = NoChange
                        /\ f \in NonNoneField \/ r.agreed[k][f] = ext[k][f]
    BY DEF NearlyAgree
  <2>2. f \in Field /\ m.agreed[k][f] = ext[k][f]
    BY DEF FollowsPeer, Agree, Unfiltered
  <2> QED
    BY <1>4, <2>2
<1>7. ASSUME NEW k \in Key
      PROVE  TellsPeers(r, st, int, ext, k)
  <2> DEFINE A == Applied(m, int)
             R == Applied(r, int)
  <2>1. A \in RecordSet /\ R \in RecordSet
    BY <1>1, <1>3, AddType DEF Applied
  <2>2. ASSUME NEW f \in Field
        PROVE  R[k][f] = IF k \notin m.apply.exc /\ won[k][f] # NoChange THEN won[k][f] ELSE A[k][f]
    <3>1. R[k][f] = IF k \in m.apply.exc THEN NoChange
                    ELSE IF r.apply.inc[k][f] # NoChange THEN r.apply.inc[k][f] ELSE int[k][f]
      BY <1>1, <1>3, AddAt DEF Applied
    <3>2. A[k][f] = IF k \in m.apply.exc THEN NoChange
                    ELSE IF m.apply.inc[k][f] # NoChange THEN m.apply.inc[k][f] ELSE int[k][f]
      BY <1>1, AddAt DEF Applied
    <3> QED
      BY <1>4, <3>1, <3>2
  <2>3. A[k] = Blank => \A f \in Field : k \in m.apply.exc \/ won[k][f] = NoChange
    <3>1. SUFFICES ASSUME NEW f \in Field, k \notin m.apply.exc, won[k][f] # NoChange
                   PROVE  A[k][f] # NoChange
      BY DEF Blank
    <3>2. int[k][f] # NoChange
      BY <1>4, <3>1, FullFacts
    <3> QED
      BY <1>1, <3>1, <3>2, AddAt DEF Applied
  <2> HIDE DEF A, R
  <2>4. R[k] = Blank <=> A[k] = Blank
    <3>1. A[k] = Blank => R[k] = Blank
      BY <2>1, <2>2, <2>3, RecordAt
    <3>2. R[k] = Blank => A[k] = Blank
      BY <2>1, <2>2, RecordAt
    <3> QED
      BY <3>1, <3>2
  <2>5. /\ k \in m.pending.exc =>
             /\ ext[k] = Blank /\ \E f \in Unfiltered : A[k][f] # NoChange
             /\ k \in st.pending.exc \/ \E g \in Unfiltered : ext[k][g] # st.agreed[k][g]
        /\ \A f \in Filtered : A[k] # Blank => A[k][f] = int[k][f]
        /\ \A f \in Unfiltered :
             /\ A[k] # Blank => A[k][f] # NoChange
             /\ m.pending.inc[k][f] # NoChange =>
                  /\ A[k][f] # ext[k][f]
                  /\ int[k] = Blank => A[k][f] = NoChange
                  /\ st.pending.inc[k][f] # NoChange \/ ext[k][f] # st.agreed[k][f]
             /\ int[k][f] # st.agreed[k][f] =>
                  A[k][f] = int[k][f] \/ None \in {int[k][f], ext[k][f]}
    BY DEF TellsPeers, A
  <2>6. \A f \in Filtered : f \in Field /\ won[k][f] = NoChange
    BY <1>1, <1>4 DEF FollowsPeer, PendingIsAgreed, StateGood, FilterClear
  <2>7. \A f \in Filtered : R[k] # Blank => R[k][f] = int[k][f]
    BY <2>2, <2>4, <2>5, <2>6
  <2>8. ASSUME NEW f \in Unfiltered
        PROVE  /\ R[k] # Blank => R[k][f] # NoChange
               /\ r.pending.inc[k][f] # NoChange =>
                    /\ R[k][f] # ext[k][f]
                    /\ int[k] = Blank => R[k][f] = NoChange
                    /\ st.pending.inc[k][f] # NoChange \/ ext[k][f] # st.agreed[k][f]
               /\ int[k][f] # st.agreed[k][f] =>
                    R[k][f] = int[k][f] \/ None \in {int[k][f], ext[k][f]}
    BY <1>4, <2>2, <2>4, <2>5 DEF Unfiltered
  <2>9. (\E f \in Unfiltered : A[k][f] # NoChange) => \E f \in Unfiltered : R[k][f] # NoChange
    BY <2>2 DEF Unfiltered
  <2> QED
    BY <1>3, <2>5, <2>7, <2>8, <2>9 DEF TellsPeers, R
<1>8. \A k \in Key, f \in NonNoneField \cap Unfiltered :
        r.pending.inc[k][f] # NoChange => int[k] = Blank
  BY <1>4 DEF Unfiltered
<1> QED
  BY <1>3, <1>5, <1>6, <1>7, <1>8
=============================================================================
