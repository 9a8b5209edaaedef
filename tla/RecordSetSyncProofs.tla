------------------------- MODULE RecordSetSyncProofs -------------------------
(***************************************************************************)
(* Theorems about RecordSetSync: the client's State and what the server    *)
(* will answer always add up to what the server holds, a client that has   *)
(* nothing to do has what the server has, and a removal by others spares   *)
(* what was not sent -- for any records, fields, values, filters and number *)
(* of tries, over failures at every point, lost answers, mismatches,       *)
(* removals and returns of the item.  With no field filtered, and while    *)
(* items stay in the collection, the whole implements ShareState.          *)
(***************************************************************************)
EXTENDS MCRecordSetSync, StateMergeProofs

-----------------------------------------------------------------------------
(* The invariant.  As long as no retry has forgotten a change, records are  *)
(* there with all fields or not at all, so that no diff deletes one of an   *)
(* item's records.                                                         *)
ItemOK(item, local) == IF item = "gone" THEN local = NoRecords ELSE local \in Whole

StateOK(st) ==
  /\ st.pending.exc = {}
  /\ FilterClear(st)
  /\ Known(st) = NoRecords \/ Complete(Known(st))
  /\ ~st.exists \/ st.removal => st.agreed = NoRecords /\ st.pending = EmptyDiff
  /\ ~st.exists => ~st.removal

ServerOK(srv) == srv = NoRecords \/ Complete(srv)

(* What a server that holds srv answers to a get.                          *)
AnswerOK(srv, rs) ==
  /\ rs = Removed => srv = NoRecords
  /\ rs # Removed => rs.exc = {}
  /\ rs \notin {Removed, EmptyDiff} => Complete(srv)

(* With nothing changed and nothing to decide, the item is as agreed.       *)
LocalIsAgreed(item, local, st) ==
  item = "in" /\ ~st.removal /\ st.pending = EmptyDiff => Agree(local, st.agreed)

RepoBook ==
  /\ ServerOK(server)
  /\ ItemOK(repo.item, repo.local)
  /\ StateOK(repo.state)
  /\ AnswerOK(server, missed)
  /\ Agree(server, Stored(Known(repo.state), missed))
  /\ ~repo.changed => LocalIsAgreed(repo.item, repo.local, repo.state)

(* What view v has is the repository's unless the view or the user has     *)
(* changed it.                                                             *)
Linked(v) ==
  /\ ~v.edited /\ ~v.applied => v.local = repo.local
  /\ ~v.edited /\ ~v.moved => v.item = repo.item
  /\ v.item = "gone" => ~v.applied /\ ~v.moved
  /\ repo.item = "gone" => ~v.edited /\ (~v.moved => v.item = "gone")
  /\ repo.item # "gone" => v.item # "gone"
  /\ v.state.new => v.item = "in" /\ v.state.exists
  /\ v.forget => v.item # "in" \/ EmptyState(v.state)
  /\ v.send = Removed => v.forget /\ v.item # "in"

Sends(v) == v.send \notin {EmptyDiff, Removed}

(* A view over a server that holds srv and has the changes rs after its     *)
(* token: true of every view, also of one that has forgotten a change.      *)
ViewBook(v, srv, rs, behind) ==
  /\ ItemOK(v.item, v.local)
  /\ StateOK(v.state)
  /\ AnswerOK(srv, rs)
  /\ ~behind => rs = EmptyDiff
  /\ Sends(v) => v.send.exc = {}
  /\ \/ Complete(Known(v.state))
     \/ Known(v.state) = NoRecords /\ Agree(srv, Stored(NoRecords, rs))
  /\ v.phase = "got" /\ Sends(v) => Complete(Known(v.state))
  /\ LocalIsAgreed(v.item, v.local, v.state)
  /\ srv = NoRecords /\ rs = EmptyDiff =>
       /\ v.item = "in" /\ ~v.state.removal => v.state.pending = EmptyDiff
       /\ Sends(v) => Complete(v.send.inc)

(* What the State of the view will know of the server once the view has put *)
(* what it sends: true unless the view has forgotten a change.              *)
SentBook(v, srv, rs, behind) ==
  LET known == Known(v.state) IN
  /\ v.send = EmptyDiff => /\ Agree(srv, Stored(known, rs))
                           /\ v.forget => known = NoRecords
  /\ Sends(v) => ~v.forget
  /\ v.phase = "got" /\ v.send = Removed =>
       \/ v.withheld
       \/ Agree(srv, Stored(known, rs))
       \/ Agree(srv, Stored(NoRecords, rs))
  /\ v.phase = "got" /\ Sends(v) /\ ~behind => Agree(known, RSAdd(srv, v.send))
  /\ v.phase = "sent" /\ Sends(v) => Agree(srv, Stored(known, rs))
  /\ v.phase = "sent" /\ v.send = Removed => Agree(srv, Stored(NoRecords, rs))

BookInv ==
  ~discarded =>
    /\ RepoBook
    /\ Busy => ViewBook(view, server, news, stale)
    /\ Busy /\ ~view.discarded => SentBook(view, server, news, stale)

(* What TypeOK says of the types alone; the books give its last conjunct.   *)
SyncTypes ==
  /\ repo \in [item : Membership, local : FullRecordSet, state : SyncState, changed : BOOLEAN]
  /\ repo.item = "gone" => repo.local = NoRecords
  /\ ~repo.state.new
  /\ view \in {NoView, Committed} \cup SyncView
  /\ missed \in ServerChange /\ news \in ServerChange
  /\ stale \in BOOLEAN
  /\ server \in RecordSet
  /\ discarded \in BOOLEAN

Books == SyncTypes /\ (Busy => Linked(view)) /\ BookInv

-----------------------------------------------------------------------------
(* Records.                                                                *)
LEMMA WholeIs ==
  /\ Whole \subseteq FullRecordSet
  /\ \A rs \in Whole : Complete(rs) /\ Keys(rs) = Key
  /\ NoRecords \in FullRecordSet
<1>1. \E f \in Field : f \notin Filtered
  BY RecordSetSyncAssumption
<1>2. \A rs \in Whole, k \in Key : rs[k] # Blank
  <2> SUFFICES ASSUME NEW rs \in Whole, NEW k \in Key PROVE rs[k] # Blank
    OBVIOUS
  <2> QED
    BY <1>1 DEF Whole, Blank
<1>3. Keys(NoRecords) = {}
  BY DEF Keys, NoRecords
<1> QED
  BY <1>2, <1>3, ConstantTypes DEF Whole, Complete, Keys, FullRecordSet

LEMMA CompleteKeys ==
  ASSUME NEW rs \in RecordSet, Complete(rs)
  PROVE  Keys(rs) = Key /\ rs # NoRecords
<1>1. \E f \in Field \ Filtered : TRUE
  BY RecordSetSyncAssumption
<1>2. \A k \in Key : rs[k] # Blank
  <2> SUFFICES ASSUME NEW k \in Key PROVE rs[k] # Blank
    OBVIOUS
  <2> QED
    BY <1>1 DEF Complete, Blank
<1>3. \A k \in Key : NoRecords[k] = Blank
  BY DEF NoRecords
<1>4. \E k \in Key : TRUE
  BY RecordSetSyncAssumption
<1> QED
  BY <1>2, <1>3, <1>4 DEF Keys

LEMMA AgreeIs ==
  ASSUME NEW r \in RecordSet, NEW s \in RecordSet, NEW t \in RecordSet
  PROVE  /\ Agree(r, r)
         /\ Agree(r, s) => Agree(s, r)
         /\ Agree(r, s) /\ Agree(s, t) => Agree(r, t)
         /\ Agree(r, s) /\ Complete(s) => Complete(r)
  BY DEF Agree, Complete, Unfiltered

(* A diff that deletes nothing.                                            *)
LEMMA PlainAdd ==
  ASSUME NEW r \in RecordSet, NEW d \in Diff, d.exc = {}
  PROVE  /\ \A k \in Key, f \in Field :
              RSAdd(r, d)[k][f] = IF d.inc[k][f] = NoChange THEN r[k][f] ELSE d.inc[k][f]
         /\ Complete(r) => Complete(RSAdd(r, d))
         /\ Complete(d.inc) => Complete(RSAdd(r, d))
<1>1. \A k \in Key, f \in Field :
        RSAdd(r, d)[k][f] = IF d.inc[k][f] = NoChange THEN r[k][f] ELSE d.inc[k][f]
  BY AddAt
<1> QED
  BY <1>1 DEF Complete

LEMMA NothingAdded ==
  /\ \A r \in RecordSet : RSAdd(r, EmptyDiff) = r
  /\ \A r \in RecordSet : RSAdd(NoRecords, AsDiff(r)) = r
  /\ EmptyDiff.exc = {} /\ EmptyDiff.inc = NoRecords
  /\ \A k \in Key, f \in Field : NoRecords[k][f] = NoChange
<1>1. \A k \in Key, f \in Field : NoRecords[k][f] = NoChange
  BY DEF NoRecords, Blank
<1>2. EmptyDiff.exc = {} /\ EmptyDiff.inc = NoRecords
  BY DEF EmptyDiff
<1>3. ASSUME NEW r \in RecordSet PROVE RSAdd(r, EmptyDiff) = r
  <2>1. \A k \in Key, f \in Field : RSAdd(r, EmptyDiff)[k][f] = r[k][f]
    BY <1>1, <1>2, PlainAdd, ConstantTypes
  <2> QED
    BY <2>1, RecordSetEquality, AddType, ConstantTypes
<1>4. ASSUME NEW r \in RecordSet PROVE RSAdd(NoRecords, AsDiff(r)) = r
  <2>1. AsDiff(r) \in Diff /\ AsDiff(r).exc = {} /\ AsDiff(r).inc = r
    BY ConstantTypes DEF AsDiff
  <2>2. \A k \in Key, f \in Field : RSAdd(NoRecords, AsDiff(r))[k][f] = r[k][f]
    BY <1>1, <2>1, PlainAdd, ConstantTypes
  <2> QED
    BY <2>1, <2>2, RecordSetEquality, AddType, ConstantTypes
<1> QED
  BY <1>1, <1>2, <1>3, <1>4

LEMMA NotComplete == ~Complete(NoRecords)
  BY CompleteKeys, ConstantTypes

(* Nothing is known only if nothing is agreed and nothing pending.          *)
LEMMA NothingKnown ==
  ASSUME NEW st, st.agreed \in RecordSet, st.pending \in Diff, st.pending.exc = {}
  PROVE  /\ Known(st) = NoRecords => st.agreed = NoRecords /\ st.pending = EmptyDiff
         /\ st.agreed = NoRecords /\ st.pending = EmptyDiff => Known(st) = NoRecords
         /\ FilterClear(st) /\ Agree(Known(st), NoRecords) => Known(st) = NoRecords
<1>1. \A k \in Key, f \in Field :
        Known(st)[k][f] = IF st.pending.inc[k][f] = NoChange THEN st.agreed[k][f]
                          ELSE st.pending.inc[k][f]
  BY PlainAdd DEF Known
<1>2. \A k \in Key, f \in Field : NoRecords[k][f] = NoChange
  BY NothingAdded
<1>3. ASSUME Known(st) = NoRecords PROVE st.agreed = NoRecords /\ st.pending = EmptyDiff
  <2>1. \A k \in Key, f \in Field :
          st.agreed[k][f] = NoRecords[k][f] /\ st.pending.inc[k][f] = NoRecords[k][f]
    BY <1>1, <1>2, <1>3
  <2>2. st.pending.inc \in RecordSet
    BY DEF Diff
  <2>3. st.agreed = NoRecords /\ st.pending.inc = NoRecords
    BY <2>1, <2>2, RecordSetEquality, ConstantTypes
  <2> QED
    BY <2>3 DEF EmptyDiff, Diff
<1>4. st.agreed = NoRecords /\ st.pending = EmptyDiff => Known(st) = NoRecords
  BY NothingAdded, ConstantTypes DEF Known
<1>5. ASSUME FilterClear(st), Agree(Known(st), NoRecords) PROVE Known(st) = NoRecords
  <2>1. ASSUME NEW k \in Key, NEW f \in Field PROVE Known(st)[k][f] = NoRecords[k][f]
    <3>1. CASE f \in Filtered
      BY <1>1, <1>2, <1>5, <3>1 DEF FilterClear
    <3>2. CASE f \notin Filtered
      BY <1>5, <3>2 DEF Agree, Unfiltered
    <3> QED
      BY <3>1, <3>2
  <2> QED
    BY <2>1, RecordSetEquality, KnownType, ConstantTypes
<1> QED
  BY <1>3, <1>4, <1>5

-----------------------------------------------------------------------------
(* The server.                                                             *)
LEMMA FoldIs ==
  ASSUME NEW m \in ServerChange, NEW p \in ServerChange
  PROVE  /\ Fold(m, p) \in ServerChange
         /\ p = Removed => Fold(m, p) = Removed
         /\ (p # Removed /\ (m # Removed => m.exc = {}) /\ p.exc = {}) =>
              /\ Fold(m, p) \in Diff /\ Fold(m, p).exc = {}
              /\ Fold(m, p).inc = RSAdd(IF m = Removed THEN NoRecords ELSE m.inc, p)
<1>1. CASE p = Removed
  BY <1>1 DEF Fold, ServerChange
<1>2. CASE p # Removed
  <2> DEFINE d == IF m = Removed THEN EmptyDiff ELSE m
  <2>1. p \in Diff /\ d \in Diff
    BY <1>2, ConstantTypes DEF ServerChange
  <2>2. Fold(m, p) = DiffIAdd(DiffIAdd(EmptyDiff, d), p)
    BY <1>2 DEF Fold, DiffAdd, DiffClone
  <2>3. Fold(m, p) \in Diff
    BY <2>1, <2>2, IAddType, ConstantTypes
  <2>4. ASSUME m # Removed => m.exc = {}, p.exc = {}
        PROVE  /\ Fold(m, p).exc = {}
               /\ Fold(m, p).inc = RSAdd(IF m = Removed THEN NoRecords ELSE m.inc, p)
    <3>1. d.exc = {} /\ d.inc \in RecordSet /\ d = AsDiff(d.inc)
      BY <2>1, <2>4, NothingAdded DEF Diff, AsDiff
    <3>2. RSAdd(NoRecords, d) = d.inc
      BY <3>1, NothingAdded
    <3>3. DiffIAdd(EmptyDiff, d) = [inc |-> d.inc, exc |-> {}]
      BY <3>1, <3>2, NothingAdded DEF DiffIAdd
    <3>4. Fold(m, p) = [inc |-> RSAdd(d.inc, p), exc |-> {}]
      BY <2>2, <2>4, <3>3 DEF DiffIAdd
    <3>5. d.inc = IF m = Removed THEN NoRecords ELSE m.inc
      BY NothingAdded
    <3> QED
      BY <3>4, <3>5
  <2> QED
    BY <1>2, <2>3, <2>4 DEF ServerChange
<1> QED
  BY <1>1, <1>2

LEMMA StoredType ==
  ASSUME NEW s \in RecordSet, NEW p \in ServerChange
  PROVE  Stored(s, p) \in RecordSet
  BY AddType, ConstantTypes DEF Stored, ServerChange

(* Who adds up what was put since some token gets what the server holds.    *)
LEMMA FoldKeeps ==
  ASSUME NEW srv \in RecordSet, NEW s \in RecordSet,
         NEW m \in ServerChange, AnswerOK(srv, m),
         NEW p \in ServerChange, p # Removed => p.exc = {},
         srv = NoRecords /\ p # Removed => Complete(p.inc),
         Agree(srv, Stored(s, m))
  PROVE  Agree(Stored(srv, p), Stored(s, Fold(m, p)))
<1>1. CASE p = Removed
  BY <1>1, FoldIs, AgreeIs, ConstantTypes DEF Stored
<1>2. CASE p # Removed
  <2> DEFINE inc == IF m = Removed THEN NoRecords ELSE m.inc
             F == Fold(m, p)
  <2>1. p \in Diff /\ p.exc = {} /\ p.inc \in RecordSet
    BY <1>2 DEF ServerChange, Diff
  <2>2. F \in Diff /\ F.exc = {} /\ F.inc = RSAdd(inc, p) /\ F # Removed
    <3>1. m # Removed => m.exc = {}
      BY DEF AnswerOK
    <3> QED
      BY <1>2, <2>1, <3>1, FoldIs, RecordSetSyncAssumption
  <2>3. inc \in RecordSet
    BY ConstantTypes DEF ServerChange, Diff
  <2>4. \A k \in Key, f \in Field :
          RSAdd(srv, p)[k][f] = IF p.inc[k][f] = NoChange THEN srv[k][f] ELSE p.inc[k][f]
    BY <2>1, PlainAdd
  <2>5. \A k \in Key, f \in Field :
          F.inc[k][f] = IF p.inc[k][f] = NoChange THEN inc[k][f] ELSE p.inc[k][f]
    BY <2>1, <2>2, <2>3, PlainAdd
  <2> HIDE DEF F, inc
  <2>6. \A k \in Key, f \in Field :
          RSAdd(s, F)[k][f] = IF F.inc[k][f] = NoChange THEN s[k][f] ELSE F.inc[k][f]
    BY <2>2, PlainAdd
  <2>7. ASSUME NEW k \in Key, NEW f \in Unfiltered
        PROVE  RSAdd(srv, p)[k][f] = RSAdd(s, F)[k][f]
    <3>0. f \in Field /\ f \notin Filtered
      BY DEF Unfiltered
    <3>1. CASE m = Removed
      <4>1. p.inc[k][f] # NoChange
        BY <1>2, <3>0, <3>1 DEF AnswerOK, Complete
      <4> QED
        BY <2>4, <2>5, <2>6, <3>0, <4>1
    <3>2. CASE m # Removed
      <4>1. m \in Diff /\ m.exc = {} /\ inc = m.inc
        BY <3>2 DEF AnswerOK, ServerChange, inc
      <4>2. srv[k][f] = RSAdd(s, m)[k][f]
        BY <3>2 DEF Stored, Agree
      <4>3. RSAdd(s, m)[k][f] = IF m.inc[k][f] = NoChange THEN s[k][f] ELSE m.inc[k][f]
        BY <3>0, <4>1, PlainAdd
      <4> QED
        BY <2>4, <2>5, <2>6, <3>0, <4>1, <4>2, <4>3
    <3> QED
      BY <3>1, <3>2
  <2> QED
    BY <1>2, <2>2, <2>7 DEF Agree, Stored, F
<1> QED
  BY <1>1, <1>2

-----------------------------------------------------------------------------
(* The merge.                                                              *)
IsMerge(m) == m.agreed \in RecordSet /\ m.pending \in Diff /\ m.send \in Diff /\ m.apply \in Diff

LEMMA FltIs ==
  ASSUME NEW d \in Diff, Proper(d)
  PROVE  /\ Flt(d) \in Diff /\ Flt(d).exc = d.exc
         /\ \A k \in Key, f \in Field :
              Flt(d).inc[k][f] = IF f \in Filtered THEN NoChange ELSE d.inc[k][f]
  BY FilterProper DEF Flt

LEMMA MergeTypes ==
  ASSUME NEW st, st.agreed \in RecordSet, NEW int \in FullRecordSet, NEW ext \in RecordSet,
         NEW m, m = MergeReadWrite(st, int, ext)
  PROVE  IsMerge(m) /\ IsMerge(AutoResolve(m, int))
<1> DEFINE ncd == NonConflicting(st, int, ext)
<1>1. int \in RecordSet
  BY DEF FullRecordSet
<1>2. ncd \in Diff
  BY <1>1, SubType, SubProper, FltIs, OrType DEF NonConflicting
<1> HIDE DEF ncd
<1>3. m = [agreed |-> RSAdd(st.agreed, ncd),
           pending |-> Flt(RSSub(RSAdd(ext, CleanDiff(ext, ncd)), RSAdd(st.agreed, ncd))),
           send |-> CleanDiff(ext, ncd), apply |-> CleanDiff(int, ncd)]
  BY DEF MergeReadWrite, ncd
<1>4. CleanDiff(ext, ncd) \in Diff /\ CleanDiff(int, ncd) \in Diff
  BY <1>1, <1>2, AddType, SubType DEF CleanDiff
<1>5. RSAdd(st.agreed, ncd) \in RecordSet /\ RSAdd(ext, CleanDiff(ext, ncd)) \in RecordSet
  BY <1>2, <1>4, AddType
<1>6. m.agreed \in RecordSet /\ m.pending \in Diff /\ m.send \in Diff /\ m.apply \in Diff
  BY <1>3, <1>4, <1>5, SubType, SubProper, FltIs
<1>7. \E lost \in RecordSet, won \in RecordSet, kept \in RecordSet :
        Resolution(m, int, AutoResolve(m, int), lost, won, kept)
  BY <1>6, ResolveAt
<1> QED
  BY <1>6, <1>7 DEF Resolution, IsMerge

(* A whole item against what was agreed itself: nothing to apply and no    *)
(* conflict.                                                               *)
LocalOutcome(st, int, m) ==
  /\ m.pending = EmptyDiff /\ m.apply = EmptyDiff
  /\ m.send \in Diff /\ m.send.exc = {}
  /\ Agree(int, m.agreed)
  /\ Agree(int, st.agreed) => m.send = EmptyDiff
  /\ st.agreed = NoRecords => Complete(m.send.inc) /\ m.send # EmptyDiff
  /\ m.agreed \in RecordSet /\ Known(m) = m.agreed /\ RSAdd(st.agreed, m.send) = m.agreed
  /\ (\A k \in Key, f \in Filtered : st.agreed[k][f] = NoChange) => FilterClear(m)

LEMMA LocalChange ==
  ASSUME NEW st, st.agreed \in RecordSet, NEW int \in Whole,
         NEW m, m = MergeReadWrite(st, int, st.agreed)
  PROVE  LocalOutcome(st, int, m)
<1> DEFINE I == RSSub(int, st.agreed)
           X == RSSub(st.agreed, st.agreed)
           ncd == NonConflicting(st, int, st.agreed)
<1>1. int \in RecordSet /\ int \in FullRecordSet /\ Keys(int) = Key
  BY WholeIs DEF Whole
<1>2. \A k \in Key, f \in Field : int[k][f] # NoChange
  BY DEF Whole
<1>3. I \in Diff /\ X \in Diff /\ Proper(I) /\ Proper(X) /\ I.exc = {} /\ X.exc = {}
  BY <1>1, SubType, SubProper DEF RSSub, Keys
<1>4. \A k \in Key, f \in Field :
        /\ I.inc[k][f] = IF int[k][f] = st.agreed[k][f] THEN NoChange ELSE int[k][f]
        /\ X.inc[k][f] = NoChange
  BY <1>1, SubAt
<1>5. /\ Flt(I) \in Diff /\ Flt(X) \in Diff /\ Flt(I).exc = {} /\ Flt(X).exc = {}
      /\ \A k \in Key, f \in Field :
           /\ Flt(I).inc[k][f] = IF f \in Filtered THEN NoChange ELSE I.inc[k][f]
           /\ Flt(X).inc[k][f] = NoChange
  BY <1>3, <1>4, FltIs
<1>6. ncd = DiffOr(Flt(I), Flt(X))
  BY DEF NonConflicting
<1> HIDE DEF I, X, ncd
<1>7. ncd \in Diff /\ ncd.exc = {}
  BY <1>5, <1>6, OrType DEF DiffOr
<1>8. \A k \in Key, f \in Field : ncd.inc[k][f] = Flt(I).inc[k][f]
  <2> SUFFICES ASSUME NEW k \in Key, NEW f \in Field PROVE ncd.inc[k][f] = Flt(I).inc[k][f]
    OBVIOUS
  <2>1. ncd.inc[k] = RecOr(Flt(I).inc[k], Flt(X).inc[k])
    BY <1>5, <1>6 DEF DiffOr
  <2> QED
    BY <1>5, <2>1 DEF RecOr
<1>9. \A k \in Key, f \in Field :
        ncd.inc[k][f] = IF f \in Filtered \/ int[k][f] = st.agreed[k][f] THEN NoChange
                        ELSE int[k][f]
  BY <1>4, <1>5, <1>8
<1>10. RSAdd(int, ncd) = int
  <2>1. \A k \in Key, f \in Field : RSAdd(int, ncd)[k][f] = int[k][f]
    BY <1>1, <1>7, <1>9, PlainAdd
  <2> QED
    BY <1>1, <1>7, <2>1, AddType, RecordSetEquality
<1>11. \A r \in RecordSet : RSSub(r, r) = EmptyDiff
  <2> SUFFICES ASSUME NEW r \in RecordSet PROVE RSSub(r, r) = EmptyDiff
    OBVIOUS
  <2>0. RSSub(r, r).inc \in RecordSet
    BY SubType DEF Diff
  <2>3. \A k \in Key, f \in Field : RSSub(r, r).inc[k][f] = NoRecords[k][f]
    BY SubAt, NothingAdded
  <2>1. RSSub(r, r).inc = NoRecords
    BY <2>0, <2>3, RecordSetEquality, ConstantTypes
  <2>2. RSSub(r, r) = [inc |-> RSSub(r, r).inc, exc |-> {}]
    BY DEF RSSub
  <2> QED
    BY <2>1, <2>2 DEF EmptyDiff
<1>12. m = [agreed |-> RSAdd(st.agreed, ncd),
            pending |-> Flt(RSSub(RSAdd(st.agreed, m.send), RSAdd(st.agreed, ncd))),
            send |-> RSSub(RSAdd(st.agreed, ncd), st.agreed),
            apply |-> RSSub(RSAdd(int, ncd), int)]
  BY DEF MergeReadWrite, CleanDiff, ncd
<1>13. m.apply = EmptyDiff
  BY <1>1, <1>10, <1>11, <1>12
<1>14. RSAdd(st.agreed, ncd) \in RecordSet /\ m.send \in Diff
  BY <1>7, <1>12, AddType, SubType
<1>15. RSAdd(st.agreed, m.send) = RSAdd(st.agreed, ncd)
  BY <1>7, <1>12, CleanAdd
<1>16. m.pending = EmptyDiff
  <2>1. m.pending = Flt(EmptyDiff)
    BY <1>11, <1>12, <1>14, <1>15
  <2>2. Flt(EmptyDiff).exc = {} /\ Flt(EmptyDiff) \in Diff
    BY FltIs, ConstantTypes, NothingAdded DEF Proper
  <2>3. \A k \in Key, f \in Field : Flt(EmptyDiff).inc[k][f] = NoRecords[k][f]
    BY FltIs, ConstantTypes, NothingAdded DEF Proper
  <2>4. Flt(EmptyDiff).inc = NoRecords
    BY <2>2, <2>3, RecordSetEquality, ConstantTypes DEF Diff
  <2> QED
    BY <2>1, <2>2, <2>4 DEF EmptyDiff, Diff
<1>17. \A k \in Key, f \in Field :
         RSAdd(st.agreed, ncd)[k][f] = IF ncd.inc[k][f] = NoChange THEN st.agreed[k][f]
                                       ELSE ncd.inc[k][f]
  BY <1>7, PlainAdd
<1>18. m.send.exc = {}
  <2>1. \A k \in Key : st.agreed[k] # Blank => RSAdd(st.agreed, ncd)[k] # Blank
    <3> SUFFICES ASSUME NEW k \in Key, st.agreed[k] # Blank PROVE RSAdd(st.agreed, ncd)[k] # Blank
      OBVIOUS
    <3> QED
      BY <1>14, <1>17, RecordAt
  <2>2. m.send = RSSub(RSAdd(st.agreed, ncd), st.agreed)
    BY <1>12
  <2>3. m.send.exc = Keys(st.agreed) \ Keys(RSAdd(st.agreed, ncd))
    BY <2>2 DEF RSSub
  <2> QED
    BY <2>1, <2>3 DEF Keys
<1>19. Agree(int, m.agreed)
  <2>1. m.agreed = RSAdd(st.agreed, ncd)
    BY <1>12
  <2>2. ASSUME NEW k \in Key, NEW f \in Unfiltered
        PROVE  int[k][f] = RSAdd(st.agreed, ncd)[k][f]
    <3>1. f \in Field /\ f \notin Filtered
      BY DEF Unfiltered
    <3> QED
      BY <1>2, <1>9, <1>17, <3>1
  <2> QED
    BY <2>1, <2>2 DEF Agree
<1>20. ASSUME Agree(int, st.agreed) PROVE m.send = EmptyDiff
  <2>1. \A k \in Key, f \in Field : RSAdd(st.agreed, ncd)[k][f] = st.agreed[k][f]
    BY <1>9, <1>17, <1>20 DEF Agree, Unfiltered
  <2>2. RSAdd(st.agreed, ncd) = st.agreed
    BY <1>14, <2>1, RecordSetEquality
  <2> QED
    BY <1>11, <1>12, <2>2
<1>21. ASSUME st.agreed = NoRecords PROVE Complete(m.send.inc) /\ m.send # EmptyDiff
  <2>1. \A k \in Key, f \in Field :
          m.send.inc[k][f] = IF RSAdd(st.agreed, ncd)[k][f] = st.agreed[k][f] THEN NoChange
                             ELSE RSAdd(st.agreed, ncd)[k][f]
    BY <1>12, <1>14, SubAt
  <2>2. \A k \in Key, f \in Field : st.agreed[k][f] = NoChange
    BY <1>21, NothingAdded
  <2>3. Complete(m.send.inc)
    BY <1>2, <1>9, <1>17, <2>1, <2>2 DEF Complete
  <2> QED
    BY <2>3, NotComplete, NothingAdded
<1>22. m.agreed = RSAdd(st.agreed, ncd)
  BY <1>12
<1>23. ASSUME \A k \in Key, f \in Filtered : st.agreed[k][f] = NoChange
       PROVE  FilterClear(m)
  <2>1. \A k \in Key, f \in Field : m.pending.inc[k][f] = NoChange
    BY <1>16, NothingAdded
  <2>2. Filtered \subseteq Field
    BY StateMergeAssumption
  <2> QED
    BY <1>9, <1>17, <1>22, <1>23, <2>1, <2>2 DEF FilterClear
<1>24. Known(m) = m.agreed
  BY <1>14, <1>16, <1>22, NothingAdded DEF Known
<1> QED
  BY <1>13, <1>14, <1>15, <1>16, <1>18, <1>19, <1>20, <1>21, <1>22, <1>23, <1>24
     DEF LocalOutcome

(* A merge with records of the server deletes nothing, and with nothing left *)
(* pending the item is as agreed.                                          *)
LEMMA MergeOutcome ==
  ASSUME NEW st, st.agreed \in RecordSet, \A k \in Key, f \in Filtered : st.agreed[k][f] = NoChange,
         NEW int \in FullRecordSet, int \in Whole \/ st.agreed = NoRecords,
         NEW ext \in RecordSet, Complete(ext),
         NEW m, m = MergeReadWrite(st, int, ext),
         NEW r \in {m, AutoResolve(m, int)}
  PROVE  /\ IsMerge(r) /\ FilterClear(r)
         /\ r.pending.exc = {} /\ r.send.exc = {} /\ r.apply.exc = {}
         /\ Complete(Known(r)) /\ Agree(Known(r), RSAdd(ext, r.send))
         /\ r.pending = EmptyDiff => Agree(Applied(r, int), r.agreed)
<1> DEFINE ncd == NonConflicting(st, int, ext)
           a == AutoResolve(m, int)
<1>1. int \in RecordSet /\ SaysAll(ext) /\ Keys(ext) = Key
  BY CompleteKeys DEF FullRecordSet, SaysAll, Complete, Unfiltered, Keys
<1>2. MergeGood(m, ext) /\ MergeGood(a, ext)
  <2>1. MergeGood(m, ext)
    BY <1>1, MergeFacts
  <2> QED
    BY <2>1, AutoResolveFacts
<1>3. IsMerge(m) /\ IsMerge(a)
  BY MergeTypes
<1>4. Keys(st.agreed) \subseteq Keys(int) \cap Keys(ext)
  <2>1. CASE int \in Whole
    BY <1>1, <2>1, WholeIs DEF Keys
  <2>2. CASE st.agreed = NoRecords
    BY <2>2 DEF Keys, NoRecords
  <2> QED
    BY <2>1, <2>2
<1>5. ncd \in Diff /\ ncd.exc = {}
  <2>1. /\ RSSub(int, st.agreed) \in Diff /\ Proper(RSSub(int, st.agreed))
        /\ RSSub(ext, st.agreed) \in Diff /\ Proper(RSSub(ext, st.agreed))
    BY <1>1, SubType, SubProper
  <2>2. RSSub(int, st.agreed).exc = {} /\ RSSub(ext, st.agreed).exc = {}
    BY <1>4 DEF RSSub
  <2>3. Flt(RSSub(int, st.agreed)).exc = {} /\ Flt(RSSub(ext, st.agreed)).exc = {}
    BY <2>1, <2>2, FltIs
  <2> QED
    BY <1>1, <2>3, NcdFacts DEF NonConflicting, DiffOr
<1>6. /\ m.send = RSSub(RSAdd(ext, ncd), ext)
      /\ m.apply = RSSub(RSAdd(int, ncd), int)
      /\ m.pending = Flt(RSSub(RSAdd(ext, m.send), RSAdd(st.agreed, ncd)))
  BY DEF MergeReadWrite, CleanDiff
<1> HIDE DEF ncd
<1>7. ASSUME NEW x \in RecordSet PROVE RSSub(RSAdd(x, ncd), x).exc = {}
  <2>1. ASSUME NEW k \in Key, x[k] # Blank PROVE RSAdd(x, ncd)[k] # Blank
    <3>1. RSAdd(x, ncd) \in RecordSet
      BY <1>5, AddType
    <3>2. \A f \in Field : RSAdd(x, ncd)[k][f] = IF ncd.inc[k][f] = NoChange THEN x[k][f]
                                                 ELSE ncd.inc[k][f]
      BY <1>5, PlainAdd
    <3>3. \E f \in Field : x[k][f] # NoChange
      BY <2>1, RecordAt
    <3> QED
      BY <3>1, <3>2, <3>3, RecordAt
  <2> QED
    BY <2>1 DEF RSSub, Keys
<1>8. m.send.exc = {} /\ m.apply.exc = {}
  BY <1>1, <1>6, <1>7
<1>9. m.pending.exc = {}
  <2>1. RSAdd(ext, m.send) \in RecordSet /\ RSAdd(st.agreed, ncd) \in RecordSet
    BY <1>3, <1>5, AddType DEF IsMerge
  <2>2. Complete(RSAdd(ext, m.send))
    BY <1>3, <1>8, PlainAdd DEF IsMerge
  <2>3. Keys(RSAdd(ext, m.send)) = Key
    BY <2>1, <2>2, CompleteKeys
  <2>4. RSSub(RSAdd(ext, m.send), RSAdd(st.agreed, ncd)).exc = {}
    BY <2>3 DEF RSSub, Keys
  <2> QED
    BY <1>6, <2>1, <2>4, SubType, SubProper, FltIs
<1>10. a.pending.exc = {} /\ a.send.exc = {} /\ a.apply.exc = {}
  <2>1. \E lost \in RecordSet, won \in RecordSet, kept \in RecordSet :
          Resolution(m, int, a, lost, won, kept)
    BY <1>3, ResolveAt DEF IsMerge
  <2> QED
    BY <1>8, <1>9, <2>1 DEF Resolution
<1>11. \A k \in Key : Honest(m, st, int, ext, k) /\ Honest(a, st, int, ext, k)
  <2> SUFFICES ASSUME NEW k \in Key
               PROVE  Honest(m, st, int, ext, k) /\ Honest(a, st, int, ext, k)
    OBVIOUS
  <2>1. Honest(m, st, int, ext, k) /\ Cautious(m, st, int, ext, k)
    BY <1>1, HonestMerge
  <2> QED
    BY <1>2, <2>1, HonestResolve
<1> HIDE DEF a
<1>12. /\ MergeGood(r, ext) /\ IsMerge(r)
       /\ r.pending.exc = {} /\ r.send.exc = {} /\ r.apply.exc = {}
       /\ \A k \in Key : Honest(r, st, int, ext, k)
  BY <1>2, <1>3, <1>8, <1>9, <1>10, <1>11 DEF a
<1>13. Complete(Known(r)) /\ Agree(Known(r), RSAdd(ext, r.send))
  <2>1. Known(r) \in RecordSet /\ RSAdd(ext, r.send) \in RecordSet
    BY <1>12, KnownType, AddType DEF IsMerge
  <2>2. Complete(RSAdd(ext, r.send))
    BY <1>12, PlainAdd DEF IsMerge
  <2> QED
    BY <1>12, <2>1, <2>2, AgreeIs DEF MergeGood
<1>14. ASSUME r.pending = EmptyDiff PROVE Agree(Applied(r, int), r.agreed)
  <2>1. ASSUME NEW k \in Key, NEW f \in Unfiltered
        PROVE  Applied(r, int)[k][f] = r.agreed[k][f]
    <3>1. r.pending.inc[k] = Blank /\ r.pending.inc[k][f] = NoChange /\ r.pending.exc = {}
      BY <1>14, NothingAdded DEF NoRecords, Unfiltered
    <3>2. ~Tells(r, int, k, f)
      BY <3>1 DEF Tells
    <3> QED
      BY <1>12, <2>1, <3>2 DEF Honest
  <2> QED
    BY <2>1 DEF Agree
<1> QED
  BY <1>12, <1>13, <1>14 DEF MergeGood

LEMMA PeerAlone ==
  ASSUME NEW st, st.agreed = NoRecords, NEW ext \in RecordSet, Complete(ext),
         NEW m, m = MergeReadWrite(st, NoRecords, ext)
  PROVE  m.apply # EmptyDiff /\ Complete(RSAdd(NoRecords, m.apply))
<1> DEFINE ncd == NonConflicting(st, NoRecords, ext)
           N == Flt(RSSub(NoRecords, NoRecords))
           X == Flt(RSSub(ext, NoRecords))
<1>1. NoRecords \in RecordSet /\ \A k \in Key, f \in Field : NoRecords[k][f] = NoChange
  BY ConstantTypes, NothingAdded
<1>2. /\ N \in Diff /\ X \in Diff /\ X.exc = {} /\ N.exc = {}
      /\ \A k \in Key, f \in Field :
           /\ N.inc[k][f] = NoChange
           /\ X.inc[k][f] = IF f \in Filtered THEN NoChange ELSE ext[k][f]
  <2>1. Keys(NoRecords) = {}
    BY DEF Keys, NoRecords
  <2>2. RSSub(ext, NoRecords).exc = {} /\ RSSub(NoRecords, NoRecords).exc = {}
    BY <2>1 DEF RSSub
  <2>3. /\ RSSub(ext, NoRecords) \in Diff /\ RSSub(NoRecords, NoRecords) \in Diff
        /\ Proper(RSSub(ext, NoRecords)) /\ Proper(RSSub(NoRecords, NoRecords))
    BY <1>1, SubType, SubProper
  <2>4. \A k \in Key, f \in Field :
          /\ RSSub(NoRecords, NoRecords).inc[k][f] = NoChange
          /\ RSSub(ext, NoRecords).inc[k][f] = ext[k][f]
    BY <1>1, SubAt
  <2> QED
    BY <2>2, <2>3, <2>4, FltIs
<1>3. ncd = DiffOr(N, X)
  BY DEF NonConflicting
<1> HIDE DEF N, X, ncd
<1>4. ncd \in Diff /\ ncd.exc = {}
  BY <1>2, <1>3, OrType DEF DiffOr
<1>5. ASSUME NEW k \in Key, NEW f \in Field PROVE ncd.inc[k][f] = X.inc[k][f]
  <2>1. ncd.inc[k] = RecOr(N.inc[k], X.inc[k])
    BY <1>2, <1>3 DEF DiffOr
  <2> QED
    BY <1>2, <2>1 DEF RecOr
<1>6. m.apply = RSSub(RSAdd(NoRecords, ncd), NoRecords)
  BY DEF MergeReadWrite, CleanDiff, ncd
<1>7. RSAdd(NoRecords, m.apply) = RSAdd(NoRecords, ncd)
  BY <1>1, <1>4, <1>6, CleanAdd
<1>8. Complete(RSAdd(NoRecords, ncd))
  BY <1>1, <1>2, <1>4, <1>5, PlainAdd DEF Complete
<1>9. m.apply # EmptyDiff
  BY <1>1, <1>7, <1>8, NothingAdded, NotComplete
<1> QED
  BY <1>7, <1>8, <1>9

(* importRecords leaves a whole item.                                      *)
Imported(local, apply) == IF apply = EmptyDiff THEN local ELSE Import(local, apply)

LEMMA ImportedIs ==
  ASSUME NEW local \in FullRecordSet, NEW apply \in Diff
  PROVE  /\ Imported(local, apply) \in FullRecordSet
         /\ Complete(RSAdd(local, apply)) =>
              /\ Agree(Imported(local, apply), RSAdd(local, apply))
              /\ apply # EmptyDiff => Imported(local, apply) \in Whole
         /\ local \in Whole /\ apply.exc = {} =>
              /\ Imported(local, apply) \in Whole /\ Complete(RSAdd(local, apply))
<1> DEFINE new == RSAdd(local, apply)
<1>1. local \in RecordSet /\ new \in RecordSet
  BY AddType DEF FullRecordSet
<1>2. \A k \in Key :
        /\ Import(local, apply)[k] = Blank <=> new[k] = Blank
        /\ \A f \in Field :
             Import(local, apply)[k][f] = IF new[k] # Blank /\ new[k][f] = NoChange
                                          THEN None ELSE new[k][f]
  BY <1>1, ImportAt
<1>3. Imported(local, apply) \in FullRecordSet
  BY ImportType DEF Imported
<1>4. None # NoChange
  BY StateMergeAssumption, NoChangeAssumption
<1>5. apply = EmptyDiff => Imported(local, apply) = new
  BY <1>1, NothingAdded DEF Imported
<1>6. ASSUME Complete(new)
      PROVE  /\ Agree(Imported(local, apply), new)
             /\ apply # EmptyDiff => Imported(local, apply) \in Whole
  <2>1. Keys(new) = Key
    BY <1>1, <1>6, CompleteKeys
  <2>2. CASE apply = EmptyDiff
    BY <1>1, <1>5, <2>2, AgreeIs
  <2>3. CASE apply # EmptyDiff
    <3>1. Imported(local, apply) = Import(local, apply)
      BY <2>3 DEF Imported
    <3>2. \A k \in Key, f \in Field : Import(local, apply)[k][f] # NoChange
      BY <1>2, <1>4, <2>1 DEF Keys
    <3>3. Imported(local, apply) \in Whole
      BY <1>3, <3>1, <3>2 DEF Whole, FullRecordSet
    <3>4. Agree(Import(local, apply), new)
      BY <1>2, <1>6 DEF Agree, Complete, Unfiltered
    <3> QED
      BY <3>1, <3>3, <3>4
  <2> QED
    BY <2>2, <2>3
<1>7. ASSUME local \in Whole, apply.exc = {}
      PROVE  Imported(local, apply) \in Whole /\ Complete(new)
  <2>1. Complete(new)
    BY <1>1, <1>7, WholeIs, PlainAdd
  <2> QED
    BY <1>6, <1>7, <2>1 DEF Imported
<1> QED
  BY <1>3, <1>6, <1>7

-----------------------------------------------------------------------------
(* One run of the sync over a view v, by what it gets: the working record   *)
(* step by step, and what is left of it in the view.                        *)
Work(item, local, state, changed, inbound, apply, send, removed, forget, withheld) ==
  [item |-> item, local |-> local, state |-> state, changed |-> changed,
   inbound |-> inbound, apply |-> apply, send |-> send,
   removed |-> removed, forget |-> forget, withheld |-> withheld]

Result(v, rs, item, local, state, send, forget, withheld, apply) ==
  [v EXCEPT !.phase = "got", !.fetched = Fold(@, rs), !.item = item, !.local = local,
            !.state = state, !.send = send, !.forget = forget, !.withheld = withheld,
            !.applied = @ \/ apply # EmptyDiff, !.moved = @ \/ item # v.item]

Reset(st) == [st EXCEPT !.agreed = NoRecords, !.pending = EmptyDiff, !.removal = FALSE]

(* The updates that Receive makes of a part of the working record.          *)
LEMMA UpdateParts ==
  ASSUME NEW w, NEW x
  PROVE  /\ [w EXCEPT !.inbound = x, !.state.removal = FALSE]
              = [w EXCEPT !.inbound = x, !.state = [w.state EXCEPT !.removal = FALSE]]
         /\ [w EXCEPT !.inbound = x, !.state.agreed = NoRecords, !.state.pending = EmptyDiff,
                      !.state.removal = FALSE]
              = [w EXCEPT !.inbound = x, !.state = Reset(w.state)]
         /\ [w EXCEPT !.removed = x, !.state.pending = EmptyDiff]
              = [w EXCEPT !.removed = x, !.state = [w.state EXCEPT !.pending = EmptyDiff]]
  BY DEF Reset

LEMMA StateParts ==
  ASSUME NEW st \in SyncState
  PROVE  /\ st = [agreed |-> st.agreed, pending |-> st.pending, removal |-> st.removal,
                  exists |-> st.exists, new |-> st.new]
         /\ \A z : [st EXCEPT !.removal = z] =
              [agreed |-> st.agreed, pending |-> st.pending, removal |-> z,
               exists |-> st.exists, new |-> st.new]
         /\ \A y : [st EXCEPT !.pending = y] =
              [agreed |-> st.agreed, pending |-> y, removal |-> st.removal,
               exists |-> st.exists, new |-> st.new]
         /\ Reset(st) = [agreed |-> NoRecords, pending |-> EmptyDiff, removal |-> FALSE,
                         exists |-> st.exists, new |-> st.new]
<1> DEFINE Con(a, p, r, e, n) ==
             [agreed |-> a, pending |-> p, removal |-> r, exists |-> e, new |-> n]
<1>1. st = Con(st.agreed, st.pending, st.removal, st.exists, st.new)
  BY DEF SyncState
<1>2. ASSUME NEW a, NEW p, NEW r, NEW e, NEW n, NEW x
      PROVE  [Con(a, p, r, e, n) EXCEPT !.agreed = x] = Con(x, p, r, e, n)
  OBVIOUS
<1>3. ASSUME NEW a, NEW p, NEW r, NEW e, NEW n, NEW y
      PROVE  [Con(a, p, r, e, n) EXCEPT !.pending = y] = Con(a, y, r, e, n)
  OBVIOUS
<1>4. ASSUME NEW a, NEW p, NEW r, NEW e, NEW n, NEW z
      PROVE  [Con(a, p, r, e, n) EXCEPT !.removal = z] = Con(a, p, z, e, n)
  OBVIOUS
<1> HIDE DEF Con
<1>5. Reset(st) = Con(NoRecords, EmptyDiff, FALSE, st.exists, st.new)
  <2> DEFINE no == FALSE
             s1 == [st EXCEPT !.agreed = NoRecords]
             s2 == [s1 EXCEPT !.pending = EmptyDiff]
             s3 == [s2 EXCEPT !.removal = no]
  <2>1. Reset(st) = s3
    BY Zenon DEF Reset
  <2>2. s1 = Con(NoRecords, st.pending, st.removal, st.exists, st.new)
    BY <1>1, <1>2
  <2> HIDE DEF s1
  <2>3. s2 = Con(NoRecords, EmptyDiff, st.removal, st.exists, st.new)
    BY <1>3, <2>2
  <2> HIDE DEF s2, no
  <2>4. s3 = Con(NoRecords, EmptyDiff, no, st.exists, st.new)
    BY <1>4, <2>3
  <2> HIDE DEF s3
  <2>5. Reset(st) = Con(NoRecords, EmptyDiff, no, st.exists, st.new)
    BY <2>1, <2>4
  <2> QED
    BY <2>5, Zenon DEF no
<1>6. \A z : [st EXCEPT !.removal = z] = Con(st.agreed, st.pending, z, st.exists, st.new)
  BY <1>1, <1>4
<1>7. \A y : [st EXCEPT !.pending = y] = Con(st.agreed, y, st.removal, st.exists, st.new)
  BY <1>1, <1>3
<1> QED
  BY <1>1, <1>5, <1>6, <1>7, Zenon DEF Con

LEMMA FetchedIs ==
  ASSUME NEW v, NEW rs, NEW item, NEW local, NEW state, NEW changed, NEW inbound, NEW apply,
         NEW send, NEW removed, NEW forget, NEW withheld,
         ReviewState(RemoveRemoved(ApplyInbound(ConflictOnRemoval(MergeItem(Receive(Start(v), rs))))))
           = Work(item, local, state, changed, inbound, apply, send, removed, forget, withheld)
  PROVE  Fetched(v, rs) = Result(v, rs, item, local, state, send, forget, withheld, apply)
  BY DEF Fetched, Work, Result

(* What the merge sees of the item, and its result.                         *)
Internal(v) == IF v.item = "gone" THEN NoRecords ELSE v.local
BaseOf(v) == [agreed |-> IF v.item = "gone" THEN NoRecords ELSE v.state.agreed]
MergedBy(v, rs) == MergeReadWrite(BaseOf(v), Internal(v), RSAdd(Known(v.state), rs))
TakenBy(v, rs) ==
  IF MergedBy(v, rs).pending = EmptyDiff \/ v.item = "gone" THEN MergedBy(v, rs)
  ELSE AutoResolve(MergedBy(v, rs), Internal(v))

Takes(v, rs) ==
  IF v.item = "gone" THEN Arrived(rs) /\ RSAdd(Known(v.state), rs) # NoRecords
  ELSE Arrived(rs) \/ (v.changed /\ v.item = "in" /\ ~v.state.removal)

LEMMA MergeBase ==
  ASSUME NEW st, NEW base, st.agreed = base.agreed, NEW int, NEW ext
  PROVE  MergeReadWrite(st, int, ext) = MergeReadWrite(base, int, ext)
  BY DEF MergeReadWrite, NonConflicting

(* The run merges: whether the item takes part, enters, or is removed at the *)
(* server is left to tell.                                                 *)
Enters(v, rs, r) == Arrived(rs) /\ (v.state.new \/ ~v.state.exists \/ r.apply # EmptyDiff)
TakenState(v, r) ==
  [agreed |-> r.agreed, pending |-> r.pending, removal |-> FALSE, exists |-> TRUE,
   new |-> v.state.new \/ ~v.state.exists]
MergedItem(v, rs, r) == IF Enters(v, rs, r) THEN "in" ELSE v.item
Leaves(v, rs, r) == ~EmptyState(TakenState(v, r)) /\ MergedItem(v, rs, r) # "in"

MergedResult(v, rs, r) ==
  Result(v, rs, MergedItem(v, rs, r), Imported(v.local, r.apply), TakenState(v, r),
         IF Leaves(v, rs, r)
           THEN IF v.state.new \/ ~v.state.exists THEN EmptyDiff ELSE Removed
           ELSE r.send,
         EmptyState(TakenState(v, r)) \/ Leaves(v, rs, r),
         Leaves(v, rs, r) /\ r.send # EmptyDiff,
         r.apply)

LEMMA RunMerged ==
  ASSUME NEW v \in SyncView, NEW rs \in Diff, Takes(v, rs)
  PROVE  Fetched(v, rs) = MergedResult(v, rs, TakenBy(v, rs))
<1> DEFINE gone == v.item = "gone"
           X == RSAdd(Known(v.state), rs)
           r == TakenBy(v, rs)
           new == v.state.new \/ ~v.state.exists
           st1 == IF Arrived(rs)
                  THEN IF gone THEN [v.state EXCEPT !.agreed = NoRecords, !.pending = EmptyDiff,
                                                    !.removal = FALSE]
                       ELSE [v.state EXCEPT !.removal = FALSE]
                  ELSE v.state
           inb == IF Arrived(rs) /\ gone THEN AsDiff(X) ELSE rs
           w1 == Work(v.item, v.local, st1, v.changed, inb, EmptyDiff, EmptyDiff,
                      FALSE, FALSE, FALSE)
           w2 == Work(v.item, v.local, TakenState(v, r), v.changed, inb, r.apply, r.send,
                      FALSE, FALSE, FALSE)
           item == MergedItem(v, rs, r)
           w4 == Work(item, Imported(v.local, r.apply), TakenState(v, r), v.changed, inb,
                      r.apply, r.send, FALSE, FALSE, FALSE)
<1>1. /\ v.state \in SyncState /\ v.state.agreed \in RecordSet /\ v.state.pending \in Diff
      /\ Known(v.state) \in RecordSet /\ X \in RecordSet
  <2>1. v.state \in SyncState
    BY DEF SyncView
  <2>2. v.state.agreed \in RecordSet /\ v.state.pending \in Diff
    BY <2>1 DEF SyncState
  <2> QED
    BY <2>1, <2>2, KnownType, AddType
<1>2. rs # Removed /\ (~Arrived(rs) => rs = EmptyDiff) /\ (gone => Arrived(rs))
  BY RecordSetSyncAssumption DEF Arrived, Takes
<1>16. /\ ~Arrived(rs) => st1 = v.state /\ inb = rs
       /\ Arrived(rs) /\ gone =>
            /\ st1 = [agreed |-> NoRecords, pending |-> EmptyDiff, removal |-> FALSE,
                      exists |-> v.state.exists, new |-> v.state.new]
            /\ inb = AsDiff(X)
       /\ Arrived(rs) /\ ~gone =>
            /\ st1 = [agreed |-> v.state.agreed, pending |-> v.state.pending, removal |-> FALSE,
                      exists |-> v.state.exists, new |-> v.state.new]
            /\ inb = rs
  BY <1>1 DEF SyncState
<1>17. v.state = [agreed |-> v.state.agreed, pending |-> v.state.pending,
                  removal |-> v.state.removal, exists |-> v.state.exists, new |-> v.state.new]
  BY <1>1 DEF SyncState
<1> HIDE DEF st1, inb
<1>3. Receive(Start(v), rs) = w1
  <2>1. Start(v) = Work(v.item, v.local, v.state, v.changed, EmptyDiff, EmptyDiff, EmptyDiff,
                        FALSE, FALSE, FALSE)
    BY DEF Start, Work
  <2>2. CASE ~Arrived(rs)
    BY <1>2, <1>16, <2>1, <2>2 DEF Receive, Work
  <2>3. CASE Arrived(rs) /\ gone
    <3> DEFINE S == [agreed |-> NoRecords, pending |-> EmptyDiff, removal |-> FALSE,
                     exists |-> v.state.exists, new |-> v.state.new]
    <3>1. Receive(Start(v), rs) =
            [Start(v) EXCEPT !.inbound = AsDiff(RSAdd(Known(Start(v).state), rs)),
                             !.state.agreed = NoRecords,
                             !.state.pending = EmptyDiff, !.state.removal = FALSE]
      BY <1>2, <2>3, <2>1 DEF Receive, Work
    <3>2. Start(v).state = v.state
      BY DEF Start
    <3>7. AsDiff(RSAdd(Known(Start(v).state), rs)) = AsDiff(X)
      BY <3>2
    <3>5. Reset(v.state) = S
      BY <1>1, StateParts, Zenon DEF S
    <3> HIDE DEF S, X
    <3>4. Receive(Start(v), rs) =
            [Start(v) EXCEPT !.inbound = AsDiff(X), !.state = Reset(Start(v).state)]
      <4> DEFINE x == AsDiff(RSAdd(Known(Start(v).state), rs))
      <4>1. Receive(Start(v), rs) =
              [Start(v) EXCEPT !.inbound = x, !.state = Reset(Start(v).state)]
        BY <3>1, UpdateParts
      <4> HIDE DEF x
      <4> QED
        BY <3>7, <4>1 DEF x
    <3>6. Receive(Start(v), rs) =
            [Work(v.item, v.local, v.state, v.changed, EmptyDiff, EmptyDiff, EmptyDiff,
                  FALSE, FALSE, FALSE) EXCEPT !.inbound = AsDiff(X), !.state = S]
      BY <2>1, <3>2, <3>4, <3>5
    <3>3. Receive(Start(v), rs) = Work(v.item, v.local, S, v.changed, AsDiff(X),
                                       EmptyDiff, EmptyDiff, FALSE, FALSE, FALSE)
      BY <3>6 DEF Work
    <3> QED
      BY <1>16, <2>3, <3>3 DEF S
  <2>4. CASE Arrived(rs) /\ ~gone
    <3> DEFINE S == [agreed |-> v.state.agreed, pending |-> v.state.pending, removal |-> FALSE,
                     exists |-> v.state.exists, new |-> v.state.new]
    <3>1. Receive(Start(v), rs) = [Start(v) EXCEPT !.inbound = rs, !.state.removal = FALSE]
      BY <1>2, <2>4, <2>1 DEF Receive, Work
    <3>3. Start(v).state = v.state
      BY DEF Start
    <3>4. [v.state EXCEPT !.removal = FALSE] = S
      BY <1>1, StateParts, Zenon DEF S
    <3> HIDE DEF S
    <3>6. Receive(Start(v), rs) =
            [Start(v) EXCEPT !.inbound = rs, !.state = [Start(v).state EXCEPT !.removal = FALSE]]
      BY <3>1, UpdateParts
    <3>5. Receive(Start(v), rs) =
            [Work(v.item, v.local, v.state, v.changed, EmptyDiff, EmptyDiff, EmptyDiff,
                  FALSE, FALSE, FALSE) EXCEPT !.inbound = rs, !.state = S]
      BY <2>1, <3>3, <3>4, <3>6
    <3>2. Receive(Start(v), rs) = Work(v.item, v.local, S, v.changed, rs,
                                       EmptyDiff, EmptyDiff, FALSE, FALSE, FALSE)
      BY <3>5 DEF Work
    <3> QED
      BY <1>16, <2>4, <3>2 DEF S
  <2> QED
    BY <2>2, <2>3, <2>4
<1>4. /\ w1.item = v.item /\ w1.local = v.local /\ w1.state = st1 /\ w1.changed = v.changed
      /\ w1.inbound = inb /\ w1.apply = EmptyDiff /\ w1.send = EmptyDiff
  BY DEF Work
<1>5. gone => Arrived(inb)
  <2> SUFFICES ASSUME gone PROVE Arrived(inb)
    OBVIOUS
  <2>1. inb = AsDiff(X) /\ X # NoRecords
    BY <1>2, <1>16 DEF Takes
  <2>2. AsDiff(X) \in Diff /\ AsDiff(X) # EmptyDiff
    BY <1>1, <2>1, ConstantTypes DEF AsDiff, EmptyDiff
  <2> QED
    BY <2>1, <2>2, RecordSetSyncAssumption DEF Arrived
<1>6. ~gone => inb = rs
  BY <1>16
<1>7. Exported(w1) <=> ~gone
  <2>0. Exported(w1) <=> ~gone /\ (Arrived(inb) \/ (v.changed /\ v.item = "in" /\ ~st1.removal))
    BY <1>4 DEF Exported
  <2>1. CASE gone
    BY <2>0, <2>1
  <2>2. CASE ~gone
    <3>1. Arrived(inb) \/ (v.changed /\ v.item = "in" /\ ~st1.removal)
      BY <1>6, <1>16, <2>2 DEF Takes
    <3> QED
      BY <2>0, <2>2, <3>1
  <2> QED
    BY <2>1, <2>2
<1>8. /\ st1.agreed = BaseOf(v).agreed
      /\ ~gone => Known(st1) = Known(v.state)
      /\ gone => st1.agreed = NoRecords /\ st1.pending = EmptyDiff
      /\ st1.new = v.state.new /\ st1.exists = v.state.exists
  BY <1>2, <1>16 DEF BaseOf, Known
<1>9. ExternalByDiff(st1, inb) = X
  <2>1. CASE gone
    BY <1>1, <1>2, <1>8, <1>16, <2>1, NothingAdded, ConstantTypes DEF ExternalByDiff, Known
  <2>2. CASE ~gone
    BY <1>6, <1>8, <2>2 DEF ExternalByDiff
  <2> QED
    BY <2>1, <2>2
<1>10. MergeItem(w1) = w2
  <2> DEFINE int == IF Exported(w1) THEN w1.local ELSE NoRecords
             merged == MergeReadWrite(w1.state, int, ExternalByDiff(w1.state, w1.inbound))
             m == IF merged.pending = EmptyDiff \/ w1.item = "gone" THEN merged
                  ELSE AutoResolve(merged, int)
  <2>1. int = Internal(v)
    BY <1>4, <1>7 DEF Internal
  <2>2. merged = MergedBy(v, rs)
    <3>1. merged = MergeReadWrite(st1, Internal(v), X)
      BY <1>4, <1>9, <2>1
    <3>2. MergeReadWrite(st1, Internal(v), X) = MergeReadWrite(BaseOf(v), Internal(v), X)
      BY <1>8, MergeBase
    <3> QED
      BY <3>1, <3>2 DEF MergedBy
  <2>3. m = r
    BY <1>4, <2>1, <2>2 DEF TakenBy
  <2>4. Exported(w1) \/ Arrived(w1.inbound)
    BY <1>4, <1>5, <1>7
  <2>5. MergeItem(w1) =
          [w1 EXCEPT !.state = [agreed |-> m.agreed, pending |-> m.pending, removal |-> FALSE,
                                exists |-> TRUE, new |-> w1.state.new \/ ~w1.state.exists],
                     !.send = m.send, !.apply = m.apply]
    BY <2>4 DEF MergeItem
  <2> HIDE DEF m, r
  <2>6. [agreed |-> m.agreed, pending |-> m.pending, removal |-> FALSE,
         exists |-> TRUE, new |-> w1.state.new \/ ~w1.state.exists] = TakenState(v, r)
    BY <1>4, <1>8, <2>3 DEF TakenState
  <2>7. [w1 EXCEPT !.state = TakenState(v, r), !.send = r.send, !.apply = r.apply] = w2
    <3> DEFINE st2 == TakenState(v, r)
    <3> HIDE DEF st1, inb, st2
    <3> DEFINE a == v.item
               b == v.local
               c == v.changed
               ap == r.apply
               sd == r.send
               no == FALSE
               yes == TRUE
    <3>0. w1 = Work(a, b, st1, c, inb, EmptyDiff, EmptyDiff, no, no, no)
      BY Zenon DEF w1
    <3> HIDE DEF w1, a, b, c, ap, sd, no, yes
    <3> DEFINE wa == [w1 EXCEPT !.state = st2]
               wb == [wa EXCEPT !.send = sd]
    <3>1. wa = Work(a, b, st2, c, inb, EmptyDiff, EmptyDiff, no, no, no)
      BY <3>0 DEF Work
    <3> HIDE DEF wa
    <3>2. wb = Work(a, b, st2, c, inb, EmptyDiff, sd, no, no, no)
      BY <3>1 DEF Work
    <3> HIDE DEF wb
    <3>3. [wb EXCEPT !.apply = ap] = Work(a, b, st2, c, inb, ap, sd, no, no, no)
      BY <3>2 DEF Work
    <3> QED
      BY <3>3, Zenon DEF st2, wa, wb, a, b, c, ap, sd, no, yes
  <2> HIDE DEF w1, w2
  <2> QED
    BY <2>3, <2>5, <2>6, <2>7
<1>11. ConflictOnRemoval(w2) = w2
  BY DEF ConflictOnRemoval, Work
<1>12. Arrived(inb) <=> Arrived(rs)
  BY <1>2, <1>5, <1>6
<1> HIDE DEF r
<1>13. ApplyInbound(w2) = w4
  <2>1. (Arrived(w2.inbound) /\ (w2.state.new \/ w2.apply # EmptyDiff)) <=> Enters(v, rs, r)
    BY <1>12 DEF Work, TakenState, Enters
  <2>2. ApplyInbound(w2) =
          [w2 EXCEPT !.local = IF w2.apply = EmptyDiff THEN w2.local ELSE Import(w2.local, w2.apply),
                     !.item = IF Enters(v, rs, r) THEN "in" ELSE w2.item]
    BY <2>1 DEF ApplyInbound
  <2>3. w2.local = v.local /\ w2.apply = r.apply /\ w2.item = v.item
    BY DEF Work
  <2>4. ApplyInbound(w2) = [w2 EXCEPT !.local = Imported(v.local, r.apply), !.item = item]
    BY <2>2, <2>3 DEF Imported, MergedItem
  <2> QED
    BY <2>4 DEF Work
<1>14. RemoveRemoved(w4) = w4
  BY DEF RemoveRemoved, Work
<1>15. ReviewState(w4) =
         Work(item, Imported(v.local, r.apply), TakenState(v, r), v.changed, inb, r.apply,
              IF Leaves(v, rs, r) THEN IF new THEN EmptyDiff ELSE Removed ELSE r.send,
              FALSE, EmptyState(TakenState(v, r)) \/ Leaves(v, rs, r),
              Leaves(v, rs, r) /\ r.send # EmptyDiff)
  <2>1. w4.state = TakenState(v, r) /\ w4.item = item /\ w4.send = r.send
    BY DEF Work
  <2>2. TakenState(v, r).exists /\ ~TakenState(v, r).removal /\ (TakenState(v, r).new <=> new)
    BY DEF TakenState
  <2>3. CASE EmptyState(TakenState(v, r))
    BY <2>1, <2>2, <2>3 DEF ReviewState, Leaves, Work
  <2>4. CASE ~EmptyState(TakenState(v, r)) /\ item # "in"
    BY <2>1, <2>2, <2>4 DEF ReviewState, Leaves, Work
  <2>5. CASE ~EmptyState(TakenState(v, r)) /\ item = "in"
    BY <2>1, <2>2, <2>5 DEF ReviewState, Leaves, Work
  <2> QED
    BY <2>3, <2>4, <2>5
<1> DEFINE send == IF Leaves(v, rs, r) THEN IF new THEN EmptyDiff ELSE Removed ELSE r.send
           no == FALSE
           forget == EmptyState(TakenState(v, r)) \/ Leaves(v, rs, r)
           withheld == Leaves(v, rs, r) /\ r.send # EmptyDiff
           local == Imported(v.local, r.apply)
           st == TakenState(v, r)
           chain == ReviewState(RemoveRemoved(ApplyInbound(ConflictOnRemoval(
                      MergeItem(Receive(Start(v), rs))))))
<1>18. chain = ReviewState(w4)
  <2> HIDE DEF w1, w2, w4
  <2> QED
    BY <1>3, <1>10, <1>11, <1>13, <1>14
<1>19. chain = Work(item, local, st, v.changed, inb, r.apply, send, no, forget, withheld)
  <2> HIDE DEF w4, chain
  <2> QED
    BY <1>15, <1>18, Zenon DEF send, no, forget, withheld, local, st
<1>20. Fetched(v, rs) = Result(v, rs, item, local, st, send, forget, withheld, r.apply)
  <2> HIDE DEF w4, send, no, forget, withheld, local, st, item
  <2> QED
    BY <1>19, FetchedIs, Zenon DEF chain
<1>21. Fetched(v, rs) = MergedResult(v, rs, r)
  BY <1>20, Zenon DEF MergedResult, item, local, st, send, forget, withheld, new
<1> QED
  BY <1>21, Zenon DEF r

(* The run leaves the item alone: what there is to say of its State then.    *)
QuietState(v, rs) == IF v.item = "gone" /\ Arrived(rs) THEN Reset(v.state) ELSE v.state
Left(v, st) == st.exists /\ ~EmptyState(st) /\ v.item # "in"

QuietResult(v, rs, st) ==
  Result(v, rs, v.item, v.local, st,
         IF Left(v, st) /\ ~st.removal /\ ~st.new THEN Removed ELSE EmptyDiff,
         st.exists /\ (EmptyState(st) \/ v.item # "in"), FALSE, EmptyDiff)

LEMMA RunQuiet ==
  ASSUME NEW v \in SyncView, NEW rs \in Diff, ~Takes(v, rs)
  PROVE  Fetched(v, rs) = QuietResult(v, rs, QuietState(v, rs))
<1> DEFINE st == QuietState(v, rs)
           w1 == Work(v.item, v.local, st, v.changed, EmptyDiff, EmptyDiff, EmptyDiff,
                      FALSE, FALSE, FALSE)
<1>1. v.state \in SyncState
  BY DEF SyncView
<1>2. rs # Removed /\ ~Arrived(EmptyDiff) /\ (~Arrived(rs) => rs = EmptyDiff)
  BY RecordSetSyncAssumption DEF Arrived
<1>3. Start(v) = Work(v.item, v.local, v.state, v.changed, EmptyDiff, EmptyDiff, EmptyDiff,
                      FALSE, FALSE, FALSE)
  BY DEF Start, Work
<1>4. Receive(Start(v), rs) = w1
  <2>1. CASE ~Arrived(rs)
    <3>1. Receive(Start(v), rs) = Start(v)
      BY <1>2, <2>1 DEF Receive
    <3>2. st = v.state
      BY <2>1 DEF QuietState
    <3> QED
      BY <1>3, <3>1, <3>2
  <2>2. CASE Arrived(rs)
    <3>1. v.item = "gone" /\ RSAdd(Known(v.state), rs) = NoRecords
      BY <2>2 DEF Takes
    <3>2. Start(v).item = "gone" /\ Start(v).state = v.state
      BY <3>1 DEF Start
    <3>3. st = Reset(v.state)
      BY <2>2, <3>1 DEF QuietState
    <3> HIDE DEF st
    <3>4. Receive(Start(v), rs) =
            [Start(v) EXCEPT !.inbound = AsDiff(RSAdd(Known(Start(v).state), rs)),
                             !.state.agreed = NoRecords,
                             !.state.pending = EmptyDiff, !.state.removal = FALSE]
      BY <1>2, <2>2, <3>2 DEF Receive
    <3>5. AsDiff(RSAdd(Known(Start(v).state), rs)) = EmptyDiff
      BY <3>1, <3>2 DEF AsDiff, EmptyDiff
    <3>6. Receive(Start(v), rs) = [Start(v) EXCEPT !.inbound = EmptyDiff, !.state = Reset(Start(v).state)]
      <4> DEFINE x == AsDiff(RSAdd(Known(Start(v).state), rs))
      <4>1. Receive(Start(v), rs) = [Start(v) EXCEPT !.inbound = x, !.state = Reset(Start(v).state)]
        BY <3>4, UpdateParts
      <4> HIDE DEF x
      <4> QED
        BY <3>5, <4>1 DEF x
    <3>7. Receive(Start(v), rs) = [Start(v) EXCEPT !.inbound = EmptyDiff, !.state = st]
      BY <3>2, <3>3, <3>6
    <3>8. Receive(Start(v), rs) =
            [Work(v.item, v.local, v.state, v.changed, EmptyDiff, EmptyDiff, EmptyDiff,
                  FALSE, FALSE, FALSE) EXCEPT !.inbound = EmptyDiff, !.state = st]
      BY <1>3, <3>7
    <3> QED
      BY <3>8 DEF Work
  <2> QED
    BY <2>1, <2>2
<1>5. /\ w1.item = v.item /\ w1.local = v.local /\ w1.state = st /\ w1.changed = v.changed
      /\ w1.inbound = EmptyDiff /\ w1.apply = EmptyDiff /\ w1.send = EmptyDiff
      /\ ~w1.removed
  BY DEF Work
<1>6. ~Exported(w1)
  <2>1. v.item # "gone" => ~(v.changed /\ v.item = "in" /\ ~st.removal)
    BY DEF Takes, QuietState
  <2> QED
    BY <1>2, <1>5, <2>1 DEF Exported
<1> HIDE DEF st
<1>7. MergeItem(w1) = w1
  BY <1>2, <1>5, <1>6 DEF MergeItem
<1>8. ConflictOnRemoval(w1) = w1 /\ RemoveRemoved(w1) = w1
  BY <1>5 DEF ConflictOnRemoval, RemoveRemoved
<1>9. ApplyInbound(w1) = w1
  BY <1>2, <1>5 DEF ApplyInbound, Work
<1>10. ReviewState(w1) =
         Work(v.item, v.local, st, v.changed, EmptyDiff, EmptyDiff,
              IF Left(v, st) /\ ~st.removal /\ ~st.new THEN Removed ELSE EmptyDiff,
              FALSE, st.exists /\ (EmptyState(st) \/ v.item # "in"), FALSE)
  <2>1. CASE ~st.exists
    BY <1>5, <2>1 DEF ReviewState, Left, Work
  <2>2. CASE st.exists /\ EmptyState(st)
    BY <1>5, <2>2 DEF ReviewState, Left, Work
  <2>3. CASE st.exists /\ ~EmptyState(st) /\ v.item # "in"
    <3> DEFINE snd == IF st.removal \/ st.new THEN EmptyDiff ELSE Removed
    <3>1. ReviewState(w1) = [w1 EXCEPT !.forget = TRUE, !.withheld = FALSE, !.send = snd]
      BY <1>5, <2>3 DEF ReviewState
    <3>2. (IF Left(v, st) /\ ~st.removal /\ ~st.new THEN Removed ELSE EmptyDiff) = snd
      BY <2>3 DEF Left
    <3> DEFINE no == FALSE
               fg == st.exists /\ (EmptyState(st) \/ v.item # "in")
               a == v.item
               b == v.local
               c == v.changed
    <3>3. w1 = Work(a, b, st, c, EmptyDiff, EmptyDiff, EmptyDiff, no, no, no)
      BY Zenon DEF w1
    <3>4. ReviewState(w1) = [w1 EXCEPT !.forget = fg, !.withheld = no, !.send = snd]
      BY <2>3, <3>1
    <3> HIDE DEF w1, snd, no, fg, a, b, c
    <3> DEFINE wa == [w1 EXCEPT !.forget = fg]
               wb == [wa EXCEPT !.withheld = no]
    <3>5. wa = Work(a, b, st, c, EmptyDiff, EmptyDiff, EmptyDiff, no, fg, no)
      BY <3>3 DEF Work
    <3> HIDE DEF wa
    <3>6. wb = Work(a, b, st, c, EmptyDiff, EmptyDiff, EmptyDiff, no, fg, no)
      BY <3>5 DEF Work
    <3> HIDE DEF wb
    <3>7. [wb EXCEPT !.send = snd] = Work(a, b, st, c, EmptyDiff, EmptyDiff, snd, no, fg, no)
      BY <3>6 DEF Work
    <3> QED
      BY <3>2, <3>4, <3>7, Zenon DEF wa, wb, no, fg, a, b, c
  <2>4. CASE st.exists /\ ~EmptyState(st) /\ v.item = "in"
    BY <1>5, <2>4 DEF ReviewState, Left, Work
  <2> QED
    BY <2>1, <2>2, <2>3, <2>4
<1> DEFINE send == IF Left(v, st) /\ ~st.removal /\ ~st.new THEN Removed ELSE EmptyDiff
           forget == st.exists /\ (EmptyState(st) \/ v.item # "in")
<1>11. ReviewState(RemoveRemoved(ApplyInbound(ConflictOnRemoval(MergeItem(Receive(Start(v), rs))))))
         = ReviewState(w1)
  BY <1>4, <1>7, <1>8, <1>9
<1> HIDE DEF w1, send, forget
<1>12. ReviewState(w1) = Work(v.item, v.local, st, v.changed, EmptyDiff, EmptyDiff, send,
                              FALSE, forget, FALSE)
  BY <1>10 DEF send, forget
<1>13. Fetched(v, rs) = Result(v, rs, v.item, v.local, st, send, forget, FALSE, EmptyDiff)
  BY <1>11, <1>12, FetchedIs
<1> QED
  BY <1>13 DEF QuietResult, st, send, forget

(* The item was removed at the server.                                     *)
KeptState(v) ==
  [agreed |-> NoRecords, pending |-> EmptyDiff, removal |-> TRUE, exists |-> TRUE,
   new |-> v.state.new \/ ~v.state.exists]

RemovedFrom(v) == IF v.item = "in" THEN "out" ELSE v.item

(* An item that takes part, and is only removed, has nothing to send.       *)
NothingUnsent(v) ==
  v.item = "in" /\ v.changed /\ ~v.state.removal => Agree(v.local, v.state.agreed)

LEMMA RunRemoved ==
  ASSUME NEW v \in SyncView
  PROVE  \E apply \in Diff :
           /\ v.item # "in" \/ v.local \in Whole => apply = EmptyDiff
           /\ \/ /\ NothingUnsent(v)
                 /\ Fetched(v, Removed) =
                      Result(v, Removed, RemovedFrom(v), Imported(v.local, apply), NoState,
                             EmptyDiff, FALSE, FALSE, apply)
              \/ /\ v.item = "in"
                 /\ Fetched(v, Removed) =
                      Result(v, Removed, v.item, Imported(v.local, apply), KeptState(v),
                             EmptyDiff, FALSE, FALSE, apply)
<1> DEFINE st1 == [v.state EXCEPT !.pending = EmptyDiff]
           w1 == Work(v.item, v.local, st1, v.changed, EmptyDiff, EmptyDiff, EmptyDiff,
                      TRUE, FALSE, FALSE)
<1>1. v.state \in SyncState /\ v.state.agreed \in RecordSet
  BY DEF SyncView, SyncState
<1>2. ~Arrived(EmptyDiff)
  BY DEF Arrived
<1>3. Receive(Start(v), Removed) = w1
  <2>1. Receive(Start(v), Removed) =
          [Start(v) EXCEPT !.removed = TRUE, !.state.pending = EmptyDiff]
    BY DEF Receive
  <2>2. Start(v).state = v.state
    BY DEF Start
  <2>3. Receive(Start(v), Removed) = [Start(v) EXCEPT !.removed = TRUE, !.state = st1]
    <3>1. \A x : [Start(v) EXCEPT !.removed = x, !.state.pending = EmptyDiff] =
                 [Start(v) EXCEPT !.removed = x,
                                  !.state = [Start(v).state EXCEPT !.pending = EmptyDiff]]
      BY UpdateParts, Zenon
    <3>2. [Start(v) EXCEPT !.removed = TRUE, !.state.pending = EmptyDiff] =
          [Start(v) EXCEPT !.removed = TRUE,
                           !.state = [Start(v).state EXCEPT !.pending = EmptyDiff]]
      BY <3>1, Zenon
    <3> HIDE DEF st1
    <3> QED
      BY <2>1, <2>2, <3>2, Zenon DEF st1
  <2> HIDE DEF st1
  <2>4. Start(v) = Work(v.item, v.local, v.state, v.changed, EmptyDiff, EmptyDiff, EmptyDiff,
                        FALSE, FALSE, FALSE)
    BY DEF Start, Work
  <2>5. Receive(Start(v), Removed) =
          [Work(v.item, v.local, v.state, v.changed, EmptyDiff, EmptyDiff, EmptyDiff,
                FALSE, FALSE, FALSE) EXCEPT !.removed = TRUE, !.state = st1]
    BY <2>3, <2>4
  <2> QED
    BY <2>5 DEF Work
<1>4. st1 = [agreed |-> v.state.agreed, pending |-> EmptyDiff, removal |-> v.state.removal,
             exists |-> v.state.exists, new |-> v.state.new]
  BY <1>1, StateParts, Zenon
<1> HIDE DEF st1
<1>5. /\ w1.item = v.item /\ w1.local = v.local /\ w1.state = st1 /\ w1.changed = v.changed
      /\ w1.inbound = EmptyDiff /\ w1.apply = EmptyDiff /\ w1.send = EmptyDiff /\ w1.removed
  BY DEF Work
<1>6. st1.agreed = v.state.agreed /\ st1.pending = EmptyDiff /\ st1.exists = v.state.exists
      /\ st1.new = v.state.new
  BY <1>4
<1>7. CASE ~Exported(w1)
  <2>1. MergeItem(w1) = w1
    BY <1>2, <1>5, <1>7 DEF MergeItem
  <2>2. ConflictOnRemoval(w1) = w1
    BY <1>5 DEF ConflictOnRemoval
  <2>3. ApplyInbound(w1) = w1
    BY <1>2, <1>5 DEF ApplyInbound, Work
  <2> DEFINE w5 == Work(RemovedFrom(v), v.local, NoState, v.changed, EmptyDiff, EmptyDiff,
                        EmptyDiff, TRUE, FALSE, FALSE)
  <2>4. RemoveRemoved(w1) = w5
    BY <1>5 DEF RemoveRemoved, Work, RemovedFrom
  <2>5. ReviewState(w5) = w5
    BY DEF ReviewState, Work, NoState
  <2>6. Fetched(v, Removed) = Result(v, Removed, RemovedFrom(v), v.local, NoState, EmptyDiff,
                                     FALSE, FALSE, EmptyDiff)
    BY <1>3, <2>1, <2>2, <2>3, <2>4, <2>5, FetchedIs
  <2>7. NothingUnsent(v)
    <3>1. st1.removal = v.state.removal
      BY <1>4
    <3> HIDE DEF w1
    <3>2. ~(v.changed /\ v.item = "in" /\ ~v.state.removal)
      BY <1>5, <1>7, <3>1 DEF Exported
    <3> QED
      BY <3>2 DEF NothingUnsent
  <2> QED
    BY <2>6, <2>7, ConstantTypes DEF Imported
<1>8. CASE Exported(w1)
  <2> DEFINE merged == MergeReadWrite(st1, v.local, ExternalByDiff(st1, EmptyDiff))
             r == IF merged.pending = EmptyDiff THEN merged ELSE AutoResolve(merged, v.local)
             w2 == Work(v.item, v.local,
                        [agreed |-> r.agreed, pending |-> r.pending, removal |-> FALSE,
                         exists |-> TRUE, new |-> v.state.new \/ ~v.state.exists],
                        v.changed, EmptyDiff, r.apply, r.send, TRUE, FALSE, FALSE)
  <2>1. v.item = "in"
    BY <1>2, <1>5, <1>8 DEF Exported
  <2> HIDE DEF r
  <2>2. MergeItem(w1) = w2
    <3> DEFINE m == IF merged.pending = EmptyDiff \/ w1.item = "gone" THEN merged
                    ELSE AutoResolve(merged, v.local)
    <3>1. MergeItem(w1) =
            [w1 EXCEPT !.state = [agreed |-> m.agreed, pending |-> m.pending, removal |-> FALSE,
                                  exists |-> TRUE, new |-> w1.state.new \/ ~w1.state.exists],
                       !.send = m.send, !.apply = m.apply]
      <4> HIDE DEF w1
      <4>1. w1.local = v.local /\ w1.item = v.item /\ w1.state = st1 /\ w1.inbound = EmptyDiff
        BY <1>5
      <4> HIDE DEF m, merged
      <4>2. m = IF merged.pending = EmptyDiff \/ w1.item = "gone" THEN merged
                ELSE AutoResolve(merged, w1.local)
        BY <4>1 DEF m
      <4>3. merged = MergeReadWrite(w1.state, w1.local, ExternalByDiff(w1.state, w1.inbound))
        BY <4>1 DEF merged
      <4> QED
        BY <1>8, <4>2, <4>3 DEF MergeItem
    <3>2. m = r
      BY <1>5, <2>1 DEF r
    <3> HIDE DEF m
    <3>3. [agreed |-> m.agreed, pending |-> m.pending, removal |-> FALSE,
           exists |-> TRUE, new |-> w1.state.new \/ ~w1.state.exists] =
          [agreed |-> r.agreed, pending |-> r.pending, removal |-> FALSE,
           exists |-> TRUE, new |-> v.state.new \/ ~v.state.exists]
      BY <1>5, <1>6, <3>2
    <3> DEFINE st2 == [agreed |-> r.agreed, pending |-> r.pending, removal |-> FALSE,
                       exists |-> TRUE, new |-> v.state.new \/ ~v.state.exists]
    <3> HIDE DEF st2
    <3> DEFINE a == v.item
               b == v.local
               c == v.changed
               ap == r.apply
               sd == r.send
               no == FALSE
               yes == TRUE
    <3>0. w1 = Work(a, b, st1, c, EmptyDiff, EmptyDiff, EmptyDiff, yes, no, no)
      BY Zenon DEF w1
    <3> HIDE DEF w1, a, b, c, ap, sd, no, yes
    <3> DEFINE wa == [w1 EXCEPT !.state = st2]
               wb == [wa EXCEPT !.send = sd]
    <3>4. wa = Work(a, b, st2, c, EmptyDiff, EmptyDiff, EmptyDiff, yes, no, no)
      BY <3>0 DEF Work
    <3> HIDE DEF wa
    <3>5. wb = Work(a, b, st2, c, EmptyDiff, EmptyDiff, sd, yes, no, no)
      BY <3>4 DEF Work
    <3> HIDE DEF wb
    <3>6. [wb EXCEPT !.apply = ap] = Work(a, b, st2, c, EmptyDiff, ap, sd, yes, no, no)
      BY <3>5 DEF Work
    <3>7. MergeItem(w1) = [w1 EXCEPT !.state = st2, !.send = r.send, !.apply = r.apply]
      BY <3>1, <3>2, <3>3 DEF st2
    <3> QED
      BY <3>6, <3>7, Zenon DEF st2, wa, wb, a, b, c, ap, sd, no, yes
  <2>3. ExternalByDiff(st1, EmptyDiff) = st1.agreed
    BY <1>1, <1>6, NothingAdded DEF ExternalByDiff, Known
  <2>4. r.apply \in Diff /\ (v.local \in Whole => r.apply = EmptyDiff)
    <3>1. v.local \in FullRecordSet
      BY DEF SyncView
    <3>2. IsMerge(merged) /\ IsMerge(AutoResolve(merged, v.local))
      BY <1>1, <1>6, <2>3, <3>1, MergeTypes
    <3>3. v.local \in Whole => merged.pending = EmptyDiff /\ merged.apply = EmptyDiff
      BY <1>1, <1>6, <2>3, LocalChange DEF LocalOutcome
    <3> QED
      BY <3>2, <3>3 DEF IsMerge, r
  <2>5. CASE r.send # EmptyDiff
    <3> DEFINE w3 == Work(v.item, v.local, KeptState(v), v.changed, EmptyDiff, r.apply,
                          EmptyDiff, FALSE, FALSE, FALSE)
               w4 == Work(v.item, Imported(v.local, r.apply), KeptState(v), v.changed, EmptyDiff,
                          r.apply, EmptyDiff, FALSE, FALSE, FALSE)
    <3>1. ConflictOnRemoval(w2) = w3
      BY <2>5 DEF ConflictOnRemoval, Work, KeptState
    <3>2. ApplyInbound(w3) = w4
      <4>1. w3.local = v.local /\ w3.apply = r.apply /\ w3.item = v.item /\ w3.inbound = EmptyDiff
        BY DEF Work
      <4>2. ApplyInbound(w3) = [w3 EXCEPT !.local = Imported(v.local, r.apply), !.item = w3.item]
        BY <1>2, <4>1 DEF ApplyInbound, Imported
      <4> QED
        BY <4>2 DEF Work
    <3>3. RemoveRemoved(w4) = w4
      BY DEF RemoveRemoved, Work
    <3>4. ReviewState(w4) = w4
      BY <2>1 DEF ReviewState, Work, KeptState, EmptyState
    <3>5. Fetched(v, Removed) = Result(v, Removed, v.item, Imported(v.local, r.apply), KeptState(v),
                                       EmptyDiff, FALSE, FALSE, r.apply)
      BY <1>3, <2>2, <3>1, <3>2, <3>3, <3>4, FetchedIs
    <3> QED
      BY <2>1, <2>4, <3>5
  <2>6. CASE r.send = EmptyDiff
    <3> DEFINE w5 == Work(RemovedFrom(v), Imported(v.local, r.apply), NoState, v.changed, EmptyDiff,
                          r.apply, EmptyDiff, TRUE, FALSE, FALSE)
    <3>1. ConflictOnRemoval(w2) = w2
      BY <2>6 DEF ConflictOnRemoval, Work
    <3>2. RemoveRemoved(ApplyInbound(w2)) = w5
      <4> DEFINE ww == [w2 EXCEPT !.local = Imported(v.local, r.apply), !.item = v.item]
      <4>1. ApplyInbound(w2) = ww
        BY <1>2 DEF ApplyInbound, Work, Imported
      <4>2. RemoveRemoved(ww) = w5
        BY <2>6 DEF RemoveRemoved, Work, RemovedFrom
      <4> QED
        BY <4>1, <4>2
    <3>3. ReviewState(w5) = w5
      BY DEF ReviewState, Work, NoState
    <3>4. Fetched(v, Removed) = Result(v, Removed, RemovedFrom(v), Imported(v.local, r.apply), NoState,
                                       EmptyDiff, FALSE, FALSE, r.apply)
      BY <1>3, <2>2, <3>1, <3>2, <3>3, FetchedIs
    <3>5. NothingUnsent(v)
      <4>1. v.local \in FullRecordSet
        BY DEF SyncView
      <4>2. merged = MergeReadWrite(st1, v.local, st1.agreed)
        BY <2>3, <1>6
      <4>3. r \in {merged, AutoResolve(merged, v.local)}
        BY DEF r
      <4> HIDE DEF merged
      <4>4. Agree(v.local, st1.agreed)
        BY <1>1, <1>6, <2>6, <4>1, <4>2, <4>3, NothingToSend
      <4> QED
        BY <1>6, <4>4 DEF NothingUnsent
    <3> QED
      BY <2>1, <2>4, <3>4, <3>5
  <2> QED
    BY <2>5, <2>6
<1> QED
  BY <1>7, <1>8

-----------------------------------------------------------------------------
(* What a run leaves behind keeps the books.                               *)

(* The view, and what the server will answer, before the run.              *)
Before(v, srv, rs) ==
  /\ ServerOK(srv)
  /\ ItemOK(v.item, v.local)
  /\ StateOK(v.state)
  /\ AnswerOK(srv, rs)
  /\ \/ Complete(Known(v.state))
     \/ Known(v.state) = NoRecords /\ Agree(srv, Stored(NoRecords, rs))
  /\ ~v.changed => LocalIsAgreed(v.item, v.local, v.state)
  /\ srv = NoRecords /\ rs = EmptyDiff /\ v.item = "in" /\ ~v.state.removal =>
       /\ v.state.pending = EmptyDiff
       /\ Known(v.state) = NoRecords \/ Agree(v.local, v.state.agreed)

BeforeSent(v, srv, rs) ==
  /\ \/ Agree(srv, Stored(Known(v.state), rs))
     \/ v.item # "in" /\ Agree(srv, Stored(NoRecords, rs))
  /\ v.state.new => v.item = "in"

LEMMA ExternalIs ==
  ASSUME NEW v \in SyncView, NEW rs \in Diff, NEW srv \in RecordSet, Before(v, srv, rs)
  PROVE  /\ v.state \in SyncState /\ v.state.agreed \in RecordSet /\ v.state.pending \in Diff
         /\ Known(v.state) \in RecordSet /\ RSAdd(Known(v.state), rs) \in RecordSet
         /\ Internal(v) \in FullRecordSet
         /\ v.item = "gone" => Internal(v) = NoRecords /\ v.local = NoRecords
         /\ v.item # "gone" => Internal(v) = v.local /\ v.local \in Whole
         /\ rs.exc = {}
         /\ Arrived(rs) => Complete(srv) /\ Complete(RSAdd(Known(v.state), rs))
         /\ ~Arrived(rs) => rs = EmptyDiff /\ RSAdd(Known(v.state), rs) = Known(v.state)
         /\ Known(v.state) = NoRecords => v.state.agreed = NoRecords /\ v.state.pending = EmptyDiff
<1> DEFINE K == Known(v.state)
<1>1. v.state \in SyncState /\ v.state.agreed \in RecordSet /\ v.state.pending \in Diff
      /\ v.local \in FullRecordSet /\ v.item \in Membership
  BY DEF SyncView, SyncState
<1>2. K \in RecordSet /\ RSAdd(K, rs) \in RecordSet
  BY <1>1, KnownType, AddType
<1>3. Internal(v) \in FullRecordSet
  BY <1>1, WholeIs DEF Internal
<1>4. v.item = "gone" => Internal(v) = NoRecords /\ v.local = NoRecords
  BY DEF Before, ItemOK, Internal
<1>5. v.item # "gone" => Internal(v) = v.local /\ v.local \in Whole
  BY DEF Before, ItemOK, Internal
<1>6. rs # Removed /\ rs.exc = {}
  BY RecordSetSyncAssumption DEF Before, AnswerOK
<1>7. ASSUME Arrived(rs) PROVE Complete(srv) /\ Complete(RSAdd(K, rs))
  <2>1. Complete(srv)
    BY <1>7 DEF Before, AnswerOK, Arrived
  <2>2. CASE Complete(K)
    BY <1>2, <1>6, <2>1, <2>2, PlainAdd
  <2>3. CASE K = NoRecords /\ Agree(srv, Stored(NoRecords, rs))
    <3>1. Agree(srv, RSAdd(K, rs))
      BY <1>6, <2>3 DEF Stored
    <3> QED
      BY <1>2, <2>1, <3>1, AgreeIs
  <2> QED
    BY <2>2, <2>3 DEF Before
<1>8. ~Arrived(rs) => rs = EmptyDiff /\ RSAdd(K, rs) = K
  BY <1>2, <1>6, NothingAdded DEF Arrived
<1>9. K = NoRecords => v.state.agreed = NoRecords /\ v.state.pending = EmptyDiff
  BY <1>1, NothingKnown DEF Before, StateOK
<1> QED
  BY <1>1, <1>2, <1>3, <1>4, <1>5, <1>6, <1>7, <1>8, <1>9

(* The merge of a run, whatever arrived.                                   *)
TakenGood(v, rs, r) ==
  /\ IsMerge(r) /\ FilterClear(r)
  /\ r.pending.exc = {} /\ r.send.exc = {} /\ r.apply.exc = {}
  /\ Complete(Known(r)) /\ Agree(Known(r), RSAdd(RSAdd(Known(v.state), rs), r.send))
  /\ r.pending = EmptyDiff => Agree(RSAdd(v.local, r.apply), r.agreed)

LEMMA TakenFacts ==
  ASSUME NEW v \in SyncView, NEW rs \in Diff, NEW srv \in RecordSet, Before(v, srv, rs),
         Takes(v, rs), NEW r, r = TakenBy(v, rs)
  PROVE  /\ TakenGood(v, rs, r)
         /\ v.item = "gone" => r.apply # EmptyDiff /\ Complete(RSAdd(v.local, r.apply))
         /\ srv = NoRecords =>
              /\ r.pending = EmptyDiff
              /\ r.send # EmptyDiff => Complete(r.send.inc)
<1> DEFINE K == Known(v.state)
           X == RSAdd(K, rs)
           int == Internal(v)
           base == BaseOf(v)
           m == MergedBy(v, rs)
<1>1. /\ v.state.agreed \in RecordSet /\ v.state.pending \in Diff /\ K \in RecordSet /\ X \in RecordSet
      /\ int \in FullRecordSet /\ int = v.local
      /\ v.item # "gone" => v.local \in Whole
      /\ Arrived(rs) => Complete(srv) /\ Complete(X)
      /\ ~Arrived(rs) => rs = EmptyDiff /\ X = K
      /\ K = NoRecords => v.state.agreed = NoRecords /\ v.state.pending = EmptyDiff
  BY ExternalIs
<1>2. /\ base.agreed = IF v.item = "gone" THEN NoRecords ELSE v.state.agreed
      /\ base.agreed \in RecordSet
      /\ \A k \in Key, f \in Filtered : base.agreed[k][f] = NoChange
  <2>1. base.agreed = IF v.item = "gone" THEN NoRecords ELSE v.state.agreed
    BY DEF BaseOf
  <2>2. \A k \in Key, f \in Filtered : v.state.agreed[k][f] = NoChange
    BY DEF Before, StateOK, FilterClear
  <2>3. \A k \in Key, f \in Filtered : NoRecords[k][f] = NoChange
    BY StateMergeAssumption, NothingAdded
  <2> QED
    BY <1>1, <2>1, <2>2, <2>3, ConstantTypes
<1>3. m = MergeReadWrite(base, int, X)
  BY DEF MergedBy
<1>4. r = IF m.pending = EmptyDiff \/ v.item = "gone" THEN m ELSE AutoResolve(m, int)
  BY DEF TakenBy
<1> HIDE DEF base, m
<1>5. CASE Complete(X)
  <2>1. int \in Whole \/ base.agreed = NoRecords
    BY <1>1, <1>2
  <2>2. r \in {m, AutoResolve(m, int)}
    BY <1>4
  <2> HIDE DEF X, int
  <2>3. /\ IsMerge(r) /\ FilterClear(r)
        /\ r.pending.exc = {} /\ r.send.exc = {} /\ r.apply.exc = {}
        /\ Complete(Known(r)) /\ Agree(Known(r), RSAdd(X, r.send))
        /\ r.pending = EmptyDiff => Agree(Applied(r, int), r.agreed)
    BY <1>1, <1>2, <1>3, <1>5, <2>1, <2>2, MergeOutcome
  <2>4. Applied(r, int) = RSAdd(v.local, r.apply)
    BY <1>1 DEF Applied
  <2>5. TakenGood(v, rs, r)
    BY <2>3, <2>4 DEF TakenGood, X
  <2>6. ASSUME v.item = "gone" PROVE r.apply # EmptyDiff /\ Complete(RSAdd(v.local, r.apply))
    <3>1. int = NoRecords /\ base.agreed = NoRecords /\ r = m
      BY <1>2, <1>4, <2>6 DEF int, Internal
    <3> QED
      BY <1>1, <1>3, <1>5, <3>1, PeerAlone
  <2>7. ASSUME srv = NoRecords
        PROVE  r.pending = EmptyDiff /\ r.send = EmptyDiff
    <3>1. ~Arrived(rs) /\ rs = EmptyDiff /\ X = K
      BY <1>1, <2>7, NotComplete
    <3>2. v.item = "in" /\ ~v.state.removal
      BY <3>1 DEF Takes
    <3>3. v.state.pending = EmptyDiff /\ Agree(v.local, v.state.agreed)
      <4>1. K # NoRecords
        BY <1>5, <3>1, NotComplete
      <4> QED
        BY <2>7, <3>1, <3>2, <4>1 DEF Before
    <3>4. K = v.state.agreed /\ base.agreed = v.state.agreed
      BY <1>1, <1>2, <3>2, <3>3, NothingAdded DEF Known
    <3>5. int = v.local /\ v.local \in Whole
      BY <1>1, <3>2
    <3>6. m.pending = EmptyDiff /\ m.send = EmptyDiff
      <4>1. LocalOutcome(base, int, m)
        BY <1>1, <1>2, <1>3, <3>1, <3>4, <3>5, LocalChange
      <4> QED
        BY <3>3, <3>4, <3>5, <4>1 DEF LocalOutcome
    <3> QED
      BY <1>4, <3>6
  <2> QED
    BY <2>5, <2>6, <2>7
<1>6. CASE ~Complete(X)
  <2>1. ~Arrived(rs) /\ rs = EmptyDiff /\ X = K /\ K = NoRecords
    BY <1>1, <1>6 DEF Before
  <2>2. v.item = "in"
    BY <2>1 DEF Takes
  <2>3. base.agreed = NoRecords /\ int \in Whole /\ int = v.local
    BY <1>1, <1>2, <2>1, <2>2
  <2> HIDE DEF X, int, K
  <2>4. m = MergeReadWrite(base, int, base.agreed)
    BY <1>3, <2>1, <2>3
  <2>5. /\ m.pending = EmptyDiff /\ m.apply = EmptyDiff
        /\ m.send \in Diff /\ m.send.exc = {}
        /\ Agree(int, m.agreed) /\ Complete(m.send.inc)
        /\ m.agreed \in RecordSet /\ Known(m) = m.agreed /\ RSAdd(base.agreed, m.send) = m.agreed
        /\ FilterClear(m)
    <3>1. base.agreed \in RecordSet
      BY <1>2
    <3>2. LocalOutcome(base, int, m)
      BY <2>3, <2>4, <3>1, LocalChange
    <3> QED
      BY <1>2, <2>3, <3>2 DEF LocalOutcome
  <2>6. r = m
    BY <1>4, <2>5
  <2>7. IsMerge(m) /\ m.pending.exc = {} /\ m.apply.exc = {}
    BY <2>5, ConstantTypes, NothingAdded DEF IsMerge
  <2>8. int \in RecordSet
    BY <2>3 DEF Whole
  <2>9. Complete(Known(m))
    <3>1. Complete(int)
      BY <2>3, WholeIs
    <3> QED
      BY <2>5, <2>8, <3>1, AgreeIs
  <2>10. Agree(Known(m), RSAdd(X, m.send))
    BY <2>1, <2>3, <2>5, AgreeIs
  <2>11. Agree(RSAdd(v.local, m.apply), m.agreed)
    BY <2>3, <2>5, <2>8, NothingAdded
  <2> QED
    BY <2>2, <2>5, <2>6, <2>7, <2>9, <2>10, <2>11 DEF TakenGood, X, K
<1> QED
  BY <1>5, <1>6

LEMMA ResultIs ==
  ASSUME NEW v \in SyncView, NEW rs \in ServerChange,
         NEW item \in Membership, NEW local \in FullRecordSet, NEW state \in SyncState,
         NEW send \in ServerChange, NEW forget \in BOOLEAN, NEW withheld \in BOOLEAN, NEW apply,
         NEW R, R = Result(v, rs, item, local, state, send, forget, withheld, apply)
  PROVE  /\ R \in SyncView
         /\ R.phase = "got" /\ R.item = item /\ R.local = local /\ R.state = state
         /\ R.send = send /\ (R.forget <=> forget) /\ (R.withheld <=> withheld)
         /\ R.applied <=> v.applied \/ apply # EmptyDiff
         /\ R.moved <=> v.moved \/ item # v.item
         /\ (R.edited <=> v.edited) /\ (R.discarded <=> v.discarded)
<1>1. Fold(v.fetched, rs) \in ServerChange
  BY FoldIs DEF SyncView
<1> DEFINE f == Fold(v.fetched, rs)
           a == v.applied \/ apply # EmptyDiff
           m == v.moved \/ item # v.item
<1>2. a \in BOOLEAN /\ m \in BOOLEAN /\ f \in ServerChange
  BY <1>1 DEF SyncView
<1>3. R = [v EXCEPT !.phase = "got", !.fetched = f, !.item = item, !.local = local,
                    !.state = state, !.send = send, !.forget = forget, !.withheld = withheld,
                    !.applied = a, !.moved = m]
  BY DEF Result
<1> HIDE DEF f, a, m
<1> DEFINE R1 == [v EXCEPT !.phase = "got", !.fetched = f, !.item = item]
           R2 == [R1 EXCEPT !.local = local, !.state = state, !.send = send]
           R3 == [R2 EXCEPT !.forget = forget, !.withheld = withheld]
           R4 == [R3 EXCEPT !.applied = a, !.moved = m]
<1>4. R = R4
  BY <1>3
<1>5. /\ R1 \in SyncView /\ R1.phase = "got" /\ R1.item = item
      /\ R1.edited = v.edited /\ R1.discarded = v.discarded
  BY <1>2 DEF SyncView
<1> HIDE DEF R1
<1>6. /\ R2 \in SyncView /\ R2.local = local /\ R2.state = state /\ R2.send = send
      /\ R2.phase = R1.phase /\ R2.item = R1.item
      /\ R2.edited = R1.edited /\ R2.discarded = R1.discarded
  BY <1>5 DEF SyncView
<1> HIDE DEF R2
<1>7. /\ R3 \in SyncView /\ R3.forget = forget /\ R3.withheld = withheld
      /\ R3.local = R2.local /\ R3.state = R2.state /\ R3.send = R2.send
      /\ R3.phase = R2.phase /\ R3.item = R2.item
      /\ R3.edited = R2.edited /\ R3.discarded = R2.discarded
  BY <1>6 DEF SyncView
<1> HIDE DEF R3
<1>8. /\ R4 \in SyncView /\ R4.applied = a /\ R4.moved = m
      /\ R4.forget = R3.forget /\ R4.withheld = R3.withheld
      /\ R4.local = R3.local /\ R4.state = R3.state /\ R4.send = R3.send
      /\ R4.phase = R3.phase /\ R4.item = R3.item
      /\ R4.edited = R3.edited /\ R4.discarded = R3.discarded
  BY <1>2, <1>7 DEF SyncView
<1> HIDE DEF R4
<1>9. /\ R \in SyncView
      /\ R.phase = "got" /\ R.item = item /\ R.local = local /\ R.state = state
      /\ R.send = send /\ R.forget = forget /\ R.withheld = withheld
      /\ R.applied = a /\ R.moved = m /\ R.edited = v.edited /\ R.discarded = v.discarded
  BY <1>4, <1>5, <1>6, <1>7, <1>8
<1> QED
  BY <1>9 DEF a, m

(* What the run leaves of a merge.                                         *)
LEMMA MergedIs ==
  ASSUME NEW v \in SyncView, NEW rs \in Diff, Takes(v, rs), NEW r, r = TakenBy(v, rs),
         v.item = "gone" => v.local = NoRecords,
         NEW R, R = Fetched(v, rs)
  PROVE  /\ R \in SyncView
         /\ R.phase = "got" /\ R.item = MergedItem(v, rs, r) /\ R.local = Imported(v.local, r.apply)
         /\ R.state = TakenState(v, r)
         /\ R.send = IF Leaves(v, rs, r)
                     THEN IF v.state.new \/ ~v.state.exists THEN EmptyDiff ELSE Removed
                     ELSE r.send
         /\ R.forget <=> EmptyState(TakenState(v, r)) \/ Leaves(v, rs, r)
         /\ R.withheld <=> Leaves(v, rs, r) /\ r.send # EmptyDiff
         /\ R.applied <=> v.applied \/ r.apply # EmptyDiff
         /\ R.moved <=> v.moved \/ MergedItem(v, rs, r) # v.item
         /\ (R.edited <=> v.edited) /\ (R.discarded <=> v.discarded)
         /\ IsMerge(r)
<1> DEFINE send == IF Leaves(v, rs, r)
                   THEN IF v.state.new \/ ~v.state.exists THEN EmptyDiff ELSE Removed
                   ELSE r.send
           forget == EmptyState(TakenState(v, r)) \/ Leaves(v, rs, r)
           withheld == Leaves(v, rs, r) /\ r.send # EmptyDiff
           item == MergedItem(v, rs, r)
           local == Imported(v.local, r.apply)
           state == TakenState(v, r)
<1>1. R = Result(v, rs, item, local, state, send, forget, withheld, r.apply)
  BY RunMerged DEF MergedResult
<1>2. /\ v.state \in SyncState /\ v.state.agreed \in RecordSet /\ v.state.pending \in Diff
      /\ v.local \in FullRecordSet /\ v.item \in Membership
  BY DEF SyncView, SyncState
<1>3. IsMerge(r)
  <2>1. Internal(v) \in FullRecordSet
    BY <1>2, WholeIs DEF Internal
  <2>2. BaseOf(v).agreed \in RecordSet
    BY <1>2, ConstantTypes DEF BaseOf
  <2>3. RSAdd(Known(v.state), rs) \in RecordSet
    BY <1>2, KnownType, AddType
  <2>4. IsMerge(MergedBy(v, rs)) /\ IsMerge(AutoResolve(MergedBy(v, rs), Internal(v)))
    BY <2>1, <2>2, <2>3, MergeTypes DEF MergedBy
  <2> QED
    BY <2>4 DEF TakenBy
<1>4. item \in Membership
  BY <1>2 DEF MergedItem, Membership
<1>5. local \in FullRecordSet
  BY <1>2, <1>3, ImportedIs DEF IsMerge
<1>6. state \in SyncState
  <2>1. (v.state.new \/ ~v.state.exists) \in BOOLEAN
    OBVIOUS
  <2> QED
    BY <1>3, <2>1 DEF TakenState, SyncState, IsMerge
<1>7. send \in ServerChange
  BY <1>3, ConstantTypes DEF IsMerge, ServerChange
<1>8. forget \in BOOLEAN /\ withheld \in BOOLEAN /\ rs \in ServerChange
  BY DEF EmptyState, ServerChange
<1> HIDE DEF send, forget, withheld, item, local, state
<1>9. /\ R \in SyncView
      /\ R.phase = "got" /\ R.item = item /\ R.local = local /\ R.state = state
      /\ R.send = send /\ (R.forget <=> forget) /\ (R.withheld <=> withheld)
      /\ R.applied <=> v.applied \/ r.apply # EmptyDiff
      /\ R.moved <=> v.moved \/ item # v.item
      /\ (R.edited <=> v.edited) /\ (R.discarded <=> v.discarded)
  BY <1>1, <1>4, <1>5, <1>6, <1>7, <1>8, ResultIs
<1> QED
  BY <1>3, <1>9 DEF send, forget, withheld, item, local, state

(* ... keeps the books of the view, and those of the server if nothing was   *)
(* forgotten before.                                                       *)
LEMMA TakenKeeps ==
  ASSUME NEW v \in SyncView, NEW rs \in Diff, NEW srv \in RecordSet, Before(v, srv, rs),
         Takes(v, rs), NEW R, R = Fetched(v, rs)
  PROVE  /\ ViewBook(R, srv, EmptyDiff, FALSE)
         /\ BeforeSent(v, srv, rs) => SentBook(R, srv, EmptyDiff, FALSE)
<1> DEFINE r == TakenBy(v, rs)
           X == RSAdd(Known(v.state), rs)
<1>1. /\ v.state \in SyncState /\ Known(v.state) \in RecordSet /\ X \in RecordSet
      /\ v.item = "gone" => v.local = NoRecords
      /\ v.item # "gone" => v.local \in Whole
      /\ rs.exc = {}
      /\ Arrived(rs) => Complete(srv) /\ Complete(X)
      /\ ~Arrived(rs) => rs = EmptyDiff /\ X = Known(v.state)
  BY ExternalIs
<1>2. /\ TakenGood(v, rs, r)
      /\ v.item = "gone" => r.apply # EmptyDiff /\ Complete(RSAdd(v.local, r.apply))
      /\ srv = NoRecords => /\ r.pending = EmptyDiff
                            /\ r.send # EmptyDiff => Complete(r.send.inc)
  BY TakenFacts
<1>3. /\ R.phase = "got" /\ R.item = MergedItem(v, rs, r) /\ R.local = Imported(v.local, r.apply)
      /\ R.state = TakenState(v, r)
      /\ R.send = IF Leaves(v, rs, r)
                  THEN IF v.state.new \/ ~v.state.exists THEN EmptyDiff ELSE Removed
                  ELSE r.send
      /\ R.forget <=> EmptyState(TakenState(v, r)) \/ Leaves(v, rs, r)
      /\ R.withheld <=> Leaves(v, rs, r) /\ r.send # EmptyDiff
      /\ IsMerge(r)
  BY <1>1, MergedIs
<1> HIDE DEF r
<1>4. /\ R.state.agreed = r.agreed /\ R.state.pending = r.pending
      /\ ~R.state.removal /\ R.state.exists
  BY <1>3 DEF TakenState
<1>5. Known(R.state) = Known(r) /\ Known(r) \in RecordSet /\ Complete(Known(r))
  BY <1>2, <1>3, <1>4, KnownType DEF Known, TakenGood, IsMerge
<1>6. v.local \in FullRecordSet /\ RSAdd(v.local, r.apply) \in RecordSet
      /\ Imported(v.local, r.apply) \in FullRecordSet /\ Imported(v.local, r.apply) \in RecordSet
  <2>1. v.local \in FullRecordSet
    BY DEF SyncView
  <2> QED
    BY <1>3, <2>1, AddType, ImportedIs DEF IsMerge, FullRecordSet
<1>7. Complete(RSAdd(v.local, r.apply))
  BY <1>1, <1>2, <1>3, <1>6, ImportedIs DEF TakenGood, IsMerge
<1>8. /\ Agree(R.local, RSAdd(v.local, r.apply))
      /\ r.apply # EmptyDiff \/ v.item # "gone" => R.local \in Whole
  BY <1>1, <1>3, <1>6, <1>7, ImportedIs DEF IsMerge, Imported
<1>9. v.item = "gone" => R.item = "in"
  BY <1>2, <1>3 DEF Takes, MergedItem, Enters
<1>10. ~EmptyState(TakenState(v, r))
  <2>1. Known(r) # NoRecords
    BY <1>5, NotComplete
  <2>2. r.agreed \in RecordSet /\ r.pending \in Diff /\ r.pending.exc = {}
    BY <1>2, <1>3 DEF TakenGood, IsMerge
  <2>3. ~(r.agreed = NoRecords /\ r.pending = EmptyDiff)
    BY <2>1, <2>2, NothingKnown
  <2> QED
    BY <2>3 DEF EmptyState, TakenState
<1>11. (R.forget <=> Leaves(v, rs, r)) /\ (Leaves(v, rs, r) <=> R.item # "in")
  BY <1>3, <1>10 DEF Leaves
<1>12. r.send \in Diff /\ r.send # Removed /\ EmptyDiff # Removed
  BY <1>3, ConstantTypes, RecordSetSyncAssumption DEF IsMerge
<1>13. Sends(R) => R.send = r.send /\ ~Leaves(v, rs, r)
  BY <1>3, <1>12 DEF Sends
<1>14. ViewBook(R, srv, EmptyDiff, FALSE)
  <2>1. ItemOK(R.item, R.local)
    <3>1. R.item # "gone"
      BY <1>3, <1>9 DEF MergedItem
    <3>2. R.local \in Whole
      BY <1>2, <1>8
    <3> QED
      BY <3>1, <3>2 DEF ItemOK
  <2>2. StateOK(R.state)
    <3>1. FilterClear(R.state)
      BY <1>2, <1>4 DEF FilterClear, TakenGood
    <3> QED
      BY <1>2, <1>4, <1>5, <3>1 DEF StateOK, TakenGood
  <2>3. AnswerOK(srv, EmptyDiff)
    BY <1>12, NothingAdded DEF AnswerOK
  <2>4. Sends(R) => R.send.exc = {}
    BY <1>2, <1>13 DEF TakenGood
  <2>5. LocalIsAgreed(R.item, R.local, R.state)
    <3> SUFFICES ASSUME r.pending = EmptyDiff PROVE Agree(R.local, r.agreed)
      BY <1>4 DEF LocalIsAgreed
    <3>1. Agree(RSAdd(v.local, r.apply), r.agreed) /\ r.agreed \in RecordSet
      BY <1>2, <1>3 DEF TakenGood, IsMerge
    <3> QED
      BY <1>3, <1>6, <1>8, <3>1, AgreeIs
  <2>6. ASSUME srv = NoRecords
        PROVE  /\ R.item = "in" /\ ~R.state.removal => R.state.pending = EmptyDiff
               /\ Sends(R) => Complete(R.send.inc)
    BY <1>2, <1>4, <1>13, <2>6 DEF Sends
  <2> QED
    BY <1>5, <2>1, <2>2, <2>3, <2>4, <2>5, <2>6 DEF ViewBook
<1>15. ASSUME BeforeSent(v, srv, rs) PROVE SentBook(R, srv, EmptyDiff, FALSE)
  <2>1. Agree(srv, X)
    <3>1. rs # Removed
      BY RecordSetSyncAssumption
    <3>2. CASE Agree(srv, Stored(Known(v.state), rs))
      BY <3>1, <3>2 DEF Stored
    <3>3. CASE v.item # "in" /\ Agree(srv, Stored(NoRecords, rs))
      <4>1. Arrived(rs)
        BY <3>3 DEF Takes
      <4>2. Complete(srv) /\ Agree(srv, RSAdd(NoRecords, rs))
        BY <1>1, <3>1, <3>3, <4>1 DEF Stored
      <4>3. \A k \in Key, f \in Field :
              /\ RSAdd(NoRecords, rs)[k][f] = rs.inc[k][f]
              /\ X[k][f] = IF rs.inc[k][f] = NoChange THEN Known(v.state)[k][f] ELSE rs.inc[k][f]
        <5>1. \A k \in Key, f \in Field :
                RSAdd(NoRecords, rs)[k][f] = IF rs.inc[k][f] = NoChange THEN NoRecords[k][f]
                                             ELSE rs.inc[k][f]
          BY <1>1, PlainAdd, ConstantTypes
        <5>2. \A k \in Key, f \in Field :
                X[k][f] = IF rs.inc[k][f] = NoChange THEN Known(v.state)[k][f] ELSE rs.inc[k][f]
          BY <1>1, PlainAdd
        <5> QED
          BY <5>1, <5>2, NothingAdded
      <4> HIDE DEF X
      <4>4. ASSUME NEW k \in Key, NEW f \in Unfiltered PROVE srv[k][f] = X[k][f]
        <5>1. f \in Field /\ f \notin Filtered
          BY DEF Unfiltered
        <5>2. srv[k][f] # NoChange /\ srv[k][f] = RSAdd(NoRecords, rs)[k][f]
          BY <4>2, <5>1 DEF Complete, Agree
        <5> QED
          BY <4>3, <5>1, <5>2
      <4> QED
        BY <4>4 DEF Agree
    <3> QED
      BY <1>15, <3>2, <3>3 DEF BeforeSent
  <2>2. Agree(Known(R.state), RSAdd(X, r.send))
    BY <1>2, <1>5 DEF TakenGood
  <2>3. ~(Leaves(v, rs, r) /\ (v.state.new \/ ~v.state.exists))
    <3> SUFFICES ASSUME Leaves(v, rs, r), v.state.new \/ ~v.state.exists PROVE FALSE
      OBVIOUS
    <3>1. ~Enters(v, rs, r) /\ v.item # "in"
      BY DEF Leaves, MergedItem
    <3>2. ~v.state.new /\ ~v.state.exists
      BY <1>15, <3>1 DEF BeforeSent
    <3>3. ~Arrived(rs)
      BY <3>1, <3>2 DEF Enters
    <3> QED
      BY <3>1, <3>3 DEF Takes
  <2> HIDE DEF X
  <2>4. r.send = EmptyDiff => Agree(srv, Known(R.state))
    <3>1. r.send = EmptyDiff => RSAdd(X, r.send) = X
      BY <1>1, NothingAdded
    <3> QED
      BY <1>1, <1>5, <2>1, <2>2, <3>1, AgreeIs
  <2>5. Stored(Known(R.state), EmptyDiff) = Known(R.state)
    BY <1>5, <1>12, NothingAdded DEF Stored
  <2>6. Agree(Known(R.state), RSAdd(srv, r.send))
    <3>1. Agree(RSAdd(srv, r.send), RSAdd(X, r.send))
      BY <1>1, <1>12, <2>1, AddAgree
    <3>2. RSAdd(srv, r.send) \in RecordSet /\ RSAdd(X, r.send) \in RecordSet
      BY <1>1, <1>12, AddType
    <3> QED
      BY <1>5, <2>2, <3>1, <3>2, AgreeIs
  <2>7. ASSUME R.send = EmptyDiff
        PROVE  Agree(srv, Stored(Known(R.state), EmptyDiff)) /\ ~R.forget
    <3>1. ~Leaves(v, rs, r)
      BY <1>3, <1>12, <2>3, <2>7
    <3> QED
      BY <1>3, <1>11, <2>4, <2>5, <2>7, <3>1
  <2>8. ASSUME R.send = Removed
        PROVE  R.withheld \/ Agree(srv, Stored(Known(R.state), EmptyDiff))
    <3>1. Leaves(v, rs, r)
      BY <1>3, <1>12, <2>8
    <3> QED
      BY <1>3, <2>4, <2>5, <3>1
  <2>9. Sends(R) => ~R.forget /\ Agree(Known(R.state), RSAdd(srv, R.send))
    BY <1>11, <1>13, <2>6
  <2> QED
    BY <1>3, <2>7, <2>8, <2>9 DEF SentBook
<1> QED
  BY <1>14, <1>15

(* The same of an item that the run leaves alone.                           *)
LEMMA QuietIs ==
  ASSUME NEW v \in SyncView, NEW rs \in Diff, ~Takes(v, rs),
         NEW st, st = QuietState(v, rs), NEW R, R = Fetched(v, rs)
  PROVE  /\ R \in SyncView
         /\ R.phase = "got" /\ R.item = v.item /\ R.local = v.local /\ R.state = st
         /\ R.send = IF Left(v, st) /\ ~st.removal /\ ~st.new THEN Removed ELSE EmptyDiff
         /\ R.forget <=> st.exists /\ (EmptyState(st) \/ v.item # "in")
         /\ ~R.withheld
         /\ (R.applied <=> v.applied) /\ (R.moved <=> v.moved)
         /\ (R.edited <=> v.edited) /\ (R.discarded <=> v.discarded)
         /\ st \in SyncState
<1> DEFINE send == IF Left(v, st) /\ ~st.removal /\ ~st.new THEN Removed ELSE EmptyDiff
           forget == st.exists /\ (EmptyState(st) \/ v.item # "in")
           no == FALSE
<1>1. R = Result(v, rs, v.item, v.local, st, send, forget, no, EmptyDiff)
  BY RunQuiet DEF QuietResult
<1>2. v.state \in SyncState /\ v.item \in Membership /\ v.local \in FullRecordSet
  BY DEF SyncView
<1>3. st \in SyncState
  <2>1. CASE v.item = "gone" /\ Arrived(rs)
    <3>1. st = [agreed |-> NoRecords, pending |-> EmptyDiff, removal |-> FALSE,
                exists |-> v.state.exists, new |-> v.state.new]
      BY <1>2, <2>1, StateParts, Zenon DEF QuietState
    <3>2. v.state.exists \in BOOLEAN /\ v.state.new \in BOOLEAN
      BY <1>2 DEF SyncState
    <3> QED
      BY <3>1, <3>2, ConstantTypes DEF SyncState
  <2>2. CASE ~(v.item = "gone" /\ Arrived(rs))
    BY <1>2, <2>2 DEF QuietState
  <2> QED
    BY <2>1, <2>2
<1>4. send \in ServerChange /\ forget \in BOOLEAN /\ no \in BOOLEAN /\ rs \in ServerChange
  <2>1. st.exists \in BOOLEAN
    BY <1>3 DEF SyncState
  <2> QED
    BY <2>1, ConstantTypes DEF ServerChange
<1>5. ~no
  OBVIOUS
<1> HIDE DEF send, forget, no
<1>6. /\ R \in SyncView
      /\ R.phase = "got" /\ R.item = v.item /\ R.local = v.local /\ R.state = st
      /\ R.send = send /\ (R.forget <=> forget) /\ (R.withheld <=> no)
      /\ R.applied <=> v.applied \/ EmptyDiff # EmptyDiff
      /\ R.moved <=> v.moved \/ v.item # v.item
      /\ (R.edited <=> v.edited) /\ (R.discarded <=> v.discarded)
  BY <1>1, <1>2, <1>3, <1>4, ResultIs
<1> QED
  BY <1>3, <1>5, <1>6 DEF send, forget

LEMMA QuietKeeps ==
  ASSUME NEW v \in SyncView, NEW rs \in Diff, NEW srv \in RecordSet, Before(v, srv, rs),
         ~Takes(v, rs), NEW R, R = Fetched(v, rs)
  PROVE  /\ ViewBook(R, srv, EmptyDiff, FALSE)
         /\ BeforeSent(v, srv, rs) => SentBook(R, srv, EmptyDiff, FALSE)
<1> DEFINE st == QuietState(v, rs)
<1>1. /\ v.state \in SyncState /\ Known(v.state) \in RecordSet
      /\ v.state.agreed \in RecordSet /\ v.state.pending \in Diff
      /\ Arrived(rs) => Complete(srv) /\ Complete(RSAdd(Known(v.state), rs))
      /\ ~Arrived(rs) => rs = EmptyDiff
  BY ExternalIs
<1>2. /\ R.phase = "got" /\ R.item = v.item /\ R.local = v.local /\ R.state = st
      /\ R.send = IF Left(v, st) /\ ~st.removal /\ ~st.new THEN Removed ELSE EmptyDiff
      /\ R.forget <=> st.exists /\ (EmptyState(st) \/ v.item # "in")
  BY QuietIs
<1>3. ~Arrived(rs) /\ rs = EmptyDiff
  BY <1>1, NotComplete DEF Takes
<1>4. st = v.state
  BY <1>3 DEF QuietState
<1>5. EmptyDiff # Removed
  BY ConstantTypes, RecordSetSyncAssumption
<1>6. \A x \in RecordSet : Stored(x, EmptyDiff) = x
  BY <1>5, NothingAdded DEF Stored
<1>7. ~Sends(R)
  BY <1>2 DEF Sends
<1> HIDE DEF st
<1>8. ViewBook(R, srv, EmptyDiff, FALSE)
  <2>1. ItemOK(R.item, R.local) /\ StateOK(R.state)
    BY <1>2, <1>4 DEF Before
  <2>2. AnswerOK(srv, EmptyDiff)
    BY <1>5, NothingAdded DEF AnswerOK
  <2>3. \/ Complete(Known(R.state))
        \/ Known(R.state) = NoRecords /\ Agree(srv, Stored(NoRecords, EmptyDiff))
    BY <1>2, <1>3, <1>4 DEF Before
  <2>4. LocalIsAgreed(R.item, R.local, R.state)
    <3> SUFFICES ASSUME v.item = "in", ~v.state.removal
                 PROVE  LocalIsAgreed(v.item, v.local, v.state)
      BY <1>2, <1>4 DEF LocalIsAgreed
    <3>1. ~v.changed
      BY DEF Takes
    <3> QED
      BY <3>1 DEF Before
  <2>5. srv = NoRecords /\ R.item = "in" /\ ~R.state.removal => R.state.pending = EmptyDiff
    BY <1>2, <1>3, <1>4 DEF Before
  <2> QED
    BY <1>7, <2>1, <2>2, <2>3, <2>4, <2>5 DEF ViewBook
<1>9. ASSUME BeforeSent(v, srv, rs) PROVE SentBook(R, srv, EmptyDiff, FALSE)
  <2>1. \/ Agree(srv, Known(v.state))
        \/ v.item # "in" /\ Agree(srv, NoRecords)
    BY <1>1, <1>3, <1>6, <1>9, ConstantTypes DEF BeforeSent
  <2>2. v.state.agreed = NoRecords /\ v.state.pending = EmptyDiff => Known(v.state) = NoRecords
    BY <1>1, NothingKnown DEF Before, StateOK
  <2>3. ASSUME R.send = EmptyDiff, v.item # "in" PROVE Known(v.state) = NoRecords
    <3>1. ~v.state.new
      BY <1>9, <2>3 DEF BeforeSent
    <3>2. ~v.state.exists \/ EmptyState(v.state) \/ v.state.removal
      BY <1>2, <1>4, <1>5, <2>3, <3>1 DEF Left
    <3> QED
      BY <2>2, <3>2 DEF Before, StateOK, EmptyState
  <2>4. ASSUME R.send = EmptyDiff
        PROVE  Agree(srv, Stored(Known(R.state), EmptyDiff)) /\ (R.forget => Known(R.state) = NoRecords)
    <3>1. Agree(srv, Known(v.state))
      BY <2>1, <2>3, <2>4
    <3>2. R.forget => Known(v.state) = NoRecords
      <4>1. EmptyState(v.state) => Known(v.state) = NoRecords
        BY <2>2 DEF EmptyState
      <4> QED
        BY <1>2, <1>4, <2>3, <2>4, <4>1
    <3> QED
      BY <1>1, <1>2, <1>4, <1>6, <3>1, <3>2
  <2>5. \/ Agree(srv, Stored(Known(R.state), EmptyDiff))
        \/ Agree(srv, Stored(NoRecords, EmptyDiff))
    BY <1>1, <1>2, <1>4, <1>6, <2>1, ConstantTypes
  <2> QED
    BY <1>2, <1>7, <2>4, <2>5 DEF SentBook
<1> QED
  BY <1>8, <1>9

(* ... and of one that was removed at the server.                           *)
LEMMA RemovedIs ==
  ASSUME NEW v \in SyncView, NEW R, R = Fetched(v, Removed)
  PROVE  \E apply \in Diff :
           /\ v.item # "in" \/ v.local \in Whole => apply = EmptyDiff
           /\ R \in SyncView
           /\ R.phase = "got" /\ R.local = Imported(v.local, apply)
           /\ R.send = EmptyDiff /\ ~R.forget
           /\ \/ R.item = RemovedFrom(v) /\ R.state = NoState /\ NothingUnsent(v)
              \/ v.item = "in" /\ R.item = v.item /\ R.state = KeptState(v)
           /\ R.applied <=> v.applied \/ apply # EmptyDiff
           /\ R.moved <=> v.moved \/ R.item # v.item
           /\ (R.edited <=> v.edited) /\ (R.discarded <=> v.discarded)
<1>1. v.item \in Membership /\ v.local \in FullRecordSet
  BY DEF SyncView
<1>2. PICK apply \in Diff :
        /\ v.item # "in" \/ v.local \in Whole => apply = EmptyDiff
        /\ \/ /\ NothingUnsent(v)
              /\ Fetched(v, Removed) =
                   Result(v, Removed, RemovedFrom(v), Imported(v.local, apply), NoState,
                          EmptyDiff, FALSE, FALSE, apply)
           \/ /\ v.item = "in"
              /\ Fetched(v, Removed) =
                   Result(v, Removed, v.item, Imported(v.local, apply), KeptState(v),
                          EmptyDiff, FALSE, FALSE, apply)
  BY RunRemoved
<1> DEFINE no == FALSE
           local == Imported(v.local, apply)
<1>3. no \in BOOLEAN /\ ~no /\ Removed \in ServerChange /\ EmptyDiff \in ServerChange
  BY ConstantTypes DEF ServerChange
<1>4. NoState \in SyncState /\ KeptState(v) \in SyncState
  <2>1. (v.state.new \/ ~v.state.exists) \in BOOLEAN
    OBVIOUS
  <2> QED
    BY <2>1, ConstantTypes DEF NoState, KeptState, SyncState
<1>5. RemovedFrom(v) \in Membership
  BY <1>1 DEF RemovedFrom, Membership
<1>6. local \in FullRecordSet
  BY <1>1, ImportedIs
<1> HIDE DEF local
<1>7. CASE /\ NothingUnsent(v)
           /\ R = Result(v, Removed, RemovedFrom(v), local, NoState, EmptyDiff, FALSE, FALSE, apply)
  <2>1. R = Result(v, Removed, RemovedFrom(v), local, NoState, EmptyDiff, no, no, apply)
    BY <1>7, Zenon DEF no
  <2> HIDE DEF no
  <2>2. /\ R \in SyncView
        /\ R.phase = "got" /\ R.item = RemovedFrom(v) /\ R.local = local /\ R.state = NoState
        /\ R.send = EmptyDiff /\ (R.forget <=> no)
        /\ R.applied <=> v.applied \/ apply # EmptyDiff
        /\ R.moved <=> v.moved \/ RemovedFrom(v) # v.item
        /\ (R.edited <=> v.edited) /\ (R.discarded <=> v.discarded)
    BY <1>3, <1>4, <1>5, <1>6, <2>1, ResultIs
  <2> QED
    BY <1>2, <1>3, <1>7, <2>2 DEF local
<1>8. CASE /\ v.item = "in"
           /\ R = Result(v, Removed, v.item, local, KeptState(v), EmptyDiff, FALSE, FALSE, apply)
  <2>1. R = Result(v, Removed, v.item, local, KeptState(v), EmptyDiff, no, no, apply)
    BY <1>8, Zenon DEF no
  <2> HIDE DEF no
  <2>2. /\ R \in SyncView
        /\ R.phase = "got" /\ R.item = v.item /\ R.local = local /\ R.state = KeptState(v)
        /\ R.send = EmptyDiff /\ (R.forget <=> no)
        /\ R.applied <=> v.applied \/ apply # EmptyDiff
        /\ R.moved <=> v.moved \/ v.item # v.item
        /\ (R.edited <=> v.edited) /\ (R.discarded <=> v.discarded)
    BY <1>1, <1>3, <1>4, <1>6, <2>1, ResultIs
  <2> QED
    BY <1>2, <1>3, <1>8, <2>2 DEF local
<1> QED
  BY <1>2, <1>7, <1>8 DEF local

LEMMA RemovedKeeps ==
  ASSUME NEW v \in SyncView, NEW srv \in RecordSet, Before(v, srv, Removed),
         NEW R, R = Fetched(v, Removed)
  PROVE  ViewBook(R, srv, EmptyDiff, FALSE) /\ SentBook(R, srv, EmptyDiff, FALSE)
<1>1. srv = NoRecords /\ EmptyDiff # Removed
  BY ConstantTypes, RecordSetSyncAssumption DEF Before, AnswerOK
<1>2. /\ R.phase = "got" /\ R.local = v.local /\ R.send = EmptyDiff /\ ~R.forget
      /\ \/ R.item = RemovedFrom(v) /\ R.state = NoState
         \/ v.item = "in" /\ R.item = v.item /\ R.state = KeptState(v)
  <2>1. v.item = "in" => v.local \in Whole
    BY DEF Before, ItemOK
  <2> QED
    BY <2>1, RemovedIs DEF Imported
<1>3. /\ R.state.agreed = NoRecords /\ R.state.pending = EmptyDiff
      /\ R.state.exists \/ ~R.state.removal
  BY <1>2 DEF NoState, KeptState
<1>4. Known(R.state) = NoRecords
  BY <1>3, NothingAdded, ConstantTypes DEF Known
<1>5. FilterClear(R.state) /\ R.state.pending.exc = {}
  <2>1. Filtered \subseteq Field
    BY StateMergeAssumption
  <2> QED
    BY <1>3, <2>1, NothingAdded DEF FilterClear
<1>6. StateOK(R.state)
  BY <1>3, <1>4, <1>5 DEF StateOK
<1>7. Stored(NoRecords, EmptyDiff) = NoRecords /\ Agree(srv, NoRecords)
  BY <1>1, NothingAdded, AgreeIs, ConstantTypes DEF Stored
<1>8. ItemOK(R.item, R.local)
  BY <1>2 DEF Before, ItemOK, RemovedFrom
<1>9. LocalIsAgreed(R.item, R.local, R.state)
  <2>1. R.item # "in" \/ R.state.removal
    BY <1>2 DEF RemovedFrom, KeptState
  <2> QED
    BY <2>1 DEF LocalIsAgreed
<1>10. AnswerOK(srv, EmptyDiff) /\ ~Sends(R)
  BY <1>1, <1>2, NothingAdded DEF AnswerOK, Sends
<1>11. ViewBook(R, srv, EmptyDiff, FALSE)
  BY <1>3, <1>4, <1>6, <1>7, <1>8, <1>9, <1>10 DEF ViewBook
<1>12. SentBook(R, srv, EmptyDiff, FALSE)
  BY <1>1, <1>2, <1>4, <1>7, <1>10 DEF SentBook
<1> QED
  BY <1>11, <1>12

(* A run of a view over any server's answer: it is a view again, linked to  *)
(* the repository, and keeps the books.                                    *)
LEMMA RunLinked ==
  ASSUME NEW v \in SyncView, Linked(v), v.item = "gone" => v.local = NoRecords,
         NEW rs \in ServerChange, NEW R, R = Fetched(v, rs)
  PROVE  R \in SyncView /\ Linked(R) /\ R.phase = "got" /\ (R.discarded <=> v.discarded)
<1>1. v.item \in Membership
  BY DEF SyncView
<1>2. CASE rs \in Diff /\ Takes(v, rs)
  <2> DEFINE r == TakenBy(v, rs)
             st == TakenState(v, r)
  <2>1. /\ R \in SyncView
        /\ R.phase = "got" /\ R.item = MergedItem(v, rs, r) /\ R.local = Imported(v.local, r.apply)
        /\ R.state = st
        /\ R.send = IF Leaves(v, rs, r)
                    THEN IF v.state.new \/ ~v.state.exists THEN EmptyDiff ELSE Removed
                    ELSE r.send
        /\ R.forget <=> EmptyState(st) \/ Leaves(v, rs, r)
        /\ R.applied <=> v.applied \/ r.apply # EmptyDiff
        /\ R.moved <=> v.moved \/ MergedItem(v, rs, r) # v.item
        /\ (R.edited <=> v.edited) /\ (R.discarded <=> v.discarded)
        /\ IsMerge(r)
    BY <1>2, MergedIs
  <2>2. r.send # Removed /\ EmptyDiff # Removed
    BY <2>1, ConstantTypes, RecordSetSyncAssumption DEF IsMerge
  <2> HIDE DEF r
  <2>3. st.exists /\ (st.new <=> v.state.new \/ ~v.state.exists)
    BY DEF TakenState
  <2>4. Leaves(v, rs, r) => R.item # "in"
    BY <2>1 DEF Leaves
  <2> HIDE DEF st
  <2>5. ~R.edited /\ ~R.applied => R.local = repo.local
    BY <2>1 DEF Linked, Imported
  <2>6. R.item = MergedItem(v, rs, r) /\ (R.item = v.item \/ R.item = "in")
    BY <2>1 DEF MergedItem
  <2>7. ~R.edited /\ ~R.moved => R.item = repo.item
    BY <2>1 DEF Linked
  <2>8. R.item = "gone" => ~R.applied /\ ~R.moved
    <3> SUFFICES ASSUME R.item = "gone" PROVE ~R.applied /\ ~R.moved
      OBVIOUS
    <3>1. v.item = "gone"
      BY <2>6
    <3>2. Arrived(rs)
      BY <1>2, <3>1 DEF Takes
    <3>3. r.apply = EmptyDiff
      BY <2>6, <3>2 DEF MergedItem, Enters
    <3> QED
      BY <2>1, <2>6, <3>1, <3>3 DEF Linked
  <2>9. repo.item = "gone" => ~R.edited /\ (~R.moved => R.item = "gone")
    BY <2>1 DEF Linked
  <2>10. repo.item # "gone" => R.item # "gone"
    BY <2>6 DEF Linked
  <2>11. R.state.new => R.item = "in" /\ R.state.exists
    <3> SUFFICES ASSUME v.state.new \/ ~v.state.exists PROVE R.item = "in"
      BY <2>1, <2>3
    <3>1. CASE v.state.new
      BY <2>6, <3>1 DEF Linked
    <3>2. CASE ~v.state.exists
      <4>1. Arrived(rs) => R.item = "in"
        BY <2>6, <3>2 DEF MergedItem, Enters
      <4>2. ~Arrived(rs) => v.item = "in"
        BY <1>2 DEF Takes
      <4> QED
        BY <2>6, <4>1, <4>2
    <3> QED
      BY <3>1, <3>2
  <2>12. R.forget => R.item # "in" \/ EmptyState(R.state)
    BY <2>1, <2>4
  <2>13. R.send = Removed => R.forget /\ R.item # "in"
    BY <2>1, <2>2, <2>4
  <2> QED
    BY <2>1, <2>5, <2>7, <2>8, <2>9, <2>10, <2>11, <2>12, <2>13 DEF Linked
<1>3. CASE rs \in Diff /\ ~Takes(v, rs)
  <2> DEFINE st == QuietState(v, rs)
  <2>1. /\ R \in SyncView
        /\ R.phase = "got" /\ R.item = v.item /\ R.local = v.local /\ R.state = st
        /\ R.send = IF Left(v, st) /\ ~st.removal /\ ~st.new THEN Removed ELSE EmptyDiff
        /\ R.forget <=> st.exists /\ (EmptyState(st) \/ v.item # "in")
        /\ (R.applied <=> v.applied) /\ (R.moved <=> v.moved)
        /\ (R.edited <=> v.edited) /\ (R.discarded <=> v.discarded)
    BY <1>3, QuietIs
  <2>2. EmptyDiff # Removed
    BY ConstantTypes, RecordSetSyncAssumption
  <2>3. st.new => v.item = "in" /\ st.exists
    <3>1. CASE v.item = "gone" /\ Arrived(rs)
      <4>1. v.state \in SyncState
        BY DEF SyncView
      <4>2. st = [agreed |-> NoRecords, pending |-> EmptyDiff, removal |-> FALSE,
                  exists |-> v.state.exists, new |-> v.state.new]
        BY <3>1, <4>1, StateParts, Zenon DEF QuietState
      <4>3. st.new = v.state.new
        BY <4>2
      <4> QED
        BY <3>1, <4>3 DEF Linked
    <3>2. CASE ~(v.item = "gone" /\ Arrived(rs))
      BY <3>2 DEF QuietState, Linked
    <3> QED
      BY <3>1, <3>2
  <2> HIDE DEF st
  <2>4. R.send = Removed => R.forget /\ R.item # "in"
    BY <2>1, <2>2 DEF Left
  <2> QED
    BY <2>1, <2>3, <2>4 DEF Linked
<1>4. CASE rs = Removed
  <2>1. PICK apply \in Diff :
           /\ v.item # "in" \/ v.local \in Whole => apply = EmptyDiff
           /\ R \in SyncView
           /\ R.phase = "got" /\ R.local = Imported(v.local, apply)
           /\ R.send = EmptyDiff /\ ~R.forget
           /\ \/ R.item = RemovedFrom(v) /\ R.state = NoState
              \/ v.item = "in" /\ R.item = v.item /\ R.state = KeptState(v)
           /\ R.applied <=> v.applied \/ apply # EmptyDiff
           /\ R.moved <=> v.moved \/ R.item # v.item
           /\ (R.edited <=> v.edited) /\ (R.discarded <=> v.discarded)
    BY <1>4, RemovedIs
  <2>2. EmptyDiff # Removed
    BY ConstantTypes, RecordSetSyncAssumption
  <2>3. /\ R.item = "gone" <=> v.item = "gone"
        /\ R.item = "gone" => R.item = v.item
    BY <2>1 DEF RemovedFrom
  <2>4. R.state.new => R.item = "in" /\ R.state.exists
    BY <2>1 DEF NoState, KeptState
  <2>5. ~R.edited /\ ~R.applied => R.local = repo.local
    BY <2>1 DEF Linked, Imported
  <2>6. R.item = "gone" => ~R.applied /\ ~R.moved
    BY <2>1, <2>3 DEF Linked
  <2> QED
    BY <2>1, <2>2, <2>3, <2>4, <2>5, <2>6 DEF Linked
<1> QED
  BY <1>2, <1>3, <1>4 DEF ServerChange

LEMMA RunKeeps ==
  ASSUME NEW v \in SyncView, NEW rs \in ServerChange, NEW srv \in RecordSet, Before(v, srv, rs),
         NEW R, R = Fetched(v, rs)
  PROVE  /\ ViewBook(R, srv, EmptyDiff, FALSE)
         /\ BeforeSent(v, srv, rs) => SentBook(R, srv, EmptyDiff, FALSE)
<1>1. CASE rs \in Diff /\ Takes(v, rs)
  BY <1>1, TakenKeeps
<1>2. CASE rs \in Diff /\ ~Takes(v, rs)
  BY <1>2, QuietKeeps
<1>3. CASE rs = Removed
  BY <1>3, RemovedKeeps
<1> QED
  BY <1>1, <1>2, <1>3 DEF ServerChange

-----------------------------------------------------------------------------
(* The steps. *)
LEMMA BusyIs ==
  /\ \A w \in SyncView : w.phase \in {"got", "sent"}
  /\ NoView.phase = "idle" /\ Committed.phase = "done"
  /\ NoView \notin SyncView /\ Committed \notin SyncView
<1>1. \A w \in SyncView : w.phase \in {"got", "sent"}
  BY DEF SyncView
<1>2. NoView.phase = "idle" /\ Committed.phase = "done"
  BY DEF NoView, Committed
<1> QED
  BY <1>1, <1>2

LEMMA BusyViews ==
  ASSUME SyncTypes
  PROVE  Busy <=> view \in SyncView
  BY BusyIs DEF SyncTypes, Busy

LEMMA NoStateIs ==
  /\ NoState \in SyncState /\ StateOK(NoState) /\ Known(NoState) = NoRecords
  /\ NoState.agreed = NoRecords /\ NoState.pending = EmptyDiff
  /\ ~NoState.removal /\ ~NoState.exists /\ ~NoState.new
<1>1. /\ NoState.agreed = NoRecords /\ NoState.pending = EmptyDiff
      /\ ~NoState.removal /\ ~NoState.exists /\ ~NoState.new
  BY DEF NoState
<1>2. NoState \in SyncState
  BY ConstantTypes DEF NoState, SyncState
<1>3. Known(NoState) = NoRecords
  BY <1>1, NothingAdded, ConstantTypes DEF Known
<1>4. Filtered \subseteq Field
  BY StateMergeAssumption
<1> QED
  BY <1>1, <1>2, <1>3, <1>4, NothingAdded DEF StateOK, FilterClear

LEMMA EmptyIs ==
  /\ EmptyDiff \in ServerChange /\ Removed \in ServerChange /\ EmptyDiff # Removed
  /\ \A s \in RecordSet : AnswerOK(s, EmptyDiff) /\ Stored(s, EmptyDiff) = s
  /\ \A s \in RecordSet : Stored(s, Removed) = NoRecords
  /\ Agree(NoRecords, NoRecords) /\ NoRecords \in RecordSet
<1>1. EmptyDiff \in Diff /\ EmptyDiff # Removed
  BY ConstantTypes, RecordSetSyncAssumption
<1> QED
  BY <1>1, NothingAdded, AgreeIs, ConstantTypes DEF ServerChange, AnswerOK, Stored

LEMMA InitBooks == Init => Books
<1> SUFFICES ASSUME Init PROVE Books
  OBVIOUS
<1>1. /\ view = NoView /\ missed = EmptyDiff /\ news = EmptyDiff /\ ~stale /\ stale \in BOOLEAN
      /\ server = NoRecords /\ discarded \in BOOLEAN
  BY DEF Init
<1>2. /\ repo \in [item : Membership, local : FullRecordSet, state : SyncState, changed : BOOLEAN]
      /\ repo.state = NoState
      /\ \/ repo.item = "in" /\ repo.local \in Whole /\ repo.changed
         \/ repo.item = "gone" /\ repo.local = NoRecords
  <2>1. CASE repo \in {[item |-> "in", local |-> rs, state |-> NoState, changed |-> TRUE] : rs \in Whole}
    <3>1. PICK rs \in Whole : repo = [item |-> "in", local |-> rs, state |-> NoState, changed |-> TRUE]
      BY <2>1
    <3>2. rs \in FullRecordSet
      BY WholeIs
    <3>3. repo.item = "in" /\ repo.local = rs /\ repo.state = NoState /\ repo.changed
      BY <3>1
    <3>4. repo \in [item : Membership, local : FullRecordSet, state : SyncState, changed : BOOLEAN]
      BY <3>1, <3>2, NoStateIs DEF Membership
    <3> QED
      BY <3>3, <3>4
  <2>2. CASE repo = [item |-> "gone", local |-> NoRecords, state |-> NoState, changed |-> FALSE]
    <3>1. repo.item = "gone" /\ repo.local = NoRecords /\ repo.state = NoState
      BY <2>2
    <3>2. repo \in [item : Membership, local : FullRecordSet, state : SyncState, changed : BOOLEAN]
      BY <2>2, NoStateIs, WholeIs DEF Membership
    <3> QED
      BY <3>1, <3>2
  <2> QED
    BY <2>1, <2>2 DEF Init
<1>3. SyncTypes
  BY <1>1, <1>2, EmptyIs, NoStateIs DEF SyncTypes
<1>4. ~Busy
  BY <1>1, BusyIs DEF Busy
<1>5. RepoBook
  <2>1. ItemOK(repo.item, repo.local)
    BY <1>2 DEF ItemOK
  <2>2. ~repo.changed => LocalIsAgreed(repo.item, repo.local, repo.state)
    BY <1>2 DEF LocalIsAgreed
  <2> QED
    BY <1>1, <1>2, <2>1, <2>2, EmptyIs, NoStateIs DEF RepoBook, ServerOK
<1> QED
  BY <1>3, <1>4, <1>5 DEF Books, BookInv

(* What a change at the server does to the answers that it will give.        *)
LEMMA ServerMoves ==
  ASSUME NEW srv \in RecordSet, ServerOK(srv),
         NEW p \in ServerChange, p # Removed => p.exc = {},
         srv = NoRecords /\ p # Removed => Complete(p.inc)
  PROVE  /\ Stored(srv, p) \in RecordSet /\ ServerOK(Stored(srv, p))
         /\ p # Removed => Complete(Stored(srv, p)) /\ Stored(srv, p) # NoRecords
         /\ \A m \in ServerChange : AnswerOK(srv, m) =>
              /\ AnswerOK(Stored(srv, p), Fold(m, p))
              /\ \A s \in RecordSet :
                   Agree(srv, Stored(s, m)) => Agree(Stored(srv, p), Stored(s, Fold(m, p)))
<1>1. Stored(srv, p) \in RecordSet
  BY StoredType
<1>2. ASSUME p # Removed PROVE Complete(Stored(srv, p)) /\ Stored(srv, p) # NoRecords
  <2>1. p \in Diff /\ p.exc = {} /\ Stored(srv, p) = RSAdd(srv, p)
    BY <1>2 DEF ServerChange, Stored
  <2>2. Complete(RSAdd(srv, p))
    BY <1>2, <2>1, PlainAdd DEF ServerOK
  <2> QED
    BY <2>1, <2>2, NotComplete
<1>3. p = Removed => Stored(srv, p) = NoRecords
  BY DEF Stored
<1>4. ASSUME NEW m \in ServerChange, AnswerOK(srv, m)
      PROVE  AnswerOK(Stored(srv, p), Fold(m, p))
  <2>1. CASE p = Removed
    BY <1>3, <2>1, FoldIs DEF AnswerOK
  <2>2. CASE p # Removed
    <3>1. Fold(m, p) \in Diff /\ Fold(m, p).exc = {}
      BY <1>4, <2>2, FoldIs DEF AnswerOK
    <3> QED
      BY <1>2, <2>2, <3>1, RecordSetSyncAssumption DEF AnswerOK
  <2> QED
    BY <2>1, <2>2
<1>5. ASSUME NEW m \in ServerChange, AnswerOK(srv, m), NEW s \in RecordSet,
             Agree(srv, Stored(s, m))
      PROVE  Agree(Stored(srv, p), Stored(s, Fold(m, p)))
  BY <1>5, FoldKeeps
<1> QED
  BY <1>1, <1>2, <1>3, <1>4, <1>5 DEF ServerOK

(* The two ways into a run.                                                *)
LEMMA NewViewIs ==
  ASSUME SyncTypes
  PROVE  /\ NewView \in SyncView /\ Linked(NewView) /\ ~NewView.discarded
         /\ NewView.item = "gone" => NewView.local = NoRecords
         /\ ~discarded /\ RepoBook => /\ Before(NewView, server, missed)
                                      /\ BeforeSent(NewView, server, missed)
<1>1. /\ NewView.item = repo.item /\ NewView.local = repo.local /\ NewView.state = repo.state
      /\ (NewView.changed <=> repo.changed) /\ ~NewView.discarded /\ ~NewView.edited
      /\ ~NewView.applied /\ ~NewView.moved /\ ~NewView.forget /\ NewView.send = EmptyDiff
  BY DEF NewView
<1>2. /\ repo.item \in Membership /\ repo.local \in FullRecordSet /\ repo.state \in SyncState
      /\ repo.changed \in BOOLEAN /\ server \in RecordSet
  BY DEF SyncTypes
<1>3. NewView \in SyncView
  <2>1. Tries \in 1..Tries
    BY RecordSetSyncAssumption
  <2> QED
    BY <1>2, <2>1, EmptyIs DEF NewView, SyncView
<1>4. Linked(NewView)
  BY <1>1, EmptyIs DEF Linked, SyncTypes
<1>5. NewView.item = "gone" => NewView.local = NoRecords
  BY <1>1 DEF SyncTypes
<1>6. ASSUME RepoBook
      PROVE  Before(NewView, server, missed) /\ BeforeSent(NewView, server, missed)
  <2>1. /\ ServerOK(server) /\ ItemOK(repo.item, repo.local) /\ StateOK(repo.state)
        /\ AnswerOK(server, missed) /\ Agree(server, Stored(Known(repo.state), missed))
        /\ ~repo.changed => LocalIsAgreed(repo.item, repo.local, repo.state)
    BY <1>6 DEF RepoBook
  <2>2. repo.state.agreed \in RecordSet /\ repo.state.pending \in Diff
    BY <1>2 DEF SyncState
  <2>3. ASSUME server = NoRecords, missed = EmptyDiff
        PROVE  repo.state.pending = EmptyDiff /\ Known(repo.state) = NoRecords
    <3>1. Known(repo.state) \in RecordSet
      BY <2>2, KnownType
    <3>2. Agree(Known(repo.state), NoRecords)
      BY <2>1, <2>3, <3>1, EmptyIs, AgreeIs
    <3> QED
      BY <2>1, <2>2, <3>2, NothingKnown DEF StateOK
  <2>4. \/ Complete(Known(repo.state))
        \/ Known(repo.state) = NoRecords /\ Agree(server, Stored(NoRecords, missed))
    BY <2>1 DEF StateOK
  <2>5. BeforeSent(NewView, server, missed)
    BY <1>1, <2>1 DEF BeforeSent, SyncTypes
  <2>6. Before(NewView, server, missed)
    BY <1>1, <2>1, <2>3, <2>4 DEF Before
  <2> QED
    BY <2>5, <2>6
<1> QED
  BY <1>1, <1>3, <1>4, <1>5, <1>6

LEMMA RetryIs ==
  ASSUME SyncTypes, view \in SyncView, Linked(view), view.tries # 1,
         NEW v, v = [view EXCEPT !.tries = @ - 1, !.discarded = @ \/ Unsent]
  PROVE  /\ v \in SyncView /\ Linked(v) /\ (v.discarded <=> view.discarded \/ Unsent)
         /\ v.item = view.item /\ v.local = view.local
         /\ ServerOK(server) /\ ViewBook(view, server, news, stale) => Before(v, server, news)
         /\ ~v.discarded /\ SentBook(view, server, news, stale) => BeforeSent(v, server, news)
<1> DEFINE u == view.discarded \/ Unsent
           t == view.tries - 1
<1>1. u \in BOOLEAN /\ t \in 1..Tries
  <2>1. view.tries \in 1..Tries /\ Tries \in Nat
    BY RecordSetSyncAssumption DEF SyncView
  <2> QED
    BY <2>1
<1>2. v = [view EXCEPT !.tries = t, !.discarded = u]
  OBVIOUS
<1> HIDE DEF u, t
<1>3. v \in SyncView
  BY <1>1, <1>2 DEF SyncView
<1>4. /\ v.item = view.item /\ v.local = view.local /\ v.state = view.state
      /\ (v.changed = view.changed) /\ (v.edited = view.edited) /\ (v.applied = view.applied)
      /\ (v.moved = view.moved) /\ (v.forget = view.forget) /\ v.send = view.send
      /\ v.discarded = u
  BY <1>2 DEF SyncView
<1>5. Linked(v)
  BY <1>4 DEF Linked
<1>6. ASSUME ServerOK(server), ViewBook(view, server, news, stale) PROVE Before(v, server, news)
  BY <1>4, <1>6 DEF ViewBook, Before, LocalIsAgreed
<1>7. ASSUME ~v.discarded, SentBook(view, server, news, stale) PROVE BeforeSent(v, server, news)
  <2>1. ~Unsent
    BY <1>4, <1>7 DEF u
  <2>2. v.state.new => v.item = "in"
    BY <1>5 DEF Linked
  <2>3. view.phase \in {"got", "sent"}
    BY BusyIs
  <2>4. CASE view.send = EmptyDiff
    BY <1>4, <1>7, <2>2, <2>4 DEF BeforeSent, SentBook
  <2>5. CASE Sends(view)
    <3>1. view.phase = "sent"
      BY <2>1, <2>3, <2>5 DEF Unsent, Sends
    <3> QED
      BY <1>4, <1>7, <2>2, <2>5, <3>1 DEF BeforeSent, SentBook
  <2>6. CASE view.send = Removed
    <3>1. view.item # "in"
      BY <2>6 DEF Linked
    <3>2. view.phase = "got" => ~view.withheld
      BY <2>1 DEF Unsent
    <3>3. \/ Agree(server, Stored(Known(view.state), news))
          \/ Agree(server, Stored(NoRecords, news))
      BY <1>7, <2>3, <2>6, <3>2 DEF SentBook
    <3> QED
      BY <1>4, <2>2, <3>1, <3>3 DEF BeforeSent
  <2> QED
    BY <2>4, <2>5, <2>6 DEF Sends
<1> QED
  BY <1>3, <1>4, <1>5, <1>6, <1>7 DEF u

LEMMA FetchStep ==
  ASSUME Books, NEW v \in SyncView, Linked(v), v.item = "gone" => v.local = NoRecords,
         NEW rs \in ServerChange,
         ~discarded => Before(v, server, rs),
         ~discarded /\ ~v.discarded => BeforeSent(v, server, rs),
         view' = Fetched(v, rs), news' = EmptyDiff, stale' = FALSE,
         UNCHANGED <<repo, missed, server, discarded>>
  PROVE  Books'
<1> DEFINE R == Fetched(v, rs)
<1>1. R \in SyncView /\ Linked(R) /\ R.phase = "got" /\ (R.discarded <=> v.discarded)
  BY RunLinked
<1>2. server \in RecordSet
  BY DEF Books, SyncTypes
<1>3. ~discarded => ViewBook(R, server, EmptyDiff, FALSE)
  BY <1>2, RunKeeps
<1>4. ~discarded /\ ~R.discarded => SentBook(R, server, EmptyDiff, FALSE)
  BY <1>1, <1>2, RunKeeps
<1> HIDE DEF R
<1>5. view' = R
  BY DEF R
<1>6. SyncTypes'
  BY <1>1, <1>5, EmptyIs DEF Books, SyncTypes
<1>7. (Busy => Linked(view))'
  BY <1>1, <1>5 DEF Linked
<1>8. ~discarded => ViewBook(view', server', news', stale')
  BY <1>3, <1>5, Zenon
<1>9. ~discarded /\ ~(view').discarded => SentBook(view', server', news', stale')
  BY <1>4, <1>5, Zenon
<1>10. BookInv'
  <2>1. ~discarded => RepoBook'
    BY DEF Books, BookInv, RepoBook, LocalIsAgreed
  <2> QED
    BY <1>8, <1>9, <2>1 DEF BookInv
<1> QED
  BY <1>6, <1>7, <1>10 DEF Books

LEMMA GetStep == Books /\ Get => Books'
<1> SUFFICES ASSUME Books, Get PROVE Books'
  OBVIOUS
<1>1. /\ view = NoView /\ view' = Fetched(NewView, missed) /\ news' = EmptyDiff /\ stale' = FALSE
      /\ UNCHANGED <<repo, missed, server, discarded>>
  BY DEF Get
<1>2. SyncTypes /\ missed \in ServerChange /\ (~discarded => RepoBook)
  BY DEF Books, SyncTypes, BookInv
<1>3. /\ NewView \in SyncView /\ Linked(NewView) /\ ~NewView.discarded
      /\ NewView.item = "gone" => NewView.local = NoRecords
      /\ ~discarded => Before(NewView, server, missed) /\ BeforeSent(NewView, server, missed)
  BY <1>2, NewViewIs
<1> QED
  BY <1>1, <1>2, <1>3, FetchStep

(* The view is gone and what the repository and the server hold is as before. *)
LEMMA DropStep ==
  ASSUME Books, view' \in {NoView, Committed}, news' \in ServerChange, stale' \in BOOLEAN,
         UNCHANGED <<repo, missed, server, discarded>>
  PROVE  Books'
<1>1. ~Busy'
  BY BusyIs DEF Busy
<1>2. SyncTypes'
  BY DEF Books, SyncTypes
<1>3. ~discarded => RepoBook'
  BY DEF Books, BookInv, RepoBook, LocalIsAgreed
<1> QED
  BY <1>1, <1>2, <1>3 DEF Books, BookInv

LEMMA MismatchStep == Books /\ Mismatch => Books'
<1> SUFFICES ASSUME Books, Mismatch PROVE Books'
  OBVIOUS
<1> DEFINE v == [view EXCEPT !.tries = @ - 1, !.discarded = @ \/ Unsent]
<1>1. /\ Busy /\ news' = EmptyDiff /\ stale' = FALSE
      /\ UNCHANGED <<repo, missed, server, discarded>>
      /\ view' = IF view.tries = 1 THEN NoView ELSE Fetched(v, news)
  BY DEF Mismatch
<1>2. SyncTypes /\ view \in SyncView /\ Linked(view) /\ news \in ServerChange
  BY <1>1, BusyViews DEF Books, SyncTypes
<1>3. CASE view.tries = 1
  <2>1. view' = NoView /\ news' \in ServerChange /\ stale' \in BOOLEAN
    BY <1>1, <1>3, EmptyIs
  <2> QED
    BY <1>1, <2>1, DropStep
<1>4. CASE view.tries # 1
  <2> HIDE DEF v
  <2>1. view' = Fetched(v, news)
    BY <1>1, <1>4
  <2>2. /\ v \in SyncView /\ Linked(v) /\ (v.discarded <=> view.discarded \/ Unsent)
        /\ v.item = view.item /\ v.local = view.local
        /\ ServerOK(server) /\ ViewBook(view, server, news, stale) => Before(v, server, news)
        /\ ~v.discarded /\ SentBook(view, server, news, stale) => BeforeSent(v, server, news)
    BY <1>2, <1>4, RetryIs DEF v
  <2>3. /\ ~discarded => ServerOK(server) /\ ViewBook(view, server, news, stale)
        /\ ~discarded /\ ~view.discarded => SentBook(view, server, news, stale)
    BY <1>1 DEF Books, BookInv, RepoBook
  <2>4. v.item = "gone" => v.local = NoRecords
    <3> SUFFICES ASSUME view.item = "gone" PROVE view.local = NoRecords
      BY <2>2
    <3> QED
      BY <1>2 DEF Linked, SyncTypes
  <2> QED
    BY <1>1, <1>2, <2>1, <2>2, <2>3, <2>4, FetchStep
<1> QED
  BY <1>3, <1>4

LEMMA FailStep == Books /\ Fail => Books'
<1> SUFFICES ASSUME Books, Fail PROVE Books'
  OBVIOUS
<1> QED
  BY EmptyIs, DropStep DEF Fail

LEMMA ReleaseStep == Books /\ Release => Books'
<1> SUFFICES ASSUME Books, Release PROVE Books'
  OBVIOUS
<1>1. news \in ServerChange /\ stale \in BOOLEAN
  BY DEF Books, SyncTypes
<1> QED
  BY <1>1, DropStep DEF Release

LEMMA PutStep == Books /\ Put => Books'
<1> SUFFICES ASSUME Books, Put PROVE Books'
  OBVIOUS
<1> DEFINE w == [view EXCEPT !.phase = "sent"]
           p == view.send
           srv == Stored(server, p)
           mis == Fold(missed, p)
<1>1. /\ Busy /\ view.phase = "got" /\ p # EmptyDiff /\ ~stale
      /\ server' = srv /\ missed' = mis /\ view' = w
      /\ UNCHANGED <<repo, news, stale, discarded>>
  BY DEF Put
<1>2. /\ SyncTypes /\ view \in SyncView /\ Linked(view) /\ p \in ServerChange
      /\ server \in RecordSet /\ missed \in ServerChange /\ news \in ServerChange
  BY <1>1, BusyViews DEF Books, SyncTypes, SyncView
<1>3. /\ w \in SyncView /\ w.phase = "sent" /\ w.item = view.item /\ w.local = view.local
      /\ w.state = view.state /\ w.send = p /\ w.forget = view.forget
      /\ w.applied = view.applied /\ w.moved = view.moved /\ w.edited = view.edited
      /\ w.discarded = view.discarded
  BY <1>2 DEF SyncView
<1> HIDE DEF w
<1>4. Linked(w)
  BY <1>2, <1>3 DEF Linked
<1>5. srv \in RecordSet /\ mis \in ServerChange
  BY <1>2, StoredType, FoldIs
<1>6. SyncTypes'
  BY <1>1, <1>2, <1>3, <1>5 DEF SyncTypes
<1>7. (Busy => Linked(view))'
  BY <1>1, <1>4 DEF Linked
<1>8. ASSUME ~discarded
      PROVE  /\ RepoBook' /\ ViewBook(w, srv, news, stale)
             /\ ~w.discarded => SentBook(w, srv, news, stale)
  <2>1. RepoBook /\ ViewBook(view, server, news, stale)
        /\ (~view.discarded => SentBook(view, server, news, stale))
    BY <1>1, <1>8 DEF Books, BookInv
  <2>2. news = EmptyDiff
    BY <1>1, <2>1 DEF ViewBook
  <2>3. p # Removed => Sends(view) /\ p.exc = {}
    BY <1>1, <2>1 DEF ViewBook, Sends
  <2>4. server = NoRecords /\ p # Removed => Complete(p.inc)
    BY <2>1, <2>2, <2>3 DEF ViewBook
  <2>5. ServerOK(server) /\ AnswerOK(server, missed)
    BY <2>1 DEF RepoBook
  <2>6. /\ ServerOK(srv)
        /\ p # Removed => Complete(srv) /\ srv # NoRecords
        /\ \A m \in ServerChange : AnswerOK(server, m) =>
              /\ AnswerOK(srv, Fold(m, p))
              /\ \A s \in RecordSet :
                   Agree(server, Stored(s, m)) => Agree(srv, Stored(s, Fold(m, p)))
    BY <1>2, <2>3, <2>4, <2>5, ServerMoves
  <2>7. p = Removed => srv = NoRecords
    BY DEF Stored
  <2>8. p = Removed => view.forget /\ view.item # "in"
    BY <1>2 DEF Linked
  <2>9. Known(repo.state) \in RecordSet /\ Known(view.state) \in RecordSet
    <3>1. repo.state \in SyncState /\ view.state \in SyncState
      BY <1>2 DEF SyncTypes, SyncView
    <3> QED
      BY <3>1, KnownType DEF SyncState
  <2>10. AnswerOK(srv, mis) /\ Agree(srv, Stored(Known(repo.state), mis))
    BY <1>2, <2>1, <2>5, <2>6, <2>9 DEF RepoBook
  <2> HIDE DEF srv, mis
  <2>11. RepoBook'
    BY <1>1, <2>1, <2>6, <2>10 DEF RepoBook, LocalIsAgreed
  <2>12. Sends(w) <=> p # Removed
    BY <1>1, <1>3, <2>3 DEF Sends
  <2>13. ViewBook(w, srv, news, stale)
    <3>1. \/ Complete(Known(w.state))
          \/ Known(w.state) = NoRecords /\ Agree(srv, Stored(NoRecords, news))
      <4>1. CASE p = Removed
        BY <1>3, <2>1, <2>2, <2>7, <4>1, EmptyIs DEF ViewBook
      <4>2. CASE p # Removed
        BY <1>1, <1>3, <2>1, <2>3, <4>2 DEF ViewBook
      <4> QED
        BY <4>1, <4>2
    <3>2. srv = NoRecords =>
            /\ w.item = "in" /\ ~w.state.removal => w.state.pending = EmptyDiff
            /\ Sends(w) => Complete(w.send.inc)
      BY <1>3, <2>6, <2>8, <2>12
    <3>3. AnswerOK(srv, news)
      BY <1>5, <2>2, EmptyIs
    <3>4. Sends(w) => w.send.exc = {}
      BY <1>3, <2>3, <2>12
    <3> QED
      BY <1>3, <2>1, <2>2, <3>1, <3>2, <3>3, <3>4 DEF ViewBook, LocalIsAgreed
  <2>14. ASSUME ~w.discarded PROVE SentBook(w, srv, news, stale)
    <3>1. SentBook(view, server, news, stale)
      BY <1>3, <2>1, <2>14
    <3>2. Sends(w) => ~w.forget
      BY <1>3, <2>3, <2>12, <3>1 DEF SentBook
    <3>3. Sends(w) => Agree(srv, Stored(Known(w.state), news))
      <4> SUFFICES ASSUME p # Removed PROVE Agree(srv, Known(view.state))
        BY <1>3, <2>2, <2>9, <2>12, EmptyIs
      <4>1. Agree(Known(view.state), RSAdd(server, p))
        BY <1>1, <2>3, <3>1 DEF SentBook
      <4>2. srv = RSAdd(server, p)
        BY DEF srv, Stored
      <4> QED
        BY <1>5, <2>9, <4>1, <4>2, AgreeIs
    <3>4. p = Removed => Agree(srv, Stored(NoRecords, news))
      BY <2>2, <2>7, EmptyIs
    <3> QED
      BY <1>1, <1>3, <3>2, <3>3, <3>4 DEF SentBook
  <2> QED
    BY <2>11, <2>13, <2>14
<1> HIDE DEF srv, mis, p
<1>9. BookInv'
  BY <1>1, <1>8 DEF BookInv
<1> QED
  BY <1>6, <1>7, <1>9 DEF Books

LEMMA CommittedIs ==
  ASSUME SyncTypes, view \in SyncView, Linked(view),
         NEW r, r = CommittedRepo
  PROVE  /\ r \in [item : Membership, local : FullRecordSet, state : SyncState, changed : BOOLEAN]
         /\ r.item = CommittedItem
         /\ r.local = IF view.applied THEN view.local ELSE repo.local
         /\ r.changed <=> Touched /\ CommittedItem = "in"
         /\ view.forget => r.state = NoState
         /\ ~view.forget => /\ r.state.agreed = view.state.agreed
                            /\ r.state.pending = view.state.pending
                            /\ (r.state.removal <=> view.state.removal)
                            /\ (r.state.exists <=> view.state.exists)
         /\ ~r.state.new
         /\ r.item = "gone" => r.local = NoRecords
<1> DEFINE st == IF view.forget THEN NoState ELSE [view.state EXCEPT !.new = FALSE]
           ch == Touched /\ CommittedItem = "in"
           loc == IF view.applied THEN view.local ELSE repo.local
<1>1. /\ view.item \in Membership /\ view.local \in FullRecordSet /\ view.state \in SyncState
      /\ repo.item \in Membership /\ repo.local \in FullRecordSet
  BY DEF SyncTypes, SyncView
<1>2. r = [item |-> CommittedItem, local |-> loc, state |-> st, changed |-> ch]
  BY DEF CommittedRepo
<1>3. ch \in BOOLEAN
  OBVIOUS
<1>4. CommittedItem \in Membership /\ loc \in FullRecordSet
  BY <1>1 DEF CommittedItem
<1>5. /\ st \in SyncState /\ ~st.new
      /\ ~view.forget => /\ st.agreed = view.state.agreed /\ st.pending = view.state.pending
                         /\ (st.removal <=> view.state.removal)
                         /\ (st.exists <=> view.state.exists)
  <2>1. CASE view.forget
    BY <2>1, NoStateIs
  <2>2. CASE ~view.forget
    <3> DEFINE no == FALSE
    <3>1. st = [view.state EXCEPT !.new = no]
      BY <2>2
    <3>2. no \in BOOLEAN /\ ~no
      OBVIOUS
    <3> HIDE DEF no, st
    <3>3. st \in SyncState /\ st.new = no /\ st.agreed = view.state.agreed
          /\ st.pending = view.state.pending /\ st.removal = view.state.removal
          /\ st.exists = view.state.exists
      BY <1>1, <3>1, <3>2 DEF SyncState
    <3> QED
      BY <3>2, <3>3
  <2> QED
    BY <2>1, <2>2
<1>6. CommittedItem = "gone" => loc = NoRecords
  <2> SUFFICES ASSUME CommittedItem = "gone" PROVE loc = NoRecords
    OBVIOUS
  <2>1. ~view.moved /\ repo.item = "gone"
    BY DEF CommittedItem, Linked
  <2>2. ~view.applied
    BY <2>1 DEF Linked
  <2> QED
    BY <2>1, <2>2 DEF SyncTypes
<1>7. view.forget => st = NoState
  OBVIOUS
<1> HIDE DEF st, ch, loc
<1>8. r \in [item : Membership, local : FullRecordSet, state : SyncState, changed : BOOLEAN]
      /\ r.item = CommittedItem /\ r.local = loc /\ r.state = st /\ r.changed = ch
  BY <1>2, <1>3, <1>4, <1>5
<1> QED
  BY <1>5, <1>6, <1>7, <1>8 DEF ch, loc

LEMMA CommitStep == Books /\ Commit => Books'
<1> SUFFICES ASSUME Books, Commit PROVE Books'
  OBVIOUS
<1> DEFINE r == CommittedRepo
<1>1. /\ Busy /\ (view.phase = "sent" \/ view.send = EmptyDiff)
      /\ repo' = r /\ view' = Committed /\ missed' = news /\ news' = EmptyDiff /\ stale' = FALSE
      /\ discarded' = (discarded \/ view.discarded) /\ server' = server
  BY DEF Commit
<1>2. /\ SyncTypes /\ view \in SyncView /\ Linked(view)
      /\ server \in RecordSet /\ news \in ServerChange
  BY <1>1, BusyViews DEF Books, SyncTypes
<1>3. /\ r \in [item : Membership, local : FullRecordSet, state : SyncState, changed : BOOLEAN]
      /\ r.item = CommittedItem
      /\ r.local = IF view.applied THEN view.local ELSE repo.local
      /\ r.changed <=> Touched /\ CommittedItem = "in"
      /\ view.forget => r.state = NoState
      /\ ~view.forget => /\ r.state.agreed = view.state.agreed
                         /\ r.state.pending = view.state.pending
                         /\ (r.state.removal <=> view.state.removal)
                         /\ (r.state.exists <=> view.state.exists)
      /\ ~r.state.new
      /\ r.item = "gone" => r.local = NoRecords
  BY <1>2, CommittedIs
<1> HIDE DEF r
<1>4. ~Busy'
  BY <1>1, BusyIs DEF Busy
<1>5. SyncTypes'
  <2>1. discarded' \in BOOLEAN /\ stale' \in BOOLEAN
    BY <1>1
  <2> QED
    BY <1>1, <1>2, <1>3, <2>1, EmptyIs DEF SyncTypes
<1>6. ASSUME ~discarded, ~view.discarded PROVE RepoBook'
  <2>1. RepoBook /\ ViewBook(view, server, news, stale) /\ SentBook(view, server, news, stale)
    BY <1>1, <1>6 DEF Books, BookInv
  <2>2. ItemOK(r.item, r.local)
    <3>1. CASE r.item = "gone"
      BY <1>3, <3>1 DEF ItemOK
    <3>2. CASE r.item # "gone"
      <4>1. view.item # "gone"
        BY <1>2, <1>3, <3>2 DEF CommittedItem, Linked
      <4>2. view.local \in Whole
        BY <2>1, <4>1 DEF ViewBook, ItemOK
      <4>3. ASSUME ~view.applied PROVE repo.local \in Whole
        <5>1. CASE repo.item = "gone"
          <6>1. view.local = repo.local
            BY <1>2, <4>3, <5>1 DEF Linked
          <6> QED
            BY <4>2, <6>1
        <5>2. CASE repo.item # "gone"
          BY <2>1, <5>2 DEF RepoBook, ItemOK
        <5> QED
          BY <5>1, <5>2
      <4> QED
        BY <1>3, <3>2, <4>2, <4>3 DEF ItemOK
    <3> QED
      BY <3>1, <3>2
  <2>3. StateOK(r.state)
    <3>1. CASE view.forget
      BY <1>3, <3>1, NoStateIs
    <3>2. CASE ~view.forget
      BY <1>3, <2>1, <3>2 DEF ViewBook, StateOK, FilterClear, Known
    <3> QED
      BY <3>1, <3>2
  <2>4. AnswerOK(server, news)
    BY <2>1 DEF ViewBook
  <2>5. Known(r.state) = IF view.forget THEN NoRecords ELSE Known(view.state)
    BY <1>3, NoStateIs DEF Known
  <2>6. Agree(server, Stored(Known(r.state), news))
    <3>1. view.phase = "sent" \/ view.send = EmptyDiff
      BY <1>1
    <3>2. CASE view.send = EmptyDiff
      BY <2>1, <2>5, <3>2 DEF SentBook
    <3>3. CASE Sends(view)
      BY <2>1, <2>5, <3>1, <3>3 DEF SentBook, Sends
    <3>4. CASE view.send = Removed
      <4>1. view.forget /\ EmptyDiff # Removed
        BY <1>2, <3>4, EmptyIs DEF Linked
      <4> QED
        BY <2>1, <2>5, <3>1, <3>4, <4>1 DEF SentBook
    <3> QED
      BY <3>2, <3>3, <3>4 DEF Sends
  <2>7. ASSUME ~r.changed PROVE LocalIsAgreed(r.item, r.local, r.state)
    <3> SUFFICES ASSUME r.item = "in", ~r.state.removal, r.state.pending = EmptyDiff
                 PROVE  Agree(r.local, r.state.agreed)
      BY DEF LocalIsAgreed
    <3>1. ~Touched
      BY <1>3, <2>7
    <3>2. ~view.applied /\ ~view.moved /\ ~view.edited
      BY <3>1 DEF Touched
    <3>3. view.item = "in" /\ r.local = view.local
      BY <1>2, <1>3, <3>2 DEF CommittedItem, Linked
    <3>4. CASE view.forget
      <4>1. EmptyState(view.state)
        BY <1>2, <3>3, <3>4 DEF Linked
      <4>2. Agree(view.local, view.state.agreed)
        BY <2>1, <3>3, <4>1 DEF ViewBook, LocalIsAgreed, EmptyState
      <4> QED
        BY <1>3, <3>3, <3>4, <4>1, <4>2, NoStateIs DEF EmptyState
    <3>5. CASE ~view.forget
      BY <1>3, <2>1, <3>3, <3>5 DEF ViewBook, LocalIsAgreed
    <3> QED
      BY <3>4, <3>5
  <2> QED
    BY <1>1, <2>1, <2>2, <2>3, <2>4, <2>6, <2>7 DEF RepoBook
<1>7. BookInv'
  BY <1>1, <1>4, <1>6 DEF BookInv
<1> QED
  BY <1>4, <1>5, <1>7 DEF Books

(* The server has something new.                                           *)
LEMMA ServerStep ==
  ASSUME Books, NEW p \in ServerChange, p # Removed => p.exc = {},
         server = NoRecords /\ p # Removed => Complete(p.inc),
         server' = Stored(server, p), missed' = Fold(missed, p),
         news' = IF Busy THEN Fold(news, p) ELSE news, stale' = Busy,
         UNCHANGED <<repo, view, discarded>>
  PROVE  Books'
<1> DEFINE srv == Stored(server, p)
           mis == Fold(missed, p)
           nws == Fold(news, p)
<1>1. SyncTypes /\ server \in RecordSet /\ missed \in ServerChange /\ news \in ServerChange
  BY DEF Books, SyncTypes
<1>2. srv \in RecordSet /\ mis \in ServerChange /\ nws \in ServerChange
  BY <1>1, StoredType, FoldIs
<1>3. Busy' <=> Busy
  BY DEF Busy
<1>4. SyncTypes'
  <2>1. Busy \in BOOLEAN
    BY DEF Busy
  <2> QED
    BY <1>1, <1>2, <2>1 DEF SyncTypes
<1>5. (Busy => Linked(view))'
  BY <1>3 DEF Books, Linked
<1>6. ASSUME ~discarded
      PROVE  /\ RepoBook'
             /\ Busy => ViewBook(view, srv, nws, stale')
             /\ Busy /\ ~view.discarded => SentBook(view, srv, nws, stale')
  <2>1. /\ RepoBook
        /\ Busy => ViewBook(view, server, news, stale)
        /\ Busy /\ ~view.discarded => SentBook(view, server, news, stale)
    BY <1>6 DEF Books, BookInv
  <2>2. ServerOK(server) /\ AnswerOK(server, missed)
    BY <2>1 DEF RepoBook
  <2>3. /\ ServerOK(srv)
        /\ p # Removed => Complete(srv) /\ srv # NoRecords
        /\ \A m \in ServerChange : AnswerOK(server, m) =>
              /\ AnswerOK(srv, Fold(m, p))
              /\ \A s \in RecordSet :
                   Agree(server, Stored(s, m)) => Agree(srv, Stored(s, Fold(m, p)))
    BY <1>1, <2>2, ServerMoves
  <2>4. Known(repo.state) \in RecordSet
    <3>1. repo.state \in SyncState
      BY <1>1 DEF SyncTypes
    <3> QED
      BY <3>1, KnownType DEF SyncState
  <2>5. AnswerOK(srv, mis) /\ Agree(srv, Stored(Known(repo.state), mis))
    BY <1>1, <2>1, <2>2, <2>3, <2>4 DEF RepoBook
  <2>6. RepoBook'
    BY <2>1, <2>3, <2>5 DEF RepoBook, LocalIsAgreed
  <2>7. ASSUME Busy
        PROVE  /\ ViewBook(view, srv, nws, stale')
               /\ ~view.discarded => SentBook(view, srv, nws, stale')
    <3>1. /\ ViewBook(view, server, news, stale) /\ AnswerOK(server, news)
          /\ view \in SyncView
      BY <1>1, <2>1, <2>7, BusyViews DEF ViewBook
    <3>2. Known(view.state) \in RecordSet
      <4>1. view.state \in SyncState
        BY <3>1 DEF SyncView
      <4> QED
        BY <4>1, KnownType DEF SyncState
    <3>3. /\ AnswerOK(srv, nws)
          /\ \A s \in RecordSet : Agree(server, Stored(s, news)) => Agree(srv, Stored(s, nws))
      BY <1>1, <2>3, <3>1
    <3>4. ~(srv = NoRecords /\ nws = EmptyDiff)
      <4>1. p = Removed => nws = Removed
        BY <1>1, FoldIs
      <4> QED
        BY <2>3, <4>1, EmptyIs
    <3>5. stale'
      BY <2>7
    <3> HIDE DEF srv, nws
    <3>6. ViewBook(view, srv, nws, stale')
      BY <3>1, <3>3, <3>4, <3>5, EmptyIs DEF ViewBook
    <3>7. ASSUME SentBook(view, server, news, stale) PROVE SentBook(view, srv, nws, stale')
      BY <3>2, <3>3, <3>5, <3>7, EmptyIs DEF SentBook
    <3> QED
      BY <2>1, <2>7, <3>6, <3>7
  <2> QED
    BY <2>6, <2>7
<1>7. Busy => news' = nws
  OBVIOUS
<1> HIDE DEF srv, mis, nws
<1>8. server' = srv
  BY DEF srv
<1>9. BookInv'
  BY <1>3, <1>6, <1>7, <1>8 DEF BookInv
<1> QED
  BY <1>4, <1>5, <1>9 DEF Books

LEMMA OthersPutStep == Books /\ OthersPut => Books'
<1> SUFFICES ASSUME Books, OthersPut PROVE Books'
  OBVIOUS
<1>1. PICK p \in {RSSub(rs, server) : rs \in Whole \ {server}}
                 \cup (IF server = NoRecords THEN {} ELSE {Removed}) :
        /\ server' = Stored(server, p) /\ missed' = Fold(missed, p)
        /\ news' = IF Busy THEN Fold(news, p) ELSE news
  BY DEF OthersPut
<1>2. stale' = Busy /\ UNCHANGED <<repo, view, discarded>> /\ server \in RecordSet
  BY DEF OthersPut, Books, SyncTypes
<1>3. CASE p = Removed
  <2>1. p \in ServerChange
    BY <1>3, EmptyIs
  <2> QED
    BY <1>1, <1>2, <1>3, <2>1, ServerStep
<1>4. CASE \E rs \in Whole : p = RSSub(rs, server)
  <2>1. PICK rs \in Whole : p = RSSub(rs, server)
    BY <1>4
  <2>2. rs \in RecordSet /\ Keys(rs) = Key /\ \A k \in Key, f \in Field : rs[k][f] # NoChange
    BY <2>1, WholeIs DEF Whole
  <2>3. p \in ServerChange
    BY <1>2, <2>1, <2>2, SubType DEF ServerChange
  <2>4. p.exc = {}
    BY <2>1, <2>2 DEF RSSub, Keys
  <2>5. ASSUME server = NoRecords PROVE Complete(p.inc)
    <3>1. \A k \in Key, f \in Field :
            p.inc[k][f] = IF rs[k][f] = server[k][f] THEN NoChange ELSE rs[k][f]
      BY <1>2, <2>1, <2>2, SubAt
    <3>2. \A k \in Key, f \in Field : server[k][f] = NoChange
      BY <2>5, NothingAdded
    <3> QED
      BY <2>2, <3>1, <3>2 DEF Complete
  <2> QED
    BY <1>1, <1>2, <2>3, <2>4, <2>5, ServerStep
<1> QED
  BY <1>1, <1>3, <1>4

LEMMA OthersPutElsewhereStep == Books /\ OthersPutElsewhere => Books'
<1> SUFFICES ASSUME Books, OthersPutElsewhere PROVE Books'
  OBVIOUS
<1>1. stale' = TRUE /\ UNCHANGED <<repo, view, missed, news, server, discarded>>
  BY DEF OthersPutElsewhere
<1>2. SyncTypes'
  BY <1>1 DEF Books, SyncTypes
<1>3. (Busy => Linked(view))'
  BY <1>1 DEF Books, Linked, Busy
<1>4. stale' /\ (Busy' <=> Busy)
  BY <1>1 DEF Busy
<1>5. ASSUME ViewBook(view, server, news, stale) PROVE ViewBook(view, server, news, stale')
  BY <1>4, <1>5 DEF ViewBook
<1>6. ASSUME SentBook(view, server, news, stale) PROVE SentBook(view, server, news, stale')
  BY <1>4, <1>6 DEF SentBook
<1>7. RepoBook => RepoBook'
  BY <1>1 DEF RepoBook, LocalIsAgreed
<1>8. BookInv'
  BY <1>1, <1>4, <1>5, <1>6, <1>7 DEF Books, BookInv
<1> QED
  BY <1>2, <1>3, <1>8 DEF Books

(* The user changes the repository; what runs in a view does not see it.     *)
RepoType == [item : Membership, local : FullRecordSet, state : SyncState, changed : BOOLEAN]

LEMMA UserStep ==
  ASSUME Books, repo.item # "gone",
         NEW r \in RepoType, r.item = "gone" => r.local = NoRecords /\ ~Busy, ~r.state.new,
         ~discarded => /\ ItemOK(r.item, r.local) /\ StateOK(r.state)
                       /\ Known(r.state) = Known(repo.state)
                       /\ ~r.changed => LocalIsAgreed(r.item, r.local, r.state),
         repo' = r, view' = IF Busy THEN [view EXCEPT !.edited = TRUE] ELSE view,
         UNCHANGED <<missed, news, stale, server, discarded>>
  PROVE  Books'
<1> DEFINE yes == TRUE
           w == [view EXCEPT !.edited = yes]
<1>1. SyncTypes /\ (Busy <=> view \in SyncView)
  BY BusyViews DEF Books
<1>2. ~discarded => RepoBook'
  BY DEF Books, BookInv, RepoBook
<1>3. CASE ~Busy
  <2>1. view' = view /\ ~Busy'
    BY <1>3 DEF Busy
  <2>2. SyncTypes'
    BY <1>1, <2>1 DEF SyncTypes, RepoType
  <2> QED
    BY <1>2, <2>1, <2>2 DEF Books, BookInv
<1>4. CASE Busy
  <2>1. view \in SyncView /\ Linked(view) /\ view' = w /\ yes \in BOOLEAN /\ yes
    BY <1>1, <1>4 DEF Books
  <2> HIDE DEF yes
  <2>2. /\ w \in SyncView /\ w.phase = view.phase /\ w.item = view.item /\ w.local = view.local
        /\ w.state = view.state /\ w.send = view.send /\ w.forget = view.forget
        /\ w.withheld = view.withheld
        /\ w.applied = view.applied /\ w.moved = view.moved /\ w.edited
        /\ w.discarded = view.discarded
    BY <2>1 DEF SyncView
  <2> HIDE DEF w
  <2>3. Busy'
    BY <1>4, <2>1, <2>2 DEF Busy
  <2>4. SyncTypes'
    BY <1>1, <1>4, <2>1, <2>2 DEF SyncTypes, RepoType
  <2>5. r.item # "gone"
    BY <1>4
  <2>6. (Busy => Linked(view))'
    BY <2>1, <2>2, <2>5 DEF Linked
  <2>7. Sends(w) <=> Sends(view)
    BY <2>2 DEF Sends
  <2>8. ViewBook(view, server, news, stale) => ViewBook(w, server, news, stale)
    BY <2>2, <2>7 DEF ViewBook, LocalIsAgreed
  <2>9. SentBook(view, server, news, stale) => SentBook(w, server, news, stale)
    BY <2>2, <2>7 DEF SentBook
  <2>10. BookInv'
    BY <1>2, <1>4, <2>1, <2>2, <2>3, <2>8, <2>9 DEF Books, BookInv
  <2> QED
    BY <2>4, <2>6, <2>10 DEF Books
<1> QED
  BY <1>3, <1>4

LEMMA RepoIs ==
  ASSUME Books
  PROVE  /\ repo \in RepoType /\ repo.state \in SyncState /\ ~repo.state.new
         /\ ~discarded => /\ ItemOK(repo.item, repo.local) /\ StateOK(repo.state)
                          /\ ~repo.changed => LocalIsAgreed(repo.item, repo.local, repo.state)
  BY DEF Books, SyncTypes, RepoType, BookInv, RepoBook

LEMMA EditStep == Books /\ Edit => Books'
<1> SUFFICES ASSUME Books, Edit PROVE Books'
  OBVIOUS
<1>1. PICK rs \in Whole \ {repo.local} :
        ChangeAnytime([repo EXCEPT !.local = rs, !.changed = (repo.item = "in")])
  BY DEF Edit
<1> DEFINE c == (repo.item = "in")
           r == [repo EXCEPT !.local = rs, !.changed = c]
<1>2. c \in BOOLEAN /\ rs \in FullRecordSet /\ rs \in Whole /\ repo.item # "gone"
  BY WholeIs DEF Edit
<1>3. /\ repo' = r /\ view' = IF Busy THEN [view EXCEPT !.edited = TRUE] ELSE view
      /\ UNCHANGED <<missed, news, stale, server, discarded>>
  BY <1>1 DEF ChangeAnytime
<1> HIDE DEF c
<1>4. /\ r \in RepoType /\ r.item = repo.item /\ r.local = rs /\ r.state = repo.state /\ r.changed = c
  BY <1>2, RepoIs DEF RepoType
<1> HIDE DEF r
<1>5. ItemOK(r.item, r.local) /\ (~r.changed => LocalIsAgreed(r.item, r.local, r.state))
  BY <1>2, <1>4 DEF ItemOK, LocalIsAgreed, c
<1> QED
  BY <1>2, <1>3, <1>4, <1>5, RepoIs, UserStep

LEMMA TakeOutStep == Books /\ TakeOut => Books'
<1> SUFFICES ASSUME Books, TakeOut PROVE Books'
  OBVIOUS
<1> DEFINE no == FALSE
           r == [repo EXCEPT !.item = "out", !.changed = no]
<1>1. /\ repo' = r /\ view' = IF Busy THEN [view EXCEPT !.edited = TRUE] ELSE view
      /\ UNCHANGED <<missed, news, stale, server, discarded>>
      /\ repo.item = "in" /\ no \in BOOLEAN
  BY DEF TakeOut, ChangeAnytime
<1> HIDE DEF no
<1>2. r \in RepoType /\ r.item = "out" /\ r.local = repo.local /\ r.state = repo.state
  BY <1>1, RepoIs DEF RepoType, Membership
<1> HIDE DEF r
<1>3. /\ ~discarded => ItemOK(r.item, r.local)
      /\ LocalIsAgreed(r.item, r.local, r.state)
  BY <1>1, <1>2, RepoIs DEF ItemOK, LocalIsAgreed
<1> QED
  BY <1>1, <1>2, <1>3, RepoIs, UserStep

LEMMA PutBackStep == Books /\ PutBack => Books'
<1> SUFFICES ASSUME Books, PutBack PROVE Books'
  OBVIOUS
<1> DEFINE yes == TRUE
           r == [repo EXCEPT !.item = "in", !.changed = yes]
<1>1. /\ repo' = r /\ view' = IF Busy THEN [view EXCEPT !.edited = TRUE] ELSE view
      /\ UNCHANGED <<missed, news, stale, server, discarded>>
      /\ repo.item = "out" /\ yes \in BOOLEAN /\ yes
  BY DEF PutBack, ChangeAnytime
<1> HIDE DEF yes
<1>2. /\ r \in RepoType /\ r.item = "in" /\ r.local = repo.local /\ r.state = repo.state
      /\ r.changed
  BY <1>1, RepoIs DEF RepoType, Membership
<1> HIDE DEF r
<1>3. ~discarded => ItemOK(r.item, r.local)
  BY <1>1, <1>2, RepoIs DEF ItemOK
<1> QED
  BY <1>1, <1>2, <1>3, RepoIs, UserStep

LEMMA DeleteStep == Books /\ Delete => Books'
<1> SUFFICES ASSUME Books, Delete PROVE Books'
  OBVIOUS
<1> DEFINE no == FALSE
           r == [repo EXCEPT !.item = "gone", !.local = NoRecords, !.changed = no]
<1>1. /\ ~Busy /\ repo.item # "gone" /\ no \in BOOLEAN
      /\ repo' = r /\ UNCHANGED <<view, missed, news, stale, server, discarded>>
  BY DEF Delete, ChangeRepo
<1> HIDE DEF no
<1>2. r \in RepoType /\ r.item = "gone" /\ r.local = NoRecords /\ r.state = repo.state
  BY <1>1, RepoIs, WholeIs DEF RepoType, Membership
<1> HIDE DEF r
<1>3. ItemOK(r.item, r.local) /\ LocalIsAgreed(r.item, r.local, r.state)
  BY <1>2 DEF ItemOK, LocalIsAgreed
<1> QED
  BY <1>1, <1>2, <1>3, RepoIs, UserStep

LEMMA AcceptRemovalStep == Books /\ AcceptRemoval => Books'
<1> SUFFICES ASSUME Books, AcceptRemoval PROVE Books'
  OBVIOUS
<1> DEFINE no == FALSE
           r == [repo EXCEPT !.item = "out", !.state = NoState, !.changed = no]
<1>1. /\ ~Busy /\ repo.item = "in" /\ repo.state.removal /\ no \in BOOLEAN
      /\ repo' = r /\ UNCHANGED <<view, missed, news, stale, server, discarded>>
  BY DEF AcceptRemoval, ChangeRepo
<1> HIDE DEF no
<1>2. r \in RepoType /\ r.item = "out" /\ r.local = repo.local /\ r.state = NoState
  BY <1>1, RepoIs, NoStateIs DEF RepoType, Membership
<1> HIDE DEF r
<1>3. ASSUME ~discarded PROVE Known(repo.state) = NoRecords
  <2>1. repo.state.agreed = NoRecords /\ repo.state.pending = EmptyDiff
    BY <1>1, <1>3, RepoIs DEF StateOK
  <2> QED
    BY <2>1, EmptyIs, NothingAdded DEF Known
<1>4. /\ ~discarded => ItemOK(r.item, r.local)
      /\ LocalIsAgreed(r.item, r.local, r.state)
  BY <1>1, <1>2, RepoIs DEF ItemOK, LocalIsAgreed
<1> QED
  BY <1>1, <1>2, <1>3, <1>4, RepoIs, NoStateIs, UserStep

LEMMA KeepItemStep == Books /\ KeepItem => Books'
<1> SUFFICES ASSUME Books, KeepItem PROVE Books'
  OBVIOUS
<1> DEFINE no == FALSE
           c == repo.changed \/ repo.item = "in"
           st == [repo.state EXCEPT !.removal = no]
           r == [repo EXCEPT !.state = st, !.changed = c]
<1>1. ~Busy /\ repo.item # "gone" /\ repo.state.removal /\ no \in BOOLEAN /\ ~no /\ c \in BOOLEAN
  BY DEF KeepItem
<1>2. repo' = r /\ UNCHANGED <<view, missed, news, stale, server, discarded>>
  BY DEF KeepItem, ChangeRepo
<1> HIDE DEF no, c
<1>3. /\ st \in SyncState /\ st.agreed = repo.state.agreed /\ st.pending = repo.state.pending
      /\ ~st.removal /\ st.exists = repo.state.exists /\ st.new = repo.state.new
  BY <1>1, RepoIs DEF SyncState
<1> HIDE DEF st
<1>4. r \in RepoType /\ r.item = repo.item /\ r.local = repo.local /\ r.state = st /\ r.changed = c
  BY <1>1, <1>3, RepoIs DEF RepoType
<1> HIDE DEF r
<1>5. Known(st) = Known(repo.state)
  BY <1>3 DEF Known
<1>6. ASSUME ~discarded PROVE StateOK(st)
  <2>1. StateOK(repo.state) /\ (FilterClear(repo.state) => FilterClear(st))
    BY <1>3, <1>6, RepoIs DEF FilterClear
  <2> QED
    BY <1>3, <1>5, <2>1 DEF StateOK
<1>7. ~r.changed => LocalIsAgreed(r.item, r.local, r.state)
  BY <1>4 DEF LocalIsAgreed, c
<1>8. /\ repo.item # "gone" /\ r \in RepoType
      /\ r.item = "gone" => r.local = NoRecords /\ ~Busy
      /\ ~r.state.new
      /\ ~discarded => /\ ItemOK(r.item, r.local) /\ StateOK(r.state)
                       /\ Known(r.state) = Known(repo.state)
                       /\ ~r.changed => LocalIsAgreed(r.item, r.local, r.state)
  BY <1>1, <1>3, <1>4, <1>5, <1>6, <1>7, RepoIs
<1>9. /\ repo' = r /\ view' = IF Busy THEN [view EXCEPT !.edited = TRUE] ELSE view
      /\ UNCHANGED <<missed, news, stale, server, discarded>>
  BY <1>1, <1>2
<1> QED
  BY <1>8, <1>9, UserStep

LEMMA DecideStep == Books /\ Decide => Books'
<1> SUFFICES ASSUME Books, Decide PROVE Books'
  OBVIOUS
<1>1. PICK change \in Changes(repo.state.pending) :
        LET st == Discard(repo.state, change)
            left == [repo.state EXCEPT !.agreed = st.agreed, !.pending = st.pending]
        IN  \/ ChangeRepo([repo EXCEPT !.state = left, !.changed = (@ \/ repo.item = "in")])
            \/ ChangeRepo([repo EXCEPT !.state = left, !.changed = (@ \/ repo.item = "in"),
                                             !.local = Import(@, change)])
  BY DEF Decide
<1> DEFINE D == Discard(repo.state, change)
           left == [repo.state EXCEPT !.agreed = D.agreed, !.pending = D.pending]
           c == repo.changed \/ repo.item = "in"
           imp == Import(repo.local, change)
<1>2. /\ ~Busy /\ repo.item # "gone" /\ c \in BOOLEAN
      /\ \/ repo' = [repo EXCEPT !.state = left, !.changed = c]
         \/ repo' = [repo EXCEPT !.state = left, !.changed = c, !.local = imp]
      /\ UNCHANGED <<view, missed, news, stale, server, discarded>>
  BY <1>1 DEF Decide, ChangeRepo
<1>3. /\ repo.state \in SyncState /\ repo.state.agreed \in RecordSet
      /\ repo.state.pending \in Diff /\ repo.local \in FullRecordSet
  BY RepoIs DEF SyncState, RepoType
<1>4. PartOf(change, repo.state.pending) /\ change \in Diff
  BY <1>3, ChangesArePart DEF PartOf
<1>5. D.agreed \in RecordSet /\ D.pending \in Diff
  BY <1>3, <1>4, AddType, RemoveType DEF Discard
<1>6. imp \in FullRecordSet
  BY <1>3, <1>4, ImportType
<1> HIDE DEF D, c, imp
<1>7. /\ left \in SyncState /\ left.agreed = D.agreed /\ left.pending = D.pending
      /\ left.removal = repo.state.removal /\ left.exists = repo.state.exists
      /\ left.new = repo.state.new
  BY <1>3, <1>5 DEF SyncState
<1> HIDE DEF left
<1>8. PICK loc \in {repo.local, imp} :
        /\ repo' \in RepoType /\ (repo').item = repo.item /\ (repo').local = loc
        /\ (repo').state = left /\ (repo').changed = c
  <2>1. repo \in RepoType
    BY RepoIs
  <2>2. CASE repo' = [repo EXCEPT !.state = left, !.changed = c]
    BY <1>2, <1>7, <2>1, <2>2 DEF RepoType
  <2>3. CASE repo' = [repo EXCEPT !.state = left, !.changed = c, !.local = imp]
    BY <1>2, <1>6, <1>7, <2>1, <2>3 DEF RepoType
  <2> QED
    BY <1>2, <2>2, <2>3
<1>9. ASSUME ~discarded
      PROVE  /\ ItemOK(repo.item, loc) /\ StateOK(left) /\ Known(left) = Known(repo.state)
  <2>1. StateOK(repo.state) /\ ItemOK(repo.item, repo.local)
    BY <1>9, RepoIs
  <2>2. StateGood(repo.state)
    BY <1>3, <2>1 DEF StateGood, StateOK, Proper
  <2>3. StateGood(D) /\ Known(D) = Known(repo.state)
    BY <1>4, <2>2, DiscardKeepsKnown DEF D
  <2>4. D.pending.exc = {} /\ change.exc = {}
    BY <1>4, <2>1, <2>2, DiscardAt DEF D, StateOK, PartOf
  <2>5. Known(left) = Known(D) /\ FilterClear(left)
    BY <1>7, <2>3 DEF Known, StateGood, FilterClear
  <2>6. repo.state.exists /\ ~repo.state.removal
    <3> SUFFICES ASSUME repo.state.pending = EmptyDiff PROVE FALSE
      BY <2>1 DEF StateOK
    <3>1. \A k \in Key, f \in Field : repo.state.pending.inc[k][f] = NoChange
      BY NothingAdded
    <3>2. repo.state.pending.exc = {}
      BY NothingAdded
    <3>3. ~ \E k \in Key, f \in Field : repo.state.pending.inc[k][f] # NoChange /\
                                        change = FieldChange(repo.state.pending, k, f)
      BY <3>1
    <3> QED
      BY <1>1, <1>3, <3>2, <3>3, ChangesAre
  <2>7. StateOK(left)
    BY <1>7, <2>1, <2>3, <2>4, <2>5, <2>6 DEF StateOK
  <2>8. ItemOK(repo.item, loc)
    <3>1. repo.local \in Whole
      BY <1>2, <2>1 DEF ItemOK
    <3>2. imp \in Whole
      <4>1. CASE change = EmptyDiff
        <5>1. \A k \in Key : RSAdd(repo.local, change)[k] = repo.local[k] /\ repo.local[k] # Blank
          BY <3>1, <4>1, NothingAdded, WholeIs DEF Whole, Keys
        <5>2. repo.local \in RecordSet /\ \A k \in Key, f \in Field : repo.local[k][f] # NoChange
          BY <3>1 DEF Whole
        <5>3. \A k \in Key, f \in Field : imp[k][f] = repo.local[k][f]
          BY <1>4, <5>1, <5>2, ImportAt DEF imp
        <5> QED
          BY <1>6, <5>2, <5>3 DEF Whole, FullRecordSet
      <4>2. CASE change # EmptyDiff
        BY <1>3, <1>4, <2>4, <3>1, <4>2, ImportedIs DEF Imported, imp
      <4> QED
        BY <4>1, <4>2
    <3> QED
      BY <1>2, <1>8, <3>1, <3>2 DEF ItemOK
  <2> QED
    BY <2>3, <2>5, <2>7, <2>8
<1> DEFINE r == repo'
<1>10. ~c => LocalIsAgreed(repo.item, loc, left)
  BY DEF LocalIsAgreed, c
<1>11. /\ r \in RepoType /\ (r.item = "gone" => r.local = NoRecords /\ ~Busy) /\ ~r.state.new
       /\ ~discarded => /\ ItemOK(r.item, r.local) /\ StateOK(r.state)
                        /\ Known(r.state) = Known(repo.state)
                        /\ ~r.changed => LocalIsAgreed(r.item, r.local, r.state)
  BY <1>2, <1>7, <1>8, <1>9, <1>10, RepoIs
<1> QED
  BY <1>2, <1>11, UserStep

LEMMA StutterStep == Books /\ UNCHANGED vars => Books'
<1> SUFFICES ASSUME Books, UNCHANGED vars PROVE Books'
  OBVIOUS
<1>1. UNCHANGED <<repo, view, missed, news, stale, server, discarded>>
  BY DEF vars
<1>2. SyncTypes' /\ (Busy' <=> Busy)
  BY <1>1 DEF Books, SyncTypes, Busy
<1>3. (Busy => Linked(view))'
  BY <1>1, <1>2 DEF Books, Linked
<1>4. RepoBook => RepoBook'
  BY <1>1 DEF RepoBook
<1>5. BookInv'
  BY <1>1, <1>2, <1>4 DEF Books, BookInv
<1> QED
  BY <1>2, <1>3, <1>5 DEF Books

LEMMA NextStep == Books /\ [Next]_vars => Books'
<1> SUFFICES ASSUME Books, [Next]_vars PROVE Books'
  OBVIOUS
<1>1. CASE User
  BY <1>1, EditStep, TakeOutStep, PutBackStep, DeleteStep, AcceptRemovalStep, KeepItemStep,
     DecideStep DEF User
<1>2. CASE Syncing
  BY <1>2, GetStep, PutStep, MismatchStep, CommitStep, ReleaseStep DEF Syncing
<1>3. CASE Others
  BY <1>3, OthersPutStep, OthersPutElsewhereStep DEF Others
<1>4. CASE Fail
  BY <1>4, FailStep
<1>5. CASE UNCHANGED vars
  BY <1>5, StutterStep
<1> QED
  BY <1>1, <1>2, <1>3, <1>4, <1>5 DEF Next

LEMMA BooksAlways == Spec => []Books
  BY InitBooks, NextStep, PTL DEF Spec

-----------------------------------------------------------------------------
(* Every item, State, view and answer of the server is one that the program *)
(* can have; as long as no retry has forgotten a change, no record of the   *)
(* item ever lacks a shared field, at the client or at the server.          *)
THEOREM RecordSetTypeTheorem == Spec => []TypeOK
<1>1. Books => TypeOK
  BY DEF Books, TypeOK, SyncTypes, BookInv, RepoBook, ItemOK, ServerOK
<1> QED
  BY <1>1, BooksAlways, PTL

(* What the client knows and what the server will answer to the next get    *)
(* always add up to what the server holds: after failures, lost answers,    *)
(* mismatches, removals and returns of the item, in whatever order.         *)
THEOREM BaselineTheorem == Spec => []BaselineRebuildsServer
<1>1. Books => BaselineRebuildsServer
  <2> SUFFICES ASSUME Books PROVE BaselineRebuildsServer
    OBVIOUS
  <2>1. SyncTypes /\ server \in RecordSet /\ missed \in ServerChange /\ news \in ServerChange
    BY DEF Books, SyncTypes
  <2>2. repo.state \in SyncState
    BY RepoIs
  <2>3. ASSUME ~discarded
        PROVE  AsShared(server) = AsShared(Stored(Known(repo.state), missed))
    <3>1. Agree(server, Stored(Known(repo.state), missed))
      BY <2>3 DEF Books, BookInv, RepoBook
    <3>2. Stored(Known(repo.state), missed) \in RecordSet
      BY <2>1, <2>2, KnownType, StoredType DEF SyncState
    <3> QED
      BY <2>1, <3>1, <3>2, FilterAgree DEF AsShared
  <2> DEFINE known == IF view.forget THEN NoRecords ELSE Known(view.state)
  <2>4. ASSUME Busy, view.phase = "sent", ~discarded, ~view.discarded
        PROVE  AsShared(server) = AsShared(Stored(known, news))
    <3>1. view \in SyncView /\ Linked(view) /\ SentBook(view, server, news, stale)
      BY <2>1, <2>4, BusyViews DEF Books, BookInv
    <3>2. Known(view.state) \in RecordSet
      <4>1. view.state \in SyncState
        BY <3>1 DEF SyncView
      <4> QED
        BY <4>1, KnownType DEF SyncState
    <3>3. Agree(server, Stored(known, news))
      <4>1. CASE view.send = EmptyDiff
        BY <3>1, <4>1 DEF SentBook
      <4>2. CASE Sends(view)
        BY <2>4, <3>1, <4>2 DEF SentBook
      <4>3. CASE view.send = Removed
        BY <2>4, <3>1, <4>3 DEF SentBook, Linked
      <4> QED
        BY <4>1, <4>2, <4>3 DEF Sends
    <3>4. Stored(known, news) \in RecordSet
      BY <2>1, <3>2, StoredType, EmptyIs
    <3> QED
      BY <2>1, <3>3, <3>4, FilterAgree DEF AsShared
  <2> QED
    BY <2>3, <2>4 DEF BaselineRebuildsServer
<1> QED
  BY <1>1, BooksAlways, PTL

(* A client that has nothing to fetch, to send or to decide has what the     *)
(* server has; where the item is not in its collection, it knows that it    *)
(* still has to remove it at the server.                                   *)
THEOREM CaughtUpTheorem == Spec => []CaughtUpAgrees
<1>1. Books => CaughtUpAgrees
  <2> SUFFICES ASSUME Books, Caught, ~discarded
               PROVE  IF repo.item = "in" THEN AsShared(repo.local) = AsShared(server)
                      ELSE server = NoRecords \/ repo.state.exists
    BY DEF CaughtUpAgrees
  <2>1. /\ repo.state \in SyncState /\ repo.state.agreed \in RecordSet
        /\ repo.local \in RecordSet /\ server \in RecordSet
        /\ missed = EmptyDiff /\ ~repo.changed
        /\ ~repo.state.removal /\ repo.state.pending = EmptyDiff
    BY DEF Books, SyncTypes, SyncState, Caught, Conflicting, FullRecordSet
  <2>2. Agree(server, Stored(Known(repo.state), missed)) /\ ServerOK(server) /\ RepoBook
    BY DEF Books, BookInv, RepoBook
  <2>3. Known(repo.state) = repo.state.agreed
    BY <2>1, NothingAdded DEF Known
  <2>4. Agree(server, repo.state.agreed)
    BY <2>1, <2>2, <2>3, EmptyIs
  <2>5. CASE repo.item = "in"
    <3>1. Agree(repo.local, repo.state.agreed)
      BY <2>1, <2>2, <2>5 DEF RepoBook, LocalIsAgreed
    <3>2. Agree(repo.local, server)
      BY <2>1, <2>4, <3>1, AgreeIs
    <3> QED
      BY <2>1, <2>5, <3>2, FilterAgree DEF AsShared
  <2>6. CASE repo.item # "in"
    <3> SUFFICES ASSUME ~repo.state.exists PROVE server = NoRecords
      BY <2>6
    <3>1. repo.state.agreed = NoRecords
      BY <2>2 DEF RepoBook, StateOK
    <3>2. ~Complete(server)
      BY <2>1, <2>4, <3>1, AgreeIs, EmptyIs, NotComplete
    <3> QED
      BY <2>2, <3>2 DEF ServerOK
  <2> QED
    BY <2>5, <2>6
<1> QED
  BY <1>1, BooksAlways, PTL

-----------------------------------------------------------------------------
(* What is changed here is noted as changed, also once some retry has        *)
(* forgotten a change: the invariant behind RemovalSparesEdits.             *)
ViewNoted(v) ==
  FilterClear(v.state) /\ (~v.applied => LocalIsAgreed(v.item, v.local, v.state))

RepoNoted(r) ==
  FilterClear(r.state) /\ (~r.changed => LocalIsAgreed(r.item, r.local, r.state))

EditsNoted == RepoNoted(repo) /\ (Busy => ViewNoted(view))

LEMMA NothingClear ==
  ASSUME NEW st, st.agreed = NoRecords, st.pending = EmptyDiff
  PROVE  FilterClear(st)
<1>1. Filtered \subseteq Field
  BY StateMergeAssumption
<1> QED
  BY <1>1, NothingAdded DEF FilterClear

(* A run applies something, or leaves the item as agreed.                   *)
LEMMA RunNotes ==
  ASSUME NEW v \in SyncView, FilterClear(v.state), v.item = "gone" => v.local = NoRecords,
         v.applied \/ v.changed \/ LocalIsAgreed(v.item, v.local, v.state),
         NEW rs \in ServerChange, NEW R, R = Fetched(v, rs)
  PROVE  ViewNoted(R)
<1>1. /\ v.state \in SyncState /\ v.state.agreed \in RecordSet /\ v.state.pending \in Diff
      /\ v.local \in FullRecordSet
  BY DEF SyncView, SyncState
<1>2. CASE rs \in Diff /\ Takes(v, rs)
  <2> DEFINE r == TakenBy(v, rs)
             m == MergedBy(v, rs)
             ext == RSAdd(Known(v.state), rs)
  <2>1. /\ R.item = MergedItem(v, rs, r) /\ R.local = Imported(v.local, r.apply)
        /\ R.state = TakenState(v, r)
        /\ R.applied <=> v.applied \/ r.apply # EmptyDiff
    BY <1>2, MergedIs
  <2>2. /\ Internal(v) \in FullRecordSet /\ Internal(v) = v.local
        /\ BaseOf(v).agreed \in RecordSet
        /\ \A k \in Key, f \in Filtered : BaseOf(v).agreed[k][f] = NoChange
    <3>1. Filtered \subseteq Field
      BY StateMergeAssumption
    <3> QED
      BY <1>1, <3>1, NothingAdded, ConstantTypes DEF Internal, BaseOf, FilterClear
  <2>3. ext \in RecordSet
    BY <1>1, <1>2, KnownType, AddType
  <2>4. m = MergeReadWrite(BaseOf(v), Internal(v), ext) /\ r \in {m, AutoResolve(m, Internal(v))}
    BY DEF MergedBy, TakenBy
  <2> HIDE DEF r, m, ext
  <2>5. FilterClear(r)
    BY <2>2, <2>3, <2>4, MergeClear
  <2>6. R.state.agreed = r.agreed /\ R.state.pending = r.pending
    BY <2>1 DEF TakenState
  <2>7. ASSUME ~R.applied, r.pending = EmptyDiff PROVE Agree(R.local, r.agreed)
    <3>1. r.apply = EmptyDiff
      BY <2>1, <2>7
    <3>2. R.local = Internal(v)
      BY <2>1, <2>2, <3>1 DEF Imported
    <3> QED
      BY <2>2, <2>3, <2>4, <2>7, <3>1, <3>2, MergeSettles
  <2> QED
    BY <2>5, <2>6, <2>7 DEF ViewNoted, LocalIsAgreed, FilterClear
<1>3. CASE rs \in Diff /\ ~Takes(v, rs)
  <2> DEFINE st == QuietState(v, rs)
  <2>1. R.item = v.item /\ R.local = v.local /\ R.state = st /\ (R.applied <=> v.applied)
    BY <1>3, QuietIs
  <2>2. CASE v.item = "gone"
    <3>1. FilterClear(st)
      <4>1. CASE Arrived(rs)
        <5>1. st = [agreed |-> NoRecords, pending |-> EmptyDiff, removal |-> FALSE,
                    exists |-> v.state.exists, new |-> v.state.new]
          BY <1>1, <2>2, <4>1, StateParts, Zenon DEF QuietState
        <5>2. st.agreed = NoRecords /\ st.pending = EmptyDiff
          BY <5>1
        <5> QED
          BY <5>2, NothingClear
      <4>2. CASE ~Arrived(rs)
        BY <4>2 DEF QuietState
      <4> QED
        BY <4>1, <4>2
    <3> QED
      BY <2>1, <2>2, <3>1 DEF ViewNoted, LocalIsAgreed
  <2>3. CASE v.item # "gone"
    <3>1. st = v.state
      BY <2>3 DEF QuietState
    <3>2. ~(v.changed /\ v.item = "in" /\ ~v.state.removal)
      BY <1>3, <2>3 DEF Takes
    <3> QED
      BY <2>1, <3>1, <3>2 DEF ViewNoted, LocalIsAgreed
  <2> QED
    BY <2>2, <2>3
<1>4. CASE rs = Removed
  <2>1. \/ R.item = RemovedFrom(v) /\ R.state = NoState
        \/ R.state = KeptState(v)
    BY <1>4, RemovedIs
  <2>2. R.state.agreed = NoRecords /\ R.state.pending = EmptyDiff
    BY <2>1, NoStateIs DEF KeptState
  <2>3. R.item # "in" \/ R.state.removal
    BY <2>1 DEF RemovedFrom, KeptState
  <2> QED
    BY <2>2, <2>3, NothingClear DEF ViewNoted, LocalIsAgreed
<1> QED
  BY <1>2, <1>3, <1>4 DEF ServerChange

LEMMA InitNotes == Init => EditsNoted
<1> SUFFICES ASSUME Init PROVE EditsNoted
  OBVIOUS
<1>1. repo.state = NoState /\ (repo.changed \/ repo.item = "gone")
  <2>1. CASE repo \in {[item |-> "in", local |-> rs, state |-> NoState, changed |-> TRUE] : rs \in Whole}
    BY <2>1
  <2>2. CASE repo = [item |-> "gone", local |-> NoRecords, state |-> NoState, changed |-> FALSE]
    BY <2>2
  <2> QED
    BY <2>1, <2>2 DEF Init
<1>2. FilterClear(repo.state)
  BY <1>1, NoStateIs, NothingClear
<1>3. ~Busy
  BY BusyIs DEF Init, Busy
<1> QED
  BY <1>1, <1>2, <1>3 DEF EditsNoted, RepoNoted, LocalIsAgreed

(* Steps that leave the repository alone.                                  *)
LEMMA NotesStay ==
  ASSUME EditsNoted, repo' = repo, Busy' => ViewNoted(view')
  PROVE  EditsNoted'
  BY DEF EditsNoted, ViewNoted, RepoNoted, LocalIsAgreed, FilterClear

LEMMA SyncNotes == Books /\ EditsNoted /\ (Get \/ Mismatch) => EditsNoted'
<1> SUFFICES ASSUME Books, EditsNoted, Get \/ Mismatch PROVE EditsNoted'
  OBVIOUS
<1>1. SyncTypes /\ missed \in ServerChange /\ news \in ServerChange
  BY DEF Books, SyncTypes
<1>2. RepoNoted(repo)
  BY DEF EditsNoted
<1>3. CASE Get
  <2>1. view' = Fetched(NewView, missed) /\ repo' = repo
    BY <1>3 DEF Get
  <2>2. NewView \in SyncView /\ (NewView.item = "gone" => NewView.local = NoRecords)
    BY <1>1, NewViewIs
  <2>3. /\ NewView.item = repo.item /\ NewView.local = repo.local /\ NewView.state = repo.state
        /\ (NewView.changed <=> repo.changed)
    BY DEF NewView
  <2>4. /\ FilterClear(NewView.state)
        /\ NewView.changed \/ LocalIsAgreed(NewView.item, NewView.local, NewView.state)
    BY <1>2, <2>3 DEF RepoNoted
  <2>5. ViewNoted(view')
    BY <1>1, <2>1, <2>2, <2>4, RunNotes
  <2> QED
    BY <2>1, <2>5, NotesStay
<1>4. CASE Mismatch
  <2> DEFINE v == [view EXCEPT !.tries = @ - 1, !.discarded = @ \/ Unsent]
  <2>1. Busy /\ repo' = repo /\ view' = IF view.tries = 1 THEN NoView ELSE Fetched(v, news)
    BY <1>4 DEF Mismatch
  <2>2. view \in SyncView /\ Linked(view) /\ ViewNoted(view)
    BY <1>1, <2>1, BusyViews DEF Books, EditsNoted
  <2>3. CASE view.tries = 1
    <3>1. ~Busy'
      BY <2>1, <2>3, BusyIs DEF Busy
    <3> QED
      BY <2>1, <3>1, NotesStay
  <2>4. CASE view.tries # 1
    <3>1. v.state = view.state /\ v.applied = view.applied
      BY <2>2 DEF SyncView
    <3> HIDE DEF v
    <3>2. v \in SyncView /\ v.item = view.item /\ v.local = view.local
      BY <1>1, <2>2, <2>4, RetryIs DEF v
    <3>3. v.item = "gone" => v.local = NoRecords
      <4> SUFFICES ASSUME view.item = "gone" PROVE view.local = NoRecords
        BY <3>2
      <4> QED
        BY <1>1, <2>2 DEF Linked, SyncTypes
    <3>4. FilterClear(v.state) /\ (v.applied \/ LocalIsAgreed(v.item, v.local, v.state))
      BY <2>2, <3>1, <3>2 DEF ViewNoted
    <3>5. view' = Fetched(v, news)
      BY <2>1, <2>4
    <3>6. ViewNoted(view')
      BY <1>1, <3>2, <3>3, <3>4, <3>5, RunNotes
    <3> QED
      BY <2>1, <3>6, NotesStay
  <2> QED
    BY <2>3, <2>4
<1> QED
  BY <1>3, <1>4

LEMMA CommitNotes == Books /\ EditsNoted /\ Commit => EditsNoted'
<1> SUFFICES ASSUME Books, EditsNoted, Commit PROVE EditsNoted'
  OBVIOUS
<1> DEFINE r == CommittedRepo
<1>1. Busy /\ repo' = r /\ view' = Committed
  BY DEF Commit
<1>2. SyncTypes /\ view \in SyncView /\ Linked(view) /\ ViewNoted(view)
  BY <1>1, BusyViews DEF Books, EditsNoted
<1>3. /\ r.item = CommittedItem
      /\ r.local = IF view.applied THEN view.local ELSE repo.local
      /\ r.changed <=> Touched /\ CommittedItem = "in"
      /\ view.forget => r.state = NoState
      /\ ~view.forget => /\ r.state.agreed = view.state.agreed
                         /\ r.state.pending = view.state.pending
                         /\ (r.state.removal <=> view.state.removal)
  BY <1>2, CommittedIs
<1> HIDE DEF r
<1>4. FilterClear(r.state)
  <2>1. CASE view.forget
    BY <1>3, <2>1, NoStateIs, NothingClear
  <2>2. CASE ~view.forget
    BY <1>2, <1>3, <2>2 DEF ViewNoted, FilterClear
  <2> QED
    BY <2>1, <2>2
<1>5. ASSUME ~r.changed, r.item = "in", ~r.state.removal, r.state.pending = EmptyDiff
      PROVE  Agree(r.local, r.state.agreed)
  <2>1. ~view.applied /\ ~view.moved /\ ~view.edited
    BY <1>3, <1>5 DEF Touched
  <2>2. view.item = "in" /\ r.local = view.local
    BY <1>2, <1>3, <1>5, <2>1 DEF CommittedItem, Linked
  <2>3. LocalIsAgreed(view.item, view.local, view.state)
    BY <1>2, <2>1 DEF ViewNoted
  <2>4. CASE view.forget
    <3>1. EmptyState(view.state)
      BY <1>2, <2>2, <2>4 DEF Linked
    <3>2. Agree(view.local, NoRecords)
      BY <2>2, <2>3, <3>1 DEF LocalIsAgreed, EmptyState
    <3> QED
      BY <1>3, <2>2, <2>4, <3>2, NoStateIs
  <2>5. CASE ~view.forget
    BY <1>3, <1>5, <2>2, <2>3, <2>5 DEF LocalIsAgreed
  <2> QED
    BY <2>4, <2>5
<1>6. RepoNoted(r)
  BY <1>4, <1>5 DEF RepoNoted, LocalIsAgreed
<1>7. ~Busy'
  BY <1>1, BusyIs DEF Busy
<1> QED
  BY <1>1, <1>6, <1>7 DEF EditsNoted

(* The steps of the server and the network.                                *)
LEMMA OtherNotes ==
  Books /\ EditsNoted /\ (Put \/ Release \/ Others \/ Fail \/ UNCHANGED vars) => EditsNoted'
<1> SUFFICES ASSUME Books, EditsNoted, Put \/ Release \/ Others \/ Fail \/ UNCHANGED vars
             PROVE  EditsNoted'
  OBVIOUS
<1>1. CASE Put
  <2>1. Busy /\ repo' = repo /\ view' = [view EXCEPT !.phase = "sent"]
    BY <1>1 DEF Put
  <2>2. view \in SyncView /\ ViewNoted(view)
    BY <2>1, BusyViews DEF Books, EditsNoted
  <2>3. /\ (view').item = view.item /\ (view').local = view.local
        /\ (view').state = view.state /\ (view').applied = view.applied
    BY <2>1, <2>2 DEF SyncView
  <2> QED
    BY <2>1, <2>2, <2>3, NotesStay DEF ViewNoted
<1>2. CASE Release \/ Fail
  <2>1. repo' = repo /\ view' = NoView
    BY <1>2 DEF Release, Fail
  <2>2. ~Busy'
    BY <2>1, BusyIs DEF Busy
  <2> QED
    BY <2>1, <2>2, NotesStay
<1>3. CASE Others \/ UNCHANGED vars
  <2>1. repo' = repo /\ view' = view
    BY <1>3 DEF Others, OthersPut, OthersPutElsewhere, vars
  <2>2. Busy' => ViewNoted(view')
    BY <2>1 DEF EditsNoted, Busy
  <2> QED
    BY <2>1, <2>2, NotesStay
<1> QED
  BY <1>1, <1>2, <1>3

(* What the user does.                                                     *)
LEMMA UserKeepsNotes ==
  ASSUME Books, EditsNoted, NEW r, repo' = r, RepoNoted(r),
         \/ ~Busy /\ view' = view
         \/ view' = IF Busy THEN [view EXCEPT !.edited = TRUE] ELSE view
  PROVE  EditsNoted'
<1>1. CASE ~Busy
  <2>1. ~Busy'
    BY <1>1 DEF Busy
  <2> QED
    BY <2>1 DEF EditsNoted
<1>2. CASE Busy
  <2> DEFINE yes == TRUE
  <2>1. view' = [view EXCEPT !.edited = yes]
    BY <1>2
  <2> HIDE DEF yes
  <2>2. view \in SyncView /\ ViewNoted(view)
    BY <1>2, BusyViews DEF Books, EditsNoted
  <2>3. /\ (view').item = view.item /\ (view').local = view.local
        /\ (view').state = view.state /\ (view').applied = view.applied
    BY <2>1, <2>2 DEF SyncView
  <2>4. ViewNoted(view')
    BY <2>2, <2>3 DEF ViewNoted
  <2> QED
    BY <2>4 DEF EditsNoted
<1> QED
  BY <1>1, <1>2

LEMMA UserNotes == Books /\ EditsNoted /\ User => EditsNoted'
<1> SUFFICES ASSUME Books, EditsNoted, User PROVE EditsNoted'
  OBVIOUS
<1> DEFINE yes == TRUE
           no == FALSE
           c == (repo.item = "in")
           d == repo.changed \/ repo.item = "in"
<1>1. /\ repo \in RepoType /\ repo.item \in Membership /\ repo.local \in FullRecordSet
      /\ repo.state \in SyncState /\ repo.changed \in BOOLEAN
      /\ RepoNoted(repo) /\ FilterClear(repo.state)
  BY RepoIs DEF RepoType, EditsNoted, RepoNoted
<1>2. yes \in BOOLEAN /\ no \in BOOLEAN /\ c \in BOOLEAN /\ d \in BOOLEAN /\ yes /\ ~no
  OBVIOUS
<1>3. (c <=> repo.item = "in") /\ (d <=> repo.changed \/ repo.item = "in")
  OBVIOUS
<1> HIDE DEF yes, no, c, d
<1>4. CASE Edit
  <2>1. PICK rs \in Whole :
          ChangeAnytime([repo EXCEPT !.local = rs, !.changed = c])
    BY <1>4 DEF Edit, c
  <2> DEFINE r == [repo EXCEPT !.local = rs, !.changed = c]
  <2>2. r.item = repo.item /\ r.state = repo.state /\ r.changed = c
    BY <1>1 DEF RepoType
  <2> HIDE DEF r
  <2>3. RepoNoted(r)
    BY <1>1, <1>3, <2>2 DEF RepoNoted, LocalIsAgreed
  <2>4. repo' = r /\ view' = IF Busy THEN [view EXCEPT !.edited = TRUE] ELSE view
    BY <2>1 DEF ChangeAnytime, r
  <2> QED
    BY <2>3, <2>4, UserKeepsNotes
<1>5. CASE TakeOut
  <2> DEFINE r == [repo EXCEPT !.item = "out", !.changed = no]
  <2>1. repo' = r /\ view' = IF Busy THEN [view EXCEPT !.edited = TRUE] ELSE view
    BY <1>5 DEF TakeOut, ChangeAnytime, no
  <2>2. r.item = "out" /\ r.state = repo.state
    BY <1>1 DEF RepoType
  <2> HIDE DEF r
  <2>3. RepoNoted(r)
    BY <1>1, <2>2 DEF RepoNoted, LocalIsAgreed
  <2> QED
    BY <2>1, <2>3, UserKeepsNotes
<1>6. CASE Delete
  <2> DEFINE r == [repo EXCEPT !.item = "gone", !.local = NoRecords, !.changed = no]
  <2>1. repo' = r /\ view' = view /\ ~Busy
    BY <1>6 DEF Delete, ChangeRepo, no
  <2>2. r.item = "gone" /\ r.state = repo.state
    BY <1>1 DEF RepoType
  <2> HIDE DEF r
  <2>3. RepoNoted(r)
    BY <1>1, <2>2 DEF RepoNoted, LocalIsAgreed
  <2> QED
    BY <2>1, <2>3, UserKeepsNotes
<1>7. CASE PutBack
  <2> DEFINE r == [repo EXCEPT !.item = "in", !.changed = yes]
  <2>1. repo' = r /\ view' = IF Busy THEN [view EXCEPT !.edited = TRUE] ELSE view
    BY <1>7 DEF PutBack, ChangeAnytime, yes
  <2>2. r.changed = yes /\ r.state = repo.state
    BY <1>1 DEF RepoType
  <2> HIDE DEF r
  <2>3. RepoNoted(r)
    BY <1>1, <1>2, <2>2 DEF RepoNoted
  <2> QED
    BY <2>1, <2>3, UserKeepsNotes
<1>8. CASE AcceptRemoval
  <2> DEFINE r == [repo EXCEPT !.item = "out", !.state = NoState, !.changed = no]
  <2>1. repo' = r /\ view' = view /\ ~Busy
    BY <1>8 DEF AcceptRemoval, ChangeRepo, no
  <2>2. r.item = "out" /\ r.state = NoState
    BY <1>1 DEF RepoType
  <2> HIDE DEF r
  <2>3. FilterClear(r.state)
    BY <2>2, NoStateIs, NothingClear
  <2>4. RepoNoted(r)
    BY <2>2, <2>3 DEF RepoNoted, LocalIsAgreed
  <2> QED
    BY <2>1, <2>4, UserKeepsNotes
<1>9. CASE KeepItem
  <2> DEFINE st == [repo.state EXCEPT !.removal = no]
             r == [repo EXCEPT !.state = st, !.changed = d]
  <2>1. repo' = r /\ view' = view /\ ~Busy
    BY <1>9 DEF KeepItem, ChangeRepo, no, d
  <2>2. st.agreed = repo.state.agreed /\ st.pending = repo.state.pending
    BY <1>1 DEF SyncState
  <2> HIDE DEF st
  <2>3. r.item = repo.item /\ r.state = st /\ r.changed = d
    BY <1>1 DEF RepoType
  <2> HIDE DEF r
  <2>4. FilterClear(r.state)
    BY <1>1, <2>2, <2>3 DEF FilterClear
  <2>5. RepoNoted(r)
    BY <1>3, <2>3, <2>4 DEF RepoNoted, LocalIsAgreed
  <2> QED
    BY <2>1, <2>5, UserKeepsNotes
<1>10. CASE Decide
  <2>1. PICK change \in Changes(repo.state.pending) :
          LET st == Discard(repo.state, change)
              left == [repo.state EXCEPT !.agreed = st.agreed, !.pending = st.pending]
          IN  \/ ChangeRepo([repo EXCEPT !.state = left, !.changed = d])
              \/ ChangeRepo([repo EXCEPT !.state = left, !.changed = d,
                                         !.local = Import(@, change)])
    BY <1>10 DEF Decide, d
  <2> DEFINE D == Discard(repo.state, change)
             left == [repo.state EXCEPT !.agreed = D.agreed, !.pending = D.pending]
             imp == Import(repo.local, change)
  <2>2. /\ view' = view /\ ~Busy
        /\ \/ repo' = [repo EXCEPT !.state = left, !.changed = d]
           \/ repo' = [repo EXCEPT !.state = left, !.changed = d, !.local = imp]
    BY <1>10, <2>1 DEF Decide, ChangeRepo
  <2>3. /\ repo.state.agreed \in RecordSet /\ repo.state.pending \in Diff
        /\ PartOf(change, repo.state.pending) /\ change \in Diff
    BY <1>1, ChangesArePart DEF SyncState, PartOf
  <2>4. FilterClear(D)
    <3> SUFFICES ASSUME NEW k \in Key, NEW f \in Filtered
                 PROVE  D.agreed[k][f] = NoChange /\ D.pending.inc[k][f] = NoChange
      BY DEF FilterClear
    <3>1. f \in Field
      BY StateMergeAssumption
    <3>2. repo.state.agreed[k][f] = NoChange /\ repo.state.pending.inc[k][f] = NoChange
      BY <1>1 DEF FilterClear
    <3>3. change.inc[k][f] = NoChange
      BY <2>3, <3>1, <3>2 DEF PartOf
    <3>4. RSAdd(repo.state.agreed, change)[k][f] = NoChange
      BY <2>3, <3>1, <3>2, <3>3, AddAt
    <3>5. DiffRemove(repo.state.pending, change).inc[k][f] = NoChange
      BY <2>3, <3>1, <3>2, RemoveAt
    <3> QED
      BY <3>2, <3>4, <3>5 DEF Discard
  <2> HIDE DEF D, imp
  <2>5. left.agreed = D.agreed /\ left.pending = D.pending
    BY <1>1 DEF SyncState
  <2> HIDE DEF left
  <2>6. (repo').item = repo.item /\ (repo').state = left /\ (repo').changed = d
    BY <1>1, <2>2 DEF RepoType
  <2>7. RepoNoted(repo')
    BY <1>3, <2>4, <2>5, <2>6 DEF RepoNoted, LocalIsAgreed, FilterClear
  <2> QED
    BY <2>2, <2>7, UserKeepsNotes
<1> QED
  BY <1>4, <1>5, <1>6, <1>7, <1>8, <1>9, <1>10 DEF User

LEMMA NotedAlways == Spec => [](Books /\ EditsNoted)
<1>1. Init => Books /\ EditsNoted
  BY InitBooks, InitNotes
<1>2. Books /\ EditsNoted /\ [Next]_vars => (Books /\ EditsNoted)'
  BY NextStep, SyncNotes, CommitNotes, OtherNotes, UserNotes DEF Next, Syncing
<1> QED
  BY <1>1, <1>2, PTL DEF Spec

(* A removal by others takes an item out of the collection only if nothing  *)
(* in it is unsent: neither an edit made while a sync was under way nor one *)
(* that a failed sync had seen is ever lost to it -- also after a retry has *)
(* forgotten a change.                                                     *)
THEOREM RemovalTheorem == Spec => RemovalSparesEdits
<1>1. ASSUME Books, EditsNoted, Get, ~Conflicting, repo.item = "in", (view').item = "out"
      PROVE  AsShared(repo.local) = repo.state.agreed
  <2>1. SyncTypes /\ missed \in ServerChange /\ repo.state \in SyncState
        /\ repo.state.agreed \in RecordSet /\ repo.local \in RecordSet
    BY <1>1 DEF Books, SyncTypes, SyncState, FullRecordSet
  <2>2. NewView \in SyncView /\ view' = Fetched(NewView, missed)
    BY <1>1, <2>1, NewViewIs DEF Get
  <2>3. /\ NewView.item = "in" /\ NewView.local = repo.local /\ NewView.state = repo.state
        /\ (NewView.changed <=> repo.changed)
    BY <1>1 DEF NewView
  <2>4. missed = Removed
    <3>1. CASE missed \in Diff /\ Takes(NewView, missed)
      <4>1. (view').item = MergedItem(NewView, missed, TakenBy(NewView, missed))
        BY <2>2, <2>3, <3>1, MergedIs
      <4> QED
        BY <1>1, <2>3, <4>1 DEF MergedItem
    <3>2. CASE missed \in Diff /\ ~Takes(NewView, missed)
      <4>1. (view').item = NewView.item
        BY <2>2, <3>2, QuietIs
      <4> QED
        BY <1>1, <2>3, <4>1
    <3> QED
      BY <2>1, <3>1, <3>2 DEF ServerChange
  <2>5. NothingUnsent(NewView)
    BY <1>1, <2>2, <2>3, <2>4, RemovedIs
  <2>6. Agree(repo.local, repo.state.agreed)
    <3>1. ~repo.state.removal /\ repo.state.pending = EmptyDiff
      BY <1>1 DEF Conflicting
    <3>2. CASE repo.changed
      BY <2>3, <2>5, <3>1, <3>2 DEF NothingUnsent
    <3>3. CASE ~repo.changed
      BY <1>1, <3>1, <3>3 DEF EditsNoted, RepoNoted, LocalIsAgreed
    <3> QED
      BY <3>2, <3>3
  <2>7. AsShared(repo.local) = AsShared(repo.state.agreed)
    BY <2>1, <2>6, FilterAgree DEF AsShared
  <2>8. AsShared(repo.state.agreed) = repo.state.agreed
    <3>1. FilterRS(repo.state.agreed, Filtered) \in RecordSet
      BY <2>1, FilterType
    <3>2. ASSUME NEW k \in Key, NEW f \in Field
          PROVE  FilterRS(repo.state.agreed, Filtered)[k][f] = repo.state.agreed[k][f]
      BY <1>1 DEF EditsNoted, RepoNoted, FilterClear, FilterRS, FilterRec
    <3> QED
      BY <2>1, <3>1, <3>2, RecordSetEquality DEF AsShared
  <2> QED
    BY <2>7, <2>8
<1>2. Books /\ EditsNoted /\ [Next]_vars =>
        [Get /\ ~Conflicting /\ repo.item = "in" /\ view'.item = "out" =>
           AsShared(repo.local) = repo.state.agreed]_vars
  BY <1>1
<1> QED
  BY <1>2, NotedAlways, PTL DEF Spec, RemovalSparesEdits

-----------------------------------------------------------------------------
(* The refinement of ShareState.  Its operators, as instantiated for the    *)
(* refinement, are those of StateMerge.                                    *)
LEMMA SameSets ==
  /\ Share!Blank = Blank /\ Share!NoRecords = NoRecords /\ Share!EmptyDiff = EmptyDiff
  /\ Share!FullRecordSet = FullRecordSet
  BY DEF Share!Blank, Blank, Share!NoRecords, NoRecords, Share!EmptyDiff, EmptyDiff,
     Share!Record, Record, Share!RecordSet, RecordSet, Share!Keys, Keys,
     Share!FullRecordSet, FullRecordSet

LEMMA SameUpdates ==
  /\ \A r, d : Share!RSAdd(r, d) = RSAdd(r, d)
  /\ \A n, o : Share!RSSub(n, o) = RSSub(n, o)
  /\ \A d, e : Share!DiffIAdd(d, e) = DiffIAdd(d, e)
  /\ \A d, c : Share!DiffRemove(d, c) = DiffRemove(d, c)
  /\ \A rs : Share!AsDiff(rs) = AsDiff(rs)
  /\ \A st : Share!Known(st) = Known(st)
<1>1. \A r, d : Share!RSAdd(r, d) = RSAdd(r, d)
  BY DEF Share!RSAdd, RSAdd, Share!RecAdd, RecAdd, Share!Blank, Blank
<1>2. \A n, o : Share!RSSub(n, o) = RSSub(n, o)
  BY DEF Share!RSSub, RSSub, Share!RecSub, RecSub, Share!Keys, Keys, Share!Blank, Blank
<1>3. \A d, e : Share!DiffIAdd(d, e) = DiffIAdd(d, e)
  BY <1>1 DEF Share!DiffIAdd, DiffIAdd, Share!RecAdd, RecAdd, Share!Blank, Blank
<1>4. \A d, c : Share!DiffRemove(d, c) = DiffRemove(d, c)
  BY DEF Share!DiffRemove, DiffRemove, Share!RecSub, RecSub
<1> QED
  BY <1>1, <1>2, <1>3, <1>4 DEF Share!AsDiff, AsDiff, Share!Known, Known

LEMMA SameMerge ==
  ASSUME NEW st, NEW int, NEW ext
  PROVE  Share!MergeReadWrite(st, int, ext) = MergeReadWrite(st, int, ext)
<1>1. \A d, e : Share!DiffOr(d, e) = DiffOr(d, e)
  BY DEF Share!DiffOr, DiffOr, Share!RecOr, RecOr, Share!Keys, Keys, Share!Blank, Blank
<1>2. \A d : Share!DiffClone(d) = DiffClone(d)
  BY SameSets, SameUpdates DEF Share!DiffClone, DiffClone
<1>3. \A r : Share!FilterRS(r, Filtered) = FilterRS(r, Filtered)
  BY DEF Share!FilterRS, FilterRS, Share!FilterRec, FilterRec
<1>4. \A d : Share!Flt(d) = Flt(d)
  BY <1>2, <1>3 DEF Share!Flt, Flt, Share!FilterDiff, FilterDiff
<1>5. \A r, d : Share!CleanDiff(r, d) = CleanDiff(r, d)
  BY SameUpdates DEF Share!CleanDiff, CleanDiff
<1>6. Share!NonConflicting(st, int, ext) = NonConflicting(st, int, ext)
  BY <1>1, <1>4, SameUpdates DEF Share!NonConflicting, NonConflicting
<1> QED
  BY <1>4, <1>5, <1>6, SameUpdates DEF Share!MergeReadWrite, MergeReadWrite

(* AutoResolve by the conflicts that it settles for either side.            *)
LostIn(m, int) ==
  [k \in Key |-> [f \in Field |->
     IF /\ m.pending.inc[k][f] # NoChange
        /\ int[k] # Blank
        /\ LocalWins(m.agreed[k][f], int[k][f], m.pending.inc[k][f], f)
     THEN m.pending.inc[k][f] ELSE NoChange]]
WonIn(m, int) ==
  [k \in Key |-> [f \in Field |->
     IF /\ m.pending.inc[k][f] # NoChange
        /\ int[k] # Blank
        /\ RemoteWins(m.agreed[k][f], int[k][f], m.pending.inc[k][f], f)
     THEN m.pending.inc[k][f] ELSE NoChange]]
KeptIn(m, int) ==
  [k \in Key |-> [f \in Field |-> IF LostIn(m, int)[k][f] = NoChange THEN NoChange ELSE int[k][f]]]

LEMMA SameResolve ==
  ASSUME NEW m, NEW int
  PROVE  Share!AutoResolve(m, int) = AutoResolve(m, int)
<1> DEFINE lost == LostIn(m, int)
           won == WonIn(m, int)
           kept == KeptIn(m, int)
<1>1. AutoResolve(m, int) =
        [agreed |-> RSAdd(RSAdd(m.agreed, AsDiff(kept)), AsDiff(won)),
         pending |-> DiffRemove(DiffRemove(m.pending, AsDiff(lost)), AsDiff(won)),
         send |-> DiffIAdd(m.send, AsDiff(kept)),
         apply |-> DiffIAdd(m.apply, AsDiff(won))]
  BY DEF AutoResolve, Resolvable, LostIn, WonIn, KeptIn
<1>2. Share!AutoResolve(m, int) =
        [agreed |-> Share!RSAdd(Share!RSAdd(m.agreed, Share!AsDiff(kept)), Share!AsDiff(won)),
         pending |-> Share!DiffRemove(Share!DiffRemove(m.pending, Share!AsDiff(lost)), Share!AsDiff(won)),
         send |-> Share!DiffIAdd(m.send, Share!AsDiff(kept)),
         apply |-> Share!DiffIAdd(m.apply, Share!AsDiff(won))]
  BY DEF Share!AutoResolve, Share!Resolvable, LostIn, WonIn, KeptIn, LocalWins, RemoteWins,
         Share!LocalWins, Share!RemoteWins, Blank, Share!Blank
<1> HIDE DEF lost, won, kept
<1> QED
  BY <1>1, <1>2, SameUpdates

LEMMA SameImport ==
  ASSUME NEW rs, NEW d
  PROVE  Share!Import(rs, d) = Import(rs, d)
  BY SameUpdates DEF Share!Import, Import, Share!Blank, Blank

-----------------------------------------------------------------------------
(* The invariant of the behaviours in which items stay in the collection.   *)
EditsRepo ==
  /\ repo.item \in {"in", "gone"}
  /\ ~repo.state.removal
  /\ repo.item = "gone" => ~repo.state.exists

(* What the server has once a sync has got what is in its view's fetched.   *)
Got(rs) == RSAdd(Known(repo.state), rs)

(* View v is what one run makes of the repository and of what came.         *)
RunOver(v) ==
  LET w == Fetched(NewView, v.fetched) IN
  /\ v.fetched \in Diff /\ Before(NewView, Got(v.fetched), v.fetched)
  /\ v.item = w.item /\ v.local = w.local /\ v.state = w.state /\ v.send = w.send
  /\ v.forget <=> w.forget
  /\ v.applied <=> w.applied
  /\ v.moved <=> w.moved
  /\ ~v.discarded

EditsInv ==
  /\ ~discarded
  /\ EditsRepo
  /\ missed \in Diff /\ news \in Diff
  /\ Busy => RunOver(view)

LEMMA PlainSets ==
  ASSUME Filtered = {}
  PROVE  /\ \A r \in RecordSet : Complete(r) => r \in Whole /\ r \in FullRecordSet
         /\ \A r \in RecordSet, s \in RecordSet : Agree(r, s) => r = s
<1>1. \A r \in RecordSet : Complete(r) => r \in Whole
  BY DEF Complete, Whole
<1>2. \A r \in RecordSet, s \in RecordSet : Agree(r, s) => r = s
  BY RecordSetEquality DEF Agree, Unfiltered
<1> QED
  BY <1>1, <1>2, WholeIs

(* A run that finds nothing to do, and one that merges.                     *)
Idles(w, rs) ==
  /\ rs = EmptyDiff
  /\ w.item = repo.item /\ ~w.applied /\ ~w.moved
  /\ w.state = repo.state /\ (w.forget => EmptyState(repo.state))
  /\ w.send = EmptyDiff

Merges(w, rs, r) ==
  /\ r = TakenBy(NewView, rs) /\ TakenGood(NewView, rs, r)
  /\ repo.item = "gone" => Arrived(rs)
  /\ w.item = "in" /\ (~w.moved => repo.item = "in")
  /\ w.local = Imported(repo.local, r.apply) /\ (w.applied <=> r.apply # EmptyDiff)
  /\ w.state = TakenState(NewView, r) /\ ~w.forget
  /\ w.send = r.send

LEMMA NewViewParts ==
  /\ NewView.item = repo.item /\ NewView.local = repo.local /\ NewView.state = repo.state
  /\ NewView.fetched = EmptyDiff /\ ~NewView.applied /\ ~NewView.moved /\ ~NewView.discarded
  BY DEF NewView

LEMMA RunIs ==
  ASSUME SyncTypes, EditsRepo, NEW rs \in Diff, Before(NewView, Got(rs), rs),
         NEW w, w = Fetched(NewView, rs)
  PROVE  /\ w \in SyncView /\ w.phase = "got" /\ ~w.discarded /\ w.send \in Diff
         /\ Idles(w, rs) \/ \E r : Merges(w, rs, r)
<1> DEFINE N == NewView
           E == Got(rs)
<1>1. /\ N \in SyncView /\ (N.item = "gone" => N.local = NoRecords)
      /\ N.item = repo.item /\ N.local = repo.local /\ N.state = repo.state
      /\ ~N.applied /\ ~N.moved /\ ~N.discarded /\ Before(N, E, rs)
  BY NewViewIs, NewViewParts
<1>2. repo.state \in SyncState /\ ~repo.state.new /\ E \in RecordSet
  <2>1. repo.state \in SyncState /\ ~repo.state.new
    BY DEF SyncTypes
  <2> QED
    BY <2>1, KnownType, AddType DEF SyncState, Got
<1>3. /\ Arrived(rs) => Complete(E)
      /\ ~Arrived(rs) => rs = EmptyDiff
  BY <1>1, <1>2, ExternalIs
<1> HIDE DEF N
<1>4. CASE Takes(N, rs)
  <2> DEFINE r == TakenBy(N, rs)
  <2>1. TakenGood(N, rs, r)
    BY <1>1, <1>2, <1>4, TakenFacts
  <2>2. /\ w \in SyncView /\ w.phase = "got" /\ (w.discarded <=> N.discarded)
        /\ w.item = MergedItem(N, rs, r) /\ w.local = Imported(N.local, r.apply)
        /\ w.state = TakenState(N, r)
        /\ w.send = IF Leaves(N, rs, r)
                    THEN IF N.state.new \/ ~N.state.exists THEN EmptyDiff ELSE Removed
                    ELSE r.send
        /\ w.forget <=> EmptyState(TakenState(N, r)) \/ Leaves(N, rs, r)
        /\ w.applied <=> N.applied \/ r.apply # EmptyDiff
        /\ w.moved <=> N.moved \/ MergedItem(N, rs, r) # N.item
        /\ IsMerge(r)
    BY <1>1, <1>4, MergedIs DEF N
  <2> HIDE DEF r
  <2>3. MergedItem(N, rs, r) = "in" /\ (repo.item = "gone" => Arrived(rs))
    BY <1>1, <1>4 DEF MergedItem, Enters, Takes, EditsRepo
  <2>4. ~Leaves(N, rs, r)
    BY <2>3 DEF Leaves
  <2>5. ~EmptyState(TakenState(N, r))
    <3>1. Complete(Known(r)) /\ r.agreed \in RecordSet /\ r.pending \in Diff /\ r.pending.exc = {}
      BY <2>1 DEF TakenGood, IsMerge
    <3>2. Known(r) # NoRecords
      BY <3>1, NotComplete
    <3>3. TakenState(N, r).agreed = r.agreed /\ TakenState(N, r).pending = r.pending
      BY DEF TakenState
    <3> QED
      BY <3>1, <3>2, <3>3, NothingKnown DEF EmptyState
  <2>6. w.send = r.send /\ r.send \in Diff /\ ~w.forget /\ w.item = "in"
    BY <2>2, <2>3, <2>4, <2>5 DEF IsMerge
  <2>7. (~w.moved => repo.item = "in") /\ (w.applied <=> r.apply # EmptyDiff)
    BY <1>1, <2>2, <2>3
  <2>8. Merges(w, rs, r)
    BY <1>1, <2>1, <2>2, <2>3, <2>6, <2>7 DEF Merges, r, N
  <2> QED
    BY <1>1, <2>2, <2>6, <2>8
<1>5. CASE ~Takes(N, rs)
  <2> DEFINE st == QuietState(N, rs)
  <2>1. /\ w \in SyncView /\ w.phase = "got" /\ (w.discarded <=> N.discarded)
        /\ w.item = N.item /\ w.state = st
        /\ w.send = IF Left(N, st) /\ ~st.removal /\ ~st.new THEN Removed ELSE EmptyDiff
        /\ w.forget <=> st.exists /\ (EmptyState(st) \/ N.item # "in")
        /\ (w.applied <=> N.applied) /\ (w.moved <=> N.moved)
    BY <1>1, <1>5, QuietIs DEF N
  <2>2. ~Arrived(rs)
    <3>1. Arrived(rs) => RSAdd(Known(N.state), rs) # NoRecords
      BY <1>1, <1>2, <1>3, NotComplete DEF Got
    <3> QED
      BY <1>5, <3>1 DEF Takes
  <2>3. rs = EmptyDiff /\ st = repo.state
    BY <1>1, <1>3, <2>2 DEF QuietState
  <2> HIDE DEF st
  <2>4. N.item # "in" => ~st.exists
    BY <1>1, <2>3 DEF EditsRepo
  <2>5. w.send = EmptyDiff /\ (w.forget => EmptyState(repo.state))
    BY <2>1, <2>3, <2>4 DEF Left
  <2>6. Idles(w, rs)
    BY <1>1, <2>1, <2>3, <2>5 DEF Idles
  <2> QED
    BY <1>1, <2>1, <2>5, <2>6, ConstantTypes
<1> QED
  BY <1>4, <1>5

-----------------------------------------------------------------------------
(* EditsInv is inductive.                                                   *)
LEMMA EditsInit == Init => EditsInv
<1> SUFFICES ASSUME Init PROVE EditsInv
  OBVIOUS
<1>1. ~Busy
  BY BusyIs DEF Init, Busy
<1>2. repo.item \in {"in", "gone"} /\ repo.state = NoState
  BY DEF Init
<1> QED
  BY <1>1, <1>2, NoStateIs, ConstantTypes DEF Init, EditsInv, EditsRepo

(* What the server has is what a get brings, on top of what is known.       *)
LEMMA ServerIsGot ==
  ASSUME Filtered = {}, Books, EditsInv
  PROVE  /\ server = Got(missed) /\ Before(NewView, Got(missed), missed)
         /\ Fold(EmptyDiff, missed) = missed
         /\ server \in FullRecordSet
         /\ Known(repo.state) \in FullRecordSet
<1>1. SyncTypes /\ RepoBook
  BY DEF Books, BookInv, EditsInv
<1>2. /\ repo.state.agreed \in RecordSet /\ repo.state.pending \in Diff
      /\ server \in RecordSet /\ missed \in Diff /\ missed # Removed
  BY <1>1, RecordSetSyncAssumption DEF SyncTypes, SyncState, EditsInv
<1>3. Known(repo.state) \in RecordSet /\ Got(missed) \in RecordSet
  BY <1>2, KnownType, AddType DEF Got
<1>4. server = Got(missed)
  <2>1. Agree(server, Got(missed))
    BY <1>1, <1>2 DEF RepoBook, Stored, Got
  <2> QED
    BY <1>2, <1>3, <2>1, PlainSets
<1>5. Before(NewView, Got(missed), missed)
  BY <1>1, <1>4, NewViewIs DEF EditsInv
<1>6. Fold(EmptyDiff, missed) = missed
  <2>1. missed.exc = {} /\ EmptyDiff \in ServerChange /\ EmptyDiff.exc = {} /\ EmptyDiff # Removed
    BY <1>1, <1>2, NothingAdded, EmptyIs DEF RepoBook, AnswerOK
  <2>2. /\ Fold(EmptyDiff, missed) \in Diff /\ Fold(EmptyDiff, missed).exc = {}
        /\ Fold(EmptyDiff, missed).inc = RSAdd(EmptyDiff.inc, missed)
    BY <1>2, <2>1, FoldIs DEF ServerChange
  <2> DEFINE inc == missed.inc
  <2>3. missed = AsDiff(inc) /\ inc \in RecordSet
    BY <1>2, <2>1 DEF AsDiff, Diff
  <2> HIDE DEF inc
  <2>4. RSAdd(NoRecords, missed) = inc /\ EmptyDiff.inc = NoRecords
    BY <2>3, NothingAdded
  <2>5. Fold(EmptyDiff, missed).inc = missed.inc
    BY <2>2, <2>4 DEF inc
  <2>6. \A d \in Diff, e \in Diff : d.inc = e.inc /\ d.exc = e.exc => d = e
    BY DEF Diff
  <2> QED
    BY <1>2, <2>1, <2>2, <2>5, <2>6
<1>7. server \in FullRecordSet
  BY <1>1, <1>2, PlainSets, WholeIs DEF RepoBook, ServerOK
<1>8. Known(repo.state) \in FullRecordSet
  BY <1>1, <1>3, PlainSets, WholeIs DEF RepoBook, StateOK
<1> QED
  BY <1>4, <1>5, <1>6, <1>7, <1>8

LEMMA FetchedKeeps ==
  ASSUME NEW v \in SyncView, NEW rs
  PROVE  Fetched(v, rs).fetched = Fold(v.fetched, rs)
  BY Zenon DEF Fetched, SyncView

LEMMA FoldInDiff ==
  ASSUME NEW m \in Diff, NEW p \in Diff
  PROVE  Fold(m, p) \in Diff
<1>1. m # Removed /\ p # Removed
  BY RecordSetSyncAssumption
<1>2. DiffIAdd(EmptyDiff, m) \in Diff
  BY ConstantTypes, IAddType
<1> QED
  BY <1>1, <1>2, IAddType DEF Fold, DiffAdd, DiffClone

LEMMA EditsGet ==
  ASSUME Filtered = {}, Books, EditsInv, Get
  PROVE  EditsInv' /\ view'.fetched = missed /\ view' \in SyncView
<1> DEFINE w == Fetched(NewView, missed)
<1>1. /\ view' = w /\ news' = EmptyDiff /\ UNCHANGED <<repo, missed, server, discarded>>
      /\ NewView' = NewView
  BY DEF Get, NewView
<1>2. SyncTypes /\ EditsRepo /\ missed \in Diff /\ ~discarded
  BY DEF Books, EditsInv
<1>3. Before(NewView, Got(missed), missed) /\ Fold(EmptyDiff, missed) = missed
  BY ServerIsGot
<1>4. w \in SyncView /\ ~w.discarded
  BY <1>2, <1>3, RunIs
<1>5. w.fetched = missed
  BY <1>2, <1>3, NewViewIs, NewViewParts, FetchedKeeps
<1> HIDE DEF w
<1>6. w = Fetched(NewView', w.fetched)
  BY <1>1, <1>5 DEF w
<1>7. RunOver(view)'
  BY <1>1, <1>2, <1>3, <1>4, <1>5, <1>6 DEF RunOver, Got
<1> QED
  BY <1>1, <1>2, <1>4, <1>5, <1>7, ConstantTypes DEF EditsInv, EditsRepo

(* A step that leaves the repository alone leaves the run of the view good.  *)
LEMMA RunStays ==
  ASSUME RunOver(view), UNCHANGED repo,
         view' = view \/ view' = [view EXCEPT !.phase = "sent"], view \in SyncView
  PROVE  RunOver(view)' /\ view'.fetched = view.fetched
<1>1. /\ view'.fetched = view.fetched /\ view'.item = view.item /\ view'.local = view.local
      /\ view'.state = view.state /\ view'.send = view.send
      /\ view'.forget = view.forget /\ view'.applied = view.applied
      /\ view'.moved = view.moved /\ view'.discarded = view.discarded
  BY DEF SyncView
<1>2. NewView' = NewView
  BY DEF NewView
<1> QED
  BY <1>1, <1>2 DEF RunOver, Got

LEMMA EditsPut ==
  ASSUME Filtered = {}, Books, EditsInv, Put
  PROVE  EditsInv' /\ view'.fetched = view.fetched
<1>1. /\ Busy /\ view' = [view EXCEPT !.phase = "sent"] /\ missed' = Fold(missed, view.send)
      /\ UNCHANGED <<repo, news, stale, discarded>>
  BY DEF Put
<1>2. SyncTypes /\ EditsRepo /\ missed \in Diff /\ news \in Diff /\ ~discarded /\ RunOver(view)
  BY <1>1 DEF Books, EditsInv
<1>3. view \in SyncView
  BY <1>1, <1>2, BusyViews
<1>4. RunOver(view)' /\ view'.fetched = view.fetched
  BY <1>1, <1>2, <1>3, RunStays
<1>5. view.send \in Diff
  BY <1>2, RunIs DEF RunOver
<1>6. missed' \in Diff
  BY <1>1, <1>2, <1>5, FoldInDiff
<1> QED
  BY <1>1, <1>2, <1>4, <1>6 DEF EditsInv, EditsRepo

LEMMA EditsDrop ==
  ASSUME EditsInv, view' \in {NoView, Committed}, news' \in Diff,
         UNCHANGED <<repo, missed, discarded>>
  PROVE  EditsInv'
<1>1. ~Busy'
  BY BusyIs DEF Busy
<1> QED
  BY <1>1 DEF EditsInv, EditsRepo

LEMMA EditsOthers ==
  ASSUME Filtered = {}, Books, EditsInv, OthersEdit \/ OthersPutElsewhere
  PROVE  /\ EditsInv'
         /\ UNCHANGED <<repo, view>>
         /\ server' \in FullRecordSet
<1>1. UNCHANGED <<repo, view, discarded>>
  BY DEF OthersEdit, OthersPut, OthersPutElsewhere
<1>2. SyncTypes /\ EditsRepo /\ missed \in Diff /\ news \in Diff /\ ~discarded
  BY DEF Books, EditsInv
<1>3. missed' \in Diff /\ news' \in Diff /\ server' \in FullRecordSet
  <2>1. CASE OthersPutElsewhere
    BY <1>2, <2>1, ServerIsGot DEF OthersPutElsewhere
  <2>2. CASE OthersEdit
    <3>1. PICK put \in {RSSub(rs, server) : rs \in Whole \ {server}}
                       \cup (IF server = NoRecords THEN {} ELSE {Removed}) :
            /\ server' = Stored(server, put)
            /\ missed' = Fold(missed, put)
            /\ news' = IF Busy THEN Fold(news, put) ELSE news
      BY <2>2 DEF OthersEdit, OthersPut
    <3>2. put # Removed
      BY <2>2, <3>1 DEF OthersEdit, Stored
    <3>3. PICK rs \in Whole : put = RSSub(rs, server)
      BY <3>1, <3>2
    <3>4. rs \in RecordSet /\ server \in RecordSet /\ put \in Diff
      BY <1>2, <3>3, SubType DEF SyncTypes, Whole
    <3>5. RSAdd(server, put) = rs
      BY <3>3, <3>4, RoundTrip DEF Whole, Keys
    <3>6. server' \in FullRecordSet
      BY <3>1, <3>2, <3>3, <3>5, WholeIs DEF Stored
    <3> QED
      BY <1>2, <3>1, <3>4, <3>6, FoldInDiff
  <2> QED
    BY <2>1, <2>2
<1>4. Busy => RunOver(view)'
  BY <1>1, <1>2, RunStays, BusyViews DEF EditsInv
<1>5. Busy' <=> Busy
  BY <1>1 DEF Busy
<1> QED
  BY <1>1, <1>2, <1>3, <1>4, <1>5 DEF EditsInv, EditsRepo

LEMMA EditsUser ==
  ASSUME Books, EditsInv, EditBetween
  PROVE  /\ EditsInv'
         /\ repo'.state = repo.state /\ repo'.local \in FullRecordSet \ {repo.local}
         /\ UNCHANGED <<view, server>> /\ ~Busy
<1>1. PICK rs \in Whole \ {repo.local} :
        ChangeAnytime([repo EXCEPT !.local = rs, !.changed = (repo.item = "in")])
  BY DEF EditBetween, Edit
<1>2. ~Busy
  BY DEF EditBetween
<1>3. UNCHANGED <<view, missed, news, stale, server, discarded>>
  BY <1>1, <1>2 DEF ChangeAnytime
<1>4. repo'.item = repo.item /\ repo'.state = repo.state /\ repo'.local = rs
  BY <1>1 DEF ChangeAnytime, Books, SyncTypes
<1>5. ~Busy'
  BY <1>2, <1>3 DEF Busy
<1> QED
  BY <1>2, <1>3, <1>4, <1>5, WholeIs DEF EditsInv, EditsRepo

-----------------------------------------------------------------------------
(* The commit of a run that merged is the sync of ShareState, and that of   *)
(* one that found nothing to do is none of its steps.                       *)
LEMMA CommitParts ==
  ASSUME Books, Commit
  PROVE  /\ view \in SyncView /\ SyncTypes /\ (view.phase = "sent" \/ view.send = EmptyDiff)
         /\ view' = Committed /\ missed' = news /\ news' = EmptyDiff
         /\ discarded' = (discarded \/ view.discarded)
         /\ repo'.item = CommittedItem
         /\ repo'.local = IF view.applied THEN view.local ELSE repo.local
         /\ view.forget => repo'.state = NoState
         /\ ~view.forget => /\ repo'.state.agreed = view.state.agreed
                            /\ repo'.state.pending = view.state.pending
                            /\ (repo'.state.removal <=> view.state.removal)
                            /\ (repo'.state.exists <=> view.state.exists)
<1>1. SyncTypes /\ view \in SyncView /\ Linked(view)
  BY BusyViews DEF Books, Commit
<1>2. repo' = CommittedRepo
  BY DEF Commit
<1> QED
  BY <1>1, <1>2, CommittedIs DEF Commit

(* What a commit leaves, by what the run did.                               *)
CommitsIdle ==
  /\ view.fetched = EmptyDiff
  /\ repo'.item = repo.item /\ repo'.local = repo.local
  /\ repo'.state.agreed = repo.state.agreed /\ repo'.state.pending = repo.state.pending
  /\ ~repo'.state.removal
  /\ repo'.state.exists => repo.state.exists

CommitsMerge(r) ==
  /\ r = TakenBy(NewView, view.fetched) /\ TakenGood(NewView, view.fetched, r)
  /\ repo.item = "gone" => Arrived(view.fetched)
  /\ repo'.item = "in" /\ repo'.local = Imported(repo.local, r.apply)
  /\ repo'.state.agreed = r.agreed /\ repo'.state.pending = r.pending
  /\ ~repo'.state.removal

LEMMA CommitIs ==
  ASSUME Books, EditsInv, Commit
  PROVE  /\ CommitsIdle \/ \E r : CommitsMerge(r)
         /\ ~discarded'
<1> DEFINE rs == view.fetched
           w == Fetched(NewView, rs)
<1>1. /\ view \in SyncView /\ SyncTypes /\ EditsRepo
      /\ rs \in Diff /\ Before(NewView, Got(rs), rs)
      /\ view.item = w.item /\ view.local = w.local /\ view.state = w.state
      /\ view.send = w.send /\ (view.forget <=> w.forget)
      /\ (view.applied <=> w.applied) /\ (view.moved <=> w.moved) /\ ~view.discarded
      /\ ~discarded
  BY CommitParts DEF EditsInv, RunOver, Commit
<1>2. Idles(w, rs) \/ \E r : Merges(w, rs, r)
  BY <1>1, RunIs
<1>3. /\ repo'.item = CommittedItem
      /\ repo'.local = IF view.applied THEN view.local ELSE repo.local
      /\ view.forget => repo'.state = NoState
      /\ ~view.forget => /\ repo'.state.agreed = view.state.agreed
                         /\ repo'.state.pending = view.state.pending
                         /\ (repo'.state.removal <=> view.state.removal)
                         /\ (repo'.state.exists <=> view.state.exists)
      /\ discarded' = (discarded \/ view.discarded)
  BY CommitParts
<1> HIDE DEF w
<1>4. CASE Idles(w, rs)
  <2>1. repo'.item = repo.item /\ repo'.local = repo.local
    BY <1>1, <1>3, <1>4 DEF Idles, CommittedItem
  <2>2. CASE view.forget
    BY <1>1, <1>3, <1>4, <2>1, <2>2, NoStateIs DEF Idles, EmptyState, CommitsIdle
  <2>3. CASE ~view.forget
    BY <1>1, <1>3, <1>4, <2>1, <2>3 DEF Idles, CommitsIdle, EditsRepo
  <2> QED
    BY <1>1, <1>3, <2>2, <2>3
<1>5. ASSUME NEW r, Merges(w, rs, r) PROVE CommitsMerge(r)
  <2>1. repo'.item = "in"
    BY <1>1, <1>3, <1>5 DEF Merges, CommittedItem
  <2>2. repo'.local = Imported(repo.local, r.apply)
    BY <1>1, <1>3, <1>5 DEF Merges, Imported
  <2>3. /\ repo'.state.agreed = r.agreed /\ repo'.state.pending = r.pending
        /\ ~repo'.state.removal
    BY <1>1, <1>3, <1>5 DEF Merges, TakenState
  <2> QED
    BY <1>5, <2>1, <2>2, <2>3 DEF Merges, CommitsMerge
<1> QED
  BY <1>1, <1>2, <1>3, <1>4, <1>5

LEMMA EditsCommit ==
  ASSUME Books, EditsInv, Commit
  PROVE  EditsInv'
<1>1. ~discarded' /\ (CommitsIdle \/ \E r : CommitsMerge(r))
  BY CommitIs
<1>2. view' = Committed /\ missed' = news /\ news' = EmptyDiff
  BY CommitParts
<1>3. ~Busy'
  BY <1>2, BusyIs DEF Busy
<1>4. EditsRepo'
  BY <1>1 DEF EditsInv, EditsRepo, CommitsIdle, CommitsMerge
<1> QED
  BY <1>1, <1>2, <1>3, <1>4, ConstantTypes DEF EditsInv

LEMMA EditsNextStep ==
  ASSUME Filtered = {}, Books, EditsInv, EditsNext
  PROVE  EditsInv'
<1>1. CASE EditBetween
  BY <1>1, EditsUser
<1>2. CASE OthersEdit \/ OthersPutElsewhere
  BY <1>2, EditsOthers
<1>3. CASE Get
  BY <1>3, EditsGet
<1>4. CASE Put
  BY <1>4, EditsPut
<1>5. CASE Commit
  BY <1>5, EditsCommit
<1>6. CASE Release \/ Fail
  BY <1>6, EditsDrop, ConstantTypes DEF Release, Fail, EditsInv
<1> QED
  BY <1>1, <1>2, <1>3, <1>4, <1>5, <1>6 DEF EditsNext

LEMMA ImportNothing ==
  ASSUME NEW rs \in FullRecordSet
  PROVE  Import(rs, EmptyDiff) = rs
<1>1. rs \in RecordSet /\ EmptyDiff \in Diff /\ RSAdd(rs, EmptyDiff) = rs
  BY FullFacts, ConstantTypes, NothingAdded
<1>2. Import(rs, EmptyDiff) \in RecordSet
  BY <1>1, ImportType, FullFacts
<1>3. \A k \in Key, f \in Field : Import(rs, EmptyDiff)[k][f] = rs[k][f]
  BY <1>1, ImportAt, FullFacts
<1> QED
  BY <1>1, <1>2, <1>3, RecordSetEquality

(* What ShareState sees, by the sync's phase.                               *)
LEMMA SharedIs ==
  ASSUME Books
  PROVE  /\ Busy /\ view.fetched \in Diff => SharedExternal = Got(view.fetched)
         /\ view = Committed => SharedExternal = Known(repo.state) /\ ~Busy
         /\ view = NoView => SharedExternal = server /\ ~Busy
         /\ Busy \/ view = Committed \/ view = NoView
<1>1. NoView # Committed /\ (view = NoView \/ view = Committed => ~Busy)
  BY BusyIs DEF Busy
<1>2. Busy \/ view = Committed \/ view = NoView
  BY BusyViews DEF Books, SyncTypes
<1> QED
  BY <1>1, <1>2, RecordSetSyncAssumption DEF SharedExternal, Stored, Got

LEMMA SharedBusy == Busy => SharedExternal = Stored(Known(repo.state), view.fetched)
<1>1. Busy => view # Committed
  BY BusyIs DEF Busy
<1> QED
  BY <1>1 DEF SharedExternal

LEMMA SharedNext ==
  /\ view' = Committed => SharedExternal' = Known(repo'.state)
  /\ view' = NoView => SharedExternal' = server'
  /\ Busy' => SharedExternal' = Stored(Known(repo'.state), view'.fetched)
<1>1. NoView # Committed /\ (view' = NoView \/ view' = Committed => ~Busy')
  BY BusyIs DEF Busy
<1> QED
  BY <1>1 DEF SharedExternal

LEMMA ShareStutters ==
  ASSUME SharedExternal' = SharedExternal, repo'.local = repo.local,
         repo'.state.agreed = repo.state.agreed, repo'.state.pending = repo.state.pending
  PROVE  UNCHANGED Share!vars
  BY DEF Share!vars, Known

LEMMA ShareMoves ==
  ASSUME SharedExternal' \in FullRecordSet, UNCHANGED repo
  PROVE  [Share!Next]_(Share!vars)
<1>1. CASE SharedExternal' = SharedExternal
  BY <1>1, ShareStutters
<1>2. CASE SharedExternal' # SharedExternal
  <2>1. Share!RemoteEdit
    BY <1>2, SameSets DEF Share!RemoteEdit
  <2> QED
    BY <2>1 DEF Share!Next, Share!Edit
<1> QED
  BY <1>1, <1>2

(* A run of the sync merges what ShareState's sync merges.                  *)
LEMMA RunMergesShare ==
  ASSUME Filtered = {}, Books, EditsInv, Busy, NEW rs, rs = view.fetched,
         repo.item = "gone" => Arrived(rs), NEW r, r = TakenBy(NewView, rs)
  PROVE  LET merged == MergeReadWrite(repo.state, repo.local, Got(rs))
         IN  r = IF merged.pending = EmptyDiff THEN merged ELSE AutoResolve(merged, repo.local)
<1>1. /\ SyncTypes /\ EditsRepo /\ rs \in Diff /\ Before(NewView, Got(rs), rs)
      /\ NewView.item = repo.item /\ NewView.local = repo.local /\ NewView.state = repo.state
  BY NewViewParts DEF Books, EditsInv, RunOver
<1>2. NewView \in SyncView /\ Got(rs) \in RecordSet
  BY <1>1, NewViewIs, KnownType, AddType DEF SyncTypes, SyncState, Got
<1>3. MergedBy(NewView, rs) = MergeReadWrite(BaseOf(NewView), Internal(NewView), Got(rs))
  BY <1>1 DEF MergedBy, Got
<1>4. CASE repo.item # "gone"
  <2>1. /\ Internal(NewView) = repo.local /\ BaseOf(NewView).agreed = repo.state.agreed
    BY <1>1, <1>4 DEF Internal, BaseOf
  <2>2. MergedBy(NewView, rs) = MergeReadWrite(repo.state, repo.local, Got(rs))
    BY <1>3, <2>1, MergeBase
  <2> QED
    BY <1>1, <1>4, <2>1, <2>2 DEF TakenBy
<1>5. CASE repo.item = "gone"
  <2>1. repo.local = NoRecords /\ repo.state.agreed = NoRecords
    BY <1>1, <1>5 DEF EditsRepo, SyncTypes, Before, StateOK
  <2>2. /\ Internal(NewView) = NoRecords /\ BaseOf(NewView).agreed = NoRecords
    BY <1>1, <1>5 DEF Internal, BaseOf
  <2>3. MergedBy(NewView, rs) = MergeReadWrite(repo.state, repo.local, Got(rs))
    BY <1>3, <2>1, <2>2, MergeBase
  <2>4. Got(rs) \in FullRecordSet
    <3>1. Complete(Got(rs))
      BY <1>1, <1>2, <1>5, ExternalIs
    <3> QED
      BY <1>2, <3>1, PlainSets
  <2>5. MergedBy(NewView, rs).pending = EmptyDiff
    BY <2>1, <2>3, <2>4, WholeIs, MergeUntouched
  <2> QED
    BY <1>1, <1>5, <2>3, <2>5 DEF TakenBy
<1> QED
  BY <1>4, <1>5

LEMMA CommitRefines ==
  ASSUME Filtered = {}, Books, EditsInv, Commit
  PROVE  [Share!Next]_(Share!vars)
<1> DEFINE rs == view.fetched
           E == Got(rs)
           K == Known(repo.state)
<1>1. /\ SyncTypes /\ EditsRepo /\ Busy /\ rs \in Diff /\ Before(NewView, E, rs)
      /\ view' = Committed
  BY CommitParts DEF EditsInv, RunOver, Commit
<1>2. /\ repo.state.agreed \in RecordSet /\ repo.state.pending \in Diff
      /\ repo.local \in FullRecordSet /\ K \in RecordSet /\ E \in RecordSet
  <2>1. /\ repo.state.agreed \in RecordSet /\ repo.state.pending \in Diff
        /\ repo.local \in FullRecordSet
    BY <1>1 DEF SyncTypes, SyncState
  <2> QED
    BY <1>1, <2>1, KnownType, AddType DEF Got
<1>3. SharedExternal = E
  BY <1>1, SharedIs
<1>4. SharedExternal' = Known(repo'.state)
  BY <1>1, SharedNext
<1>5. CASE CommitsIdle
  <2>1. E = K /\ Known(repo'.state) = K
    BY <1>2, <1>5, NothingAdded DEF CommitsIdle, Got, Known
  <2> QED
    BY <1>3, <1>4, <1>5, <2>1, ShareStutters DEF CommitsIdle
<1>6. ASSUME NEW r, CommitsMerge(r) PROVE Share!Sync
  <2> DEFINE merged == MergeReadWrite(repo.state, repo.local, E)
             st == [agreed |-> repo.state.agreed, pending |-> repo.state.pending]
  <2>1. r = IF merged.pending = EmptyDiff THEN merged ELSE AutoResolve(merged, repo.local)
    BY <1>1, <1>6, RunMergesShare DEF CommitsMerge
  <2>2. TakenGood(NewView, rs, r) /\ IsMerge(r)
    BY <1>6 DEF CommitsMerge, TakenGood
  <2>3. Share!RsExternal = E
    <3>1. Share!RsExternal = RSAdd(Known(st), RSSub(E, K))
      BY <1>3, SameUpdates DEF Share!RsExternal, Share!ExternalByDiff
    <3>2. Known(st) = K
      BY DEF Known
    <3>3. \A k \in Keys(E), f \in Field : E[k][f] = NoChange => K[k][f] = NoChange
      <4>1. NewView \in SyncView /\ NewView.state = repo.state
        BY <1>1, NewViewIs, NewViewParts
      <4>2. CASE Arrived(rs)
        <5>1. Complete(E)
          BY <1>1, <1>2, <4>1, <4>2, ExternalIs
        <5> QED
          BY <5>1 DEF Complete, Keys
      <4>3. CASE ~Arrived(rs)
        <5>1. E = K
          BY <1>1, <1>2, <4>1, <4>3, ExternalIs DEF Got
        <5> QED
          BY <5>1
      <4> QED
        BY <4>2, <4>3
    <3> HIDE DEF E, K
    <3>4. RSAdd(K, RSSub(E, K)) = E
      BY <1>2, <3>3, RoundTrip
    <3> QED
      BY <3>1, <3>2, <3>4
  <2>4. Share!Merge(E) = merged
    <3>1. Share!Merge(E) = MergeReadWrite(st, repo.local, E)
      BY SameMerge DEF Share!Merge
    <3>2. st.agreed = repo.state.agreed
      OBVIOUS
    <3> QED
      BY <3>1, <3>2, MergeBase
  <2>5. repo'.local = Import(repo.local, r.apply)
    <3>1. repo'.local = Imported(repo.local, r.apply)
      BY <1>6 DEF CommitsMerge
    <3>2. Import(repo.local, EmptyDiff) = repo.local
      BY <1>2, ImportNothing
    <3> QED
      BY <3>1, <3>2 DEF Imported
  <2>6. Known(repo'.state) = RSAdd(E, r.send)
    <3>1. /\ Agree(Known(r), RSAdd(E, r.send))
          /\ r.agreed \in RecordSet /\ r.pending \in Diff /\ r.send \in Diff
      BY <2>2, NewViewParts DEF TakenGood, IsMerge, Got
    <3>2. Known(r) \in RecordSet /\ RSAdd(E, r.send) \in RecordSet
      BY <1>2, <3>1, KnownType, AddType
    <3>3. Known(repo'.state) = Known(r)
      BY <1>6 DEF CommitsMerge, Known
    <3> QED
      BY <3>1, <3>2, <3>3, PlainSets
  <2>7. SharedExternal' \in Share!PutResults(r)
    BY <1>3, <1>4, <2>6, SameUpdates DEF Share!PutResults
  <2>8. [agreed |-> repo'.state.agreed, pending |-> repo'.state.pending]
          = [agreed |-> r.agreed, pending |-> r.pending]
    BY <1>6 DEF CommitsMerge
  <2> HIDE DEF merged, st, E, K
  <2>9. r = IF merged.pending = Share!EmptyDiff THEN merged ELSE Share!AutoResolve(merged, repo.local)
    BY <2>1, SameSets, SameResolve
  <2>10. repo'.local = Share!Import(repo.local, r.apply)
    BY <2>5, SameImport
  <2> QED
    BY <1>4, <2>3, <2>4, <2>7, <2>8, <2>9, <2>10 DEF Share!Sync
<1>7. (\E r : CommitsMerge(r)) => Share!Next
  BY <1>6 DEF Share!Next, Share!Settle
<1> QED
  BY <1>5, <1>7, CommitIs

(* Every other step is a change by a user or by others, or none that        *)
(* ShareState sees.                                                         *)
LEMMA EditsRefine ==
  ASSUME Filtered = {}, Books, EditsInv, EditsNext
  PROVE  [Share!Next]_(Share!vars)
<1>1. CASE EditBetween
  <2>1. /\ repo'.state = repo.state /\ repo'.local \in FullRecordSet \ {repo.local}
        /\ UNCHANGED <<view, server>>
    BY <1>1, EditsUser
  <2>2. SharedExternal' = SharedExternal
    BY <2>1 DEF SharedExternal, Busy
  <2>3. Share!LocalEdit
    BY <2>1, <2>2, SameSets DEF Share!LocalEdit
  <2> QED
    BY <2>3 DEF Share!Next, Share!Edit
<1>2. CASE OthersEdit \/ OthersPutElsewhere
  <2>1. UNCHANGED <<repo, view>> /\ server' \in FullRecordSet /\ server \in FullRecordSet
    BY <1>2, EditsOthers, ServerIsGot
  <2>2. CASE Busy
    <3>1. SharedExternal' = SharedExternal
      BY <2>1, <2>2 DEF SharedExternal, Busy
    <3> QED
      BY <2>1, <3>1, ShareStutters
  <2>3. CASE view = Committed
    <3>1. SharedExternal' = SharedExternal
      BY <2>1, <2>3, SharedIs, SharedNext
    <3> QED
      BY <2>1, <3>1, ShareStutters
  <2>4. CASE view = NoView
    <3>1. SharedExternal' \in FullRecordSet
      BY <2>1, <2>4, SharedNext
    <3> QED
      BY <2>1, <3>1, ShareMoves
  <2> QED
    BY <2>2, <2>3, <2>4, SharedIs
<1>3. CASE Get
  <2>1. view = NoView /\ UNCHANGED <<repo, server>>
    BY <1>3 DEF Get
  <2>2. SharedExternal' = Stored(Known(repo.state), missed)
    <3>1. Busy' /\ view'.fetched = missed
      BY <1>3, EditsGet, BusyIs DEF Busy
    <3> QED
      BY <2>1, <3>1, SharedNext
  <2>3. SharedExternal = server /\ server = Stored(Known(repo.state), missed)
    BY <2>1, SharedIs, ServerIsGot, RecordSetSyncAssumption DEF EditsInv, Stored, Got
  <2> QED
    BY <2>1, <2>2, <2>3, ShareStutters
<1>4. CASE Put
  <2>1. UNCHANGED repo /\ Busy /\ view'.fetched = view.fetched /\ Busy'
    <3>1. view \in SyncView /\ view' = [view EXCEPT !.phase = "sent"]
      BY <1>4, BusyViews DEF Put, Books
    <3>2. view'.phase = "sent"
      BY <3>1 DEF SyncView
    <3> QED
      BY <1>4, <3>2, EditsPut DEF Put, Busy
  <2>2. SharedExternal' = Stored(Known(repo.state), view.fetched)
    BY <2>1, SharedNext
  <2>3. SharedExternal = Stored(Known(repo.state), view.fetched)
    BY <2>1, SharedBusy
  <2> QED
    BY <2>1, <2>2, <2>3, ShareStutters
<1>5. CASE Commit
  BY <1>5, CommitRefines
<1>6. CASE Release \/ Fail
  <2>1. UNCHANGED <<repo, server>> /\ view' = NoView /\ server \in FullRecordSet
    BY <1>6, ServerIsGot DEF Release, Fail
  <2>2. SharedExternal' \in FullRecordSet
    BY <2>1, SharedNext
  <2> QED
    BY <2>1, <2>2, ShareMoves
<1> QED
  BY <1>1, <1>2, <1>3, <1>4, <1>5, <1>6 DEF EditsNext

MCInv == Books /\ (scope = "edits" => EditsInv)

LEMMA MCInvNext == ASSUME Filtered = {}, MCInv, [MCNext]_allVars PROVE MCInv'
<1>1. CASE scope = "all" /\ Next /\ UNCHANGED scope
  BY <1>1, NextStep DEF MCInv
<1>2. CASE scope = "edits" /\ EditsNext /\ UNCHANGED scope
  <2>1. Next
    BY <1>2 DEF EditsNext, EditBetween, OthersEdit, Next, User, Others, Syncing
  <2> QED
    BY <1>2, <2>1, NextStep, EditsNextStep DEF MCInv
<1>3. CASE UNCHANGED allVars
  <2>1. UNCHANGED <<repo, view, missed, news, stale, server, discarded, scope>> /\ UNCHANGED vars
    BY <1>3 DEF allVars, vars
  <2>2. EditsInv => EditsInv'
    <3>1. Busy' <=> Busy
      BY <2>1 DEF Busy
    <3>2. Busy /\ EditsInv => RunOver(view)'
      BY <2>1, RunStays, BusyViews DEF EditsInv, MCInv, Books
    <3> QED
      BY <2>1, <3>1, <3>2 DEF EditsInv, EditsRepo
  <2> QED
    BY <2>1, <2>2, NextStep DEF MCInv
<1> QED
  BY <1>1, <1>2, <1>3 DEF MCNext

LEMMA ShareInit == ASSUME Init PROVE Share!Init
<1>1. SharedExternal = server /\ Books
  BY InitBooks, SharedIs DEF Init
<1>2. repo.local \in FullRecordSet /\ repo.state = NoState /\ server = NoRecords
  BY WholeIs DEF Init
<1> QED
  BY <1>1, <1>2, SameSets, NoStateIs DEF Share!Init, Share!NewState

LEMMA MCStep ==
  ASSUME Filtered = {}, MCInv, [MCNext]_allVars
  PROVE  scope = "edits" => [Share!Next]_(Share!vars)
<1> SUFFICES ASSUME scope = "edits" PROVE [Share!Next]_(Share!vars)
  OBVIOUS
<1>1. CASE EditsNext
  BY <1>1, EditsRefine DEF MCInv
<1>2. CASE UNCHANGED allVars
  <2>1. UNCHANGED <<repo, view, server>>
    BY <1>2 DEF allVars, vars
  <2>2. SharedExternal' = SharedExternal
    BY <2>1 DEF SharedExternal, Busy
  <2> QED
    BY <2>1, <2>2, ShareStutters
<1> QED
  BY <1>1, <1>2 DEF MCNext

(* The sync with its gets, puts, mismatches given up, failures and lost     *)
(* commits implements the sync of ShareState, in which all of that is one   *)
(* step: what is proved of ShareState holds of the client and the server    *)
(* that MCRecordSetSync maps to it, as long as items stay in the collection *)
(* and the share filters no field.                                         *)
THEOREM RefinementTheorem ==
  ASSUME Filtered = {}
  PROVE  MCSpec => ImplementsShareState
<1>1. MCInit => MCInv /\ Share!Init
  BY InitBooks, EditsInit, ShareInit DEF MCInit, MCInv
<1>2. MCInv /\ [MCNext]_allVars => MCInv'
  BY MCInvNext
<1>3. MCInv /\ [MCNext]_allVars => (scope = "edits" => [Share!Next]_(Share!vars))
  BY MCStep
<1> QED
  BY <1>1, <1>2, <1>3, PTL DEF MCSpec, ImplementsShareState
=============================================================================
