-------------------------- MODULE ShareStateProofs --------------------------
(***************************************************************************)
(* On a share that sends, agreed and pending together always are what the  *)
(* peer held at the last sync (BaselineTracksPeer of ShareState), and what  *)
(* a sync may do to either side is what its merge may do (the action        *)
(* properties of ShareState).                                              *)
(***************************************************************************)
EXTENDS ShareState, StateMergeProofs

(* What is handed to merge() is the peer's records, up to filtered fields. *)
LEMMA InboundFacts ==
  ASSUME BaselineInv
  PROVE  RsExternal \in RecordSet /\ Agree(RsExternal, external) /\ SaysAll(RsExternal)
<1> DEFINE K == Known(state)
           D == RSSub(external, seen)
<1>1. /\ state.agreed \in RecordSet /\ state.pending \in Diff
      /\ external \in RecordSet /\ seen \in RecordSet
      /\ SaysAll(external)
  BY DEF BaselineInv, TypeOK, State, PeerRecordsWhole, SaysAll, Unfiltered
<1>2. K \in RecordSet
  BY <1>1, KnownType
<1>3. Agree(K, seen)
  BY <1>1, <1>2, FilterAgree DEF BaselineInv, BaselineTracksPeer
<1>4. \A k \in Key, f \in Filtered : K[k][f] = NoChange
  BY <1>1, AddAt, StateMergeAssumption DEF BaselineInv, FiltersHold, Known
<1>5. \A k \in Key : seen[k] = Blank => K[k] = Blank
  <2>1. SUFFICES ASSUME NEW k \in Key, seen[k] = Blank, NEW f \in Field PROVE K[k][f] = NoChange
    BY <1>2, RecordAt
  <2> QED
    BY <1>3, <1>4, <2>1 DEF Agree, Unfiltered, Blank
<1>6. D \in Diff
  BY <1>1, SubType
<1>7. \A r \in RecordSet :
        Agree(r, external) /\ (\A k \in Key : external[k] = Blank => r[k] = Blank) => SaysAll(r)
  BY <1>1 DEF Agree, SaysAll, Keys
<1> HIDE DEF K, D
<1>8. CASE IsDiff
  <2> DEFINE X == RSAdd(K, D)
  <2>1. RsExternal = X /\ X \in RecordSet
    BY <1>2, <1>6, <1>8, AddType DEF RsExternal, ExternalByDiff, K, D
  <2>2. ASSUME NEW k \in Key, NEW f \in Unfiltered PROVE X[k][f] = external[k][f]
    <3>1. f \in Field /\ K[k][f] = seen[k][f]
      BY <1>3 DEF Agree, Unfiltered
    <3>2. /\ k \in D.exc <=> seen[k] # Blank /\ external[k] = Blank
          /\ D.inc[k][f] = IF external[k][f] = seen[k][f] THEN NoChange ELSE external[k][f]
      BY <1>1, <3>1, SubExcluded, SubAt DEF D
    <3>3. external[k] = Blank => external[k][f] = NoChange
      BY <3>1 DEF Blank
    <3>4. seen[k] = Blank => seen[k][f] = NoChange
      BY <3>1 DEF Blank
    <3>5. external[k] # Blank => external[k][f] # NoChange
      BY <1>1 DEF SaysAll, Keys
    <3> QED
      BY <1>2, <1>6, <3>1, <3>2, <3>3, <3>4, <3>5, AddAt
  <2>3. ASSUME NEW k \in Key, external[k] = Blank PROVE X[k] = Blank
    <3>1. CASE seen[k] # Blank
      BY <1>1, <2>3, <3>1, SubExcluded DEF RSAdd, D
    <3>2. CASE seen[k] = Blank
      <4>1. SUFFICES ASSUME NEW f \in Field PROVE X[k][f] = NoChange
        BY <2>1, RecordAt
      <4>2. D.inc[k][f] = NoChange /\ K[k][f] = NoChange
        BY <1>1, <1>5, <2>3, <3>2, SubAt DEF D, Blank
      <4> QED
        BY <1>2, <1>6, <4>2, AddAt
    <3> QED
      BY <3>1, <3>2
  <2> QED
    BY <1>7, <2>1, <2>2, <2>3 DEF Agree
<1>9. CASE ~IsDiff /\ external = seen
  BY <1>2, <1>3, <1>5, <1>7, <1>9 DEF RsExternal, K
<1>10. CASE ~IsDiff /\ external # seen
  BY <1>1, <1>10 DEF RsExternal, Agree
<1> QED
  BY <1>8, <1>9, <1>10

LEMMA BaselineInit == Init => BaselineInv
<1> SUFFICES ASSUME Init PROVE BaselineInv
  OBVIOUS
<1>1. TypeOK
  BY ConstantTypes DEF Init, TypeOK, NewState, State, FullRecordSet
<1>2. PendingIsProper /\ DialogIsPending
  BY DEF Init, PendingIsProper, Proper, NewState, EmptyDiff, DialogIsPending
<1>3. FiltersHold
  BY StateMergeAssumption DEF Init, FiltersHold, NewState, EmptyDiff, NoRecords, Blank
<1>4. PeerRecordsWhole
  BY DEF Init, PeerRecordsWhole, Keys, NoRecords
<1>5. BaselineTracksPeer
  <2>1. Known(state) \in RecordSet /\ seen \in RecordSet
    BY <1>1, KnownType DEF TypeOK, State
  <2>2. Agree(Known(state), seen)
    <3>1. \A k \in Key, f \in Field : Known(state)[k][f] = NoChange /\ seen[k][f] = NoChange
      BY DEF Init, NewState, EmptyDiff, Known, RSAdd, RecAdd, NoRecords, Blank
    <3> QED
      BY <3>1 DEF Agree, Unfiltered
  <2> QED
    BY <2>1, <2>2, FilterAgree DEF BaselineTracksPeer
<1> QED
  BY <1>1, <1>2, <1>3, <1>4, <1>5 DEF BaselineInv

(* The invariant without the baseline itself, which is another one on a     *)
(* share that only receives.                                               *)
WellFormed ==
  TypeOK /\ PendingIsProper /\ FiltersHold /\ PeerRecordsWhole /\ DialogIsPending

(* A step that decides conflicts keeps it when it leaves a good state and a *)
(* dialog that is still pending.                                           *)
LEMMA DecisionStep ==
  ASSUME WellFormed,
         StateGood(state'), state' \in State,
         local' \in FullRecordSet, UNCHANGED external, seen' = seen,
         dialog' \subseteq Changes(state'.pending)
  PROVE  WellFormed'
<1>1. dialog' \in SUBSET Diff
  <2>1. \A c \in Changes(state'.pending) : c \in Diff
    BY ChangesArePart DEF StateGood, PartOf
  <2> QED
    BY <2>1
<1>2. TypeOK'
  BY <1>1 DEF TypeOK, WellFormed
<1>3. PendingIsProper' /\ FiltersHold'
  BY DEF StateGood, PendingIsProper, FiltersHold, FilterClear
<1>4. PeerRecordsWhole' /\ DialogIsPending'
  BY DEF WellFormed, PeerRecordsWhole, DialogIsPending
<1> QED
  BY <1>2, <1>3, <1>4 DEF WellFormed

LEMMA StateIsGood ==
  ASSUME WellFormed
  PROVE  StateGood(state)
  BY DEF WellFormed, TypeOK, State, PendingIsProper, FiltersHold, FilterClear, StateGood

LEMMA DiscardType ==
  ASSUME NEW st \in State, NEW c, StateGood(Discard(st, c))
  PROVE  Discard(st, c) \in State
  BY DEF Discard, State, StateGood

(* A sync is a merge of the local item with what the conduit hands over;   *)
(* the peer gets what the merge sends, or the records that are known of it. *)
SyncsWith(m, ext) ==
  /\ MergeGood(m, ext)
  /\ \A k \in Key : Honest(m, state, local, ext, k) /\ Yields(m, state, local, ext, k)
  /\ state' = [agreed |-> m.agreed, pending |-> m.pending]
  /\ local' = Import(local, m.apply)
  /\ external' = RSAdd(external, m.send) \/ (~IsDiff /\ external' = Known(m))
  /\ seen' = external'

LEMMA SyncIsMerge ==
  ASSUME ~ReadOnly, BaselineInv, Sync
  PROVE  \E m : SyncsWith(m, RsExternal)
<1> DEFINE ext == RsExternal
           merged == Merge(ext)
<1>1. PICK m : /\ m = IF merged.pending = EmptyDiff THEN merged ELSE AutoResolve(merged, local)
               /\ state' = [agreed |-> m.agreed, pending |-> m.pending]
               /\ local' = Import(local, m.apply)
               /\ external' \in PutResults(m)
               /\ seen' = external'
  BY DEF Sync
<1>2. /\ state.agreed \in RecordSet /\ local \in FullRecordSet /\ external \in RecordSet
      /\ \A k \in Key, f \in Filtered : state.agreed[k][f] = NoChange
  BY DEF BaselineInv, TypeOK, State, FiltersHold
<1>3. ext \in RecordSet /\ SaysAll(ext)
  BY InboundFacts
<1>4. merged = MergeReadWrite(state, local, ext)
  BY DEF Merge
<1> HIDE DEF ext, merged
<1>5. MergeGood(merged, ext)
  BY <1>2, <1>3, <1>4, MergeFacts
<1>6. \A k \in Key : Honest(merged, state, local, ext, k) /\ Cautious(merged, state, local, ext, k)
  BY <1>2, <1>3, <1>4, HonestMerge
<1>7. /\ MergeGood(m, ext)
      /\ \A k \in Key : Honest(m, state, local, ext, k) /\ Yields(m, state, local, ext, k)
  <2>1. CASE m = merged
    BY <1>5, <1>6, <2>1 DEF Cautious, Yields
  <2>2. CASE m = AutoResolve(merged, local)
    <3>1. MergeGood(m, ext)
      BY <1>2, <1>3, <1>5, <2>2, AutoResolveFacts
    <3>2. ASSUME NEW k \in Key
          PROVE  Honest(m, state, local, ext, k) /\ Yields(m, state, local, ext, k)
      BY <1>2, <1>3, <1>5, <1>6, <2>2, HonestResolve
    <3> QED
      BY <3>1, <3>2
  <2> QED
    BY <1>1, <2>1, <2>2
<1>8. external' = RSAdd(external, m.send) \/ (~IsDiff /\ external' = Known(m))
  <2>1. RSAdd(external, EmptyDiff) = external
    <3>1. RSAdd(external, EmptyDiff) \in RecordSet
      BY <1>2, ConstantTypes, AddType
    <3>2. \A k \in Key, f \in Field : RSAdd(external, EmptyDiff)[k][f] = external[k][f]
      BY <1>2, ConstantTypes, AddAt DEF EmptyDiff, NoRecords, Blank
    <3> QED
      BY <1>2, <3>1, <3>2, RecordSetEquality
  <2> QED
    BY <1>1, <2>1 DEF PutResults
<1> QED
  BY <1>1, <1>7, <1>8 DEF SyncsWith, ext

LEMMA SyncStep ==
  ASSUME ~ReadOnly, ~DialogSurvivesSync, BaselineInv, Sync
  PROVE  BaselineInv'
<1> DEFINE ext == RsExternal
<1>2. PICK m : SyncsWith(m, ext)
  BY SyncIsMerge
<1>3. /\ dialog = {} /\ dialog' = {}
      /\ local \in FullRecordSet /\ external \in RecordSet
      /\ PeerRecordsWhole
  BY DEF Sync, BaselineInv, TypeOK
<1>4. ext \in RecordSet /\ Agree(ext, external) /\ SaysAll(ext)
  BY InboundFacts
<1> HIDE DEF ext
<1> DEFINE ext1 == RSAdd(ext, m.send)
<1>7. /\ m.agreed \in RecordSet /\ m.pending \in Diff /\ m.send \in Diff /\ m.apply \in Diff
      /\ Proper(m.pending) /\ FilterClear(m)
      /\ SaysAll(ext1) /\ Agree(Known(m), ext1)
      /\ state' = [agreed |-> m.agreed, pending |-> m.pending]
      /\ local' = Import(local, m.apply)
      /\ seen' = external'
  BY <1>2 DEF SyncsWith, MergeGood
<1>8. ext1 \in RecordSet /\ local' \in FullRecordSet /\ Known(m) \in RecordSet
  BY <1>3, <1>4, <1>7, AddType, ImportType, KnownType
<1> DEFINE sent == RSAdd(external, m.send)
<1>14. external' = sent \/ external' = Known(m)
  BY <1>2 DEF SyncsWith
<1>15. external' \in RecordSet
  BY <1>3, <1>7, <1>8, <1>14, AddType
<1>9. Agree(ext1, external')
  <2>1. Agree(ext1, sent)
    BY <1>3, <1>4, <1>7, AddAgree
  <2>2. Agree(ext1, Known(m))
    BY <1>7 DEF Agree
  <2> QED
    BY <1>14, <2>1, <2>2
<1>10. TypeOK'
  BY <1>3, <1>7, <1>8, <1>15 DEF TypeOK, State
<1>11. PendingIsProper' /\ FiltersHold' /\ DialogIsPending'
  BY <1>3, <1>7 DEF PendingIsProper, FiltersHold, FilterClear, DialogIsPending
<1>12. BaselineTracksPeer'
  <2>1. Known(state') = Known(m) /\ Known(m) \in RecordSet
    BY <1>7, KnownType DEF Known
  <2>2. Agree(Known(m), external')
    BY <1>7, <1>9 DEF Agree
  <2> QED
    BY <1>7, <1>15, <2>1, <2>2, FilterAgree DEF BaselineTracksPeer
<1>13. PeerRecordsWhole'
  <2>1. SUFFICES ASSUME NEW k \in Key, external'[k] # Blank, NEW f \in Unfiltered
                 PROVE  external'[k][f] # NoChange
    BY DEF PeerRecordsWhole, Keys, Unfiltered
  <2>2. f \in Field
    BY DEF Unfiltered
  <2>3. PICK g \in Field : external'[k][g] # NoChange
    BY <1>15, <2>1, RecordAt
  <2>4. CASE external' = sent
    <3>1. k \notin m.send.exc
      BY <2>1, <2>4 DEF RSAdd
    <3>2. CASE external[k] # Blank
      <4>1. external[k][f] # NoChange
        BY <1>3, <3>2 DEF PeerRecordsWhole, Keys, Unfiltered
      <4> QED
        BY <1>3, <1>7, <2>2, <2>4, <3>1, <4>1, AddAt
    <3>3. CASE external[k] = Blank
      <4>1. m.send.inc[k][g] # NoChange
        BY <1>3, <1>7, <2>3, <2>4, <3>3, AddAt DEF Blank
      <4>2. ext1[k][g] # NoChange
        BY <1>4, <1>7, <3>1, <4>1, AddAt
      <4>3. ext1[k] # Blank
        BY <1>8, <4>2, RecordAt
      <4>4. ext1[k][f] # NoChange
        BY <1>7, <4>3 DEF SaysAll, Keys
      <4> QED
        BY <1>9, <4>4 DEF Agree
    <3> QED
      BY <3>2, <3>3
  <2>5. CASE external' = Known(m)
    <3>1. g \in Filtered => Known(m)[k][g] = NoChange
      BY <1>7, AddAt DEF FilterClear, Known
    <3>2. ext1[k][g] # NoChange
      BY <1>7, <2>3, <2>5, <3>1 DEF Agree, Unfiltered
    <3>3. ext1[k] # Blank
      BY <1>8, <3>2, RecordAt
    <3>4. ext1[k][f] # NoChange
      BY <1>7, <3>3 DEF SaysAll, Keys
    <3> QED
      BY <1>9, <3>4 DEF Agree
  <2> QED
    BY <1>14, <2>4, <2>5
<1> QED
  BY <1>10, <1>11, <1>12, <1>13 DEF BaselineInv

(* Edits and decisions on any share: a decision discards a part of pending. *)
LEMMA OtherSteps ==
  ASSUME WellFormed, [Next]_vars, ~Sync
  PROVE  /\ WellFormed' /\ seen' = seen /\ Known(state') = Known(state)
         /\ \/ state' = state
            \/ \E c : PartOf(c, state.pending) /\ state' = Discard(state, c)
<1> USE DEF WellFormed
<1>1. CASE LocalEdit
  BY <1>1 DEF LocalEdit, TypeOK, PendingIsProper, FiltersHold, PeerRecordsWhole, DialogIsPending
<1>2. CASE RemoteEdit
  BY <1>2 DEF RemoteEdit, FullRecordSet, TypeOK, PendingIsProper, FiltersHold,
              PeerRecordsWhole, DialogIsPending, Unfiltered
<1>3. /\ StateGood(state) /\ state \in State /\ local \in FullRecordSet
      /\ dialog \in SUBSET Changes(state.pending)
  BY StateIsGood DEF TypeOK, DialogIsPending
<1>4. CASE OpenDialog
  <2>1. PartOf(Settled(state.pending, local), state.pending)
    BY <1>3, SettledIsPart DEF StateGood
  <2>2. StateGood(state') /\ Known(state') = Known(state) /\ state' \in State
    BY <1>3, <1>4, <2>1, DiscardKeepsKnown, DiscardType DEF OpenDialog
  <2> QED
    BY <1>3, <1>4, <2>1, <2>2, DecisionStep DEF OpenDialog
<1>5. CASE AcceptSome
  <2>1. PICK c \in dialog : Accept(c)
    BY <1>5 DEF AcceptSome
  <2>2. PartOf(c, state.pending) /\ c \in Diff
    BY <1>3, ChangesArePart DEF StateGood, PartOf
  <2>3. state' = Discard(state, c)
    BY <1>3, <2>1, <2>2, AcceptIsDiscard DEF Accept
  <2>4. /\ StateGood(state') /\ Known(state') = Known(state)
        /\ dialog \ {c} \subseteq Changes(state'.pending)
    BY <1>3, <2>3, DecideOne
  <2>5. state' \in State /\ local' \in FullRecordSet
    BY <1>3, <2>1, <2>2, <2>3, <2>4, DiscardType, ImportType DEF Accept
  <2> QED
    BY <2>1, <2>2, <2>3, <2>4, <2>5, DecisionStep DEF Accept
<1>6. CASE RejectSome
  <2>1. PICK c \in dialog : Reject(c)
    BY <1>6 DEF RejectSome
  <2>2. PartOf(c, state.pending)
    BY <1>3, ChangesArePart DEF StateGood
  <2>3. /\ StateGood(state') /\ Known(state') = Known(state)
        /\ dialog \ {c} \subseteq Changes(state'.pending)
    BY <1>3, <2>1, DecideOne DEF Reject
  <2>4. state' \in State
    BY <1>3, <2>1, <2>3, DiscardType DEF Reject
  <2> QED
    BY <1>3, <2>1, <2>2, <2>3, <2>4, DecisionStep DEF Reject
<1>7. CASE CloseDialog
  BY <1>7 DEF CloseDialog, TypeOK, PendingIsProper, FiltersHold, PeerRecordsWhole, DialogIsPending
<1>8. CASE UNCHANGED vars
  BY <1>8 DEF vars, TypeOK, PendingIsProper, FiltersHold, PeerRecordsWhole, DialogIsPending
<1> QED
  BY <1>1, <1>2, <1>4, <1>5, <1>6, <1>7, <1>8 DEF Next, Edit, Settle

LEMMA BaselineNext ==
  ASSUME ~ReadOnly, ~DialogSurvivesSync, BaselineInv, [Next]_vars
  PROVE  BaselineInv'
<1>1. CASE Sync
  BY <1>1, SyncStep
<1>2. CASE ~Sync
  <2>1. WellFormed' /\ seen' = seen /\ Known(state') = Known(state)
    BY <1>2, OtherSteps DEF WellFormed, BaselineInv
  <2> QED
    BY <2>1 DEF WellFormed, BaselineInv, BaselineTracksPeer
<1> QED
  BY <1>1, <1>2

(* What a sync leaves on the two sides, in terms of its merge m.           *)
LEMMA SyncSides ==
  ASSUME ~ReadOnly, ~DialogSurvivesSync, BaselineInv, Sync, NEW m, SyncsWith(m, RsExternal),
         NEW k \in Key
  PROVE  /\ local'[k] = Blank <=> Applied(m, local)[k] = Blank
         /\ m.agreed \in RecordSet /\ m.pending \in Diff
         /\ state'.pending = m.pending
         /\ \A f \in Filtered :
              /\ f \in Field /\ m.pending.inc[k][f] = NoChange /\ m.agreed[k][f] = NoChange
              /\ local'[k] # Blank =>
                   local'[k][f] = IF local[k] = Blank THEN None ELSE local[k][f]
              /\ external'[k] # Blank =>
                   \/ external'[k][f] = external[k][f]
                   \/ ~IsDiff /\ external'[k][f] = NoChange
         /\ \A f \in Unfiltered :
              /\ f \in Field
              /\ local'[k][f] = Applied(m, local)[k][f]
              /\ external[k][f] = RsExternal[k][f]
              /\ external'[k][f] = RSAdd(RsExternal, m.send)[k][f]
              /\ external'[k][f] = IF k \in m.pending.exc THEN NoChange
                                   ELSE IF m.pending.inc[k][f] # NoChange THEN m.pending.inc[k][f]
                                   ELSE m.agreed[k][f]
<1> DEFINE ext == RsExternal
           A == Applied(m, local)
<1>1. /\ m.agreed \in RecordSet /\ m.pending \in Diff /\ m.send \in Diff /\ m.apply \in Diff
      /\ FilterClear(m) /\ Agree(Known(m), RSAdd(ext, m.send))
      /\ Honest(m, state, local, ext, k)
      /\ state' = [agreed |-> m.agreed, pending |-> m.pending]
      /\ local' = Import(local, m.apply)
      /\ external' = RSAdd(external, m.send) \/ (~IsDiff /\ external' = Known(m))
      /\ seen' = external'
  BY DEF SyncsWith, MergeGood
<1>2. BaselineInv'
  BY SyncStep
<1>3. /\ local \in FullRecordSet /\ local \in RecordSet /\ external \in RecordSet
      /\ external' \in RecordSet /\ seen' \in RecordSet
  BY <1>2 DEF BaselineInv, TypeOK, FullRecordSet
<1>4. Agree(ext, external)
  BY InboundFacts
<1>5. Agree(Known(m), external')
  <2>1. Known(m) \in RecordSet /\ Known(state') = Known(m)
    BY <1>1, KnownType DEF Known
  <2> QED
    BY <1>1, <1>2, <1>3, <2>1, FilterAgree DEF BaselineInv, BaselineTracksPeer
<1> HIDE DEF ext
<1>6. /\ local'[k] = Blank <=> A[k] = Blank
      /\ \A f \in Field :
           local'[k][f] = IF A[k] # Blank /\ A[k][f] = NoChange THEN None ELSE A[k][f]
  BY <1>1, <1>3, ImportAt DEF Applied
<1> HIDE DEF A
<1>7. ASSUME NEW f \in Filtered
      PROVE  /\ f \in Field /\ m.pending.inc[k][f] = NoChange /\ m.agreed[k][f] = NoChange
             /\ m.send.inc[k][f] = NoChange
             /\ A[k] # Blank => A[k][f] = local[k][f]
    BY <1>1, StateMergeAssumption DEF Honest, FilterClear, A
<1>8. ASSUME NEW f \in Filtered
      PROVE  /\ local'[k] # Blank =>
                   local'[k][f] = IF local[k] = Blank THEN None ELSE local[k][f]
             /\ external'[k] # Blank =>
                   \/ external'[k][f] = external[k][f]
                   \/ ~IsDiff /\ external'[k][f] = NoChange
  <2>1. local'[k] # Blank => local'[k][f] = IF local[k] = Blank THEN None ELSE local[k][f]
    <3>1. local[k] # Blank => local[k][f] # NoChange
      BY <1>3, <1>7 DEF FullRecordSet, Keys
    <3>2. local[k] = Blank => local[k][f] = NoChange
      BY <1>7 DEF Blank
    <3> QED
      BY <1>6, <1>7, <3>1, <3>2
  <2>2. CASE external' = RSAdd(external, m.send)
    <3>1. k \in m.send.exc => external'[k] = Blank
      BY <2>2 DEF RSAdd
    <3> QED
      BY <1>1, <1>3, <1>7, <2>1, <2>2, <3>1, AddAt
  <2>3. CASE ~IsDiff /\ external' = Known(m)
    <3>1. external'[k][f] = NoChange
      BY <1>1, <1>7, <2>3, AddAt DEF Known
    <3> QED
      BY <2>1, <2>3, <3>1
  <2> QED
    BY <1>1, <2>2, <2>3
<1>9. ASSUME NEW f \in Unfiltered
      PROVE  /\ f \in Field
              /\ local'[k][f] = A[k][f]
              /\ external[k][f] = ext[k][f]
              /\ external'[k][f] = RSAdd(ext, m.send)[k][f]
              /\ external'[k][f] = IF k \in m.pending.exc THEN NoChange
                                   ELSE IF m.pending.inc[k][f] # NoChange THEN m.pending.inc[k][f]
                                   ELSE m.agreed[k][f]
  <2>1. f \in Field
    BY DEF Unfiltered
  <2>2. A[k] # Blank => A[k][f] # NoChange
    BY <1>1 DEF Honest, A
  <2>3. external'[k][f] = Known(m)[k][f] /\ Known(m)[k][f] = RSAdd(ext, m.send)[k][f]
    BY <1>1, <1>5 DEF Agree
  <2>4. Known(m)[k][f] = IF k \in m.pending.exc THEN NoChange
                         ELSE IF m.pending.inc[k][f] # NoChange THEN m.pending.inc[k][f]
                         ELSE m.agreed[k][f]
    BY <1>1, <2>1, AddAt DEF Known
  <2> QED
    BY <1>4, <1>6, <2>1, <2>2, <2>3, <2>4 DEF Agree
<1> QED
  BY <1>1, <1>6, <1>7, <1>8, <1>9 DEF A, ext

LEMMA DivergenceStep ==
  ASSUME ~ReadOnly, ~DialogSurvivesSync, BaselineInv
  PROVE  ExplainsDivergence
<1> SUFFICES ASSUME Sync, NEW k \in Key, NEW f \in Unfiltered,
                    local'[k][f] # external'[k][f], ~Explained(k, f)'
             PROVE  FALSE
  BY DEF ExplainsDivergence, Unfiltered
<1>1. PICK m : SyncsWith(m, RsExternal)
  BY SyncIsMerge
<1>2. ~Tells(m, local, k, f)
  BY <1>1, SyncSides DEF Explained, Tells
<1>3. Applied(m, local)[k][f] = m.agreed[k][f]
  BY <1>1, <1>2 DEF SyncsWith, Honest
<1> QED
  BY <1>1, <1>2, <1>3, SyncSides DEF Tells

LEMMA RealConflictsStep ==
  ASSUME ~ReadOnly, ~DialogSurvivesSync, BaselineInv
  PROVE  RaisesRealConflicts
<1> SUFFICES ASSUME Sync
             PROVE  /\ \A k \in state'.pending.exc : local'[k] # Blank /\ external'[k] = Blank
                    /\ \A k \in Key, f \in Field :
                         state'.pending.inc[k][f] # NoChange => local'[k][f] # external'[k][f]
  BY DEF RaisesRealConflicts
<1>1. PICK m : SyncsWith(m, RsExternal)
  BY SyncIsMerge
<1>2. BaselineInv'
  BY SyncStep
<1>3. /\ \A k \in Key : Honest(m, state, local, RsExternal, k)
      /\ m.pending \in Diff /\ m.pending.exc \subseteq Key /\ Proper(m.pending)
      /\ m.agreed \in RecordSet /\ external' \in RecordSet
      /\ state'.pending = m.pending
  BY <1>1, <1>2 DEF SyncsWith, MergeGood, Diff, BaselineInv, TypeOK
<1>4. ASSUME NEW k \in state'.pending.exc PROVE local'[k] # Blank /\ external'[k] = Blank
  <2>1. k \in Key /\ k \in m.pending.exc
    BY <1>3, <1>4
  <2>2. Applied(m, local)[k] # Blank /\ m.agreed[k] # Blank
    BY <1>3, <2>1 DEF Honest
  <2>3. PICK f \in Field : m.agreed[k][f] # NoChange
    BY <1>3, <2>1, <2>2, RecordAt
  <2>4. f \in Unfiltered
    BY <1>1, <2>1, <2>3, SyncSides DEF Unfiltered
  <2>5. external'[k][f] = NoChange
    BY <1>1, <2>1, <2>4, SyncSides
  <2>6. external'[k] = Blank
    BY <1>2, <2>1, <2>4, <2>5 DEF BaselineInv, PeerRecordsWhole, Keys, Unfiltered
  <2> QED
    BY <1>1, <2>1, <2>2, <2>6, SyncSides
<1>5. ASSUME NEW k \in Key, NEW f \in Field, state'.pending.inc[k][f] # NoChange
      PROVE  local'[k][f] # external'[k][f]
  <2>1. f \in Unfiltered /\ m.pending.inc[k][f] # NoChange
    BY <1>1, <1>3, <1>5, SyncSides DEF Unfiltered
  <2>2. k \notin m.pending.exc
    BY <1>3, <2>1 DEF Proper, Blank
  <2>3. Applied(m, local)[k][f] # m.pending.inc[k][f]
    BY <1>3, <2>1 DEF Honest
  <2> QED
    BY <1>1, <2>1, <2>2, <2>3, SyncSides
<1> QED
  BY <1>4, <1>5

LEMMA EditsStep ==
  ASSUME ~ReadOnly, ~DialogSurvivesSync, BaselineInv
  PROVE  KeepsEdits
<1> SUFFICES ASSUME Sync, NEW k \in Key, NEW f \in Unfiltered
             PROVE  /\ external[k][f] # state.agreed[k][f] /\ external'[k][f] # external[k][f]
                         => Decided(f, local[k][f], external[k][f])
                    /\ local[k][f] # state.agreed[k][f] /\ local'[k][f] # local[k][f]
                         => Decided(f, local[k][f], external[k][f])
  BY DEF KeepsEdits, Changed, Decided, Unfiltered
<1>1. PICK m : SyncsWith(m, RsExternal)
  BY SyncIsMerge
<1>2. Yields(m, state, local, RsExternal, k)
  BY <1>1 DEF SyncsWith
<1>3. /\ local'[k][f] = Applied(m, local)[k][f]
      /\ external[k][f] = RsExternal[k][f]
      /\ external'[k][f] = RSAdd(RsExternal, m.send)[k][f]
  BY <1>1, SyncSides
<1> QED
  BY <1>2, <1>3 DEF Yields

LEMMA PeerConflictsStep ==
  ASSUME ~ReadOnly, ~DialogSurvivesSync, BaselineInv
  PROVE  RaisesPeerConflicts
<1> SUFFICES ASSUME Sync, external = seen
             PROVE  /\ state'.pending.exc \subseteq state.pending.exc
                    /\ \A k \in Key, f \in Field :
                         state'.pending.inc[k][f] # NoChange => state.pending.inc[k][f] # NoChange
  BY DEF RaisesPeerConflicts
<1>1. PICK m : SyncsWith(m, RsExternal)
  BY SyncIsMerge
<1>2. /\ state.agreed \in RecordSet /\ state.pending \in Diff /\ seen \in RecordSet
      /\ \A k \in Key, f \in Filtered : state.agreed[k][f] = NoChange
  BY DEF BaselineInv, TypeOK, State, FiltersHold
<1>3. RsExternal \in RecordSet /\ SaysAll(RsExternal) /\ Agree(RsExternal, external)
  BY InboundFacts
<1>4. ASSUME NEW k \in Key, NEW f \in Unfiltered
      PROVE  /\ f \in Field
             /\ RsExternal[k][f] = IF k \in state.pending.exc THEN NoChange
                                   ELSE IF state.pending.inc[k][f] # NoChange
                                   THEN state.pending.inc[k][f] ELSE state.agreed[k][f]
  <2>1. Known(state) \in RecordSet /\ f \in Field
    BY <1>2, KnownType DEF Unfiltered
  <2>2. Known(state)[k][f] = seen[k][f] /\ RsExternal[k][f] = seen[k][f]
    BY <1>2, <1>3, <2>1, FilterAgree DEF BaselineInv, BaselineTracksPeer, Agree
  <2> QED
    BY <1>2, <2>1, <2>2, AddAt DEF Known
<1>5. /\ \A k \in Key : Honest(m, state, local, RsExternal, k)
      /\ m.pending.exc \subseteq Key /\ state'.pending = m.pending
  BY <1>1 DEF SyncsWith, MergeGood, Diff
<1>6. ASSUME NEW k \in m.pending.exc PROVE k \in state.pending.exc
  <2>1. k \in Key /\ state.agreed[k] # Blank /\ RsExternal[k] = Blank
    BY <1>5 DEF Honest
  <2>2. PICK f \in Field : state.agreed[k][f] # NoChange
    BY <1>2, <2>1, RecordAt
  <2>3. f \in Unfiltered /\ RsExternal[k][f] = NoChange
    BY <1>2, <2>1, <2>2 DEF Unfiltered, Blank
  <2> QED
    BY <1>4, <2>1, <2>2, <2>3
<1>7. ASSUME NEW k \in Key, NEW f \in Field, m.pending.inc[k][f] # NoChange
      PROVE  state.pending.inc[k][f] # NoChange
  <2>1. f \in Unfiltered
    BY <1>1, <1>7, SyncSides DEF Unfiltered
  <2>2. RsExternal[k] # Blank /\ RsExternal[k][f] # state.agreed[k][f]
    BY <1>5, <1>7, <2>1 DEF Honest
  <2>3. RsExternal[k][f] # NoChange
    BY <1>3, <2>1, <2>2 DEF SaysAll, Keys
  <2> QED
    BY <1>4, <2>1, <2>2, <2>3
<1> QED
  BY <1>5, <1>6, <1>7

LEMMA FilteredDecision ==
  ASSUME WellFormed, ~Sync
  PROVE  KeepsFilteredHome
<1> SUFFICES ASSUME Settle, NEW k \in Key, NEW f \in Filtered
             PROVE  /\ local'[k] # Blank
                         => local'[k][f] = IF local[k] = Blank THEN None ELSE local[k][f]
                    /\ external'[k] # Blank
                         => \/ external'[k][f] = external[k][f]
                            \/ ~IsDiff /\ external'[k][f] = NoChange
  BY DEF KeepsFilteredHome
<1>2. f \in Field /\ local \in FullRecordSet /\ local \in RecordSet
  BY StateMergeAssumption DEF WellFormed, TypeOK, FullRecordSet
<1>3. CASE AcceptSome
  <2>1. PICK c \in dialog : Accept(c)
    BY <1>3 DEF AcceptSome
  <2>2. PartOf(c, state.pending)
    BY ChangesArePart DEF WellFormed, TypeOK, State, DialogIsPending
  <2>3. c \in Diff /\ c.inc[k][f] = NoChange
    BY <1>2, <2>2 DEF PartOf, WellFormed, FiltersHold
  <2>4. local' = Import(local, c) /\ external' = external
    BY <2>1 DEF Accept
  <2>5. k \in c.exc => RSAdd(local, c)[k] = Blank
    BY DEF RSAdd
  <2>6. local[k] # Blank => local[k][f] # NoChange
    BY <1>2 DEF FullRecordSet, Keys
  <2>7. local[k] = Blank => local[k][f] = NoChange
    BY <1>2 DEF Blank
  <2>8. k \notin c.exc => RSAdd(local, c)[k][f] = local[k][f]
    BY <1>2, <2>3, AddAt
  <2>9. /\ local'[k] = Blank <=> RSAdd(local, c)[k] = Blank
        /\ local'[k][f] = IF RSAdd(local, c)[k] # Blank /\ RSAdd(local, c)[k][f] = NoChange
                          THEN None ELSE RSAdd(local, c)[k][f]
    BY <1>2, <2>3, <2>4, ImportAt
  <2> QED
    BY <2>4, <2>5, <2>6, <2>7, <2>8, <2>9
<1>4. CASE OpenDialog \/ RejectSome \/ CloseDialog
  <2>1. local' = local /\ external' = external
    BY <1>4 DEF OpenDialog, RejectSome, Reject, CloseDialog
  <2> QED
    BY <2>1
<1> QED
  BY <1>3, <1>4 DEF Settle

LEMMA FilteredStep ==
  ASSUME ~ReadOnly, ~DialogSurvivesSync, BaselineInv
  PROVE  KeepsFilteredHome
<1>1. CASE Sync
  <2>1. SUFFICES ASSUME NEW k \in Key, NEW f \in Filtered
                 PROVE  /\ local'[k] # Blank
                             => local'[k][f] = IF local[k] = Blank THEN None ELSE local[k][f]
                        /\ external'[k] # Blank
                             => \/ external'[k][f] = external[k][f]
                                \/ ~IsDiff /\ external'[k][f] = NoChange
    BY DEF KeepsFilteredHome
  <2>2. PICK m : SyncsWith(m, RsExternal)
    BY <1>1, SyncIsMerge
  <2> QED
    BY <1>1, <2>2, SyncSides
<1> QED
  BY <1>1, FilteredDecision DEF BaselineInv, WellFormed
-----------------------------------------------------------------------------
(* A share that only receives.  What its State knows of the peer is agreed  *)
(* alone; pending repeats some of it.  autoResolve puts the values that it  *)
(* lets win here into agreed as on any other share, though nothing is sent, *)
(* so that agreed and the peer may differ in the fields that it always      *)
(* settles (NonNoneField), and in no others.                               *)

Subscriber == ReadOnly /\ ~DialogSurvivesSync /\ Inherit # None

SubscriberInv ==
  /\ WellFormed
  /\ Known(state) = state.agreed
  /\ NearlyAgree(state.agreed, seen)

LEMMA SubscriberInbound ==
  ASSUME SubscriberInv
  PROVE  /\ RsExternal \in RecordSet /\ SaysAll(RsExternal) /\ NearlyAgree(RsExternal, external)
         /\ external = seen =>
              \A k \in Key, f \in Unfiltered : RsExternal[k][f] = state.agreed[k][f]
<1> DEFINE a == state.agreed
           D == RSSub(external, seen)
<1>1. /\ a \in RecordSet /\ Known(state) = a /\ external \in RecordSet /\ seen \in RecordSet
      /\ SaysAll(external) /\ NearlyAgree(a, seen)
      /\ \A k \in Key, f \in Filtered : a[k][f] = NoChange
  BY DEF SubscriberInv, WellFormed, TypeOK, State, PeerRecordsWhole, SaysAll, Unfiltered, FiltersHold
<1>2. \A f \in Unfiltered : f \in Field
  BY DEF Unfiltered
<1>3. \A r \in RecordSet :
        /\ NearlyAgree(r, external)
        /\ \A k \in Key : external[k] = Blank => r[k] = Blank
        => SaysAll(r)
  BY <1>1 DEF NearlyAgree, SaysAll, Keys
<1> HIDE DEF a, D
<1>4. CASE IsDiff
  <2> DEFINE X == RSAdd(a, D)
  <2>1. RsExternal = X /\ X \in RecordSet /\ D \in Diff
    BY <1>1, <1>4, AddType, SubType DEF RsExternal, ExternalByDiff, D
  <2>2. ASSUME NEW k \in Key, NEW f \in Field
        PROVE  X[k][f] = IF seen[k] # Blank /\ external[k] = Blank THEN NoChange
                         ELSE IF external[k][f] = seen[k][f] THEN a[k][f]
                         ELSE IF external[k][f] = NoChange THEN a[k][f] ELSE external[k][f]
    <3>1. /\ k \in D.exc <=> seen[k] # Blank /\ external[k] = Blank
          /\ D.inc[k][f] = IF external[k][f] = seen[k][f] THEN NoChange ELSE external[k][f]
      BY <1>1, SubExcluded, SubAt DEF D
    <3> QED
      BY <1>1, <2>1, <3>1, AddAt
  <2> HIDE DEF X
  <2>3. ASSUME NEW k \in Key, NEW f \in Unfiltered
        PROVE  /\ X[k][f] = NoChange <=> external[k][f] = NoChange
               /\ f \in NonNoneField \/ X[k][f] = external[k][f]
               /\ external = seen => X[k][f] = a[k][f]
    <3>1. /\ a[k][f] = NoChange <=> seen[k][f] = NoChange
          /\ f \in NonNoneField \/ a[k][f] = seen[k][f]
          /\ external[k] # Blank => external[k][f] # NoChange
          /\ external[k] = Blank => external[k][f] = NoChange
          /\ seen[k] = Blank => seen[k][f] = NoChange
      BY <1>1, <1>2 DEF NearlyAgree, SaysAll, Keys, Blank
    <3> QED
      BY <1>2, <2>2, <3>1
  <2>4. ASSUME NEW k \in Key, external[k] = Blank
        PROVE  X[k] = Blank
    <3>1. SUFFICES ASSUME NEW f \in Field PROVE X[k][f] = NoChange
      BY <2>1, RecordAt
    <3>2. external[k][f] = NoChange /\ (seen[k] = Blank => seen[k][f] = NoChange)
      BY <2>4 DEF Blank
    <3>3. f \in Filtered => a[k][f] = NoChange
      BY <1>1
    <3>4. f \in Unfiltered => (a[k][f] = NoChange <=> seen[k][f] = NoChange)
      BY <1>1 DEF NearlyAgree
    <3> QED
      BY <2>2, <2>4, <3>2, <3>3, <3>4 DEF Unfiltered
  <2> QED
    BY <1>3, <2>1, <2>3, <2>4 DEF NearlyAgree, a
<1>5. CASE ~IsDiff /\ external = seen
  <2>1. ASSUME NEW k \in Key, external[k] = Blank
        PROVE  a[k] = Blank
    <3>1. SUFFICES ASSUME NEW f \in Field PROVE a[k][f] = NoChange
      BY <1>1, RecordAt
    <3>2. seen[k][f] = NoChange
      BY <1>5, <2>1 DEF Blank
    <3> QED
      BY <1>1, <3>2 DEF NearlyAgree, Unfiltered
  <2> QED
    BY <1>1, <1>3, <1>5, <2>1 DEF RsExternal, a
<1>6. CASE ~IsDiff /\ external # seen
  BY <1>1, <1>6 DEF RsExternal, NearlyAgree
<1> QED
  BY <1>4, <1>5, <1>6

(* A sync applies a merge and neither sends nor forgets anything.          *)
Receives(m) ==
  /\ PendingIsAgreed(m) /\ NearlyAgree(m.agreed, RsExternal) /\ m.apply \in Diff
  /\ \A k \in Key : TellsPeers(m, state, local, RsExternal, k)
  /\ \A k \in Key, f \in NonNoneField \cap Unfiltered :
       m.pending.inc[k][f] # NoChange => local[k] = Blank
  /\ state' = [agreed |-> m.agreed, pending |-> m.pending]
  /\ local' = Import(local, m.apply)
  /\ external' = external /\ seen' = external /\ dialog' = {}

LEMMA SyncReceives ==
  ASSUME Subscriber, SubscriberInv, Sync
  PROVE  \E m : Receives(m)
<1> DEFINE ext == RsExternal
           merged == Merge(ext)
<1>1. PICK m : /\ m = IF merged.pending = EmptyDiff THEN merged ELSE AutoResolve(merged, local)
               /\ state' = [agreed |-> m.agreed, pending |-> m.pending]
               /\ local' = Import(local, m.apply)
               /\ external' \in PutResults(m)
               /\ seen' = external'
               /\ dialog' = {}
  BY DEF Sync, Subscriber
<1>2. external' = external /\ merged = MergeReadOnly(state, local, ext) /\ Inherit # None
  BY <1>1 DEF PutResults, Merge, Subscriber
<1>3. PendingIsAgreed(state) /\ local \in FullRecordSet
  BY StateIsGood DEF SubscriberInv, PendingIsAgreed, WellFormed, TypeOK
<1>4. ext \in RecordSet /\ SaysAll(ext)
  BY SubscriberInbound
<1> HIDE DEF ext, merged
<1>5. /\ FollowsPeer(merged, ext)
      /\ \A k \in Key : TellsPeers(merged, state, local, ext, k)
  BY <1>2, <1>3, <1>4, ReadOnlyMerge
<1>6. /\ PendingIsAgreed(m) /\ NearlyAgree(m.agreed, ext) /\ m.apply \in Diff
      /\ \A k \in Key : TellsPeers(m, state, local, ext, k)
      /\ \A k \in Key, f \in NonNoneField \cap Unfiltered :
           m.pending.inc[k][f] # NoChange => local[k] = Blank
  <2>1. CASE merged.pending = EmptyDiff
    <3>1. m = merged /\ \A k \in Key, f \in Field : m.pending.inc[k][f] = NoChange
      BY <1>1, <2>1 DEF EmptyDiff, NoRecords, Blank
    <3>2. \A k \in Key, f \in NonNoneField \cap Unfiltered : m.pending.inc[k][f] = NoChange
      BY <3>1 DEF Unfiltered
    <3>3. NearlyAgree(m.agreed, ext)
      BY <1>5, <3>1 DEF FollowsPeer, Agree, NearlyAgree
    <3> QED
      BY <1>5, <3>1, <3>2, <3>3 DEF FollowsPeer
  <2>2. CASE merged.pending # EmptyDiff
    BY <1>1, <1>2, <1>3, <1>4, <1>5, <2>2, ReadOnlyResolve
  <2> QED
    BY <2>1, <2>2
<1> QED
  BY <1>1, <1>2, <1>6 DEF Receives, ext

LEMMA SubscriberNext ==
  ASSUME Subscriber, SubscriberInv, [Next]_vars
  PROVE  SubscriberInv'
<1>1. CASE Sync
  <2>1. PICK m : Receives(m)
    BY <1>1, SyncReceives
  <2>2. /\ local \in FullRecordSet /\ external \in RecordSet /\ PeerRecordsWhole
        /\ NearlyAgree(RsExternal, external)
    BY SubscriberInbound DEF SubscriberInv, WellFormed, TypeOK
  <2>3. /\ StateGood(m) /\ Known(m) = m.agreed
        /\ state'.agreed = m.agreed /\ state'.pending = m.pending
        /\ m.agreed \in RecordSet /\ m.pending \in Diff
        /\ external' = external /\ seen' = external /\ dialog' = {}
    BY <2>1 DEF Receives, PendingIsAgreed, StateGood
  <2>4. Known(state') = state'.agreed
    BY <2>3 DEF Known
  <2>5. TypeOK'
    BY <2>1, <2>2, <2>3, ImportType DEF Receives, TypeOK, State
  <2>6. PendingIsProper' /\ FiltersHold' /\ DialogIsPending' /\ PeerRecordsWhole'
    BY <2>2, <2>3 DEF PendingIsProper, FiltersHold, StateGood, FilterClear, DialogIsPending,
                      PeerRecordsWhole
  <2>7. NearlyAgree(state'.agreed, seen')
    BY <2>1, <2>2, <2>3 DEF Receives, NearlyAgree
  <2> QED
    BY <2>4, <2>5, <2>6, <2>7 DEF SubscriberInv, WellFormed
<1>2. CASE ~Sync
  <2>1. /\ WellFormed' /\ seen' = seen /\ Known(state') = Known(state)
        /\ \/ state' = state
           \/ \E c : PartOf(c, state.pending) /\ state' = Discard(state, c)
    BY <1>2, OtherSteps DEF SubscriberInv
  <2>2. PendingIsAgreed(state)
    BY StateIsGood DEF SubscriberInv, PendingIsAgreed
  <2>3. ASSUME NEW c, PartOf(c, state.pending), state' = Discard(state, c)
        PROVE  state'.agreed = state.agreed
    BY <2>2, <2>3, DiscardAt, PartIsAgreed DEF PendingIsAgreed
  <2> QED
    BY <2>1, <2>3 DEF SubscriberInv
<1> QED
  BY <1>1, <1>2

LEMMA SubscriberInit == Init => SubscriberInv
<1> SUFFICES ASSUME Init PROVE SubscriberInv
  OBVIOUS
<1>1. BaselineInv
  BY BaselineInit
<1>2. ASSUME NEW k \in Key, NEW f \in Field
      PROVE  Known(state)[k][f] = state.agreed[k][f]
  BY DEF Init, NewState, EmptyDiff, Known, RSAdd, RecAdd, NoRecords, Blank
<1>3. Known(state) = state.agreed
  BY <1>1, <1>2, KnownType, RecordSetEquality DEF BaselineInv, TypeOK, State
<1>4. NearlyAgree(state.agreed, seen)
  BY DEF Init, NewState, NearlyAgree
<1> QED
  BY <1>1, <1>3, <1>4 DEF SubscriberInv, BaselineInv, WellFormed

(* What a sync leaves on the subscriber's side.                            *)
LEMMA SubscriberSide ==
  ASSUME Subscriber, SubscriberInv, NEW m, Receives(m), NEW k \in Key
  PROVE  LET A == Applied(m, local)
         IN  /\ local'[k] = Blank <=> A[k] = Blank
             /\ \A f \in Unfiltered :
                  /\ f \in Field /\ local'[k][f] = A[k][f]
                  /\ RsExternal[k][f] = NoChange <=> external[k][f] = NoChange
                  /\ f \notin NonNoneField =>
                       /\ RsExternal[k][f] = external[k][f]
                       /\ m.pending.inc[k][f] \in {NoChange, external[k][f]}
             /\ \A f \in Filtered :
                  /\ m.pending.inc[k][f] = NoChange
                  /\ local'[k] # Blank
                       => local'[k][f] = IF local[k] = Blank THEN None ELSE local[k][f]
<1> DEFINE A == Applied(m, local)
<1>1. local \in FullRecordSet /\ local \in RecordSet /\ m.apply \in Diff
      /\ local' = Import(local, m.apply) /\ TellsPeers(m, state, local, RsExternal, k)
      /\ PendingIsAgreed(m) /\ NearlyAgree(m.agreed, RsExternal)
  BY DEF SubscriberInv, WellFormed, TypeOK, FullRecordSet, Receives
<1>2. /\ local'[k] = Blank <=> A[k] = Blank
      /\ \A f \in Field :
           local'[k][f] = IF A[k] # Blank /\ A[k][f] = NoChange THEN None ELSE A[k][f]
  BY <1>1, ImportAt DEF Applied
<1> HIDE DEF A
<1>3. ASSUME NEW f \in Unfiltered
      PROVE  /\ f \in Field /\ local'[k][f] = A[k][f]
             /\ RsExternal[k][f] = NoChange <=> external[k][f] = NoChange
             /\ f \notin NonNoneField =>
                  /\ RsExternal[k][f] = external[k][f]
                  /\ m.pending.inc[k][f] \in {NoChange, external[k][f]}
  <2>1. f \in Field /\ (A[k] # Blank => A[k][f] # NoChange)
    BY <1>1 DEF Unfiltered, TellsPeers, A
  <2>2. /\ RsExternal[k][f] = NoChange <=> external[k][f] = NoChange
        /\ f \notin NonNoneField =>
             RsExternal[k][f] = external[k][f] /\ m.agreed[k][f] = RsExternal[k][f]
    BY <1>1, SubscriberInbound DEF NearlyAgree
  <2>3. m.pending.inc[k][f] \in {NoChange, m.agreed[k][f]}
    BY <1>1, <2>1, AgreedHasPending
  <2> QED
    BY <1>2, <2>1, <2>2, <2>3
<1>4. ASSUME NEW f \in Filtered
      PROVE  /\ m.pending.inc[k][f] = NoChange
             /\ local'[k] # Blank
                  => local'[k][f] = IF local[k] = Blank THEN None ELSE local[k][f]
  <2>1. f \in Field /\ m.pending.inc[k][f] = NoChange
    BY <1>1, StateMergeAssumption DEF PendingIsAgreed, StateGood, FilterClear
  <2>2. A[k] # Blank => A[k][f] = local[k][f]
    BY <1>1 DEF TellsPeers, A
  <2>3. /\ local[k] # Blank => local[k][f] # NoChange
        /\ local[k] = Blank => local[k][f] = NoChange
    BY <1>1, <2>1, FullFacts
  <2> QED
    BY <1>2, <2>1, <2>2, <2>3
<1> QED
  BY <1>2, <1>3, <1>4 DEF A

LEMMA SubscriberRealStep ==
  ASSUME Subscriber, SubscriberInv
  PROVE  RaisesRealConflicts
<1> SUFFICES ASSUME Sync
             PROVE  /\ \A k \in state'.pending.exc : local'[k] # Blank /\ external'[k] = Blank
                    /\ \A k \in Key, f \in Field :
                         state'.pending.inc[k][f] # NoChange => local'[k][f] # external'[k][f]
  BY DEF RaisesRealConflicts
<1>1. PICK m : Receives(m)
  BY SyncReceives
<1>2. /\ external' = external /\ state'.pending = m.pending /\ external \in RecordSet
      /\ m.pending.exc \subseteq Key
      /\ local \in FullRecordSet /\ local \in RecordSet /\ m.apply \in Diff
      /\ \A k \in Key : TellsPeers(m, state, local, RsExternal, k)
      /\ \A k \in Key, f \in NonNoneField \cap Unfiltered :
           m.pending.inc[k][f] # NoChange => local[k] = Blank
      /\ PeerRecordsWhole /\ RsExternal \in RecordSet /\ SaysAll(RsExternal)
  BY <1>1, SubscriberInbound
     DEF Receives, PendingIsAgreed, StateGood, Diff, SubscriberInv, WellFormed, TypeOK, FullRecordSet
<1>3. ASSUME NEW k \in m.pending.exc PROVE local'[k] # Blank /\ external[k] = Blank
  <2>1. k \in Key /\ RsExternal[k] = Blank
    BY <1>2, <1>3 DEF TellsPeers
  <2>2. PICK g \in Unfiltered : Applied(m, local)[k][g] # NoChange
    BY <1>2, <1>3, <2>1 DEF TellsPeers
  <2>3. g \in Field /\ external[k][g] = NoChange
    BY <1>1, <2>1, SubscriberSide DEF Blank
  <2>4. external[k] = Blank
    BY <1>2, <2>1, <2>3 DEF PeerRecordsWhole, Keys, Unfiltered
  <2>5. local'[k][g] # NoChange
    BY <1>1, <2>1, <2>2, SubscriberSide
  <2> QED
    BY <2>3, <2>4, <2>5 DEF Blank
<1>4. ASSUME NEW k \in Key, NEW f \in Field, m.pending.inc[k][f] # NoChange
      PROVE  local'[k][f] # external[k][f]
  <2>1. f \in Unfiltered
    BY <1>1, <1>4, SubscriberSide DEF Unfiltered
  <2>2. local'[k][f] = Applied(m, local)[k][f] /\ local'[k][f] # RsExternal[k][f]
    BY <1>1, <1>2, <1>4, <2>1, SubscriberSide DEF TellsPeers
  <2>3. CASE f \notin NonNoneField
    BY <1>1, <2>1, <2>2, <2>3, SubscriberSide
  <2>4. CASE f \in NonNoneField
    <3>1. local[k] = Blank
      BY <1>2, <1>4, <2>1, <2>4
    <3>2. m.pending.inc[k][f] = m.agreed[k][f] /\ m.agreed[k][f] # NoChange
      BY <1>1, <1>4, AgreedHasPending DEF Receives
    <3>3. external[k][f] # NoChange
      BY <1>1, <2>1, <3>2, SubscriberSide DEF Receives, NearlyAgree
    <3>4. local'[k][f] = NoChange
      BY <1>2, <1>4, <2>1, <2>2, <3>1 DEF TellsPeers
    <3> QED
      BY <3>3, <3>4
  <2> QED
    BY <2>3, <2>4
<1> QED
  BY <1>2, <1>3, <1>4

LEMMA SubscriberEditsStep ==
  ASSUME Subscriber, SubscriberInv
  PROVE  KeepsEdits
<1> SUFFICES ASSUME Sync, NEW k \in Key, NEW f \in Unfiltered
             PROVE  /\ external'[k][f] = external[k][f]
                    /\ local[k][f] # state.agreed[k][f] /\ local'[k][f] # local[k][f]
                         => f \in NonNoneField \/ None \in {local[k][f], external[k][f]}
  BY DEF KeepsEdits, Changed, Unfiltered
<1>1. PICK m : Receives(m)
  BY SyncReceives
<1>2. TellsPeers(m, state, local, RsExternal, k) /\ external' = external
  BY <1>1 DEF Receives
<1> QED
  BY <1>1, <1>2, SubscriberSide DEF TellsPeers

LEMMA SubscriberPeerStep ==
  ASSUME Subscriber, SubscriberInv
  PROVE  RaisesPeerConflicts
<1> SUFFICES ASSUME Sync, external = seen
             PROVE  /\ state'.pending.exc \subseteq state.pending.exc
                    /\ \A k \in Key, f \in Field :
                         state'.pending.inc[k][f] # NoChange => state.pending.inc[k][f] # NoChange
  BY DEF RaisesPeerConflicts
<1>1. PICK m : Receives(m)
  BY SyncReceives
<1>2. /\ state'.pending = m.pending /\ m.pending.exc \subseteq Key
      /\ \A k \in Key : TellsPeers(m, state, local, RsExternal, k)
  BY <1>1 DEF Receives, PendingIsAgreed, StateGood, Diff
<1>3. ASSUME NEW k \in Key, NEW f \in Unfiltered
      PROVE  RsExternal[k][f] = state.agreed[k][f]
  BY SubscriberInbound
<1>4. ASSUME NEW k \in m.pending.exc PROVE k \in state.pending.exc
  BY <1>2, <1>3, <1>4 DEF TellsPeers
<1>5. ASSUME NEW k \in Key, NEW f \in Field, m.pending.inc[k][f] # NoChange
      PROVE  state.pending.inc[k][f] # NoChange
  <2>1. f \in Unfiltered
    BY <1>1, <1>5, SubscriberSide DEF Unfiltered
  <2> QED
    BY <1>2, <1>3, <1>5, <2>1 DEF TellsPeers
<1> QED
  BY <1>2, <1>4, <1>5

LEMMA SubscriberFilteredStep ==
  ASSUME Subscriber, SubscriberInv
  PROVE  KeepsFilteredHome
<1>1. CASE Sync
  <2>1. PICK m : Receives(m)
    BY <1>1, SyncReceives
  <2>2. external' = external
    BY <2>1 DEF Receives
  <2>3. \A k \in Key, f \in Filtered :
          local'[k] # Blank => local'[k][f] = IF local[k] = Blank THEN None ELSE local[k][f]
    BY <2>1, SubscriberSide
  <2> QED
    BY <2>2, <2>3 DEF KeepsFilteredHome
<1> QED
  BY <1>1, FilteredDecision DEF SubscriberInv
-----------------------------------------------------------------------------

(* On a share that sends, and while no sync finishes under an open conflict *)
(* dialog, State.merge, autoResolve, apply, discard and Conflict.verify     *)
(* keep agreed and pending together equal to what the peer held at the last *)
(* sync, for any number of records, fields and values and any filter.       *)
THEOREM BaselineTheorem ==
  ASSUME ~ReadOnly, ~DialogSurvivesSync
  PROVE  Spec => []BaselineTracksPeer
<1>1. Init => BaselineInv
  BY BaselineInit
<1>2. BaselineInv /\ [Next]_vars => BaselineInv'
  BY BaselineNext
<1>3. BaselineInv => BaselineTracksPeer
  BY DEF BaselineInv
<1> QED
  BY <1>1, <1>2, <1>3, PTL DEF Spec

(* Type correctness of the same share: the records the merge hands to the  *)
(* local item are complete, and pending and agreed stay well formed.        *)
THEOREM TypeTheorem ==
  ASSUME ~ReadOnly, ~DialogSurvivesSync
  PROVE  Spec => []TypeOK
<1>1. Init => BaselineInv
  BY BaselineInit
<1>2. BaselineInv /\ [Next]_vars => BaselineInv'
  BY BaselineNext
<1>3. BaselineInv => TypeOK
  BY DEF BaselineInv
<1> QED
  BY <1>1, <1>2, <1>3, PTL DEF Spec

(* After a sync on such a share the two sides differ in an unfiltered      *)
(* field only where a conflict is pending that says so: State.merge,       *)
(* autoResolve and putRecords lose no edit of either side silently.        *)
THEOREM DivergenceTheorem ==
  ASSUME ~ReadOnly, ~DialogSurvivesSync
  PROVE  Spec => DivergenceIsPending
<1>1. Init => BaselineInv
  BY BaselineInit
<1>2. BaselineInv /\ [Next]_vars => BaselineInv'
  BY BaselineNext
<1>3. BaselineInv => ExplainsDivergence
  BY DivergenceStep
<1> QED
  BY <1>1, <1>2, <1>3, PTL DEF Spec, DivergenceIsPending

(* And no false alarm: what is pending after a sync is a field in which    *)
(* the two sides really differ, or a record that only the local item still *)
(* has.                                                                    *)
THEOREM RealConflictsTheorem ==
  ASSUME ~ReadOnly, ~DialogSurvivesSync
  PROVE  Spec => ConflictsAreReal
<1>1. Init => BaselineInv
  BY BaselineInit
<1>2. BaselineInv /\ [Next]_vars => BaselineInv'
  BY BaselineNext
<1>3. BaselineInv => RaisesRealConflicts
  BY RealConflictsStep
<1> QED
  BY <1>1, <1>2, <1>3, PTL DEF Spec, ConflictsAreReal

(* A field that one side changed since both agreed keeps that side's value *)
(* on that side, unless a side has no value or translator.resolve lists the *)
(* field, whichever edits, syncs and decisions came before.                *)
THEOREM EditsTheorem ==
  ASSUME ~ReadOnly, ~DialogSurvivesSync
  PROVE  Spec => SyncKeepsEdits
<1>1. Init => BaselineInv
  BY BaselineInit
<1>2. BaselineInv /\ [Next]_vars => BaselineInv'
  BY BaselineNext
<1>3. BaselineInv => KeepsEdits
  BY EditsStep
<1> QED
  BY <1>1, <1>2, <1>3, PTL DEF Spec, SyncKeepsEdits

(* A sync that finds the peer as the last one left it raises no new        *)
(* conflict, over a conduit of diffs and over one of full records.         *)
THEOREM PeerConflictsTheorem ==
  ASSUME ~ReadOnly, ~DialogSurvivesSync
  PROVE  Spec => ConflictsComeFromPeer
<1>1. Init => BaselineInv
  BY BaselineInit
<1>2. BaselineInv /\ [Next]_vars => BaselineInv'
  BY BaselineNext
<1>3. BaselineInv => RaisesPeerConflicts
  BY PeerConflictsStep
<1> QED
  BY <1>1, <1>2, <1>3, PTL DEF Spec, ConflictsComeFromPeer

(* What the share's filters suppress crosses neither in a sync nor by a    *)
(* decision in the dialog, whatever the set of filtered fields.            *)
THEOREM FilteredTheorem ==
  ASSUME ~ReadOnly, ~DialogSurvivesSync
  PROVE  Spec => [][KeepsFilteredHome]_vars
<1>1. Init => BaselineInv
  BY BaselineInit
<1>2. BaselineInv /\ [Next]_vars => BaselineInv'
  BY BaselineNext
<1>3. BaselineInv => KeepsFilteredHome
  BY FilteredStep
<1> QED
  BY <1>1, <1>2, <1>3, PTL DEF Spec

(* On a read-only subscription, too, what the State knows is what the peer  *)
(* held at the last sync, whatever users, syncs and the dialog do: merge's *)
(* other branch (shares.py:266), which never sends, keeps the same promise  *)
(* of every field, but those that resolve always settles, of which only      *)
(* whether the peer has the record stays known.                            *)
THEOREM SubscriberBaselineTheorem ==
  ASSUME Subscriber
  PROVE  Spec => []( /\ NearlyAgree(Known(state), seen)
                     /\ NonNoneField = {} => BaselineTracksPeer )
<1>1. Init => SubscriberInv
  BY SubscriberInit
<1>2. SubscriberInv /\ [Next]_vars => SubscriberInv'
  BY SubscriberNext
<1>3. SubscriberInv => /\ NearlyAgree(Known(state), seen)
                       /\ NonNoneField = {} => BaselineTracksPeer
  <2>1. SUFFICES ASSUME SubscriberInv, NonNoneField = {} PROVE BaselineTracksPeer
    BY DEF SubscriberInv
  <2>2. Known(state) \in RecordSet /\ seen \in RecordSet /\ Agree(Known(state), seen)
    BY <2>1 DEF SubscriberInv, WellFormed, TypeOK, State, NearlyAgree, Agree
  <2> QED
    BY <2>2, FilterAgree DEF BaselineTracksPeer
<1> QED
  BY <1>1, <1>2, <1>3, PTL DEF Spec

(* Type correctness of the same subscription.                              *)
THEOREM SubscriberTypeTheorem ==
  ASSUME Subscriber
  PROVE  Spec => []TypeOK
<1>1. Init => SubscriberInv
  BY SubscriberInit
<1>2. SubscriberInv /\ [Next]_vars => SubscriberInv'
  BY SubscriberNext
<1>3. SubscriberInv => TypeOK
  BY DEF SubscriberInv, WellFormed
<1> QED
  BY <1>1, <1>2, <1>3, PTL DEF Spec

(* A subscriber is told of no conflict about a value that it has already,  *)
(* and of no deletion of a record that it lacks or that the publisher has. *)
THEOREM SubscriberRealTheorem ==
  ASSUME Subscriber
  PROVE  Spec => ConflictsAreReal
<1>1. Init => SubscriberInv
  BY SubscriberInit
<1>2. SubscriberInv /\ [Next]_vars => SubscriberInv'
  BY SubscriberNext
<1>3. SubscriberInv => RaisesRealConflicts
  BY SubscriberRealStep
<1> QED
  BY <1>1, <1>2, <1>3, PTL DEF Spec, ConflictsAreReal

(* What a subscriber has edited since the last sync is overwritten by no   *)
(* sync, unless a side has no value or translator.resolve lists the field. *)
THEOREM SubscriberEditsTheorem ==
  ASSUME Subscriber
  PROVE  Spec => SyncKeepsEdits
<1>1. Init => SubscriberInv
  BY SubscriberInit
<1>2. SubscriberInv /\ [Next]_vars => SubscriberInv'
  BY SubscriberNext
<1>3. SubscriberInv => KeepsEdits
  BY SubscriberEditsStep
<1> QED
  BY <1>1, <1>2, <1>3, PTL DEF Spec, SyncKeepsEdits

(* And a subscriber's own edits raise no conflict by themselves: only what *)
(* the publisher changed does, "and not *every* time they sync".           *)
THEOREM SubscriberPeerTheorem ==
  ASSUME Subscriber
  PROVE  Spec => ConflictsComeFromPeer
<1>1. Init => SubscriberInv
  BY SubscriberInit
<1>2. SubscriberInv /\ [Next]_vars => SubscriberInv'
  BY SubscriberNext
<1>3. SubscriberInv => RaisesPeerConflicts
  BY SubscriberPeerStep
<1> QED
  BY <1>1, <1>2, <1>3, PTL DEF Spec, ConflictsComeFromPeer

(* Nor does a read-only sync touch what the subscription filters out.      *)
THEOREM SubscriberFilteredTheorem ==
  ASSUME Subscriber
  PROVE  Spec => [][KeepsFilteredHome]_vars
<1>1. Init => SubscriberInv
  BY SubscriberInit
<1>2. SubscriberInv /\ [Next]_vars => SubscriberInv'
  BY SubscriberNext
<1>3. SubscriberInv => KeepsFilteredHome
  BY SubscriberFilteredStep
<1> QED
  BY <1>1, <1>2, <1>3, PTL DEF Spec
=============================================================================
