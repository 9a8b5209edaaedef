------------------------ MODULE RepositoryViewsProofs ------------------------
(***************************************************************************)
(* Proofs about RepositoryViews, for any views, items, attributes, values  *)
(* and number of versions: its type invariant, that deferred deletions do   *)
(* not conflict, and, step by step, that it implements AtomicCommits.       *)
(***************************************************************************)
EXTENDS RepositoryViews, TLAPS

(* What TypeOK says of one view: its type, and how its parts agree with     *)
(* each other and with the version that it stands on.                      *)
ViewRecord(n) ==
  [version : 1..n, log : SUBSET Item,
   changes : [Item -> [Attr -> Value \cup {Same}]],
   deferred : SUBSET Item, deleted : SUBSET Item,
   phase : {"idle", "commit", "write"}, aborted : BOOLEAN]

Sound(w, h) ==
  /\ w.deferred \subseteq w.log
  /\ w.deleted \cap w.log = {}
  /\ \A i \in w.log : h[w.version].content[i] # Gone
  /\ \A i \in Item \ w.log : w.changes[i] = NoChanges[i]

StoreOK == history \in Seq(Version) /\ lock \in View \cup {NoView}

Writing == \A v \in View : view[v].phase = "write" <=> lock = v

LEMMA TypeByView ==
  TypeOK <=> /\ StoreOK
             /\ view \in [View -> ViewRecord(Len(history))]
             /\ Writing
             /\ \A v \in View : Sound(view[v], history)
  BY DEF TypeOK, StoreOK, ViewRecord, Writing, Sound

(* The parts of the store and of a view, from the type invariant.          *)
LEMMA Parts ==
  ASSUME TypeOK, NEW v \in View
  PROVE  /\ Newest \in Nat /\ Newest \in 1..Newest /\ view[v].version \in 1..Newest
         /\ view[v] \in ViewRecord(Newest)
         /\ Sound(view[v], history)
         /\ \A n \in 1..Newest : history[n] \in Version
         /\ \A n \in 1..Newest, i \in Item :
              Held(n, i) \in [Attr -> Value] \/ Held(n, i) = Gone
<1>1. history \in Seq(Version) /\ view[v] \in ViewRecord(Len(history))
      /\ Sound(view[v], history)
  BY TypeByView DEF StoreOK
<1>2. \A n \in 1..Newest : history[n] \in Version
  BY <1>1 DEF Newest
<1>3. \A n \in 1..Newest, i \in Item :
        Held(n, i) \in [Attr -> Value] \/ Held(n, i) = Gone
  BY <1>2 DEF Held, Version, Content
<1>4. Newest \in Nat /\ view[v].version \in 1..Newest
  BY <1>1 DEF Newest, ViewRecord
<1>5. Newest \in 1..Newest
  BY <1>4
<1> QED
  BY <1>1, <1>2, <1>3, <1>4, <1>5 DEF Newest

LEMMA FreshOK ==
  ASSUME NEW n \in Nat, NEW m \in 1..n, NEW h
  PROVE  Fresh(m) \in ViewRecord(n) /\ Sound(Fresh(m), h)
<1>1. NoChanges \in [Item -> [Attr -> Value \cup {Same}]]
  BY DEF NoChanges
<1> QED
  BY <1>1 DEF Fresh, ViewRecord, Sound

(* Deleting items in a view keeps what is known of it.                     *)
LEMMA DeletedOK ==
  ASSUME NEW n \in Nat, NEW w \in ViewRecord(n), NEW h, Sound(w, h),
         NEW items \in SUBSET Item
  PROVE  /\ Deleted(w, items) \in ViewRecord(n)
         /\ Sound(Deleted(w, items), h)
         /\ Deleted(w, items).version = w.version
         /\ Deleted(w, items).phase = w.phase
         /\ Deleted(w, items).aborted = w.aborted
         /\ Deleted(w, items).deleted = w.deleted \cup items
         /\ Deleted(w, items).log = w.log \ items
<1> DEFINE changes == [i \in Item |-> IF i \in items THEN NoChanges[i] ELSE w.changes[i]]
<1>1. NoChanges \in [Item -> [Attr -> Value \cup {Same}]]
  BY DEF NoChanges
<1>2. changes \in [Item -> [Attr -> Value \cup {Same}]]
  BY <1>1 DEF ViewRecord
<1>3. Deleted(w, items) = [w EXCEPT !.log = @ \ items, !.deferred = @ \ items,
                                    !.deleted = @ \cup items, !.changes = changes]
  BY DEF Deleted
<1>4. Deleted(w, items) \in ViewRecord(n)
  BY <1>2, <1>3 DEF ViewRecord
<1>5. Sound(Deleted(w, items), h)
  BY <1>3 DEF Sound, ViewRecord
<1> QED
  BY <1>3, <1>4, <1>5 DEF ViewRecord

LEMMA RefreshedOK ==
  ASSUME TypeOK, NEW v \in View, view[v].version < Newest
  PROVE  /\ Target(v) \in 1..Newest
         /\ Refreshed(v) \in ViewRecord(Newest) /\ Sound(Refreshed(v), history)
         /\ Refreshed(v).phase = view[v].phase /\ Refreshed(v).aborted = view[v].aborted
         /\ Refreshed(v).deleted = view[v].deleted
         /\ Refreshed(v).version = Target(v)
<1> DEFINE w == Deleted(view[v], DeletedThere(v))
           changes == [i \in Item |-> IF i \in w.log \cap Touched(v)
                                      THEN MergedItem(v, i) ELSE w.changes[i]]
<1>1. /\ Newest \in Nat /\ view[v] \in ViewRecord(Newest) /\ Sound(view[v], history)
      /\ \A n \in 1..Newest, i \in Item :
           Held(n, i) \in [Attr -> Value] \/ Held(n, i) = Gone
  BY Parts
<1>2. Target(v) \in 1..Newest
  BY <1>1 DEF Target, ViewRecord
<1>3. DeletedThere(v) \in SUBSET Item
  BY <1>1 DEF DeletedThere, ViewRecord
<1>4. /\ w \in ViewRecord(Newest) /\ Sound(w, history) /\ w.phase = view[v].phase
      /\ w.aborted = view[v].aborted /\ w.log = view[v].log \ DeletedThere(v)
  BY <1>1, <1>3, DeletedOK
<1>5. \A i \in w.log : i \in Item /\ Held(Target(v), i) # Gone
  BY <1>1, <1>4 DEF DeletedThere, ViewRecord
<1>6. ASSUME NEW i \in w.log
      PROVE  MergedItem(v, i) \in [Attr -> Value \cup {Same}]
  <2>1. i \in Item /\ Held(Target(v), i) \in [Attr -> Value]
    BY <1>1, <1>2, <1>5
  <2>2. view[v].changes[i] \in [Attr -> Value \cup {Same}]
    BY <1>1, <2>1 DEF ViewRecord
  <2> QED
    BY <2>1, <2>2 DEF MergedItem
<1>7. changes \in [Item -> [Attr -> Value \cup {Same}]]
  BY <1>4, <1>6 DEF ViewRecord
<1>8. Refreshed(v) = [w EXCEPT !.version = Target(v), !.deleted = view[v].deleted,
                               !.changes = changes]
  BY DEF Refreshed
<1>9. Refreshed(v) \in ViewRecord(Newest)
  BY <1>1, <1>2, <1>4, <1>7, <1>8 DEF ViewRecord
<1>10. Sound(Refreshed(v), history)
  <2>1. Refreshed(v).log = w.log /\ Refreshed(v).deferred = w.deferred
        /\ Refreshed(v).deleted = view[v].deleted /\ Refreshed(v).version = Target(v)
        /\ Refreshed(v).changes = changes
    BY <1>4, <1>8 DEF ViewRecord
  <2>2. \A i \in w.log : history[Target(v)].content[i] # Gone
    BY <1>5 DEF Held
  <2>3. \A i \in Item \ w.log : changes[i] = NoChanges[i]
    BY <1>4 DEF Sound
  <2> QED
    BY <1>1, <1>4, <2>1, <2>2, <2>3 DEF Sound
<1> HIDE DEF w, changes
<1> QED
  BY <1>2, <1>4, <1>8, <1>9, <1>10 DEF ViewRecord

(* The three ways a pass of _refreshForwards may end.                      *)
LEMMA RefreshStep ==
  ASSUME TypeOK, NEW v \in View, RefreshForwards(v)
  PROVE  \/ view' = [view EXCEPT ![v] = [view[v] EXCEPT !.phase = "idle"]]
         \/ view' = [view EXCEPT ![v] = [Deleted(view[v], DeletedThere(v)) EXCEPT !.phase = "idle"]]
         \/ view' = [view EXCEPT ![v] = Refreshed(v)]
<1>1. CASE Raises(v, view[v].deleted)
  BY <1>1 DEF RefreshForwards
<1>2. CASE ~Raises(v, view[v].deleted)
  <2>1. CASE DeletedThere(v) # {} /\ Raises(v, view[v].deleted \cup DeletedThere(v))
    BY <1>2, <2>1 DEF RefreshForwards
  <2>2. CASE ~(DeletedThere(v) # {} /\ Raises(v, view[v].deleted \cup DeletedThere(v)))
    BY <1>2, <2>2 DEF RefreshForwards
  <2> QED
    BY <2>1, <2>2
<1> QED
  BY <1>1, <1>2

(* A step in one view that leaves the store alone.                         *)
LEMMA StepOfView ==
  ASSUME TypeOK, NEW v \in View, NEW w \in ViewRecord(Newest), Sound(w, history),
         view' = [view EXCEPT ![v] = w], UNCHANGED history,
         lock' \in View \cup {NoView},
         w.phase = "write" <=> lock' = v,
         \A u \in View \ {v} : lock' = u <=> lock = u
  PROVE  TypeOK'
<1>1. StoreOK /\ view \in [View -> ViewRecord(Len(history))] /\ Writing
      /\ \A u \in View : Sound(view[u], history)
  BY TypeByView
<1>2. StoreOK'
  BY <1>1 DEF StoreOK
<1>3. view' \in [View -> ViewRecord(Len(history'))]
  BY <1>1 DEF Newest
<1>4. \A u \in View : view'[u] = IF u = v THEN w ELSE view[u]
  BY <1>1
<1>5. Writing'
  BY <1>1, <1>4 DEF Writing
<1>6. \A u \in View : Sound(view'[u], history')
  BY <1>1, <1>4
<1>7. ViewRecord(Len(history))' = ViewRecord(Len(history'))
  BY DEF ViewRecord, NoChanges
<1>8. \A u \in View : Sound(view[u], history)' = Sound(view'[u], history')
  BY DEF Sound, NoChanges
<1> QED
  BY <1>2, <1>3, <1>5, <1>6, <1>7, <1>8, TypeByView DEF TypeOK, StoreOK, Writing, ViewRecord, Sound

(* What a commit writes is a version.                                      *)
LEMMA NewVersionOK ==
  ASSUME TypeOK, NEW v \in View
  PROVE  NewVersion(view[v]) \in Version
<1>1. /\ Newest \in 1..Newest /\ view[v] \in ViewRecord(Newest)
      /\ \A n \in 1..Newest, i \in Item :
           Held(n, i) \in [Attr -> Value] \/ Held(n, i) = Gone
  BY Parts
<1>2. ASSUME NEW i \in Item
      PROVE  NewVersion(view[v]).content[i] \in [Attr -> Value] \cup {Gone}
  <2>1. view[v].changes[i] \in [Attr -> Value \cup {Same}]
    BY <1>1 DEF ViewRecord
  <2>2. Held(Newest, i) \in [Attr -> Value] \/ Held(Newest, i) = Gone
    BY <1>1
  <2> QED
    BY <2>1, <2>2 DEF NewVersion
<1>3. NewVersion(view[v]).saved \in SUBSET Item
  BY <1>1 DEF NewVersion, ViewRecord
<1>4. NewVersion(view[v]).written \in [Item -> SUBSET Attr]
  BY DEF NewVersion
<1> QED
  BY <1>2, <1>3, <1>4 DEF NewVersion, Version, Content

LEMMA TypeInit == Init => TypeOK
<1> SUFFICES ASSUME Init PROVE TypeOK
  OBVIOUS
<1>1. PICK content \in [Item -> [Attr -> Value]] :
        history = <<[content |-> content, saved |-> Item, written |-> [i \in Item |-> Attr]]>>
  BY DEF Init
<1>2. history[1] \in Version
  BY <1>1 DEF Version, Content
<1>3. history \in Seq(Version) /\ Len(history) = 1
  BY <1>1, <1>2
<1>4. \A v \in View : view[v] = Fresh(1)
  BY DEF Init
<1>5. 1 \in Nat /\ 1 \in 1..1
  OBVIOUS
<1>6. Fresh(1) \in ViewRecord(1) /\ Sound(Fresh(1), history)
  BY <1>5, FreshOK
<1>7. Fresh(1).phase = "idle"
  BY DEF Fresh
<1> QED
  BY <1>3, <1>4, <1>6, <1>7, TypeByView, RepositoryViewsAssumption
     DEF Init, StoreOK, Writing

LEMMA TypeNext == TypeOK /\ [Next]_vars => TypeOK'
<1> SUFFICES ASSUME TypeOK, [Next]_vars PROVE TypeOK'
  OBVIOUS
<1>1. CASE UNCHANGED vars
  BY <1>1 DEF vars, TypeOK, Version, Content, NoChanges
<1>2. CASE Next
  <2>1. PICK v \in View :
          \/ Change(v) \/ Delete(v) \/ Cancel(v) \/ Refresh(v)
          \/ Begin(v) \/ RefreshToCommit(v) \/ Lock(v) \/ Write(v) \/ Abort(v)
    BY <1>2 DEF Next
  <2>2. /\ Newest \in Nat /\ Newest \in 1..Newest /\ view[v].version \in 1..Newest
        /\ view[v] \in ViewRecord(Newest) /\ Sound(view[v], history)
        /\ \A n \in 1..Newest : history[n] \in Version
        /\ \A n \in 1..Newest, i \in Item :
             Held(n, i) \in [Attr -> Value] \/ Held(n, i) = Gone
    BY Parts
  <2>3. /\ StoreOK /\ Writing /\ view \in [View -> ViewRecord(Newest)]
        /\ \A u \in View : Sound(view[u], history)
    BY TypeByView DEF Newest
  <2>4. CASE Change(v)
    <3>1. PICK i \in Item, a \in Attr, x \in Value :
            /\ Usable(view[v], i)
            /\ view' = [view EXCEPT ![v].changes[i][a] = x, ![v].log = @ \cup {i}]
      BY <2>4 DEF Change
    <3> DEFINE changes == [view[v].changes EXCEPT ![i][a] = x]
               w == [view[v] EXCEPT !.changes = changes, !.log = @ \cup {i}]
    <3>2. view' = [view EXCEPT ![v] = w]
      BY <3>1
    <3>5. changes \in [Item -> [Attr -> Value \cup {Same}]]
          /\ \A j \in Item \ {i} : changes[j] = view[v].changes[j]
      BY <2>2 DEF ViewRecord
    <3> HIDE DEF changes
    <3>3. w \in ViewRecord(Newest) /\ w.phase = "idle"
      BY <2>2, <2>4, <3>5 DEF ViewRecord, Change
    <3>4. Sound(w, history)
      BY <2>2, <3>1, <3>5 DEF Sound, ViewRecord, Usable, Held
    <3> HIDE DEF w
    <3> QED
      BY <2>3, <2>4, <3>2, <3>3, <3>4, StepOfView DEF Change, StoreOK, Writing
  <2>5. CASE Delete(v)
    <3>1. PICK i \in Item :
            /\ Usable(view[v], i)
            /\ view' = IF v \in Defers
                       THEN [view EXCEPT ![v].deferred = @ \cup {i}, ![v].log = @ \cup {i}]
                       ELSE [view EXCEPT ![v] = Deleted(@, {i})]
      BY <2>5 DEF Delete
    <3>2. CASE v \in Defers
      <4> DEFINE w == [view[v] EXCEPT !.deferred = @ \cup {i}, !.log = @ \cup {i}]
      <4>1. view' = [view EXCEPT ![v] = w]
        BY <2>3, <3>1, <3>2 DEF ViewRecord
      <4>2. w \in ViewRecord(Newest) /\ w.phase = "idle"
        BY <2>2, <2>5 DEF ViewRecord, Delete
      <4>3. Sound(w, history)
        BY <2>2, <3>1 DEF Sound, ViewRecord, Usable, Held
      <4> HIDE DEF w
      <4> QED
        BY <2>3, <2>5, <4>1, <4>2, <4>3, StepOfView DEF Delete, StoreOK, Writing
    <3>3. CASE v \notin Defers
      <4>1. view' = [view EXCEPT ![v] = Deleted(view[v], {i})]
        BY <3>1, <3>3
      <4>2. Deleted(view[v], {i}) \in ViewRecord(Newest)
            /\ Sound(Deleted(view[v], {i}), history)
            /\ Deleted(view[v], {i}).phase = "idle"
        BY <2>2, <2>5, DeletedOK DEF Delete
      <4> QED
        BY <2>3, <2>5, <4>1, <4>2, StepOfView DEF Delete, StoreOK, Writing
    <3> QED
      BY <3>2, <3>3
  <2>6. CASE Cancel(v)
    <3>1. Fresh(view[v].version) \in ViewRecord(Newest)
          /\ Sound(Fresh(view[v].version), history)
      BY <2>2, FreshOK
    <3>2. Fresh(view[v].version).phase = "idle"
      BY DEF Fresh
    <3> QED
      BY <2>3, <2>6, <3>1, <3>2, StepOfView DEF Cancel, StoreOK, Writing
  <2>7. CASE RefreshForwards(v) /\ view[v].phase # "write"
    <3>1. CASE view' = [view EXCEPT ![v] = [view[v] EXCEPT !.phase = "idle"]]
      <4> DEFINE w == [view[v] EXCEPT !.phase = "idle"]
      <4>1. w \in ViewRecord(Newest) /\ Sound(w, history) /\ w.phase = "idle"
        BY <2>2 DEF ViewRecord, Sound
      <4> HIDE DEF w
      <4> QED
        BY <2>3, <2>7, <3>1, <4>1, StepOfView DEF RefreshForwards, StoreOK, Writing, w
    <3>2. CASE view' = [view EXCEPT ![v] = [Deleted(view[v], DeletedThere(v)) EXCEPT !.phase = "idle"]]
      <4> DEFINE d == Deleted(view[v], DeletedThere(v))
                 w == [d EXCEPT !.phase = "idle"]
      <4>1. DeletedThere(v) \in SUBSET Item
        BY <2>2 DEF DeletedThere, ViewRecord
      <4>2. d \in ViewRecord(Newest) /\ Sound(d, history)
        BY <2>2, <4>1, DeletedOK
      <4> HIDE DEF d
      <4>3. w \in ViewRecord(Newest) /\ Sound(w, history) /\ w.phase = "idle"
        BY <4>2 DEF ViewRecord, Sound
      <4>4. view' = [view EXCEPT ![v] = w]
        BY <3>2 DEF d
      <4> HIDE DEF w
      <4> QED
        BY <2>3, <2>7, <4>3, <4>4, StepOfView DEF RefreshForwards, StoreOK, Writing
    <3>3. CASE view' = [view EXCEPT ![v] = Refreshed(v)]
      BY <2>3, <2>7, <3>3, RefreshedOK, StepOfView DEF RefreshForwards, StoreOK, Writing
    <3> QED
      BY <2>7, <3>1, <3>2, <3>3, RefreshStep
  <2>8. CASE Refresh(v) \/ RefreshToCommit(v)
    BY <2>7, <2>8 DEF Refresh, RefreshToCommit
  <2>9. CASE Begin(v)
    <3> DEFINE w == [view[v] EXCEPT !.phase = "commit"]
    <3>1. view' = [view EXCEPT ![v] = w]
      BY <2>3, <2>9 DEF Begin, ViewRecord
    <3>2. w \in ViewRecord(Newest) /\ Sound(w, history) /\ w.phase = "commit"
      BY <2>2 DEF ViewRecord, Sound
    <3> HIDE DEF w
    <3> QED
      BY <2>3, <2>9, <3>1, <3>2, StepOfView DEF Begin, StoreOK, Writing
  <2>10. CASE Lock(v)
    <3> DEFINE d == Deleted(view[v], view[v].deferred)
               w == [d EXCEPT !.phase = "write"]
    <3>1. view[v].deferred \in SUBSET Item
      BY <2>2 DEF ViewRecord
    <3>2. d \in ViewRecord(Newest) /\ Sound(d, history)
      BY <2>2, <3>1, DeletedOK
    <3>3. view' = [view EXCEPT ![v] = w]
      BY <2>10 DEF Lock
    <3> HIDE DEF d
    <3>4. w \in ViewRecord(Newest) /\ Sound(w, history) /\ w.phase = "write"
      BY <3>2 DEF ViewRecord, Sound
    <3> HIDE DEF w
    <3>5. lock = NoView /\ lock' = v /\ UNCHANGED history
      BY <2>10 DEF Lock
    <3> QED
      BY <2>3, <3>3, <3>4, <3>5, StepOfView, RepositoryViewsAssumption DEF StoreOK, Writing
  <2>11. CASE Abort(v)
    <3>1. PICK phase \in {"commit", "idle"} :
            view' = [view EXCEPT ![v].phase = phase, ![v].aborted = TRUE]
      BY <2>11 DEF Abort
    <3> DEFINE w == [view[v] EXCEPT !.phase = phase, !.aborted = TRUE]
    <3>2. view' = [view EXCEPT ![v] = w]
      BY <2>3, <3>1 DEF ViewRecord
    <3>3. w \in ViewRecord(Newest) /\ Sound(w, history) /\ w.phase # "write"
      BY <2>2 DEF ViewRecord, Sound
    <3> HIDE DEF w
    <3>4. lock' = NoView /\ UNCHANGED history /\ lock = v
      BY <2>3, <2>11 DEF Abort, Writing
    <3> QED
      BY <2>3, <3>2, <3>3, <3>4, StepOfView, RepositoryViewsAssumption DEF StoreOK, Writing
  <2>12. CASE Write(v)
    <3>1. lock = v /\ lock' = NoView /\ view' = [view EXCEPT ![v] = Fresh(Len(history'))]
      BY <2>3, <2>12 DEF Write, Writing
    <3>2. NewVersion(view[v]) \in Version
      BY <2>2, NewVersionOK
    <3>a. history \in Seq(Version) /\ Newest = Len(history)
      BY <2>3 DEF StoreOK, Newest
    <3>b. history' = history \/ history' = Append(history, NewVersion(view[v]))
      BY <2>12 DEF Write
    <3>3. /\ history' \in Seq(Version) /\ Len(history') \in Nat
          /\ Newest <= Len(history') /\ 1 <= Len(history')
          /\ \A n \in 1..Newest : history'[n] = history[n]
      BY <2>2, <3>2, <3>a, <3>b
    <3> DEFINE w == Fresh(Len(history'))
    <3>4. w \in ViewRecord(Len(history')) /\ Sound(w, history')
      BY <3>3, FreshOK
    <3>5. w.phase = "idle"
      BY DEF Fresh
    <3> HIDE DEF w
    <3>6. \A u \in View \ {v} : view'[u] = view[u]
      BY <2>3, <3>1
    <3>7. view'[v] = w
      BY <2>3, <3>1 DEF w
    <3>8. ASSUME NEW u \in View \ {v}
          PROVE  /\ view[u] \in ViewRecord(Len(history'))
                 /\ Sound(view[u], history')
      <4>1. view[u] \in ViewRecord(Newest) /\ Sound(view[u], history)
        BY <2>3
      <4>2. view[u].version \in 1..Newest
        BY <4>1 DEF ViewRecord
      <4>3. view[u].version \in 1..Len(history')
            /\ history'[view[u].version] = history[view[u].version]
        BY <2>2, <3>3, <4>2
      <4> QED
        BY <4>1, <4>3 DEF ViewRecord, Sound
    <3>9. \A u \in View : view'[u] \in ViewRecord(Len(history')) /\ Sound(view'[u], history')
      BY <3>4, <3>6, <3>7, <3>8
    <3>10. view' = [u \in View |-> view'[u]]
      BY <2>3, <3>1
    <3>11. view' \in [View -> ViewRecord(Len(history'))]
      BY <3>9, <3>10
    <3>12. \A u \in View : view'[u].phase = "write" <=> lock' = u
      BY <2>3, <3>1, <3>5, <3>6, <3>7, RepositoryViewsAssumption DEF Writing
    <3> QED
      BY <3>1, <3>3, <3>9, <3>11, <3>12 DEF TypeOK, ViewRecord, Sound, NoChanges, Version, Content
  <2> QED
    BY <2>1, <2>4, <2>5, <2>6, <2>8, <2>9, <2>10, <2>11, <2>12
<1> QED
  BY <1>1, <1>2

(* The views and the store are of their types, a view has the lock while   *)
(* it writes and only then, and what a view says of its items fits the      *)
(* version that it stands on.                                              *)
THEOREM ViewsTypeTheorem == Spec => []TypeOK
<1> QED
  BY TypeInit, TypeNext, PTL DEF Spec

-----------------------------------------------------------------------------
(* Deferred deletions.  A deleted item never comes back, a view writes on   *)
(* top of the newest version only, and what a view that defers has deleted  *)
(* for good is gone for the others too, or about to be.                    *)
GoneForGood ==
  \A m, n \in 1..Newest : m <= n =>
    \A i \in Item : Held(m, i) = Gone => Held(n, i) = Gone

WritesNewest == \A v \in View : view[v].phase = "write" => view[v].version = Newest

DeletionsTakeEffect ==
  \A v \in Defers : ~view[v].aborted =>
    \A i \in view[v].deleted : Held(Newest, i) = Gone \/ view[v].phase = "write"

DeletesInv == TypeOK /\ GoneForGood /\ WritesNewest /\ DeletionsTakeEffect

LEMMA DeletesInit == Init => DeletesInv
<1> SUFFICES ASSUME Init PROVE DeletesInv
  OBVIOUS
<1>1. TypeOK
  BY TypeInit
<1>2. Newest = 1
  BY DEF Init, Newest
<1>3. GoneForGood
  BY <1>2 DEF GoneForGood
<1>4. \A v \in View : view[v].phase = "idle" /\ view[v].deleted = {}
  BY DEF Init, Fresh
<1> QED
  BY <1>1, <1>3, <1>4, RepositoryViewsAssumption
     DEF DeletesInv, WritesNewest, DeletionsTakeEffect

(* A step in one view that leaves the store alone.                         *)
LEMMA DeletesStep ==
  ASSUME DeletesInv, TypeOK', NEW v \in View, NEW w,
         view' = [view EXCEPT ![v] = w], UNCHANGED history,
         w.phase = "write" => w.version = Newest,
         v \in Defers /\ ~w.aborted =>
           \A i \in w.deleted : Held(Newest, i) = Gone \/ w.phase = "write"
  PROVE  DeletesInv'
<1>1. Newest' = Newest /\ \A n, i : Held(n, i)' = Held(n, i)
  BY DEF Newest, Held
<1>2. \A u \in View : view'[u] = IF u = v THEN w ELSE view[u]
  BY DEF DeletesInv, TypeOK
<1>3. GoneForGood'
  BY <1>1 DEF DeletesInv, GoneForGood
<1>4. WritesNewest'
  BY <1>1, <1>2 DEF DeletesInv, WritesNewest
<1>5. DeletionsTakeEffect'
  BY <1>1, <1>2, RepositoryViewsAssumption DEF DeletesInv, DeletionsTakeEffect
<1> QED
  BY <1>3, <1>4, <1>5 DEF DeletesInv

(* Writing on top of the newest version keeps what is gone gone.           *)
LEMMA DeletesWrite ==
  ASSUME DeletesInv, TypeOK', NEW v \in View, Write(v)
  PROVE  DeletesInv'
<1>1. TypeOK /\ GoneForGood /\ WritesNewest /\ DeletionsTakeEffect
  BY DEF DeletesInv
<1>2. StoreOK /\ Writing /\ view \in [View -> ViewRecord(Newest)]
  BY <1>1, TypeByView DEF Newest
<1>3. history \in Seq(Version) /\ Newest = Len(history) /\ Newest \in Nat /\ Newest \in 1..Newest
  BY <1>1, <1>2, Parts DEF StoreOK, Newest
<1>4. view' = [view EXCEPT ![v] = Fresh(Len(history'))]
  BY DEF Write
<1>5. \A u \in View \ {v} : view'[u] = view[u] /\ view[u].phase # "write"
  BY <1>2, <1>4 DEF Write, Writing
<1>6. view'[v].phase = "idle" /\ view'[v].deleted = {}
  BY <1>2, <1>4 DEF Fresh
<1>7. CASE history' = history
  <2>1. Newest' = Newest /\ \A n, i : Held(n, i)' = Held(n, i)
    BY <1>7 DEF Newest, Held
  <2>2. GoneForGood'
    BY <1>1, <2>1 DEF GoneForGood
  <2>3. WritesNewest'
    BY <1>5, <1>6 DEF WritesNewest
  <2>4. DeletionsTakeEffect'
    BY <1>1, <1>5, <1>6, <2>1, RepositoryViewsAssumption DEF DeletionsTakeEffect
  <2> QED
    BY <2>2, <2>3, <2>4 DEF DeletesInv
<1>8. CASE history' = Append(history, NewVersion(view[v]))
  <2>1. Newest' = Newest + 1 /\ \A n \in 1..Newest : history'[n] = history[n]
    BY <1>3, <1>8 DEF Newest
  <2>2. history'[Newest + 1] = NewVersion(view[v])
    BY <1>3, <1>8
  <2>3. \A n \in 1..Newest, i \in Item : Held(n, i)' = Held(n, i)
    BY <2>1 DEF Held
  <2>4. \A i \in Item : Held(Newest, i) = Gone => (history'[Newest + 1]).content[i] = Gone
    BY <2>2 DEF NewVersion
  <2>5. \A i \in Item : Held(Newest, i) = Gone => Held(Newest, i)' = Gone
    BY <2>1, <2>4 DEF Held
  <2>6. GoneForGood'
    <3> SUFFICES ASSUME NEW m \in 1..(Newest + 1), NEW n \in 1..(Newest + 1), m <= n,
                        NEW i \in Item, (history'[m]).content[i] = Gone
                 PROVE  (history'[n]).content[i] = Gone
      BY <2>1 DEF GoneForGood, Held
    <3>1. CASE n \in 1..Newest
      <4>1. m \in 1..Newest
        BY <1>3, <3>1
      <4> QED
        BY <1>1, <2>1, <3>1, <4>1 DEF GoneForGood, Held
    <3>2. CASE n = Newest + 1 /\ m \in 1..Newest
      <4>1. Held(m, i) = Gone
        BY <2>1, <3>2 DEF Held
      <4>2. m <= Newest
        BY <1>3, <3>2
      <4>3. Held(Newest, i) = Gone
        BY <1>1, <1>3, <3>2, <4>1, <4>2 DEF GoneForGood
      <4> QED
        BY <2>4, <3>2, <4>3
    <3>3. CASE m = Newest + 1
      BY <1>3, <3>3
    <3> QED
      BY <1>3, <3>1, <3>2, <3>3
  <2>7. WritesNewest'
    BY <1>5, <1>6 DEF WritesNewest
  <2>8. DeletionsTakeEffect'
    <3> SUFFICES ASSUME NEW u \in Defers, ~(view'[u]).aborted, NEW i \in (view'[u]).deleted
                 PROVE  Held(Newest, i)' = Gone
      BY DEF DeletionsTakeEffect
    <3>1. u \in View \ {v} /\ view'[u] = view[u] /\ view[u].phase # "write"
      BY <1>5, <1>6, RepositoryViewsAssumption
    <3>2. i \in Item /\ Held(Newest, i) = Gone
      BY <1>1, <1>2, <3>1 DEF DeletionsTakeEffect, ViewRecord
    <3> QED
      BY <2>5, <3>2
  <2> QED
    BY <2>6, <2>7, <2>8 DEF DeletesInv
<1> QED
  BY <1>7, <1>8 DEF Write

LEMMA DeletesNext == DeletesInv /\ [Next]_vars => DeletesInv'
<1> SUFFICES ASSUME DeletesInv, [Next]_vars PROVE DeletesInv'
  OBVIOUS
<1>1. TypeOK /\ TypeOK'
  BY TypeNext DEF DeletesInv
<1>2. CASE UNCHANGED vars
  BY <1>1, <1>2 DEF vars, DeletesInv, GoneForGood, WritesNewest, DeletionsTakeEffect, Newest, Held
<1>3. CASE Next
  <2>1. PICK v \in View :
          \/ Change(v) \/ Delete(v) \/ Cancel(v) \/ Refresh(v)
          \/ Begin(v) \/ RefreshToCommit(v) \/ Lock(v) \/ Write(v) \/ Abort(v)
    BY <1>3 DEF Next
  <2>2. /\ Newest \in Nat /\ Newest \in 1..Newest
        /\ view[v] \in ViewRecord(Newest) /\ Sound(view[v], history)
    BY <1>1, Parts
  <2>3. GoneForGood /\ WritesNewest /\ DeletionsTakeEffect
    BY DEF DeletesInv
  <2>4. CASE Change(v)
    <3>1. PICK i \in Item, a \in Attr, x \in Value :
            view' = [view EXCEPT ![v].changes[i][a] = x, ![v].log = @ \cup {i}]
      BY <2>4 DEF Change
    <3> DEFINE changes == [view[v].changes EXCEPT ![i][a] = x]
               w == [view[v] EXCEPT !.changes = changes, !.log = @ \cup {i}]
    <3>2. view' = [view EXCEPT ![v] = w]
      BY <3>1
    <3> HIDE DEF changes
    <3>3. w.phase = view[v].phase /\ w.deleted = view[v].deleted
          /\ w.aborted = view[v].aborted /\ w.phase = "idle"
      BY <2>2, <2>4 DEF ViewRecord, Change
    <3> HIDE DEF w
    <3> QED
      BY <1>1, <2>3, <2>4, <3>2, <3>3, DeletesStep DEF Change, DeletionsTakeEffect
  <2>5. CASE Delete(v)
    <3>1. PICK i \in Item :
            view' = IF v \in Defers
                    THEN [view EXCEPT ![v].deferred = @ \cup {i}, ![v].log = @ \cup {i}]
                    ELSE [view EXCEPT ![v] = Deleted(@, {i})]
      BY <2>5 DEF Delete
    <3>2. CASE v \in Defers
      <4> DEFINE w == [view[v] EXCEPT !.deferred = @ \cup {i}, !.log = @ \cup {i}]
      <4>1. view' = [view EXCEPT ![v] = w]
        BY <3>1, <3>2
      <4>2. w.deleted = view[v].deleted /\ w.aborted = view[v].aborted /\ w.phase = "idle"
            /\ view[v].phase = "idle"
        BY <2>2, <2>5 DEF ViewRecord, Delete
      <4> HIDE DEF w
      <4> QED
        BY <1>1, <2>3, <2>5, <4>1, <4>2, DeletesStep DEF Delete, DeletionsTakeEffect
    <3>3. CASE v \notin Defers
      <4> DEFINE w == Deleted(view[v], {i})
      <4>1. view' = [view EXCEPT ![v] = w]
        BY <3>1, <3>3
      <4>2. w.phase = "idle"
        BY <2>2, <2>5, DeletedOK DEF Delete
      <4> HIDE DEF w
      <4> QED
        BY <1>1, <2>5, <3>3, <4>1, <4>2, DeletesStep DEF Delete
    <3> QED
      BY <3>2, <3>3
  <2>6. CASE Cancel(v)
    <3> DEFINE w == Fresh(view[v].version)
    <3>1. w.phase = "idle" /\ w.deleted = {}
      BY DEF Fresh
    <3>2. view' = [view EXCEPT ![v] = w] /\ UNCHANGED history
      BY <2>6 DEF Cancel
    <3> HIDE DEF w
    <3> QED
      BY <1>1, <3>1, <3>2, DeletesStep
  <2>7. CASE RefreshForwards(v) /\ view[v].phase # "write"
    <3>0. UNCHANGED history /\ view[v].version < Newest
      BY <2>7 DEF RefreshForwards
    <3>1. CASE view' = [view EXCEPT ![v] = [view[v] EXCEPT !.phase = "idle"]]
      <4> DEFINE w == [view[v] EXCEPT !.phase = "idle"]
      <4>1. w.deleted = view[v].deleted /\ w.aborted = view[v].aborted /\ w.phase = "idle"
        BY <2>2 DEF ViewRecord
      <4>2. view' = [view EXCEPT ![v] = w]
        BY <3>1
      <4> HIDE DEF w
      <4> QED
        BY <1>1, <2>3, <2>7, <3>0, <4>1, <4>2, DeletesStep DEF DeletionsTakeEffect
    <3>2. CASE view' = [view EXCEPT ![v] = [Deleted(view[v], DeletedThere(v)) EXCEPT !.phase = "idle"]]
      <4> DEFINE d == Deleted(view[v], DeletedThere(v))
                 w == [d EXCEPT !.phase = "idle"]
      <4>1. DeletedThere(v) \in SUBSET Item
        BY <2>2 DEF DeletedThere, ViewRecord
      <4>2. d \in ViewRecord(Newest) /\ d.aborted = view[v].aborted
            /\ d.deleted = view[v].deleted \cup DeletedThere(v)
        BY <2>2, <4>1, DeletedOK
      <4>3. view' = [view EXCEPT ![v] = w]
        BY <3>2
      <4> HIDE DEF d
      <4>4. w.phase = "idle" /\ w.aborted = view[v].aborted
            /\ w.deleted = view[v].deleted \cup DeletedThere(v)
        BY <4>2 DEF ViewRecord
      <4> HIDE DEF w
      <4>5. Target(v) \in 1..Newest
        BY <1>1, <3>0, RefreshedOK
      <4>6. \A i \in DeletedThere(v) : Held(Newest, i) = Gone
        BY <2>2, <2>3, <4>1, <4>5 DEF DeletedThere, GoneForGood
      <4> QED
        BY <1>1, <2>3, <2>7, <3>0, <4>3, <4>4, <4>6, DeletesStep DEF DeletionsTakeEffect
    <3>3. CASE view' = [view EXCEPT ![v] = Refreshed(v)]
      <4>1. Refreshed(v).phase = view[v].phase /\ Refreshed(v).aborted = view[v].aborted
            /\ Refreshed(v).deleted = view[v].deleted
        BY <1>1, <3>0, RefreshedOK
      <4> QED
        BY <1>1, <2>3, <2>7, <3>0, <3>3, <4>1, DeletesStep DEF DeletionsTakeEffect
    <3> QED
      BY <1>1, <2>7, <3>1, <3>2, <3>3, RefreshStep
  <2>8. CASE Refresh(v) \/ RefreshToCommit(v)
    BY <2>7, <2>8 DEF Refresh, RefreshToCommit
  <2>9. CASE Begin(v)
    <3> DEFINE w == [view[v] EXCEPT !.phase = "commit"]
    <3>1. view' = [view EXCEPT ![v] = w] /\ UNCHANGED history
      BY <2>9 DEF Begin
    <3>2. w.deleted = view[v].deleted /\ w.aborted = view[v].aborted /\ w.phase = "commit"
          /\ view[v].phase = "idle"
      BY <2>2, <2>9 DEF ViewRecord, Begin
    <3> HIDE DEF w
    <3> QED
      BY <1>1, <2>3, <3>1, <3>2, DeletesStep DEF DeletionsTakeEffect
  <2>10. CASE Lock(v)
    <3> DEFINE d == Deleted(view[v], view[v].deferred)
               w == [d EXCEPT !.phase = "write"]
    <3>1. view[v].deferred \in SUBSET Item
      BY <2>2 DEF ViewRecord
    <3>2. d \in ViewRecord(Newest) /\ d.version = view[v].version
      BY <2>2, <3>1, DeletedOK
    <3>3. view' = [view EXCEPT ![v] = w]
      BY <2>10 DEF Lock
    <3> HIDE DEF d
    <3>4. w.phase = "write" /\ w.version = view[v].version
      BY <3>2 DEF ViewRecord
    <3> HIDE DEF w
    <3> QED
      BY <1>1, <2>10, <3>3, <3>4, DeletesStep DEF Lock
  <2>11. CASE Abort(v)
    <3>1. PICK phase \in {"commit", "idle"} :
            view' = [view EXCEPT ![v].phase = phase, ![v].aborted = TRUE]
      BY <2>11 DEF Abort
    <3> DEFINE w == [view[v] EXCEPT !.phase = phase, !.aborted = TRUE]
    <3>2. view' = [view EXCEPT ![v] = w]
      BY <3>1
    <3>3. w.phase # "write" /\ w.aborted
      BY <2>2 DEF ViewRecord
    <3> HIDE DEF w
    <3> QED
      BY <1>1, <2>11, <3>2, <3>3, DeletesStep DEF Abort
  <2>12. CASE Write(v)
    BY <1>1, <2>12, DeletesWrite
  <2> QED
    BY <2>1, <2>4, <2>5, <2>6, <2>8, <2>9, <2>10, <2>11, <2>12
<1> QED
  BY <1>2, <1>3

(* A view that defers its deletions never conflicts over them, however many *)
(* views there are and however their refreshes and commits interleave.     *)
THEOREM DeferredDeletesTheorem == Spec => []DeferredDeletesDoNotConflict
<1>1. DeletesInv => DeferredDeletesDoNotConflict
  BY RepositoryViewsAssumption
     DEF DeletesInv, WritesNewest, DeletionsTakeEffect, DeferredDeletesDoNotConflict
<1> QED
  BY <1>1, DeletesInit, DeletesNext, PTL DEF Spec
-----------------------------------------------------------------------------
(* What the refinement needs to know of the store: a commit says of each    *)
(* change that it makes that it has made it, and under the lock nothing is  *)
(* left for later.                                                         *)

(* What a commit says in `saved' and `written' accounts for every change of *)
(* an item: the scan of the history that a refresh makes misses none.      *)
SavedIfWritten ==
  \A n \in 1..Newest, i \in Item : i \notin history[n].saved => history[n].written[i] = {}

(* A value that was written to attribute a of i after version m, and one    *)
(* that was replaced then.                                                 *)
Writes(m, n, i, a, x) ==
  \E k \in m + 1 .. n : a \in history[k].written[i] /\ Held(k, i)[a] = x
Replaces(m, n, i, a, x) ==
  \E k \in m + 1 .. n : a \in history[k].written[i] /\ Held(k - 1, i)[a] = x

ChangesAreWritten ==
  \A m, n \in 1..Newest, i \in Item, a \in Attr :
    m <= n /\ Held(n, i) # Gone /\ Held(m, i)[a] # Held(n, i)[a] =>
      Writes(m, n, i, a, Held(n, i)[a]) /\ Replaces(m, n, i, a, Held(m, i)[a])

NothingDeferred == \A v \in View : view[v].phase = "write" => view[v].deferred = {}

CommitInv ==
  /\ DeletesInv
  /\ SavedIfWritten
  /\ ChangesAreWritten
  /\ NothingDeferred

LEMMA CommitInit == Init => CommitInv
<1> SUFFICES ASSUME Init PROVE CommitInv
  OBVIOUS
<1>1. DeletesInv
  BY DeletesInit
<1>2. Newest = 1 /\ history[1].saved = Item
  BY DEF Init, Newest
<1>3. SavedIfWritten
  BY <1>2 DEF SavedIfWritten
<1>4. ChangesAreWritten
  BY <1>2 DEF ChangesAreWritten
<1>5. NothingDeferred
  BY DEF Init, Fresh, NothingDeferred
<1> QED
  BY <1>1, <1>3, <1>4, <1>5 DEF CommitInv

(* A step that leaves the store alone, of a view that defers nothing when   *)
(* it writes.                                                              *)
LEMMA CommitStep ==
  ASSUME CommitInv, DeletesInv', UNCHANGED history, NothingDeferred'
  PROVE  CommitInv'
<1>1. Newest' = Newest /\ \A n, i : Held(n, i)' = Held(n, i)
  BY DEF Newest, Held
<1>2. SavedIfWritten'
  BY <1>1 DEF CommitInv, SavedIfWritten
<1>3. ChangesAreWritten'
  BY DEF CommitInv, ChangesAreWritten, Writes, Replaces, Held, Newest
<1> QED
  BY <1>2, <1>3 DEF CommitInv

LEMMA CommitWrite ==
  ASSUME CommitInv, DeletesInv', NEW v \in View, Write(v)
  PROVE  CommitInv'
<1>1. TypeOK /\ GoneForGood /\ SavedIfWritten /\ ChangesAreWritten /\ NothingDeferred
  BY DEF CommitInv, DeletesInv
<1>2. StoreOK /\ Writing /\ view \in [View -> ViewRecord(Newest)]
  BY <1>1, TypeByView DEF Newest
<1>3. /\ history \in Seq(Version) /\ Newest = Len(history) /\ Newest \in Nat /\ Newest \in 1..Newest
      /\ Sound(view[v], history)
      /\ \A n \in 1..Newest, i \in Item :
           Held(n, i) \in [Attr -> Value] \/ Held(n, i) = Gone
  BY <1>1, <1>2, Parts DEF StoreOK, Newest
<1>4. NothingDeferred'
  <2>1. view' = [view EXCEPT ![v] = Fresh(Len(history'))]
    BY DEF Write
  <2>2. Fresh(Len(history')).phase = "idle"
    BY DEF Fresh
  <2>3. \A u \in View : view'[u].phase = "write" => view'[u] = view[u]
    BY <1>2, <2>1, <2>2
  <2> QED
    BY <1>1, <2>3 DEF NothingDeferred
<1>5. CASE history' = history
  BY <1>4, <1>5, CommitStep
<1>6. CASE history' = Append(history, NewVersion(view[v]))
  <2> DEFINE N == Newest + 1
             new == NewVersion(view[v])
  <2>1. Newest' = N /\ \A n \in 1..Newest : history'[n] = history[n]
    BY <1>3, <1>6 DEF Newest
  <2>2. history'[N] = new
    BY <1>3, <1>6
  <2>3. \A n \in 1..Newest, i \in Item : Held(n, i)' = Held(n, i)
    BY <2>1 DEF Held
  <2>5. SavedIfWritten'
    <3>1. ASSUME NEW i \in Item, i \notin new.saved PROVE new.written[i] = {}
      BY <1>3, <3>1 DEF NewVersion, Sound, NoChanges
    <3>2. ASSUME NEW n \in 1..N, NEW i \in Item, i \notin history'[n].saved
          PROVE  history'[n].written[i] = {}
      <4>1. CASE n = N
        BY <2>2, <3>1, <3>2, <4>1
      <4>2. CASE n \in 1..Newest
        BY <1>1, <2>1, <3>2, <4>2 DEF SavedIfWritten
      <4> QED
        BY <1>3, <4>1, <4>2
    <3> QED
      BY <2>1, <3>2 DEF SavedIfWritten
  <2>6. ChangesAreWritten'
    <3>1. ASSUME NEW i \in Item, NEW a \in Attr, new.content[i] # Gone
          PROVE  /\ Held(Newest, i) # Gone
                 /\ a \notin new.written[i] => new.content[i][a] = Held(Newest, i)[a]
      BY <3>1 DEF NewVersion
    <3>2. ASSUME NEW m \in 1..N, NEW n \in 1..N, NEW i \in Item, NEW a \in Attr,
                 m <= n, history'[n].content[i] # Gone,
                 history'[m].content[i][a] # history'[n].content[i][a]
          PROVE  /\ \E k \in m + 1 .. n : a \in history'[k].written[i]
                                          /\ history'[k].content[i][a] = history'[n].content[i][a]
                 /\ \E k \in m + 1 .. n : a \in history'[k].written[i]
                                          /\ history'[k - 1].content[i][a] = history'[m].content[i][a]
      <4>1. m \in 1..Newest
        BY <1>3, <3>2
      <4> DEFINE old == Held(Newest, i)[a]
      <4>2. ASSUME NEW q \in 1..Newest, m <= q, Held(q, i) # Gone, Held(m, i)[a] # Held(q, i)[a]
            PROVE  /\ \E k \in m + 1 .. q : a \in history'[k].written[i]
                                            /\ history'[k].content[i][a] = Held(q, i)[a]
                   /\ \E k \in m + 1 .. q : a \in history'[k].written[i]
                                            /\ history'[k - 1].content[i][a] = Held(m, i)[a]
        <5>1. Writes(m, q, i, a, Held(q, i)[a]) /\ Replaces(m, q, i, a, Held(m, i)[a])
          BY <1>1, <4>1, <4>2 DEF ChangesAreWritten
        <5>2. \A k \in m + 1 .. q : k \in 1..Newest /\ k - 1 \in 1..Newest
          BY <1>3, <4>1
        <5> QED
          BY <2>1, <5>1, <5>2 DEF Writes, Replaces, Held
      <4>3. CASE n \in 1..Newest
        BY <2>1, <3>2, <4>1, <4>2, <4>3 DEF Held
      <4>4. CASE n = N
        <5>1. /\ new.content[i] # Gone /\ Held(m, i)[a] # new.content[i][a]
              /\ history'[m] = history[m]
          BY <2>1, <2>2, <3>2, <4>1, <4>4 DEF Held
        <5>2. Held(Newest, i) # Gone /\ (a \notin new.written[i] => new.content[i][a] = old)
          BY <3>1, <5>1
        <5>3. /\ N \in m + 1 .. N /\ N - 1 = Newest /\ m <= Newest
              /\ \A k \in m + 1 .. Newest : k \in m + 1 .. N
              /\ history'[Newest] = history[Newest]
          BY <1>3, <2>1, <4>1
        <5>4. CASE Held(m, i)[a] = old
          <6>1. a \in new.written[i]
            BY <5>1, <5>2, <5>4
          <6> QED
            BY <2>2, <4>4, <5>1, <5>3, <5>4, <6>1 DEF Held
        <5>5. CASE Held(m, i)[a] # old
          <6>1. /\ \E k \in m + 1 .. Newest : a \in history'[k].written[i]
                                            /\ history'[k].content[i][a] = old
                /\ \E k \in m + 1 .. Newest : a \in history'[k].written[i]
                                            /\ history'[k - 1].content[i][a] = Held(m, i)[a]
            BY <1>3, <4>2, <5>2, <5>3, <5>5
          <6>2. \E k \in m + 1 .. N : a \in history'[k].written[i]
                                      /\ history'[k].content[i][a] = new.content[i][a]
            <7>1. CASE a \in new.written[i]
              BY <2>2, <5>3, <7>1
            <7>2. CASE a \notin new.written[i]
              BY <5>2, <5>3, <6>1, <7>2
            <7> QED
              BY <7>1, <7>2
          <6> QED
            BY <2>2, <4>4, <5>1, <5>3, <6>1, <6>2 DEF Held
        <5> QED
          BY <5>4, <5>5
      <4> QED
        BY <1>3, <4>3, <4>4
    <3> HIDE DEF new
    <3>3. ASSUME NEW m \in 1..Newest', NEW n \in 1..Newest', NEW i \in Item, NEW a \in Attr,
                 m <= n, Held(n, i)' # Gone, Held(m, i)[a]' # Held(n, i)[a]'
          PROVE  Writes(m, n, i, a, Held(n, i)[a])' /\ Replaces(m, n, i, a, Held(m, i)[a])'
      BY <2>1, <3>2, <3>3 DEF Writes, Replaces, Held
    <3> QED
      BY <3>3 DEF ChangesAreWritten
  <2> QED
    BY <1>4, <2>5, <2>6 DEF CommitInv
<1> QED
  BY <1>5, <1>6 DEF Write

LEMMA CommitNext == CommitInv /\ [Next]_vars => CommitInv'
<1> SUFFICES ASSUME CommitInv, [Next]_vars PROVE CommitInv'
  OBVIOUS
<1>1. DeletesInv /\ DeletesInv' /\ TypeOK /\ TypeOK'
  BY DeletesNext DEF CommitInv, DeletesInv
<1>2. CASE UNCHANGED vars
  <2>1. NothingDeferred' /\ UNCHANGED history
    BY <1>2 DEF vars, CommitInv, NothingDeferred
  <2> QED
    BY <1>1, <2>1, CommitStep
<1>3. CASE Next
  <2>1. PICK v \in View :
          \/ Change(v) \/ Delete(v) \/ Cancel(v) \/ Refresh(v)
          \/ Begin(v) \/ RefreshToCommit(v) \/ Lock(v) \/ Write(v) \/ Abort(v)
    BY <1>3 DEF Next
  <2>2. CASE Write(v)
    BY <1>1, <2>1, <2>2, CommitWrite
  <2>3. CASE ~Write(v)
    <3>1. UNCHANGED history /\ \A u \in View \ {v} : view'[u] = view[u]
      <4>1. view \in [View -> ViewRecord(Newest)]
        BY <1>1, TypeByView DEF Newest
      <4>2. CASE Change(v) \/ Delete(v)
        BY <4>1, <4>2 DEF Change, Delete
      <4>3. CASE Cancel(v) \/ Begin(v) \/ Lock(v) \/ Abort(v)
        BY <4>1, <4>3 DEF Cancel, Begin, Lock, Abort
      <4>4. CASE Refresh(v) \/ RefreshToCommit(v)
        BY <4>1, <4>4 DEF Refresh, RefreshToCommit, RefreshForwards
      <4> QED
        BY <2>1, <2>3, <4>2, <4>3, <4>4
    <3>2. view'[v].phase = "write" => view'[v].deferred = {}
      <4>1. CASE Lock(v)
        <5> DEFINE d == Deleted(view[v], view[v].deferred)
        <5>1. view[v] \in ViewRecord(Newest)
          BY <1>1, Parts
        <5>2. view'[v] = [d EXCEPT !.phase = "write"]
          BY <1>1, <4>1 DEF Lock, TypeOK
        <5>3. d.deferred = {} /\ d \in ViewRecord(Newest)
          <6>1. view[v].deferred \in SUBSET Item
            BY <5>1 DEF ViewRecord
          <6>2. d \in ViewRecord(Newest)
            BY <1>1, <5>1, <6>1, DeletedOK, Parts
          <6> QED
            BY <5>1, <6>2 DEF Deleted, ViewRecord
        <5> HIDE DEF d
        <5> QED
          BY <5>2, <5>3 DEF ViewRecord
      <4>2. CASE ~Lock(v)
        <5>1. lock' # v
          BY <1>1, <2>1, <2>3, <4>2, RepositoryViewsAssumption
             DEF TypeOK, Change, Delete, Cancel, Refresh, RefreshForwards, Begin, RefreshToCommit, Abort
        <5> QED
          BY <1>1, <5>1 DEF TypeOK
      <4> QED
        BY <4>1, <4>2
    <3>3. NothingDeferred'
      BY <3>1, <3>2 DEF CommitInv, NothingDeferred
    <3> QED
      BY <1>1, <3>1, <3>3, CommitStep
  <2> QED
    BY <2>2, <2>3
<1> QED
  BY <1>2, <1>3
-----------------------------------------------------------------------------
(* The abstract state, and the steps of one view that do not touch the      *)
(* store, as AtomicCommits sees them.                                      *)

(* ChangeSeen and Unseen of a view whose record is w on a store h.         *)
SeenAs(h, v, w, i) ==
  IF h[Len(h)].content[i] = Gone THEN [a \in Attr |-> Same]
  ELSE IF i \in w.deferred \cup w.deleted THEN Gone
  ELSE [a \in Attr |-> IF v \notin ThisWins /\ w.changes[i][a] = h[w.version].content[i][a]
                       THEN Same ELSE w.changes[i][a]]

UnseenAs(h, w) ==
  {u \in Item \X Attr \X Value :
     /\ h[Len(h)].content[u[1]] # Gone
     /\ \E n \in w.version + 1 .. Len(h) :
          /\ u[2] \in h[n].written[u[1]]
          /\ u[3] \in {h[n].content[u[1]][u[2]], h[n - 1].content[u[1]][u[2]]}}

Committed == history[Newest].content
AllSeen == [v \in View |-> [i \in Item |-> ChangeSeen(v, i)]]
AllUnseen == [v \in View |-> Unseen(v)]

LEMMA AbstractState ==
  /\ Committed = history[Len(history)].content
  /\ AllSeen = [v \in View |-> [i \in Item |-> SeenAs(history, v, view[v], i)]]
  /\ AllUnseen = [v \in View |-> UnseenAs(history, view[v])]
  /\ Committed' = history'[Len(history')].content
  /\ AllSeen' = [v \in View |-> [i \in Item |-> SeenAs(history', v, view'[v], i)]]
  /\ AllUnseen' = [v \in View |-> UnseenAs(history', view'[v])]
  BY DEF Committed, AllSeen, AllUnseen, ChangeSeen, Unseen, SeenAs, UnseenAs, Held, Newest

LEMMA AbstractStutter ==
  ASSUME UNCHANGED <<Committed, AllSeen, AllUnseen>>
  PROVE  UNCHANGED Abstract!vars
  BY DEF Abstract!vars, Committed, AllSeen, AllUnseen

(* The actions of AtomicCommits, of these three.                           *)
LEMMA AbstractActions ==
  ASSUME NEW v \in View
  PROVE  /\ Abstract!Change(v) <=>
              /\ \E i \in Item, a \in Attr, x \in Value \cup {Same} :
                   /\ Committed[i] # Gone /\ AllSeen[v][i] # Gone
                   /\ AllSeen' = [AllSeen EXCEPT ![v][i][a] = x]
              /\ UNCHANGED <<Committed, AllUnseen>>
         /\ Abstract!Delete(v) <=>
              /\ \E i \in Item : Committed[i] # Gone /\ AllSeen' = [AllSeen EXCEPT ![v][i] = Gone]
              /\ UNCHANGED <<Committed, AllUnseen>>
         /\ Abstract!Cancel(v) <=>
              /\ AllSeen' = [AllSeen EXCEPT ![v] = [i \in Item |-> [a \in Attr |-> Same]]]
              /\ UNCHANGED <<Committed, AllUnseen>>
<1>1. Abstract!Change(v) <=>
        /\ \E i \in Item, a \in Attr, x \in Value \cup {Same} :
             /\ Committed[i] # Gone /\ AllSeen[v][i] # Gone
             /\ AllSeen' = [AllSeen EXCEPT ![v][i][a] = x]
        /\ UNCHANGED <<Committed, AllUnseen>>
  BY Zenon DEF Abstract!Change, Abstract!Live, Committed, AllSeen, AllUnseen
<1>2. Abstract!Delete(v) <=>
        /\ \E i \in Item : Committed[i] # Gone /\ AllSeen' = [AllSeen EXCEPT ![v][i] = Gone]
        /\ UNCHANGED <<Committed, AllUnseen>>
  BY Zenon DEF Abstract!Delete, Abstract!Live, Committed, AllSeen, AllUnseen
<1>3. Abstract!Cancel(v) <=>
        /\ AllSeen' = [AllSeen EXCEPT ![v] = [i \in Item |-> [a \in Attr |-> Same]]]
        /\ UNCHANGED <<Committed, AllUnseen>>
  BY Zenon DEF Abstract!Cancel, Abstract!NoChange, Committed, AllSeen, AllUnseen
<1> QED
  BY <1>1, <1>2, <1>3

LEMMA AbstractInit == Init => Abstract!Init
<1> SUFFICES ASSUME Init PROVE Abstract!Init
  OBVIOUS
<1>1. PICK content \in [Item -> [Attr -> Value]] :
        history = <<[content |-> content, saved |-> Item, written |-> [i \in Item |-> Attr]]>>
  BY DEF Init
<1>2. Newest = 1 /\ Len(history) = 1 /\ history[1].content = content
  BY <1>1 DEF Newest
<1>3. Committed = content
  BY <1>2 DEF Committed
<1>4. \A v \in View : view[v] = Fresh(1)
  BY DEF Init
<1>5. AllSeen = [v \in View |-> [i \in Item |-> [a \in Attr |-> Same]]]
  <2>1. \A v \in View, i \in Item : SeenAs(history, v, view[v], i) = [a \in Attr |-> Same]
    BY <1>2, <1>4 DEF SeenAs, Fresh, NoChanges
  <2> QED
    BY <2>1, AbstractState
<1>6. AllUnseen = [v \in View |-> {}]
  <2>1. \A v \in View : UnseenAs(history, view[v]) = {}
    <3>1. Fresh(1).version = 1
      BY DEF Fresh
    <3>2. 1 + 1 .. 1 = {}
      OBVIOUS
    <3>3. UnseenAs(history, Fresh(1)) = {}
      BY <1>2, <3>1, <3>2 DEF UnseenAs
    <3> QED
      BY <1>4, <3>3
  <2> QED
    BY <2>1, AbstractState
<1> QED
  BY <1>3, <1>5, <1>6 DEF Abstract!Init, Abstract!NoChange, Committed, AllSeen, AllUnseen

(* A step in view v that leaves the store alone.                           *)
LEMMA SeenStep ==
  ASSUME TypeOK, NEW v \in View, NEW w, view' = [view EXCEPT ![v] = w], UNCHANGED history
  PROVE  /\ Committed' = Committed
         /\ AllSeen' = [AllSeen EXCEPT ![v] = [i \in Item |-> SeenAs(history, v, w, i)]]
         /\ AllUnseen' = [AllUnseen EXCEPT ![v] = UnseenAs(history, w)]
<1>1. \A u \in View : view'[u] = IF u = v THEN w ELSE view[u]
  BY DEF TypeOK
<1>2. AllSeen' = [AllSeen EXCEPT ![v] = [i \in Item |-> SeenAs(history, v, w, i)]]
  <2>1. AllSeen' = [u \in View |-> [i \in Item |-> SeenAs(history, u, IF u = v THEN w ELSE view[u], i)]]
    BY <1>1, AbstractState
  <2> QED
    BY <2>1, AbstractState
<1>3. AllUnseen' = [AllUnseen EXCEPT ![v] = UnseenAs(history, w)]
  <2>1. AllUnseen' = [u \in View |-> UnseenAs(history, IF u = v THEN w ELSE view[u])]
    BY <1>1, AbstractState
  <2> QED
    BY <2>1, AbstractState
<1> QED
  BY <1>2, <1>3, AbstractState

LEMMA UnseenSame ==
  ASSUME NEW w, NEW d, w.version = d.version
  PROVE  UnseenAs(history, w) = UnseenAs(history, d)
  BY DEF UnseenAs

(* It is no step of the abstract view when it leaves version and changes as *)
(* they are and only moves items among the deleted, deferred ones or those  *)
(* that are gone anyway.                                                   *)
LEMMA SeenStutter ==
  ASSUME TypeOK, NEW v \in View, NEW w, view' = [view EXCEPT ![v] = w], UNCHANGED history,
         w.version = view[v].version,
         \A i \in Item : SeenAs(history, v, w, i) = SeenAs(history, v, view[v], i)
  PROVE  UNCHANGED Abstract!vars
<1>1. AllSeen' = AllSeen /\ AllUnseen' = AllUnseen /\ Committed' = Committed
  <2>1. UnseenAs(history, w) = AllUnseen[v]
    BY UnseenSame, AbstractState
  <2>2. [i \in Item |-> SeenAs(history, v, w, i)] = AllSeen[v]
    <3>1. AllSeen[v] = [i \in Item |-> SeenAs(history, v, view[v], i)]
      BY AbstractState
    <3> QED
      BY <3>1
  <2>a. /\ Committed' = Committed
        /\ AllSeen' = [AllSeen EXCEPT ![v] = [i \in Item |-> SeenAs(history, v, w, i)]]
        /\ AllUnseen' = [AllUnseen EXCEPT ![v] = UnseenAs(history, w)]
    BY SeenStep
  <2>3. /\ AllSeen' = [AllSeen EXCEPT ![v] = AllSeen[v]]
        /\ AllUnseen' = [AllUnseen EXCEPT ![v] = AllUnseen[v]]
        /\ Committed' = Committed
    BY <2>1, <2>2, <2>a
  <2>4. AllSeen = [u \in View |-> AllSeen[u]] /\ AllUnseen = [u \in View |-> AllUnseen[u]]
    BY AbstractState
  <2> QED
    BY <2>3, <2>4
<1> QED
  BY <1>1, AbstractStutter

LEMMA ChangeRefines ==
  ASSUME TypeOK, NEW v \in View, Change(v)
  PROVE  Abstract!Change(v) \/ UNCHANGED Abstract!vars
<1>1. PICK i \in Item, a \in Attr, x \in Value :
        /\ Usable(view[v], i)
        /\ view' = [view EXCEPT ![v].changes[i][a] = x, ![v].log = @ \cup {i}]
  BY DEF Change
<1> DEFINE changes == [view[v].changes EXCEPT ![i][a] = x]
           w == [view[v] EXCEPT !.changes = changes, !.log = @ \cup {i}]
           y == IF v \notin ThisWins /\ x = history[view[v].version].content[i][a] THEN Same ELSE x
<1>2. view' = [view EXCEPT ![v] = w] /\ UNCHANGED history
  BY <1>1 DEF Change
<1>3. view[v] \in ViewRecord(Newest) /\ Newest = Len(history)
  BY Parts DEF Newest
<1>4. /\ \A j \in Item \ {i} : changes[j] = view[v].changes[j]
      /\ changes[i] = [view[v].changes[i] EXCEPT ![a] = x]
      /\ view[v].changes[i] \in [Attr -> Value \cup {Same}]
  BY <1>3 DEF ViewRecord
<1> HIDE DEF changes
<1>5. /\ w.version = view[v].version /\ w.changes = changes
      /\ w.deferred = view[v].deferred /\ w.deleted = view[v].deleted
  BY <1>3 DEF ViewRecord
<1> HIDE DEF w
<1>6. \A j \in Item \ {i} : SeenAs(history, v, w, j) = SeenAs(history, v, view[v], j)
  BY <1>4, <1>5 DEF SeenAs
<1>7. CASE Committed[i] = Gone
  <2>1. SeenAs(history, v, w, i) = SeenAs(history, v, view[v], i)
    BY <1>7, AbstractState DEF SeenAs
  <2>2. \A j \in Item : SeenAs(history, v, w, j) = SeenAs(history, v, view[v], j)
    BY <1>6, <2>1
  <2>3. w.version = view[v].version /\ view' = [view EXCEPT ![v] = w] /\ UNCHANGED history
    BY <1>2, <1>5
  <2> HIDE DEF y
  <2> QED
    BY <2>2, <2>3, SeenStutter
<1>8. CASE Committed[i] # Gone
  <2> DEFINE old == [b \in Attr |-> IF v \notin ThisWins
                                       /\ view[v].changes[i][b] = history[view[v].version].content[i][b]
                                    THEN Same ELSE view[v].changes[i][b]]
  <2>1. SeenAs(history, v, view[v], i) = old
    BY <1>1, <1>8, AbstractState DEF SeenAs, Usable
  <2>2. old \in [Attr -> Value \cup {Same}]
    BY <1>4
  <2>3. SeenAs(history, v, w, i) =
          [b \in Attr |-> IF v \notin ThisWins
                             /\ changes[i][b] = history[view[v].version].content[i][b]
                          THEN Same ELSE changes[i][b]]
    BY <1>1, <1>5, <1>8, AbstractState DEF SeenAs, Usable
  <2>4. SeenAs(history, v, w, i) = [old EXCEPT ![a] = y]
    <3>1. \A b \in Attr : changes[i][b] = IF b = a THEN x ELSE view[v].changes[i][b]
      BY <1>4
    <3> QED
      BY <2>3, <3>1
  <2> HIDE DEF old, y
  <2>5. AllSeen[v][i] # Gone
    BY <2>1, <2>2, AbstractState, RepositoryViewsAssumption
  <2>6. AllSeen' = [AllSeen EXCEPT ![v][i][a] = y]
    <3>1. AllSeen[v] = [j \in Item |-> SeenAs(history, v, view[v], j)]
      BY AbstractState
    <3>2. [j \in Item |-> SeenAs(history, v, w, j)] = [AllSeen[v] EXCEPT ![i] = [old EXCEPT ![a] = y]]
      BY <1>6, <2>4, <3>1
    <3>3. AllSeen' = [AllSeen EXCEPT ![v] = [AllSeen[v] EXCEPT ![i] = [old EXCEPT ![a] = y]]]
      BY <1>2, <3>2, SeenStep
    <3>4. AllSeen[v][i] = old
      BY <2>1, <3>1
    <3> QED
      BY <3>3, <3>4
  <2>7. Committed' = Committed /\ AllUnseen' = AllUnseen
    <3>1. UnseenAs(history, w) = AllUnseen[v]
      BY <1>5, UnseenSame, AbstractState
    <3>2. AllUnseen' = [AllUnseen EXCEPT ![v] = AllUnseen[v]] /\ Committed' = Committed
      BY <1>2, <3>1, SeenStep
    <3> QED
      BY <3>2, AbstractState
  <2>8. y \in Value \cup {Same}
    BY DEF y
  <2> QED
    BY <1>8, <2>5, <2>6, <2>7, <2>8, AbstractActions
<1> QED
  BY <1>7, <1>8

LEMMA DeleteRefines ==
  ASSUME TypeOK, NEW v \in View, Delete(v)
  PROVE  Abstract!Delete(v) \/ UNCHANGED Abstract!vars
<1>1. PICK i \in Item :
        /\ Usable(view[v], i)
        /\ view' = IF v \in Defers
                   THEN [view EXCEPT ![v].deferred = @ \cup {i}, ![v].log = @ \cup {i}]
                   ELSE [view EXCEPT ![v] = Deleted(@, {i})]
  BY DEF Delete
<1> DEFINE w == IF v \in Defers
                THEN [view[v] EXCEPT !.deferred = @ \cup {i}, !.log = @ \cup {i}]
                ELSE Deleted(view[v], {i})
<1>2. view[v] \in ViewRecord(Newest) /\ view \in [View -> ViewRecord(Newest)]
  BY Parts, TypeByView DEF Newest
<1>3. view' = [view EXCEPT ![v] = w] /\ UNCHANGED history
  BY <1>1, <1>2 DEF Delete, ViewRecord
<1>4. /\ w.version = view[v].version
      /\ \A j \in Item \ {i} : /\ w.changes[j] = view[v].changes[j]
                               /\ j \in w.deferred \cup w.deleted <=> j \in view[v].deferred \cup view[v].deleted
      /\ i \in w.deferred \cup w.deleted
  <2>1. CASE v \in Defers
    BY <1>2, <2>1 DEF ViewRecord
  <2>2. CASE v \notin Defers
    BY <1>2, <2>2 DEF ViewRecord, Deleted
  <2> QED
    BY <2>1, <2>2
<1> HIDE DEF w
<1>5. \A j \in Item \ {i} : SeenAs(history, v, w, j) = SeenAs(history, v, view[v], j)
  BY <1>4 DEF SeenAs
<1>6. CASE Committed[i] = Gone
  <2>1. SeenAs(history, v, w, i) = SeenAs(history, v, view[v], i)
    BY <1>6, AbstractState DEF SeenAs
  <2>2. \A j \in Item : SeenAs(history, v, w, j) = SeenAs(history, v, view[v], j)
    BY <1>5, <2>1
  <2> QED
    BY <1>3, <1>4, <2>2, SeenStutter
<1>7. CASE Committed[i] # Gone
  <2>1. SeenAs(history, v, w, i) = Gone
    BY <1>4, <1>7, AbstractState DEF SeenAs
  <2>2. AllSeen[v] = [j \in Item |-> SeenAs(history, v, view[v], j)]
    BY AbstractState
  <2>3. [j \in Item |-> SeenAs(history, v, w, j)] = [AllSeen[v] EXCEPT ![i] = Gone]
    BY <1>5, <2>1, <2>2
  <2>4. AllSeen' = [AllSeen EXCEPT ![v][i] = Gone]
    BY <1>3, <2>3, SeenStep
  <2>5. Committed' = Committed /\ AllUnseen' = AllUnseen
    <3>1. UnseenAs(history, w) = AllUnseen[v]
      BY <1>4, UnseenSame, AbstractState
    <3>2. AllUnseen' = [AllUnseen EXCEPT ![v] = AllUnseen[v]] /\ Committed' = Committed
      BY <1>3, <3>1, SeenStep
    <3> QED
      BY <3>2, AbstractState
  <2> QED
    BY <1>7, <2>4, <2>5, AbstractActions
<1> QED
  BY <1>6, <1>7

LEMMA CancelRefines ==
  ASSUME TypeOK, NEW v \in View, Cancel(v)
  PROVE  Abstract!Cancel(v)
<1> DEFINE w == Fresh(view[v].version)
<1>1. view' = [view EXCEPT ![v] = w] /\ UNCHANGED history
  BY DEF Cancel
<1>2. w.version = view[v].version /\ w.deferred = {} /\ w.deleted = {} /\ w.changes = NoChanges
  BY DEF Fresh
<1> HIDE DEF w
<1>3. \A i \in Item : SeenAs(history, v, w, i) = [a \in Attr |-> Same]
  BY <1>2 DEF SeenAs, NoChanges
<1>4. AllSeen' = [AllSeen EXCEPT ![v] = [i \in Item |-> [a \in Attr |-> Same]]]
  <2>1. [i \in Item |-> SeenAs(history, v, w, i)] = [i \in Item |-> [a \in Attr |-> Same]]
    BY <1>3
  <2>2. AllSeen' = [AllSeen EXCEPT ![v] = [i \in Item |-> SeenAs(history, v, w, i)]]
    BY <1>1, SeenStep
  <2> QED
    BY <2>1, <2>2
<1>5. Committed' = Committed /\ AllUnseen' = AllUnseen
  <2>1. UnseenAs(history, w) = AllUnseen[v]
    BY <1>2, UnseenSame, AbstractState
  <2>2. AllUnseen' = [AllUnseen EXCEPT ![v] = AllUnseen[v]] /\ Committed' = Committed
    BY <1>1, <2>1, SeenStep
  <2> QED
    BY <2>2, AbstractState
<1> QED
  BY <1>4, <1>5, AbstractActions

(* Beginning a commit, taking the lock and giving the transaction up show   *)
(* the others nothing.                                                     *)
LEMMA QuietSteps ==
  ASSUME TypeOK, NEW v \in View, Begin(v) \/ Lock(v) \/ Abort(v)
  PROVE  UNCHANGED Abstract!vars
<1>1. view[v] \in ViewRecord(Newest) /\ view \in [View -> ViewRecord(Newest)]
  BY Parts, TypeByView DEF Newest
<1>2. CASE Begin(v) \/ Abort(v)
  <2>1. PICK phase, aborted :
          view' = [view EXCEPT ![v] = [view[v] EXCEPT !.phase = phase, !.aborted = aborted]]
    <3>1. CASE Begin(v)
      <4>1. view' = [view EXCEPT ![v] = [view[v] EXCEPT !.phase = "commit", !.aborted = view[v].aborted]]
        BY <1>1, <3>1 DEF Begin, ViewRecord
      <4> QED
        BY <4>1
    <3>2. CASE Abort(v)
      <4>1. PICK phase \in {"commit", "idle"} :
              view' = [view EXCEPT ![v].phase = phase, ![v].aborted = TRUE]
        BY <3>2 DEF Abort
      <4>2. view' = [view EXCEPT ![v] = [view[v] EXCEPT !.phase = phase, !.aborted = TRUE]]
        BY <1>1, <4>1 DEF ViewRecord
      <4> QED
        BY <4>2
    <3> QED
      BY <1>2, <3>1, <3>2
  <2> DEFINE w == [view[v] EXCEPT !.phase = phase, !.aborted = aborted]
  <2>2. /\ w.version = view[v].version /\ w.changes = view[v].changes
        /\ w.deferred = view[v].deferred /\ w.deleted = view[v].deleted
    BY <1>1 DEF ViewRecord
  <2>3. view' = [view EXCEPT ![v] = w] /\ UNCHANGED history
    BY <1>2, <2>1 DEF Begin, Abort
  <2> HIDE DEF w
  <2>4. \A i \in Item : SeenAs(history, v, w, i) = SeenAs(history, v, view[v], i)
    BY <2>2 DEF SeenAs
  <2> QED
    BY <2>2, <2>3, <2>4, SeenStutter
<1>3. CASE Lock(v)
  <2> DEFINE d == Deleted(view[v], view[v].deferred)
             w == [d EXCEPT !.phase = "write"]
  <2>1. d.version = view[v].version /\ d.deferred \cup d.deleted = view[v].deferred \cup view[v].deleted
        /\ \A i \in Item \ view[v].deferred : d.changes[i] = view[v].changes[i]
    BY <1>1 DEF ViewRecord, Deleted
  <2>2. d \in ViewRecord(Newest)
    BY <1>1, DeletedOK, Parts DEF ViewRecord
  <2>3. view' = [view EXCEPT ![v] = w] /\ UNCHANGED history
    BY <1>3 DEF Lock
  <2> HIDE DEF d
  <2>4. w.version = d.version /\ w.changes = d.changes /\ w.deferred = d.deferred /\ w.deleted = d.deleted
    BY <2>2 DEF ViewRecord
  <2> HIDE DEF w
  <2>5. \A i \in Item : SeenAs(history, v, w, i) = SeenAs(history, v, view[v], i)
    BY <2>1, <2>4 DEF SeenAs
  <2>6. w.version = view[v].version
    BY <2>1, <2>4
  <2> QED
    BY <2>3, <2>5, <2>6, SeenStutter
<1> QED
  BY <1>2, <1>3
-----------------------------------------------------------------------------
(* A refresh is a Look.                                                    *)

LEMMA AbstractLook ==
  ASSUME NEW v \in View
  PROVE  Abstract!Look(v) <=>
           /\ AllUnseen'[v] \subseteq AllUnseen[v]
           /\ \A w \in View \ {v} : AllUnseen'[w] = AllUnseen[w] /\ AllSeen'[w] = AllSeen[w]
           /\ DOMAIN AllSeen'[v] = Item
           /\ \A i \in Item :
                IF AllSeen[v][i] = Gone THEN AllSeen'[v][i] = Gone
                ELSE \A a \in Attr :
                  \/ /\ AllSeen'[v][i][a] = AllSeen[v][i][a]
                     /\ AllSeen[v][i] # Gone /\ AllSeen[v][i][a] # Same /\ v \notin ThisWins =>
                          \A x \in Value : <<i, a, x>> \in AllUnseen[v] => <<i, a, x>> \in AllUnseen'[v]
                  \/ /\ AllSeen'[v][i][a] = Same
                     /\ \/ AllSeen[v][i][a] = Committed[i][a]
                        \/ \E x \in Value : /\ <<i, a, x>> \in AllUnseen[v]
                                            /\ v \in ThisWins => x = AllSeen[v][i][a]
           /\ UNCHANGED Committed
  BY Zenon DEF Abstract!Look, Abstract!Pending, Abstract!MayGiveUp, Committed, AllSeen, AllUnseen

LEMMA RefreshedFields ==
  ASSUME TypeOK, NEW v \in View, view[v].version < Newest
  PROVE  /\ Refreshed(v).version = Target(v)
         /\ Refreshed(v).deleted = view[v].deleted
         /\ Refreshed(v).deferred = view[v].deferred \ DeletedThere(v)
         /\ \A i \in Item :
              Refreshed(v).changes[i] =
                IF i \in DeletedThere(v) THEN NoChanges[i]
                ELSE IF i \in view[v].log \cap Touched(v) THEN MergedItem(v, i)
                ELSE view[v].changes[i]
<1> DEFINE d == Deleted(view[v], DeletedThere(v))
<1>1. view[v] \in ViewRecord(Newest)
  BY Parts
<1>2. DeletedThere(v) \subseteq Item
  BY <1>1 DEF DeletedThere, ViewRecord
<1>3. d \in ViewRecord(Newest)
  BY <1>1, <1>2, DeletedOK, Parts
<1>4. /\ d.log = view[v].log \ DeletedThere(v)
      /\ d.deferred = view[v].deferred \ DeletedThere(v)
      /\ \A i \in Item : d.changes[i] = IF i \in DeletedThere(v) THEN NoChanges[i] ELSE view[v].changes[i]
  BY <1>1 DEF ViewRecord, Deleted
<1>5. Refreshed(v) =
        [d EXCEPT !.version = Target(v), !.deleted = view[v].deleted,
                  !.changes = [i \in Item |-> IF i \in d.log \cap Touched(v)
                                              THEN MergedItem(v, i) ELSE d.changes[i]]]
  BY DEF Refreshed
<1> HIDE DEF d
<1> DEFINE c == [i \in Item |-> IF i \in d.log \cap Touched(v) THEN MergedItem(v, i) ELSE d.changes[i]]
<1>6. /\ Refreshed(v).version = Target(v) /\ Refreshed(v).deleted = view[v].deleted
      /\ Refreshed(v).deferred = d.deferred /\ Refreshed(v).changes = c
  BY <1>3, <1>5 DEF ViewRecord
<1>7. \A i \in Item : c[i] = IF i \in d.log \cap Touched(v) THEN MergedItem(v, i) ELSE d.changes[i]
  OBVIOUS
<1> HIDE DEF c
<1> QED
  BY <1>4, <1>6, <1>7

(* What a refresh does to item i, as the abstract view sees it: each of its *)
(* changes stays, or is given up for a reason that Look allows.            *)
LEMMA LookAtItem ==
  ASSUME CommitInv, NEW v \in View, view[v].version < Newest, NEW i \in Item,
         NEW old, old = SeenAs(history, v, view[v], i),
         NEW new, new = SeenAs(history, v, Refreshed(v), i),
         NEW u, u = UnseenAs(history, view[v]),
         NEW t, t = UnseenAs(history, Refreshed(v))
  PROVE  IF old = Gone THEN new = Gone
         ELSE \A a \in Attr :
           \/ /\ new[a] = old[a]
              /\ old # Gone /\ old[a] # Same /\ v \notin ThisWins =>
                   \A x \in Value : <<i, a, x>> \in u => <<i, a, x>> \in t
           \/ /\ new[a] = Same
              /\ \/ old[a] = Committed[i][a]
                 \/ \E x \in Value : <<i, a, x>> \in u /\ (v \in ThisWins => x = old[a])
<1> DEFINE V == view[v].version
           T == Target(v)
           c == view[v].changes[i]
           d == Refreshed(v).changes[i]
<1>1. TypeOK /\ GoneForGood /\ SavedIfWritten /\ ChangesAreWritten
  BY DEF CommitInv, DeletesInv
<1>2. /\ view[v] \in ViewRecord(Newest) /\ Sound(view[v], history)
      /\ Newest \in Nat /\ V \in 1..Newest /\ Newest \in 1..Newest /\ Newest = Len(history)
      /\ \A n \in 1..Newest, j \in Item :
           Held(n, j) \in [Attr -> Value] \/ Held(n, j) = Gone
  BY <1>1, Parts DEF Newest
<1>3. T \in 1..Newest /\ V < T
  BY <1>1, <1>2, RefreshedOK DEF Target
<1>4. /\ Refreshed(v).version = T
      /\ Refreshed(v).deleted = view[v].deleted
      /\ Refreshed(v).deferred = view[v].deferred \ DeletedThere(v)
      /\ d = IF i \in DeletedThere(v) THEN NoChanges[i]
             ELSE IF i \in view[v].log \cap Touched(v) THEN MergedItem(v, i)
             ELSE view[v].changes[i]
  BY <1>1, RefreshedFields
<1>5. CASE Held(Newest, i) = Gone
  <2>1. old = [a \in Attr |-> Same] /\ new = old
    BY <1>2, <1>5 DEF SeenAs, Held
  <2>2. old # Gone
    <3>1. [a \in Attr |-> Same] \in [Attr -> Value \cup {Same}]
      OBVIOUS
    <3> QED
      BY <2>1, <3>1, RepositoryViewsAssumption
  <2> QED
    BY <2>1, <2>2
<1>6. CASE Held(Newest, i) # Gone
  <2>1. \A n \in 1..Newest : Held(n, i) # Gone /\ Held(n, i) \in [Attr -> Value]
    BY <1>1, <1>2, <1>6 DEF GoneForGood
  <2>2. i \notin DeletedThere(v)
    BY <1>3, <2>1 DEF DeletedThere
  <2>3. CASE i \in view[v].deferred \cup view[v].deleted
    <3>1. old = Gone /\ new = Gone
      BY <1>2, <1>4, <1>6, <2>2, <2>3 DEF SeenAs, Held
    <3> QED
      BY <3>1
  <2>4. CASE i \notin view[v].deferred \cup view[v].deleted
    <3>1. /\ old = [a \in Attr |-> IF v \notin ThisWins /\ c[a] = Held(V, i)[a] THEN Same ELSE c[a]]
          /\ new = [a \in Attr |-> IF v \notin ThisWins /\ d[a] = Held(T, i)[a] THEN Same ELSE d[a]]
      BY <1>2, <1>4, <1>6, <2>4 DEF SeenAs, Held
    <3>2. c \in [Attr -> Value \cup {Same}]
      BY <1>2 DEF ViewRecord
    <3>3. old \in [Attr -> Value \cup {Same}]
      BY <3>1, <3>2
    <3>4. old # Gone
      BY <3>3, RepositoryViewsAssumption
    <3>5. ASSUME NEW a \in Attr
          PROVE  \/ /\ new[a] = old[a]
                    /\ old[a] # Same /\ v \notin ThisWins =>
                         \A x \in Value : <<i, a, x>> \in u => <<i, a, x>> \in t
                 \/ /\ new[a] = Same
                    /\ \/ old[a] = Committed[i][a]
                       \/ \E x \in Value : <<i, a, x>> \in u /\ (v \in ThisWins => x = old[a])
      <4> DEFINE b == Held(V, i)[a]
                 e == Held(T, i)[a]
                 written == \E n \in V + 1 .. T : a \in history[n].written[i]
      <4>1. /\ old[a] = IF v \notin ThisWins /\ c[a] = b THEN Same ELSE c[a]
            /\ new[a] = IF v \notin ThisWins /\ d[a] = e THEN Same ELSE d[a]
        BY <3>1
      <4>2. b \in Value /\ e \in Value /\ Same \notin Value /\ c[a] \in Value \cup {Same}
        BY <1>2, <1>3, <2>1, <3>2, RepositoryViewsAssumption
      <4>3. written <=> a \in Written(v, i)
        BY DEF Written, Ahead
      <4>4. \A x \in Value : <<i, a, x>> \in u <=>
              \E n \in V + 1 .. Newest : a \in history[n].written[i]
                                         /\ (x = Held(n, i)[a] \/ x = Held(n - 1, i)[a])
        BY <1>2, <1>6 DEF UnseenAs, Held
      <4>5. \A x \in Value : <<i, a, x>> \in t <=>
              \E n \in T + 1 .. Newest : a \in history[n].written[i]
                                         /\ (x = Held(n, i)[a] \/ x = Held(n - 1, i)[a])
        BY <1>2, <1>4, <1>6 DEF UnseenAs, Held
      <4>6. ~written => \A x \in Value : <<i, a, x>> \in u => <<i, a, x>> \in t
        BY <1>2, <1>3, <4>4, <4>5
      <4>7. ~written => b = e
        BY <1>1, <1>2, <1>3, <2>1 DEF ChangesAreWritten, Writes
      <4>8. b # e => <<i, a, e>> \in u
        <5>1. b # e => Writes(V, T, i, a, e)
          BY <1>1, <1>2, <1>3, <2>1 DEF ChangesAreWritten
        <5>2. \A n \in V + 1 .. T : n \in V + 1 .. Newest
          BY <1>2, <1>3
        <5> QED
          BY <4>2, <4>4, <5>1, <5>2 DEF Writes
      <4>9. b # Held(Newest, i)[a] => <<i, a, b>> \in u
        <5>1. b # Held(Newest, i)[a] => Replaces(V, Newest, i, a, b)
          BY <1>1, <1>2, <1>6 DEF ChangesAreWritten
        <5> QED
          BY <4>2, <4>4, <5>1 DEF Replaces
      <4>10. written => \E x \in Value : <<i, a, x>> \in u
        <5>1. ASSUME NEW n \in V + 1 .. T, a \in history[n].written[i]
              PROVE  \E x \in Value : <<i, a, x>> \in u
          <6>1. n \in V + 1 .. Newest /\ n \in 1..Newest
            BY <1>2, <1>3
          <6>2. Held(n, i)[a] \in Value
            BY <2>1, <6>1
          <6> QED
            BY <4>4, <5>1, <6>1, <6>2
        <5> QED
          BY <5>1
      <4>11. Held(Newest, i)[a] = Committed[i][a]
        BY DEF Held, Committed
      <4>12. i \notin view[v].log => c[a] = Same
        BY <1>2 DEF Sound, NoChanges
      <4>13. i \notin Touched(v) => ~written
        <5>1. ASSUME i \notin Touched(v), NEW n \in V + 1 .. T PROVE a \notin history[n].written[i]
          <6>1. n \in 1..Newest
            BY <1>2, <1>3
          <6>2. i \notin history[n].saved
            BY <5>1 DEF Touched, Ahead
          <6> QED
            BY <1>1, <6>1, <6>2 DEF SavedIfWritten
        <5> QED
          BY <5>1
      <4>14. i \in view[v].log \cap Touched(v) =>
               d[a] = IF c[a] \in {Same, e} THEN Same
                      ELSE IF written /\ v \notin ThisWins THEN e ELSE c[a]
        BY <1>4, <2>2, <4>3 DEF MergedItem
      <4>15. i \notin view[v].log \cap Touched(v) => d[a] = c[a]
        BY <1>4, <2>2
      <4> HIDE DEF b, e, written, V, T, c, d
      <4>16. CASE c[a] = Same
        BY <4>1, <4>2, <4>14, <4>15, <4>16
      <4>17. CASE c[a] # Same /\ i \notin Touched(v)
        BY <4>1, <4>6, <4>7, <4>13, <4>15, <4>17
      <4>18. CASE c[a] # Same /\ i \in view[v].log \cap Touched(v)
        <5>1. CASE c[a] = e
          <6>1. new[a] = Same
            BY <4>1, <4>2, <4>14, <4>18, <5>1
          <6>2. CASE v \notin ThisWins /\ c[a] = b
            BY <4>1, <6>1, <6>2
          <6>3. CASE ~(v \notin ThisWins /\ c[a] = b)
            <7>1. old[a] = c[a] /\ c[a] \in Value
              BY <4>1, <4>2, <4>18, <6>3
            <7> QED
              BY <4>8, <4>9, <4>11, <5>1, <6>1, <7>1
          <6> QED
            BY <6>2, <6>3
        <5>2. CASE c[a] # e /\ written /\ v \notin ThisWins
          BY <4>1, <4>2, <4>10, <4>14, <4>18, <5>2
        <5>3. CASE c[a] # e /\ ~(written /\ v \notin ThisWins)
          BY <4>1, <4>2, <4>6, <4>7, <4>14, <4>18, <5>3
        <5> QED
          BY <5>1, <5>2, <5>3
      <4> QED
        BY <4>12, <4>16, <4>17, <4>18
    <3> QED
      BY <3>4, <3>5
  <2> QED
    BY <2>3, <2>4
<1> QED
  BY <1>5, <1>6

LEMMA RefreshRefines ==
  ASSUME CommitInv, NEW v \in View, RefreshForwards(v)
  PROVE  Abstract!Look(v) \/ UNCHANGED Abstract!vars
<1>1. TypeOK /\ GoneForGood
  BY DEF CommitInv, DeletesInv
<1>2. view[v] \in ViewRecord(Newest) /\ Newest \in Nat /\ Newest = Len(history)
  BY <1>1, Parts DEF Newest
<1>3. UNCHANGED history /\ view[v].version < Newest
  BY DEF RefreshForwards
<1>4. Target(v) \in 1..Newest
  BY <1>1, <1>3, RefreshedOK
<1>5. CASE view' = [view EXCEPT ![v] = [view[v] EXCEPT !.phase = "idle"]]
  <2> DEFINE w == [view[v] EXCEPT !.phase = "idle"]
  <2>1. /\ w.version = view[v].version /\ w.changes = view[v].changes
        /\ w.deferred = view[v].deferred /\ w.deleted = view[v].deleted
    BY <1>2 DEF ViewRecord
  <2>2. view' = [view EXCEPT ![v] = w]
    BY <1>5
  <2> HIDE DEF w
  <2>3. \A i \in Item : SeenAs(history, v, w, i) = SeenAs(history, v, view[v], i)
    BY <2>1 DEF SeenAs
  <2> QED
    BY <1>1, <1>3, <2>1, <2>2, <2>3, SeenStutter
<1>6. CASE view' = [view EXCEPT ![v] = [Deleted(view[v], DeletedThere(v)) EXCEPT !.phase = "idle"]]
  <2> DEFINE d == Deleted(view[v], DeletedThere(v))
             w == [d EXCEPT !.phase = "idle"]
  <2>1. DeletedThere(v) \in SUBSET Item
    BY <1>2 DEF DeletedThere, ViewRecord
  <2>2. d \in ViewRecord(Newest)
    BY <1>1, <1>2, <2>1, DeletedOK, Parts
  <2>3. /\ d.version = view[v].version
        /\ \A i \in Item \ DeletedThere(v) :
             /\ d.changes[i] = view[v].changes[i]
             /\ i \in d.deferred \cup d.deleted <=> i \in view[v].deferred \cup view[v].deleted
    BY <1>2 DEF Deleted, ViewRecord
  <2>4. view' = [view EXCEPT ![v] = w]
    BY <1>6
  <2> HIDE DEF d
  <2>5. /\ w.version = d.version /\ w.changes = d.changes
        /\ w.deferred = d.deferred /\ w.deleted = d.deleted
    BY <2>2 DEF ViewRecord
  <2> HIDE DEF w
  <2>6. \A i \in DeletedThere(v) : history[Len(history)].content[i] = Gone
    <3>1. \A i \in DeletedThere(v) : i \in Item /\ Held(Target(v), i) = Gone
      BY <2>1 DEF DeletedThere
    <3>2. Newest \in 1..Newest /\ Target(v) <= Newest
      BY <1>2, <1>4
    <3> QED
      BY <1>1, <1>2, <1>4, <3>1, <3>2 DEF GoneForGood, Held
  <2>7. ASSUME NEW i \in Item PROVE SeenAs(history, v, w, i) = SeenAs(history, v, view[v], i)
    <3>1. CASE i \in DeletedThere(v)
      BY <2>6, <3>1 DEF SeenAs
    <3>2. CASE i \notin DeletedThere(v)
      BY <2>3, <2>5, <3>2 DEF SeenAs
    <3> QED
      BY <3>1, <3>2
  <2>8. w.version = view[v].version
    BY <2>3, <2>5
  <2> QED
    BY <1>1, <1>3, <2>4, <2>7, <2>8, SeenStutter
<1>7. CASE view' = [view EXCEPT ![v] = Refreshed(v)]
  <2>1. /\ Committed' = Committed
        /\ AllSeen' = [AllSeen EXCEPT ![v] = [i \in Item |-> SeenAs(history, v, Refreshed(v), i)]]
        /\ AllUnseen' = [AllUnseen EXCEPT ![v] = UnseenAs(history, Refreshed(v))]
    BY <1>1, <1>3, <1>7, SeenStep
  <2>2. /\ AllSeen = [u \in View |-> [i \in Item |-> SeenAs(history, u, view[u], i)]]
        /\ AllUnseen = [u \in View |-> UnseenAs(history, view[u])]
    BY AbstractState
  <2>3. /\ AllUnseen'[v] = UnseenAs(history, Refreshed(v))
        /\ AllSeen'[v] = [i \in Item |-> SeenAs(history, v, Refreshed(v), i)]
        /\ \A w \in View \ {v} : AllUnseen'[w] = AllUnseen[w] /\ AllSeen'[w] = AllSeen[w]
    BY <2>1, <2>2
  <2>4. /\ AllUnseen[v] = UnseenAs(history, view[v])
        /\ \A i \in Item : AllSeen[v][i] = SeenAs(history, v, view[v], i)
    BY <2>2
  <2>5. Refreshed(v).version = Target(v) /\ view[v].version <= Target(v) /\ view[v].version \in Nat
    BY <1>1, <1>2, <1>3, RefreshedFields DEF Target, ViewRecord
  <2>6. AllUnseen'[v] \subseteq AllUnseen[v]
    <3>1. \A n \in Target(v) + 1 .. Len(history) : n \in view[v].version + 1 .. Len(history)
      BY <1>2, <1>4, <2>5
    <3> QED
      BY <2>3, <2>4, <2>5, <3>1 DEF UnseenAs
  <2>7. ASSUME NEW i \in Item
        PROVE  IF AllSeen[v][i] = Gone THEN AllSeen'[v][i] = Gone
               ELSE \A a \in Attr :
                 \/ /\ AllSeen'[v][i][a] = AllSeen[v][i][a]
                    /\ AllSeen[v][i] # Gone /\ AllSeen[v][i][a] # Same /\ v \notin ThisWins =>
                         \A x \in Value : <<i, a, x>> \in AllUnseen[v] => <<i, a, x>> \in AllUnseen'[v]
                 \/ /\ AllSeen'[v][i][a] = Same
                    /\ \/ AllSeen[v][i][a] = Committed[i][a]
                       \/ \E x \in Value : /\ <<i, a, x>> \in AllUnseen[v]
                                           /\ v \in ThisWins => x = AllSeen[v][i][a]
    <3>1. /\ AllSeen[v][i] = SeenAs(history, v, view[v], i)
          /\ AllSeen'[v][i] = SeenAs(history, v, Refreshed(v), i)
      BY <2>3, <2>4
    <3> QED
      BY <1>3, <2>3, <2>4, <3>1, LookAtItem
  <2>8. DOMAIN AllSeen'[v] = Item
    BY <2>3
  <2> HIDE DEF AllSeen, AllUnseen, Committed
  <2> QED
    BY <2>1, <2>3, <2>6, <2>7, <2>8, AbstractLook
<1> QED
  BY <1>1, <1>5, <1>6, <1>7, RefreshStep
-----------------------------------------------------------------------------
(* The write of a commit is a Commit.                                      *)

(* What AtomicCommits leaves of what has been committed when v commits.    *)
AbstractAfter(v) ==
  [i \in Item |->
     IF Committed[i] = Gone \/ AllSeen[v][i] = Gone THEN Gone
     ELSE [a \in Attr |-> IF AllSeen[v][i] # Gone /\ AllSeen[v][i][a] # Same
                          THEN AllSeen[v][i][a] ELSE Committed[i][a]]]

AbstractReplaced(v, after) ==
  {u \in Item \X Attr \X Value :
     /\ Committed[u[1]] # Gone /\ after[u[1]] # Gone
     /\ AllSeen[v][u[1]] # Gone /\ AllSeen[v][u[1]][u[2]] # Same
     /\ u[3] \in {Committed[u[1]][u[2]], after[u[1]][u[2]]}}

AbstractRewritten ==
  {u \in Item \X Attr \X Value : Committed[u[1]] # Gone /\ u[3] = Committed[u[1]][u[2]]}

LEMMA AbstractCommit ==
  ASSUME NEW v \in View, NEW after, after = AbstractAfter(v),
         AllUnseen[v] = {}, Committed' = after,
         AllSeen' = [w \in View |-> [i \in Item |->
                       IF w = v \/ after[i] = Gone THEN [a \in Attr |-> Same] ELSE AllSeen[w][i]]],
         AllUnseen'[v] = {},
         \A w \in View \ {v} :
           /\ {u \in AllUnseen[w] : after[u[1]] # Gone} \subseteq AllUnseen'[w]
           /\ AbstractReplaced(v, after) \subseteq AllUnseen'[w]
           /\ AllUnseen'[w] \subseteq {u \in AllUnseen[w] : after[u[1]] # Gone}
                                       \cup AbstractReplaced(v, after) \cup AbstractRewritten
  PROVE  Abstract!Commit(v)
<1>1. Abstract!After(v) = AbstractAfter(v)
  BY Zenon DEF Abstract!After, Abstract!Live, Abstract!Pending, AbstractAfter, Committed, AllSeen
<1>2. Abstract!Replaced(v) = AbstractReplaced(v, Abstract!After(v))
  BY Zenon DEF Abstract!Replaced, Abstract!Live, Abstract!Pending, AbstractReplaced, Committed, AllSeen
<1>3. Abstract!Rewritten = AbstractRewritten
  BY Zenon DEF Abstract!Rewritten, Abstract!Live, AbstractRewritten, Committed
<1>4. Abstract!After(v) = after
  BY <1>1
<1>5. Abstract!Replaced(v) = AbstractReplaced(v, after)
  BY <1>2, <1>4
<1> DEFINE A == Abstract!After(v)
           R == Abstract!Replaced(v)
           W == Abstract!Rewritten
<1>6. Abstract!Commit(v) <=>
        /\ AllUnseen[v] = {}
        /\ Committed' = A
        /\ AllSeen' = [w \in View |-> [i \in Item |->
                         IF w = v \/ A[i] = Gone THEN [a \in Attr |-> Same] ELSE AllSeen[w][i]]]
        /\ AllUnseen'[v] = {}
        /\ \A w \in View \ {v} :
             LET known == {u \in AllUnseen[w] : A[u[1]] # Gone}
             IN  /\ known \cup R \subseteq AllUnseen'[w]
                 /\ AllUnseen'[w] \subseteq known \cup R \cup W
  BY Zenon DEF Abstract!Commit, Abstract!NoChange, Committed, AllSeen, AllUnseen
<1>7. A = after /\ R = AbstractReplaced(v, after) /\ W = AbstractRewritten
  BY <1>3, <1>4, <1>5
<1> HIDE DEF A, R, W
<1> HIDE DEF AllUnseen, AllSeen, Committed, AbstractAfter, AbstractReplaced, AbstractRewritten
<1>8. \A w \in View \ {v} :
        LET known == {u \in AllUnseen[w] : A[u[1]] # Gone}
        IN  /\ known \cup R \subseteq AllUnseen'[w]
            /\ AllUnseen'[w] \subseteq known \cup R \cup W
  BY <1>7
<1> QED
  BY <1>6, <1>7, <1>8

LEMMA WriteRefines ==
  ASSUME CommitInv, NEW v \in View, Write(v)
  PROVE  Abstract!Commit(v) \/ UNCHANGED Abstract!vars
<1>1. TypeOK /\ GoneForGood /\ WritesNewest /\ NothingDeferred
  BY DEF CommitInv, DeletesInv
<1> DEFINE w == view[v]
           C == Committed
           N == Newest + 1
           new == NewVersion(w)
           D == new.content
<1>2. /\ w \in ViewRecord(Newest) /\ Sound(w, history)
      /\ Newest \in Nat /\ Newest \in 1..Newest /\ Newest = Len(history)
      /\ \A n \in 1..Newest, i \in Item :
           Held(n, i) \in [Attr -> Value] \/ Held(n, i) = Gone
  BY <1>1, Parts DEF Newest
<1>3. w.version = Newest /\ w.deferred = {} /\ w.phase = "write"
  BY <1>1 DEF Write, WritesNewest, NothingDeferred
<1>4. C = history[Newest].content /\ \A i \in Item : C[i] = Held(Newest, i)
  BY DEF Committed, Held
<1>5. view' = [view EXCEPT ![v] = Fresh(Len(history'))]
  BY DEF Write
<1>6. /\ Committed = history[Len(history)].content
      /\ AllSeen = [u \in View |-> [i \in Item |-> SeenAs(history, u, view[u], i)]]
      /\ AllUnseen = [u \in View |-> UnseenAs(history, view[u])]
      /\ Committed' = history'[Len(history')].content
      /\ AllSeen' = [u \in View |-> [i \in Item |-> SeenAs(history', u, view'[u], i)]]
      /\ AllUnseen' = [u \in View |-> UnseenAs(history', view'[u])]
  BY AbstractState
<1>7. CASE w.log \cup w.deleted = {}
  <2>1. history' = history
    BY <1>7 DEF Write
  <2> DEFINE f == Fresh(Newest)
  <2>2. view' = [view EXCEPT ![v] = f]
    BY <1>2, <1>5, <2>1
  <2>3. /\ f.version = w.version /\ f.deferred = w.deferred /\ f.deleted = w.deleted
        /\ \A i \in Item : f.changes[i] = w.changes[i]
    <3>1. /\ f.version = Newest /\ f.deferred = {} /\ f.deleted = {} /\ f.changes = NoChanges
      BY DEF Fresh
    <3>2. \A i \in Item : w.changes[i] = NoChanges[i]
      BY <1>2, <1>7 DEF Sound
    <3> HIDE DEF f
    <3> QED
      BY <1>3, <1>7, <3>1, <3>2
  <2> HIDE DEF f
  <2>4. \A i \in Item : SeenAs(history, v, f, i) = SeenAs(history, v, view[v], i)
    BY <2>3 DEF SeenAs
  <2>5. f.version = view[v].version
    BY <2>3
  <2> HIDE DEF w
  <2> QED
    BY <1>1, <2>1, <2>2, <2>4, <2>5, SeenStutter
<1>8. CASE w.log \cup w.deleted # {}
  <2>1. history' = Append(history, new)
    BY <1>8 DEF Write
  <2>2. /\ Len(history') = N /\ history'[N] = new /\ N \in Nat
        /\ \A n \in 1..Newest : history'[n] = history[n]
    BY <1>1, <1>2, <2>1 DEF TypeOK
  <2>3. \A i \in Item :
          D[i] = IF i \in w.deleted \/ C[i] = Gone THEN Gone
                 ELSE [a \in Attr |-> IF w.changes[i][a] # Same THEN w.changes[i][a] ELSE C[i][a]]
    BY <1>4 DEF NewVersion
  <2>4. \A i \in Item, a \in Attr : a \in new.written[i] <=> w.changes[i][a] # Same
    BY DEF NewVersion
  <2>5. Committed' = D
    BY <1>6, <2>2
  <2>6. \A i \in Item :
          AllSeen[v][i] =
            IF C[i] = Gone THEN [a \in Attr |-> Same]
            ELSE IF i \in w.deleted THEN Gone
            ELSE [a \in Attr |-> IF v \notin ThisWins /\ w.changes[i][a] = C[i][a]
                                 THEN Same ELSE w.changes[i][a]]
    BY <1>2, <1>3, <1>4, <1>6 DEF SeenAs
  <2>7. \A i \in Item : w.changes[i] \in [Attr -> Value \cup {Same}]
    BY <1>2 DEF ViewRecord
  <2>8. DOMAIN D = Item /\ D = [i \in Item |-> D[i]]
    BY DEF NewVersion
  <2>9. ASSUME NEW i \in Item, C[i] # Gone, i \notin w.deleted
        PROVE  /\ AllSeen[v][i] = [a \in Attr |-> IF v \notin ThisWins /\ w.changes[i][a] = C[i][a]
                                                  THEN Same ELSE w.changes[i][a]]
               /\ AllSeen[v][i] # Gone
    <3>1. AllSeen[v][i] = [a \in Attr |-> IF v \notin ThisWins /\ w.changes[i][a] = C[i][a]
                                          THEN Same ELSE w.changes[i][a]]
      BY <2>6, <2>9
    <3>2. AllSeen[v][i] \in [Attr -> Value \cup {Same}]
      BY <2>7, <3>1
    <3> QED
      BY <3>1, <3>2, RepositoryViewsAssumption
  <2>10. \A i \in Item, a \in Attr :
           C[i] # Gone /\ i \notin w.deleted =>
             (AllSeen[v][i][a] # Same => w.changes[i][a] # Same /\ AllSeen[v][i][a] = w.changes[i][a])
             /\ (AllSeen[v][i][a] = Same => w.changes[i][a] = Same \/ w.changes[i][a] = C[i][a])
    BY <2>9
  <2>11. D = AbstractAfter(v)
    <3>1. ASSUME NEW i \in Item PROVE D[i] = AbstractAfter(v)[i]
      <4>1. CASE C[i] = Gone \/ i \in w.deleted
        BY <2>3, <2>6, <4>1 DEF AbstractAfter
      <4>2. CASE ~(C[i] = Gone \/ i \in w.deleted)
        <5>1. AbstractAfter(v)[i] = [a \in Attr |-> IF AllSeen[v][i][a] # Same
                                                    THEN AllSeen[v][i][a] ELSE C[i][a]]
          BY <2>9, <4>2 DEF AbstractAfter
        <5>2. D[i] = [a \in Attr |-> IF w.changes[i][a] # Same THEN w.changes[i][a] ELSE C[i][a]]
          BY <2>3, <4>2
        <5>3. \A a \in Attr : (IF AllSeen[v][i][a] # Same THEN AllSeen[v][i][a] ELSE C[i][a])
                              = (IF w.changes[i][a] # Same THEN w.changes[i][a] ELSE C[i][a])
          BY <2>10, <4>2
        <5> QED
          BY <5>1, <5>2, <5>3
      <4> QED
        BY <4>1, <4>2
    <3>2. AbstractAfter(v) = [i \in Item |-> AbstractAfter(v)[i]]
      BY DEF AbstractAfter
    <3> QED
      BY <2>8, <3>1, <3>2
  <2>12. \A u \in View \ {v} : /\ view'[u] = view[u] /\ view[u].version \in 1..Newest
                               /\ view[u].version \in Nat
    BY <1>1, <1>2, <1>5, TypeByView DEF Newest, ViewRecord
  <2>13. view'[v] = Fresh(N)
    BY <1>1, <1>5, <2>2 DEF TypeOK
  <2> HIDE DEF new, D, N, w, C
  <2>14. AllUnseen[v] = {}
    <3>1. Newest + 1 .. Newest = {}
      BY <1>2
    <3> QED
      BY <1>2, <1>3, <1>6, <3>1 DEF UnseenAs, w
  <2>15. AllUnseen'[v] = {}
    <3>1. N + 1 .. N = {} /\ Fresh(N).version = N
      BY <2>2 DEF Fresh
    <3>2. UnseenAs(history', Fresh(N)) = {}
      BY <2>2, <3>1 DEF UnseenAs
    <3> QED
      BY <1>6, <2>13, <3>2
  <2>16. AllSeen' = [u \in View |-> [i \in Item |->
                       IF u = v \/ D[i] = Gone THEN [a \in Attr |-> Same] ELSE AllSeen[u][i]]]
    <3>0. history'[Len(history')].content = D
      BY <2>2 DEF D
    <3>1. ASSUME NEW i \in Item PROVE SeenAs(history', v, Fresh(N), i) = [a \in Attr |-> Same]
      BY <3>0 DEF SeenAs, Fresh, NoChanges
    <3>2. ASSUME NEW u \in View \ {v}, NEW i \in Item
          PROVE  SeenAs(history', u, view[u], i) =
                   IF D[i] = Gone THEN [a \in Attr |-> Same] ELSE AllSeen[u][i]
      <4>1. CASE D[i] = Gone
        BY <3>0, <4>1 DEF SeenAs
      <4>2. CASE D[i] # Gone
        <5>1. C[i] # Gone /\ history[Len(history)].content[i] # Gone
          BY <1>2, <1>4, <2>3, <4>2
        <5>2. history'[view[u].version] = history[view[u].version]
          BY <2>2, <2>12
        <5>3. SeenAs(history', u, view[u], i) = SeenAs(history, u, view[u], i)
          BY <3>0, <4>2, <5>1, <5>2 DEF SeenAs
        <5> QED
          BY <1>6, <4>2, <5>3
      <4> QED
        BY <4>1, <4>2
    <3>3. \A u \in View, i \in Item :
            SeenAs(history', u, view'[u], i) =
              IF u = v \/ D[i] = Gone THEN [a \in Attr |-> Same] ELSE AllSeen[u][i]
      BY <2>12, <2>13, <3>1, <3>2
    <3> HIDE DEF AllSeen
    <3> QED
      BY <1>6, <3>3
  <2>17. ASSUME NEW u \in View \ {v}
         PROVE  /\ {x \in AllUnseen[u] : D[x[1]] # Gone} \subseteq AllUnseen'[u]
                /\ AbstractReplaced(v, D) \subseteq AllUnseen'[u]
                /\ AllUnseen'[u] \subseteq {x \in AllUnseen[u] : D[x[1]] # Gone}
                                           \cup AbstractReplaced(v, D) \cup AbstractRewritten
    <3> DEFINE V == view[u].version
    <3>1. /\ N \in V + 1 .. N /\ N - 1 = Newest
          /\ \A n \in V + 1 .. Newest : /\ n \in V + 1 .. N /\ n # N
                                        /\ n \in 1..Newest /\ n - 1 \in 1..Newest
          /\ \A n \in V + 1 .. N : n = N \/ n \in V + 1 .. Newest
      BY <1>2, <2>12 DEF N
    <3>2. ASSUME NEW x \in Item \X Attr \X Value
          PROVE  x \in AllUnseen[u] <=>
                   /\ C[x[1]] # Gone
                   /\ \E n \in V + 1 .. Newest :
                        /\ x[2] \in history[n].written[x[1]]
                        /\ x[3] \in {history[n].content[x[1]][x[2]], history[n - 1].content[x[1]][x[2]]}
      BY <1>2, <1>4, <1>6 DEF UnseenAs
    <3>3. ASSUME NEW x \in Item \X Attr \X Value
          PROVE  x \in AllUnseen'[u] <=>
                   /\ D[x[1]] # Gone
                   /\ \E n \in V + 1 .. N :
                        /\ x[2] \in history'[n].written[x[1]]
                        /\ x[3] \in {history'[n].content[x[1]][x[2]], history'[n - 1].content[x[1]][x[2]]}
      BY <1>6, <2>2, <2>12 DEF UnseenAs, D
    <3>4. AllUnseen[u] \subseteq Item \X Attr \X Value /\ AllUnseen'[u] \subseteq Item \X Attr \X Value
      BY <1>6 DEF UnseenAs
    <3> HIDE DEF AllUnseen, V
    <3>5. ASSUME NEW x \in Item \X Attr \X Value, D[x[1]] # Gone
          PROVE  x \in AllUnseen'[u] <=>
                   \/ x \in AllUnseen[u]
                   \/ /\ x[2] \in new.written[x[1]]
                      /\ x[3] \in {D[x[1]][x[2]], C[x[1]][x[2]]}
      <4>1. C[x[1]] # Gone
        BY <2>3, <3>5
      <4>2. history'[N].content[x[1]][x[2]] = D[x[1]][x[2]] /\ history'[N].written = new.written
            /\ history'[N - 1].content[x[1]][x[2]] = C[x[1]][x[2]]
        BY <1>2, <1>4, <2>2, <3>1 DEF D
      <4>3. \A n \in V + 1 .. Newest : history'[n] = history[n] /\ history'[n - 1] = history[n - 1]
        BY <2>2, <3>1
      <4> QED
        BY <3>1, <3>2, <3>3, <3>5, <4>1, <4>2, <4>3
    <3>6. ASSUME NEW x \in Item \X Attr \X Value, D[x[1]] # Gone
          PROVE  /\ C[x[1]] # Gone /\ AllSeen[v][x[1]] # Gone
                 /\ x \in AbstractReplaced(v, D) <=>
                      /\ AllSeen[v][x[1]][x[2]] # Same
                      /\ x[3] \in {C[x[1]][x[2]], D[x[1]][x[2]]}
                 /\ AllSeen[v][x[1]][x[2]] # Same => x[2] \in new.written[x[1]]
                 /\ x[2] \in new.written[x[1]] /\ AllSeen[v][x[1]][x[2]] = Same =>
                      D[x[1]][x[2]] = C[x[1]][x[2]]
      <4>1. x[1] \in Item /\ x[2] \in Attr /\ C[x[1]] # Gone /\ x[1] \notin w.deleted
        BY <2>3, <3>6
      <4>2. AllSeen[v][x[1]] # Gone
        BY <2>9, <4>1
      <4>3. x \in AbstractReplaced(v, D) <=>
              /\ AllSeen[v][x[1]][x[2]] # Same
              /\ x[3] \in {C[x[1]][x[2]], D[x[1]][x[2]]}
        BY <3>6, <4>1, <4>2 DEF AbstractReplaced, C
      <4>4. AllSeen[v][x[1]][x[2]] # Same => x[2] \in new.written[x[1]]
        BY <2>4, <2>10, <4>1
      <4>5. x[2] \in new.written[x[1]] /\ AllSeen[v][x[1]][x[2]] = Same =>
              D[x[1]][x[2]] = C[x[1]][x[2]]
        <5>1. D[x[1]][x[2]] = IF w.changes[x[1]][x[2]] # Same THEN w.changes[x[1]][x[2]]
                              ELSE C[x[1]][x[2]]
          <6>1. ASSUME NEW i \in Item, NEW a \in Attr, C[i] # Gone, i \notin w.deleted
                PROVE  D[i][a] = IF w.changes[i][a] # Same THEN w.changes[i][a] ELSE C[i][a]
            <7>1. D[i] = [b \in Attr |-> IF w.changes[i][b] # Same THEN w.changes[i][b] ELSE C[i][b]]
              BY <2>3, <6>1
            <7> QED
              BY <7>1
          <6> QED
            BY <4>1, <6>1
        <5> QED
          BY <2>10, <4>1, <5>1
      <4> QED
        BY <4>1, <4>2, <4>3, <4>4, <4>5
    <3>7. \A x \in AbstractReplaced(v, D) : x \in Item \X Attr \X Value /\ D[x[1]] # Gone
      BY DEF AbstractReplaced
    <3>8. \A x \in Item \X Attr \X Value :
            C[x[1]] # Gone /\ x[3] = C[x[1]][x[2]] => x \in AbstractRewritten
      BY DEF AbstractRewritten, C
    <3> HIDE DEF AllSeen, AbstractReplaced, AbstractRewritten
    <3>9. {x \in AllUnseen[u] : D[x[1]] # Gone} \subseteq AllUnseen'[u]
      BY <3>4, <3>5
    <3>10. AbstractReplaced(v, D) \subseteq AllUnseen'[u]
      BY <3>5, <3>6, <3>7
    <3>11. ASSUME NEW x \in AllUnseen'[u], x \notin AllUnseen[u]
           PROVE  x \in AbstractReplaced(v, D) \/ x \in AbstractRewritten
      <4>1. x \in Item \X Attr \X Value /\ D[x[1]] # Gone
        BY <3>3, <3>4
      <4>2. x[2] \in new.written[x[1]] /\ x[3] \in {D[x[1]][x[2]], C[x[1]][x[2]]}
        BY <3>5, <3>11, <4>1
      <4> QED
        BY <3>6, <3>8, <4>1, <4>2
    <3>12. \A x \in AllUnseen'[u] : D[x[1]] # Gone
      BY <3>3, <3>4
    <3> QED
      BY <3>9, <3>10, <3>11, <3>12
  <2> HIDE DEF AllSeen, AllUnseen, Committed, AbstractAfter, AbstractReplaced, AbstractRewritten
  <2> QED
    BY <2>5, <2>11, <2>14, <2>15, <2>16, <2>17, AbstractCommit
<1> QED
  BY <1>7, <1>8

LEMMA AbstractStep ==
  ASSUME CommitInv, [Next]_vars
  PROVE  [Abstract!Next]_(Abstract!vars)
<1>1. TypeOK
  BY DEF CommitInv, DeletesInv
<1>2. CASE UNCHANGED vars
  <2>1. UNCHANGED <<Committed, AllSeen, AllUnseen>>
    BY <1>2, AbstractState DEF vars
  <2> QED
    BY <2>1, AbstractStutter
<1>3. CASE Next
  <2>1. PICK v \in View :
          \/ Change(v) \/ Delete(v) \/ Cancel(v) \/ Refresh(v)
          \/ Begin(v) \/ RefreshToCommit(v) \/ Lock(v) \/ Write(v) \/ Abort(v)
    BY <1>3 DEF Next
  <2>2. CASE Change(v)
    BY <1>1, <2>2, ChangeRefines DEF Abstract!Next
  <2>3. CASE Delete(v)
    BY <1>1, <2>3, DeleteRefines DEF Abstract!Next
  <2>4. CASE Cancel(v)
    BY <1>1, <2>4, CancelRefines DEF Abstract!Next
  <2>5. CASE Refresh(v) \/ RefreshToCommit(v)
    <3>1. RefreshForwards(v)
      BY <2>5 DEF Refresh, RefreshToCommit
    <3> QED
      BY <3>1, RefreshRefines DEF Abstract!Next
  <2>6. CASE Begin(v) \/ Lock(v) \/ Abort(v)
    BY <1>1, <2>6, QuietSteps
  <2>7. CASE Write(v)
    BY <2>7, WriteRefines DEF Abstract!Next
  <2> QED
    BY <2>1, <2>2, <2>3, <2>4, <2>5, <2>6, <2>7
<1> QED
  BY <1>2, <1>3

(* Commits are atomic and lose no change: whatever the views do, what they  *)
(* and the others see of it is a behaviour of AtomicCommits (refresh and    *)
(* commit of DBRepositoryView).                                            *)
THEOREM RefinementTheorem == Spec => ImplementsAtomicCommits
<1>1. Init => CommitInv /\ Abstract!Init
  BY CommitInit, AbstractInit
<1>2. CommitInv /\ [Next]_vars => CommitInv' /\ [Abstract!Next]_(Abstract!vars)
  BY CommitNext, AbstractStep
<1> QED
  BY <1>1, <1>2, PTL DEF Spec, ImplementsAtomicCommits, Abstract!Spec
=============================================================================
