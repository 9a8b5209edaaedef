--------------------------- MODULE RepositoryViews ---------------------------
(***************************************************************************)
(* The views of the repository (chandlerdb): each thread works in a view   *)
(* of its own, a snapshot of one version of the store with the changes     *)
(* made in it on top.  refresh() moves the view to newer versions and      *)
(* merges its changes with what others have committed; commit() refreshes  *)
(* until the view holds the newest version under the store's lock, carries *)
(* out its deferred deletions and writes one transaction.                  *)
(*                                                                         *)
(* Items are created beforehand; attributes hold plain values (no          *)
(* references, names, kinds or children).                                  *)
(***************************************************************************)
EXTENDS Naturals, Sequences

CONSTANTS View, Item, Attr, Value,
          ThisWins,    \* views merging with mergeFunction; the others with otherViewWins
          Defers,      \* views that defer their deletions to the commit
          Notifies,    \* views that refresh one version at a time
          Gone,        \* what a version holds of a deleted item
          Same,        \* no change of an attribute
          NoView,      \* nobody holds the store's lock
          MaxVersion   \* bound: no changes are made after this version

ASSUME RepositoryViewsAssumption ==
  /\ ThisWins \subseteq View /\ Defers \subseteq View /\ Notifies \subseteq View
  /\ Gone \notin [Attr -> Value \cup {Same}]
  /\ Same \notin Value
  /\ NoView \notin View
  /\ MaxVersion \in Nat

VARIABLES history,   \* the store: for each version what it holds and what was saved
          lock,      \* who holds the store's lock
          view       \* the views

vars == <<history, lock, view>>

Content == [Item -> [Attr -> Value] \cup {Gone}]
NoChanges == [i \in Item |-> [a \in Attr |-> Same]]

Version == [content : Content, saved : SUBSET Item, written : [Item -> SUBSET Attr]]

TypeOK ==
  /\ history \in Seq(Version)
  /\ lock \in View \cup {NoView}
  /\ view \in [View -> [version : 1..Len(history), log : SUBSET Item,
                        changes : [Item -> [Attr -> Value \cup {Same}]],
                        deferred : SUBSET Item, deleted : SUBSET Item,
                        phase : {"idle", "commit", "write"}, aborted : BOOLEAN]]
  /\ \A v \in View :
       /\ view[v].phase = "write" <=> lock = v
       /\ view[v].deferred \subseteq view[v].log
       /\ view[v].deleted \cap view[v].log = {}
       /\ \A i \in view[v].log : history[view[v].version].content[i] # Gone
       /\ \A i \in Item \ view[v].log : view[v].changes[i] = NoChanges[i]

Fresh(n) ==
  [version |-> n, log |-> {}, changes |-> NoChanges, deferred |-> {}, deleted |-> {},
   phase |-> "idle", aborted |-> FALSE]

Init ==
  /\ \E content \in [Item -> [Attr -> Value]] :
       history = <<[content |-> content, saved |-> Item, written |-> [i \in Item |-> Attr]]>>
  /\ lock = NoView
  /\ view = [v \in View |-> Fresh(1)]

Newest == Len(history)
Held(n, i) == history[n].content[i]

(* An item as the view shows it. *)
Shown(w, i) ==
  [a \in Attr |-> IF w.changes[i][a] = Same THEN Held(w.version, i)[a] ELSE w.changes[i][a]]

Usable(w, i) == Held(w.version, i) # Gone /\ i \notin w.deferred \cup w.deleted
-----------------------------------------------------------------------------
(* Changes in a view. *)
Change(v) ==
  /\ view[v].phase = "idle" /\ Newest < MaxVersion
  /\ \E i \in Item, a \in Attr, x \in Value :
       /\ Usable(view[v], i) /\ x # Shown(view[v], i)[a]
       /\ view' = [view EXCEPT ![v].changes[i][a] = x, ![v].log = @ \cup {i}]
  /\ UNCHANGED <<history, lock>>

(* Mutant: deleted items stay in the log. *)
DeletedAndLogged(w, items) ==
  [w EXCEPT !.deferred = @ \ items, !.deleted = @ \cup items]

(* What a view keeps of an item that it deletes. *)
Deleted(w, items) ==
  [w EXCEPT !.log = @ \ items, !.deferred = @ \ items, !.deleted = @ \cup items,
            !.changes = [i \in Item |-> IF i \in items THEN NoChanges[i] ELSE @[i]]]

Delete(v) ==
  /\ view[v].phase = "idle" /\ Newest < MaxVersion
  /\ \E i \in Item :
       /\ Usable(view[v], i)
       /\ view' = IF v \in Defers
                  THEN [view EXCEPT ![v].deferred = @ \cup {i}, ![v].log = @ \cup {i}]
                  ELSE [view EXCEPT ![v] = Deleted(@, {i})]
  /\ UNCHANGED <<history, lock>>

Cancel(v) ==
  /\ view[v].phase = "idle"
  /\ view' = [view EXCEPT ![v] = Fresh(view[v].version)]
  /\ UNCHANGED <<history, lock>>

-----------------------------------------------------------------------------
(* Refreshing. *)

(* How far a view refreshes in one go. *)
Target(v) == IF v \in Notifies THEN view[v].version + 1 ELSE Newest

Ahead(v) == view[v].version + 1 .. Target(v)
Touched(v) == UNION {history[n].saved : n \in Ahead(v)}
Written(v, i) == UNION {history[n].written[i] : n \in Ahead(v)}

(* Items with changes here that others have deleted are deleted here too. *)
DeletedThere(v) == {i \in view[v].log : Held(Target(v), i) = Gone}

(* The scan of the history raises a MergeError at an item that is deleted in *)
(* the view, unless the scan has come to its deletion by another view.      *)
Raises(v, deleted) ==
  \E i \in deleted, n \in Ahead(v) : i \in history[n].saved /\ Held(n, i) # Gone

(* The attributes of an item with changes here that others have saved.     *)
MergedItem(v, i) ==
  [a \in Attr |->
     LET mine == view[v].changes[i][a]
         theirs == Held(Target(v), i)[a]
     IN  IF mine \in {Same, theirs} THEN Same
         ELSE IF a \in Written(v, i) /\ v \notin ThisWins THEN theirs
         ELSE mine]

Refreshed(v) ==
  LET w == Deleted(view[v], DeletedThere(v))
  IN  [w EXCEPT !.version = Target(v),
                !.deleted = view[v].deleted,
                !.changes = [i \in Item |-> IF i \in w.log \cap Touched(v)
                                            THEN MergedItem(v, i) ELSE @[i]]]

(* One pass of _refreshForwards.  An error ends a commit, too; in the second *)
(* scan it leaves the items deleted that the first one has found.           *)
RefreshForwards(v) ==
  /\ view[v].version < Newest
  /\ view' = [view EXCEPT ![v] =
       IF Raises(v, view[v].deleted) THEN [@ EXCEPT !.phase = "idle"]
       ELSE IF DeletedThere(v) # {} /\ Raises(v, view[v].deleted \cup DeletedThere(v))
       THEN [Deleted(@, DeletedThere(v)) EXCEPT !.phase = "idle"]
       ELSE Refreshed(v)]
  /\ UNCHANGED <<history, lock>>

Refresh(v) == view[v].phase = "idle" /\ RefreshForwards(v)
-----------------------------------------------------------------------------
(* Committing. *)
(* Mutant: deferred deletions are carried out first. *)
BeginWithDeletes(v) ==
  /\ view[v].phase = "idle" /\ view[v].log \cup view[v].deleted # {}
  /\ view' = [view EXCEPT ![v] = [Deleted(@, view[v].deferred) EXCEPT !.phase = "commit"]]
  /\ UNCHANGED <<history, lock>>

Begin(v) ==
  /\ view[v].phase = "idle" /\ view[v].log \cup view[v].deleted # {}
  /\ view' = [view EXCEPT ![v].phase = "commit"]
  /\ UNCHANGED <<history, lock>>

RefreshToCommit(v) == view[v].phase = "commit" /\ RefreshForwards(v)

(* Mutant: another commit may come between the refresh and the lock. *)
LockUnchecked(v) ==
  /\ view[v].phase = "commit"
  /\ lock = NoView
  /\ lock' = v
  /\ view' = [view EXCEPT ![v] = [Deleted(@, view[v].deferred) EXCEPT !.phase = "write"]]
  /\ UNCHANGED history

(* Under the lock nobody else has committed since the refresh; otherwise   *)
(* the lock is released again.  Deferred deletions take effect.            *)
Lock(v) ==
  /\ view[v].phase = "commit" /\ view[v].version = Newest
  /\ lock = NoView
  /\ lock' = v
  /\ view' = [view EXCEPT ![v] = [Deleted(@, view[v].deferred) EXCEPT !.phase = "write"]]
  /\ UNCHANGED history

NewVersion(w) ==
  [content |-> [i \in Item |-> IF i \in w.deleted \/ Held(Newest, i) = Gone
                               THEN Gone
                               ELSE [a \in Attr |-> IF w.changes[i][a] # Same
                                                    THEN w.changes[i][a]
                                                    ELSE Held(Newest, i)[a]]],
   saved |-> w.log \cup w.deleted,
   written |-> [i \in Item |-> {a \in Attr : w.changes[i][a] # Same}]]

(* After a merge there may be nothing left to write. *)
Write(v) ==
  /\ view[v].phase = "write"
  /\ history' = IF view[v].log \cup view[v].deleted = {} THEN history
                ELSE Append(history, NewVersion(view[v]))
  /\ lock' = NoView
  /\ view' = [view EXCEPT ![v] = Fresh(Len(history'))]

(* The transaction is aborted by a deadlock in the database and tried again *)
(* after a pause, without the lock; by any other error it is given up.      *)
Abort(v) ==
  /\ view[v].phase = "write"
  /\ lock' = NoView
  /\ \E phase \in {"commit", "idle"} :
       view' = [view EXCEPT ![v].phase = phase, ![v].aborted = TRUE]
  /\ UNCHANGED history

Next ==
  \E v \in View :
    \/ Change(v) \/ Delete(v) \/ Cancel(v) \/ Refresh(v)
    \/ Begin(v) \/ RefreshToCommit(v) \/ Lock(v) \/ Write(v) \/ Abort(v)

Spec == Init /\ [][Next]_vars
-----------------------------------------------------------------------------
(* A view that defers its deletions does not conflict with changes by       *)
(* others to what it has deleted, however refreshes and commits interleave; *)
(* only a commit that was aborted after its deletions took effect leaves it *)
(* with deletions that the next refresh may stumble on.                    *)
DeferredDeletesDoNotConflict ==
  \A v \in Defers : ~view[v].aborted =>
    \A i \in view[v].deleted : Held(Newest, i) # Gone => view[v].version = Newest

(* "if item is deleted in other view, resolve conflict by deleting item     *)
(* locally (with mergeFn approval)" (DBRepositoryView.py:421): the view is   *)
(* not left with deletions of its own of what others have deleted.         *)
DeletedElsewhereIsResolved ==
  \A v \in Defers : ~view[v].aborted =>
    \A i \in view[v].deleted : Held(Newest, i) # Gone

-----------------------------------------------------------------------------
(* What the other views and the user see of it: AtomicCommits.             *)
ChangeSeen(v, i) ==
  IF Held(Newest, i) = Gone THEN [a \in Attr |-> Same]
  ELSE IF i \in view[v].deferred \cup view[v].deleted THEN Gone
  ELSE [a \in Attr |-> IF v \notin ThisWins /\ view[v].changes[i][a] = Held(view[v].version, i)[a]
                       THEN Same ELSE view[v].changes[i][a]]

Unseen(v) ==
  {u \in Item \X Attr \X Value :
     /\ Held(Newest, u[1]) # Gone
     /\ \E n \in view[v].version + 1 .. Newest :
          /\ u[2] \in history[n].written[u[1]]
          /\ u[3] \in {Held(n, u[1])[u[2]], Held(n - 1, u[1])[u[2]]}}

Abstract ==
  INSTANCE AtomicCommits WITH
    committed <- history[Newest].content,
    changes <- [v \in View |-> [i \in Item |-> ChangeSeen(v, i)]],
    unseen <- [v \in View |-> Unseen(v)]

(* Commits are atomic and lose nothing: every behaviour of the views is one *)
(* of AtomicCommits.                                                       *)
ImplementsAtomicCommits == Abstract!Spec
=============================================================================
