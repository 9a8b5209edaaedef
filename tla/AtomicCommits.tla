---------------------------- MODULE AtomicCommits ----------------------------
(***************************************************************************)
(* What the views of a repository promise to those who work in them: each  *)
(* view collects changes, and a commit puts all of them at once on top of  *)
(* what all other views have committed.  A change that another view has    *)
(* made to the same attribute meanwhile is decided by the view's merge     *)
(* function; a deletion is final.                                          *)
(***************************************************************************)
CONSTANTS View, Item, Attr, Value,
          ThisWins,   \* views whose own change wins
          Gone,       \* a deleted item
          Same        \* no change of an attribute

VARIABLES committed,  \* what has been committed
          changes,    \* for each view, what it has changed
          unseen      \* for each view, values that it may not know to have been replaced

vars == <<committed, changes, unseen>>

NoChange == [a \in Attr |-> Same]
Init ==
  /\ committed \in [Item -> [Attr -> Value]]
  /\ changes = [v \in View |-> [i \in Item |-> NoChange]]
  /\ unseen = [v \in View |-> {}]

Live(i) == committed[i] # Gone
Pending(v, i, a) == changes[v][i] # Gone /\ changes[v][i][a] # Same

Change(v) ==
  /\ \E i \in Item, a \in Attr, x \in Value \cup {Same} :
       /\ Live(i) /\ changes[v][i] # Gone
       /\ changes' = [changes EXCEPT ![v][i][a] = x]
  /\ UNCHANGED <<committed, unseen>>

Delete(v) ==
  /\ \E i \in Item : Live(i) /\ changes' = [changes EXCEPT ![v][i] = Gone]
  /\ UNCHANGED <<committed, unseen>>

Cancel(v) ==
  /\ changes' = [changes EXCEPT ![v] = [i \in Item |-> NoChange]]
  /\ UNCHANGED <<committed, unseen>>

(* A view takes note of other commits.  It gives up a change only where     *)
(* another view's wins or where the attribute has that value anyway.       *)
MayGiveUp(v, i, a) ==
  \/ changes[v][i][a] = committed[i][a]
  \/ \E x \in Value : <<i, a, x>> \in unseen[v] /\ (v \in ThisWins => x = changes[v][i][a])

Look(v) ==
  /\ unseen'[v] \subseteq unseen[v]
  /\ \A w \in View \ {v} : unseen'[w] = unseen[w] /\ changes'[w] = changes[w]
  /\ DOMAIN changes'[v] = Item
  /\ \A i \in Item :
       IF changes[v][i] = Gone THEN changes'[v][i] = Gone
       ELSE \A a \in Attr :
              \/ changes'[v][i][a] = changes[v][i][a]
                 /\ (Pending(v, i, a) /\ v \notin ThisWins =>
                       \A x \in Value : <<i, a, x>> \in unseen[v] => <<i, a, x>> \in unseen'[v])
              \/ changes'[v][i][a] = Same /\ MayGiveUp(v, i, a)
  /\ UNCHANGED committed

(* A commit, of a view that has seen all others. *)
After(v) ==
  [i \in Item |->
     IF ~Live(i) \/ changes[v][i] = Gone THEN Gone
     ELSE [a \in Attr |-> IF Pending(v, i, a) THEN changes[v][i][a] ELSE committed[i][a]]]

Replaced(v) ==
  {u \in Item \X Attr \X Value :
     /\ Live(u[1]) /\ After(v)[u[1]] # Gone
     /\ Pending(v, u[1], u[2]) /\ u[3] \in {committed[u[1]][u[2]], After(v)[u[1]][u[2]]}}

Rewritten == {u \in Item \X Attr \X Value : Live(u[1]) /\ u[3] = committed[u[1]][u[2]]}

Commit(v) ==
  /\ unseen[v] = {}
  /\ committed' = After(v)
  /\ changes' = [w \in View |-> [i \in Item |->
                   IF w = v \/ After(v)[i] = Gone THEN NoChange ELSE changes[w][i]]]
  /\ unseen'[v] = {}
  /\ \A w \in View \ {v} :
       LET known == {u \in unseen[w] : After(v)[u[1]] # Gone}
       IN  /\ known \cup Replaced(v) \subseteq unseen'[w]
           /\ unseen'[w] \subseteq known \cup Replaced(v) \cup Rewritten

Next ==
  \E v \in View : Change(v) \/ Delete(v) \/ Cancel(v) \/ Look(v) \/ Commit(v)

Spec == Init /\ [][Next]_vars
=============================================================================
