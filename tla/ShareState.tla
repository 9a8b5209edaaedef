----------------------------- MODULE ShareState -----------------------------
(***************************************************************************)
(* One shared item: the local item, the same item at the peer (the server  *)
(* collection), and the State that relates them.  Users edit both sides at *)
(* any time; a sync fetches, merges, applies and sends; the user settles   *)
(* conflicts in the conflict dialog (application/dialogs/ConflictDialog).  *)
(***************************************************************************)
EXTENDS StateMerge

CONSTANTS ReadOnly,            \* share.mode = 'get' (this and the others: Booleans)
          IsDiff,              \* the conduit receives diffs, not full records
          DialogSurvivesSync   \* a sync can finish while the dialog is open

VARIABLES local,      \* the records exportItem yields for the local item
          external,   \* the peer's records
          seen,       \* external as the last sync left it (the sync token)
          state,      \* the State item
          dialog      \* changes the open conflict dialog offers

vars == <<local, external, seen, state, dialog>>

TypeOK ==
  /\ local \in FullRecordSet
  /\ external \in RecordSet
  /\ seen \in RecordSet
  /\ state \in State
  /\ dialog \in SUBSET Diff

Init ==
  /\ local \in FullRecordSet
  /\ external = NoRecords
  /\ seen = NoRecords
  /\ state = NewState
  /\ dialog = {}

LocalEdit ==
  /\ local' \in FullRecordSet \ {local}
  /\ UNCHANGED <<external, seen, state, dialog>>

RemoteEdit ==
  /\ external' \in FullRecordSet \ {external}
  /\ UNCHANGED <<local, seen, state, dialog>>

(* What the conduit hands to merge() as the peer's records. *)
RsExternal ==
  IF IsDiff THEN ExternalByDiff(state, RSSub(external, seen))
  ELSE IF external = seen THEN Known(state) ELSE external

Merge(ext) == IF ReadOnly THEN MergeReadOnly(state, local, ext)
                          ELSE MergeReadWrite(state, local, ext)

(* What putRecords leaves at the peer: a diff conduit sends the changes; a  *)
(* full conduit writes the item's whole record set, also (the monolithic    *)
(* one) when it puts the file for the sake of another item.                 *)
PutResults(m) ==
  IF ReadOnly THEN {external}
  ELSE IF IsDiff THEN {RSAdd(external, m.send)}
  ELSE {Known(m)} \cup (IF m.send = EmptyDiff THEN {external} ELSE {})

(* One sync of the item: RecordSetConduit._sync. *)
Sync ==
  /\ dialog = {} \/ DialogSurvivesSync
  /\ \E ext \in {RsExternal} : \E merged \in {Merge(ext)} :
     \E m \in {IF merged.pending = EmptyDiff THEN merged ELSE AutoResolve(merged, local)} :
       /\ state' = [agreed |-> m.agreed, pending |-> m.pending]
       /\ local' = Import(local, m.apply)
       /\ external' \in PutResults(m)
       /\ seen' = external'
  /\ UNCHANGED dialog

(* getConflicts(item): verify() discards what it takes for settled; the    *)
(* rest is what the dialog shows.                                          *)
OpenDialog ==
  /\ dialog = {}
  /\ state.pending # EmptyDiff
  /\ state' = Discard(state, Settled(state.pending, local))
  /\ dialog' = Changes(state'.pending)
  /\ UNCHANGED <<local, external, seen>>

(* Conflict.apply -> State.apply. *)
Accept(change) ==
  /\ change \in dialog
  /\ local' = Import(local, change)
  /\ state' = Discard([state EXCEPT !.agreed = RSAdd(@, change)], change)
  /\ dialog' = dialog \ {change}
  /\ UNCHANGED <<external, seen>>

(* Conflict.discard -> State.discard. *)
Reject(change) ==
  /\ change \in dialog
  /\ state' = Discard(state, change)
  /\ dialog' = dialog \ {change}
  /\ UNCHANGED <<local, external, seen>>

CloseDialog ==
  /\ dialog # {}
  /\ dialog' = {}
  /\ UNCHANGED <<local, external, seen, state>>

AcceptSome == \E change \in dialog : Accept(change)
RejectSome == \E change \in dialog : Reject(change)

Edit == LocalEdit \/ RemoteEdit
Settle == Sync \/ OpenDialog \/ AcceptSome \/ RejectSome \/ CloseDialog

Next == Edit \/ Settle

Spec == Init /\ [][Next]_vars
-----------------------------------------------------------------------------
(* merge() rebuilds the peer's records from agreed and pending, so whatever *)
(* a sync, an accepted and a rejected conflict do to the two, together they *)
(* must stay what the peer held at the last sync, filtered fields apart.    *)
BaselineTracksPeer ==
  FilterRS(Known(state), Filtered) = FilterRS(seen, Filtered)

(* What makes BaselineTracksPeer inductive on a share that sends: pending   *)
(* never includes and excludes the same key, filtered fields reach neither  *)
(* agreed nor pending, the peer's records say something of every unfiltered *)
(* field, and the dialog offers only what is still pending.                 *)
PendingIsProper == Proper(state.pending)
FiltersHold ==
  \A k \in Key, f \in Filtered :
    state.agreed[k][f] = NoChange /\ state.pending.inc[k][f] = NoChange
PeerRecordsWhole ==
  \A k \in Keys(external), f \in Field \ Filtered : external[k][f] # NoChange
DialogIsPending == dialog \subseteq Changes(state.pending)

BaselineInv ==
  /\ TypeOK
  /\ PendingIsProper
  /\ FiltersHold
  /\ PeerRecordsWhole
  /\ DialogIsPending
  /\ BaselineTracksPeer

(* A conflict tells the user why the two sides differ in field f of k. *)
Explained(k, f) ==
  \/ k \in state.pending.exc
  \/ state.pending.inc[k][f] # NoChange
  \/ local[k] = Blank /\ state.pending.inc[k] # Blank

(* Nothing is lost silently: after a read-write sync the two sides differ   *)
(* in a field only where a conflict tells the user so.                      *)
ExplainsDivergence ==
  Sync /\ ~ReadOnly =>
     \A k \in Key, f \in Field \ Filtered :
       local'[k][f] # external'[k][f] => Explained(k, f)'
DivergenceIsPending == [][ExplainsDivergence]_vars

(* No false alarm: a conflict is pending after a sync only where the two    *)
(* sides really differ.                                                     *)
RaisesRealConflicts ==
  Sync => /\ \A k \in state'.pending.exc : local'[k] # Blank /\ external'[k] = Blank
          /\ \A k \in Key, f \in Field :
               state'.pending.inc[k][f] # NoChange => local'[k][f] # external'[k][f]
ConflictsAreReal == [][RaisesRealConflicts]_vars

Changed(now, base, k, f) == now[k][f] # base[k][f]

(* A sync never overwrites a field that its own side changed since both *)
(* agreed, unless translator.resolve may decide the conflict.  What is       *)
(* excepted is a little more than resolve decides: it lets a value win over  *)
(* none when nothing was agreed, or in the fields that it lists.             *)
KeepsEdits ==
  Sync => \A k \in Key, f \in Field \ Filtered :
     /\ Changed(external, state.agreed, k, f) /\ external'[k][f] # external[k][f]
          => f \in NonNoneField \/ None \in {local[k][f], external[k][f]}
     /\ Changed(local, state.agreed, k, f) /\ local'[k][f] # local[k][f]
          => f \in NonNoneField \/ None \in {local[k][f], external[k][f]}
SyncKeepsEdits == [][KeepsEdits]_vars

(* What the share's filters suppress (reminders, triage status ...) never    *)
(* crosses: neither a sync nor a decision in the dialog changes a filtered   *)
(* field of a local record or brings one to the peer, and a record they add  *)
(* comes without it.  A diff conduit leaves the peer's own value alone; one  *)
(* that writes full records erases it.                                       *)
KeepsFilteredHome ==
  Settle => \A k \in Key, f \in Filtered :
     /\ local'[k] # Blank
          => local'[k][f] = IF local[k] = Blank THEN None ELSE local[k][f]
     /\ external'[k] # Blank
          => external'[k][f] \in {external[k][f]} \cup IF IsDiff THEN {} ELSE {NoChange}

(* A local edit alone raises no conflict: one appears only when the peer    *)
(* changed something too, "and not *every* time they sync" (shares.py:268). *)
RaisesPeerConflicts ==
  Sync /\ external = seen =>
     /\ state'.pending.exc \subseteq state.pending.exc
     /\ \A k \in Key, f \in Field :
          state'.pending.inc[k][f] # NoChange => state.pending.inc[k][f] # NoChange
ConflictsComeFromPeer == [][RaisesPeerConflicts]_vars
=============================================================================
