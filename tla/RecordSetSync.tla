---------------------------- MODULE RecordSetSync ----------------------------
(***************************************************************************)
(* One client that syncs one item of a shared collection with a server that *)
(* hands out changes by token: RecordSetConduit._sync with its two halves  *)
(* (fetch and merge; put) as steps of a view that is committed or dropped  *)
(* at the end, TokenMismatch and the retry of Share.sync, and items that   *)
(* leave the collection and come back.  The other clients are as many as   *)
(* one likes and put any change of the server's item at any time.          *)
(*                                                                         *)
(* The server keeps a history of what was put and answers a get with the   *)
(* changes after the client's token.  The model keeps, in place of tokens  *)
(* and history, those changes: `missed' after the token the client has     *)
(* committed, `news' after the token that the view of its sync holds.      *)
(*                                                                         *)
(* An assumption that the code does not enforce: while a sync's view is at *)
(* work the user may edit the item, take it out and put it back, but does  *)
(* not delete it or decide conflicts (Delete, AcceptRemoval, KeepItem and  *)
(* Decide ask for ~Busy).  What a commit makes of a State that both views  *)
(* have changed, attribute by attribute, is therefore not followed.        *)
(***************************************************************************)
EXTENDS StateMerge, Naturals

CONSTANTS Removed,   \* what is put, and inbound, for an item that was removed
          Tries      \* how often Share.sync runs the conduit's sync

ASSUME RecordSetSyncAssumption ==
  /\ Key # {} /\ Field \ Filtered # {}
  /\ Removed \notin Diff
  /\ Tries \in Nat \ {0}

VARIABLES repo,      \* what the client's repository holds
          view,      \* the same in the view of a sync, while there is one
          missed,    \* changes on the server after the committed token
          news,      \* changes after the token in the view
          stale,     \* the view's token is not the server's newest
          server,    \* the item at the server
          discarded  \* some retry forgot a change it had to send

vars == <<repo, view, missed, news, stale, server, discarded>>

Whole == {rs \in RecordSet : \A k \in Key, f \in Field : rs[k][f] # NoChange}

SyncState == [agreed : RecordSet, pending : Diff, removal : BOOLEAN,
              exists : BOOLEAN, new : BOOLEAN]
NoState == [agreed |-> NoRecords, pending |-> EmptyDiff, removal |-> FALSE,
            exists |-> FALSE, new |-> FALSE]
NoView == [phase |-> "idle"]
Committed == [phase |-> "done"]

Membership == {"in", "out", "gone"}   \* in the collection; live; deleted
ServerChange == Diff \cup {Removed}

SyncView == [phase : {"got", "sent"}, item : Membership, local : FullRecordSet,
             state : SyncState, changed : BOOLEAN, fetched : ServerChange,
             send : ServerChange, forget : BOOLEAN, withheld : BOOLEAN,
             applied : BOOLEAN, moved : BOOLEAN, edited : BOOLEAN,
             discarded : BOOLEAN, tries : 1..Tries]

(* Every record of the item is there, with all fields that are shared. *)
Complete(rs) == \A k \in Key, f \in Field \ Filtered : rs[k][f] # NoChange

TypeOK ==
  /\ repo \in [item : Membership, local : FullRecordSet, state : SyncState, changed : BOOLEAN]
  /\ repo.item = "gone" => repo.local = NoRecords
  /\ ~repo.state.new
  /\ view \in {NoView, Committed} \cup SyncView
  /\ missed \in ServerChange /\ news \in ServerChange
  /\ stale \in BOOLEAN
  /\ server \in RecordSet
  /\ discarded \in BOOLEAN
  /\ ~discarded => /\ repo.item # "gone" => repo.local \in Whole
                   /\ server # NoRecords => Complete(server)

(* The user has created the item, or nobody has. *)
Init ==
  /\ repo \in {[item |-> "in", local |-> rs, state |-> NoState, changed |-> TRUE] : rs \in Whole}
              \cup {[item |-> "gone", local |-> NoRecords, state |-> NoState, changed |-> FALSE]}
  /\ view = NoView
  /\ missed = EmptyDiff
  /\ news = EmptyDiff
  /\ stale = FALSE
  /\ server = NoRecords
  /\ discarded = FALSE

(* A sync is at work in its view. *)
Busy == view.phase \in {"got", "sent"}
-----------------------------------------------------------------------------
(* The server: serverGet adds up what was put after a token. *)
Fold(rs, put) ==
  IF put = Removed THEN Removed
  ELSE DiffAdd(IF rs = Removed THEN EmptyDiff ELSE rs, put)

Stored(rs, put) == IF put = Removed THEN NoRecords ELSE RSAdd(rs, put)

-----------------------------------------------------------------------------
(* _sync up to putRecords, on a working record w.                          *)

(* What arrived for the item. *)
Arrived(rs) == rs \notin {Removed, EmptyDiff}

(* Inbound removals cancel the conflicts; inbound changes cancel a pending *)
(* removal and, for an item deleted here, are completed from its state.    *)
Receive(w, rs) ==
  IF rs = Removed THEN [w EXCEPT !.removed = TRUE, !.state.pending = EmptyDiff]
  ELSE IF ~Arrived(rs) THEN w
  ELSE IF w.item = "gone"
       THEN [w EXCEPT !.inbound = AsDiff(RSAdd(Known(w.state), rs)),
                      !.state.agreed = NoRecords, !.state.pending = EmptyDiff,
                      !.state.removal = FALSE]
       ELSE [w EXCEPT !.inbound = rs, !.state.removal = FALSE]

(* Mutant: only what was changed here is exported. *)
ExportedIfChanged(w) == w.item = "in" /\ w.changed /\ ~w.state.removal

(* The item takes part if something arrived for it or it is in the         *)
(* collection and was changed, unless its removal waits for a decision.    *)
Exported(w) ==
  /\ w.item # "gone"
  /\ \/ Arrived(w.inbound)
     \/ w.changed /\ w.item = "in" /\ ~w.state.removal

MergeItem(w) ==
  LET int == IF Exported(w) THEN w.local ELSE NoRecords
      merged == MergeReadWrite(w.state, int, ExternalByDiff(w.state, w.inbound))
      m == IF merged.pending = EmptyDiff \/ w.item = "gone" THEN merged
           ELSE AutoResolve(merged, int)
  IN  IF Exported(w) \/ Arrived(w.inbound)
      THEN [w EXCEPT !.state = [agreed |-> m.agreed, pending |-> m.pending, removal |-> FALSE,
                                exists |-> TRUE, new |-> w.state.new \/ ~w.state.exists],
                     !.send = m.send, !.apply = m.apply]
      ELSE w

(* Removed there, changed here: a conflict, which the user decides. *)
ConflictOnRemoval(w) ==
  IF w.removed /\ w.send # EmptyDiff
  THEN [w EXCEPT !.send = EmptyDiff, !.removed = FALSE,
                 !.state = [@ EXCEPT !.agreed = NoRecords, !.pending = EmptyDiff,
                                     !.removal = TRUE]]
  ELSE w

(* Mutant: only new items enter the collection. *)
ApplyInboundIfNew(w) ==
  [w EXCEPT !.local = IF w.apply = EmptyDiff THEN @ ELSE Import(@, w.apply),
            !.item = IF Arrived(w.inbound) /\ w.state.new THEN "in" ELSE @]

(* Apply what came, and put an item that is new or was changed there into  *)
(* the collection.                                                         *)
ApplyInbound(w) ==
  LET enters == Arrived(w.inbound) /\ (w.state.new \/ w.apply # EmptyDiff)
  IN  [w EXCEPT !.local = IF w.apply = EmptyDiff THEN @ ELSE Import(@, w.apply),
                !.item = IF enters THEN "in" ELSE @]

RemoveRemoved(w) ==
  IF w.removed THEN [w EXCEPT !.item = IF @ = "in" THEN "out" ELSE @, !.state = NoState]
  ELSE w

EmptyState(st) == st.agreed = NoRecords /\ st.pending = EmptyDiff /\ ~st.removal

(* Mutant: the state of an item that has left is forgotten, and nothing sent. *)
ReviewStateQuietly(w) ==
  IF w.state.exists /\ (EmptyState(w.state) \/ w.item # "in")
  THEN [w EXCEPT !.forget = TRUE, !.send = EmptyDiff] ELSE w

(* The loop over share.states: forget empty states; an item that has left  *)
(* the collection is removed at the server, if it is there.                *)
ReviewState(w) ==
  IF ~w.state.exists THEN w
  ELSE IF EmptyState(w.state) THEN [w EXCEPT !.forget = TRUE]
  ELSE IF w.item # "in"
       THEN [w EXCEPT !.forget = TRUE, !.withheld = (w.send # EmptyDiff),
                      !.send = IF w.state.removal \/ w.state.new THEN EmptyDiff ELSE Removed]
  ELSE w

(* The working record that a run over view v starts with. *)
Start(v) ==
  [item |-> v.item, local |-> v.local, state |-> v.state, changed |-> v.changed,
   inbound |-> EmptyDiff, apply |-> EmptyDiff, send |-> EmptyDiff,
   removed |-> FALSE, forget |-> FALSE, withheld |-> FALSE]

(* One run over view v of a sync, with what the server has after v's token. *)
Fetched(v, rs) ==
  LET merged == ConflictOnRemoval(MergeItem(Receive(Start(v), rs)))
      w == ReviewState(RemoveRemoved(ApplyInbound(merged)))
  IN  [v EXCEPT !.phase = "got", !.fetched = Fold(@, rs), !.item = w.item,
                !.local = w.local, !.state = w.state, !.send = w.send,
                !.forget = w.forget, !.withheld = w.withheld, !.applied = @ \/ w.apply # EmptyDiff,
                !.moved = @ \/ w.item # v.item]

NewView ==
  [phase |-> "got", item |-> repo.item, local |-> repo.local, state |-> repo.state,
   changed |-> repo.changed, fetched |-> EmptyDiff, send |-> EmptyDiff, forget |-> FALSE,
   withheld |-> FALSE, applied |-> FALSE, moved |-> FALSE, edited |-> FALSE, discarded |-> FALSE,
   tries |-> Tries]

-----------------------------------------------------------------------------
(* The sync. *)

Get ==
  /\ view = NoView
  /\ view' = Fetched(NewView, missed)
  /\ news' = EmptyDiff
  /\ stale' = FALSE
  /\ UNCHANGED <<repo, missed, server, discarded>>

(* Mutant: the server takes every put. *)
PutUnchecked ==
  /\ Busy /\ view.phase = "got" /\ view.send # EmptyDiff
  /\ server' = Stored(server, view.send)
  /\ missed' = Fold(missed, view.send)
  /\ view' = [view EXCEPT !.phase = "sent"]
  /\ UNCHANGED <<repo, news, stale, discarded>>

(* The put succeeds when nobody put anything since the get.  As long as the *)
(* new token is not committed, this client too will get what it put.       *)
Put ==
  /\ Busy /\ view.phase = "got" /\ view.send # EmptyDiff
  /\ ~stale
  /\ server' = Stored(server, view.send)
  /\ missed' = Fold(missed, view.send)
  /\ view' = [view EXCEPT !.phase = "sent"]
  /\ UNCHANGED <<repo, news, stale, discarded>>

(* The view has changes that it has not sent: the put of the item, or what *)
(* the item's removal has taken the place of in it.                        *)
Unsent == view.phase = "got" /\ (view.send \notin {EmptyDiff, Removed} \/ view.withheld)

(* TokenMismatch, from the put of this item or of another one: sync again  *)
(* in the same view, which is neither committed nor cancelled; in the end  *)
(* give up and cancel it.                                                  *)
Mismatch ==
  /\ Busy /\ stale
  /\ view' = IF view.tries = 1 THEN NoView
             ELSE Fetched([view EXCEPT !.tries = @ - 1, !.discarded = @ \/ Unsent], news)
  /\ news' = EmptyDiff
  /\ stale' = FALSE
  /\ UNCHANGED <<repo, missed, server, discarded>>

(* Mutant: the version range of the next sync starts at the commit. *)
TouchedByView ==
  \/ view.applied \/ view.moved
  \/ view.state.new
  \/ view.state.removal # repo.state.removal
  \/ (view.state.pending = EmptyDiff) # (repo.state.pending = EmptyDiff)

(* The user's edit during the sync is merged into the view on commit, where *)
(* mergeFunction lets the view win what it has changed itself.             *)
Touched ==
  \/ view.applied \/ view.moved \/ view.edited
  \/ view.state.new
  \/ view.state.removal # repo.state.removal
  \/ (view.state.pending = EmptyDiff) # (repo.state.pending = EmptyDiff)

CommittedItem == IF view.moved THEN view.item ELSE repo.item

CommittedRepo ==
  [item |-> CommittedItem,
   local |-> IF view.applied THEN view.local ELSE repo.local,
   state |-> IF view.forget THEN NoState ELSE [view.state EXCEPT !.new = FALSE],
   changed |-> Touched /\ CommittedItem = "in"]

(* Mutant: the new token is not kept. *)
CommitWithoutToken ==
  /\ Busy
  /\ view.phase = "sent" \/ view.send = EmptyDiff
  /\ repo' = CommittedRepo
  /\ view' = Committed
  /\ stale' = FALSE
  /\ news' = EmptyDiff
  /\ discarded' = (discarded \/ view.discarded)
  /\ UNCHANGED <<missed, server>>

Commit ==
  /\ Busy
  /\ view.phase = "sent" \/ view.send = EmptyDiff
  /\ repo' = CommittedRepo
  /\ view' = Committed
  /\ missed' = news
  /\ news' = EmptyDiff
  /\ stale' = FALSE
  /\ discarded' = (discarded \/ view.discarded)
  /\ UNCHANGED server

(* viewpool.releaseView. *)
Release ==
  /\ view = Committed
  /\ view' = NoView
  /\ UNCHANGED <<repo, missed, news, stale, server, discarded>>

(* Anything else goes wrong, before the put, after it or in the commit, or *)
(* the process dies: the view is lost, what was put stays put.             *)
Fail ==
  /\ Busy
  /\ view' = NoView
  /\ news' = EmptyDiff
  /\ stale' = FALSE
  /\ UNCHANGED <<repo, missed, server, discarded>>

(* Another client puts what leads the server's item to rs, or removes it,  *)
(* having seen the newest token; or it puts other items of the collection. *)
OthersPut ==
  /\ \E put \in {RSSub(rs, server) : rs \in Whole \ {server}}
               \cup (IF server = NoRecords THEN {} ELSE {Removed}) :
       /\ server' = Stored(server, put)
       /\ missed' = Fold(missed, put)
       /\ news' = IF Busy THEN Fold(news, put) ELSE news
  /\ stale' = Busy
  /\ UNCHANGED <<repo, view, discarded>>

OthersPutElsewhere ==
  /\ Busy /\ ~stale
  /\ stale' = TRUE
  /\ UNCHANGED <<repo, view, missed, news, server, discarded>>

-----------------------------------------------------------------------------
(* The users. *)
ChangeRepo(changes) ==
  /\ repo' = changes
  /\ UNCHANGED <<view, missed, news, stale, server, discarded>>

(* What the user does while a sync is under way is in the repository, not  *)
(* in the view of the sync.                                                *)
ChangeAnytime(changes) ==
  /\ repo' = changes
  /\ view' = IF Busy THEN [view EXCEPT !.edited = TRUE] ELSE view
  /\ UNCHANGED <<missed, news, stale, server, discarded>>

Edit ==
  /\ repo.item # "gone"
  /\ \E rs \in Whole \ {repo.local} :
       ChangeAnytime([repo EXCEPT !.local = rs, !.changed = (repo.item = "in")])

TakeOut ==
  /\ repo.item = "in"
  /\ ChangeAnytime([repo EXCEPT !.item = "out", !.changed = FALSE])

PutBack ==
  /\ repo.item = "out"
  /\ ChangeAnytime([repo EXCEPT !.item = "in", !.changed = TRUE])

Delete ==
  /\ ~Busy /\ repo.item # "gone"
  /\ ChangeRepo([repo EXCEPT !.item = "gone", !.local = NoRecords, !.changed = FALSE])

(* The removal conflict: Conflict.apply takes the item out and deletes the *)
(* state, Conflict.discard keeps the item.                                 *)
AcceptRemoval ==
  /\ ~Busy /\ repo.state.removal /\ repo.item = "in"
  /\ ChangeRepo([repo EXCEPT !.item = "out", !.state = NoState, !.changed = FALSE])

(* ... as verify does when the item has left the collection otherwise. *)
KeepItem ==
  /\ ~Busy /\ repo.state.removal /\ repo.item # "gone"
  /\ ChangeRepo([repo EXCEPT !.state.removal = FALSE, !.changed = (@ \/ repo.item = "in")])

(* Open the dialog, decide a field conflict and close it. *)
Decide ==
  /\ ~Busy /\ repo.item # "gone"
  /\ \E change \in Changes(repo.state.pending) :
       LET st == Discard(repo.state, change)
           left == [repo.state EXCEPT !.agreed = st.agreed, !.pending = st.pending]
       IN  \/ ChangeRepo([repo EXCEPT !.state = left, !.changed = (@ \/ repo.item = "in")])
           \/ ChangeRepo([repo EXCEPT !.state = left, !.changed = (@ \/ repo.item = "in"),
                                            !.local = Import(@, change)])

User ==
  \/ Edit \/ TakeOut \/ Delete \/ PutBack
  \/ AcceptRemoval \/ KeepItem \/ Decide
Syncing == Get \/ Put \/ Mismatch \/ Commit \/ Release

Others == OthersPut \/ OthersPutElsewhere

Next == User \/ Others \/ Syncing \/ Fail

Spec == Init /\ [][Next]_vars

(* A sync gets on: it is begun, puts, commits, ends, or runs once more. *)
GetsOn ==
  \/ ~Busy /\ view' # view
  \/ Busy /\ view'.phase \in {"sent", "done"} \ {view.phase}
  \/ Busy /\ view'.phase = "got" /\ view'.tries < view.tries

(* Syncs recur, as BackgroundSync shows, and requests end: weak fairness of *)
(* Syncing, of which some step is always enabled, where giving up does not *)
(* count.                                                                  *)
FairSpec == Spec /\ []<><<GetsOn>>_vars
-----------------------------------------------------------------------------
(* The same but for the fields that the share filters. *)
AsShared(rs) == FilterRS(rs, Filtered)

(* The two halves of the bookkeeping fit: what the State and the server's   *)
(* answer to the next get add up to is what the server holds, after every   *)
(* failure, lost answer, retry, removal and return of the item.             *)
BaselineRebuildsServer ==
  /\ ~discarded => AsShared(server) = AsShared(Stored(Known(repo.state), missed))
  /\ Busy /\ view.phase = "sent" /\ ~discarded /\ ~view.discarded =>
       LET known == IF view.forget THEN NoRecords ELSE Known(view.state)
       IN  AsShared(server) = AsShared(Stored(known, news))

Conflicting == repo.state.removal \/ repo.state.pending # EmptyDiff
Caught == missed = EmptyDiff /\ ~repo.changed /\ ~Conflicting

(* A client that has nothing to fetch, to send or to decide has what the    *)
(* server has -- hence what every other such client has; and where it has   *)
(* not, it knows that it still has to remove the item at the server.        *)
CaughtUpAgrees ==
  Caught /\ ~discarded =>
    IF repo.item = "in" THEN AsShared(repo.local) = AsShared(server)
    ELSE server = NoRecords \/ repo.state.exists

(* The same without making an exception for retries after a TokenMismatch:  *)
(* "If someone else has modified a collection in the middle of our sync ... *)
(* Try again a couple more times" (shares.py:771).                          *)
RetryLosesNothing ==
  Caught /\ repo.item = "in" => AsShared(repo.local) = AsShared(server)

(* A removal by others takes an item out of the collection only if nothing  *)
(* in it is unsent: the view's version range, the edits that are made       *)
(* during a sync and those that a failed sync had seen never hide one.      *)
RemovalSparesEdits ==
  [][Get /\ ~Conflicting /\ repo.item = "in" /\ view'.item = "out" =>
       AsShared(repo.local) = repo.state.agreed]_vars

(* When others and failures pause, all that the user did gets through.      *)
Delivered ==
  <>[][GetsOn]_vars => <>[](Caught \/ Conflicting \/ discarded)
=============================================================================
