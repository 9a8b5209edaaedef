----------------------------- MODULE MailedItem -----------------------------
(***************************************************************************)
(* Item-centric sharing (sharing/itemcentric.py): an item that two people   *)
(* mail to each other instead of keeping it in a shared collection.  Every  *)
(* message carries the whole item and the version it had in the sender's    *)
(* repository.  This is the receiver: its item, its State for the peer, and *)
(* the messages that the peer has sent, which may come in any order, more   *)
(* than once, or never.                                                    *)
(*                                                                         *)
(* One item, which stays; one peer, with one repository; the filters of     *)
(* outbound mail are left out.                                             *)
(***************************************************************************)
EXTENDS StateMerge, Sequences, Naturals

CONSTANT MaxSent   \* bound: messages of the peer

VARIABLES local,     \* the item's records
          state,     \* State: agreed and pending ...
          version,   \* ... and State.peerItemVersion, 0 for none
          sent,      \* the peer's messages: the n-th was sent with version n
          holders,   \* who has, or may have, the item
          newest,    \* the newest message that came, 0 for none
          edited,    \* whether our user ever changed it
          base       \* it without our user's changes that were never mailed

vars == <<local, state, version, sent, holders, newest, edited, base>>

TypeOK ==
  /\ local \in FullRecordSet
  /\ state \in State
  /\ sent \in Seq(FullRecordSet)
  /\ version \in 0..Len(sent)
  /\ holders \in SUBSET {"us", "peer"}
  /\ newest \in 0..Len(sent)
  /\ edited \in BOOLEAN
  /\ base \in RecordSet

(* The item is one that our user has made, or comes with the peer's first   *)
(* message.                                                                *)
Init ==
  /\ \/ holders = {"us"} /\ local \in FullRecordSet \ {NoRecords}
     \/ holders = {"peer"} /\ local = NoRecords
  /\ state = NewState
  /\ version = 0
  /\ newest = 0
  /\ sent = <<>>
  /\ edited = (local # NoRecords)
  /\ base = NoRecords

Edit ==
  /\ "us" \in holders
  /\ local' \in FullRecordSet \ {local}
  /\ edited' = TRUE
  /\ UNCHANGED <<state, version, sent, holders, newest, base>>

PeerSends ==
  /\ "peer" \in holders /\ Len(sent) < MaxSent
  /\ \E rs \in FullRecordSet : sent' = Append(sent, rs)
  /\ UNCHANGED <<local, state, version, holders, newest, edited, base>>

(* The item takes in changes that are not our user's. *)
Apply(d) ==
  /\ local' = Import(local, d)
  /\ base' = [k \in Key |-> [f \in Field |->
               IF local'[k][f] = local[k][f] THEN base[k][f] ELSE local'[k][f]]]

Settle(m) ==
  /\ state' = [agreed |-> m.agreed, pending |-> m.pending]
  /\ Apply(m.apply)

Larger(m, n) == IF m > n THEN m ELSE n

(* Mutant: messages are merged in the order they come in. *)
InboundInAnyOrder(n) ==
  /\ version' = n
  /\ holders' = holders \cup {"us"}
  /\ newest' = Larger(n, newest)
  /\ \E merged \in {MergeReadWrite(state, local, sent[n])} :
       Settle(IF merged.pending = EmptyDiff THEN merged ELSE AutoResolve(merged, local))
  /\ UNCHANGED <<sent, edited>>

(* inbound(): a message no newer than the last one raises OutOfSequence.    *)
(* What merge() would have the receiver send goes nowhere.                 *)
Inbound(n) ==
  /\ n > version
  /\ version' = n
  /\ holders' = holders \cup {"us"}
  /\ newest' = Larger(n, newest)
  /\ \E merged \in {MergeReadWrite(state, local, sent[n])} :
       Settle(IF merged.pending = EmptyDiff THEN merged ELSE AutoResolve(merged, local))
  /\ UNCHANGED <<sent, edited>>

Receive == \E n \in DOMAIN sent : Inbound(n)

(* outbound(): not while there are conflicts; what is sent counts as agreed *)
(* whether or not it arrives.                                              *)
Outbound ==
  /\ "us" \in holders /\ state.pending = EmptyDiff
  /\ holders' = holders \cup {"peer"}
  /\ state' = [state EXCEPT !.agreed = local]
  /\ base' = local
  /\ UNCHANGED <<local, version, sent, newest, edited>>

(* The conflicts are looked at, which discards those that are settled. *)
LookAtConflicts ==
  /\ state.pending # EmptyDiff
  /\ state' = Discard(state, Settled(state.pending, local))
  /\ UNCHANGED <<local, version, sent, holders, newest, edited, base>>

(* The user decides one of the conflicts. *)
Accept(change) ==
  /\ Apply(change)
  /\ state' = Discard([state EXCEPT !.agreed = RSAdd(@, change)], change)
Reject(change) ==
  /\ state' = Discard(state, change)
  /\ UNCHANGED <<local, base>>

Decide ==
  /\ \E change \in Changes(state.pending) : Accept(change) \/ Reject(change)
  /\ edited' = TRUE
  /\ UNCHANGED <<version, sent, holders, newest>>

Next == Edit \/ PeerSends \/ Receive \/ Outbound \/ LookAtConflicts \/ Decide

Spec == Init /\ [][Next]_vars
-----------------------------------------------------------------------------
(* As long as our user leaves the item alone it is the newest of the        *)
(* messages that came, however many were lost, doubled or overtaken.        *)
FollowsNewest == ~edited /\ newest > 0 => local = sent[newest]

(* An update overwrites no field that our user changed since both agreed,   *)
(* unless one side has no value there, or the field is one that            *)
(* translator.resolve lists: those it may decide by itself.                *)
KeepsEdits ==
  Receive => \A k \in Key, f \in Field :
    local[k][f] # state.agreed[k][f] /\ local'[k][f] # local[k][f]
      => f \in NonNoneField \/ None \in {local[k][f], sent[version'][k][f]}

(* Attributes can "be locally modified without being automatically          *)
(* overwritten by inbound changes -- those inbound changes would be held as *)
(* pending conflicts" (shares.py:109): no update overwrites what our user   *)
(* has changed and not mailed yet.                                         *)
EditsSurviveUpdates ==
  [][Receive => \A k \in Key, f \in Field :
       /\ local[k][f] \notin {base[k][f], None, NoChange}
       /\ local'[k][f] # local[k][f]
       => f \in NonNoneField]_vars
=============================================================================
