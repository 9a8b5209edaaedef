---------------------------- MODULE MCShareState ----------------------------
(***************************************************************************)
(* ShareState over a conduit of diffs, and in variables of their own the    *)
(* other kinds of shares: over a conduit of full records with a filtered    *)
(* field and a field that settles its own conflicts, and, with one field     *)
(* left alone, a read-only subscription, a share whose users stop editing    *)
(* and an item that is mailed to and fro.  A share never changes its kind.  *)
(***************************************************************************)
EXTENDS ShareState

CONSTANTS f, g,     \* the field that settles itself, the filtered field
          MaxSent   \* bound: messages that are mailed

VARIABLES share,                                     \* its kind
          item, peerItem, synced, itemState, shown,  \* ShareState of another kind
          quiet,
          version, sent, holders, newest, edited, base

otherVars == <<item, peerItem, synced, itemState, shown>>
mailVars == <<version, sent, holders, newest, edited, base>>
allVars == <<share, vars, otherVars, quiet, mailVars>>

Full == INSTANCE ShareState WITH
          local <- item, external <- peerItem, seen <- synced, state <- itemState, dialog <- shown,
          ReadOnly <- FALSE, IsDiff <- FALSE, Filtered <- {g}, NonNoneField <- {f},
          DialogSurvivesSync <- FALSE
Subscribed == INSTANCE ShareState WITH
          local <- item, external <- peerItem, seen <- synced, state <- itemState, dialog <- shown,
          ReadOnly <- TRUE, IsDiff <- TRUE, Filtered <- {}, NonNoneField <- {},
          DialogSurvivesSync <- FALSE
Quiet == INSTANCE ShareStateQuiet WITH
          local <- item, external <- peerItem, seen <- synced, state <- itemState, dialog <- shown,
          ReadOnly <- FALSE, IsDiff <- TRUE, Filtered <- {}, NonNoneField <- {},
          DialogSurvivesSync <- FALSE
Mailed == INSTANCE MailedItem WITH
          local <- item, state <- itemState, Filtered <- {}, NonNoneField <- {}

(* Records in which g has one value only. *)
OneField(records) == \A k \in Key : records[k][g] \in {None, NoChange}

Unused == Init /\ local = NoRecords
OtherUnused == item = <<>> /\ peerItem = <<>> /\ synced = <<>> /\ itemState = <<>> /\ shown = {}
MailUnused ==
  /\ version = 0 /\ newest = 0 /\ sent = <<>> /\ holders = {}
  /\ edited = FALSE /\ base = <<>>

MCInit ==
  /\ quiet = FALSE
  /\ \/ share = "diffs" /\ Init /\ OtherUnused /\ MailUnused
     \/ share = "full" /\ Full!Init /\ Unused /\ MailUnused
     \/ share = "subscribed" /\ Subscribed!Init /\ OneField(item) /\ Unused /\ MailUnused
     \/ share = "quiet" /\ Quiet!Init /\ OneField(item) /\ Unused /\ MailUnused
     \/ share = "mailed" /\ Mailed!Init /\ OneField(item) /\ Unused /\ peerItem = <<>> /\ synced = <<>> /\ shown = {}

MCNext ==
  /\ UNCHANGED share
  /\ \/ share = "diffs" /\ Next /\ UNCHANGED <<otherVars, quiet, mailVars>>
     \/ share = "full" /\ Full!Next /\ UNCHANGED <<vars, quiet, mailVars>>
     \/ /\ share = "subscribed" /\ Subscribed!Next /\ UNCHANGED <<vars, quiet, mailVars>>
        /\ OneField(item') /\ OneField(peerItem')
     \/ /\ share = "quiet" /\ Quiet!QuietNext /\ UNCHANGED <<vars, mailVars>>
        /\ OneField(item') /\ OneField(peerItem')
     \/ /\ share = "mailed" /\ Mailed!Next /\ UNCHANGED <<vars, peerItem, synced, shown, quiet>>
        /\ OneField(item') /\ \A n \in DOMAIN sent' : OneField(sent'[n])

(* The fairness of ShareStateQuiet, for the kind it is asked of. *)
Fairness ==
  /\ WF_otherVars(share = "quiet" /\ Quiet!Sync)
  /\ WF_otherVars(share = "quiet" /\ Quiet!OpenDialog)
  /\ WF_otherVars(share = "quiet" /\ Quiet!CloseDialog)
  /\ SF_otherVars(share = "quiet" /\ Quiet!Decide)

MCSpec == MCInit /\ [][MCNext]_allVars /\ Fairness
-----------------------------------------------------------------------------
(* The properties of ShareState (which says what they mean) are checked of  *)
(* a share over a conduit of diffs.  These are about the other kinds.      *)

OtherInv ==
  /\ share = "full" => Full!BaselineInv
  /\ share = "subscribed" => Subscribed!TypeOK /\ Subscribed!BaselineTracksPeer
  /\ share = "quiet" => Quiet!BaselineInv
  /\ share = "mailed" => Mailed!TypeOK

OtherStep ==
  /\ share = "full" => Full!ExplainsDivergence /\ Full!KeepsEdits
  /\ share = "subscribed" => Subscribed!RaisesRealConflicts /\ Subscribed!RaisesPeerConflicts
  /\ share = "mailed" => Mailed!KeepsEdits

(* Their baselines are what the peer holds, too, nothing is lost silently   *)
(* on a share of full records, mail overwrites no edit, and a subscriber is *)
(* told of conflicts with the publisher's changes and of nothing else.     *)
OtherSharesToo == [][OtherInv /\ OtherStep]_allVars

(* What the filter suppresses never crosses. *)
FilteredStaysHome == [][share = "full" => Full!KeepsFilteredHome]_allVars

(* An item that its receiver leaves alone is the newest message that came. *)
FollowsNewest == share = "mailed" => Mailed!FollowsNewest

(* When nobody edits any more the two sides become equal. *)
Converges == <>[](share = "quiet" => Quiet!SidesAgree)
=============================================================================
