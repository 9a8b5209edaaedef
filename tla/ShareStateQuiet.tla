-------------------------- MODULE ShareStateQuiet --------------------------
(***************************************************************************)
(* ShareState with users who may stop editing for good, to ask whether the *)
(* two sides of a share then become equal.                                 *)
(***************************************************************************)
EXTENDS ShareState

VARIABLE quiet   \* nobody edits any more

quietVars == <<vars, quiet>>

StopEditing == ~quiet /\ quiet' = TRUE /\ UNCHANGED vars

QuietInit == Init /\ quiet = FALSE

QuietNext ==
  \/ ~quiet /\ Edit /\ UNCHANGED quiet
  \/ Settle /\ UNCHANGED quiet
  \/ StopEditing

Decide == AcceptSome \/ RejectSome

(* Syncs recur (the background sync task); the user looks at conflicts and *)
(* does not close the dialog on them forever without deciding one.         *)
FairSpec ==
  /\ QuietInit /\ [][QuietNext]_quietVars
  /\ WF_vars(Sync) /\ WF_vars(OpenDialog) /\ WF_vars(CloseDialog)
  /\ SF_vars(Decide)

(* Once nobody edits any more, syncs and decisions make both sides equal,   *)
(* whatever was conflicting, deleted on one side or already decided.        *)
SidesAgree == quiet => FilterRS(local, Filtered) = FilterRS(external, Filtered)
=============================================================================
