--------------------------- MODULE MCRecordSetSync ---------------------------
(***************************************************************************)
(* RecordSetSync with everything that may happen, and, of the same steps,  *)
(* the part in which the item stays in the collection, the user edits it   *)
(* between syncs and a sync that meets a mismatch gives up.  That part      *)
(* implements ShareState, where a sync is one step: its gets, puts,        *)
(* failures and lost commits are the atomic sync, a change by others, or   *)
(* nothing.  A sync that runs again in the same view is two syncs at once  *)
(* and no step of ShareState.                                              *)
(***************************************************************************)
EXTENDS RecordSetSync

VARIABLE scope   \* "all" or "edits", for the whole behaviour

allVars == <<vars, scope>>

MCInit == Init /\ scope \in {"all", "edits"}

OthersEdit == OthersPut /\ server' # NoRecords
EditBetween == Edit /\ ~Busy

EditsNext ==
  \/ EditBetween \/ OthersEdit \/ OthersPutElsewhere
  \/ Get \/ Put \/ Commit \/ Release \/ Fail

MCNext ==
  \/ scope = "all" /\ Next /\ UNCHANGED scope
  \/ scope = "edits" /\ EditsNext /\ UNCHANGED scope

MCSpec == MCInit /\ [][MCNext]_allVars /\ []<><<GetsOn>>_vars
-----------------------------------------------------------------------------
(* Others' puts count as remote edits once the client's sync is over: what  *)
(* the sync of ShareState sees is what the gets have brought.              *)
SharedExternal ==
  CASE Busy -> Stored(Known(repo.state), view.fetched)
    [] view = Committed -> Known(repo.state)
    [] OTHER -> server

Share ==
  INSTANCE ShareState WITH
    ReadOnly <- FALSE, IsDiff <- TRUE, DialogSurvivesSync <- FALSE,
    local <- repo.local,
    external <- SharedExternal,
    seen <- Known(repo.state),
    state <- [agreed |-> repo.state.agreed, pending |-> repo.state.pending],
    dialog <- {}

(* The sync with its network, failures and commits implements ShareState:   *)
(* all that is shown of the atomic sync holds for it.  (Share!Spec, asked    *)
(* of the behaviours in which items stay in the collection.)               *)
ImplementsShareState ==
  Share!Init /\ [][scope = "edits" => [Share!Next]_(Share!vars)]_allVars
=============================================================================
