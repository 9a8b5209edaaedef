----------------------------- MODULE StateMerge -----------------------------
(***************************************************************************)
(* The computations of class State (sharing/shares.py) on the sync state   *)
(* of one item with one peer:                                              *)
(*    agreed   what both sides last agreed the item looks like             *)
(*    pending  the peer's changes that were not applied: the conflicts     *)
(* merge() never sees the peer's records themselves but rebuilds them from *)
(* agreed + pending + inbound changes.                                     *)
(***************************************************************************)
EXTENDS EIM

CONSTANTS Filtered,      \* fields that the share's filters suppress
          None,          \* the falsy field value
          Inherit,       \* eim.Inherit
          NonNoneField   \* fields whose conflicts translator.resolve settles

ASSUME StateMergeAssumption ==
  /\ Filtered \subseteq Field
  /\ None \in Value

(* What exportItem yields for an item: whole records. *)
FullRecordSet == {rs \in RecordSet : \A k \in Keys(rs) : \A f \in Field : rs[k][f] # NoChange}

State == [agreed : RecordSet, pending : Diff]
NewState == [agreed |-> NoRecords, pending |-> EmptyDiff]

(* Mutant of Flt: the filter is not applied. *)
FltNothing(d) == d

Flt(d) == FilterDiff(d, Filtered)

(* What the peer holds: by a diff conduit the inbound changes on top of    *)
(* what was known, by a full conduit the inbound records themselves.       *)
Known(st) == RSAdd(st.agreed, st.pending)

ExternalByDiff(st, inbound) == RSAdd(Known(st), inbound)

CleanDiff(rs, d) == RSSub(RSAdd(rs, d), rs)

NonConflicting(st, int, ext) ==
  DiffOr(Flt(RSSub(int, st.agreed)), Flt(RSSub(ext, st.agreed)))

(* Mutants of MergeReadWrite: conflicts are sought before the peer has got *)
(* what is sent; agreed does not take in what both sides now have.         *)
MergeReadWriteBeforeSend(st, int, ext) ==
  LET ncd == NonConflicting(st, int, ext)
      agreed == RSAdd(st.agreed, ncd)
  IN  [agreed |-> agreed, pending |-> Flt(RSSub(ext, agreed)),
       send |-> CleanDiff(ext, ncd), apply |-> CleanDiff(int, ncd)]

MergeReadWriteWithoutAgreeing(st, int, ext) ==
  LET ncd == NonConflicting(st, int, ext)
      send == CleanDiff(ext, ncd)
  IN  [agreed |-> st.agreed, pending |-> Flt(RSSub(RSAdd(ext, send), st.agreed)),
       send |-> send, apply |-> CleanDiff(int, ncd)]

(* State.merge on a share that may send. *)
MergeReadWrite(st, int, ext) ==
  LET ncd == NonConflicting(st, int, ext)
      agreed == RSAdd(st.agreed, ncd)
      send == CleanDiff(ext, ncd)
  IN  [agreed |-> agreed,
       pending |-> Flt(RSSub(RSAdd(ext, send), agreed)),
       send |-> send,
       apply |-> CleanDiff(int, ncd)]

(* Mutant of MergeReadOnly: every difference of the two sides is a conflict. *)
MergeReadOnlyEveryDifference(st, int, ext) ==
  [agreed |-> FilterRS(ext, Filtered), pending |-> Flt(RSSub(ext, int)), send |-> EmptyDiff,
   apply |-> CleanDiff(int, NonConflicting(st, int, ext))]

(* State.merge on a read-only subscription: nothing is sent, agreed is the *)
(* peer's state, and pending is where letting one side win would show.     *)
MergeReadOnly(st, int, ext) ==
  LET internalDiff == Flt(RSSub(int, st.agreed))
      externalDiff == Flt(RSSub(ext, st.agreed))
      extWins == RSAdd(RSAdd(RSAdd(st.agreed, internalDiff), st.pending), externalDiff)
      intWins == RSAdd(RSAdd(RSAdd(st.agreed, st.pending), externalDiff), internalDiff)
  IN  [agreed |-> FilterRS(ext, Filtered),
       pending |-> Flt(RSSub(extWins, intWins)),
       send |-> EmptyDiff,
       apply |-> CleanDiff(int, DiffOr(internalDiff, externalDiff))]

(* translator.resolve as far as it depends on which values are set: with   *)
(* nothing agreed, or in the fields it lists, a value beats None.          *)
LocalWins(agreedV, localV, remoteV, f) ==
  /\ localV # None
  /\ \/ f \in NonNoneField
     \/ agreedV \in {NoChange, Inherit} /\ remoteV = None
RemoteWins(agreedV, localV, remoteV, f) ==
  /\ localV = None
  /\ f \in NonNoneField \/ agreedV \in {NoChange, Inherit}

(* State.autoResolve: settle, field by field, the conflicts of m that      *)
(* resolve decides; conflicts on a record the item lacks stay.             *)
Resolvable(m, int, Wins(_, _, _, _)) ==
  [k \in Key |-> [f \in Field |->
     IF /\ m.pending.inc[k][f] # NoChange
        /\ int[k] # Blank
        /\ Wins(m.agreed[k][f], int[k][f], m.pending.inc[k][f], f)
     THEN m.pending.inc[k][f] ELSE NoChange]]

(* Mutant of AutoResolve: a local value that wins is not sent. *)
AutoResolveUnsent(m, int) ==
  LET lost == Resolvable(m, int, LocalWins)
      won == Resolvable(m, int, RemoteWins)
      kept == [k \in Key |-> [f \in Field |->
                 IF lost[k][f] = NoChange THEN NoChange ELSE int[k][f]]]
  IN  [agreed |-> RSAdd(RSAdd(m.agreed, AsDiff(kept)), AsDiff(won)),
       pending |-> DiffRemove(DiffRemove(m.pending, AsDiff(lost)), AsDiff(won)),
       send |-> m.send,
       apply |-> DiffIAdd(m.apply, AsDiff(won))]

AutoResolve(m, int) ==
  LET lost == Resolvable(m, int, LocalWins)
      won == Resolvable(m, int, RemoteWins)
      kept == [k \in Key |-> [f \in Field |->
                 IF lost[k][f] = NoChange THEN NoChange ELSE int[k][f]]]
  IN  [agreed |-> RSAdd(RSAdd(m.agreed, AsDiff(kept)), AsDiff(won)),
       pending |-> DiffRemove(DiffRemove(m.pending, AsDiff(lost)), AsDiff(won)),
       send |-> DiffIAdd(m.send, AsDiff(kept)),
       apply |-> DiffIAdd(m.apply, AsDiff(won))]

(* Mutant of Discard: the change is dropped but not agreed to. *)
DiscardWithoutAgreeing(st, change) ==
  [agreed |-> st.agreed,
   pending |-> IF CanRemove(st.pending, change)
               THEN DiffRemove(st.pending, change) ELSE st.pending]

(* State.discard: drop change from the conflicts and agree to it, so that  *)
(* the local value counts as a later edit.  A change that is no longer     *)
(* pending raises KeyError inside, which is ignored.                       *)
Discard(st, change) ==
  [agreed |-> RSAdd(st.agreed, change),
   pending |-> IF CanRemove(st.pending, change)
               THEN DiffRemove(st.pending, change) ELSE st.pending]

(* Mutant of Import: no defaults for the fields a new record leaves open. *)
ImportWithoutDefaults(rs, d) == RSAdd(rs, d)

(* importRecords on the item: a field that a new record leaves open gets   *)
(* the attribute's default.                                                *)
Import(rs, d) ==
  LET new == RSAdd(rs, d)
  IN  [k \in Key |-> IF new[k] = Blank THEN Blank
                     ELSE [f \in Field |-> IF new[k][f] = NoChange THEN None ELSE new[k][f]]]

(* explainConflicts: pending taken apart into one-field and deletion diffs. *)
FieldChange(p, k, f) == AsDiff([NoRecords EXCEPT ![k][f] = p.inc[k][f]])
Changes(p) ==
  {FieldChange(p, kf[1], kf[2]) :
     kf \in {kf \in Key \X Field : p.inc[kf[1]][kf[2]] # NoChange}}
  \cup {[inc |-> NoRecords, exc |-> {k}] : k \in p.exc}

(* Conflict.verify: the changes it finds settled by the local item, and    *)
(* discards.  A field change of a record that the item lacks is one.       *)
Settled(pending, int) ==
  [inc |-> [k \in Key |-> [f \in Field |->
              IF int[k] = Blank \/ int[k][f] = pending.inc[k][f]
              THEN pending.inc[k][f] ELSE NoChange]],
   exc |-> pending.exc \ Keys(int)]
=============================================================================
