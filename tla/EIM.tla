-------------------------------- MODULE EIM --------------------------------
(***************************************************************************)
(* The record algebra of chandler/parcels/osaf/sharing/eim.py: records,    *)
(* record sets and diffs, with the operators `+`, `-`, `|`, remove() and   *)
(* the field filter.  Sharing computes every merge with them.              *)
(*                                                                         *)
(* A record is a function from the non-key fields to values or NoChange;   *)
(* its record type and key fields are folded into one element of Key.  A   *)
(* record whose fields are all NoChange does not exist in the code (the    *)
(* generated constructor returns the symbol NoChange in its place and      *)
(* update() skips it), so that same function, Blank, stands for "there is  *)
(* no record with this key": a record set is a total function on Key.      *)
(* Record types without a non-key field are outside the model.             *)
(***************************************************************************)
CONSTANTS Key,       \* record type + key field values of a record
          Field,     \* its other fields
          Value,     \* field values; None and Inherit are ordinary values
          NoChange   \* eim.NoChange: the record says nothing of the field

ASSUME NoChangeAssumption == NoChange \notin Value

Record == [Field -> Value \cup {NoChange}]
Blank == [f \in Field |-> NoChange]
RecordSet == [Key -> Record]
Diff == [inc : RecordSet, exc : SUBSET Key]

NoRecords == [k \in Key |-> Blank]
EmptyDiff == [inc |-> NoRecords, exc |-> {}]

Keys(rs) == {k \in Key : rs[k] # Blank}

(* Record.__sub__: what a receiver of old must be told to have new. *)
RecSub(new, old) ==
  [f \in Field |-> IF new[f] = old[f] THEN NoChange ELSE new[f]]

(* Record.__add__: new overwrites old except where it says NoChange. *)
RecAdd(old, new) ==
  [f \in Field |-> IF new[f] = NoChange THEN old[f] ELSE new[f]]

(* Record.__or__: the changes of both, without the fields that disagree. *)
RecOr(a, b) ==
  [f \in Field |->
     IF b[f] = NoChange THEN a[f]
     ELSE IF a[f] \in {NoChange, b[f]} THEN b[f] ELSE NoChange]

(* AbstractRS.update with inclusions and exclusions, on a record set.  An  *)
(* excluded key that the inclusions just created is deleted as well.       *)
RSAdd(rs, d) ==
  [k \in Key |-> IF k \in d.exc THEN Blank ELSE RecAdd(rs[k], d.inc[k])]

(* Diff.__iadd__: the same update on a diff, where the exclusion of a key  *)
(* without an inclusion is remembered -- and only that one: excluding a    *)
(* key this diff includes drops the inclusion and records nothing.         *)
DiffIAdd(d, e) ==
  [inc |-> RSAdd(d.inc, e),
   exc |-> d.exc \cup {k \in e.exc : RecAdd(d.inc[k], e.inc[k]) = Blank}]

(* Diff(inclusions, exclusions): the constructor runs update() on an empty *)
(* diff, so a key on both sides loses both.                                *)
DiffClone(d) == DiffIAdd(EmptyDiff, d)

(* AbstractRS.__add__ on a diff: clone, then +=. *)
DiffAdd(d, e) == DiffIAdd(DiffClone(d), e)

(* A diff in which no key is both included and excluded. *)
Proper(d) == \A k \in d.exc : d.inc[k] = Blank

(* Mutant of RSSub: the records that are gone are not excluded. *)
RSSubWithoutDeletions(new, old) ==
  [inc |-> [k \in Key |-> RecSub(new[k], old[k])], exc |-> {}]

(* RecordSet.__sub__: the diff that leads from old to new. *)
RSSub(new, old) ==
  [inc |-> [k \in Key |-> RecSub(new[k], old[k])],
   exc |-> Keys(old) \ Keys(new)]

(* Mutant of DiffOr: the deletion of a record beats a change of it. *)
DiffOrDeletionWins(d, e) ==
  LET exc == d.exc \cup e.exc
  IN  [inc |-> [k \in Key |-> IF k \in exc THEN Blank
                                           ELSE RecOr(d.inc[k], e.inc[k])],
       exc |-> exc]

(* Diff.__or__ / _merge: the changes of both sides that do not conflict.   *)
(* An inclusion on one side and an exclusion on the other lose both.       *)
DiffOr(d, e) ==
  LET exc == d.exc \cup e.exc
  IN  [inc |-> [k \in Key |-> IF k \in exc THEN Blank
                                           ELSE RecOr(d.inc[k], e.inc[k])],
       exc |-> exc \ (Keys(d.inc) \cup Keys(e.inc))]

(* Diff.remove: take change out of d.  It raises KeyError when change      *)
(* includes a key that d does not.                                         *)
CanRemove(d, change) == Keys(change.inc) \subseteq Keys(d.inc)
DiffRemove(d, change) ==
  [inc |-> [k \in Key |-> RecSub(d.inc[k], change.inc[k])],
   exc |-> d.exc \ change.exc]

(* A record set as the operand of an update: inclusions only. *)
AsDiff(rs) == [inc |-> rs, exc |-> {}]

(* Filter.sync_filter: filtered fields become NoChange, in a record set as *)
(* in the inclusions of a diff, which is then built anew; exclusions stay. *)
FilterRec(r, S) == [f \in Field |-> IF f \in S THEN NoChange ELSE r[f]]
FilterRS(rs, S) == [k \in Key |-> FilterRec(rs[k], S)]
FilterDiff(d, S) == DiffClone([inc |-> FilterRS(d.inc, S), exc |-> d.exc])
=============================================================================
