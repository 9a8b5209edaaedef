------------------------------ MODULE EIMLoops ------------------------------
(***************************************************************************)
(* The loops behind the operators of EIM: AbstractRS.update and            *)
(* Diff._merge take the records of Python sets one at a time, in whatever  *)
(* order the sets iterate, against an index of one record per key.  One    *)
(* behaviour is one evaluation of left `op` right.                         *)
(***************************************************************************)
EXTENDS EIM

CONSTANT Operand   \* the diffs that are combined; record sets are their .inc
ASSUME OperandAssumption == Operand \subseteq Diff

VARIABLES op, left, right,   \* what is evaluated
          index,             \* _index, the inclusions of the result
          exclusions,        \* the keys of its exclusions
          conflicts,         \* _merge: keys already found in conflict
          toInclude,         \* <<key, record>> pairs still to be looped over
          toExclude

vars == <<op, left, right, index, exclusions, conflicts, toInclude, toExclude>>

Pairs(rs) == {<<k, rs[k]>> : k \in Keys(rs)}
KeysOnly(S) == {<<k, Blank>> : k \in S}

TypeOK ==
  /\ op \in {"rs+diff", "diff+diff", "rs-rs", "diff|diff"}
  /\ left \in Diff /\ right \in Diff
  /\ index \in RecordSet
  /\ exclusions \subseteq Key /\ conflicts \subseteq Key
  /\ toInclude \subseteq Key \X Record /\ toExclude \subseteq Key \X Record

Start(operation, ind, exc, incs, excs) ==
  /\ op = operation
  /\ index = ind /\ exclusions = exc /\ conflicts = {}
  /\ toInclude = incs /\ toExclude = excs

Init ==
  /\ left \in Operand /\ right \in Operand
  /\ \/ Start("rs+diff", left.inc, {}, Pairs(right.inc), KeysOnly(right.exc))
     \/ Start("diff+diff", DiffClone(left).inc, DiffClone(left).exc,
              Pairs(right.inc), KeysOnly(right.exc))
     \/ Start("rs-rs", left.inc, {}, {}, Pairs(right.inc))
     \/ Start("diff|diff", NoRecords, {}, Pairs(left.inc) \cup Pairs(right.inc),
              KeysOnly(left.exc \cup right.exc))

Merging == op = "diff|diff"

(* update(): `ind[k] += r`, or insert it. *)
UpdateInclude(k, r) ==
  /\ index' = [index EXCEPT ![k] = RecAdd(@, r)]
  /\ UNCHANGED <<exclusions, conflicts>>

(* _merge(): combine with the other side's record; nothing left, or an     *)
(* exclusion of the key, is a conflict, and so is every later record of it *)
MergeInclude(k, r) ==
  IF k \in conflicts THEN UNCHANGED <<index, exclusions, conflicts>>
  ELSE IF k \in exclusions
  THEN /\ conflicts' = conflicts \cup {k}
       /\ exclusions' = exclusions \ {k}
       /\ UNCHANGED index
  ELSE LET both == RecOr(index[k], r)
       IN  /\ index' = [index EXCEPT ![k] = both]
           /\ conflicts' = IF both = Blank THEN conflicts \cup {k} ELSE conflicts
           /\ UNCHANGED exclusions

(* Mutants of UpdateExclude: the exclusion is remembered even though it     *)
(* took effect; what is remembered is the record, not its key.              *)
UpdateExcludeAlways(k, r) ==
  /\ index' = [index EXCEPT ![k] = IF op = "rs-rs" THEN RecSub(@, r) ELSE Blank]
  /\ exclusions' = IF op = "rs+diff" THEN exclusions ELSE exclusions \cup {k}
  /\ UNCHANGED conflicts

UpdateExcludeRecord(k, r) ==
  IF index[k] # Blank
  THEN /\ index' = [index EXCEPT ![k] = IF op = "rs-rs" THEN RecSub(@, r) ELSE Blank]
       /\ UNCHANGED <<exclusions, conflicts>>
  ELSE /\ exclusions' = IF op = "rs+diff" THEN exclusions ELSE exclusions \cup {<<k, r>>}
       /\ UNCHANGED <<index, conflicts>>

(* update(): delete from the index or subtract; a key that is not there is *)
(* handed to _exclude, which only a diff remembers.                        *)
UpdateExclude(k, r) ==
  IF index[k] # Blank
  THEN /\ index' = [index EXCEPT ![k] = IF op = "rs-rs" THEN RecSub(@, r) ELSE Blank]
       /\ UNCHANGED <<exclusions, conflicts>>
  ELSE /\ exclusions' = IF op = "rs+diff" THEN exclusions ELSE exclusions \cup {k}
       /\ UNCHANGED <<index, conflicts>>

(* Mutant of MergeExclude: it forgets the keys found in conflict. *)
MergeExcludeForgetful(k) ==
  IF index[k] # Blank
  THEN /\ conflicts' = conflicts \cup {k}
       /\ index' = [index EXCEPT ![k] = Blank]
       /\ UNCHANGED exclusions
  ELSE /\ exclusions' = exclusions \cup {k}
       /\ UNCHANGED <<index, conflicts>>

(* _merge(): an exclusion of a key that is included is a conflict too. *)
MergeExclude(k) ==
  IF k \in conflicts THEN UNCHANGED <<index, exclusions, conflicts>>
  ELSE IF index[k] # Blank
  THEN /\ conflicts' = conflicts \cup {k}
       /\ index' = [index EXCEPT ![k] = Blank]
       /\ UNCHANGED exclusions
  ELSE /\ exclusions' = exclusions \cup {k}
       /\ UNCHANGED <<index, conflicts>>

Include ==
  \E p \in toInclude :
    /\ toInclude' = toInclude \ {p}
    /\ IF Merging THEN MergeInclude(p[1], p[2]) ELSE UpdateInclude(p[1], p[2])
    /\ UNCHANGED <<op, left, right, toExclude>>

Exclude ==
  /\ toInclude = {}
  /\ \E p \in toExclude :
       /\ toExclude' = toExclude \ {p}
       /\ IF Merging THEN MergeExclude(p[1]) ELSE UpdateExclude(p[1], p[2])
  /\ UNCHANGED <<op, left, right, toInclude>>

Next == Include \/ Exclude

Spec == Init /\ [][Next]_vars
-----------------------------------------------------------------------------
Defined ==
  CASE op = "rs+diff"   -> AsDiff(RSAdd(left.inc, right))
    [] op = "diff+diff" -> DiffAdd(left, right)
    [] op = "rs-rs"     -> RSSub(left.inc, right.inc)
    [] op = "diff|diff" -> DiffOr(left, right)

(* In whatever order Python iterates the sets, the loops of update() and    *)
(* _merge() end with the result the operators of EIM define key by key.     *)
LoopsComputeOperators ==
  toInclude = {} /\ toExclude = {} =>
    [inc |-> index, exc |-> exclusions] = Defined

(* The conflicts _merge() has found stay out of its result for good.        *)
ConflictsStayOut ==
  \A k \in conflicts : index[k] = Blank /\ k \notin exclusions
=============================================================================
