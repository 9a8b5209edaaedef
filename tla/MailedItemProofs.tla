-------------------------- MODULE MailedItemProofs --------------------------
(***************************************************************************)
(* An item that is mailed to and fro keeps what its user changed, and       *)
(* without such changes is the newest message that came, in whichever order *)
(* messages come.  MailedItem leaves the filters of outbound mail out, so   *)
(* that every theorem assumes that no field is filtered.                    *)
(***************************************************************************)
EXTENDS MailedItem, StateMergeProofs

Newest == IF version = 0 THEN NoRecords ELSE sent[version]

(* Until our user first touches the item nothing is pending, and both what  *)
(* was agreed and the item are what the last message said, which is also    *)
(* the newest that came.                                                   *)
UntouchedFollows ==
  ~edited => state.pending = EmptyDiff /\ state.agreed = local /\ local = Newest

MailInv ==
  /\ TypeOK
  /\ newest = version
  /\ UntouchedFollows

LEMMA BaseType ==
  ASSUME base \in RecordSet, local \in FullRecordSet, NEW d \in Diff, Apply(d)
  PROVE  local' \in FullRecordSet /\ base' \in RecordSet
<1>1. local' \in FullRecordSet
  BY ImportType DEF Apply
<1>2. local' \in RecordSet
  BY <1>1 DEF FullRecordSet
<1>3. \A k \in Key, f \in Field :
        (IF local'[k][f] = local[k][f] THEN base[k][f] ELSE local'[k][f]) \in Value \cup {NoChange}
  BY <1>2 DEF RecordSet, Record
<1> QED
  BY <1>1, <1>3 DEF Apply, RecordSet, Record

LEMMA DiscardInState ==
  ASSUME NEW st \in State, NEW c \in Diff
  PROVE  Discard(st, c) \in State
  BY AddType, RemoveType DEF Discard, State

(* A message is taken in by a merge with what it says. *)
ReceivesWith(m, n) ==
  /\ MergeGood(m, sent[n])
  /\ \A k \in Key : Honest(m, state, local, sent[n], k) /\ Yields(m, state, local, sent[n], k)
  /\ Settle(m)

LEMMA MessageIsFull ==
  ASSUME TypeOK, NEW n \in DOMAIN sent
  PROVE  /\ n \in 1..Len(sent) /\ Len(sent) \in Nat
         /\ sent[n] \in FullRecordSet
  BY DEF TypeOK

LEMMA InboundIsMerge ==
  ASSUME Filtered = {}, TypeOK, NEW n \in DOMAIN sent, Inbound(n)
  PROVE  \E m : ReceivesWith(m, n)
<1> DEFINE ext == sent[n]
           merged == MergeReadWrite(state, local, ext)
           resolved == AutoResolve(merged, local)
<1>1. PICK m : (m = merged \/ m = resolved) /\ Settle(m)
  BY DEF Inbound
<1>2. ext \in RecordSet /\ SaysAll(ext)
  BY MessageIsFull, FullFacts
<1>3. /\ state.agreed \in RecordSet /\ local \in FullRecordSet
      /\ \A k \in Key, f \in Filtered : state.agreed[k][f] = NoChange
  BY DEF TypeOK, State
<1> HIDE DEF ext
<1>4. /\ MergeGood(merged, ext)
      /\ \A k \in Key : Honest(merged, state, local, ext, k) /\ Cautious(merged, state, local, ext, k)
  BY <1>2, <1>3, MergeFacts, HonestMerge
<1> HIDE DEF merged
<1>5. CASE m = merged
  <2>1. \A k \in Key : Yields(m, state, local, ext, k)
    BY <1>4, <1>5 DEF Cautious, Yields
  <2> QED
    BY <1>1, <1>4, <1>5, <2>1 DEF ReceivesWith, ext
<1>6. CASE m = resolved
  <2>1. MergeGood(m, ext)
    BY <1>2, <1>3, <1>4, <1>6, AutoResolveFacts
  <2>2. ASSUME NEW k \in Key PROVE Honest(m, state, local, ext, k) /\ Yields(m, state, local, ext, k)
    BY <1>2, <1>3, <1>4, <1>6, HonestResolve
  <2> QED
    BY <1>1, <2>1, <2>2 DEF ReceivesWith, ext
<1> QED
  BY <1>1, <1>5, <1>6

LEMMA InboundStep ==
  ASSUME Filtered = {}, MailInv, NEW n \in DOMAIN sent, Inbound(n)
  PROVE  MailInv'
<1>1. TypeOK /\ newest = version /\ UntouchedFollows
  BY DEF MailInv
<1>2. /\ n \in 1..Len(sent) /\ Len(sent) \in Nat /\ sent[n] \in FullRecordSet
  BY <1>1, MessageIsFull
<1>3. /\ n > version /\ version' = n /\ sent' = sent /\ edited' = edited
      /\ holders' = holders \cup {"us"} /\ newest' = Larger(n, newest)
  BY DEF Inbound
<1>4. newest' = n
  BY <1>1, <1>2, <1>3 DEF Larger, TypeOK
<1>5. PICK m : ReceivesWith(m, n)
  BY <1>1, InboundIsMerge
<1>6. /\ m.agreed \in RecordSet /\ m.pending \in Diff /\ m.apply \in Diff
      /\ state' = [agreed |-> m.agreed, pending |-> m.pending] /\ Apply(m.apply)
  BY <1>5 DEF ReceivesWith, MergeGood, Settle
<1>7. local' \in FullRecordSet /\ base' \in RecordSet
  BY <1>1, <1>6, BaseType DEF TypeOK
<1>8. TypeOK'
  BY <1>1, <1>2, <1>3, <1>4, <1>6, <1>7 DEF TypeOK, State
<1>9. UntouchedFollows'
  <2>1. SUFFICES ASSUME ~edited
                 PROVE  (state.pending = EmptyDiff /\ state.agreed = local /\ local = Newest)'
    BY <1>3 DEF UntouchedFollows
  <2>2. state.agreed = local /\ state \in State /\ state.agreed \in FullRecordSet
    BY <1>1, <2>1 DEF UntouchedFollows, TypeOK
  <2> DEFINE merged == MergeReadWrite(state, local, sent[n])
  <2>3. /\ merged.agreed = sent[n] /\ merged.pending = EmptyDiff
        /\ Import(local, merged.apply) = sent[n]
    BY <1>2, <2>2, MergeUntouched
  <2>4. Settle(merged)
    BY <2>3 DEF Inbound
  <2> HIDE DEF merged
  <2>5. state'.agreed = sent[n] /\ state'.pending = EmptyDiff /\ local' = sent[n]
    BY <2>3, <2>4 DEF Settle, Apply
  <2>6. Newest' = sent[n]
    BY <1>2, <1>3 DEF Newest
  <2> QED
    BY <2>5, <2>6
<1> QED
  BY <1>1, <1>3, <1>4, <1>8, <1>9 DEF MailInv

LEMMA MailInit == Init => MailInv
<1> SUFFICES ASSUME Init PROVE MailInv
  OBVIOUS
<1>1. NoRecords \in RecordSet /\ EmptyDiff \in Diff
  BY ConstantTypes
<1>2. NoRecords \in FullRecordSet
  BY <1>1 DEF FullRecordSet, Keys, NoRecords
<1>3. local \in FullRecordSet
  BY <1>2 DEF Init
<1>4. TypeOK
  BY <1>1, <1>3 DEF Init, TypeOK, NewState, State
<1>5. UntouchedFollows
  BY DEF Init, UntouchedFollows, NewState, Newest
<1> QED
  BY <1>4, <1>5 DEF Init, MailInv

LEMMA MailNext ==
  ASSUME Filtered = {}, MailInv, [Next]_vars
  PROVE  MailInv'
<1>1. TypeOK /\ newest = version /\ UntouchedFollows
  BY DEF MailInv
<1>2. CASE Edit
  BY <1>1, <1>2 DEF Edit, TypeOK, UntouchedFollows, MailInv
<1>3. CASE PeerSends
  <2>1. PICK rs \in FullRecordSet : sent' = Append(sent, rs)
    BY <1>3 DEF PeerSends
  <2>2. /\ sent' \in Seq(FullRecordSet) /\ Len(sent') = Len(sent) + 1 /\ Len(sent) \in Nat
        /\ \A i \in 1..Len(sent) : sent'[i] = sent[i]
    BY <1>1, <2>1 DEF TypeOK
  <2>3. UNCHANGED <<local, state, version, holders, newest, edited, base>>
    BY <1>3 DEF PeerSends
  <2>4. Newest' = Newest
    BY <1>1, <2>2, <2>3 DEF Newest, TypeOK
  <2>5. TypeOK'
    BY <1>1, <2>2, <2>3 DEF TypeOK
  <2> QED
    BY <1>1, <2>3, <2>4, <2>5 DEF MailInv, UntouchedFollows
<1>4. CASE Receive
  BY <1>4, InboundStep DEF Receive
<1>5. CASE Outbound
  <2>1. state' \in State /\ state'.agreed = local /\ state'.pending = EmptyDiff
    BY <1>1, <1>5 DEF Outbound, TypeOK, State, FullRecordSet
  <2>2. /\ UNCHANGED <<local, version, sent, newest, edited>> /\ Newest' = Newest
        /\ base' = local /\ holders' = holders \cup {"peer"}
    BY <1>5 DEF Outbound, Newest
  <2>3. TypeOK'
    BY <1>1, <2>1, <2>2 DEF TypeOK, FullRecordSet
  <2> QED
    BY <1>1, <2>1, <2>2, <2>3 DEF MailInv, UntouchedFollows
<1>6. CASE LookAtConflicts
  <2>1. Settled(state.pending, local) \in Diff
    BY <1>1, SettledIsPart DEF TypeOK, State, PartOf
  <2>2. state' \in State
    BY <1>1, <1>6, <2>1, DiscardInState DEF LookAtConflicts, TypeOK
  <2>3. UNCHANGED <<local, version, sent, holders, newest, edited, base>> /\ edited
    BY <1>1, <1>6 DEF LookAtConflicts, UntouchedFollows, TypeOK
  <2>4. TypeOK'
    BY <1>1, <2>2, <2>3 DEF TypeOK
  <2> QED
    BY <1>1, <2>3, <2>4 DEF MailInv, UntouchedFollows
<1>7. CASE Decide
  <2>1. PICK c \in Changes(state.pending) : Accept(c) \/ Reject(c)
    BY <1>7 DEF Decide
  <2>2. c \in Diff
    BY <1>1, ChangesArePart DEF TypeOK, State, PartOf
  <2>3. /\ state' = Discard(state, c)
        /\ local' \in FullRecordSet /\ base' \in RecordSet
    <3>1. CASE Accept(c)
      BY <1>1, <2>2, <3>1, AcceptIsDiscard, BaseType DEF Accept, TypeOK
    <3>2. CASE Reject(c)
      BY <1>1, <3>2 DEF Reject, TypeOK
    <3> QED
      BY <2>1, <3>1, <3>2
  <2>4. state' \in State
    BY <1>1, <2>2, <2>3, DiscardInState DEF TypeOK
  <2>5. UNCHANGED <<version, sent, holders, newest>> /\ edited' = TRUE
    BY <1>7 DEF Decide
  <2>6. TypeOK'
    BY <1>1, <2>3, <2>4, <2>5 DEF TypeOK
  <2> QED
    BY <1>1, <2>5, <2>6 DEF MailInv, UntouchedFollows
<1>8. CASE UNCHANGED vars
  BY <1>1, <1>8 DEF vars, MailInv, TypeOK, UntouchedFollows, Newest
<1> QED
  BY <1>2, <1>3, <1>4, <1>5, <1>6, <1>7, <1>8 DEF Next

LEMMA MailEditsStep ==
  ASSUME Filtered = {}, MailInv
  PROVE  KeepsEdits
<1> SUFFICES ASSUME NEW n \in DOMAIN sent, Inbound(n), NEW k \in Key, NEW f \in Field,
                    local[k][f] # state.agreed[k][f], local'[k][f] # local[k][f]
             PROVE  Decided(f, local[k][f], sent[n][k][f])
  BY DEF KeepsEdits, Receive, Inbound, Decided
<1>1. PICK m : ReceivesWith(m, n)
  BY InboundIsMerge DEF MailInv
<1>2. /\ m.apply \in Diff /\ local' = Import(local, m.apply)
      /\ Honest(m, state, local, sent[n], k) /\ Yields(m, state, local, sent[n], k)
      /\ local \in RecordSet /\ f \in Unfiltered
  BY <1>1 DEF ReceivesWith, MergeGood, Settle, Apply, MailInv, TypeOK, FullRecordSet, Unfiltered
<1>3. local'[k][f] = Applied(m, local)[k][f]
  BY <1>2, ImportAt DEF Honest, Applied
<1> QED
  BY <1>2, <1>3 DEF Yields

(* An item that is mailed stays whole, and its sync state well formed,     *)
(* whatever messages come in whatever order and however conflicts are      *)
(* decided (inbound, outbound, State.merge, autoResolve, discard).         *)
THEOREM MailedTypeTheorem ==
  ASSUME Filtered = {}
  PROVE  Spec => []TypeOK
<1>1. Init => MailInv
  BY MailInit
<1>2. MailInv /\ [Next]_vars => MailInv'
  BY MailNext
<1>3. MailInv => TypeOK
  BY DEF MailInv
<1> QED
  BY <1>1, <1>2, <1>3, PTL DEF Spec

(* As long as its user leaves the item alone it is the newest of the       *)
(* messages that came: inbound() refuses what is overtaken, and the merge  *)
(* with an untouched item leaves no conflict and drops nothing.            *)
THEOREM NewestTheorem ==
  ASSUME Filtered = {}
  PROVE  Spec => []FollowsNewest
<1>1. Init => MailInv
  BY MailInit
<1>2. MailInv /\ [Next]_vars => MailInv'
  BY MailNext
<1>3. MailInv => FollowsNewest
  BY DEF MailInv, UntouchedFollows, FollowsNewest, Newest
<1> QED
  BY <1>1, <1>2, <1>3, PTL DEF Spec

(* A message overwrites no field that the user changed since both agreed,  *)
(* unless one side has no value or translator.resolve lists the field.     *)
THEOREM MailEditsTheorem ==
  ASSUME Filtered = {}
  PROVE  Spec => [][KeepsEdits]_vars
<1>1. Init => MailInv
  BY MailInit
<1>2. MailInv /\ [Next]_vars => MailInv'
  BY MailNext
<1>3. MailInv => KeepsEdits
  BY MailEditsStep
<1> QED
  BY <1>1, <1>2, <1>3, PTL DEF Spec
=============================================================================
