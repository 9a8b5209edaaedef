-------------------------- MODULE MailDownloadProofs --------------------------
(***************************************************************************)
(* Proofs about MailDownload, for any number of messages, whichever of     *)
(* them carry Chandler's header, any batch sizes and any bounds.           *)
(***************************************************************************)
EXTENDS MailDownload, FiniteSetTheorems, TLAPS

-----------------------------------------------------------------------------
(* The type.  TypeOK says that a batch and what is still pending have no     *)
(* message in common, which takes that nothing is pending twice; requests    *)
(* other than "mail" carry no messages, and a worker that is not busy has    *)
(* no request.                                                             *)
Sound == {r \in Request : r.kind # "mail" => r.mail = {}}

SessionOver ==
  /\ client.pending = <<>> /\ client.batch = {}
  /\ client.passed = {} /\ client.searched = {}

PendingOnce ==
  \A i, j \in DOMAIN client.pending : client.pending[i] = client.pending[j] => i = j

TypeInv ==
  /\ TypeOK
  /\ queue \in Seq(Sound) /\ worker.request \in Sound
  /\ worker.phase # "busy" => worker.request = NoRequest
  /\ quit \in {"no", "stopping"} => worker.alive
  /\ client.phase # "fetching" => SessionOver
  /\ client.phase \notin {"connecting", "mute"} => client.known = {}
  /\ client.phase = "fetching" /\ client.pending = <<>> => client.batch = {}
  /\ PendingOnce
  /\ ~Imap => \A u \in UID : lost[u] # "left"
-----------------------------------------------------------------------------
(* Nothing is skipped.  What becomes of a message u: it is settled, for good *)
(* or ill, or held by a living worker or its queue, or by the client.       *)
Settled(u) == u \in store.mail \/ lost[u] # "no"
QueuedBefore(u, n) == \E i \in DOMAIN queue : i < n /\ u \in queue[i].mail
Held(u) ==
  \/ Settled(u)
  \/ /\ worker.phase # "dead"
     /\ u \in worker.request.mail \/ \E i \in DOMAIN queue : u \in queue[i].mail
WithClient(u) == u \in client.batch \/ \E i \in DOMAIN client.pending : client.pending[i] = u
AccountedFor(u) == Held(u) \/ WithClient(u)

(* POP: what the worker takes out of the queue it settles, in the order in   *)
(* which it was put there, so that UIDs are passed over after the messages   *)
(* they belong to; what is pending may be forgotten at any moment.          *)
PopKeeps(u) ==
  /\ u \in store.passed => Settled(u)
  /\ worker.request.kind = "uid" /\ u \in worker.request.passed => Settled(u)
  /\ quit = "no" /\ worker.phase # "dead" =>
       /\ u \in client.searched => AccountedFor(u)
       /\ \A i \in DOMAIN queue : queue[i].kind = "uid" /\ u \in queue[i].passed =>
            Settled(u) \/ u \in worker.request.mail \/ QueuedBefore(u, i)

(* IMAP: wherever a UID that will be noted is on its way to the repository, *)
(* all that is below it is accounted for.                                  *)
Promised(u) ==
  \/ u \in Handed
  \/ u \in client.known \cup client.passed \cup client.searched
  \/ \E i \in DOMAIN client.pending : u <= client.pending[i]

-----------------------------------------------------------------------------
(* As long as nothing has gone wrong since all was last quiet, there is at   *)
(* most one thing under way that will release the lock, none while a session *)
(* is downloading, and a request that is owed an answer, as all are but      *)
(* those of a POP client that searches and finds nothing, is followed by    *)
(* one that says it is done.                                               *)
DoneQueued == \E i \in DOMAIN queue : queue[i].kind = "done"
DoneBusy == Busy("done")
Releasing == exits[TRUE] # 0
Owed(r) == r.kind = "mail" \/ (r.kind = "uid" /\ (Imap \/ ~account.search))
OwedWaits == Owed(worker.request) \/ \E i \in DOMAIN queue : Owed(queue[i])

Going ==
  /\ quit = "no" /\ worker.phase # "dead" /\ orphans = 0
  /\ client.phase \in {"idle", "connecting", "fetching", "closing"}
  /\ \A i \in DOMAIN inbox : inbox[i] = "done"
  /\ exits[TRUE] <= 1 /\ Len(inbox) <= 1
  /\ \A i \in DOMAIN queue : queue[i].kind = "done" => i = Len(queue)

OneRelease ==
  /\ Releasing => inbox = <<>> /\ ~DoneBusy /\ ~DoneQueued
  /\ inbox # <<>> => ~DoneBusy /\ ~DoneQueued
  /\ DoneBusy => ~DoneQueued
  /\ Downloading => client.locked
  /\ Downloading \/ ~client.locked =>
       ~Releasing /\ inbox = <<>> /\ ~DoneBusy /\ ~DoneQueued

OwedIsFollowed ==
  OwedWaits => \/ DoneQueued
               \/ client.phase = "fetching" /\ (Imap \/ client.pending # <<>>)

Orderly == Going /\ OneRelease /\ OwedIsFollowed

(* A POP client that does not search fetches all that it will note as seen.  *)
NothingUnread ==
  client.phase = "fetching" /\ client.pending = <<>> /\ ~Imap /\ ~account.search =>
    client.searched = {}

LockInv == TypeInv /\ NothingUnread /\ (~cut => Orderly)

MailInv ==
  /\ LockInv
  /\ ~Imap => \A u \in Wanted : PopKeeps(u)
  /\ Imap => \A u \in Wanted : Promised(u) => AccountedFor(u)

-----------------------------------------------------------------------------
(* Requests and the type.                                                  *)
Session ==
  [locked : BOOLEAN,
   phase : {"idle", "connecting", "fetching", "closing", "failed", "mute", "stalled"},
   known : SUBSET UID, pending : Seq(UID), batch : SUBSET UID,
   passed : SUBSET UID, searched : SUBSET UID]

ClientOK ==
  /\ client \in Session
  /\ client.phase = "fetching" => client.batch \cap Range(client.pending) = {}
  /\ \E n \in Batches : Cardinality(client.batch) < n
  /\ client.phase # "fetching" => SessionOver
  /\ client.phase \notin {"connecting", "mute"} => client.known = {}
  /\ client.phase = "fetching" /\ client.pending = <<>> => client.batch = {}
  /\ PendingOnce

WorkerOK ==
  /\ queue \in Seq(Request)
  /\ worker \in [phase : {"ready", "waiting", "busy", "dead"}, alive : BOOLEAN,
                 request : Request]
  /\ worker.phase = "waiting" => worker.alive /\ queue = <<>>
  /\ queue \in Seq(Sound) /\ worker.request \in Sound
  /\ worker.phase # "busy" => worker.request = NoRequest
  /\ quit \in {"no", "stopping"} => worker.alive
  /\ quit \in {"no", "stopping", "joining", "joined"}

RestOK ==
  /\ account \in [protocol : {"IMAP", "POP"}, search : BOOLEAN]
  /\ mailbox \in 0..MaxUID
  /\ store \in [mail : SUBSET UID, passed : SUBSET UID]
  /\ exits \in [BOOLEAN -> Nat] /\ orphans \in Nat
  /\ inbox \in Seq({"done", "error"})
  /\ lost \in [UID -> {"no"} \cup Losses] /\ cut \in BOOLEAN
  /\ ~Imap => \A u \in UID : lost[u] # "left"

LEMMA TypeByPart == TypeInv <=> ClientOK /\ WorkerOK /\ RestOK
  BY DEF TypeInv, TypeOK, ClientOK, WorkerOK, RestOK, Session

LEMMA EmptyBatch == IsFiniteSet({}) /\ Cardinality({}) = 0 /\ \E n \in Batches : 0 < n
<1>1. PICK n \in Batches : TRUE
  BY MailAssumption
<1>2. n \in Nat \ {0}
  BY MailAssumption
<1> QED
  BY <1>1, <1>2, FS_EmptySet

(* A batch with one more message is finite; it is no larger than before if   *)
(* it was already there, and otherwise larger by one.                       *)
LEMMA BatchSize ==
  ASSUME NEW B \in SUBSET UID, NEW u \in UID
  PROVE  /\ Cardinality(B) \in Nat /\ Cardinality(B \cup {u}) \in Nat
         /\ Cardinality(B \cup {u}) \in {Cardinality(B), Cardinality(B) + 1}
<1>1. IsFiniteSet(1..MaxUID)
  BY MailAssumption, FS_Interval
<1>2. IsFiniteSet(B)
  BY <1>1, FS_Subset DEF UID
<1> QED
  BY <1>2, FS_AddElement, FS_CardinalityType

LEMMA HeadAndTail ==
  ASSUME NEW S, NEW q \in Seq(S), q # <<>>
  PROVE  /\ Head(q) \in S /\ Tail(q) \in Seq(S) /\ 1 \in DOMAIN q /\ Head(q) = q[1]
         /\ \A i \in DOMAIN Tail(q) : i + 1 \in DOMAIN q /\ Tail(q)[i] = q[i + 1]
         /\ \A i \in DOMAIN q : i = 1 \/ (i - 1 \in DOMAIN Tail(q) /\ q[i] = Tail(q)[i - 1])
  OBVIOUS

LEMMA RangeSplit ==
  ASSUME NEW S, NEW q \in Seq(S), q # <<>>
  PROVE  \A x : x \in Range(q) <=> x = Head(q) \/ x \in Range(Tail(q))
<1>1. ASSUME NEW x, x \in Range(q) PROVE x = Head(q) \/ x \in Range(Tail(q))
  <2>1. PICK i \in DOMAIN q : x = q[i]
    BY <1>1 DEF Range
  <2> QED
    BY <2>1, HeadAndTail DEF Range
<1>2. ASSUME NEW x, x \in Range(Tail(q)) PROVE x \in Range(q)
  <2>1. PICK i \in DOMAIN Tail(q) : x = Tail(q)[i]
    BY <1>2 DEF Range
  <2> QED
    BY <2>1, HeadAndTail DEF Range
<1>3. Head(q) \in Range(q)
  BY HeadAndTail DEF Range
<1>4. ASSUME NEW x PROVE x \in Range(q) <=> x = Head(q) \/ x \in Range(Tail(q))
  BY <1>1, <1>2, <1>3
<1> QED
  BY <1>4

LEMMA TypeInit == Init => TypeInv
<1> SUFFICES ASSUME Init PROVE TypeInv
  OBVIOUS
<1>1. ClientOK
  BY EmptyBatch DEF Init, NoSession, ClientOK, Session, SessionOver, PendingOnce, Range
<1>2. WorkerOK
  BY DEF Init, WorkerOK, NoRequest, Request, Sound
<1>3. RestOK
  <2>1. /\ mailbox \in 0..MaxUID /\ exits \in [BOOLEAN -> Nat] /\ orphans \in Nat
        /\ inbox \in Seq({"done", "error"})
    BY MailAssumption DEF Init
  <2>2. lost \in [UID -> {"no"} \cup Losses] /\ \A u \in UID : lost[u] # "left"
    BY DEF Init
  <2> QED
    BY <2>1, <2>2 DEF Init, RestOK
<1> QED
  BY <1>1, <1>2, <1>3, TypeByPart

(* What the client's session may become when it does not fetch.            *)
Phases == {"idle", "connecting", "fetching", "closing", "failed", "mute", "stalled"}

LEMMA NoSessionFields ==
  /\ NoSession \in Session
  /\ NoSession.locked = FALSE /\ NoSession.phase = "idle" /\ NoSession.known = {}
  /\ NoSession.pending = <<>> /\ NoSession.batch = {}
  /\ NoSession.passed = {} /\ NoSession.searched = {}
<1>1. <<>> \in Seq(UID)
  OBVIOUS
<1> QED
  BY <1>1 DEF NoSession, Session

LEMMA FreshClient ==
  ASSUME NEW l \in BOOLEAN, NEW p \in Phases \ {"fetching", "connecting"},
         client' = [NoSession EXCEPT !.locked = l, !.phase = p]
  PROVE  ClientOK' /\ client'.phase = p /\ client'.locked = l
<1>1. /\ client' \in Session /\ client'.locked = l /\ client'.phase = p
      /\ client'.known = {} /\ client'.pending = <<>> /\ client'.batch = {}
      /\ client'.passed = {} /\ client'.searched = {}
  BY NoSessionFields DEF Session, Phases
<1>2. DOMAIN client'.pending = {}
  BY <1>1
<1>3. UID' = UID
  BY DEF UID
<1> QED
  BY <1>1, <1>2, <1>3, EmptyBatch DEF ClientOK, SessionOver, PendingOnce, Session

LEMMA ClientNext ==
  ASSUME TypeInv, [Next]_vars
  PROVE  ClientOK'
<1>0. ClientOK /\ RestOK
  BY TypeByPart
<1>1. client \in Session /\ store \in [mail : SUBSET UID, passed : SUBSET UID]
  BY <1>0 DEF ClientOK, RestOK
<1>2. CASE UNCHANGED client
  BY <1>0, <1>2 DEF ClientOK, SessionOver, PendingOnce
<1>3. ASSUME NEW l \in BOOLEAN, client' = [client EXCEPT !.locked = l] PROVE ClientOK'
  <2>1. /\ client'.phase = client.phase /\ client'.known = client.known
        /\ client'.pending = client.pending /\ client'.batch = client.batch
        /\ client'.passed = client.passed /\ client'.searched = client.searched
    BY <1>1, <1>3 DEF Session
  <2>2. client' \in Session
    BY <1>1, <1>3 DEF Session
  <2>3. UID' = UID
    BY DEF UID
  <2> QED
    BY <1>0, <2>1, <2>2, <2>3 DEF ClientOK, SessionOver, PendingOnce, Session
<1>4. CASE Connect
  <2>1. client' = [NoSession EXCEPT !.locked = TRUE, !.phase = "connecting", !.known = store.passed]
    BY <1>4 DEF Connect
  <2>2. /\ client' \in Session /\ client'.phase = "connecting" /\ client'.pending = <<>>
        /\ client'.batch = {} /\ client'.passed = {} /\ client'.searched = {}
    BY <1>1, <2>1, NoSessionFields DEF Session
  <2>3. DOMAIN client'.pending = {}
    BY <2>2
  <2>4. UID' = UID
    BY DEF UID
  <2> QED
    BY <2>2, <2>3, <2>4, EmptyBatch DEF ClientOK, SessionOver, PendingOnce, Session
<1>5. ASSUME NEW p \in {"closing", "failed"}, client' = Leave(p) PROVE ClientOK'
  <2>1. client' = [NoSession EXCEPT !.locked = client.locked, !.phase = p]
    BY <1>5 DEF Leave
  <2>2. client.locked \in BOOLEAN
    BY <1>1 DEF Session
  <2> QED
    BY <2>1, <2>2, FreshClient DEF Phases
<1>6. CASE Finish \/ ServerError
  BY <1>5, <1>6 DEF Finish, ServerError
<1>7. ASSUME NEW r \in BOOLEAN, Disconnected(r) PROVE ClientOK'
  <2> DEFINE l == client.locked /\ ~r
             p == IF l /\ client.phase \in {"mute", "stalled"} THEN "stalled" ELSE "idle"
  <2>1. client' = [NoSession EXCEPT !.locked = l, !.phase = p]
    BY <1>7 DEF Disconnected
  <2>2. l \in BOOLEAN /\ p \in {"stalled", "idle"}
    OBVIOUS
  <2> HIDE DEF p, l
  <2> QED
    BY <2>1, <2>2, FreshClient DEF Phases
<1>8. CASE client' = NoSession
  <2>1. DOMAIN client'.pending = {}
    BY <1>8, NoSessionFields
  <2>2. UID' = UID
    BY DEF UID
  <2> QED
    BY <1>8, <2>1, <2>2, NoSessionFields, EmptyBatch
       DEF ClientOK, SessionOver, PendingOnce, Session
<1>9. CASE RequestsComplete \/ CatchWorkerError \/ OrphanFails
  BY <1>2, <1>3, <1>8, <1>9 DEF RequestsComplete, CatchWorkerError, OrphanFails
<1>13. ASSUME NEW p \in {"mute", "connecting", "stalled"}, client' = [client EXCEPT !.phase = p],
              client.phase \in {"mute", "connecting", "idle"},
              p = "stalled" => client.phase = "idle"
       PROVE  ClientOK'
  <2>1. /\ client'.phase = p /\ client'.known = client.known
        /\ client'.pending = client.pending /\ client'.batch = client.batch
        /\ client'.passed = client.passed /\ client'.searched = client.searched
    BY <1>1, <1>13 DEF Session
  <2>2. client' \in Session
    BY <1>1, <1>13 DEF Session
  <2>3. UID' = UID
    BY DEF UID
  <2> QED
    BY <1>0, <1>13, <2>1, <2>2, <2>3 DEF ClientOK, SessionOver, PendingOnce, Session
<1>14. CASE TimeoutBeforeGreeting \/ MuteServerCloses \/ OrphanStalls
  BY <1>2, <1>5, <1>13, <1>14 DEF TimeoutBeforeGreeting, MuteServerCloses, OrphanStalls
<1>10. CASE CheckForNewMessages
  <2>1. PICK known \in {client.known, store.passed} :
          LET new == 1..mailbox \ known
          IN  \E order \in Orders(new \cap Wanted) :
                client' = [client EXCEPT !.phase = "fetching", !.pending = order, !.known = {},
                             !.passed = IF Imap THEN known ELSE {},
                             !.searched = IF ~Imap THEN new
                                          ELSE IF account.search /\ new # {} THEN 1..mailbox ELSE {}]
    BY <1>10 DEF CheckForNewMessages
  <2> DEFINE new == 1..mailbox \ known
  <2>2. PICK order \in Orders(new \cap Wanted) :
          client' = [client EXCEPT !.phase = "fetching", !.pending = order, !.known = {},
                       !.passed = IF Imap THEN known ELSE {},
                       !.searched = IF ~Imap THEN new
                                    ELSE IF account.search /\ new # {} THEN 1..mailbox ELSE {}]
    BY <2>1
  <2>3. known \subseteq UID /\ 1..mailbox \subseteq UID
    BY <1>0, <1>1, MailAssumption DEF Session, RestOK, UID
  <2>4. order \in [1..Cardinality(new \cap Wanted) -> new \cap Wanted]
        /\ \A i, j \in DOMAIN order : order[i] = order[j] => i = j
    BY <2>2 DEF Orders, SetToSeqs
  <2>5. Cardinality(new \cap Wanted) \in Nat
    <3>1. IsFiniteSet(UID)
      BY MailAssumption, FS_Interval DEF UID
    <3>2. new \cap Wanted \in SUBSET UID
      BY <2>3
    <3> HIDE DEF new
    <3> QED
      BY <3>1, <3>2, FS_Subset, FS_CardinalityType
  <2>6. order \in Seq(UID)
    <3> DEFINE S == new \cap Wanted
               n == Cardinality(S)
    <3>1. S \subseteq UID /\ order \in [1..n -> S] /\ n \in Nat
      BY <2>3, <2>4, <2>5
    <3> HIDE DEF S, n
    <3>2. order \in Seq(S)
      BY <3>1
    <3> QED
      BY <3>1, <3>2
  <2>7. client.phase = "connecting"
    BY <1>10 DEF CheckForNewMessages
  <2>8. client.batch = {}
    BY <1>0, <2>7 DEF ClientOK, SessionOver
  <2>9. /\ client'.phase = "fetching" /\ client'.pending = order /\ client'.known = {}
        /\ client'.batch = {} /\ client' \in Session
    BY <1>1, <2>2, <2>3, <2>6, <2>8 DEF Session
  <2>10. UID' = UID
    BY DEF UID
  <2> QED
    BY <2>4, <2>9, <2>10, EmptyBatch DEF ClientOK, PendingOnce, Session
<1>11. CASE FetchMessage
  <2> DEFINE uid == Head(client.pending)
             rest == Tail(client.pending)
             batch == client.batch \cup {uid}
  <2>1. CASE client' = Leave("closing")
    BY <1>5, <2>1
  <2>2. CASE client' # Leave("closing")
    <3>1. PICK full \in BatchFull(batch, rest) :
            client' = [client EXCEPT !.pending = rest,
                                     !.passed = IF Imap THEN client.passed \cup 1..uid ELSE {},
                                     !.batch = IF full THEN {} ELSE batch]
      BY <1>11, <2>2 DEF FetchMessage
    <3>2. /\ client.phase = "fetching" /\ client.pending \in Seq(UID) /\ client.pending # <<>>
          /\ client.batch \subseteq UID /\ client.passed \subseteq UID
      BY <1>1, <1>11 DEF FetchMessage, Session
    <3>3. uid \in UID /\ rest \in Seq(UID) /\ 1..uid \subseteq UID
      <4>1. uid \in UID /\ rest \in Seq(UID)
        BY <3>2
      <4> HIDE DEF uid
      <4> QED
        BY <4>1, MailAssumption DEF UID
    <3>4. /\ client'.phase = "fetching" /\ client'.pending = rest /\ client'.known = client.known
          /\ client'.batch = (IF full THEN {} ELSE batch) /\ client' \in Session
      <4> DEFINE p == IF Imap THEN client.passed \cup 1..uid ELSE {}
                 b == IF full THEN {} ELSE batch
      <4>1. p \in SUBSET UID /\ b \in SUBSET UID
        BY <3>2, <3>3
      <4>2. client' = [client EXCEPT !.pending = rest, !.passed = p, !.batch = b]
        BY <3>1
      <4> HIDE DEF p, b, rest
      <4>3. client'.phase = client.phase /\ client'.pending = rest /\ client'.known = client.known
            /\ client'.batch = b /\ client' \in Session
        BY <1>1, <4>1, <4>2, <3>3 DEF Session
      <4> QED
        BY <3>2, <4>3 DEF b
    <3>5. PendingOnce'
      BY <1>0, <3>2, <3>4, HeadAndTail DEF ClientOK, PendingOnce
    <3>6. uid \notin Range(rest)
      BY <1>0, <3>2, HeadAndTail DEF ClientOK, PendingOnce, Range
    <3>7. (client.batch \cap Range(client.pending))' = {}
      <4>1. \A x : x \in Range(client.pending) <=> x = uid \/ x \in Range(rest)
        BY <3>2, RangeSplit
      <4>2. client.batch \cap Range(client.pending) = {}
        BY <1>0, <3>2 DEF ClientOK
      <4>3. batch \cap Range(rest) = {}
        BY <3>6, <4>1, <4>2
      <4> QED
        BY <3>4, <4>3
    <3>8. (\E n \in Batches : Cardinality(client.batch) < n)'
      <4>1. CASE full
        BY <3>4, <4>1, EmptyBatch
      <4>2. CASE ~full
        <5>1. PICK n \in Batches : n >= Cardinality(batch) /\ full = (rest = <<>> \/ Cardinality(batch) = n)
          BY <3>1 DEF BatchFull
        <5>2. Cardinality(batch) \in Nat /\ n \in Nat
          BY <3>2, <3>3, <5>1, BatchSize, MailAssumption
        <5> QED
          <6>1. Cardinality(batch) # n
            BY <4>2, <5>1, Zenon
          <6>2. Cardinality(batch) < n
            BY <5>1, <5>2, <6>1
          <6> QED
            BY <3>4, <4>2, <6>2
      <4> QED
        BY <4>1, <4>2
    <3>9. client'.pending = <<>> => client'.batch = {}
      BY <3>1, <3>4 DEF BatchFull
    <3>10. client'.known = {}
      BY <1>0, <3>2, <3>4 DEF ClientOK
    <3>11. UID' = UID
      BY DEF UID
    <3> QED
      BY <3>4, <3>5, <3>7, <3>8, <3>9, <3>10, <3>11 DEF ClientOK, Session
  <2> QED
    BY <2>1, <2>2
<1>12. CASE Arrive \/ Work \/ Quit \/ Shutdown
  BY <1>2, <1>12 DEF Arrive, Work, Wait, Take, ProcessMail, ProcessUIDS, ProcessDone,
       ProcessingFails, WorkerDies, Abandon, Terminated, Quit, Shutdown, Terminate, Join
<1> QED
  BY <1>2, <1>4, <1>6, <1>7, <1>9, <1>10, <1>11, <1>12, <1>14 DEF Next, Reactor, vars

LEMMA RequestsAreSound ==
  ASSUME NEW batch \in SUBSET UID, NEW passed \in SUBSET UID
  PROVE  /\ MailRequest(batch, passed) \in Sound /\ UidRequest(passed) \in Sound
         /\ DoneRequest \in Sound /\ NoRequest \in Sound
  BY DEF MailRequest, UidRequest, DoneRequest, NoRequest, Sound, Request

LEMMA SoundSeq ==
  ASSUME NEW q \in Seq(Sound) PROVE q \in Seq(Request)
<1>1. Sound \subseteq Request
  BY DEF Sound
<1> QED
  BY <1>1

LEMMA QueueRequestOK ==
  ASSUME WorkerOK, NEW rs \in Seq(Sound), QueueRequest(rs), UNCHANGED quit
  PROVE  /\ WorkerOK'
         /\ worker'.request = worker.request /\ worker'.alive = worker.alive
         /\ worker'.phase = "dead" <=> worker.phase = "dead"
         /\ worker'.phase = "busy" <=> worker.phase = "busy"
         /\ queue' = IF Serving THEN queue \o rs ELSE queue
         /\ lost' = IF Serving THEN lost ELSE Forgotten(MailOf(rs))
<1>1. /\ queue' = IF Serving THEN queue \o rs ELSE queue
      /\ lost' = IF Serving THEN lost ELSE Forgotten(MailOf(rs))
  BY DEF QueueRequest
<1>2. queue \in Seq(Sound)
  BY DEF WorkerOK
<1>3. queue' \in Seq(Sound)
  BY <1>1, <1>2
<1>4. worker \in [phase : {"ready", "waiting", "busy", "dead"}, alive : BOOLEAN, request : Request]
  BY DEF WorkerOK
<1>5. \/ /\ worker.phase = "waiting" /\ rs # <<>>
         /\ worker' = [worker EXCEPT !.phase = "ready"]
      \/ /\ ~(worker.phase = "waiting" /\ rs # <<>>)
         /\ worker' = worker
  BY DEF QueueRequest
<1>6. /\ worker'.request = worker.request /\ worker'.alive = worker.alive
      /\ worker'.phase = "dead" <=> worker.phase = "dead"
      /\ worker'.phase = "busy" <=> worker.phase = "busy"
      /\ worker'.phase = "waiting" => worker.phase = "waiting" /\ rs = <<>>
      /\ worker' \in [phase : {"ready", "waiting", "busy", "dead"}, alive : BOOLEAN,
                      request : Request]
  BY <1>4, <1>5
<1>7. worker'.phase = "waiting" => worker'.alive /\ queue' = <<>>
  <2>1. <<>> \o <<>> = <<>>
    OBVIOUS
  <2> QED
    BY <1>1, <1>6, <2>1 DEF WorkerOK
<1>8. queue' \in Seq(Request)
  BY <1>3, SoundSeq
<1>9. Seq(Request)' = Seq(Request) /\ Sound' = Sound /\ Request' = Request
  BY DEF Request, Sound, UID
<1>10. Seq(Sound)' = Seq(Sound)
  BY <1>9
<1>11. WorkerOK'
  BY <1>3, <1>6, <1>7, <1>8, <1>9, <1>10 DEF WorkerOK, NoRequest
<1> QED
  BY <1>1, <1>6, <1>11

(* What the client queues.                                                 *)
LEMMA QueuedIsSound ==
  ASSUME TypeInv
  PROVE  /\ Finish => \E rs \in Seq(Sound) : QueueRequest(rs)
         /\ FetchMessage => \E rs \in Seq(Sound) : QueueRequest(rs)
<1>1. client \in Session
  BY TypeByPart DEF ClientOK
<1>2. client.batch \subseteq UID /\ client.passed \subseteq UID /\ client.searched \subseteq UID
  BY <1>1 DEF Session
<1>3. ASSUME Finish PROVE \E rs \in Seq(Sound) : QueueRequest(rs)
  <2>1. UidRequest(client.searched) \in Sound /\ DoneRequest \in Sound
    BY <1>2, RequestsAreSound
  <2>2. Searched \in Seq(Sound) /\ Searched \o <<DoneRequest>> \in Seq(Sound)
    BY <2>1 DEF Searched
  <2> QED
    BY <1>3, <2>2 DEF Finish
<1>4. ASSUME FetchMessage PROVE \E rs \in Seq(Sound) : QueueRequest(rs)
  <2> DEFINE uid == Head(client.pending)
             batch == client.batch \cup {uid}
             passed == IF Imap THEN client.passed \cup 1..uid ELSE {}
  <2>1. client.pending \in Seq(UID) /\ client.pending # <<>>
    BY <1>1, <1>4 DEF FetchMessage, Session
  <2>2. uid \in UID
    BY <2>1
  <2>3. 1..uid \subseteq UID
    <3> HIDE DEF uid
    <3> QED
      BY <2>2, MailAssumption DEF UID
  <2>4. batch \in SUBSET UID /\ passed \in SUBSET UID
    BY <1>2, <2>2, <2>3
  <2>5. \E full \in BatchFull(batch, Tail(client.pending)) :
          QueueRequest(IF ~full THEN <<>>
                       ELSE IF Tail(client.pending) = <<>> /\ ~Imap
                            THEN LastRequests(batch)
                       ELSE <<MailRequest(batch, passed)>>)
    BY <1>4 DEF FetchMessage
  <2> HIDE DEF batch, passed
  <2>6. /\ MailRequest(batch, {}) \in Sound /\ MailRequest(batch, passed) \in Sound
        /\ UidRequest(client.searched) \in Sound /\ DoneRequest \in Sound
    BY <1>2, <2>4, RequestsAreSound
  <2>7. /\ <<>> \in Seq(Sound)
        /\ LastRequests(batch) \in Seq(Sound)
        /\ <<MailRequest(batch, passed)>> \in Seq(Sound)
    BY <2>6 DEF LastRequests
  <2> QED
    BY <2>5, <2>7
<1> QED
  BY <1>3, <1>4

LEMMA WorkerNext ==
  ASSUME TypeInv, [Next]_vars
  PROVE  WorkerOK'
<1>0. WorkerOK
  BY TypeByPart
<1>1. /\ queue \in Seq(Sound) /\ worker.request \in Sound
      /\ worker \in [phase : {"ready", "waiting", "busy", "dead"}, alive : BOOLEAN,
                     request : Request]
  BY <1>0 DEF WorkerOK
<1>2. Seq(Request)' = Seq(Request) /\ Sound' = Sound /\ Request' = Request /\ Seq(Sound)' = Seq(Sound)
  BY DEF Request, Sound, UID
<1>3. NoRequest \in Sound /\ NoRequest' = NoRequest /\ Sound \subseteq Request
  BY DEF NoRequest, Sound, Request
<1>4. CASE UNCHANGED <<queue, worker, quit>>
  BY <1>0, <1>2, <1>3, <1>4 DEF WorkerOK
<1>5. CASE Finish \/ FetchMessage
  <2>1. UNCHANGED quit /\ \E rs \in Seq(Sound) : QueueRequest(rs)
    BY <1>5, QueuedIsSound DEF Finish, FetchMessage
  <2> QED
    BY <1>0, <2>1, QueueRequestOK
<1>6. CASE Wait
  BY <1>0, <1>1, <1>2, <1>3, <1>6 DEF WorkerOK, Wait
<1>7. CASE Take
  <2>1. Head(queue) \in Sound /\ Tail(queue) \in Seq(Sound)
    BY <1>1, <1>7, HeadAndTail DEF Take
  <2>2. queue' \in Seq(Sound) /\ queue' \in Seq(Request)
    BY <1>7, <2>1, SoundSeq DEF Take
  <2>3. UNCHANGED quit /\ worker.phase = "ready" /\ worker.alive
    BY <1>7 DEF Take
  <2>4. \/ worker' = [worker EXCEPT !.phase = "busy", !.request = Head(queue)]
        \/ worker' = worker
    BY <1>7 DEF Take
  <2>5. /\ worker'.request \in Sound /\ worker'.alive = worker.alive
        /\ worker'.phase # "waiting"
        /\ worker'.phase # "busy" => worker'.request = NoRequest
        /\ worker' \in [phase : {"ready", "waiting", "busy", "dead"}, alive : BOOLEAN,
                        request : Request]
    BY <1>0, <1>1, <1>3, <2>1, <2>3, <2>4 DEF WorkerOK
  <2> QED
    BY <1>0, <1>2, <1>3, <2>2, <2>3, <2>5 DEF WorkerOK
<1>8. CASE (\E p \in {"ready", "dead"} : worker' = [worker EXCEPT !.phase = p, !.request = NoRequest])
           /\ UNCHANGED <<queue, quit>>
  <2>1. /\ worker'.request = NoRequest /\ worker'.alive = worker.alive
        /\ worker'.phase \in {"ready", "dead"}
        /\ worker' \in [phase : {"ready", "waiting", "busy", "dead"}, alive : BOOLEAN,
                        request : Request]
    BY <1>1, <1>3, <1>8
  <2> QED
    BY <1>0, <1>2, <1>3, <1>8, <2>1 DEF WorkerOK
<1>9. CASE ProcessMail \/ ProcessUIDS \/ ProcessDone \/ ProcessingFails \/ WorkerDies \/ Abandon
  BY <1>8, <1>9 DEF ProcessMail, ProcessUIDS, ProcessDone, ProcessingFails, WorkerDies, Abandon, Ready
<1>10. CASE Terminated
  <2>1. /\ worker.phase = "ready" /\ worker' = [worker EXCEPT !.phase = "dead"]
        /\ UNCHANGED <<queue, quit>>
    BY <1>10 DEF Terminated
  <2>2. /\ worker'.request = worker.request /\ worker'.alive = worker.alive
        /\ worker'.phase = "dead"
        /\ worker' \in [phase : {"ready", "waiting", "busy", "dead"}, alive : BOOLEAN,
                        request : Request]
    BY <1>1, <2>1
  <2> QED
    BY <1>0, <1>2, <1>3, <2>1, <2>2 DEF WorkerOK
<1>11. CASE Quit \/ Join
  BY <1>0, <1>2, <1>3, <1>11 DEF WorkerOK, Quit, Join
<1>12. CASE Terminate
  <2> DEFINE p == IF worker.phase = "waiting" THEN "ready" ELSE worker.phase
  <2>1. worker' = [worker EXCEPT !.alive = FALSE, !.phase = p] /\ quit' = "joining" /\ UNCHANGED queue
    BY <1>1, <1>12 DEF Terminate
  <2>2. p \in {"ready", "busy", "dead"} /\ (p = "busy" => worker.phase = "busy")
    BY <1>1
  <2> HIDE DEF p
  <2>3. /\ worker'.request = worker.request /\ worker'.alive = FALSE
        /\ worker'.phase = p
        /\ worker' \in [phase : {"ready", "waiting", "busy", "dead"}, alive : BOOLEAN,
                        request : Request]
    BY <1>1, <2>1, <2>2
  <2>4. worker'.phase # "busy" => worker'.request = NoRequest
    BY <1>0, <2>2, <2>3 DEF WorkerOK, p
  <2> QED
    BY <1>0, <1>2, <1>3, <2>1, <2>2, <2>3, <2>4 DEF WorkerOK
<1>13. CASE \/ Arrive \/ Connect \/ ServerError \/ CheckForNewMessages
            \/ TimeoutBeforeGreeting \/ MuteServerCloses \/ OrphanFails \/ OrphanStalls
            \/ Disconnected(TRUE) \/ Disconnected(FALSE) \/ RequestsComplete \/ CatchWorkerError
  BY <1>4, <1>13 DEF Arrive, Connect, ServerError, CheckForNewMessages, TimeoutBeforeGreeting,
       MuteServerCloses, OrphanFails, OrphanStalls, Disconnected, RequestsComplete,
       CatchWorkerError
<1>14. CASE UNCHANGED vars
  BY <1>4, <1>14 DEF vars
<1> QED
  BY <1>5, <1>6, <1>7, <1>9, <1>10, <1>11, <1>12, <1>13, <1>14 DEF Next, Reactor, Work, Shutdown

(* What the steps leave alone, and what they may do to the rest.            *)
LEMMA StepEffects ==
  ASSUME [Next]_vars
  PROVE  /\ UNCHANGED account
         /\ Arrive \/ UNCHANGED mailbox
         /\ ProcessMail \/ ProcessUIDS \/ UNCHANGED store
         /\ quit' = "no" => quit = "no"
         /\ \/ inbox' \in {inbox, Append(inbox, "done"), Append(inbox, "error")}
            \/ (inbox # <<>> /\ inbox' = Tail(inbox))
         /\ cut' \in {cut, TRUE} \/ (Connect /\ cut' = (cut /\ ~Quiet))
                                \/ \E r \in BOOLEAN : Disconnected(r) /\ cut' = (cut \/ Downloading)
<1> USE DEF Next, Reactor, Work, Shutdown, vars, given, ghosts, Arrive, Connect, ServerError,
     TimeoutBeforeGreeting, MuteServerCloses, CheckForNewMessages, FetchMessage, Finish,
     Disconnected, OrphanFails, OrphanStalls, RequestsComplete, CatchWorkerError, Wait, Take,
     ProcessMail, ProcessUIDS, ProcessDone, ProcessingFails, WorkerDies, Abandon, Terminated,
     Quit, Terminate, Join
<1>1. UNCHANGED account
  OBVIOUS
<1>2. Arrive \/ UNCHANGED mailbox
  OBVIOUS
<1>3. ProcessMail \/ ProcessUIDS \/ UNCHANGED store
  OBVIOUS
<1>4. quit' = "no" => quit = "no"
  OBVIOUS
<1>5. \/ inbox' \in {inbox, Append(inbox, "done"), Append(inbox, "error")}
      \/ (inbox # <<>> /\ inbox' = Tail(inbox))
  OBVIOUS
<1>6. cut' \in {cut, TRUE} \/ (Connect /\ cut' = (cut /\ ~Quiet))
                          \/ \E r \in BOOLEAN : Disconnected(r) /\ cut' = (cut \/ Downloading)
  OBVIOUS
<1> QED
  BY <1>1, <1>2, <1>3, <1>4, <1>5, <1>6

(* What is noted of messages that something goes wrong with.                *)
LEMMA Marks ==
  ASSUME lost \in [UID -> {"no"} \cup Losses], NEW messages, NEW what \in Losses
  PROVE  /\ Mark(messages, what) \in [UID -> {"no"} \cup Losses]
         /\ \A u \in UID : Mark(messages, what)[u] = IF u \in messages THEN what ELSE lost[u]
         /\ Forgotten(messages) \in [UID -> {"no"} \cup Losses]
         /\ \A u \in UID :
              Forgotten(messages)[u] = IF Imap /\ u \in messages THEN "left" ELSE lost[u]
<1>1. /\ Mark(messages, what) \in [UID -> {"no"} \cup Losses]
      /\ \A u \in UID : Mark(messages, what)[u] = IF u \in messages THEN what ELSE lost[u]
  BY DEF Mark
<1>2. /\ Mark(messages, "left") \in [UID -> {"no"} \cup Losses]
      /\ \A u \in UID : Mark(messages, "left")[u] = IF u \in messages THEN "left" ELSE lost[u]
  BY DEF Mark, Losses
<1>3. CASE Imap
  BY <1>1, <1>2, <1>3 DEF Forgotten
<1>4. CASE ~Imap
  BY <1>1, <1>4 DEF Forgotten
<1> QED
  BY <1>3, <1>4

(* A message is converted, or found inconvertible, or all of its batch are. *)
LEMMA MailEffect ==
  ASSUME TypeInv, ProcessMail
  PROVE  /\ lost' \in [UID -> {"no"} \cup Losses]
         /\ store' \in [mail : SUBSET UID, passed : SUBSET UID]
         /\ store.mail \subseteq store'.mail
         /\ ~Imap => store'.passed \subseteq store.passed \cup store'.mail
         /\ Imap => store'.passed \in {store.passed, worker.request.passed}
         /\ \A u \in UID :
              /\ lost'[u] = "left" => lost[u] = "left"
              /\ u \in worker.request.mail => u \in store'.mail \/ lost'[u] # "no"
              /\ u \notin worker.request.mail => lost'[u] = lost[u]
<1>1. /\ store \in [mail : SUBSET UID, passed : SUBSET UID]
      /\ lost \in [UID -> {"no"} \cup Losses]
      /\ worker.request.mail \subseteq UID /\ worker.request.passed \subseteq UID
  BY TypeByPart DEF WorkerOK, RestOK, Request
<1>2. PICK bad \in SUBSET worker.request.mail :
        IF bad = worker.request.mail
        THEN lost' = Mark(bad, "cancelled") /\ UNCHANGED store
        ELSE /\ store' = [mail |-> store.mail \cup (worker.request.mail \ bad),
                          passed |-> Pass(worker.request.mail \ bad)]
             /\ lost' = [u \in UID |-> IF u \in bad THEN "failed"
                                       ELSE IF u \in worker.request.mail THEN "no" ELSE lost[u]]
  BY DEF ProcessMail
<1>3. CASE bad = worker.request.mail
  <2>1. lost' = Mark(bad, "cancelled") /\ UNCHANGED store
    BY <1>2, <1>3
  <2>2. /\ lost' \in [UID -> {"no"} \cup Losses]
        /\ \A u \in UID : lost'[u] = IF u \in bad THEN "cancelled" ELSE lost[u]
    BY <1>1, <2>1, Marks DEF Losses
  <2> QED
    BY <1>1, <1>3, <2>1, <2>2
<1>4. CASE bad # worker.request.mail
  <2> DEFINE m == store.mail \cup (worker.request.mail \ bad)
             p == Pass(worker.request.mail \ bad)
  <2>1. /\ store' = [mail |-> m, passed |-> p]
        /\ lost' = [u \in UID |-> IF u \in bad THEN "failed"
                                  ELSE IF u \in worker.request.mail THEN "no" ELSE lost[u]]
    BY <1>2, <1>4
  <2>2. /\ m \subseteq UID /\ p \subseteq UID
        /\ ~Imap => p \subseteq store.passed \cup m
        /\ Imap => p = worker.request.passed
    BY <1>1 DEF Pass
  <2>3. store.mail \subseteq m /\ worker.request.mail \ bad \subseteq m
    OBVIOUS
  <2> HIDE DEF m, p
  <2>4. store'.mail = m /\ store'.passed = p /\ store' \in [mail : SUBSET UID, passed : SUBSET UID]
    BY <2>1, <2>2
  <2>5. /\ lost' \in [UID -> {"no"} \cup Losses]
        /\ \A u \in UID : lost'[u] = IF u \in bad THEN "failed"
                                     ELSE IF u \in worker.request.mail THEN "no" ELSE lost[u]
    BY <1>1, <2>1 DEF Losses
  <2>6. ASSUME NEW u \in UID
        PROVE  /\ lost'[u] = "left" => lost[u] = "left"
               /\ u \in worker.request.mail => u \in store'.mail \/ lost'[u] # "no"
               /\ u \notin worker.request.mail => lost'[u] = lost[u]
    BY <2>3, <2>4, <2>5
  <2> QED
    BY <2>2, <2>3, <2>4, <2>5, <2>6
<1> QED
  BY <1>3, <1>4

(* Nothing that went wrong is forgotten, except of a message that is saved.  *)
LEMMA LostNext ==
  ASSUME TypeInv, [Next]_vars
  PROVE  /\ lost' \in [UID -> {"no"} \cup Losses]
         /\ store' \in [mail : SUBSET UID, passed : SUBSET UID]
         /\ store.mail \subseteq store'.mail
         /\ \A u \in UID :
              /\ lost'[u] = "left" => lost[u] = "left" \/ Imap
              /\ lost[u] # "no" => lost'[u] # "no" \/ u \in store'.mail
<1>1. /\ store \in [mail : SUBSET UID, passed : SUBSET UID]
      /\ lost \in [UID -> {"no"} \cup Losses]
      /\ worker.request.passed \subseteq UID
  BY TypeByPart DEF WorkerOK, RestOK, Request
<1>2. CASE ProcessMail
  BY <1>1, <1>2, MailEffect
<1>3. CASE ~ProcessMail
  <2>1. store' \in [mail : SUBSET UID, passed : SUBSET UID] /\ store'.mail = store.mail
    <3>1. CASE ProcessUIDS
      <4>1. Pass(worker.request.passed) \subseteq UID
        BY <1>1 DEF Pass
      <4> QED
        BY <1>1, <3>1, <4>1 DEF ProcessUIDS
    <3> QED
      BY <1>1, <1>3, <3>1, StepEffects
  <2>2. ASSUME NEW messages, lost' = Forgotten(messages)
        PROVE  /\ lost' \in [UID -> {"no"} \cup Losses]
               /\ \A u \in UID :
                    /\ lost'[u] = "left" => lost[u] = "left" \/ Imap
                    /\ lost[u] # "no" => lost'[u] # "no"
    <3>1. "left" \in Losses
      BY DEF Losses
    <3>2. /\ Forgotten(messages) \in [UID -> {"no"} \cup Losses]
          /\ \A u \in UID :
               Forgotten(messages)[u] = IF Imap /\ u \in messages THEN "left" ELSE lost[u]
      BY <1>1, <3>1, Marks
    <3>3. ASSUME NEW u \in UID
          PROVE  /\ lost'[u] = "left" => lost[u] = "left" \/ Imap
                 /\ lost[u] # "no" => lost'[u] # "no"
      BY <2>2, <3>2, <3>3
    <3> QED
      BY <2>2, <3>2, <3>3
  <2>3. CASE ProcessingFails
    <3>1. lost' = Mark(worker.request.mail, "unsaved") /\ "unsaved" \in Losses
      BY <2>3 DEF ProcessingFails, Losses
    <3> QED
      BY <1>1, <2>1, <3>1, Marks
  <2>4. CASE ServerError \/ Disconnected(TRUE) \/ Disconnected(FALSE)
    BY <2>1, <2>2, <2>4 DEF ServerError, Disconnected
  <2>5. CASE WorkerDies \/ Abandon \/ Terminated
    BY <2>1, <2>2, <2>5 DEF WorkerDies, Abandon, Terminated
  <2>6. CASE UNCHANGED lost
    BY <1>1, <2>1, <2>6
  <2>7. CASE Take
    BY <2>1, <2>2, <2>6, <2>7 DEF Take
  <2>8. CASE FetchMessage \/ Finish
    <3>1. PICK rs \in Seq(Sound) : QueueRequest(rs)
      BY <2>8, QueuedIsSound
    <3> QED
      BY <2>1, <2>2, <2>6, <3>1 DEF QueueRequest
  <2>9. CASE \/ Arrive \/ Connect \/ TimeoutBeforeGreeting \/ MuteServerCloses
             \/ CheckForNewMessages \/ OrphanFails \/ OrphanStalls \/ RequestsComplete
             \/ CatchWorkerError \/ Wait \/ ProcessUIDS \/ ProcessDone \/ Quit \/ Shutdown
             \/ UNCHANGED vars
    BY <2>6, <2>9 DEF Arrive, Connect, TimeoutBeforeGreeting, MuteServerCloses,
       CheckForNewMessages, OrphanFails, OrphanStalls, RequestsComplete, CatchWorkerError, Wait,
       ProcessUIDS, ProcessDone, Quit, Shutdown, Terminate, Join, vars, ghosts
  <2> QED
    BY <1>3, <2>3, <2>4, <2>5, <2>7, <2>8, <2>9 DEF Next, Reactor, Work
<1> QED
  BY <1>2, <1>3

LEMMA RestNext ==
  ASSUME TypeInv, [Next]_vars
  PROVE  RestOK'
<1>0. RestOK /\ WorkerOK
  BY TypeByPart
<1>1. /\ exits \in [BOOLEAN -> Nat] /\ orphans \in Nat /\ mailbox \in 0..MaxUID
      /\ inbox \in Seq({"done", "error"})
      /\ cut \in BOOLEAN
  BY <1>0 DEF RestOK
<1>2. UID' = UID /\ Losses' = Losses /\ UNCHANGED account /\ (Imap' <=> Imap)
  BY StepEffects DEF UID, Losses, Imap
<1>3. mailbox' \in 0..MaxUID
  <2>1. CASE Arrive
    BY <1>1, <2>1, MailAssumption DEF Arrive
  <2> QED
    BY <1>1, <2>1, StepEffects
<1>4. exits' \in [BOOLEAN -> Nat]
  <2>1. ASSUME NEW r \in BOOLEAN, Exit(r) PROVE exits' \in [BOOLEAN -> Nat]
    BY <1>1, <2>1 DEF Exit
  <2>2. CASE \/ FetchMessage \/ Finish \/ ServerError \/ MuteServerCloses
             \/ OrphanFails \/ CatchWorkerError
    <3>1. (\E r \in BOOLEAN : Exit(r)) \/ UNCHANGED exits
      BY <2>2 DEF FetchMessage, Finish, ServerError, MuteServerCloses, OrphanFails,
         CatchWorkerError, Imap
    <3> QED
      BY <1>1, <2>1, <3>1
  <2>3. CASE Disconnected(TRUE) \/ Disconnected(FALSE)
    <3>1. PICK r \in BOOLEAN : exits[r] > 0 /\ exits' = [exits EXCEPT ![r] = exits[r] - 1]
      BY <1>1, <2>3 DEF Disconnected
    <3>2. exits[r] - 1 \in Nat
      BY <1>1, <3>1
    <3> QED
      BY <1>1, <3>1, <3>2
  <2>4. CASE ~(\/ FetchMessage \/ Finish \/ ServerError \/ MuteServerCloses \/ OrphanFails
               \/ CatchWorkerError \/ Disconnected(TRUE) \/ Disconnected(FALSE))
    <3>1. UNCHANGED exits
      BY <2>4 DEF Next, Reactor, Work, Shutdown, vars, Arrive, Connect, TimeoutBeforeGreeting,
         CheckForNewMessages, OrphanStalls, RequestsComplete, Wait, Take, ProcessMail,
         ProcessUIDS, ProcessDone, ProcessingFails, WorkerDies, Abandon, Terminated, Quit,
         Terminate, Join
    <3> QED
      BY <1>1, <3>1
  <2> QED
    BY <2>2, <2>3, <2>4
<1>5. orphans' \in Nat
  <2>1. CASE Connect \/ Disconnected(TRUE) \/ Disconnected(FALSE) \/ OrphanFails \/ OrphanStalls
    <3>1. orphans' \in {orphans, orphans + 1} \/ (orphans > 0 /\ orphans' = orphans - 1)
      BY <2>1 DEF Connect, Disconnected, OrphanFails, OrphanStalls
    <3> QED
      BY <1>1, <3>1
  <2>2. CASE ~(\/ Connect \/ Disconnected(TRUE) \/ Disconnected(FALSE)
               \/ OrphanFails \/ OrphanStalls)
    <3>1. UNCHANGED orphans
      BY <2>2 DEF Next, Reactor, Work, Shutdown, vars, Arrive, ServerError,
         TimeoutBeforeGreeting, MuteServerCloses, CheckForNewMessages, FetchMessage, Finish,
         RequestsComplete, CatchWorkerError, Wait, Take, ProcessMail, ProcessUIDS, ProcessDone,
         ProcessingFails, WorkerDies, Abandon, Terminated, Quit, Terminate, Join
    <3> QED
      BY <1>1, <3>1
  <2> QED
    BY <2>1, <2>2
<1>6. inbox' \in Seq({"done", "error"})
  <2>1. \/ inbox' \in {inbox, Append(inbox, "done"), Append(inbox, "error")}
        \/ (inbox # <<>> /\ inbox' = Tail(inbox))
    BY StepEffects
  <2>2. /\ Append(inbox, "done") \in Seq({"done", "error"})
        /\ Append(inbox, "error") \in Seq({"done", "error"})
        /\ inbox # <<>> => Tail(inbox) \in Seq({"done", "error"})
    BY <1>1
  <2> QED
    BY <1>1, <2>1, <2>2
<1>7. cut' \in BOOLEAN
  <2>1. /\ (cut /\ ~Quiet) \in BOOLEAN
        /\ (cut \/ Downloading) \in BOOLEAN
    OBVIOUS
  <2>2. \/ cut' = cut \/ cut' = TRUE \/ cut' = (cut /\ ~Quiet)
        \/ cut' = (cut \/ Downloading)
    BY StepEffects
  <2> QED
    BY <1>1, <2>1, <2>2
<1>8. /\ lost' \in [UID -> {"no"} \cup Losses] /\ store' \in [mail : SUBSET UID, passed : SUBSET UID]
      /\ ~Imap => \A u \in UID : lost'[u] # "left"
  <2>1. ASSUME ~Imap, NEW u \in UID PROVE lost'[u] # "left"
    <3>1. lost[u] # "left"
      BY <1>0, <2>1 DEF RestOK
    <3>2. lost'[u] = "left" => lost[u] = "left" \/ Imap
      BY <2>1, LostNext
    <3> QED
      BY <2>1, <3>1, <3>2
  <2> QED
    BY <2>1, LostNext
<1> QED
  BY <1>0, <1>2, <1>3, <1>4, <1>5, <1>6, <1>7, <1>8 DEF RestOK

LEMMA TypeNext == TypeInv /\ [Next]_vars => TypeInv'
<1> SUFFICES ASSUME TypeInv, [Next]_vars PROVE TypeInv'
  OBVIOUS
<1>1. ClientOK' /\ WorkerOK' /\ RestOK'
  BY ClientNext, WorkerNext, RestNext
<1>2. UID' = UID /\ Request' = Request /\ Session' = Session
  BY DEF UID, Request, Session
<1> QED
  BY <1>1, <1>2 DEF TypeInv, TypeOK, ClientOK, WorkerOK, RestOK, Session

(* Batches, queue and worker keep their types; a batch has no message that   *)
(* is still pending, and a waiting worker has an empty queue.                *)
THEOREM MailTypeTheorem == Spec => []TypeOK
<1>1. TypeInv => TypeOK
  BY DEF TypeInv
<1> QED
  BY <1>1, TypeInit, TypeNext, PTL DEF Spec

-----------------------------------------------------------------------------
(* What a session does.                                                    *)
LEMMA OrderIsOnto ==
  ASSUME MailAssumption, NEW S \in SUBSET UID, NEW order \in Orders(S)
  PROVE  \A u \in S : \E i \in DOMAIN order : order[i] = u
<1> DEFINE D == 1..Cardinality(S)
<1>1. IsFiniteSet(UID)
  BY FS_Interval DEF UID, MailAssumption
<1>2. IsFiniteSet(S) /\ Cardinality(S) \in Nat
  BY <1>1, FS_Subset, FS_CardinalityType
<1>3. order \in [D -> S] /\ \A i, j \in D : i # j => order[i] # order[j]
  BY DEF Orders, SetToSeqs
<1>4. IsFiniteSet(D) /\ Cardinality(D) = Cardinality(S)
  BY <1>2, FS_Interval
<1>5. order \in Injection(D, S)
  BY <1>3 DEF Injection, IsInjective
<1>6. order \in Surjection(D, S)
  <2> HIDE DEF D
  <2> QED
    BY <1>2, <1>4, <1>5, FS_Injection
<1> QED
  BY <1>3, <1>6 DEF Surjection

(* What looking for new messages comes to.                                 *)
LEMMA CheckEffect ==
  ASSUME TypeInv, CheckForNewMessages
  PROVE  \E known \in {client.known, store.passed} :
           LET new == 1..mailbox \ known
           IN  /\ client'.known = {} /\ client'.batch = {}
               /\ client'.passed \subseteq known
               /\ client'.searched \subseteq 1..mailbox
               /\ ~Imap => client'.searched \subseteq new
               /\ \A i \in DOMAIN client'.pending : client'.pending[i] \in new
               /\ \A u \in new \cap Wanted : \E i \in DOMAIN client'.pending : client'.pending[i] = u
               /\ 1..mailbox \subseteq UID
<1>0. ClientOK /\ RestOK
  BY TypeByPart
<1>1. client \in Session /\ client.batch = {} /\ mailbox \in 0..MaxUID
  BY <1>0 DEF CheckForNewMessages, ClientOK, RestOK, SessionOver
<1>2. PICK known \in {client.known, store.passed} :
        LET new == 1..mailbox \ known
        IN  \E order \in Orders(new \cap Wanted) :
              client' = [client EXCEPT !.phase = "fetching", !.pending = order, !.known = {},
                           !.passed = IF Imap THEN known ELSE {},
                           !.searched = IF ~Imap THEN new
                                        ELSE IF account.search /\ new # {} THEN 1..mailbox ELSE {}]
  BY DEF CheckForNewMessages
<1> DEFINE new == 1..mailbox \ known
           passed == IF Imap THEN known ELSE {}
           searched == IF ~Imap THEN new
                       ELSE IF account.search /\ new # {} THEN 1..mailbox ELSE {}
<1>3. PICK order \in Orders(new \cap Wanted) :
        client' = [client EXCEPT !.phase = "fetching", !.pending = order, !.known = {},
                                 !.passed = passed, !.searched = searched]
  BY <1>2
<1>4. 1..mailbox \subseteq UID
  BY <1>1, MailAssumption DEF UID
<1>5. /\ passed \subseteq known /\ searched \subseteq 1..mailbox
      /\ ~Imap => searched \subseteq new
  OBVIOUS
<1> HIDE DEF passed, searched
<1>6. /\ client'.pending = order /\ client'.known = {} /\ client'.batch = {}
      /\ client'.passed = passed /\ client'.searched = searched
  BY <1>1, <1>3 DEF Session
<1>7. new \cap Wanted \in SUBSET UID
  BY <1>4
<1> HIDE DEF new
<1>8. \A u \in new \cap Wanted : \E i \in DOMAIN order : order[i] = u
  BY <1>7, OrderIsOnto, MailAssumption
<1>9. \A i \in DOMAIN order : order[i] \in new
  <2>1. order \in [1..Cardinality(new \cap Wanted) -> new \cap Wanted]
    BY DEF Orders, SetToSeqs
  <2> QED
    BY <2>1
<1>10. /\ client'.known = {} /\ client'.batch = {}
       /\ client'.passed \subseteq known
       /\ client'.searched \subseteq 1..mailbox
       /\ ~Imap => client'.searched \subseteq new
       /\ \A i \in DOMAIN client'.pending : client'.pending[i] \in new
       /\ \A u \in new \cap Wanted : \E i \in DOMAIN client'.pending : client'.pending[i] = u
       /\ 1..mailbox \subseteq UID
  BY <1>4, <1>5, <1>6, <1>8, <1>9
<1> QED
  BY <1>10 DEF new

(* What fetching a message comes to.                                       *)
LEMMA FetchEffect ==
  ASSUME TypeInv, FetchMessage
  PROVE  LET uid == Head(client.pending)
             batch == client.batch \cup {uid}
         IN  /\ client.pending # <<>> /\ client.pending \in Seq(UID)
             /\ uid \in UID /\ 1..uid \subseteq UID /\ batch \subseteq UID
             /\ client'.known = {} /\ client'.locked = client.locked
             /\ client'.searched \in {client.searched, {}}
             /\ client'.passed \subseteq client.passed \cup 1..uid
             /\ client'.pending \in {Tail(client.pending), <<>>}
             /\ client'.pending = <<>> => Tail(client.pending) = <<>>
             /\ UNCHANGED exits \/ Exit(FALSE)
             /\ \E rs \in Seq(Sound) :
                  /\ QueueRequest(rs)
                  /\ \/ /\ client'.phase = "fetching" /\ (Imap \/ client'.pending # <<>>)
                        /\ client'.batch = batch /\ rs = <<>>
                     \/ /\ client'.phase = "fetching" /\ (Imap \/ client'.pending # <<>>)
                        /\ \E p \in SUBSET (client.passed \cup 1..uid) :
                             rs = <<MailRequest(batch, p)>>
                     \/ /\ client'.phase = "closing" /\ ~Imap /\ Tail(client.pending) = <<>>
                        /\ rs = LastRequests(batch)
<1> DEFINE uid == Head(client.pending)
           rest == Tail(client.pending)
           batch == client.batch \cup {uid}
           passed == IF Imap THEN client.passed \cup 1..uid ELSE {}
           ends == rest = <<>> /\ ~Imap
<1>0. ClientOK /\ WorkerOK
  BY TypeByPart
<1>1. /\ client \in Session /\ client.phase = "fetching" /\ client.pending # <<>>
      /\ client.known = {} /\ (UNCHANGED exits \/ Exit(FALSE))
  BY <1>0 DEF FetchMessage, ClientOK
<1>2. PICK full \in BatchFull(batch, rest) :
        /\ client' = IF ends THEN Leave("closing")
                     ELSE [client EXCEPT !.pending = rest, !.passed = passed,
                                         !.batch = IF full THEN {} ELSE batch]
        /\ QueueRequest(IF ~full THEN <<>>
                        ELSE IF ends THEN LastRequests(batch) ELSE <<MailRequest(batch, passed)>>)
  BY DEF FetchMessage
<1>3. ends => full
  BY <1>2 DEF BatchFull
<1>4. client.pending \in Seq(UID) /\ passed \in SUBSET (client.passed \cup 1..uid)
      /\ client.batch \subseteq UID /\ client.passed \subseteq UID /\ client.searched \subseteq UID
  BY <1>1 DEF Session
<1>5. uid \in UID
  BY <1>1, <1>4
<1>6. 1..uid \subseteq UID
  <2> HIDE DEF uid
  <2> QED
    BY <1>5, MailAssumption DEF UID
<1>7. batch \in SUBSET UID /\ passed \in SUBSET UID
  BY <1>4, <1>5, <1>6
<1> HIDE DEF uid, rest, batch, passed
<1>8. /\ MailRequest(batch, {}) \in Sound /\ MailRequest(batch, passed) \in Sound
      /\ UidRequest(client.searched) \in Sound /\ DoneRequest \in Sound
  BY <1>4, <1>7, RequestsAreSound
<1>9. CASE ends
  <2>1. client' = Leave("closing") /\ QueueRequest(LastRequests(batch))
    BY <1>2, <1>3, <1>9
  <2>2. /\ client'.known = {} /\ client'.searched = {} /\ client'.passed = {}
        /\ client'.pending = <<>> /\ client'.phase = "closing" /\ client'.locked = client.locked
    BY <1>1, <2>1, NoSessionFields DEF Leave, Session
  <2>3. rest = <<>> /\ ~Imap
    BY <1>9
  <2>4. LastRequests(batch) \in Seq(Sound)
    BY <1>8 DEF LastRequests
  <2> QED
    BY <1>1, <1>4, <1>5, <1>6, <1>7, <2>1, <2>2, <2>3, <2>4 DEF uid, batch, rest
<1>10. CASE ~ends
  <2> DEFINE b == IF full THEN {} ELSE batch
  <2>1. client' = [client EXCEPT !.pending = rest, !.passed = passed, !.batch = b]
    BY <1>2, <1>10
  <2>2. /\ client'.known = {} /\ client'.searched = client.searched /\ client'.passed = passed
        /\ client'.pending = rest /\ client'.batch = b /\ client'.phase = "fetching"
        /\ client'.locked = client.locked
    <3> HIDE DEF b
    <3> QED
      BY <1>1, <2>1 DEF Session
  <2>3. Imap \/ client'.pending # <<>>
    BY <1>10, <2>2
  <2>4. CASE full
    <3>1. QueueRequest(<<MailRequest(batch, passed)>>) /\ <<MailRequest(batch, passed)>> \in Seq(Sound)
      BY <1>2, <1>8, <1>10, <2>4
    <3> HIDE DEF b, ends
    <3> QED
      BY <1>1, <1>4, <1>5, <1>6, <1>7, <2>2, <2>3, <3>1 DEF uid, batch, rest
  <2>5. CASE ~full
    <3>1. QueueRequest(<<>>) /\ <<>> \in Seq(Sound) /\ client'.batch = batch
      BY <1>2, <2>2, <2>5
    <3> HIDE DEF b, ends
    <3> QED
      BY <1>1, <1>4, <1>5, <1>6, <1>7, <2>2, <2>3, <3>1 DEF uid, batch, rest
  <2> QED
    BY <2>4, <2>5
<1> QED
  BY <1>9, <1>10

LEMMA NothingUnreadNext ==
  ASSUME TypeInv, NothingUnread, [Next]_vars
  PROVE  NothingUnread'
<1>1. UNCHANGED account /\ (Imap' <=> Imap)
  BY StepEffects DEF Imap
<1>2. client \in Session
  BY TypeByPart DEF ClientOK
<1>3. CASE UNCHANGED client
  BY <1>1, <1>3 DEF NothingUnread
<1>4. CASE CheckForNewMessages
  <2>1. PICK known \in {client.known, store.passed} :
           LET new == 1..mailbox \ known
           IN  /\ ~Imap => client'.searched \subseteq new
               /\ \A u \in new \cap Wanted : \E i \in DOMAIN client'.pending : client'.pending[i] = u
               /\ 1..mailbox \subseteq UID
    BY <1>4, CheckEffect
  <2>2. ASSUME client'.pending = <<>>, ~Imap, ~account.search PROVE client'.searched = {}
    <3>1. DOMAIN client'.pending = {}
      BY <2>2
    <3>2. Wanted = UID
      BY <2>2 DEF Wanted
    <3> QED
      BY <2>1, <2>2, <3>1, <3>2
  <2> QED
    BY <1>1, <2>2 DEF NothingUnread
<1>5. CASE FetchMessage
  <2>1. client'.phase = "fetching" => Imap \/ client'.pending # <<>>
    BY <1>5, FetchEffect
  <2> QED
    BY <1>1, <2>1 DEF NothingUnread
<1>6. CASE client'.phase # "fetching"
  BY <1>6 DEF NothingUnread
<1>7. CASE \/ Connect \/ Finish \/ ServerError \/ Disconnected(TRUE) \/ Disconnected(FALSE)
           \/ TimeoutBeforeGreeting \/ MuteServerCloses \/ OrphanFails \/ OrphanStalls
           \/ CatchWorkerError
  <2>1. UNCHANGED client \/ client'.phase # "fetching"
    BY <1>2, <1>7, NoSessionFields DEF Connect, Finish, ServerError, Disconnected, Leave,
       TimeoutBeforeGreeting, MuteServerCloses, OrphanFails, OrphanStalls, CatchWorkerError,
       Session
  <2> QED
    BY <1>3, <1>6, <2>1
<1>8. CASE RequestsComplete
  <2>1. /\ client'.phase = client.phase /\ client'.pending = client.pending
        /\ client'.searched = client.searched
    BY <1>2, <1>8 DEF RequestsComplete, Session
  <2> QED
    BY <1>1, <2>1 DEF NothingUnread
<1>9. CASE Arrive \/ Work \/ Quit \/ Shutdown \/ UNCHANGED vars
  BY <1>3, <1>9 DEF vars, Arrive, Work, Wait, Take, ProcessMail, ProcessUIDS, ProcessDone,
     ProcessingFails, WorkerDies, Abandon, Terminated, Quit, Shutdown, Terminate, Join
<1> QED
  BY <1>4, <1>5, <1>7, <1>8, <1>9 DEF Next, Reactor

-----------------------------------------------------------------------------
(* The lock.                                                               *)

(* Only a session that begins when all is quiet wipes the slate clean.       *)
LEMMA CutStays == TypeInv /\ [Next]_vars /\ cut => cut' \/ (Connect /\ Quiet)
<1>1. TypeInv => cut \in BOOLEAN
  BY TypeByPart DEF RestOK
<1> QED
  BY <1>1, StepEffects

LEMMA ConcatAt ==
  ASSUME NEW S, NEW q \in Seq(S), NEW r \in Seq(S)
  PROVE  /\ q \o r \in Seq(S) /\ Len(q \o r) = Len(q) + Len(r)
         /\ \A i \in DOMAIN q : i \in DOMAIN (q \o r) /\ (q \o r)[i] = q[i]
         /\ \A i \in DOMAIN r :
              Len(q) + i \in DOMAIN (q \o r) /\ (q \o r)[Len(q) + i] = r[i]
         /\ \A i \in DOMAIN (q \o r) :
              \/ i \in DOMAIN q /\ (q \o r)[i] = q[i]
              \/ i - Len(q) \in DOMAIN r /\ (q \o r)[i] = r[i - Len(q)]
  OBVIOUS

(* What can happen while nothing goes wrong.                               *)
LEMMA OrderlySteps ==
  ASSUME TypeInv, Orderly, ~cut, [Next]_vars, ~cut'
  PROVE  \/ Arrive \/ Connect \/ CheckForNewMessages \/ FetchMessage \/ Finish
         \/ (\E r \in BOOLEAN : Disconnected(r) /\ ~Downloading)
         \/ RequestsComplete \/ Wait \/ Take
         \/ ProcessMail \/ ProcessUIDS \/ ProcessDone \/ UNCHANGED vars
<1>1. /\ quit = "no" /\ worker.alive /\ worker.phase # "dead" /\ client.phase # "mute"
      /\ ~(orphans > 0)
  BY DEF Orderly, Going, TypeInv
<1>2. ASSUME NEW r \in BOOLEAN, Disconnected(r) PROVE ~Downloading
  BY <1>2 DEF Disconnected
<1> QED
  BY <1>1, <1>2 DEF Next, Reactor, Work, Shutdown, ServerError, TimeoutBeforeGreeting,
     MuteServerCloses, OrphanFails, OrphanStalls, CatchWorkerError, ProcessingFails, WorkerDies,
     Abandon, Terminated, Quit, Terminate, Join

LEMMA ExitCounts ==
  ASSUME exits \in [BOOLEAN -> Nat]
  PROVE  /\ Exit(TRUE) => exits'[TRUE] = exits[TRUE] + 1
         /\ Exit(FALSE) => exits'[TRUE] = exits[TRUE]
<1>1. ASSUME NEW r \in BOOLEAN, NEW q \in BOOLEAN, Exit(r)
      PROVE  exits'[q] = IF q = r THEN exits[r] + 1 ELSE exits[q]
  BY <1>1 DEF Exit
<1>2. TRUE \in BOOLEAN /\ FALSE \in BOOLEAN /\ TRUE # FALSE
  OBVIOUS
<1>3. Exit(TRUE) => exits'[TRUE] = exits[TRUE] + 1
  BY <1>1, <1>2
<1>4. Exit(FALSE) => exits'[TRUE] = exits[TRUE]
  BY <1>1, <1>2, Zenon
<1> QED
  BY <1>3, <1>4

(* What a request that is queued while no "done" is changes.                *)
LEMMA QueuedRequests ==
  ASSUME WorkerOK, NEW rs \in Seq(Sound), QueueRequest(rs), UNCHANGED <<quit, account>>,
         quit = "no", worker.phase # "dead", ~DoneQueued, ~DoneBusy,
         \A j \in DOMAIN rs : rs[j].kind = "done" => j = Len(rs)
  PROVE  /\ worker'.phase # "dead" /\ worker'.request = worker.request /\ ~DoneBusy'
         /\ DoneQueued' <=> \E j \in DOMAIN rs : rs[j].kind = "done"
         /\ OwedWaits' => OwedWaits \/ \E j \in DOMAIN rs : Owed(rs[j])
         /\ \A i \in DOMAIN queue' : queue'[i].kind = "done" => i = Len(queue')
<1>1. /\ queue' = queue \o rs /\ worker'.request = worker.request
      /\ worker'.phase = "dead" <=> worker.phase = "dead"
      /\ worker'.phase = "busy" <=> worker.phase = "busy"
      /\ queue \in Seq(Sound)
  BY QueueRequestOK DEF WorkerOK, Serving
<1>2. /\ Len(queue') = Len(queue) + Len(rs)
      /\ \A j \in DOMAIN rs :
           Len(queue) + j \in DOMAIN queue' /\ queue'[Len(queue) + j] = rs[j]
      /\ \A i \in DOMAIN queue' :
           \/ i \in DOMAIN queue /\ queue'[i] = queue[i]
           \/ i - Len(queue) \in DOMAIN rs /\ queue'[i] = rs[i - Len(queue)]
  BY <1>1, ConcatAt
<1>3. DoneQueued' <=> \E j \in DOMAIN rs : rs[j].kind = "done"
  BY <1>2 DEF DoneQueued
<1>4. OwedWaits' => OwedWaits \/ \E j \in DOMAIN rs : Owed(rs[j])
  BY <1>1, <1>2 DEF OwedWaits, Owed, Imap
<1>5. ~DoneBusy'
  BY <1>1 DEF DoneBusy, Busy
<1>6. ASSUME NEW i \in DOMAIN queue', queue'[i].kind = "done" PROVE i = Len(queue')
  <2>1. i - Len(queue) \in DOMAIN rs /\ queue'[i] = rs[i - Len(queue)]
    BY <1>2, <1>6 DEF DoneQueued
  <2>2. i - Len(queue) = Len(rs)
    BY <1>6, <2>1
  <2>3. i \in Nat /\ Len(queue) \in Nat /\ Len(rs) \in Nat
    <3>1. Len(queue) \in Nat /\ Len(rs) \in Nat /\ queue' \in Seq(Sound)
      BY <1>1, ConcatAt
    <3> QED
      BY <3>1
  <2> QED
    BY <1>2, <2>2, <2>3
<1> QED
  BY <1>1, <1>3, <1>4, <1>5, <1>6

LEMMA OrderlyNext ==
  ASSUME TypeInv, NothingUnread, Orderly, ~cut, [Next]_vars, ~cut'
  PROVE  Orderly'
<1>0. ClientOK /\ WorkerOK /\ RestOK /\ TypeInv'
  BY TypeByPart, TypeNext
<1>1. /\ client \in Session /\ queue \in Seq(Sound) /\ worker.request \in Sound
      /\ worker \in [phase : {"ready", "waiting", "busy", "dead"}, alive : BOOLEAN,
                     request : Request]
      /\ exits \in [BOOLEAN -> Nat] /\ inbox \in Seq({"done", "error"})
      /\ worker.phase # "busy" => worker.request = NoRequest
      /\ worker.alive
  BY <1>0 DEF ClientOK, WorkerOK, RestOK, Orderly, Going
<1>2. ~Owed(NoRequest)
  BY DEF Owed, NoRequest
<1>3. orphans \in Nat
  BY <1>0 DEF RestOK
<1>4. Going /\ OneRelease /\ OwedIsFollowed
  BY DEF Orderly
<1>5. UNCHANGED account
  BY StepEffects
<1>6. CASE Arrive \/ UNCHANGED vars
  <2>1. UNCHANGED <<client, exits, orphans, queue, worker, inbox, quit>>
    BY <1>6 DEF Arrive, vars
  <2> QED
    BY <1>4, <1>5, <2>1 DEF Orderly, Going, OneRelease, OwedIsFollowed, OwedWaits, Owed,
       DoneQueued, DoneBusy, Busy, Releasing, Downloading, Imap
<1>7. CASE Connect
  <2>1. /\ client'.locked = TRUE /\ client'.phase = "connecting" /\ ~client.locked
        /\ client.phase # "fetching"
        /\ UNCHANGED <<exits, queue, worker, inbox, quit, account, orphans>>
    BY <1>4, <1>5, <1>7, NoSessionFields DEF Going, Connect, Downloading, Session
  <2> QED
    BY <1>4, <2>1 DEF Orderly, Going, OneRelease, OwedIsFollowed, OwedWaits, Owed,
       DoneQueued, DoneBusy, Busy, Releasing, Downloading, Imap
<1>8. CASE CheckForNewMessages
  <2>1. /\ client'.locked = client.locked /\ client'.phase = "fetching"
        /\ client.phase = "connecting"
        /\ UNCHANGED <<exits, queue, worker, inbox, quit, account, orphans>>
    BY <1>1, <1>5, <1>8 DEF CheckForNewMessages, given, Session
  <2>2. ~OwedWaits
    BY <1>4, <2>1 DEF OneRelease, OwedIsFollowed, Downloading
  <2> QED
    BY <1>4, <2>1, <2>2 DEF Orderly, Going, OneRelease, OwedIsFollowed, OwedWaits, Owed,
       DoneQueued, DoneBusy, Busy, Releasing, Downloading, Imap
<1>9. CASE \E r \in BOOLEAN : Disconnected(r) /\ ~Downloading
  <2>1. PICK r \in BOOLEAN : Disconnected(r) /\ ~Downloading
    BY <1>9
  <2>2. client.phase \in {"idle", "closing"}
    BY <1>4, <2>1 DEF Going, Downloading
  <2>3. /\ exits[r] > 0 /\ exits' = [exits EXCEPT ![r] = exits[r] - 1]
        /\ client' = [NoSession EXCEPT !.locked = client.locked /\ ~r, !.phase = "idle"]
        /\ UNCHANGED <<queue, worker, inbox, quit, account, orphans>>
    BY <1>5, <2>1, <2>2 DEF Disconnected
  <2>4. client'.phase = "idle" /\ client'.locked = (client.locked /\ ~r)
    BY <2>3, NoSessionFields DEF Session
  <2>5. CASE r = TRUE
    <3>0. ~client'.locked
      BY <2>4, <2>5, Zenon
    <3>1. exits[TRUE] = 1 /\ exits'[TRUE] = 0 /\ ~client'.locked
      <4>1. exits[TRUE] \in Nat /\ exits[TRUE] > 0 /\ exits[TRUE] <= 1 /\ exits'[TRUE] = exits[TRUE] - 1
        BY <1>1, <1>4, <2>3, <2>5 DEF Going
      <4>2. exits[TRUE] = 1 /\ exits'[TRUE] = 0
        <5> DEFINE a == exits[TRUE]
                   b == exits'[TRUE]
        <5>1. a \in Nat /\ a > 0 /\ a <= 1 /\ b = a - 1
          BY <4>1
        <5> HIDE DEF a, b
        <5>2. a = 1 /\ b = 0
          BY <5>1
        <5> QED
          BY <5>2 DEF a, b
      <4> QED
        BY <3>0, <4>2, Zenon
    <3>2. client.locked /\ inbox = <<>> /\ ~DoneBusy /\ ~DoneQueued
      BY <1>4, <3>1 DEF OneRelease, Releasing
    <3> QED
      BY <1>4, <2>2, <2>3, <2>4, <3>1, <3>2 DEF Orderly, Going, OneRelease, OwedIsFollowed, OwedWaits, Owed,
         DoneQueued, DoneBusy, Busy, Releasing, Downloading, Imap
  <2>6. CASE r = FALSE
    <3>1. exits'[TRUE] = exits[TRUE] /\ client'.locked = client.locked
      BY <1>1, <2>3, <2>4, <2>6 DEF Session
    <3> QED
      BY <1>4, <2>2, <2>3, <2>4, <3>1 DEF Orderly, Going, OneRelease, OwedIsFollowed, OwedWaits, Owed,
         DoneQueued, DoneBusy, Busy, Releasing, Downloading, Imap
  <2> QED
    BY <2>5, <2>6
<1>10. CASE RequestsComplete
  <2>1. /\ inbox # <<>> /\ inbox' = Tail(inbox)
        /\ client' = [client EXCEPT !.locked = FALSE]
        /\ UNCHANGED <<exits, queue, worker, quit, account, orphans>>
    BY <1>5, <1>10 DEF RequestsComplete
  <2>2. /\ client'.phase = client.phase /\ ~client'.locked /\ client'.pending = client.pending
    BY <1>1, <2>1 DEF Session
  <2>3. inbox' = <<>> /\ DOMAIN inbox' = {} /\ Len(inbox') = 0
    <3>1. inbox \in Seq({"done", "error"}) /\ inbox # <<>> /\ Len(inbox) <= 1
      BY <1>1, <1>4, <2>1 DEF Going
    <3>2. Tail(inbox) = <<>>
      BY <3>1
    <3>3. inbox' = <<>>
      BY <2>1, <3>2
    <3> QED
      BY <3>3
  <2>4. ~Releasing /\ ~DoneBusy /\ ~DoneQueued /\ ~Downloading
    BY <1>4, <2>1 DEF OneRelease
  <2> QED
    BY <1>4, <2>1, <2>2, <2>3, <2>4 DEF Orderly, Going, OneRelease, OwedIsFollowed, OwedWaits, Owed,
       DoneQueued, DoneBusy, Busy, Releasing, Downloading, Imap
<1>11. CASE Wait
  <2>1. /\ worker'.phase = "waiting" /\ worker.phase = "ready"
        /\ worker'.request = worker.request
        /\ UNCHANGED <<exits, queue, client, inbox, quit, account, orphans>>
    BY <1>1, <1>5, <1>11 DEF Wait
  <2> QED
    BY <1>4, <2>1 DEF Orderly, Going, OneRelease, OwedIsFollowed, OwedWaits, Owed,
       DoneQueued, DoneBusy, Busy, Releasing, Downloading, Imap
<1>12. CASE Take
  <2>1. /\ queue # <<>> /\ queue' = Tail(queue) /\ worker.phase = "ready"
        /\ worker' = [worker EXCEPT !.phase = "busy", !.request = Head(queue)]
        /\ UNCHANGED <<exits, client, inbox, quit, account, orphans>>
    BY <1>4, <1>5, <1>12 DEF Take, Going
  <2>2. worker'.phase = "busy" /\ worker'.request = queue[1]
    BY <1>1, <2>1, HeadAndTail
  <2>3. /\ 1 \in DOMAIN queue /\ Len(queue') = Len(queue) - 1
        /\ \A i \in DOMAIN queue' : i + 1 \in DOMAIN queue /\ queue'[i] = queue[i + 1]
        /\ \A i \in DOMAIN queue : i = 1 \/ (i - 1 \in DOMAIN queue' /\ queue[i] = queue'[i - 1])
    BY <1>1, <2>1, HeadAndTail
  <2>4. DoneBusy' => ~DoneQueued' /\ DoneQueued
    <3>1. ASSUME DoneBusy' PROVE Len(queue) = 1 /\ DoneQueued
      BY <1>4, <2>2, <2>3, <3>1 DEF Going, DoneBusy, Busy, DoneQueued
    <3>2. ASSUME Len(queue) = 1 PROVE ~DoneQueued'
      BY <1>1, <2>1, <3>2 DEF DoneQueued
    <3> QED
      BY <3>1, <3>2
  <2>5. DoneQueued' => DoneQueued
    BY <2>3 DEF DoneQueued
  <2>6. DoneQueued => DoneQueued' \/ DoneBusy'
    BY <2>2, <2>3 DEF DoneQueued, DoneBusy, Busy
  <2>7. OwedWaits' => OwedWaits
    BY <1>5, <2>2, <2>3 DEF OwedWaits, Owed, Imap
  <2>8. DoneBusy' => ~OwedWaits'
    <3>1. ASSUME DoneBusy' PROVE Len(queue) = 1 /\ queue[1].kind = "done"
      BY <1>4, <2>2, <2>3, <3>1 DEF Going, DoneBusy, Busy, DoneQueued
    <3>2. ASSUME DoneBusy' PROVE DOMAIN queue' = {} /\ worker'.request.kind = "done"
      BY <1>1, <2>1, <2>2, <2>3, <3>1, <3>2
    <3> QED
      BY <3>2 DEF OwedWaits, Owed
  <2>9. Going'
    <3>1. ASSUME NEW i \in DOMAIN queue', queue'[i].kind = "done" PROVE i = Len(queue')
      <4>1. i + 1 = Len(queue)
        BY <1>4, <2>3, <3>1 DEF Going
      <4> QED
        BY <1>1, <2>1, <2>3, <4>1
    <3> QED
      BY <1>4, <2>1, <2>2, <3>1 DEF Going
  <2>10. OneRelease'
    BY <1>4, <2>1, <2>4, <2>5 DEF OneRelease, Releasing, Downloading
  <2>11. OwedIsFollowed'
    BY <1>4, <2>1, <2>6, <2>7, <2>8 DEF OwedIsFollowed, Imap
  <2> QED
    BY <2>9, <2>10, <2>11 DEF Orderly
<1>13. CASE ProcessMail \/ ProcessUIDS
  <2>1. /\ worker' = [worker EXCEPT !.phase = "ready", !.request = NoRequest]
        /\ UNCHANGED <<exits, client, queue, inbox, quit, account, orphans>>
    BY <1>5, <1>13 DEF ProcessMail, ProcessUIDS, Ready
  <2>2. worker'.phase = "ready" /\ worker'.request.kind = "done"
    BY <1>1, <2>1 DEF NoRequest
  <2> QED
    BY <1>4, <2>1, <2>2 DEF Orderly, Going, OneRelease, OwedIsFollowed, OwedWaits, Owed,
       DoneQueued, DoneBusy, Busy, Releasing, Downloading, Imap
<1>14. CASE ProcessDone
  <2>1. /\ worker' = [worker EXCEPT !.phase = "ready", !.request = NoRequest]
        /\ inbox' = Append(inbox, "done") /\ DoneBusy
        /\ UNCHANGED <<exits, client, queue, quit, account, orphans>>
    BY <1>5, <1>14 DEF ProcessDone, Ready, DoneBusy
  <2>2. worker'.phase = "ready" /\ worker'.request.kind = "done"
    BY <1>1, <2>1 DEF NoRequest
  <2>3. inbox = <<>> /\ ~DoneQueued /\ ~Releasing /\ ~Downloading /\ client.locked
    BY <1>4, <2>1 DEF OneRelease
  <2>4. inbox' = <<"done">>
    BY <2>1, <2>3
  <2>5. /\ DOMAIN inbox' = {1} /\ inbox'[1] = "done" /\ Len(inbox') = 1 /\ inbox' # <<>>
    BY <2>4
  <2>6. Going'
    <3>1. \A i \in DOMAIN inbox' : inbox'[i] = "done"
      BY <2>5
    <3>2. Len(inbox') <= 1
      BY <2>5
    <3> QED
      BY <1>4, <2>1, <2>2, <3>1, <3>2 DEF Going
  <2>7. OneRelease'
    BY <2>1, <2>2, <2>3, <2>5 DEF OneRelease, DoneQueued, DoneBusy, Busy, Releasing, Downloading
  <2>8. ~OwedWaits'
    <3>1. ~OwedWaits
      BY <1>4, <2>3 DEF OwedIsFollowed, Downloading
    <3> QED
      BY <1>5, <2>1, <2>2, <3>1 DEF OwedWaits, Owed, Imap
  <2> QED
    BY <2>6, <2>7, <2>8 DEF Orderly, OwedIsFollowed
<1>15. CASE FetchMessage \/ Finish
  <2>1. /\ client.phase = "fetching" /\ client.locked
        /\ ~Releasing /\ inbox = <<>> /\ ~DoneBusy /\ ~DoneQueued
        /\ quit = "no" /\ worker.phase # "dead"
        /\ UNCHANGED <<inbox, quit, account, orphans>>
    BY <1>4, <1>5, <1>15 DEF FetchMessage, Finish, Going, OneRelease, Downloading
  <2>2. UNCHANGED exits \/ Exit(FALSE) => ~Releasing' /\ exits'[TRUE] <= 1
    BY <1>1, <1>4, <2>1, ExitCounts DEF Going, Releasing
  <2>3. ASSUME NEW rs \in Seq(Sound), QueueRequest(rs),
               \A j \in DOMAIN rs : rs[j].kind = "done" => j = Len(rs),
               UNCHANGED exits \/ Exit(FALSE),
               client'.locked,
               \/ /\ client'.phase = "fetching"
                  /\ Imap \/ client'.pending # <<>>
                  /\ \A j \in DOMAIN rs : rs[j].kind # "done"
               \/ client'.phase = "closing" /\ \E j \in DOMAIN rs : rs[j].kind = "done"
        PROVE  Orderly'
    <3>1. /\ worker'.phase # "dead" /\ worker'.request = worker.request /\ ~DoneBusy'
          /\ DoneQueued' <=> \E j \in DOMAIN rs : rs[j].kind = "done"
          /\ \A i \in DOMAIN queue' : queue'[i].kind = "done" => i = Len(queue')
      BY <1>0, <2>1, <2>3, QueuedRequests
    <3>2. ~Releasing' /\ exits'[TRUE] <= 1
      BY <2>2, <2>3
    <3>3. Going'
      BY <1>4, <2>1, <2>3, <3>1, <3>2 DEF Going
    <3>4. OneRelease'
      BY <2>1, <2>3, <3>1, <3>2 DEF OneRelease, Downloading
    <3>5. OwedIsFollowed'
      BY <2>1, <2>3, <3>1 DEF OwedIsFollowed, Imap
    <3> QED
      BY <3>3, <3>4, <3>5 DEF Orderly
  <2>4. /\ \A p : client' = Leave(p) => client'.locked = client.locked /\ client'.phase = p
        /\ client.searched \subseteq UID
    BY <1>1, NoSessionFields DEF Leave, Session
  <2>5. CASE Finish
    <3>1. client' = Leave("closing") /\ Exit(~Imap) /\ client.pending = <<>>
          /\ QueueRequest(IF Imap THEN Searched \o <<DoneRequest>> ELSE Searched)
      BY <2>5 DEF Finish
    <3>2. UidRequest(client.searched) \in Sound /\ DoneRequest \in Sound
      BY <2>4, RequestsAreSound
    <3>3. /\ Searched \in Seq(Sound) /\ Searched \o <<DoneRequest>> \in Seq(Sound)
          /\ Searched = <<>> \/ Searched = <<UidRequest(client.searched)>>
      BY <3>2 DEF Searched
    <3>4. client'.locked /\ client'.phase = "closing"
      BY <2>1, <2>4, <3>1
    <3>5. CASE Imap
      <4> DEFINE rs == Searched \o <<DoneRequest>>
      <4>1. QueueRequest(rs) /\ Exit(FALSE) /\ rs \in Seq(Sound)
        BY <3>1, <3>3, <3>5
      <4>2. /\ \A j \in DOMAIN Searched : Searched[j].kind # "done"
            /\ <<DoneRequest>> \in Seq(Sound) /\ Len(<<DoneRequest>>) = 1
            /\ DOMAIN <<DoneRequest>> = {1} /\ <<DoneRequest>>[1] = DoneRequest
            /\ Len(Searched) \in Nat
        BY <3>2, <3>3 DEF UidRequest
      <4>3. /\ Len(rs) = Len(Searched) + 1
            /\ Len(Searched) + 1 \in DOMAIN rs /\ rs[Len(Searched) + 1] = DoneRequest
            /\ \A j \in DOMAIN rs : rs[j].kind = "done" => j - Len(Searched) = 1
        BY <3>3, <4>2, ConcatAt
      <4>4. /\ Len(rs) \in DOMAIN rs /\ rs[Len(rs)].kind = "done"
            /\ \A j \in DOMAIN rs : rs[j].kind = "done" => j = Len(rs)
        <5>1. \A j \in DOMAIN rs : j \in Nat
          BY <4>1
        <5> HIDE DEF rs
        <5> QED
          BY <4>2, <4>3, <5>1 DEF DoneRequest
      <4> HIDE DEF rs
      <4> QED
        BY <2>3, <3>4, <4>1, <4>4
    <3>6. CASE ~Imap
      <4>1. QueueRequest(Searched) /\ Exit(TRUE)
        BY <3>1, <3>6
      <4>2. \A j \in DOMAIN Searched : Searched[j].kind # "done" /\ ~Owed(Searched[j])
        <5>1. client.searched # {} => account.search
          BY <2>1, <3>1, <3>6 DEF NothingUnread
        <5> QED
          BY <3>6, <5>1 DEF Searched, UidRequest, Owed
      <4>3. /\ worker'.phase # "dead" /\ worker'.request = worker.request /\ ~DoneBusy'
            /\ ~DoneQueued' /\ (OwedWaits' => OwedWaits)
            /\ \A i \in DOMAIN queue' : queue'[i].kind = "done" => i = Len(queue')
        BY <1>0, <2>1, <3>3, <4>1, <4>2, QueuedRequests
      <4>4. ~OwedWaits
        BY <1>4, <2>1, <3>1, <3>6 DEF OwedIsFollowed
      <4>5. exits'[TRUE] = 1
        <5> DEFINE a == exits[TRUE]
                   b == exits'[TRUE]
        <5>1. a = 0 /\ b = a + 1
          BY <1>1, <2>1, <4>1, ExitCounts DEF Releasing
        <5> HIDE DEF a, b
        <5>2. b = 1
          BY <5>1
        <5> QED
          BY <5>2 DEF b
      <4>6. Going'
        BY <1>4, <2>1, <3>4, <4>3, <4>5 DEF Going
      <4>7. OneRelease'
        BY <2>1, <3>4, <4>3 DEF OneRelease, Downloading
      <4> QED
        BY <4>3, <4>4, <4>6, <4>7 DEF Orderly, OwedIsFollowed
    <3> QED
      BY <3>5, <3>6
  <2>6. CASE FetchMessage
    <3> DEFINE uid == Head(client.pending)
               batch == client.batch \cup {uid}
    <3>1. client'.locked /\ (UNCHANGED exits \/ Exit(FALSE))
      BY <2>1, <2>6, FetchEffect
    <3>2. PICK rs \in Seq(Sound) :
            /\ QueueRequest(rs)
            /\ \/ /\ client'.phase = "fetching" /\ (Imap \/ client'.pending # <<>>)
                  /\ rs = <<>>
               \/ /\ client'.phase = "fetching" /\ (Imap \/ client'.pending # <<>>)
                  /\ \E p : rs = <<MailRequest(batch, p)>>
               \/ client'.phase = "closing" /\ rs = LastRequests(batch)
      BY <2>6, FetchEffect
    <3> HIDE DEF batch
    <3>3. CASE client'.phase = "closing" /\ rs = LastRequests(batch)
      <4>1. /\ 3 \in DOMAIN rs /\ rs[3].kind = "done"
            /\ \A j \in DOMAIN rs : rs[j].kind = "done" => j = Len(rs)
        BY <3>3 DEF LastRequests, MailRequest, UidRequest, DoneRequest
      <4> QED
        BY <2>3, <3>1, <3>2, <3>3, <4>1
    <3>4. CASE /\ client'.phase = "fetching" /\ (Imap \/ client'.pending # <<>>)
               /\ rs = <<>> \/ \E p : rs = <<MailRequest(batch, p)>>
      <4>1. \A j \in DOMAIN rs : rs[j].kind # "done"
        BY <3>4 DEF MailRequest
      <4> QED
        BY <2>3, <3>1, <3>2, <3>4, <4>1
    <3> QED
      BY <3>2, <3>3, <3>4
  <2> QED
    BY <1>15, <2>5, <2>6
<1> QED
  BY <1>6, <1>7, <1>8, <1>9, <1>10, <1>11, <1>12, <1>13, <1>14, <1>15, OrderlySteps

(* A session that begins when all is quiet.                                *)
LEMMA QuietIsOrderly ==
  ASSUME TypeInv, Connect, Quiet
  PROVE  Orderly'
<1>1. /\ client'.locked = TRUE /\ client'.phase = "connecting"
      /\ quit = "no" /\ orphans' = 0
      /\ UNCHANGED <<exits, queue, worker, inbox, quit>>
  BY NoSessionFields DEF Connect, Quiet, Session
<1>2. /\ queue = <<>> /\ inbox = <<>> /\ exits[TRUE] = 0
      /\ worker.phase \notin {"busy", "dead"} /\ worker.request = NoRequest
  BY TypeByPart DEF Quiet, WorkerOK
<1>3. DOMAIN queue = {} /\ DOMAIN inbox = {} /\ Len(inbox) = 0
  BY <1>2
<1>4. worker.request.kind = "done"
  BY <1>2 DEF NoRequest
<1>5. Going'
  BY <1>1, <1>2, <1>3 DEF Going
<1>6. OneRelease'
  BY <1>1, <1>2, <1>3 DEF OneRelease, Releasing, DoneBusy, Busy, DoneQueued, Downloading
<1>7. OwedIsFollowed'
  BY <1>1, <1>3, <1>4 DEF OwedIsFollowed, OwedWaits, Owed
<1> QED
  BY <1>5, <1>6, <1>7 DEF Orderly

LEMMA LockInit == Init => LockInv
<1> SUFFICES ASSUME Init PROVE LockInv
  OBVIOUS
<1>1. TypeInv
  BY TypeInit
<1>2. /\ quit = "no" /\ worker.phase = "ready" /\ worker.request = NoRequest
      /\ client = NoSession /\ exits = [release \in BOOLEAN |-> 0]
      /\ inbox = <<>> /\ queue = <<>> /\ orphans = 0
  BY DEF Init
<1>3. DOMAIN queue = {} /\ DOMAIN inbox = {} /\ Len(inbox) = 0
  BY <1>2
<1>4. exits[TRUE] = 0
  BY <1>2
<1>5. worker.request.kind = "done" /\ client.phase = "idle"
  BY <1>2, NoSessionFields DEF NoRequest
<1> QED
  BY <1>1, <1>2, <1>3, <1>4, <1>5 DEF LockInv, NothingUnread, Orderly, Going, OneRelease,
     OwedIsFollowed, OwedWaits, Owed, DoneQueued, DoneBusy, Busy, Releasing, Downloading

LEMMA LockNext == LockInv /\ [Next]_vars => LockInv'
<1> SUFFICES ASSUME LockInv, [Next]_vars PROVE LockInv'
  OBVIOUS
<1>1. TypeInv /\ NothingUnread /\ TypeInv' /\ NothingUnread'
  BY TypeNext, NothingUnreadNext DEF LockInv
<1>2. ASSUME ~cut' PROVE Orderly'
  <2>1. CASE cut
    BY <1>1, <1>2, <2>1, CutStays, QuietIsOrderly
  <2>2. CASE ~cut
    BY <1>1, <1>2, <2>2, OrderlyNext DEF LockInv
  <2> QED
    BY <2>1, <2>2
<1> QED
  BY <1>1, <1>2 DEF LockInv

(* As long as nothing has gone wrong since all was last quiet, a session has *)
(* the client's lock, nothing that an earlier one began will still release   *)
(* it, and the worker has done all that an earlier one asked for, but for   *)
(* the UIDs of a POP client that searched and found nothing; whatever order *)
(* the threads and the disconnections take.                                *)
THEOREM BlocksTheorem == Spec => []BlocksUntilDone
<1>1. LockInv => BlocksUntilDone
  <2> SUFFICES ASSUME LockInv, ~cut, Downloading
               PROVE  /\ client.locked
                      /\ inbox = <<>> /\ exits[TRUE] = 0
                      /\ \A r \in Outstanding : r.kind # "done"
                      /\ client.phase = "connecting" =>
                           \A r \in Outstanding : r.kind = "uid" /\ ~Imap /\ account.search
    BY DEF BlocksUntilDone
  <2>1. client.locked /\ ~DoneQueued /\ ~DoneBusy /\ inbox = <<>> /\ exits[TRUE] = 0
    BY DEF LockInv, Orderly, OneRelease, Releasing
  <2>2. client.phase = "connecting" => ~OwedWaits
    BY <2>1 DEF LockInv, Orderly, OwedIsFollowed
  <2>3. ASSUME NEW r \in Outstanding
        PROVE  r.kind # "done" /\ (r = worker.request \/ \E i \in DOMAIN queue : r = queue[i])
    BY <2>1, <2>3 DEF Outstanding, Range, DoneQueued, DoneBusy, Busy
  <2>4. ASSUME NEW r \in Outstanding, client.phase = "connecting"
        PROVE  r.kind = "uid" /\ ~Imap /\ account.search
    <3>1. queue \in Seq(Request) /\ worker.request \in Request
      BY TypeByPart DEF LockInv, WorkerOK
    <3>2. r.kind \in {"mail", "uid", "done"}
      <4>1. r \in Request
        BY <2>3, <2>4, <3>1
      <4> QED
        BY <4>1 DEF Request
    <3>3. ~Owed(r)
      BY <2>2, <2>3, <2>4 DEF OwedWaits
    <3> QED
      BY <2>3, <3>2, <3>3 DEF Owed
  <2> QED
    BY <2>1, <2>3, <2>4
<1> QED
  BY <1>1, LockInit, LockNext, PTL DEF Spec

-----------------------------------------------------------------------------
(* No message is skipped.                                                  *)
LEMMA WantedIsUID == Wanted \subseteq UID
  BY MailAssumption DEF Wanted, UID

(* What is settled stays settled.                                          *)
LEMMA SettledStays ==
  ASSUME TypeInv, [Next]_vars, NEW u \in UID
  PROVE  Settled(u) => Settled(u)'
  BY LostNext DEF Settled

(* What the worker is converting is settled in the end.                     *)
LEMMA ConvertedIsSettled ==
  ASSUME TypeInv, ProcessMail \/ ProcessingFails, NEW u \in UID, u \in worker.request.mail
  PROVE  Settled(u)'
<1>1. CASE ProcessMail
  BY <1>1, MailEffect DEF Settled
<1>2. CASE ProcessingFails
  <2>1. lost' = Mark(worker.request.mail, "unsaved") /\ "unsaved" \in Losses
    BY <1>2 DEF ProcessingFails, Losses
  <2>2. lost'[u] = "unsaved"
    BY <2>1, Marks, TypeByPart DEF RestOK
  <2> QED
    BY <2>2 DEF Settled
<1> QED
  BY <1>1, <1>2

(* Over IMAP, what is dropped is settled: it is left behind.                *)
LEMMA ForgottenIsSettled ==
  ASSUME TypeInv, Imap, NEW messages, lost' = Forgotten(messages), NEW u \in UID, u \in messages
  PROVE  Settled(u)'
<1>1. lost'[u] = "left"
  BY Marks, TypeByPart DEF RestOK, Losses
<1> QED
  BY <1>1 DEF Settled

LEMMA MailOfQueue ==
  ASSUME NEW q, NEW i \in DOMAIN q, NEW u, u \in q[i].mail
  PROVE  u \in MailOf(q)
  BY DEF MailOf, Range

(* Requests go from the queue to the worker and are then settled, unless the *)
(* worker stops or the program quits.                                      *)
LEMMA QueueSteps ==
  ASSUME TypeInv, [Next]_vars
  PROVE  /\ worker.phase = "dead" => worker'.phase = "dead"
         /\ \/ /\ UNCHANGED <<queue, worker.request>>
               /\ worker'.phase = "dead" => worker.phase = "dead"
            \/ /\ FetchMessage \/ Finish
               /\ worker'.request = worker.request
               /\ worker'.phase = "dead" => worker.phase = "dead"
               /\ \E rs \in Seq(Sound) : QueueRequest(rs) /\ queue' = queue \o rs
            \/ /\ Take /\ quit = "no" /\ queue # <<>> /\ queue' = Tail(queue)
               /\ worker'.phase = "busy" /\ worker'.request = queue[1]
               /\ worker.request.mail = {}
            \/ /\ ProcessMail \/ ProcessingFails
               /\ UNCHANGED queue /\ worker'.request = NoRequest
            \/ /\ ProcessUIDS \/ ProcessDone
               /\ UNCHANGED queue /\ worker'.request = NoRequest /\ worker.request.mail = {}
            \/ /\ Take /\ quit # "no" /\ queue # <<>> /\ queue' = Tail(queue)
               /\ UNCHANGED worker /\ lost' = Forgotten(queue[1].mail)
            \/ /\ WorkerDies \/ Terminated
               /\ worker'.phase = "dead" /\ UNCHANGED queue /\ worker'.request = NoRequest
               /\ lost' = Forgotten(worker.request.mail \cup MailOf(queue))
            \/ /\ Abandon /\ quit # "no" /\ UNCHANGED <<queue, quit>>
               /\ worker'.request = NoRequest /\ lost' = Forgotten(worker.request.mail)
<1>0. WorkerOK
  BY TypeByPart
<1>1. /\ worker \in [phase : {"ready", "waiting", "busy", "dead"}, alive : BOOLEAN,
                     request : Request]
      /\ queue \in Seq(Sound) /\ worker.request \in Sound
      /\ worker.phase # "busy" => worker.request = NoRequest
  BY <1>0 DEF WorkerOK
<1>2. CASE FetchMessage \/ Finish
  <2>1. UNCHANGED quit
    BY <1>2 DEF FetchMessage, Finish
  <2>2. PICK rs \in Seq(Sound) : QueueRequest(rs)
    BY <1>2, QueuedIsSound
  <2>3. /\ worker'.request = worker.request
        /\ worker'.phase = "dead" <=> worker.phase = "dead"
        /\ queue' = IF Serving THEN queue \o rs ELSE queue
    BY <1>0, <2>1, <2>2, QueueRequestOK
  <2> QED
    BY <1>2, <2>2, <2>3
<1>3. CASE Take
  <2>1. /\ queue # <<>> /\ queue' = Tail(queue) /\ worker.phase = "ready"
        /\ Head(queue) = queue[1]
        /\ \/ /\ quit = "no"
              /\ worker' = [worker EXCEPT !.phase = "busy", !.request = Head(queue)]
           \/ quit # "no" /\ lost' = Forgotten(Head(queue).mail) /\ UNCHANGED worker
    BY <1>1, <1>3, HeadAndTail DEF Take
  <2>2. worker.request.mail = {}
    BY <1>1, <2>1 DEF NoRequest
  <2> QED
    BY <1>1, <1>3, <2>1, <2>2
<1>4. CASE ProcessMail \/ ProcessingFails \/ ProcessUIDS \/ ProcessDone
  <2>1. UNCHANGED queue /\ worker' = [worker EXCEPT !.phase = "ready", !.request = NoRequest]
        /\ worker.phase = "busy"
    BY <1>4 DEF ProcessMail, ProcessingFails, ProcessUIDS, ProcessDone, Ready, Busy
  <2>2. worker'.request = NoRequest
    BY <1>1, <2>1
  <2>3. ProcessUIDS \/ ProcessDone => worker.request.mail = {}
    BY <1>1 DEF ProcessUIDS, ProcessDone, Busy, Sound
  <2> QED
    BY <1>4, <2>1, <2>2, <2>3
<1>5. CASE Wait \/ Quit \/ Shutdown
  BY <1>1, <1>5 DEF Wait, Quit, Shutdown, Terminate, Join
<1>6. CASE WorkerDies
  BY <1>1, <1>6 DEF WorkerDies
<1>7. CASE Terminated
  <2>1. /\ worker.phase = "ready" /\ worker' = [worker EXCEPT !.phase = "dead"]
        /\ lost' = Forgotten(MailOf(queue)) /\ UNCHANGED queue
    BY <1>7 DEF Terminated
  <2>2. worker.request = NoRequest /\ worker.request.mail = {}
    BY <1>1, <2>1 DEF NoRequest
  <2>3. worker.request.mail \cup MailOf(queue) = MailOf(queue)
    BY <2>2
  <2> QED
    BY <1>1, <1>7, <2>1, <2>2, <2>3
<1>8. CASE Abandon
  <2>1. worker' = [worker EXCEPT !.phase = "ready", !.request = NoRequest] /\ worker.phase = "busy"
    BY <1>8 DEF Abandon, Ready
  <2> QED
    BY <1>1, <1>8, <2>1 DEF Abandon
<1>9. CASE \/ Arrive \/ Connect \/ ServerError \/ TimeoutBeforeGreeting \/ MuteServerCloses
           \/ CheckForNewMessages \/ OrphanFails \/ OrphanStalls \/ Disconnected(TRUE)
           \/ Disconnected(FALSE) \/ RequestsComplete \/ CatchWorkerError \/ UNCHANGED vars
  BY <1>9 DEF vars, Arrive, Connect, ServerError, TimeoutBeforeGreeting, MuteServerCloses,
     CheckForNewMessages, OrphanFails, OrphanStalls, Disconnected, RequestsComplete,
     CatchWorkerError
<1> QED
  BY <1>2, <1>3, <1>4, <1>5, <1>6, <1>7, <1>8, <1>9 DEF Next, Reactor, Work

LEMMA HeldStays ==
  ASSUME TypeInv, [Next]_vars, Imap \/ (quit' = "no" /\ worker'.phase # "dead"),
         NEW u \in UID, Held(u)
  PROVE  Held(u)'
<1>0. queue \in Seq(Sound) /\ (Settled(u) => Settled(u)')
  BY TypeByPart, SettledStays DEF WorkerOK
<1>1. CASE Settled(u)
  BY <1>0, <1>1 DEF Held
<1>2. CASE ~Settled(u)
  <2>1. /\ worker.phase # "dead"
        /\ u \in worker.request.mail \/ \E i \in DOMAIN queue : u \in queue[i].mail
    BY <1>2 DEF Held
  <2>2. CASE UNCHANGED <<queue, worker.request>> /\ worker'.phase # "dead"
    BY <2>1, <2>2 DEF Held
  <2>3. CASE /\ worker'.request = worker.request /\ worker'.phase # "dead"
             /\ \E rs \in Seq(Sound) : queue' = queue \o rs
    BY <1>0, <2>1, <2>3, ConcatAt DEF Held
  <2>4. CASE /\ queue # <<>> /\ queue' = Tail(queue) /\ worker'.request = queue[1]
             /\ worker'.phase = "busy" /\ worker.request.mail = {}
    <3>1. PICK i \in DOMAIN queue : u \in queue[i].mail
      BY <2>1, <2>4
    <3>2. i = 1 \/ (i - 1 \in DOMAIN queue' /\ queue[i] = queue'[i - 1])
      BY <1>0, <2>4, <3>1, HeadAndTail
    <3> QED
      BY <2>4, <3>1, <3>2 DEF Held
  <2>5. CASE (ProcessMail \/ ProcessingFails) /\ UNCHANGED queue
    <3>1. worker'.phase # "dead"
      BY <2>5, TypeByPart DEF ProcessMail, ProcessingFails, Ready, WorkerOK
    <3> QED
      BY <2>1, <2>5, <3>1, ConvertedIsSettled DEF Held
  <2>6. CASE (ProcessUIDS \/ ProcessDone) /\ UNCHANGED queue /\ worker.request.mail = {}
    <3>1. worker'.phase # "dead"
      BY <2>6, TypeByPart DEF ProcessUIDS, ProcessDone, Ready, WorkerOK
    <3> QED
      BY <2>1, <2>6, <3>1 DEF Held
  <2>7. CASE /\ Take /\ quit # "no" /\ queue # <<>> /\ queue' = Tail(queue)
             /\ UNCHANGED worker /\ lost' = Forgotten(queue[1].mail)
    <3>1. Imap
      BY <2>7, StepEffects
    <3>2. CASE u \in queue[1].mail
      BY <2>7, <3>1, <3>2, ForgottenIsSettled DEF Held
    <3>3. ASSUME u \notin queue[1].mail, NEW i \in DOMAIN queue, u \in queue[i].mail
          PROVE  Held(u)'
      <4>1. i - 1 \in DOMAIN queue' /\ queue[i] = queue'[i - 1]
        BY <1>0, <2>7, <3>3, HeadAndTail
      <4> QED
        BY <2>1, <2>7, <3>3, <4>1 DEF Held
    <3>4. CASE u \in worker.request.mail
      BY <2>1, <2>7, <3>4 DEF Held
    <3> QED
      BY <2>1, <3>2, <3>3, <3>4
  <2>8. CASE /\ worker'.phase = "dead"
             /\ lost' = Forgotten(worker.request.mail \cup MailOf(queue))
    <3>1. Imap /\ u \in worker.request.mail \cup MailOf(queue)
      BY <2>1, <2>8, MailOfQueue
    <3> QED
      BY <2>8, <3>1, ForgottenIsSettled DEF Held
  <2>9. CASE /\ Abandon /\ quit # "no" /\ UNCHANGED <<queue, quit>>
             /\ lost' = Forgotten(worker.request.mail)
    <3>1. Imap
      BY <2>9
    <3>2. worker'.phase # "dead"
      BY <2>9, TypeByPart DEF Abandon, Ready, WorkerOK
    <3>3. CASE u \in worker.request.mail
      BY <2>9, <3>1, <3>3, ForgottenIsSettled DEF Held
    <3> QED
      BY <2>1, <2>9, <3>2, <3>3 DEF Held
  <2> QED
    BY <2>1, <2>2, <2>3, <2>4, <2>5, <2>6, <2>7, <2>8, <2>9, QueueSteps
<1> QED
  BY <1>1, <1>2

(* Mail that is queued is held, or left behind if nobody serves the queue.   *)
LEMMA QueuedIsHeld ==
  ASSUME TypeInv, NEW rs \in Seq(Sound), QueueRequest(rs), UNCHANGED quit, Imap \/ Serving,
         NEW u \in UID, NEW j \in DOMAIN rs, u \in rs[j].mail
  PROVE  Held(u)'
<1>1. /\ queue \in Seq(Sound)
      /\ worker'.phase = "dead" <=> worker.phase = "dead"
      /\ queue' = IF Serving THEN queue \o rs ELSE queue
      /\ lost' = IF Serving THEN lost ELSE Forgotten(MailOf(rs))
  BY TypeByPart, QueueRequestOK DEF WorkerOK
<1>2. CASE Serving
  <2>1. Len(queue) + j \in DOMAIN (queue \o rs) /\ (queue \o rs)[Len(queue) + j] = rs[j]
    BY <1>1, ConcatAt
  <2> QED
    BY <1>1, <1>2, <2>1 DEF Held, Serving
<1>3. CASE ~Serving
  BY <1>1, <1>3, MailOfQueue, ForgottenIsSettled DEF Held
<1> QED
  BY <1>2, <1>3

LEMMA FetchKeeps ==
  ASSUME TypeInv, FetchMessage, Imap \/ Serving, NEW u \in UID, WithClient(u)
  PROVE  AccountedFor(u)'
<1> DEFINE uid == Head(client.pending)
           batch == client.batch \cup {uid}
<1>1. client.pending \in Seq(UID) /\ client.pending # <<>> /\ UNCHANGED quit
  BY FetchEffect DEF FetchMessage
<1>2. PICK rs \in Seq(Sound) :
        /\ QueueRequest(rs)
        /\ \/ client'.batch = batch /\ rs = <<>>
           \/ \E p : rs = <<MailRequest(batch, p)>>
           \/ rs = LastRequests(batch)
  BY FetchEffect
<1>3. CASE u \in batch
  <2>1. CASE client'.batch = batch
    BY <1>3, <2>1 DEF AccountedFor, WithClient
  <2>2. CASE rs = LastRequests(batch) \/ \E p : rs = <<MailRequest(batch, p)>>
    <3>1. 1 \in DOMAIN rs /\ rs[1].mail = batch
      BY <2>2 DEF LastRequests, MailRequest
    <3> HIDE DEF batch
    <3> QED
      BY <1>1, <1>2, <1>3, <3>1, QueuedIsHeld DEF AccountedFor
  <2> QED
    BY <1>2, <2>1, <2>2
<1>4. CASE \E i \in DOMAIN Tail(client.pending) : Tail(client.pending)[i] = u
  <2>1. Tail(client.pending) # <<>>
    BY <1>4
  <2>2. client'.pending = Tail(client.pending)
    BY <2>1, FetchEffect
  <2> QED
    BY <1>4, <2>2 DEF AccountedFor, WithClient
<1>5. u \in client.batch \/ u = uid \/ \E i \in DOMAIN Tail(client.pending) : Tail(client.pending)[i] = u
  <2>1. CASE u \in client.batch
    BY <2>1
  <2>2. ASSUME NEW i \in DOMAIN client.pending, client.pending[i] = u
        PROVE  u = uid \/ \E j \in DOMAIN Tail(client.pending) : Tail(client.pending)[j] = u
    <3>1. i = 1 \/ (i - 1 \in DOMAIN Tail(client.pending)
                     /\ client.pending[i] = Tail(client.pending)[i - 1])
      BY <1>1, HeadAndTail
    <3>2. client.pending[1] = uid
      BY <1>1, HeadAndTail
    <3> QED
      BY <2>2, <3>1, <3>2
  <2> QED
    BY <2>1, <2>2 DEF WithClient
<1> QED
  BY <1>3, <1>4, <1>5

(* What is accounted for stays so, over POP unless the session is broken     *)
(* off, over IMAP also then if its UID has been given to the worker.        *)
LEMMA AccountedStays ==
  ASSUME TypeInv, [Next]_vars, Imap \/ (quit' = "no" /\ worker'.phase # "dead"),
         NEW u \in UID, AccountedFor(u),
         ServerError \/ (\E r \in BOOLEAN : Disconnected(r) /\ Downloading) =>
           Imap /\ u \in Handed
  PROVE  AccountedFor(u)'
<1>0. /\ client \in Session
      /\ client.phase # "fetching" => client.batch = {} /\ client.pending = <<>>
      /\ client.phase = "fetching" /\ client.pending = <<>> => client.batch = {}
  BY TypeByPart DEF ClientOK, SessionOver
<1>1. CASE Held(u)
  BY <1>1, HeldStays DEF AccountedFor
<1>2. CASE ~Held(u)
  <2>1. WithClient(u)
    BY <1>2 DEF AccountedFor
  <2>2. client.phase = "fetching" /\ client.pending # <<>>
    BY <1>0, <2>1 DEF WithClient
  <2>3. CASE UNCHANGED client
    BY <2>1, <2>3 DEF AccountedFor, WithClient
  <2>4. CASE FetchMessage
    <3>1. Imap \/ Serving
      <4>1. quit' = "no" => worker.alive
        BY StepEffects, TypeByPart DEF WorkerOK
      <4> QED
        BY <4>1, QueueSteps DEF Serving
    <3> QED
      BY <2>1, <2>4, <3>1, FetchKeeps
  <2>5. CASE RequestsComplete
    <3>1. client'.batch = client.batch /\ client'.pending = client.pending
      BY <1>0, <2>5 DEF RequestsComplete, Session
    <3> QED
      BY <2>1, <3>1 DEF AccountedFor, WithClient
  <2>6. CASE Disconnected(TRUE) \/ Disconnected(FALSE) \/ ServerError
    <3>1. Imap /\ u \in Handed /\ lost' = Forgotten(Unfetched \cap Handed)
      BY <2>2, <2>6 DEF Downloading, Disconnected, ServerError
    <3>2. u \in Unfetched
      BY <2>1 DEF WithClient, Unfetched, Range
    <3> QED
      BY <3>1, <3>2, ForgottenIsSettled DEF AccountedFor, Held
  <2>7. CASE \/ Connect \/ CheckForNewMessages \/ Finish \/ TimeoutBeforeGreeting
             \/ MuteServerCloses
    BY <2>2, <2>7 DEF Connect, CheckForNewMessages, Finish, TimeoutBeforeGreeting,
       MuteServerCloses, Downloading
  <2>8. CASE OrphanFails \/ OrphanStalls \/ CatchWorkerError
    BY <2>2, <2>3, <2>8 DEF OrphanFails, OrphanStalls, CatchWorkerError
  <2>9. CASE Arrive \/ Work \/ Quit \/ Shutdown \/ UNCHANGED vars
    BY <2>3, <2>9 DEF vars, Arrive, Work, Wait, Take, ProcessMail, ProcessUIDS, ProcessDone,
       ProcessingFails, WorkerDies, Abandon, Terminated, Quit, Shutdown, Terminate, Join
  <2> QED
    BY <2>4, <2>5, <2>6, <2>7, <2>8, <2>9 DEF Next, Reactor
<1> QED
  BY <1>1, <1>2

(* What the steps do to the variables of a session that is not fetching, or   *)
(* whose fetching they break off or end.                                   *)
LEMMA ClientSteps ==
  ASSUME TypeInv, [Next]_vars, ~CheckForNewMessages, ~FetchMessage
  PROVE  \/ /\ client'.known \in {{}, store.passed}
            /\ client'.passed = {} /\ client'.searched = {} /\ client'.pending = <<>>
         \/ /\ client'.known = client.known /\ client'.passed = client.passed
            /\ client'.searched = client.searched /\ client'.pending = client.pending
            /\ ~ServerError /\ ~\E r \in BOOLEAN : Disconnected(r)
<1>1. client \in Session
  BY TypeByPart DEF ClientOK
<1> DEFINE Empty == /\ client'.known \in {{}, store.passed}
                    /\ client'.passed = {} /\ client'.searched = {} /\ client'.pending = <<>>
           Same == /\ client'.known = client.known /\ client'.passed = client.passed
                   /\ client'.searched = client.searched /\ client'.pending = client.pending
<1>4. ASSUME NEW l, NEW q, client' = [NoSession EXCEPT !.locked = l, !.phase = q]
      PROVE  Empty
  BY <1>4, NoSessionFields DEF Session
<1>2. CASE ServerError \/ (\E r \in BOOLEAN : Disconnected(r))
  <2>1. \E l, q : client' = [NoSession EXCEPT !.locked = l, !.phase = q]
    BY <1>2 DEF ServerError, Disconnected, Leave
  <2> HIDE DEF Empty
  <2>2. Empty
    BY <1>4, <2>1
  <2> QED
    BY <2>2 DEF Empty
<1>3. CASE ~(ServerError \/ \E r \in BOOLEAN : Disconnected(r))
  <2>1. \/ \E l, q : client' = [NoSession EXCEPT !.locked = l, !.phase = q]
        \/ client' = [NoSession EXCEPT !.locked = TRUE, !.phase = "connecting",
                                       !.known = store.passed]
        \/ client' = NoSession
        \/ client' = client
        \/ \E q : client' = [client EXCEPT !.phase = q]
        \/ client' = [client EXCEPT !.locked = FALSE]
    BY <1>3 DEF Next, Reactor, Work, Shutdown, vars, Arrive, Connect, TimeoutBeforeGreeting,
       MuteServerCloses, Finish, OrphanFails, OrphanStalls, RequestsComplete, CatchWorkerError,
       Wait, Take, ProcessMail, ProcessUIDS, ProcessDone, ProcessingFails, WorkerDies, Abandon,
       Terminated, Quit, Terminate, Join, Leave
  <2>2. CASE client' = [NoSession EXCEPT !.locked = TRUE, !.phase = "connecting",
                                         !.known = store.passed]
    BY <2>2, NoSessionFields DEF Session
  <2>3. CASE client' = NoSession
    BY <2>3, NoSessionFields
  <2>4. CASE client' = client
    BY <1>3, <2>4
  <2>5. CASE client' = [client EXCEPT !.locked = FALSE]
    <3>1. Same
      BY <1>1, <2>5 DEF Session
    <3> QED
      BY <1>3, <3>1
  <2>6. ASSUME NEW q, client' = [client EXCEPT !.phase = q] PROVE Same
    BY <1>1, <2>6 DEF Session
  <2> HIDE DEF Empty, Same
  <2>7. Empty \/ Same
    <3>1. CASE \E l, q : client' = [NoSession EXCEPT !.locked = l, !.phase = q]
      BY <1>4, <3>1
    <3> QED
      BY <2>1, <2>2, <2>3, <2>4, <2>5, <2>6, <3>1 DEF Empty, Same
  <2> QED
    BY <1>3, <2>7 DEF Empty, Same
<1> QED
  BY <1>2, <1>3

LEMMA PopNext ==
  ASSUME TypeInv, ~Imap, [Next]_vars, NEW u \in Wanted, PopKeeps(u)
  PROVE  PopKeeps(u)'
<1>0. ClientOK /\ WorkerOK /\ RestOK /\ u \in UID
  BY TypeByPart, WantedIsUID
<1>1. /\ client \in Session /\ queue \in Seq(Sound) /\ worker.request \in Sound
      /\ worker \in [phase : {"ready", "waiting", "busy", "dead"}, alive : BOOLEAN,
                     request : Request]
      /\ store \in [mail : SUBSET UID, passed : SUBSET UID]
      /\ worker.phase # "busy" => worker.request = NoRequest
      /\ client.searched \subseteq UID
  BY <1>0 DEF ClientOK, WorkerOK, RestOK, Session
<1>2. Settled(u) => Settled(u)'
  BY <1>0, SettledStays
<1>3. (u \in store.passed => Settled(u))'
  <2>1. CASE ProcessMail
    BY <1>2, <2>1, MailEffect DEF PopKeeps, Settled
  <2>2. CASE ProcessUIDS
    <3>1. store'.passed = store.passed \cup worker.request.passed /\ worker.request.kind = "uid"
      BY <1>1, <2>2 DEF ProcessUIDS, Pass, Busy
    <3> QED
      BY <1>2, <3>1 DEF PopKeeps
  <2>3. CASE UNCHANGED store
    BY <1>2, <2>3 DEF PopKeeps
  <2> QED
    BY <2>1, <2>2, <2>3, StepEffects
<1>4. (worker.request.kind = "uid" /\ u \in worker.request.passed => Settled(u))'
  <2>1. CASE worker'.request \in {worker.request, NoRequest}
    BY <1>2, <2>1 DEF PopKeeps, NoRequest
  <2>2. CASE /\ Take /\ quit = "no" /\ queue # <<>> /\ worker'.request = queue[1]
             /\ worker.request.mail = {}
    <3>1. 1 \in DOMAIN queue /\ worker.phase # "dead"
      BY <1>1, <2>2, HeadAndTail DEF Take
    <3>2. ~QueuedBefore(u, 1)
      BY <1>1 DEF QueuedBefore
    <3> QED
      BY <1>2, <2>2, <3>1, <3>2 DEF PopKeeps
  <2> QED
    BY <2>1, <2>2, QueueSteps
<1>5. ASSUME quit' = "no", worker'.phase # "dead"
      PROVE  quit = "no" /\ worker.phase # "dead" /\ Serving
  <2>1. quit = "no" /\ worker.phase # "dead"
    BY <1>5, StepEffects, QueueSteps
  <2> QED
    BY <1>0, <2>1 DEF WorkerOK, Serving
<1>6. ASSUME quit' = "no", worker'.phase # "dead", u \in client'.searched
      PROVE  AccountedFor(u)'
  <2>1. CASE CheckForNewMessages
    <3>1. \E i \in DOMAIN client'.pending : client'.pending[i] = u
      BY <1>6, <2>1, CheckEffect
    <3> QED
      BY <3>1 DEF AccountedFor, WithClient
  <2>2. ASSUME u \in client.searched, ~ServerError,
               ~\E r \in BOOLEAN : Disconnected(r)
        PROVE  AccountedFor(u)'
    BY <1>0, <1>5, <1>6, <2>2, AccountedStays DEF PopKeeps
  <2>3. CASE FetchMessage
    <3>1. u \in client.searched
      BY <1>6, <2>3, FetchEffect
    <3>2. AccountedFor(u)
      BY <1>5, <1>6, <3>1 DEF PopKeeps
    <3>3. CASE Held(u)
      BY <1>0, <1>6, <3>3, HeldStays DEF AccountedFor
    <3>4. CASE WithClient(u)
      BY <1>0, <1>5, <1>6, <2>3, <3>4, FetchKeeps
    <3> QED
      BY <3>2, <3>3, <3>4 DEF AccountedFor
  <2> QED
    BY <1>6, <2>1, <2>2, <2>3, ClientSteps
<1>7. ASSUME quit' = "no", worker'.phase # "dead",
             NEW i \in DOMAIN queue', queue'[i].kind = "uid", u \in queue'[i].passed
      PROVE  Settled(u)' \/ u \in worker'.request.mail \/ QueuedBefore(u, i)'
  <2>1. /\ u \in client.searched => AccountedFor(u)
        /\ \A k \in DOMAIN queue : queue[k].kind = "uid" /\ u \in queue[k].passed =>
             Settled(u) \/ u \in worker.request.mail \/ QueuedBefore(u, k)
        /\ quit = "no" /\ worker.phase # "dead"
    BY <1>5, <1>7 DEF PopKeeps
  <2>2. CASE UNCHANGED <<queue, worker.request>>
    BY <1>2, <1>7, <2>1, <2>2 DEF QueuedBefore
  <2>3. ASSUME NEW rs \in Seq(Sound), worker'.request = worker.request, queue' = queue \o rs,
               i \in DOMAIN queue
        PROVE  Settled(u)' \/ u \in worker'.request.mail \/ QueuedBefore(u, i)'
    <3>1. \A k \in DOMAIN queue : k \in DOMAIN queue' /\ queue'[k] = queue[k]
      BY <1>1, <2>3, ConcatAt
    <3> QED
      BY <1>2, <1>7, <2>1, <2>3, <3>1 DEF QueuedBefore
  <2>4. ASSUME NEW rs \in Seq(Sound), worker'.request = worker.request, queue' = queue \o rs,
               i \notin DOMAIN queue, Held(u)
        PROVE  Settled(u)' \/ u \in worker'.request.mail \/ QueuedBefore(u, i)'
    <3>1. /\ \A k \in DOMAIN queue : k \in DOMAIN queue' /\ queue'[k] = queue[k]
          /\ i - Len(queue) \in DOMAIN rs
      BY <1>1, <1>7, <2>4, ConcatAt
    <3>2. \A k \in DOMAIN queue : k < i
      <4>1. queue' \in Seq(Sound)
        BY <1>1, <2>4, ConcatAt
      <4> QED
        BY <1>1, <1>7, <3>1, <4>1
    <3> QED
      BY <1>2, <2>4, <3>1, <3>2 DEF Held, QueuedBefore
  <2>5. CASE Finish
    <3>1. /\ client.pending = <<>> /\ client.phase = "fetching" /\ QueueRequest(Searched)
          /\ UNCHANGED quit
      BY <2>5 DEF Finish
    <3>2. Searched \in Seq(Sound) /\ (Searched = <<>> \/ Searched = <<UidRequest(client.searched)>>)
      <4>1. UidRequest(client.searched) \in Sound
        BY <1>1, RequestsAreSound
      <4> QED
        BY <4>1 DEF Searched
    <3>3. queue' = queue \o Searched /\ worker'.request = worker.request
      BY <1>0, <1>5, <1>7, <3>1, <3>2, QueueRequestOK
    <3>4. CASE i \notin DOMAIN queue
      <4>1. i - Len(queue) \in DOMAIN Searched /\ queue'[i] = Searched[i - Len(queue)]
        BY <1>1, <1>7, <3>2, <3>3, <3>4, ConcatAt
      <4>2. u \in client.searched
        BY <1>7, <3>2, <4>1 DEF UidRequest
      <4>3. client.batch = {} /\ DOMAIN client.pending = {}
        BY <1>0, <3>1 DEF ClientOK
      <4>4. Held(u)
        BY <2>1, <4>2, <4>3 DEF AccountedFor, WithClient
      <4> QED
        BY <2>4, <3>2, <3>3, <3>4, <4>4
    <3> QED
      BY <2>3, <3>2, <3>3, <3>4
  <2>6. CASE FetchMessage
    <3> DEFINE uid == Head(client.pending)
               batch == client.batch \cup {uid}
               last == LastRequests(batch)
    <3>1. /\ client.pending \in Seq(UID) /\ client.pending # <<>>
          /\ batch \in SUBSET UID /\ UNCHANGED quit
      BY <2>6, FetchEffect DEF FetchMessage
    <3>2. PICK rs \in Seq(Sound) :
            /\ QueueRequest(rs)
            /\ \/ rs = <<>>
               \/ \E q : rs = <<MailRequest(batch, q)>>
               \/ rs = last /\ Tail(client.pending) = <<>>
      BY <2>6, FetchEffect
    <3>3. worker'.request = worker.request /\ queue' = queue \o rs
      BY <1>0, <1>5, <1>7, <3>1, <3>2, QueueRequestOK
    <3>4. CASE i \in DOMAIN queue
      BY <2>3, <3>3, <3>4
    <3>5. CASE i \notin DOMAIN queue
      <4>1. i - Len(queue) \in DOMAIN rs /\ queue'[i] = rs[i - Len(queue)]
        BY <1>1, <1>7, <3>3, <3>5, ConcatAt
      <4>2. rs # <<>>
        BY <4>1
      <4>3. ASSUME NEW q, rs = <<MailRequest(batch, q)>> PROVE FALSE
        <5>1. \A j \in DOMAIN rs : rs[j].kind = "mail"
          BY <4>3 DEF MailRequest
        <5> QED
          BY <1>7, <4>1, <5>1
      <4>4. rs = last /\ Tail(client.pending) = <<>>
        BY <3>2, <4>2, <4>3
      <4>5. /\ DOMAIN last = {1, 2, 3}
            /\ last[1].mail = batch /\ last[1].kind = "mail"
            /\ last[2].passed = client.searched /\ last[3].kind = "done"
        BY DEF LastRequests, MailRequest, UidRequest, DoneRequest
      <4> HIDE DEF last
      <4>6. i - Len(queue) = 2 /\ u \in client.searched
        BY <1>7, <4>1, <4>4, <4>5
      <4>7. CASE Held(u)
        BY <2>4, <3>3, <3>5, <4>7
      <4>8. CASE u \in batch
        <5>1. Len(queue) + 1 \in DOMAIN queue' /\ queue'[Len(queue) + 1] = last[1]
          BY <1>1, <3>3, <4>4, <4>5, ConcatAt
        <5>2. Len(queue) + 1 < i
          <6>1. Len(queue) \in Nat /\ i \in Nat
            <7>1. queue' \in Seq(Sound)
              BY <1>1, <3>3, ConcatAt
            <7> QED
              BY <1>1, <1>7, <7>1
          <6> QED
            BY <4>6, <6>1
        <5> QED
          BY <4>5, <4>8, <5>1, <5>2 DEF QueuedBefore
      <4>9. Held(u) \/ u \in batch
        <5>1. Held(u) \/ u \in client.batch \/ \E k \in DOMAIN client.pending : client.pending[k] = u
          BY <2>1, <4>6 DEF AccountedFor, WithClient
        <5>2. ASSUME NEW k \in DOMAIN client.pending, client.pending[k] = u PROVE u = uid
          <6>1. DOMAIN Tail(client.pending) = {}
            BY <4>4
          <6> QED
            BY <3>1, <5>2, <6>1, HeadAndTail
        <5> QED
          BY <5>1, <5>2
      <4> QED
        BY <4>7, <4>8, <4>9
    <3> QED
      BY <3>4, <3>5
  <2>7. CASE /\ queue # <<>> /\ queue' = Tail(queue) /\ worker'.request = queue[1]
             /\ worker.request.mail = {}
    <3>1. /\ i + 1 \in DOMAIN queue /\ queue'[i] = queue[i + 1]
          /\ \A k \in DOMAIN queue : k = 1 \/ (k - 1 \in DOMAIN queue' /\ queue[k] = queue'[k - 1])
      BY <1>1, <1>7, <2>7, HeadAndTail
    <3>2. Settled(u) \/ QueuedBefore(u, i + 1)
      BY <1>7, <2>1, <2>7, <3>1
    <3>3. ASSUME NEW k \in DOMAIN queue, k < i + 1, u \in queue[k].mail
          PROVE  u \in worker'.request.mail \/ QueuedBefore(u, i)'
      <4>1. CASE k = 1
        BY <2>7, <3>3, <4>1
      <4>2. CASE k # 1
        <5>1. k - 1 \in DOMAIN queue' /\ queue[k] = queue'[k - 1]
          BY <3>1, <4>2
        <5>2. k - 1 < i
          <6>1. queue' \in Seq(Sound)
            BY <1>1, <2>7
          <6> QED
            BY <1>1, <1>7, <3>3, <6>1
        <5> QED
          BY <3>3, <5>1, <5>2 DEF QueuedBefore
      <4> QED
        BY <4>1, <4>2
    <3> QED
      BY <1>2, <3>2, <3>3 DEF QueuedBefore
  <2>8. CASE (ProcessMail \/ ProcessingFails) /\ UNCHANGED queue
    BY <1>0, <1>2, <1>7, <2>1, <2>8, ConvertedIsSettled DEF QueuedBefore
  <2>9. CASE UNCHANGED queue /\ worker.request.mail = {}
    BY <1>2, <1>7, <2>1, <2>9 DEF QueuedBefore
  <2> QED
    BY <1>5, <1>7, <2>2, <2>5, <2>6, <2>7, <2>8, <2>9, QueueSteps
<1> QED
  BY <1>3, <1>4, <1>6, <1>7 DEF PopKeeps

LEMMA HandedIs ==
  ASSUME NEW u
  PROVE  u \in Handed <=> \/ u \in store.passed \cup worker.request.passed
                          \/ \E i \in DOMAIN queue : u \in queue[i].passed
  BY DEF Handed, Range

(* What is given as passed over was given before, or is given by a request   *)
(* of the client.                                                          *)
LEMMA HandedByQueue ==
  ASSUME TypeInv, NEW rs \in Seq(Sound), QueueRequest(rs), UNCHANGED <<store, quit>>,
         NEW u, u \in Handed'
  PROVE  u \in Handed \/ \E j \in DOMAIN rs : u \in rs[j].passed
<1>1. /\ queue \in Seq(Sound) /\ worker'.request = worker.request
      /\ queue' = IF Serving THEN queue \o rs ELSE queue
  BY TypeByPart, QueueRequestOK DEF WorkerOK
<1>2. CASE u \in store'.passed \cup worker'.request.passed
  BY <1>1, <1>2, HandedIs
<1>3. CASE \E i \in DOMAIN queue' : u \in queue'[i].passed
  <2>1. PICK i \in DOMAIN queue' : u \in queue'[i].passed
    BY <1>3
  <2>2. \/ i \in DOMAIN queue /\ queue'[i] = queue[i]
        \/ i - Len(queue) \in DOMAIN rs /\ queue'[i] = rs[i - Len(queue)]
    BY <1>1, <2>1, ConcatAt
  <2> QED
    BY <2>1, <2>2, HandedIs
<1> QED
  BY <1>2, <1>3 DEF Handed, Range

LEMMA HandedStays ==
  ASSUME TypeInv, Imap, [Next]_vars, ~FetchMessage, ~Finish, NEW u, u \in Handed'
  PROVE  u \in Handed
<1>1. queue \in Seq(Sound) /\ store \in [mail : SUBSET UID, passed : SUBSET UID]
  BY TypeByPart DEF WorkerOK, RestOK
<1>2. \/ u \in store'.passed \cup worker'.request.passed
      \/ \E i \in DOMAIN queue' : u \in queue'[i].passed
  BY DEF Handed, Range
<1>3. store'.passed \in {store.passed, worker.request.passed}
  <2>1. CASE ProcessUIDS
    BY <1>1, <2>1 DEF ProcessUIDS, Pass
  <2> QED
    BY <2>1, MailEffect, StepEffects
<1>4. u \in store'.passed => u \in Handed
  BY <1>3, HandedIs
<1>5. CASE UNCHANGED <<queue, worker.request>> \/ (UNCHANGED queue /\ worker'.request = NoRequest)
  BY <1>2, <1>4, <1>5, HandedIs DEF NoRequest
<1>6. CASE /\ queue # <<>> /\ queue' = Tail(queue)
           /\ worker'.request = queue[1] \/ UNCHANGED worker
  <2>1. 1 \in DOMAIN queue /\ \A i \in DOMAIN queue' : i + 1 \in DOMAIN queue /\ queue'[i] = queue[i + 1]
    BY <1>1, <1>6, HeadAndTail
  <2> QED
    BY <1>2, <1>4, <1>6, <2>1, HandedIs
<1> QED
  BY <1>5, <1>6, QueueSteps

(* What is promised is accounted for, whatever fails: new promises are of   *)
(* what a session has looked at, all of which is pending, fetched or known; *)
(* a session that is broken off leaves only those that the worker was given, *)
(* and these are noted as left behind.                                     *)
LEMMA PromisedNext ==
  ASSUME TypeInv, Imap, [Next]_vars, NEW u \in Wanted, Promised(u) => AccountedFor(u),
         Promised(u)'
  PROVE  AccountedFor(u)'
<1>0. ClientOK /\ RestOK /\ u \in UID
  BY TypeByPart, WantedIsUID
<1>1. client \in Session /\ client.pending \in Seq(UID)
  BY <1>0 DEF ClientOK, Session
<1>2. ASSUME Promised(u), ~(ServerError \/ \E r \in BOOLEAN : Disconnected(r)) \/ u \in Handed
      PROVE  AccountedFor(u)'
  BY <1>0, <1>2, AccountedStays
<1>3. CASE ServerError \/ \E r \in BOOLEAN : Disconnected(r)
  <2>1. /\ client'.known \in {{}, store.passed} /\ client'.passed = {}
        /\ client'.searched = {} /\ client'.pending = <<>>
    <3>1. ~CheckForNewMessages /\ ~FetchMessage
      <4>1. client'.phase \in {"failed", "idle", "stalled"}
        BY <1>3, NoSessionFields DEF ServerError, Disconnected, Leave, Session
      <4>2. CheckForNewMessages => client'.phase = "fetching"
        BY <1>1 DEF CheckForNewMessages, Session
      <4>3. FetchMessage => client'.phase \in {"fetching", "closing"}
        BY FetchEffect
      <4> QED
        BY <4>1, <4>2, <4>3
    <3> QED
      BY <1>3, <3>1, ClientSteps
  <2>2. UNCHANGED <<store, queue, worker>>
    BY <1>3 DEF ServerError, Disconnected
  <2>3. DOMAIN client'.pending = {}
    BY <2>1
  <2>4. u \in Handed
    BY <2>1, <2>2, <2>3, HandedIs DEF Promised, Handed
  <2> QED
    BY <1>2, <2>4 DEF Promised
<1> SUFFICES ASSUME ~(ServerError \/ \E r \in BOOLEAN : Disconnected(r))
             PROVE  AccountedFor(u)'
  BY <1>3
<1>4. CASE CheckForNewMessages
  <2>1. PICK known \in {client.known, store.passed} :
           LET new == 1..mailbox \ known
           IN  /\ client'.known = {} /\ client'.batch = {}
               /\ client'.passed \subseteq known
               /\ client'.searched \subseteq 1..mailbox
               /\ ~Imap => client'.searched \subseteq new
               /\ \A i \in DOMAIN client'.pending : client'.pending[i] \in new
               /\ \A w \in new \cap Wanted : \E i \in DOMAIN client'.pending : client'.pending[i] = w
               /\ 1..mailbox \subseteq UID
    BY <1>4, CheckEffect
  <2>2. u \in known => Promised(u)
    BY HandedIs DEF Promised
  <2>3. UNCHANGED <<store, queue, worker>>
    BY <1>4 DEF CheckForNewMessages
  <2>4. u \in 1..mailbox \/ u \in known \/ Promised(u)
    <3>1. CASE u \in Handed'
      BY <2>3, <3>1 DEF Promised, Handed
    <3>2. CASE u \in client'.known \cup client'.passed \cup client'.searched
      BY <2>1, <3>2
    <3>3. CASE \E i \in DOMAIN client'.pending : u <= client'.pending[i]
      <4>1. PICK w \in 1..mailbox : u <= w
        BY <2>1, <3>3
      <4>2. mailbox \in Nat /\ u \in Nat \ {0}
        <5>1. mailbox \in 0..MaxUID
          BY <1>0 DEF RestOK
        <5> QED
          BY <1>0, <5>1, MailAssumption DEF UID
      <4> QED
        BY <4>1, <4>2
    <3> QED
      BY <3>1, <3>2, <3>3 DEF Promised
  <2>5. CASE u \in 1..mailbox /\ u \notin known
    BY <2>1, <2>5 DEF AccountedFor, WithClient
  <2> QED
    BY <1>2, <2>2, <2>4, <2>5
<1>5. CASE FetchMessage
  <2> DEFINE uid == Head(client.pending)
             batch == client.batch \cup {uid}
  <2>1. /\ client.pending # <<>>
        /\ client'.known = {}
        /\ client'.searched \in {client.searched, {}}
        /\ client'.passed \subseteq client.passed \cup 1..uid
        /\ client'.pending \in {Tail(client.pending), <<>>}
    BY <1>5, FetchEffect
  <2>2. PICK rs \in Seq(Sound) :
          /\ QueueRequest(rs)
          /\ \/ rs = <<>>
             \/ \E p \in SUBSET (client.passed \cup 1..uid) : rs = <<MailRequest(batch, p)>>
             \/ rs = LastRequests(batch)
    BY <1>5, FetchEffect
  <2>3. 1 \in DOMAIN client.pending /\ client.pending[1] = uid
    BY <1>1, <2>1, HeadAndTail
  <2>4. u \in client.passed \cup 1..uid => Promised(u)
    BY <2>3 DEF Promised
  <2>5. ASSUME NEW j \in DOMAIN rs, u \in rs[j].passed PROVE Promised(u)
    <3>1. CASE rs = <<>>
      BY <2>5, <3>1
    <3>2. ASSUME NEW p \in SUBSET (client.passed \cup 1..uid), rs = <<MailRequest(batch, p)>>
          PROVE  Promised(u)
      <4>1. rs[j].passed = p
        BY <2>5, <3>2 DEF MailRequest
      <4> QED
        BY <2>4, <2>5, <4>1
    <3>3. CASE rs = LastRequests(batch)
      <4>1. rs[j].passed \subseteq client.searched
        BY <2>5, <3>3 DEF LastRequests, MailRequest, UidRequest, DoneRequest
      <4> QED
        BY <2>5, <4>1 DEF Promised
    <3> QED
      BY <2>2, <3>1, <3>2, <3>3
  <2>6. u \in Handed' => Promised(u)
    <3>1. UNCHANGED <<store, quit>>
      BY <1>5 DEF FetchMessage
    <3> QED
      BY <2>2, <2>5, <3>1, HandedByQueue DEF Promised
  <2>7. ASSUME NEW i \in DOMAIN client'.pending, u <= client'.pending[i] PROVE Promised(u)
    <3>1. i + 1 \in DOMAIN client.pending /\ client'.pending[i] = client.pending[i + 1]
      <4>1. DOMAIN <<>> = {}
        OBVIOUS
      <4>2. client'.pending = Tail(client.pending)
        BY <2>1, <2>7, <4>1
      <4> QED
        BY <1>1, <2>1, <2>7, <4>2, HeadAndTail
    <3> QED
      BY <2>7, <3>1 DEF Promised
  <2>8. u \in client'.known \cup client'.passed \cup client'.searched => Promised(u)
    BY <2>1, <2>4 DEF Promised
  <2> QED
    BY <1>2, <2>6, <2>7, <2>8 DEF Promised
<1>6. CASE ~CheckForNewMessages /\ ~FetchMessage
  <2>1. u \in Handed' => Promised(u)
    <3>1. CASE Finish
      <4> DEFINE rs == Searched \o <<DoneRequest>>
      <4>1. QueueRequest(rs) /\ UNCHANGED <<store, quit>>
        BY <3>1 DEF Finish
      <4>2. UidRequest(client.searched) \in Sound /\ DoneRequest \in Sound
        BY <1>1, RequestsAreSound DEF Session
      <4>3. /\ Searched \in Seq(Sound) /\ <<DoneRequest>> \in Seq(Sound)
            /\ \A j \in DOMAIN Searched : Searched[j].passed = client.searched
            /\ \A j \in DOMAIN <<DoneRequest>> : <<DoneRequest>>[j].passed = {}
        BY <4>2 DEF Searched, UidRequest, DoneRequest
      <4>4. rs \in Seq(Sound) /\ \A j \in DOMAIN rs : rs[j].passed \subseteq client.searched
        BY <4>3, ConcatAt
      <4> HIDE DEF rs
      <4> QED
        BY <4>1, <4>4, HandedByQueue DEF Promised
    <3>2. CASE ~Finish
      BY <1>6, <3>2, HandedStays DEF Promised
    <3> QED
      BY <3>1, <3>2
  <2>2. CASE /\ client'.known \in {{}, store.passed}
             /\ client'.passed = {} /\ client'.searched = {} /\ client'.pending = <<>>
    <3>1. DOMAIN client'.pending = {}
      BY <2>2
    <3>2. u \in store.passed => Promised(u)
      BY HandedIs DEF Promised
    <3> QED
      BY <1>2, <2>1, <2>2, <3>1, <3>2 DEF Promised
  <2>3. CASE /\ client'.known = client.known /\ client'.passed = client.passed
             /\ client'.searched = client.searched /\ client'.pending = client.pending
    BY <1>2, <2>1, <2>3 DEF Promised
  <2> QED
    BY <1>6, <2>2, <2>3, ClientSteps
<1> QED
  BY <1>4, <1>5, <1>6

LEMMA MailInit == Init => MailInv
<1> SUFFICES ASSUME Init PROVE MailInv
  OBVIOUS
<1>1. LockInv
  BY LockInit
<1>2. /\ store.passed = {} /\ worker.request = NoRequest /\ client = NoSession /\ queue = <<>>
  BY DEF Init
<1>3. DOMAIN queue = {} /\ worker.request.passed = {}
  BY <1>2 DEF NoRequest
<1>4. DOMAIN client.pending = {}
  BY <1>2, NoSessionFields
<1>5. \A u : u \notin Handed
  BY <1>2, <1>3, HandedIs
<1> QED
  BY <1>1, <1>2, <1>3, <1>4, <1>5, NoSessionFields DEF MailInv, PopKeeps, Promised

LEMMA MailNext == MailInv /\ [Next]_vars => MailInv'
<1> SUFFICES ASSUME MailInv, [Next]_vars PROVE MailInv'
  OBVIOUS
<1>1. LockInv' /\ TypeInv
  BY LockNext DEF MailInv, LockInv
<1>2. Wanted' = Wanted /\ (Imap' <=> Imap)
  BY StepEffects DEF Wanted, Imap, UID
<1>3. ASSUME ~Imap, NEW u \in Wanted PROVE PopKeeps(u)'
  BY <1>1, <1>3, PopNext DEF MailInv
<1>4. ASSUME Imap, NEW u \in Wanted, Promised(u)' PROVE AccountedFor(u)'
  BY <1>1, <1>4, PromisedNext DEF MailInv
<1> QED
  BY <1>1, <1>2, <1>3, <1>4 DEF MailInv

(* A message that will not be looked at again is converted, or something    *)
(* went wrong with it: it could not be converted, none of its batch could,  *)
(* or the commit of its batch failed, and then it is lost.  Over POP that is *)
(* all, whatever is broken off; over IMAP it may also have been left behind *)
(* when a session or the worker stopped, or still be on its way.            *)
THEOREM NothingSkippedTheorem == Spec => []NothingSkipped
<1>1. MailInv => NothingSkipped
  <2> SUFFICES ASSUME MailInv, NEW u \in Wanted, u \in store.passed
               PROVE  \/ u \in store.mail
                      \/ lost[u] \in {"failed", "cancelled", "unsaved"}
                      \/ Imap /\ (lost[u] = "left" \/ u \in OnItsWay)
    BY DEF NothingSkipped
  <2>1. TypeInv /\ u \in UID
    BY WantedIsUID DEF MailInv, LockInv
  <2>2. /\ lost[u] \in {"no", "failed", "cancelled", "unsaved", "left"}
        /\ ~Imap => lost[u] # "left"
    BY <2>1, TypeByPart DEF RestOK, Losses
  <2>3. CASE ~Imap
    BY <2>2, <2>3 DEF MailInv, PopKeeps, Settled
  <2>4. CASE Imap
    <3>1. AccountedFor(u)
      BY <2>4, HandedIs DEF MailInv, Promised
    <3>2. CASE Settled(u)
      BY <2>2, <2>4, <3>2 DEF Settled
    <3>3. CASE worker.phase # "dead" /\ u \in worker.request.mail
      BY <2>4, <3>3 DEF OnItsWay
    <3>4. ASSUME worker.phase # "dead", NEW i \in DOMAIN queue, u \in queue[i].mail
          PROVE  u \in OnItsWay
      BY <3>4, MailOfQueue DEF OnItsWay
    <3>5. CASE WithClient(u)
      BY <2>4, <3>5 DEF OnItsWay, WithClient, Unfetched, Range
    <3> QED
      BY <2>4, <3>1, <3>2, <3>3, <3>4, <3>5 DEF AccountedFor, Held
  <2> QED
    BY <2>3, <2>4
<1> QED
  BY <1>1, MailInit, MailNext, PTL DEF Spec
=============================================================================
