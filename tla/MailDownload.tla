----------------------------- MODULE MailDownload -----------------------------
(***************************************************************************)
(* Downloading mail of one account (osaf/mail): the client, which runs in   *)
(* the reactor's thread, fetches new messages one after the other and hands *)
(* them in batches to the mail worker, a thread of its own that converts    *)
(* them to items, commits, and notes in the repository which messages need  *)
(* not be looked at again.  The client does not wait for the commits.       *)
(*                                                                         *)
(* An IMAP folder keeps one number, the UID below which nothing is looked   *)
(* at again; a POP account keeps the set of UIDs it has seen.  Both are     *)
(* `passed' here.  An account may ask for messages with Chandler's header   *)
(* only.  One account, one folder, no limit on what is downloaded.         *)
(***************************************************************************)
EXTENDS Naturals, FiniteSets, SequencesExt

CONSTANTS MaxUID,     \* bound: messages that arrive
          Chandler,   \* UIDs of the messages with Chandler's header
          Batches,    \* sizes of the batches: they grow as a session goes on
          MaxQueue,   \* bound: no session begins with more requests or answers queued
          MaxExits    \* bound: nor with as many disconnections outstanding

ASSUME MailAssumption ==
  /\ MaxUID \in Nat /\ Chandler \subseteq 1..MaxUID
  /\ Batches \subseteq Nat \ {0} /\ IsFiniteSet(Batches) /\ Batches # {}
  /\ MaxQueue \in Nat /\ MaxExits \in Nat \ {0}

VARIABLES account,   \* its protocol, and whether it searches for Chandler's header
          mailbox,   \* messages 1..mailbox are on the server
          store,     \* committed: messages converted, UIDs passed over
          client,    \* the client and the variables of its session
          exits,     \* disconnections under way, those that release the lock and others
          orphans,   \* sessions that go on although their variables were reset
          queue,     \* requests to the worker
          worker,
          inbox,     \* what the worker has asked the reactor to call
          quit,      \* how far MailService.shutdown is
          lost,      \* what went wrong with a message that is not saved, if anything did
          cut        \* since all was last quiet a session was cut short, or the worker failed

ghosts == <<lost, cut>>
given == <<account, mailbox>>
vars == <<given, store, client, exits, orphans, queue, worker, inbox, quit, ghosts>>

UID == 1..MaxUID
Imap == account.protocol = "IMAP"
Wanted == IF account.search THEN Chandler ELSE UID

Request == [kind : {"mail", "uid", "done"}, mail : SUBSET UID, passed : SUBSET UID]
NoRequest == [kind |-> "done", mail |-> {}, passed |-> {}]

Downloading == client.phase \in {"connecting", "fetching"}

(* What can go wrong with a message: it cannot be converted; no message of  *)
(* its batch can be; the commit of its batch fails, or what else is done    *)
(* for it; an IMAP session or the worker stops before it is dealt with.     *)
Losses == {"failed", "cancelled", "unsaved", "left"}

TypeOK ==
  /\ account \in [protocol : {"IMAP", "POP"}, search : BOOLEAN]
  /\ mailbox \in 0..MaxUID
  /\ store \in [mail : SUBSET UID, passed : SUBSET UID]
  /\ client \in [locked : BOOLEAN,
                 phase : {"idle", "connecting", "fetching", "closing", "failed", "mute", "stalled"},
                 known : SUBSET UID, pending : Seq(UID), batch : SUBSET UID,
                 passed : SUBSET UID, searched : SUBSET UID]
  /\ client.phase = "fetching" => client.batch \cap Range(client.pending) = {}
  /\ \E n \in Batches : Cardinality(client.batch) < n
  /\ exits \in [BOOLEAN -> Nat] /\ orphans \in Nat
  /\ queue \in Seq(Request)
  /\ worker \in [phase : {"ready", "waiting", "busy", "dead"}, alive : BOOLEAN,
                 request : Request]
  /\ worker.phase = "waiting" => worker.alive /\ queue = <<>>
  /\ inbox \in Seq({"done", "error"})
  /\ quit \in {"no", "stopping", "joining", "joined"}
  /\ lost \in [UID -> {"no"} \cup Losses] /\ cut \in BOOLEAN

NoSession == [locked |-> FALSE, phase |-> "idle", known |-> {}, pending |-> <<>>,
              batch |-> {}, passed |-> {}, searched |-> {}]

Init ==
  /\ account \in [protocol : {"IMAP", "POP"}, search : BOOLEAN]
  /\ mailbox = 0
  /\ store = [mail |-> {}, passed |-> {}]
  /\ client = NoSession
  /\ exits = [release \in BOOLEAN |-> 0] /\ orphans = 0
  /\ queue = <<>>
  /\ worker = [phase |-> "ready", alive |-> TRUE, request |-> NoRequest]
  /\ inbox = <<>>
  /\ quit = "no"
  /\ lost = [u \in UID |-> "no"]
  /\ cut = FALSE

Arrive ==
  /\ mailbox < MaxUID
  /\ mailbox' = mailbox + 1
  /\ UNCHANGED <<account, store, client, exits, orphans, queue, worker, inbox, quit, ghosts>>
-----------------------------------------------------------------------------
(* The worker's queue. *)

MailOf(requests) == UNION {r.mail : r \in Range(requests)}

Mark(messages, what) == [u \in UID |-> IF u \in messages THEN what ELSE lost[u]]

(* Over IMAP these messages may have been passed over: they are left behind. *)
(* Over POP they are not, and the next session finds them new.              *)
Forgotten(messages) == IF Imap THEN Mark(messages, "left") ELSE lost

Serving == worker.alive /\ worker.phase # "dead"

(* Mutant: the worker is not woken. *)
QueueSilently(requests) ==
  /\ queue' = IF Serving THEN queue \o requests ELSE queue
  /\ lost' = IF Serving THEN lost ELSE Forgotten(MailOf(requests))
  /\ UNCHANGED worker

(* A worker that is terminated, or died, is given nothing more. *)
QueueRequest(requests) ==
  /\ queue' = IF Serving THEN queue \o requests ELSE queue
  /\ lost' = IF Serving THEN lost ELSE Forgotten(MailOf(requests))
  /\ worker' = IF worker.phase = "waiting" /\ requests # <<>>
               THEN [worker EXCEPT !.phase = "ready"] ELSE worker

MailRequest(batch, passed) == [kind |-> "mail", mail |-> batch, passed |-> passed]
UidRequest(passed) == [kind |-> "uid", mail |-> {}, passed |-> passed]
DoneRequest == [kind |-> "done", mail |-> {}, passed |-> {}]
-----------------------------------------------------------------------------
(* The client. *)

Exit(release) == exits' = [exits EXCEPT ![release] = @ + 1]

(* The variables of a session that has ended are not read again. *)
Leave(phase) == [NoSession EXCEPT !.locked = client.locked, !.phase = phase]

(* Nothing is left to do of what earlier sessions have begun. *)
Quiet ==
  /\ queue = <<>> /\ worker.phase \notin {"busy", "dead"} /\ inbox = <<>>
  /\ exits[TRUE] = 0 /\ exits[FALSE] = 0 /\ orphans = 0 /\ client.phase # "mute"

(* The user asks for mail: a request is ignored while the client is in use. *)
(* A lock that was released too early lets a session begin beside another;  *)
(* that is followed unless the other is still downloading with the          *)
(* variables that both would then share.                                   *)
Connect ==
  /\ ~client.locked
  /\ ~Downloading
  /\ quit = "no" /\ Len(queue) + Len(inbox) <= MaxQueue
  /\ exits[TRUE] + exits[FALSE] + orphans < MaxExits
  /\ client' = [NoSession EXCEPT !.locked = TRUE, !.phase = "connecting",
                                 !.known = store.passed]
  /\ orphans' = IF client.phase = "mute" THEN orphans + 1 ELSE orphans
  /\ cut' = (cut /\ ~Quiet)
  /\ UNCHANGED <<given, store, exits, queue, worker, inbox, quit, lost>>

(* IMAP answers with flags by message number, in a dictionary, whose order  *)
(* becomes the order of the download; POP lists messages in order.         *)
Orders(uids) ==
  {order \in SetToSeqs(uids) : Imap \/ \A i, j \in DOMAIN order : i < j => order[i] < order[j]}

(* What is new, as the client's view knows it, which it refreshed when it   *)
(* connected; other clients that share the view may have refreshed it since. *)
CheckForNewMessages ==
  /\ client.phase = "connecting"
  /\ \E known \in {client.known, store.passed} :
       LET new == 1..mailbox \ known
       IN  \E order \in Orders(new \cap Wanted) :
             client' = [client EXCEPT !.phase = "fetching", !.pending = order, !.known = {},
                          !.passed = IF Imap THEN known ELSE {},
                          !.searched = IF ~Imap THEN new
                                       ELSE IF account.search /\ new # {} THEN 1..mailbox ELSE {}]
  /\ UNCHANGED <<given, store, exits, orphans, queue, worker, inbox, quit, ghosts>>

(* Whether a batch that has come this far may be, or not be, full. *)
BatchFull(batch, rest) ==
  {rest = <<>> \/ Cardinality(batch) = n : n \in {n \in Batches : n >= Cardinality(batch)}}

(* Mutant: what was seen is noted before the last batch is saved. *)
SeenFirst(batch) == <<UidRequest(client.searched), MailRequest(batch, {}), DoneRequest>>

(* The last requests of a POP client that has fetched messages. *)
LastRequests(batch) == <<MailRequest(batch, {}), UidRequest(client.searched), DoneRequest>>

(* A message has come.  The last of a batch is queued with the rest of it;  *)
(* after the last of all a POP client also queues what it has seen, and is  *)
(* done.                                                                   *)
FetchMessage ==
  /\ client.phase = "fetching" /\ client.pending # <<>>
  /\ LET uid == Head(client.pending)
         rest == Tail(client.pending)
         batch == client.batch \cup {uid}
         passed == IF Imap THEN client.passed \cup 1..uid ELSE {}
         ends == rest = <<>> /\ ~Imap
     IN  /\ \E full \in BatchFull(batch, rest) :
              /\ client' = IF ends THEN Leave("closing")
                           ELSE [client EXCEPT !.pending = rest, !.passed = passed,
                                               !.batch = IF full THEN {} ELSE batch]
              /\ QueueRequest(IF ~full THEN <<>>
                              ELSE IF ends THEN LastRequests(batch)
                              ELSE <<MailRequest(batch, passed)>>)
         /\ IF ends THEN Exit(FALSE) ELSE UNCHANGED exits
  /\ UNCHANGED <<given, store, orphans, inbox, quit, cut>>

Searched == IF client.searched = {} THEN <<>> ELSE <<UidRequest(client.searched)>>

(* Mutant: the lock is released when the client has disconnected. *)
FinishUnlocked ==
  /\ client.phase = "fetching" /\ client.pending = <<>>
  /\ QueueRequest(IF Imap THEN Searched \o <<DoneRequest>> ELSE Searched)
  /\ client' = Leave("closing")
  /\ Exit(TRUE)
  /\ UNCHANGED <<given, store, orphans, inbox, quit, cut>>

(* No more to fetch: an IMAP client keeps the lock until the worker is done, *)
(* a POP client that has found nothing releases it itself.                  *)
Finish ==
  /\ client.phase = "fetching" /\ client.pending = <<>>
  /\ QueueRequest(IF Imap THEN Searched \o <<DoneRequest>> ELSE Searched)
  /\ client' = Leave("closing")
  /\ Exit(~Imap)
  /\ UNCHANGED <<given, store, orphans, inbox, quit, cut>>

(* UIDs that a request gives, or the store, as passed over. *)
Handed ==
  store.passed \cup worker.request.passed \cup UNION {r.passed : r \in Range(queue)}

Unfetched == Range(client.pending) \cup client.batch

(* The server or the connection fails, or a message cannot be parsed, or    *)
(* the server does not answer a command in time.                           *)
ServerError ==
  /\ Downloading
  /\ client' = Leave("failed")
  /\ Exit(TRUE)
  /\ lost' = Forgotten(Unfetched \cap Handed)
  /\ cut' = TRUE
  /\ UNCHANGED <<given, store, orphans, queue, worker, inbox, quit>>

(* A POP server does not greet in time: no command waits for an answer, so  *)
(* nobody is told, and the connection is not closed.                       *)
TimeoutBeforeGreeting ==
  /\ client.phase = "connecting" /\ ~Imap
  /\ client' = [client EXCEPT !.phase = "mute"]
  /\ cut' = TRUE
  /\ UNCHANGED <<given, store, exits, orphans, queue, worker, inbox, quit, lost>>

(* That server closes the connection: the factory tries again, or fails.    *)
MuteServerCloses ==
  /\ client.phase = "mute"
  /\ \/ client' = [client EXCEPT !.phase = "connecting"] /\ UNCHANGED exits
     \/ client' = Leave("failed") /\ Exit(TRUE)
  /\ UNCHANGED <<given, store, orphans, queue, worker, inbox, quit, ghosts>>

(* The client has logged out and resets its variables, those of a session   *)
(* that is under way included, which goes on without them.                 *)
Disconnected(release) ==
  /\ exits[release] > 0
  /\ exits' = [exits EXCEPT ![release] = @ - 1]
  /\ LET locked == client.locked /\ ~release
     IN  client' = [NoSession EXCEPT !.locked = locked,
           !.phase = IF locked /\ client.phase \in {"mute", "stalled"} THEN "stalled" ELSE "idle"]
  /\ orphans' = IF Downloading THEN orphans + 1 ELSE orphans
  /\ lost' = Forgotten(Unfetched \cap Handed)
  /\ cut' = (cut \/ Downloading)
  /\ UNCHANGED <<given, store, queue, worker, inbox, quit>>

(* Such a session comes to grief: catchErrors resets the client, which has   *)
(* disconnected, or disconnects the session that has begun since.          *)
OrphanFails ==
  /\ orphans > 0 /\ orphans' = orphans - 1
  /\ IF client.phase \in {"idle", "stalled"}
     THEN client' = NoSession /\ UNCHANGED exits
     ELSE Exit(TRUE) /\ UNCHANGED client
  /\ cut' = TRUE
  /\ UNCHANGED <<given, store, queue, worker, inbox, quit, lost>>

(* Or its connection is closed while no command waits for an answer: its    *)
(* factory is marked as finished, and nobody is told.                      *)
OrphanStalls ==
  /\ orphans > 0 /\ orphans' = orphans - 1
  /\ client' = IF client.phase = "idle" /\ client.locked
               THEN [client EXCEPT !.phase = "stalled"] ELSE client
  /\ UNCHANGED <<given, store, exits, queue, worker, inbox, quit, ghosts>>

(* Mutant: the lock is kept. *)
RequestsCompleteLocked ==
  /\ inbox # <<>> /\ Head(inbox) = "done"
  /\ inbox' = Tail(inbox)
  /\ UNCHANGED <<given, store, client, exits, orphans, queue, worker, quit, ghosts>>

RequestsComplete ==
  /\ inbox # <<>> /\ Head(inbox) = "done"
  /\ inbox' = Tail(inbox)
  /\ client' = [client EXCEPT !.locked = FALSE]
  /\ UNCHANGED <<given, store, exits, orphans, queue, worker, quit, ghosts>>

(* catchErrors, called by the worker: the client disconnects, or resets its *)
(* variables at once when it has disconnected before.                       *)
CatchWorkerError ==
  /\ inbox # <<>> /\ Head(inbox) = "error"
  /\ inbox' = Tail(inbox)
  /\ IF client.phase \in {"idle", "stalled"}
     THEN client' = NoSession /\ UNCHANGED exits
     ELSE Exit(TRUE) /\ UNCHANGED client
  /\ cut' = TRUE
  /\ UNCHANGED <<given, store, orphans, queue, worker, quit, lost>>

Reactor ==
  \/ CheckForNewMessages \/ FetchMessage \/ Finish
  \/ Disconnected(TRUE) \/ Disconnected(FALSE) \/ OrphanFails \/ OrphanStalls
  \/ RequestsComplete \/ CatchWorkerError
-----------------------------------------------------------------------------
(* The worker. *)
Wait ==
  /\ worker.phase = "ready" /\ worker.alive /\ queue = <<>>
  /\ worker' = [worker EXCEPT !.phase = "waiting"]
  /\ UNCHANGED <<given, store, client, exits, orphans, queue, inbox, quit, ghosts>>

(* While the service shuts down requests are dropped. *)
Take ==
  /\ worker.phase = "ready" /\ worker.alive /\ queue # <<>>
  /\ queue' = Tail(queue)
  /\ IF quit = "no"
     THEN worker' = [worker EXCEPT !.phase = "busy", !.request = Head(queue)] /\ UNCHANGED lost
     ELSE lost' = Forgotten(Head(queue).mail) /\ UNCHANGED worker
  /\ UNCHANGED <<given, store, client, exits, orphans, inbox, quit, cut>>

Ready == worker' = [worker EXCEPT !.phase = "ready", !.request = NoRequest]
Busy(kind) == worker.phase = "busy" /\ worker.request.kind = kind

Pass(passed) == IF Imap THEN worker.request.passed ELSE store.passed \cup passed

(* A message that cannot be converted is left out; when none can, nothing   *)
(* is committed.                                                           *)
ProcessMail ==
  /\ Busy("mail")
  /\ \E bad \in SUBSET worker.request.mail :
       IF bad = worker.request.mail
       THEN lost' = Mark(bad, "cancelled") /\ UNCHANGED store
       ELSE /\ store' = [mail |-> store.mail \cup (worker.request.mail \ bad),
                         passed |-> Pass(worker.request.mail \ bad)]
            /\ lost' = [u \in UID |-> IF u \in bad THEN "failed"
                                       ELSE IF u \in worker.request.mail THEN "no" ELSE lost[u]]
  /\ Ready
  /\ UNCHANGED <<given, client, exits, orphans, queue, inbox, quit, cut>>

ProcessUIDS ==
  /\ Busy("uid")
  /\ store' = [store EXCEPT !.passed = Pass(worker.request.passed)]
  /\ Ready
  /\ UNCHANGED <<given, client, exits, orphans, queue, inbox, quit, ghosts>>

ProcessDone ==
  /\ Busy("done")
  /\ inbox' = Append(inbox, "done")
  /\ Ready
  /\ UNCHANGED <<given, store, client, exits, orphans, queue, quit, ghosts>>

(* A commit, or anything else, fails: handleError cancels the view.  The    *)
(* requests behind it are processed all the same.                          *)
ProcessingFails ==
  /\ worker.phase = "busy" /\ Ready
  /\ inbox' = IF quit = "no" THEN Append(inbox, "error") ELSE inbox
  /\ lost' = Mark(worker.request.mail, "unsaved")
  /\ cut' = TRUE
  /\ UNCHANGED <<given, store, client, exits, orphans, queue, quit>>

(* The view cannot be refreshed, outside of the error handling. *)
WorkerDies ==
  /\ worker.phase = "busy"
  /\ worker' = [worker EXCEPT !.phase = "dead", !.request = NoRequest]
  /\ lost' = Forgotten(worker.request.mail \cup MailOf(queue))
  /\ cut' = TRUE
  /\ UNCHANGED <<given, store, client, exits, orphans, queue, inbox, quit>>

(* The service shuts down while a request is processed. *)
Abandon ==
  /\ worker.phase = "busy" /\ quit # "no" /\ Ready
  /\ lost' = Forgotten(worker.request.mail)
  /\ cut' = TRUE
  /\ UNCHANGED <<given, store, client, exits, orphans, queue, inbox, quit>>

Terminated ==
  /\ worker.phase = "ready" /\ ~worker.alive
  /\ worker' = [worker EXCEPT !.phase = "dead"]
  /\ lost' = Forgotten(MailOf(queue))
  /\ UNCHANGED <<given, store, client, exits, orphans, queue, inbox, quit, cut>>

Work ==
  \/ Wait \/ Take \/ ProcessMail \/ ProcessUIDS \/ ProcessDone
  \/ ProcessingFails \/ WorkerDies \/ Abandon \/ Terminated
-----------------------------------------------------------------------------
(* MailService.shutdown, in the main thread. *)
Quit ==
  /\ quit = "no"
  /\ quit' = "stopping"
  /\ cut' = TRUE
  /\ UNCHANGED <<given, store, client, exits, orphans, queue, worker, inbox, lost>>

(* Mutant: a worker that waits for requests is not woken. *)
TerminateSilently ==
  /\ quit = "stopping"
  /\ worker' = [worker EXCEPT !.alive = FALSE]
  /\ quit' = "joining"
  /\ UNCHANGED <<given, store, client, exits, orphans, queue, inbox, ghosts>>

Terminate ==
  /\ quit = "stopping"
  /\ worker' = [worker EXCEPT !.alive = FALSE,
                              !.phase = IF @ = "waiting" THEN "ready" ELSE @]
  /\ quit' = "joining"
  /\ UNCHANGED <<given, store, client, exits, orphans, queue, inbox, ghosts>>

Join ==
  /\ quit = "joining" /\ worker.phase = "dead"
  /\ quit' = "joined"
  /\ UNCHANGED <<given, store, client, exits, orphans, queue, worker, inbox, ghosts>>

Shutdown == Terminate \/ Join

Next ==
  \/ Arrive \/ Connect \/ ServerError \/ TimeoutBeforeGreeting \/ MuteServerCloses
  \/ Reactor \/ Work \/ Quit \/ Shutdown

Spec == Init /\ [][Next]_vars

(* The reactor's thread and the worker's are threads of a living process,   *)
(* servers answer, close the connection or time out (all but a POP server    *)
(* that never greets, of which nothing is asked), and a shutdown goes on.   *)
FairSpec ==
  /\ Spec
  /\ WF_vars(Reactor) /\ WF_vars(Work) /\ WF_vars(Shutdown)
-----------------------------------------------------------------------------
OnItsWay ==
  Unfetched \cup IF worker.phase = "dead" THEN {} ELSE MailOf(queue) \cup worker.request.mail

(* A message that will not be looked at again, as its UID is passed over,    *)
(* was converted or is accounted for.  Messages ARE lost here: one that     *)
(* could not be converted; all of a batch that was cancelled as none could  *)
(* be, although the worker means to try those again (mailworker.py:221-225); *)
(* and good messages whose commit failed, as the requests behind it are     *)
(* processed and, by the UID_REQUEST over POP (pop.py:600-608,              *)
(* mailworker.py:364-370) or the next batch's UID over IMAP, pass them over. *)
(* Over POP nothing else is, wherever a session, the worker or the program  *)
(* stops.  Over IMAP, whose messages are fetched in any order, those are    *)
(* lost that a session or worker that stops has not dealt with while a       *)
(* batch of others has passed them over, and those on their way are so far  *)
(* accounted for in memory only.                                           *)
NothingSkipped ==
  \A u \in Wanted \cap store.passed :
    \/ u \in store.mail
    \/ lost[u] \in {"failed", "cancelled", "unsaved"}
    \/ Imap /\ (lost[u] = "left" \/ u \in OnItsWay)

Outstanding == Range(queue) \cup IF worker.phase = "busy" THEN {worker.request} ELSE {}

(* "The client needs to block (ie. not perform any new actions) until the   *)
(* MailWoker has complete all requests from the client and processed the    *)
(* clients DONE_REQUEST" (base.py:593-597).  As long as nothing has gone     *)
(* wrong since all was last quiet, a session has the lock, no answer or     *)
(* disconnection of an earlier one is still to come that would release it,  *)
(* and none of an earlier one's requests is left when it begins to fetch,   *)
(* but for one: a POP client that searches for Chandler's header and finds  *)
(* nothing queues a UID_REQUEST and unlocks itself without a DONE_REQUEST   *)
(* (pop.py:438-443), so that the quoted words do not hold of it.  An error  *)
(* releases the lock at once, requests or not: that is cut.                 *)
BlocksUntilDone ==
  ~cut /\ Downloading =>
    /\ client.locked
    /\ inbox = <<>> /\ exits[TRUE] = 0
    /\ \A r \in Outstanding : r.kind # "done"
    /\ client.phase = "connecting" =>
         \A r \in Outstanding : r.kind = "uid" /\ ~Imap /\ account.search

(* The client's lock is released again, so that mail can be asked for, after *)
(* every error and however late answers and disconnections come in, unless  *)
(* the worker died or the application quits, and with two exceptions in     *)
(* which the code keeps it for ever: a POP server that never greets         *)
(* (pop.py:132-155), and a session that lost its variables to a late         *)
(* disconnection and then its connection, with no command waiting           *)
(* (base.py:167-184, 642).                                                 *)
MailGoesOn ==
  []<>(~client.locked \/ worker.phase = "dead" \/ quit # "no"
         \/ client.phase \in {"mute", "stalled"})

(* Quitting does not wait for ever for the worker, whatever it is doing.    *)
ShutdownReturns == quit = "stopping" ~> quit = "joined"
=============================================================================
