---------------------------- MODULE BackgroundSync ----------------------------
(***************************************************************************)
(* BackgroundSyncHandler of sharing/__init__.py, the task that syncs every *)
(* share, run by a TaskRunner; interrupt(), which the UI thread calls on   *)
(* quitting; and the Deferred by which Twisted's shutdown waits for a sync *)
(* that is under way.  Examining an account (getPublishedShares) takes the *)
(* same steps as syncing a share and counts as one.                        *)
(***************************************************************************)
EXTENDS TaskRunner

CONSTANT MaxShares   \* bound on the shares a run finds

ASSUME BackgroundSyncAssumption == MaxShares \in Nat

VARIABLES
  interrupt_flag,     \* "PROCEED" or "IMMEDIATE_STOP"
  running_status,     \* "IDLE" or "RUNNING"
  current_activity,   \* whose Activity interrupt() would abort; a thread
  abortRequested,     \* of the Activity of each thread
  shutdown_deferred,  \* "none", "waiting" or "fired"
  reactor,            \* "up", "before" (waits for the Deferred) or "down"
  ui,                 \* how far the UI thread's shutdown is
  pc,                 \* where in run() each thread is
  left                \* shares its loop has before it

syncVars == <<interrupt_flag, running_status, current_activity, abortRequested,
              shutdown_deferred, reactor, ui, pc, left>>
syncAllVars == <<runnerVars, syncVars>>

AtWork == {"refresh", "next", "begun", "syncing", "commit"}

SyncTypeOK ==
  /\ interrupt_flag \in {"PROCEED", "IMMEDIATE_STOP"}
  /\ running_status \in {"IDLE", "RUNNING"}
  /\ current_activity \in Thread \cup {None}
  /\ abortRequested \in [Thread -> BOOLEAN]
  /\ shutdown_deferred \in {"none", "waiting", "fired"}
  /\ reactor \in {"up", "before", "down"}
  /\ ui \in {"up", "flagged", "stopping", "joining"}
  /\ pc \in [Thread -> AtWork \cup {"enter", "aborted", "end", "return", "raised"}]
  /\ left \in [Thread -> 0..MaxShares]

SyncInit ==
  /\ Init
  /\ interrupt_flag = "PROCEED" /\ running_status = "IDLE"
  /\ current_activity = None
  /\ abortRequested = [t \in Thread |-> FALSE]
  /\ shutdown_deferred = "none" /\ reactor = "up" /\ ui = "up"
  /\ pc = [t \in Thread |-> "enter"]
  /\ left = [t \in Thread |-> 0]

Goto(t, label) == pc' = [pc EXCEPT ![t] = label]
At(t, label) == Running(t) /\ pc[t] = label

-----------------------------------------------------------------------------
(* The run() of one thread. *)

(* Mutant of Enter: the run is not marked. *)
EnterUnmarked(t) ==
  /\ At(t, "enter")
  /\ Goto(t, IF running_status = "IDLE" THEN "refresh" ELSE "return")
  /\ UNCHANGED <<runnerVars, interrupt_flag, running_status, current_activity, abortRequested,
                 shutdown_deferred, reactor, ui, left>>

(* "busy: return True", or go ahead. *)
Enter(t) ==
  /\ At(t, "enter")
  /\ running_status' = "RUNNING"
  /\ Goto(t, IF running_status = "IDLE" THEN "refresh" ELSE "return")
  /\ UNCHANGED <<runnerVars, interrupt_flag, current_activity, abortRequested,
                 shutdown_deferred, reactor, ui, left>>

(* Application or sharing layer are offline. *)
GoOffline(t) ==
  /\ At(t, "refresh")
  /\ running_status' = "IDLE"
  /\ Goto(t, "return")
  /\ UNCHANGED <<runnerVars, interrupt_flag, current_activity, abortRequested,
                 shutdown_deferred, reactor, ui, left>>

FindShares(t) ==
  /\ At(t, "refresh")
  /\ \E n \in 0..MaxShares : left' = [left EXCEPT ![t] = n]
  /\ Goto(t, "next")
  /\ UNCHANGED <<runnerVars, interrupt_flag, running_status, current_activity,
                 abortRequested, shutdown_deferred, reactor, ui>>

(* Mutant of NextShare: the loop takes one share too many. *)
NextShareAlways(t) ==
  /\ At(t, "next") /\ left[t] >= 0
  /\ IF interrupt_flag # "PROCEED"
     THEN Goto(t, "aborted") /\ UNCHANGED <<left, abortRequested>>
     ELSE /\ Goto(t, "begun")
          /\ left' = [left EXCEPT ![t] = @ - 1]
          /\ abortRequested' = [abortRequested EXCEPT ![t] = FALSE]
  /\ UNCHANGED <<runnerVars, interrupt_flag, running_status, current_activity,
                 shutdown_deferred, reactor, ui>>

(* The loop's head: give up if interrupted, else start an Activity. *)
NextShare(t) ==
  /\ At(t, "next") /\ left[t] > 0
  /\ IF interrupt_flag # "PROCEED"
     THEN Goto(t, "aborted") /\ UNCHANGED <<left, abortRequested>>
     ELSE /\ Goto(t, "begun")
          /\ left' = [left EXCEPT ![t] = @ - 1]
          /\ abortRequested' = [abortRequested EXCEPT ![t] = FALSE]
  /\ UNCHANGED <<runnerVars, interrupt_flag, running_status, current_activity,
                 shutdown_deferred, reactor, ui>>

SetActivity(t) ==
  /\ At(t, "begun")
  /\ current_activity' = t
  /\ Goto(t, "syncing")
  /\ UNCHANGED <<runnerVars, interrupt_flag, running_status, abortRequested,
                 shutdown_deferred, reactor, ui, left>>

(* activity.update() finds an abort requested and raises ActivityAborted.  *)
(* current_activity stays, but aborting that Activity again does nothing.  *)
UpdateAborts(t) ==
  /\ At(t, "syncing") /\ abortRequested[t]
  /\ current_activity' = None
  /\ Goto(t, "aborted")
  /\ UNCHANGED <<runnerVars, interrupt_flag, running_status, abortRequested,
                 shutdown_deferred, reactor, ui, left>>

(* The share is synced and committed, or has failed with an error. *)
ShareDone(t) ==
  /\ At(t, "syncing")
  /\ current_activity' = None
  /\ Goto(t, "next")
  /\ UNCHANGED <<runnerVars, interrupt_flag, running_status, abortRequested,
                 shutdown_deferred, reactor, ui, left>>

SharesDone(t) ==
  /\ At(t, "next") /\ left[t] = 0
  /\ Goto(t, "commit")
  /\ UNCHANGED <<runnerVars, interrupt_flag, running_status, current_activity,
                 abortRequested, shutdown_deferred, reactor, ui, left>>

(* self.rv.commit(); or any error that the handler of a single share does   *)
(* not see, which is logged.                                               *)
CommitOrFail(t) ==
  /\ Running(t) /\ pc[t] \in {"refresh", "next", "begun", "commit"}
  /\ Goto(t, "end")
  /\ UNCHANGED <<runnerVars, interrupt_flag, running_status, current_activity,
                 abortRequested, shutdown_deferred, reactor, ui, left>>

(* except ActivityAborted: let a shutdown that waits go on.  A Deferred    *)
(* can be called back only once; again is an error that leaves run().      *)
Aborted(t) ==
  /\ At(t, "aborted")
  /\ IF shutdown_deferred = "waiting"
     THEN shutdown_deferred' = "fired" /\ reactor' = "down"
     ELSE UNCHANGED <<shutdown_deferred, reactor>>
  /\ Goto(t, IF shutdown_deferred = "fired" THEN "raised" ELSE "end")
  /\ UNCHANGED <<runnerVars, interrupt_flag, running_status, current_activity,
                 abortRequested, ui, left>>

(* Mutants of End: one of the two flags is not reset. *)
EndStillRunning(t) ==
  /\ At(t, "end")
  /\ interrupt_flag' = "PROCEED"
  /\ Goto(t, "return")
  /\ UNCHANGED <<runnerVars, running_status, current_activity, abortRequested,
                 shutdown_deferred, reactor, ui, left>>

EndStillInterrupted(t) ==
  /\ At(t, "end")
  /\ running_status' = "IDLE"
  /\ Goto(t, "return")
  /\ UNCHANGED <<runnerVars, interrupt_flag, current_activity, abortRequested,
                 shutdown_deferred, reactor, ui, left>>

End(t) ==
  /\ At(t, "end")
  /\ running_status' = "IDLE"
  /\ interrupt_flag' = "PROCEED"
  /\ Goto(t, "return")
  /\ UNCHANGED <<runnerVars, current_activity, abortRequested,
                 shutdown_deferred, reactor, ui, left>>

(* run() returns True, always; to the TaskRunner, which reschedules. *)
Leave(t) ==
  /\ Running(t) /\ pc[t] \in {"return", "raised"}
  /\ Answer(t, pc[t] = "return")
  /\ Goto(t, "enter")
  /\ UNCHANGED <<interrupt_flag, running_status, current_activity, abortRequested,
                 shutdown_deferred, reactor, ui, left>>

Run(t) ==
  \/ Enter(t) \/ GoOffline(t) \/ FindShares(t) \/ NextShare(t) \/ SetActivity(t)
  \/ UpdateAborts(t) \/ ShareDone(t) \/ SharesDone(t) \/ CommitOrFail(t)
  \/ Aborted(t) \/ End(t) \/ Leave(t)

-----------------------------------------------------------------------------
(* Quitting: Application.OnQuit calls interrupt(graceful=False), which sets *)
(* the flag and then aborts the Activity it finds, and then stop_reactor.   *)
Interrupt ==
  /\ ui = "up"
  /\ interrupt_flag' = "IMMEDIATE_STOP"
  /\ ui' = "flagged"
  /\ UNCHANGED <<runnerVars, running_status, current_activity, abortRequested,
                 shutdown_deferred, reactor, pc, left>>

RequestAbort ==
  /\ ui = "flagged"
  /\ abortRequested' = [t \in Thread |-> abortRequested[t] \/ t = current_activity]
  /\ ui' = "stopping"
  /\ UNCHANGED <<runnerVars, interrupt_flag, running_status, current_activity,
                 shutdown_deferred, reactor, pc, left>>

StopReactor ==
  /\ ui = "stopping"
  /\ inbox' = Append(inbox, Ask("reactor.stop"))
  /\ ui' = "joining"
  /\ UNCHANGED <<cache, running, timers, jobs, thread, requests, interrupt_flag,
                 running_status, current_activity, abortRequested,
                 shutdown_deferred, reactor, pc, left>>

(* reactor.stop() fires shutdownCallback, which answers with a Deferred    *)
(* when a sync is running.                                                 *)
ShutdownCallback ==
  /\ inbox # <<>> /\ Head(inbox) = Ask("reactor.stop")
  /\ inbox' = Tail(inbox)
  /\ IF running_status = "IDLE"
     THEN reactor' = "down" /\ UNCHANGED shutdown_deferred
     ELSE reactor' = "before" /\ shutdown_deferred' = "waiting"
  /\ UNCHANGED <<cache, running, timers, jobs, thread, requests, interrupt_flag,
                 running_status, current_activity, abortRequested, ui, pc, left>>

Quit == Interrupt \/ RequestAbort \/ StopReactor

-----------------------------------------------------------------------------
(* The TaskRunner's own steps; a reactor that is down takes none.  Collect  *)
(* is not among them: run() always returns True, so that there is a timer, *)
(* a callback, a job or a thread at any time that holds on to the runner.  *)
RunnerReactor == reactor # "down" /\ Reactor /\ UNCHANGED syncVars
RunnerPool(t) == (Take(t) \/ Forward(t) \/ Acquire(t) \/ Release(t)) /\ UNCHANGED syncVars
ScheduleNow == ui = "up" /\ Request /\ UNCHANGED syncVars

ReactorStep == RunnerReactor \/ ShutdownCallback
PoolStep(t) == RunnerPool(t) \/ Run(t)

SyncNext == ScheduleNow \/ Quit \/ ReactorStep \/ \E t \in Thread : PoolStep(t)

SyncSpec == SyncInit /\ [][SyncNext]_syncAllVars

(* Threads of a living process run on, and requests to a server end: they  *)
(* are answered, refused or time out.  Nobody has to quit.                 *)
FairSyncSpec ==
  /\ SyncSpec
  /\ WF_syncAllVars(ReactorStep)
  /\ WF_syncAllVars(RequestAbort \/ StopReactor)
  /\ \A t \in Thread : WF_syncAllVars(PoolStep(t))
-----------------------------------------------------------------------------
(* shutdownCallback asks running_status in the reactor thread while run()   *)
(* runs in a pool thread: IDLE has to mean that no run is at work, on every *)
(* path through run(), the errors and the offline return included.          *)
IdleMeansIdle ==
  running_status = "IDLE" => \A t \in Thread : pc[t] \in {"enter", "return"}

(* "queuing up if one is running already" (__init__.py:221): the runlock    *)
(* and running_status agree, so that no request falls to the busy check.    *)
RequestsNotDropped ==
  \A t \in Thread : At(t, "enter") => running_status = "IDLE"

(* "This method must return True -- no raising exceptions!"                 *)
(* (__init__.py:290): the Deferred is never called back a second time, not  *)
(* by a run that was queued behind the aborted one either.                  *)
NeverRaises == \A t \in Thread : pc[t] # "raised"

(* At the moment the reactor's shutdown goes on no share is being synced.   *)
DownBetweenJobs ==
  [][reactor # "down" /\ reactor' = "down" => \A t \in Thread : pc'[t] \notin AtWork]_syncAllVars

(* Until somebody quits there is always another sync: after errors, after   *)
(* having been offline, after requests that came at any moment.             *)
SyncsForever == []<>(ui # "up" \/ \E t \in Thread : pc[t] = "refresh")

(* "Twisted suspends shutdown until BackgroundSyncHandler triggers the      *)
(* Deferred" (__init__.py:192), which it has to do for quitting to end.     *)
ShutdownProceeds == reactor = "before" ~> reactor = "down"
=============================================================================
