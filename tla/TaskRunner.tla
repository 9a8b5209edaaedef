----------------------------- MODULE TaskRunner -----------------------------
(***************************************************************************)
(* PeriodicTask and TaskRunner of chandler/parcels/osaf/startup.py: a task *)
(* that Twisted's reactor thread schedules and pool threads run.  Callers  *)
(* in any thread put callbacks on the reactor's inbox (callFromThread);    *)
(* the reactor thread takes them in order, keeps the timer and hands jobs  *)
(* to the thread pool (callInThread), where a lock per TaskRunner keeps    *)
(* the runs of the task apart.                                             *)
(***************************************************************************)
EXTENDS Naturals, Sequences, FiniteSets

CONSTANTS Thread,      \* the threads of the reactor's pool
          Runner,      \* identities of TaskRunner instances
          None,        \* no runner
          Calls,       \* what callers ask for
          Answers,     \* what the task's run() may return
          Durable,     \* a DurableTask, which reschedules itself
          MaxRequests  \* bound on the calls

ASSUME TaskRunnerAssumption ==
  /\ None \notin Runner
  /\ Calls \subseteq {"run_once", "stop", "reschedule"}
  /\ Answers \subseteq BOOLEAN
  /\ Durable \in BOOLEAN
  /\ MaxRequests \in Nat

VARIABLES cache,     \* TaskRunner._cache at the task's UUID
          running,   \* runner.running
          timers,    \* how many active delayed calls a runner has
          inbox,     \* callbacks for the reactor thread
          jobs,      \* the thread pool's queue
          thread,    \* what each pool thread is doing
          requests   \* how many calls there have been

runnerVars == <<cache, running, timers, inbox, jobs, thread, requests>>

Idle == [call |-> "idle", runner |-> None]
Job(call, r) == [call |-> call, runner |-> r]
Ask(call) == [call |-> call, runner |-> None]

Running(t) == thread[t].call = "run"

Callback ==
  [call : {"run_once", "stop", "reschedule"}, runner : {None}]
  \cup [call : {"reschedule_if_running"}, runner : Runner]
PoolJob == [call : {"run_once", "_run"}, runner : Runner]

TypeOK ==
  /\ cache \in Runner \cup {None}
  /\ running \in [Runner -> BOOLEAN]
  /\ timers \in [Runner -> Nat]
  /\ inbox \in Seq(Callback)
  /\ jobs \in Seq(PoolJob)
  /\ thread \in [Thread -> PoolJob \cup {Idle} \cup [call : {"run", "ran"}, runner : Runner]]
  /\ requests \in 0..MaxRequests

(* PeriodicTask.onStart. *)
Init ==
  /\ cache = None
  /\ running = [r \in Runner |-> FALSE]
  /\ timers = [r \in Runner |-> 0]
  /\ inbox \in {<<Ask("reschedule")>>, <<Ask("reschedule"), Ask("run_once")>>}
  /\ jobs = <<>>
  /\ thread = [t \in Thread |-> Idle]
  /\ requests = 0

(* The cache holds a runner weakly: timers, callbacks, jobs and threads    *)
(* keep it alive, and without them it may be collected.                    *)
Mentions(q, r) == \E i \in DOMAIN q : q[i].runner = r
Referenced(r) ==
  \/ timers[r] > 0
  \/ Mentions(inbox, r)
  \/ Mentions(jobs, r)
  \/ \E t \in Thread : thread[t].runner = r

Collect ==
  /\ cache # None
  /\ ~Referenced(cache)
  /\ cache' = None
  /\ UNCHANGED <<running, timers, inbox, jobs, thread, requests>>

(* A caller's PeriodicTask.run_once, stop or reschedule: _with_runner.     *)
Request ==
  /\ requests < MaxRequests
  /\ requests' = requests + 1
  /\ \E call \in Calls : inbox' = Append(inbox, Ask(call))
  /\ UNCHANGED <<cache, running, timers, jobs, thread>>

-----------------------------------------------------------------------------
(* The reactor thread. *)

(* _with_runner's callback: the cached runner, or a new one. *)
WithRunner(call, r) ==
  /\ inbox # <<>>
  /\ Head(inbox) = Ask(call)
  /\ inbox' = Tail(inbox)
  /\ IF cache = None THEN ~Referenced(r) ELSE r = cache

(* Mutant of RunOnce: a request during a run is dropped. *)
RunOnceUnlessRunning(r) ==
  /\ WithRunner("run_once", r)
  /\ cache' = r
  /\ running' = IF cache = None THEN [running EXCEPT ![r] = TRUE] ELSE running
  /\ jobs' = IF \E t \in Thread : Running(t) THEN jobs ELSE Append(jobs, Job("_run", r))
  /\ UNCHANGED <<timers, thread, requests>>

RunOnce(r) ==
  /\ WithRunner("run_once", r)
  /\ cache' = r
  /\ running' = IF cache = None THEN [running EXCEPT ![r] = TRUE] ELSE running
  /\ jobs' = Append(jobs, Job("_run", r))
  /\ UNCHANGED <<timers, thread, requests>>

Stop(r) ==
  /\ WithRunner("stop", r)
  /\ cache' = None
  /\ running' = [running EXCEPT ![r] = FALSE]
  /\ timers' = [timers EXCEPT ![r] = 0]
  /\ UNCHANGED <<jobs, thread, requests>>

(* Mutant of OneCall: a pending call is cancelled and that is all. *)
OneCallToggled(r) == timers' = [timers EXCEPT ![r] = IF @ > 0 THEN 0 ELSE 1]

(* Cancel the pending delayed call, if any, and make a new one. *)
OneCall(r) == timers' = [timers EXCEPT ![r] = 1]

Reschedule(r) ==
  /\ WithRunner("reschedule", r)
  /\ cache' = r
  /\ running' = [running EXCEPT ![r] = TRUE]
  /\ OneCall(r)
  /\ UNCHANGED <<jobs, thread, requests>>

(* Mutant of RescheduleIfRunning: it does not look whether it was stopped. *)
RescheduleAnyway(r) ==
  /\ inbox # <<>>
  /\ Head(inbox) = Job("reschedule_if_running", r)
  /\ inbox' = Tail(inbox)
  /\ OneCall(r)
  /\ UNCHANGED <<cache, running, jobs, thread, requests>>

RescheduleIfRunning(r) ==
  /\ inbox # <<>>
  /\ Head(inbox) = Job("reschedule_if_running", r)
  /\ inbox' = Tail(inbox)
  /\ IF running[r] THEN OneCall(r) ELSE UNCHANGED timers
  /\ UNCHANGED <<cache, running, jobs, thread, requests>>

TimerFires(r) ==
  /\ timers[r] > 0
  /\ timers' = [timers EXCEPT ![r] = @ - 1]
  /\ jobs' = Append(jobs, Job("run_once", r))
  /\ UNCHANGED <<cache, running, inbox, thread, requests>>

Reactor ==
  \E r \in Runner :
    RunOnce(r) \/ Stop(r) \/ Reschedule(r) \/ RescheduleIfRunning(r) \/ TimerFires(r)

-----------------------------------------------------------------------------
(* The pool threads. *)

Take(t) ==
  /\ thread[t] = Idle
  /\ jobs # <<>>
  /\ thread' = [thread EXCEPT ![t] = Head(jobs)]
  /\ jobs' = Tail(jobs)
  /\ UNCHANGED <<cache, running, timers, inbox, requests>>

(* Mutant of Forward: the task's run() is handed to the pool, not _run. *)
ForwardRun(t) ==
  /\ thread[t].call = "run_once"
  /\ jobs' = Append(jobs, Job("run", thread[t].runner))
  /\ thread' = [thread EXCEPT ![t] = Idle]
  /\ UNCHANGED <<cache, running, timers, inbox, requests>>

(* The delayed call hands run_once itself to the pool, and that hands _run *)
(* to the pool again.                                                      *)
Forward(t) ==
  /\ thread[t].call = "run_once"
  /\ jobs' = Append(jobs, Job("_run", thread[t].runner))
  /\ thread' = [thread EXCEPT ![t] = Idle]
  /\ UNCHANGED <<cache, running, timers, inbox, requests>>

(* Mutant of Acquire: runlock is not taken. *)
AcquireNothing(t) ==
  /\ thread[t].call = "_run"
  /\ thread' = [thread EXCEPT ![t] = Job("run", @.runner)]
  /\ UNCHANGED <<cache, running, timers, inbox, jobs, requests>>

(* _run: runlock.acquire(), then the task's run(). *)
Acquire(t) ==
  /\ thread[t].call = "_run"
  /\ \A u \in Thread : thread[u].call \in {"run", "ran"} => thread[u].runner # thread[t].runner
  /\ thread' = [thread EXCEPT ![t] = Job("run", @.runner)]
  /\ UNCHANGED <<cache, running, timers, inbox, jobs, requests>>

(* run() returns; a true answer schedules the next run: through the runner *)
(* or, for a DurableTask, through the item.  An exception counts as false. *)
Answer(t, again) ==
  /\ Running(t)
  /\ thread' = [thread EXCEPT ![t] = Job("ran", @.runner)]
  /\ inbox' = IF ~again THEN inbox
              ELSE Append(inbox, IF Durable THEN Ask("reschedule")
                                 ELSE Job("reschedule_if_running", thread[t].runner))
  /\ UNCHANGED <<cache, running, timers, jobs, requests>>

Release(t) ==
  /\ thread[t].call = "ran"
  /\ thread' = [thread EXCEPT ![t] = Idle]
  /\ UNCHANGED <<cache, running, timers, inbox, jobs, requests>>

Return(t) == \E again \in Answers : Answer(t, again)
Pool(t) == Take(t) \/ Forward(t) \/ Acquire(t) \/ Return(t) \/ Release(t)

Next == Request \/ Collect \/ Reactor \/ \E t \in Thread : Pool(t)

Spec == Init /\ [][Next]_runnerVars

(* The reactor thread and the pool threads run while the process does; who *)
(* waits for the lock may be overtaken, so a fair thread is one that moves *)
(* when it can.                                                            *)
FairSpec == Spec /\ WF_runnerVars(Reactor) /\ \A t \in Thread : WF_runnerVars(Pool(t))
-----------------------------------------------------------------------------
(* "cancel the pending call so we don't schedule multiples" (startup.py:    *)
(* 239): over all instances of the task one delayed call is active at most, *)
(* and only on the instance that the next call of stop() would reach.       *)
OneTimer ==
  \A r \in Runner : timers[r] > 0 => timers[r] = 1 /\ cache = r

(* While nobody stops the task its runs never overlap, whoever asked for    *)
(* them and however often instances of TaskRunner came and went.            *)
RunsExclusive ==
  \A t, u \in Thread : Running(t) /\ Running(u) => t = u

(* With stop() and reschedule() a new instance, with a lock of its own, may  *)
(* run while the old one's last run has not ended; but of two overlapping    *)
(* runs one always belongs to an instance that was stopped.                  *)
LiveRunsExclusive ==
  \A t, u \in Thread :
    /\ Running(t) /\ running[thread[t].runner]
    /\ Running(u) /\ running[thread[u].runner]
    => t = u

(* "manually force a task to be run immediately using the run_once()"       *)
(* (startups.txt:453): a call that comes during a run leads to one more run *)
(* and is not taken for the run under way.  What is asked is that some      *)
(* thread gets to _run, of whichever instance, after every such call.       *)
Asked == \E i \in DOMAIN inbox : inbox[i] = Ask("run_once")
RequestsRun == Asked ~> \E t \in Thread : thread[t].call = "_run"

(* A task that was stopped for good comes to rest: what was under way when  *)
(* stop() took effect ends, and does not start the next run.                *)
Stopped ==
  /\ cache = None
  /\ requests = MaxRequests
  /\ \A i \in DOMAIN inbox : inbox[i].runner # None
AtRest ==
  /\ \A r \in Runner : ~Referenced(r)
  /\ jobs = <<>> /\ inbox = <<>>
StopSettles == Stopped ~> [](Stopped /\ AtRest)
=============================================================================
