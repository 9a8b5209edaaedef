------------------------- MODULE BackgroundSyncProofs -------------------------
(***************************************************************************)
(* Proofs about TaskRunner, for any number of threads, runners and calls,  *)
(* and about BackgroundSync on top of it, for any number of shares, as long *)
(* as nobody calls stop().                                                 *)
(***************************************************************************)
EXTENDS BackgroundSync, TLAPS

-----------------------------------------------------------------------------
(* The task runner. *)

(* What a queue mentions after its head is taken off was mentioned before. *)
LEMMA TailMentions ==
  ASSUME NEW S, NEW q \in Seq(S), q # <<>>, NEW r, Mentions(Tail(q), r)
  PROVE  Mentions(q, r)
<1>1. PICK i \in DOMAIN Tail(q) : Tail(q)[i].runner = r
  BY DEF Mentions
<1>2. i + 1 \in DOMAIN q /\ Tail(q)[i] = q[i + 1]
  BY <1>1
<1> QED
  BY <1>1, <1>2 DEF Mentions

(* Appending mentions what is appended and nothing else. *)
LEMMA AppendMentions ==
  ASSUME NEW S, NEW q \in Seq(S), NEW e \in S, NEW r
  PROVE  Mentions(Append(q, e), r) <=> Mentions(q, r) \/ e.runner = r
<1>1. DOMAIN Append(q, e) = DOMAIN q \cup {Len(q) + 1}
  OBVIOUS
<1>2. \A i \in DOMAIN q : Append(q, e)[i] = q[i]
  OBVIOUS
<1>3. Append(q, e)[Len(q) + 1] = e
  OBVIOUS
<1> QED
  BY <1>1, <1>2, <1>3 DEF Mentions

(* The head of a queue is mentioned. *)
LEMMA HeadMentioned ==
  ASSUME NEW S, NEW q \in Seq(S), q # <<>>
  PROVE  Head(q) \in S /\ Tail(q) \in Seq(S) /\ Mentions(q, Head(q).runner)
<1>1. 1 \in DOMAIN q /\ Head(q) = q[1]
  OBVIOUS
<1> QED
  BY <1>1 DEF Mentions

-----------------------------------------------------------------------------
(* Type correctness.  The lemmas are about a runner that shares the reactor  *)
(* with others, who may have callbacks of their own in its inbox (S has them *)
(* all), and about runs that may answer anything.                           *)
Typed(S) ==
  /\ cache \in Runner \cup {None}
  /\ running \in [Runner -> BOOLEAN]
  /\ timers \in [Runner -> Nat]
  /\ inbox \in Seq(S)
  /\ jobs \in Seq(PoolJob)
  /\ thread \in [Thread -> PoolJob \cup {Idle} \cup [call : {"run", "ran"}, runner : Runner]]
  /\ requests \in 0..MaxRequests

AnyReturn(t) == \E again \in BOOLEAN : Answer(t, again)
AnyPool(t) == Take(t) \/ Forward(t) \/ Acquire(t) \/ AnyReturn(t) \/ Release(t)
AnyNext == Request \/ Collect \/ Reactor \/ \E t \in Thread : AnyPool(t)

LEMMA TypedAlone == TypeOK <=> Typed(Callback)
  BY DEF TypeOK, Typed

LEMMA NextIsAny == Next => AnyNext
  BY TaskRunnerAssumption DEF Next, Pool, Return, AnyNext, AnyPool, AnyReturn

LEMMA TypeInit == Init => TypeOK
<1> SUFFICES ASSUME Init PROVE TypeOK
  OBVIOUS
<1>1. Ask("reschedule") \in Callback /\ Ask("run_once") \in Callback
  BY DEF Ask, Callback
<1>a. <<Ask("reschedule")>> \in Seq(Callback)
  BY <1>1
<1>b. <<Ask("reschedule"), Ask("run_once")>> \in Seq(Callback)
  BY <1>1
<1>2. inbox \in Seq(Callback)
  BY <1>a, <1>b DEF Init
<1>3. requests \in 0..MaxRequests
  BY TaskRunnerAssumption DEF Init
<1> QED
  BY <1>2, <1>3 DEF Init, TypeOK

LEMMA TypedNext ==
  ASSUME NEW S, Callback \subseteq S, Typed(S), [AnyNext]_runnerVars
  PROVE  Typed(S)'
<1> USE DEF Typed
<1>1. CASE Request
  <2>1. PICK call \in Calls : inbox' = Append(inbox, Ask(call))
    BY <1>1 DEF Request
  <2>2. Ask(call) \in S
    BY TaskRunnerAssumption DEF Ask, Callback
  <2>3. inbox' \in Seq(S)
    BY <2>1, <2>2
  <2>4. requests' \in 0..MaxRequests
    BY <1>1, TaskRunnerAssumption DEF Request
  <2> QED
    BY <1>1, <2>3, <2>4 DEF Request
<1>2. CASE Collect
  BY <1>2 DEF Collect
<1>3. CASE Reactor
  <2>1. PICK r \in Runner : RunOnce(r) \/ Stop(r) \/ Reschedule(r)
                            \/ RescheduleIfRunning(r) \/ TimerFires(r)
    BY <1>3 DEF Reactor
  <2>2. Job("_run", r) \in PoolJob /\ Job("run_once", r) \in PoolJob
    BY DEF Job, PoolJob
  <2>3. inbox # <<>> => Tail(inbox) \in Seq(S)
    BY HeadMentioned
  <2>4. CASE RunOnce(r)
    BY <2>2, <2>3, <2>4 DEF RunOnce, WithRunner
  <2>5. CASE Stop(r)
    BY <2>3, <2>5 DEF Stop, WithRunner
  <2>6. CASE Reschedule(r)
    BY <2>3, <2>6 DEF Reschedule, WithRunner, OneCall
  <2>7. CASE RescheduleIfRunning(r)
    <3>1. inbox' \in Seq(S)
      BY <2>3, <2>7 DEF RescheduleIfRunning
    <3>2. timers' = timers \/ timers' = [timers EXCEPT ![r] = 1]
      BY <2>7 DEF RescheduleIfRunning, OneCall
    <3>3. timers' \in [Runner -> Nat]
      BY <3>2
    <3> QED
      BY <2>7, <3>1, <3>3 DEF RescheduleIfRunning
  <2>8. CASE TimerFires(r)
    BY <2>2, <2>8 DEF TimerFires
  <2> QED
    BY <2>1, <2>4, <2>5, <2>6, <2>7, <2>8
<1>4. ASSUME NEW t \in Thread, AnyPool(t) PROVE Typed(S)'
  <2>1. CASE Take(t)
    <3>1. Head(jobs) \in PoolJob /\ Tail(jobs) \in Seq(PoolJob)
      BY <2>1, HeadMentioned DEF Take
    <3> QED
      BY <2>1, <3>1 DEF Take
  <2>2. CASE Forward(t)
    <3>1. thread[t].runner \in Runner
      BY <2>2 DEF Forward, PoolJob, Idle
    <3>2. Job("_run", thread[t].runner) \in PoolJob
      BY <3>1 DEF Job, PoolJob
    <3> QED
      BY <2>2, <3>2 DEF Forward
  <2>3. CASE Acquire(t)
    <3>1. Job("run", thread[t].runner) \in [call : {"run", "ran"}, runner : Runner]
      BY <2>3 DEF Acquire, PoolJob, Idle, Job
    <3> QED
      BY <2>3, <3>1 DEF Acquire
  <2>4. CASE AnyReturn(t)
    <3>1. PICK again \in BOOLEAN : Answer(t, again)
      BY <2>4 DEF AnyReturn
    <3>2. thread[t] \in [call : {"run", "ran"}, runner : Runner]
      BY <3>1 DEF Answer, Running, PoolJob, Idle
    <3>3. Job("reschedule_if_running", thread[t].runner) \in S /\ Ask("reschedule") \in S
      BY <3>2 DEF Job, Ask, Callback
    <3>4. inbox' \in Seq(S)
      BY <3>1, <3>3 DEF Answer
    <3>5. Job("ran", thread[t].runner) \in [call : {"run", "ran"}, runner : Runner]
      BY <3>2 DEF Job
    <3> QED
      BY <3>1, <3>4, <3>5 DEF Answer
  <2>5. CASE Release(t)
    BY <2>5 DEF Release
  <2> QED
    BY <1>4, <2>1, <2>2, <2>3, <2>4, <2>5 DEF AnyPool
<1>5. CASE UNCHANGED runnerVars
  BY <1>5 DEF runnerVars
<1> QED
  BY <1>1, <1>2, <1>3, <1>4, <1>5 DEF AnyNext

LEMMA TypeNext == TypeOK /\ [Next]_runnerVars => TypeOK'
<1>1. ASSUME TypeOK, [Next]_runnerVars PROVE Typed(Callback)'
  BY <1>1, TypedAlone, NextIsAny, TypedNext
<1>2. Typed(Callback)' => TypeOK'
  BY DEF TypeOK, Typed, Callback, PoolJob, Idle
<1> QED
  BY <1>1, <1>2

(* Every reachable state is well-typed, queues and threads included: only    *)
(* the reactor's own callbacks and jobs of known runners are ever queued.    *)
THEOREM RunnerTypeTheorem == Spec => []TypeOK
<1> QED
  BY TypeInit, TypeNext, PTL DEF Spec

-----------------------------------------------------------------------------
(* One timer.  A runner that was stopped is forgotten by the cache and what  *)
(* still refers to it can no longer arm its timer, so any runner that both   *)
(* runs and is referred to is the cached one.                                *)
LiveIsCached == \A r \in Runner : running[r] /\ Referenced(r) => cache = r
TimerInv == TypeOK /\ OneTimer /\ LiveIsCached

(* A step that neither arms a timer nor touches the cache keeps TimerInv if  *)
(* it refers to no runner that was not referred to before.                   *)
LEMMA NothingNew ==
  ASSUME TimerInv, TypeOK', UNCHANGED <<cache, running>>,
         \A r \in Runner : timers'[r] = timers[r] \/ timers'[r] + 1 = timers[r],
         \A r \in Runner : Referenced(r)' => Referenced(r)
  PROVE  TimerInv'
<1>1. OneTimer'
  <2> SUFFICES ASSUME NEW r \in Runner, timers'[r] > 0 PROVE timers'[r] = 1 /\ cache' = r
    BY DEF OneTimer
  <2>1. timers[r] \in Nat /\ timers'[r] \in Nat
    BY DEF TimerInv, TypeOK
  <2> QED
    BY <2>1 DEF TimerInv, OneTimer
<1>2. LiveIsCached'
  BY DEF TimerInv, LiveIsCached
<1> QED
  BY <1>1, <1>2 DEF TimerInv

LEMMA TimerInit == Init => TimerInv
<1> SUFFICES ASSUME Init PROVE TimerInv
  OBVIOUS
<1>1. OneTimer /\ LiveIsCached
  BY DEF Init, OneTimer, LiveIsCached
<1> QED
  BY <1>1, TypeInit DEF TimerInv

(* A step of the reactor thread refers at most to the runner it is for. *)
LEMMA ReactorRefersToOld ==
  ASSUME NEW S, Typed(S), NEW r \in Runner,
         RunOnce(r) \/ Stop(r) \/ Reschedule(r) \/ RescheduleIfRunning(r) \/ TimerFires(r)
  PROVE  \A s \in Runner : Referenced(s)' =>
           Referenced(s) \/ (s = r /\ (RunOnce(r) \/ Reschedule(r)))
<1> USE DEF Typed
<1>1. \A s \in Runner : Referenced(s) <=> timers[s] > 0 \/ Mentions(inbox, s)
                                     \/ Mentions(jobs, s) \/ \E t \in Thread : thread[t].runner = s
  BY DEF Referenced
<1>2. \A s \in Runner : Referenced(s)' <=> timers'[s] > 0 \/ Mentions(inbox', s)
                                      \/ Mentions(jobs', s) \/ \E t \in Thread : thread'[t].runner = s
  BY DEF Referenced, Mentions
<1>3. \A s \in Runner : inbox # <<>> /\ Mentions(Tail(inbox), s) => Mentions(inbox, s)
  BY TailMentions
<1>4. ASSUME NEW call, Job(call, r) \in PoolJob
      PROVE  \A s : Mentions(Append(jobs, Job(call, r)), s) <=> Mentions(jobs, s) \/ r = s
  BY <1>4, AppendMentions DEF Job
<1>5. Job("_run", r) \in PoolJob /\ Job("run_once", r) \in PoolJob
  BY DEF Job, PoolJob
<1>6. CASE RunOnce(r)
  BY <1>1, <1>2, <1>3, <1>4, <1>5, <1>6 DEF RunOnce, WithRunner
<1>7. CASE Stop(r)
  BY <1>1, <1>2, <1>3, <1>7 DEF Stop, WithRunner
<1>8. CASE Reschedule(r)
  <2>1. timers' = [timers EXCEPT ![r] = 1]
    BY <1>8 DEF Reschedule, OneCall
  <2> QED
    BY <1>1, <1>2, <1>3, <1>8, <2>1 DEF Reschedule, WithRunner
<1>9. CASE RescheduleIfRunning(r)
  <2>1. Mentions(inbox, r)
    BY <1>9, HeadMentioned DEF RescheduleIfRunning, Job
  <2>2. timers' = timers \/ timers' = [timers EXCEPT ![r] = 1]
    BY <1>9 DEF RescheduleIfRunning, OneCall
  <2>3. \A s \in Runner : Mentions(inbox', s) => Mentions(inbox, s)
    BY <1>3, <1>9 DEF RescheduleIfRunning
  <2>4. jobs' = jobs /\ thread' = thread
    BY <1>9 DEF RescheduleIfRunning
  <2>5. \A s \in Runner : Referenced(s)' => Referenced(s)
    BY <1>1, <1>2, <2>1, <2>2, <2>3, <2>4
  <2> QED
    BY <2>5
<1>10. CASE TimerFires(r)
  <2>1. timers[r] > 0 /\ \A s \in Runner : timers'[s] > 0 => timers[s] > 0
    BY <1>10 DEF TimerFires
  <2>2. \A s \in Runner : Mentions(jobs', s) => Mentions(jobs, s) \/ s = r
    BY <1>4, <1>5, <1>10 DEF TimerFires
  <2>3. inbox' = inbox /\ thread' = thread
    BY <1>10 DEF TimerFires
  <2>4. \A s \in Runner : Referenced(s)' => Referenced(s)
    BY <1>1, <1>2, <2>1, <2>2, <2>3
  <2> QED
    BY <2>4
<1> QED
  BY <1>6, <1>7, <1>8, <1>9, <1>10

LEMMA ReactorKeepsTimerInv ==
  ASSUME TimerInv, TypeOK', NEW r \in Runner,
         RunOnce(r) \/ Stop(r) \/ Reschedule(r) \/ RescheduleIfRunning(r) \/ TimerFires(r)
  PROVE  TimerInv'
<1> USE DEF TimerInv, TypeOK
<1>1. \A s \in Runner : Referenced(s)' => Referenced(s) \/ (s = r /\ (RunOnce(r) \/ Reschedule(r)))
  BY TypedAlone, ReactorRefersToOld
<1>2. CASE RunOnce(r) \/ Stop(r) \/ Reschedule(r)
  <2>1. cache = None \/ cache = r
    BY <1>2 DEF RunOnce, Stop, Reschedule, WithRunner
  <2>2. \A s \in Runner \ {r} : cache # s
    BY <2>1, TaskRunnerAssumption
  <2>3. \A s \in Runner \ {r} : running'[s] = running[s] /\ timers'[s] = timers[s]
    BY <1>2 DEF RunOnce, Stop, Reschedule, OneCall
  <2>4. \/ cache' = r /\ (timers' = timers \/ timers'[r] = 1)
        \/ ~running'[r] /\ timers'[r] = 0
    BY <1>2 DEF RunOnce, Stop, Reschedule, OneCall
  <2>5. OneTimer'
    BY <2>1, <2>2, <2>3, <2>4 DEF OneTimer
  <2>6. LiveIsCached'
    BY <1>1, <2>2, <2>3, <2>4 DEF LiveIsCached
  <2> QED
    BY <2>5, <2>6
<1>3. CASE RescheduleIfRunning(r)
  <2>1. cache' = cache /\ running' = running
    BY <1>3 DEF RescheduleIfRunning
  <2>2. \A s \in Runner : Referenced(s)' => Referenced(s)
    <3>1. Mentions(inbox, r)
      BY <1>3, HeadMentioned DEF RescheduleIfRunning, Job
    <3> QED
      BY <1>1, <3>1 DEF Referenced
  <2>3. CASE running[r]
    <3>1. Mentions(inbox, r)
      BY <1>3, HeadMentioned DEF RescheduleIfRunning, Job
    <3>2. cache = r
      BY <2>3, <3>1 DEF LiveIsCached, Referenced
    <3>3. timers' = [timers EXCEPT ![r] = 1]
      BY <1>3, <2>3 DEF RescheduleIfRunning, OneCall
    <3>4. OneTimer'
      BY <2>1, <3>2, <3>3 DEF OneTimer
    <3> QED
      BY <2>1, <2>2, <3>4 DEF LiveIsCached
  <2>4. CASE ~running[r]
    <3>1. timers' = timers
      BY <1>3, <2>4 DEF RescheduleIfRunning
    <3> QED
      BY <2>1, <2>2, <3>1, NothingNew
  <2> QED
    BY <2>3, <2>4
<1>4. CASE TimerFires(r)
  <2>1. \A s \in Runner : timers'[s] = timers[s] \/ timers'[s] + 1 = timers[s]
    BY <1>4 DEF TimerFires
  <2>2. UNCHANGED <<cache, running>>
    BY <1>4 DEF TimerFires
  <2>3. \A s \in Runner : Referenced(s)' => Referenced(s)
    <3>1. Referenced(r)
      BY <1>4 DEF TimerFires, Referenced
    <3> QED
      BY <1>1, <3>1
  <2> QED
    BY <2>1, <2>2, <2>3, NothingNew
<1> QED
  BY <1>2, <1>3, <1>4

(* A step of a pool thread refers to no new runner. *)
LEMMA PoolRefersToOld ==
  ASSUME NEW S, Callback \subseteq S, Typed(S), NEW t \in Thread, AnyPool(t)
  PROVE  \A s \in Runner : Referenced(s)' => Referenced(s)
<1> USE DEF Typed
<1>1. \A s \in Runner : Referenced(s) <=> timers[s] > 0 \/ Mentions(inbox, s)
                                     \/ Mentions(jobs, s) \/ \E u \in Thread : thread[u].runner = s
  BY DEF Referenced
<1>2. \A s \in Runner : Referenced(s)' <=> timers'[s] > 0 \/ Mentions(inbox', s)
                                      \/ Mentions(jobs', s) \/ \E u \in Thread : thread'[u].runner = s
  BY DEF Referenced, Mentions
<1>3. UNCHANGED <<cache, running, timers>>
  BY DEF AnyPool, Take, Forward, Acquire, AnyReturn, Answer, Release
<1>4. \A s \in Runner : s # None
  BY TaskRunnerAssumption
<1>5. CASE Take(t)
  <2>1. \A s \in Runner : Mentions(jobs', s) => Mentions(jobs, s)
    BY <1>5, TailMentions DEF Take
  <2>2. Mentions(jobs, Head(jobs).runner)
    BY <1>5, HeadMentioned DEF Take
  <2>3. \A u \in Thread : thread'[u].runner = thread[u].runner \/ Mentions(jobs, thread'[u].runner)
    BY <1>5, <2>2 DEF Take
  <2>4. inbox' = inbox
    BY <1>5 DEF Take
  <2> QED
    BY <1>1, <1>2, <1>3, <2>1, <2>3, <2>4
<1>6. CASE Forward(t)
  <2>1. thread[t].runner \in Runner /\ Job("_run", thread[t].runner) \in PoolJob
    BY <1>6 DEF Forward, PoolJob, Idle, Job
  <2>2. \A s \in Runner : Mentions(jobs', s) => Mentions(jobs, s) \/ s = thread[t].runner
    BY <1>6, <2>1, AppendMentions DEF Forward, Job
  <2>3. \A u \in Thread, s \in Runner : thread'[u].runner = s => thread[u].runner = s
    BY <1>4, <1>6 DEF Forward, Idle
  <2>4. inbox' = inbox
    BY <1>6 DEF Forward
  <2> QED
    BY <1>1, <1>2, <1>3, <2>2, <2>3, <2>4
<1>7. CASE Acquire(t)
  <2>1. \A u \in Thread : thread'[u].runner = thread[u].runner
    BY <1>7 DEF Acquire, Job
  <2>2. inbox' = inbox /\ jobs' = jobs
    BY <1>7 DEF Acquire
  <2> QED
    BY <1>1, <1>2, <1>3, <2>1, <2>2
<1>8. CASE AnyReturn(t)
  <2>1. PICK again \in BOOLEAN : Answer(t, again)
    BY <1>8 DEF AnyReturn
  <2>2. thread[t].runner \in Runner
    BY <2>1 DEF Answer, Running, PoolJob, Idle
  <2>3. \A u \in Thread : thread'[u].runner = thread[u].runner
    BY <2>1 DEF Answer, Job
  <2>4. jobs' = jobs
    BY <2>1 DEF Answer
  <2>5. Job("reschedule_if_running", thread[t].runner) \in S /\ Ask("reschedule") \in S
    BY <2>2 DEF Job, Ask, Callback
  <2>6. \A s \in Runner : Mentions(inbox', s) => Mentions(inbox, s) \/ s = thread[t].runner
    <3>1. \/ inbox' = inbox
          \/ inbox' = Append(inbox, Ask("reschedule"))
          \/ inbox' = Append(inbox, Job("reschedule_if_running", thread[t].runner))
      BY <2>1 DEF Answer
    <3>2. \A s \in Runner : Mentions(Append(inbox, Ask("reschedule")), s) => Mentions(inbox, s)
      BY <1>4, <2>5, AppendMentions DEF Ask
    <3>3. \A s \in Runner : Mentions(Append(inbox, Job("reschedule_if_running", thread[t].runner)), s)
                             => Mentions(inbox, s) \/ s = thread[t].runner
      BY <2>5, AppendMentions DEF Job
    <3> QED
      BY <3>1, <3>2, <3>3
  <2> QED
    BY <1>1, <1>2, <1>3, <2>3, <2>4, <2>6
<1>9. CASE Release(t)
  <2>1. \A u \in Thread, s \in Runner : thread'[u].runner = s => thread[u].runner = s
    BY <1>4, <1>9 DEF Release, Idle
  <2>2. inbox' = inbox /\ jobs' = jobs
    BY <1>9 DEF Release
  <2> QED
    BY <1>1, <1>2, <1>3, <2>1, <2>2
<1> QED
  BY <1>5, <1>6, <1>7, <1>8, <1>9 DEF AnyPool

LEMMA PoolKeepsTimerInv ==
  ASSUME TimerInv, TypeOK', NEW t \in Thread, AnyPool(t)
  PROVE  TimerInv'
<1>1. UNCHANGED <<cache, running, timers>>
  BY DEF AnyPool, Take, Forward, Acquire, AnyReturn, Answer, Release
<1> QED
  BY <1>1, TypedAlone, PoolRefersToOld, NothingNew DEF TimerInv

(* A call for the task refers to no runner. *)
LEMMA RequestRefersToOld ==
  ASSUME NEW S, Callback \subseteq S, Typed(S), Request
  PROVE  \A s \in Runner : Referenced(s)' => Referenced(s)
<1>1. PICK call \in Calls : inbox' = Append(inbox, Ask(call))
  BY DEF Request
<1>2. Ask(call) \in S
  BY TaskRunnerAssumption DEF Ask, Callback
<1>3. \A s \in Runner : Mentions(inbox', s) => Mentions(inbox, s)
  BY <1>1, <1>2, AppendMentions, TaskRunnerAssumption DEF Ask, Typed
<1>4. UNCHANGED <<timers, jobs, thread>>
  BY DEF Request
<1> QED
  BY <1>3, <1>4 DEF Referenced, Mentions

LEMMA TimerNext == TimerInv /\ [Next]_runnerVars => TimerInv'
<1> SUFFICES ASSUME TimerInv, [Next]_runnerVars PROVE TimerInv'
  OBVIOUS
<1>1. TypeOK'
  BY TypeNext DEF TimerInv
<1>2. CASE Request
  <2>1. UNCHANGED <<cache, running, timers>>
    BY <1>2 DEF Request
  <2> QED
    BY <1>1, <1>2, <2>1, TypedAlone, RequestRefersToOld, NothingNew DEF TimerInv
<1>3. CASE Collect
  <2>1. \A r \in Runner : Referenced(r)' <=> Referenced(r)
    BY <1>3 DEF Collect, Referenced, Mentions
  <2>2. OneTimer'
    BY <1>3 DEF Collect, OneTimer, Referenced, TimerInv, TypeOK
  <2>3. LiveIsCached'
    BY <1>3, <2>1 DEF Collect, LiveIsCached, TimerInv
  <2> QED
    BY <1>1, <2>2, <2>3 DEF TimerInv
<1>4. CASE Reactor
  BY <1>1, <1>4, ReactorKeepsTimerInv DEF Reactor
<1>5. ASSUME NEW t \in Thread, AnyPool(t) PROVE TimerInv'
  BY <1>1, <1>5, PoolKeepsTimerInv
<1>a. AnyNext \/ UNCHANGED runnerVars
  BY NextIsAny
<1>6. CASE UNCHANGED runnerVars
  BY <1>1, <1>6 DEF runnerVars, TimerInv, OneTimer, LiveIsCached, Referenced, Mentions
<1> QED
  BY <1>2, <1>3, <1>4, <1>5, <1>6, <1>a DEF AnyNext

(* At most one delayed call of the task is active, on the cached runner,     *)
(* whatever callers ask for, stop() included, and whatever run() returns.    *)
THEOREM OneTimerTheorem == Spec => []OneTimer
<1>1. TimerInv => OneTimer
  BY DEF TimerInv
<1> QED
  BY <1>1, TimerInit, TimerNext, PTL DEF Spec

-----------------------------------------------------------------------------
(* Exclusion.  The lock keeps two runs of one runner apart; while nobody     *)
(* stops the task every runner that anything refers to is the cached one, so *)
(* that there is only one lock to speak of.                                  *)
StopFree(S) == {c \in S : c.call # "stop"}
ReferencedIsCached == \A r \in Runner : Referenced(r) => cache = r
Holds(t) == thread[t].call \in {"run", "ran"}
LockIsHeldOnce ==
  \A t, u \in Thread : Holds(t) /\ Holds(u) /\ thread[t].runner = thread[u].runner => t = u

LockInv == TimerInv /\ inbox \in Seq(StopFree(Callback)) /\ LockIsHeldOnce /\ ReferencedIsCached

LEMMA StopFreeNext ==
  ASSUME "stop" \notin Calls, NEW S, Callback \subseteq S, Typed(S), inbox \in Seq(StopFree(S)), [AnyNext]_runnerVars
  PROVE  inbox' \in Seq(StopFree(S))
<1>1. inbox # <<>> => Tail(inbox) \in Seq(StopFree(S))
  BY HeadMentioned
<1>2. ASSUME NEW t \in Thread, AnyPool(t) PROVE inbox' \in Seq(StopFree(S))
  <2>1. CASE AnyReturn(t)
    <3>1. PICK again \in BOOLEAN : Answer(t, again)
      BY <2>1 DEF AnyReturn
    <3>2. thread[t].runner \in Runner
      BY <3>1 DEF Typed, Answer, Running, PoolJob, Idle
    <3>3. Job("reschedule_if_running", thread[t].runner) \in StopFree(S) /\ Ask("reschedule") \in StopFree(S)
      BY <3>2 DEF StopFree, Job, Ask, Callback
    <3> QED
      BY <3>1, <3>3 DEF Answer
  <2>2. CASE ~AnyReturn(t)
    BY <1>2, <2>2 DEF AnyPool, Take, Forward, Acquire, Release
  <2> QED
    BY <2>1, <2>2
<1>3. CASE Request
  <2>1. PICK call \in Calls : inbox' = Append(inbox, Ask(call))
    BY <1>3 DEF Request
  <2>2. Ask(call) \in StopFree(S)
    BY TaskRunnerAssumption DEF StopFree, Ask, Callback
  <2> QED
    BY <2>1, <2>2
<1>4. CASE Collect \/ UNCHANGED runnerVars
  BY <1>4 DEF Collect, runnerVars
<1>5. CASE Reactor
  BY <1>1, <1>5 DEF Reactor, RunOnce, Stop, Reschedule, RescheduleIfRunning, TimerFires, WithRunner
<1> QED
  BY <1>2, <1>3, <1>4, <1>5 DEF AnyNext

LEMMA NobodyStops ==
  ASSUME NEW S, inbox \in Seq(StopFree(S)), NEW r \in Runner
  PROVE  ~Stop(r)
<1>1. inbox # <<>> => Head(inbox) \in StopFree(S)
  BY HeadMentioned
<1> QED
  BY <1>1 DEF Stop, WithRunner, StopFree, Ask

LEMMA LockNext ==
  ASSUME NEW S, Typed(S), LockIsHeldOnce, [AnyNext]_runnerVars
  PROVE  LockIsHeldOnce'
<1>1. ASSUME NEW t \in Thread, AnyPool(t) PROVE LockIsHeldOnce'
  <2>1. CASE Take(t)
    <3>1. Head(jobs) \in PoolJob
      BY <2>1, HeadMentioned DEF Take, Typed
    <3>2. ~Holds(t)'
      BY <2>1, <3>1 DEF Take, Holds, PoolJob, Typed
    <3>3. \A u \in Thread \ {t} : thread'[u] = thread[u]
      BY <2>1 DEF Take, Typed
    <3> QED
      BY <3>2, <3>3 DEF LockIsHeldOnce, Holds
  <2>2. CASE Forward(t) \/ Release(t)
    <3>1. ~Holds(t)'
      BY <2>2 DEF Forward, Release, Holds, Idle, Typed
    <3>2. \A u \in Thread \ {t} : thread'[u] = thread[u]
      BY <2>2 DEF Forward, Release, Typed
    <3> QED
      BY <3>1, <3>2 DEF LockIsHeldOnce, Holds
  <2>3. CASE Acquire(t)
    <3>1. thread'[t].runner = thread[t].runner
      BY <2>3 DEF Acquire, Job, Typed
    <3>2. \A u \in Thread \ {t} : thread'[u] = thread[u]
      BY <2>3 DEF Acquire, Typed
    <3>3. \A u \in Thread : Holds(u) => thread[u].runner # thread[t].runner
      BY <2>3 DEF Acquire, Holds
    <3> QED
      BY <3>1, <3>2, <3>3 DEF LockIsHeldOnce, Holds
  <2>4. CASE AnyReturn(t)
    <3>1. PICK again \in BOOLEAN : Answer(t, again)
      BY <2>4 DEF AnyReturn
    <3>2. Holds(t) /\ thread'[t].runner = thread[t].runner
      BY <3>1 DEF Answer, Job, Typed, Running, Holds
    <3>3. \A u \in Thread \ {t} : thread'[u] = thread[u]
      BY <3>1 DEF Answer, Typed
    <3> QED
      BY <3>2, <3>3 DEF LockIsHeldOnce, Holds
  <2> QED
    BY <1>1, <2>1, <2>2, <2>3, <2>4 DEF AnyPool
<1>2. CASE Request \/ Collect \/ Reactor \/ UNCHANGED runnerVars
  <2>1. thread' = thread
    BY <1>2 DEF Request, Collect, Reactor, RunOnce, Stop, Reschedule, RescheduleIfRunning,
                TimerFires, runnerVars
  <2> QED
    BY <2>1 DEF LockIsHeldOnce, Holds
<1> QED
  BY <1>1, <1>2 DEF AnyNext

(* Two runs of the task overlap only if one of them belongs to an instance   *)
(* that was stopped, whatever the callers ask for.                           *)
THEOREM LiveExclusionTheorem == Spec => []LiveRunsExclusive
<1>1. Init => TimerInv /\ LockIsHeldOnce
  BY TimerInit DEF Init, LockIsHeldOnce, Holds, Idle
<1>2. TimerInv /\ LockIsHeldOnce /\ [Next]_runnerVars => (TimerInv /\ LockIsHeldOnce)'
  BY TimerNext, LockNext, TypedAlone, NextIsAny DEF TimerInv
<1>3. TimerInv /\ LockIsHeldOnce => LiveRunsExclusive
  <2> SUFFICES ASSUME TimerInv, LockIsHeldOnce, NEW t \in Thread, NEW u \in Thread,
                      Running(t), running[thread[t].runner],
                      Running(u), running[thread[u].runner]
               PROVE  t = u
    BY DEF LiveRunsExclusive
  <2>1. thread[t].runner \in Runner /\ thread[u].runner \in Runner
    BY DEF TimerInv, TypeOK, Running, PoolJob, Idle
  <2>2. thread[t].runner = cache /\ thread[u].runner = cache
    BY <2>1 DEF TimerInv, LiveIsCached, Referenced
  <2> QED
    BY <2>2 DEF LockIsHeldOnce, Holds, Running
<1> QED
  BY <1>1, <1>2, <1>3, PTL DEF Spec

LEMMA CachedNext ==
  ASSUME NEW S, Callback \subseteq S, Typed(S), inbox \in Seq(StopFree(S)), ReferencedIsCached,
         [AnyNext]_runnerVars
  PROVE  ReferencedIsCached'
<1>1. ASSUME NEW r \in Runner,
             RunOnce(r) \/ Reschedule(r) \/ RescheduleIfRunning(r) \/ TimerFires(r)
      PROVE  ReferencedIsCached'
  <2>1. \A s \in Runner : Referenced(s)' => Referenced(s) \/ (s = r /\ (RunOnce(r) \/ Reschedule(r)))
    BY <1>1, ReactorRefersToOld
  <2>2. CASE RunOnce(r) \/ Reschedule(r)
    <3>1. cache' = r /\ cache \in {None, r}
      BY <2>2 DEF RunOnce, Reschedule, WithRunner
    <3>2. \A s \in Runner : Referenced(s) => s = r
      BY <3>1, TaskRunnerAssumption DEF ReferencedIsCached
    <3> QED
      BY <2>1, <3>1, <3>2 DEF ReferencedIsCached
  <2>3. CASE RescheduleIfRunning(r) \/ TimerFires(r)
    <3>1. cache' = cache
      BY <2>3 DEF RescheduleIfRunning, TimerFires
    <3>2. Referenced(r)
      BY <2>3, HeadMentioned DEF Typed, RescheduleIfRunning, TimerFires, Job, Referenced
    <3> QED
      BY <2>1, <3>1, <3>2 DEF ReferencedIsCached
  <2> QED
    BY <1>1, <2>2, <2>3
<1>2. ASSUME NEW t \in Thread, AnyPool(t) PROVE ReferencedIsCached'
  <2>1. cache' = cache
    BY <1>2 DEF AnyPool, Take, Forward, Acquire, AnyReturn, Answer, Release
  <2> QED
    BY <1>2, <2>1, PoolRefersToOld DEF ReferencedIsCached
<1>3. CASE Request
  <2>1. UNCHANGED <<cache, timers, jobs, thread>>
    BY <1>3 DEF Request
  <2>2. \A s \in Runner : Referenced(s)' => Referenced(s)
    BY <1>3, RequestRefersToOld
  <2> QED
    BY <2>1, <2>2 DEF ReferencedIsCached
<1>4. CASE Collect
  <2>1. \A r \in Runner : Referenced(r)' <=> Referenced(r)
    BY <1>4 DEF Collect, Referenced, Mentions
  <2>2. \A r \in Runner : ~Referenced(r)
    BY <1>4 DEF Collect, ReferencedIsCached
  <2> QED
    BY <2>1, <2>2 DEF ReferencedIsCached
<1>5. CASE UNCHANGED runnerVars
  BY <1>5 DEF runnerVars, ReferencedIsCached, Referenced, Mentions
<1>6. CASE Reactor
  BY <1>1, <1>6, NobodyStops DEF Reactor
<1> QED
  BY <1>2, <1>3, <1>4, <1>5, <1>6 DEF AnyNext

LEMMA LockInit ==
  ASSUME Init
  PROVE  LockInv
<1>1. Ask("reschedule") \in StopFree(Callback) /\ Ask("run_once") \in StopFree(Callback)
  BY DEF Ask, Callback, StopFree
<1>2. <<Ask("reschedule")>> \in Seq(StopFree(Callback))
  BY <1>1
<1>3. <<Ask("reschedule"), Ask("run_once")>> \in Seq(StopFree(Callback))
  BY <1>1
<1>4. inbox \in Seq(StopFree(Callback))
  BY <1>2, <1>3 DEF Init
<1>5. LockIsHeldOnce
  BY DEF Init, LockIsHeldOnce, Holds, Idle
<1>6. \A r \in Runner : ~Referenced(r)
  <2> SUFFICES ASSUME NEW r \in Runner PROVE ~Referenced(r)
    OBVIOUS
  <2>1. r # None
    BY TaskRunnerAssumption
  <2>2. ~Mentions(inbox, r)
    BY <2>1 DEF Init, Mentions, Ask
  <2> QED
    BY <2>1, <2>2 DEF Init, Referenced, Mentions, Idle
<1> QED
  BY <1>4, <1>5, <1>6, TimerInit DEF LockInv, ReferencedIsCached

LEMMA OneLock ==
  ASSUME NEW S, Typed(S), LockIsHeldOnce, ReferencedIsCached
  PROVE  RunsExclusive
<1> SUFFICES ASSUME NEW t \in Thread, NEW u \in Thread, Running(t), Running(u)
             PROVE  t = u
  BY DEF RunsExclusive
<1>1. thread[t].runner \in Runner /\ thread[u].runner \in Runner
  BY DEF Typed, Running, PoolJob, Idle
<1>2. thread[t].runner = cache /\ thread[u].runner = cache
  BY <1>1 DEF ReferencedIsCached, Referenced
<1> QED
  BY <1>2 DEF LockIsHeldOnce, Holds, Running

(* While nobody calls stop() no two runs of the task overlap, for any number *)
(* of pool threads, callers and runners that come and go.                    *)
THEOREM ExclusionTheorem ==
  ASSUME "stop" \notin Calls
  PROVE  Spec => []RunsExclusive
<1>1. Init => LockInv
  BY LockInit
<1>2. LockInv /\ [Next]_runnerVars => LockInv'
  BY TimerNext, StopFreeNext, LockNext, CachedNext, TypedAlone, NextIsAny DEF LockInv, TimerInv
<1>3. LockInv => RunsExclusive
  BY OneLock, TypedAlone DEF LockInv, TimerInv
<1> QED
  BY <1>1, <1>2, <1>3, PTL DEF Spec

-----------------------------------------------------------------------------
(* The handler.  Its runner's part: what is said above, of a runner that    *)
(* shares the reactor, here with reactor.stop.                              *)
Callbacks == Callback \cup {Ask("reactor.stop")}

RunnerInv ==
  /\ Typed(Callbacks) /\ inbox \in Seq(StopFree(Callbacks))
  /\ LockIsHeldOnce /\ ReferencedIsCached

(* Each step is one of the runner, or leaves it alone, or is one of the two *)
(* by which the reactor is stopped.                                        *)
LEMMA StepKinds ==
  ASSUME [SyncNext]_syncAllVars
  PROVE  [AnyNext]_runnerVars \/ StopReactor \/ ShutdownCallback
<1>1. ASSUME NEW t \in Thread, Run(t) PROVE [AnyNext]_runnerVars
  <2>1. CASE Leave(t)
    <3>1. Answer(t, TRUE) \/ Answer(t, FALSE)
      BY <2>1 DEF Leave
    <3> QED
      BY <3>1 DEF AnyNext, AnyPool, AnyReturn
  <2>2. CASE ~Leave(t)
    BY <1>1, <2>2 DEF Run, Enter, GoOffline, FindShares, NextShare, SetActivity, UpdateAborts,
         ShareDone, SharesDone, CommitOrFail, Aborted, End
  <2> QED
    BY <2>1, <2>2
<1>2. ASSUME NEW t \in Thread, RunnerPool(t) PROVE AnyNext
  BY <1>2 DEF RunnerPool, AnyNext, AnyPool
<1>3. CASE ScheduleNow \/ RunnerReactor
  BY <1>3 DEF ScheduleNow, RunnerReactor, AnyNext
<1>4. CASE Interrupt \/ RequestAbort \/ UNCHANGED syncAllVars
  BY <1>4 DEF Interrupt, RequestAbort, syncAllVars
<1> QED
  BY <1>1, <1>2, <1>3, <1>4 DEF SyncNext, Quit, ReactorStep, PoolStep

LEMMA RunnerInvInit == Init => RunnerInv
<1> SUFFICES ASSUME Init PROVE RunnerInv
  OBVIOUS
<1>1. LockInv
  BY LockInit
<1>2. inbox \in Seq(StopFree(Callback))
  BY <1>1 DEF LockInv
<1>3. StopFree(Callback) \subseteq StopFree(Callbacks) /\ StopFree(Callbacks) \subseteq Callbacks
  BY DEF StopFree, Callbacks
<1>4. inbox \in Seq(StopFree(Callbacks)) /\ inbox \in Seq(Callbacks)
  BY <1>2, <1>3
<1> QED
  BY <1>1, <1>4 DEF LockInv, TimerInv, TypeOK, Typed, RunnerInv

LEMMA RunnerInvNext ==
  ASSUME "stop" \notin Calls, RunnerInv, [SyncNext]_syncAllVars
  PROVE  RunnerInv'
<1>1. Callback \subseteq Callbacks
  BY DEF Callbacks
<1>2. CASE [AnyNext]_runnerVars
  <2>1. Typed(Callbacks)'
    BY <1>1, <1>2, TypedNext DEF RunnerInv
  <2>2. inbox' \in Seq(StopFree(Callbacks))
    BY <1>1, <1>2, StopFreeNext DEF RunnerInv
  <2>3. LockIsHeldOnce'
    BY <1>2, LockNext DEF RunnerInv
  <2>4. ReferencedIsCached'
    BY <1>1, <1>2, CachedNext DEF RunnerInv
  <2>5. Seq(StopFree(Callbacks))' = Seq(StopFree(Callbacks))
    BY DEF StopFree, Callbacks, Callback, Ask
  <2> QED
    BY <2>1, <2>2, <2>3, <2>4, <2>5 DEF RunnerInv
<1>3. CASE StopReactor \/ ShutdownCallback
  <2>1. UNCHANGED <<cache, running, timers, jobs, thread, requests>>
    BY <1>3 DEF StopReactor, ShutdownCallback
  <2>2. Ask("reactor.stop") \in StopFree(Callbacks) /\ StopFree(Callbacks) \subseteq Callbacks
    BY DEF StopFree, Callbacks, Ask
  <2>3. inbox' = Append(inbox, Ask("reactor.stop")) \/ (inbox # <<>> /\ inbox' = Tail(inbox))
    BY <1>3 DEF StopReactor, ShutdownCallback
  <2>4. inbox \in Seq(StopFree(Callbacks))
    BY DEF RunnerInv
  <2>5. inbox' \in Seq(StopFree(Callbacks)) /\ inbox' \in Seq(Callbacks)
    BY <2>2, <2>3, <2>4
  <2>6. \A s \in Runner : Mentions(inbox', s) => Mentions(inbox, s)
    <3>1. inbox # <<>> => \A s : Mentions(Tail(inbox), s) => Mentions(inbox, s)
      BY <2>4, TailMentions
    <3>2. \A s : Mentions(Append(inbox, Ask("reactor.stop")), s) => Mentions(inbox, s) \/ s = None
      BY <2>2, <2>4, AppendMentions DEF Ask
    <3> QED
      BY <2>3, <3>1, <3>2, TaskRunnerAssumption
  <2>7. ReferencedIsCached'
    <3>1. \A s \in Runner : Referenced(s)' => Referenced(s)
      BY <2>1, <2>6 DEF Referenced, Mentions
    <3> QED
      BY <2>1, <3>1 DEF RunnerInv, ReferencedIsCached
  <2>8. LockIsHeldOnce'
    BY <2>1 DEF RunnerInv, LockIsHeldOnce, Holds
  <2>9. Typed(Callbacks)'
    BY <2>1, <2>5 DEF RunnerInv, Typed, Callbacks, Callback, Ask, PoolJob, Idle
  <2> QED
    BY <2>5, <2>7, <2>8, <2>9 DEF RunnerInv, StopFree, Callbacks, Callback, Ask
<1> QED
  BY <1>2, <1>3, StepKinds

LEMMA RunnerInvExcludes == RunnerInv => RunsExclusive
  BY OneLock DEF RunnerInv

(* The sync's runs never overlap, whoever asks for them, and quitting too.   *)
THEOREM SyncExclusionTheorem ==
  ASSUME "stop" \notin Calls
  PROVE  SyncSpec => []RunsExclusive
<1>1. SyncInit => RunnerInv
  BY RunnerInvInit DEF SyncInit
<1> QED
  BY <1>1, RunnerInvNext, RunnerInvExcludes, PTL DEF SyncSpec

-----------------------------------------------------------------------------
(* The sync's part.  A thread is inside run() only while it holds the       *)
(* runlock; running_status is RUNNING exactly while one is at work there;    *)
(* the reactor is stopped as the last thing the UI thread does; and once     *)
(* the Deferred was fired, what may abort a run is over with that run's end. *)
OnlyRunning == \A t \in Thread : pc[t] # "enter" => Running(t)

StatusFollowsRun ==
  running_status = "RUNNING" <=> \E t \in Thread : pc[t] \notin {"enter", "return"}

StopComesLast ==
  shutdown_deferred # "none" \/ (\E i \in DOMAIN inbox : inbox[i] = Ask("reactor.stop"))
    => ui = "joining"

FiredIsOver ==
  shutdown_deferred = "fired" =>
    /\ interrupt_flag = "PROCEED" \/ \E t \in Thread : pc[t] = "end"
    /\ \A t \in Thread : /\ pc[t] # "aborted"
                         /\ pc[t] \in {"begun", "syncing"} => ~abortRequested[t]

SyncInv ==
  /\ SyncTypeOK /\ RunnerInv /\ OnlyRunning /\ StatusFollowsRun
  /\ StopComesLast /\ FiredIsOver /\ NeverRaises

LEMMA SyncInvInit == SyncInit => SyncInv
<1> SUFFICES ASSUME SyncInit PROVE SyncInv
  OBVIOUS
<1>1. SyncTypeOK
  BY BackgroundSyncAssumption DEF SyncInit, SyncTypeOK
<1>2. RunnerInv
  BY RunnerInvInit DEF SyncInit
<1>3. \A i \in DOMAIN inbox : inbox[i] # Ask("reactor.stop")
  BY DEF SyncInit, Init, Ask
<1> QED
  BY <1>1, <1>2, <1>3
     DEF SyncInit, SyncInv, OnlyRunning, StatusFollowsRun, StopComesLast, FiredIsOver, NeverRaises

(* Only one thread is inside run(). *)
LEMMA OthersWait ==
  ASSUME SyncInv, NEW t \in Thread, Running(t)
  PROVE  \A u \in Thread \ {t} : pc[u] = "enter"
  BY RunnerInvExcludes DEF SyncInv, OnlyRunning, RunsExclusive

(* What SyncInv says when no thread but t is inside run(). *)
LEMMA OneAtWork ==
  ASSUME NEW t \in Thread, \A u \in Thread \ {t} : pc[u] = "enter"
  PROVE  /\ OnlyRunning <=> pc[t] = "enter" \/ Running(t)
         /\ StatusFollowsRun <=> (running_status = "RUNNING" <=> pc[t] \notin {"enter", "return"})
         /\ FiredIsOver <=> (shutdown_deferred = "fired" =>
              /\ interrupt_flag = "PROCEED" \/ pc[t] = "end"
              /\ pc[t] # "aborted"
              /\ pc[t] \in {"begun", "syncing"} => ~abortRequested[t])
         /\ NeverRaises <=> pc[t] # "raised"
<1>1. \A u \in Thread : u = t \/ pc[u] = "enter"
  OBVIOUS
<1> QED
  BY <1>1 DEF OnlyRunning, StatusFollowsRun, FiredIsOver, NeverRaises

(* A step inside run(): its conjuncts that speak of one thread, from those  *)
(* of the state before.                                                    *)
LEMMA RunKeepsSyncInv ==
  ASSUME SyncInv, RunnerInv', NEW t \in Thread, Run(t)
  PROVE  SyncInv'
<1>1. Running(t)
  BY DEF Run, At, Enter, GoOffline, FindShares, NextShare, SetActivity, UpdateAborts,
         ShareDone, SharesDone, CommitOrFail, Aborted, End, Leave
<1>2. /\ SyncTypeOK
      /\ \A u \in Thread \ {t} : pc[u] = "enter"
      /\ running_status = "RUNNING" <=> pc[t] \notin {"enter", "return"}
      /\ shutdown_deferred = "fired" =>
           /\ interrupt_flag = "PROCEED" \/ pc[t] = "end"
           /\ pc[t] # "aborted"
           /\ pc[t] \in {"begun", "syncing"} => ~abortRequested[t]
      /\ pc[t] # "raised"
  BY <1>1, OthersWait, OneAtWork DEF SyncInv
<1>3. \A u \in Thread \ {t} : pc'[u] = "enter"
  BY <1>2 DEF Run, Goto, Enter, GoOffline, FindShares, NextShare, SetActivity, UpdateAborts,
              ShareDone, SharesDone, CommitOrFail, Aborted, End, Leave, SyncTypeOK
<1>4. SyncTypeOK'
  <2> USE <1>2 DEF SyncTypeOK, AtWork, Goto, At
  <2>1. CASE Enter(t) \/ GoOffline(t) \/ SetActivity(t) \/ UpdateAborts(t) \/ ShareDone(t)
    BY <2>1 DEF Enter, GoOffline, SetActivity, UpdateAborts, ShareDone
  <2>2. CASE FindShares(t)
    BY <2>2 DEF FindShares
  <2>3. CASE NextShare(t)
    <3>1. left[t] \in 0..MaxShares /\ left[t] - 1 \in 0..MaxShares
      BY <2>3, BackgroundSyncAssumption DEF NextShare
    <3>2. CASE interrupt_flag # "PROCEED"
      BY <2>3, <3>2 DEF NextShare
    <3>3. CASE interrupt_flag = "PROCEED"
      BY <2>3, <3>1, <3>3 DEF NextShare
    <3> QED
      BY <3>2, <3>3
  <2>4. CASE SharesDone(t) \/ CommitOrFail(t) \/ End(t) \/ Leave(t)
    BY <2>4 DEF SharesDone, CommitOrFail, End, Leave
  <2>5. CASE Aborted(t)
    BY <2>5 DEF Aborted
  <2> QED
    BY <2>1, <2>2, <2>3, <2>4, <2>5 DEF Run
<1>5. StopComesLast'
  <2>1. shutdown_deferred' # "none" => shutdown_deferred # "none"
    BY DEF Run, Enter, GoOffline, FindShares, NextShare, SetActivity, UpdateAborts,
           ShareDone, SharesDone, CommitOrFail, Aborted, End, Leave
  <2>2. ui' = ui
    BY DEF Run, Enter, GoOffline, FindShares, NextShare, SetActivity, UpdateAborts,
           ShareDone, SharesDone, CommitOrFail, Aborted, End, Leave
  <2>3. ASSUME NEW i \in DOMAIN inbox', inbox'[i] = Ask("reactor.stop")
        PROVE  \E j \in DOMAIN inbox : inbox[j] = Ask("reactor.stop")
    <3>1. CASE inbox' = inbox
      BY <2>3, <3>1
    <3>2. CASE inbox' # inbox
      <4>1. Leave(t)
        BY <3>2 DEF Run, Enter, GoOffline, FindShares, NextShare, SetActivity, UpdateAborts,
                    ShareDone, SharesDone, CommitOrFail, Aborted, End, runnerVars
      <4>2. PICK c : inbox' = Append(inbox, c) /\ c # Ask("reactor.stop")
        BY <3>2, <4>1 DEF Leave, Answer, Ask, Job
      <4>3. inbox \in Seq(Callbacks)
        BY DEF SyncInv, RunnerInv, Typed
      <4>4. i \in DOMAIN inbox
        BY <2>3, <4>2, <4>3
      <4> QED
        BY <2>3, <4>2, <4>3, <4>4
    <3> QED
      BY <3>1, <3>2
  <2> QED
    BY <2>1, <2>2, <2>3 DEF SyncInv, StopComesLast
<1>6. /\ pc'[t] = "enter" \/ Running(t)'
      /\ running_status' = "RUNNING" <=> pc'[t] \notin {"enter", "return"}
      /\ shutdown_deferred' = "fired" =>
           /\ interrupt_flag' = "PROCEED" \/ pc'[t] = "end"
           /\ pc'[t] # "aborted"
           /\ pc'[t] \in {"begun", "syncing"} => ~abortRequested'[t]
      /\ pc'[t] # "raised"
  <2> USE <1>1, <1>2 DEF At, Goto, SyncTypeOK, runnerVars, Running
  <2>1. CASE Enter(t)
    BY <2>1 DEF Enter
  <2>2. CASE GoOffline(t)
    BY <2>2 DEF GoOffline
  <2>3. CASE FindShares(t)
    BY <2>3 DEF FindShares
  <2>4. CASE NextShare(t)
    BY <2>4 DEF NextShare
  <2>5. CASE SetActivity(t)
    BY <2>5 DEF SetActivity
  <2>6. CASE UpdateAborts(t)
    BY <2>6 DEF UpdateAborts
  <2>7. CASE ShareDone(t)
    BY <2>7 DEF ShareDone
  <2>8. CASE SharesDone(t)
    BY <2>8 DEF SharesDone
  <2>9. CASE CommitOrFail(t)
    BY <2>9 DEF CommitOrFail
  <2>10. CASE Aborted(t)
    BY <2>10 DEF Aborted
  <2>11. CASE End(t)
    BY <2>11 DEF End
  <2>12. CASE Leave(t)
    BY <2>12 DEF Leave
  <2> QED
    BY <2>1, <2>2, <2>3, <2>4, <2>5, <2>6, <2>7, <2>8, <2>9, <2>10, <2>11, <2>12 DEF Run
<1>7. OnlyRunning' /\ StatusFollowsRun' /\ FiredIsOver' /\ NeverRaises'
  BY <1>3, <1>6 DEF OnlyRunning, StatusFollowsRun, FiredIsOver, NeverRaises
<1> QED
  BY <1>4, <1>5, <1>7 DEF SyncInv

(* A step of the runner leaves run() where it is: it takes the lock from    *)
(* nobody and gives nobody's call back.                                    *)
LEMMA RunnerKeepsSyncInv ==
  ASSUME SyncInv, RunnerInv', UNCHANGED syncVars,
         Request \/ Reactor \/ \E t \in Thread : Take(t) \/ Forward(t) \/ Acquire(t) \/ Release(t)
  PROVE  SyncInv'
<1>1. OnlyRunning'
  <2> SUFFICES ASSUME NEW u \in Thread, Running(u) PROVE Running(u)'
    BY DEF SyncInv, OnlyRunning, syncVars
  <2>1. CASE Request \/ Reactor
    BY <2>1 DEF Request, Reactor, RunOnce, Stop, Reschedule, RescheduleIfRunning, TimerFires, Running
  <2>2. ASSUME NEW t \in Thread, Take(t) \/ Forward(t) \/ Acquire(t) \/ Release(t)
        PROVE  Running(u)'
    <3>1. u # t /\ thread \in [Thread -> PoolJob \cup {Idle} \cup [call : {"run", "ran"}, runner : Runner]]
      BY <2>2 DEF Take, Forward, Acquire, Release, Running, Idle, SyncInv, RunnerInv, Typed
    <3>2. thread'[u] = thread[u]
      BY <2>2, <3>1 DEF Take, Forward, Acquire, Release
    <3> QED
      BY <3>2 DEF Running
  <2> QED
    BY <2>1, <2>2
<1>2. StopComesLast'
  <2> SUFFICES ASSUME NEW i \in DOMAIN inbox', inbox'[i] = Ask("reactor.stop")
               PROVE  \E j \in DOMAIN inbox : inbox[j] = Ask("reactor.stop")
    BY DEF SyncInv, StopComesLast, syncVars
  <2>1. inbox \in Seq(Callbacks)
    BY DEF SyncInv, RunnerInv, Typed
  <2>2. CASE Request
    <3>1. PICK c : inbox' = Append(inbox, c) /\ c # Ask("reactor.stop")
      BY <2>2, TaskRunnerAssumption DEF Request, Ask
    <3>2. i \in DOMAIN inbox
      BY <2>1, <3>1
    <3> QED
      BY <2>1, <3>1, <3>2
  <2>3. CASE Reactor
    <3>1. inbox' = inbox \/ (inbox # <<>> /\ inbox' = Tail(inbox))
      BY <2>3 DEF Reactor, RunOnce, Stop, Reschedule, RescheduleIfRunning, TimerFires, WithRunner
    <3>2. CASE inbox' = inbox
      BY <3>2
    <3>3. CASE inbox # <<>> /\ inbox' = Tail(inbox)
      <4>1. i + 1 \in DOMAIN inbox /\ inbox[i + 1] = inbox'[i]
        BY <2>1, <3>3
      <4> QED
        BY <4>1
    <3> QED
      BY <3>1, <3>2, <3>3
  <2>4. CASE \E t \in Thread : Take(t) \/ Forward(t) \/ Acquire(t) \/ Release(t)
    BY <2>4 DEF Take, Forward, Acquire, Release
  <2> QED
    BY <2>2, <2>3, <2>4
<1> QED
  BY <1>1, <1>2
     DEF SyncInv, syncVars, SyncTypeOK, StatusFollowsRun, FiredIsOver, NeverRaises

(* Quitting, in the UI thread and in the reactor's. *)
LEMMA QuitKeepsSyncInv ==
  ASSUME SyncInv, RunnerInv', Quit \/ ShutdownCallback
  PROVE  SyncInv'
<1>1. inbox \in Seq(Callbacks)
  BY DEF SyncInv, RunnerInv, Typed
<1>2. OnlyRunning' /\ StatusFollowsRun' /\ NeverRaises'
  BY DEF Quit, Interrupt, RequestAbort, StopReactor, ShutdownCallback, runnerVars,
         SyncInv, OnlyRunning, Running, StatusFollowsRun, NeverRaises
<1>3. SyncTypeOK'
  BY DEF Quit, Interrupt, RequestAbort, StopReactor, ShutdownCallback, SyncInv, SyncTypeOK
<1>4. CASE Interrupt \/ RequestAbort
  <2>1. shutdown_deferred' = "none"
    BY <1>4 DEF Interrupt, RequestAbort, SyncInv, StopComesLast
  <2>2. StopComesLast'
    BY <1>4, <2>1 DEF Interrupt, RequestAbort, SyncInv, StopComesLast, runnerVars
  <2> QED
    BY <1>2, <1>3, <2>1, <2>2 DEF SyncInv, FiredIsOver
<1>5. CASE StopReactor
  <2>1. shutdown_deferred' = "none" /\ ui' = "joining"
    BY <1>5 DEF StopReactor, SyncInv, StopComesLast
  <2> QED
    BY <1>2, <1>3, <2>1 DEF SyncInv, FiredIsOver, StopComesLast
<1>6. CASE ShutdownCallback
  <2>1. ui' = "joining"
    <3>1. 1 \in DOMAIN inbox /\ inbox[1] = Ask("reactor.stop")
      BY <1>1, <1>6 DEF ShutdownCallback
    <3> QED
      BY <1>6, <3>1 DEF ShutdownCallback, SyncInv, StopComesLast
  <2>2. FiredIsOver'
    BY <1>6 DEF ShutdownCallback, SyncInv, FiredIsOver
  <2> QED
    BY <1>2, <1>3, <2>1, <2>2 DEF SyncInv, StopComesLast
<1> QED
  BY <1>4, <1>5, <1>6 DEF Quit

LEMMA SyncInvNext ==
  ASSUME "stop" \notin Calls, SyncInv, [SyncNext]_syncAllVars
  PROVE  SyncInv'
<1>1. RunnerInv'
  BY RunnerInvNext DEF SyncInv
<1>2. ASSUME NEW t \in Thread, PoolStep(t) PROVE SyncInv'
  BY <1>1, <1>2, RunKeepsSyncInv, RunnerKeepsSyncInv DEF PoolStep, RunnerPool
<1>3. CASE ScheduleNow \/ RunnerReactor
  BY <1>1, <1>3, RunnerKeepsSyncInv DEF ScheduleNow, RunnerReactor
<1>4. CASE Quit \/ ShutdownCallback
  BY <1>1, <1>4, QuitKeepsSyncInv
<1>5. CASE UNCHANGED syncAllVars
  BY <1>1, <1>5 DEF syncAllVars, syncVars, runnerVars, SyncInv, SyncTypeOK, OnlyRunning, Running,
     StatusFollowsRun, StopComesLast, FiredIsOver, NeverRaises
<1> QED
  BY <1>2, <1>3, <1>4, <1>5 DEF SyncNext, ReactorStep

-----------------------------------------------------------------------------
(* The state that run(), interrupt() and the shutdown share is well-typed.   *)
THEOREM SyncTypeTheorem ==
  ASSUME "stop" \notin Calls
  PROVE  SyncSpec => []SyncTypeOK
<1>1. SyncInv => SyncTypeOK
  BY DEF SyncInv
<1> QED
  BY <1>1, SyncInvInit, SyncInvNext, PTL DEF SyncSpec

(* running_status is IDLE only while no run is at work: shutdownCallback     *)
(* can rely on it, on every path out of run().                              *)
THEOREM IdleTheorem ==
  ASSUME "stop" \notin Calls
  PROVE  SyncSpec => []IdleMeansIdle
<1>1. SyncInv => IdleMeansIdle
  BY DEF SyncInv, StatusFollowsRun, IdleMeansIdle
<1> QED
  BY <1>1, SyncInvInit, SyncInvNext, PTL DEF SyncSpec

(* A run that begins never finds another one busy, so that no request is     *)
(* dropped.                                                                 *)
THEOREM RequestsTheorem ==
  ASSUME "stop" \notin Calls
  PROVE  SyncSpec => []RequestsNotDropped
<1>1. SyncInv => RequestsNotDropped
  <2> SUFFICES ASSUME SyncInv, NEW t \in Thread, At(t, "enter") PROVE running_status = "IDLE"
    BY DEF RequestsNotDropped
  <2>1. \A u \in Thread : pc[u] = "enter"
    BY OthersWait DEF At
  <2> QED
    BY <2>1 DEF SyncInv, StatusFollowsRun, SyncTypeOK
<1> QED
  BY <1>1, SyncInvInit, SyncInvNext, PTL DEF SyncSpec

(* The Deferred is never called back twice, so that run() never raises.      *)
THEOREM NeverRaisesTheorem ==
  ASSUME "stop" \notin Calls
  PROVE  SyncSpec => []NeverRaises
<1>1. SyncInv => NeverRaises
  BY DEF SyncInv
<1> QED
  BY <1>1, SyncInvInit, SyncInvNext, PTL DEF SyncSpec

(* When the reactor's shutdown goes on, because nothing was running or       *)
(* because the aborted run has fired the Deferred, no share is being synced. *)
THEOREM DownTheorem ==
  ASSUME "stop" \notin Calls
  PROVE  SyncSpec => DownBetweenJobs
<1>1. ASSUME SyncInv, [SyncNext]_syncAllVars, reactor # "down", reactor' = "down"
      PROVE  \A t \in Thread : pc'[t] \notin AtWork
  <2>1. ShutdownCallback \/ \E t \in Thread : Aborted(t)
    BY <1>1 DEF SyncNext, ScheduleNow, Quit, Interrupt, RequestAbort, StopReactor, ReactorStep,
       RunnerReactor, PoolStep, RunnerPool, Run, Enter, GoOffline, FindShares, NextShare,
       SetActivity, UpdateAborts, ShareDone, SharesDone, CommitOrFail, End, Leave,
       syncAllVars, syncVars
  <2>2. CASE ShutdownCallback
    BY <1>1, <2>2 DEF ShutdownCallback, SyncInv, StatusFollowsRun, SyncTypeOK, AtWork
  <2>3. ASSUME NEW t \in Thread, Aborted(t) PROVE \A u \in Thread : pc'[u] \notin AtWork
    <3>1. \A u \in Thread \ {t} : pc[u] = "enter"
      BY <1>1, <2>3, OthersWait DEF Aborted, At
    <3>2. \A u \in Thread : pc'[u] = IF u = t THEN pc'[t] ELSE pc[u]
      BY <1>1, <2>3 DEF Aborted, Goto, SyncInv, SyncTypeOK
    <3>3. pc'[t] \in {"raised", "end"}
      BY <1>1, <2>3 DEF Aborted, Goto, SyncInv, SyncTypeOK
    <3> QED
      BY <3>1, <3>2, <3>3 DEF AtWork
  <2> QED
    BY <2>1, <2>2, <2>3
<1>2. SyncInv /\ [SyncNext]_syncAllVars
      => [reactor # "down" /\ reactor' = "down" => \A t \in Thread : pc'[t] \notin AtWork]_syncAllVars
  BY <1>1
<1> QED
  BY <1>2, SyncInvInit, SyncInvNext, PTL DEF SyncSpec, DownBetweenJobs
=============================================================================
