---------------------------- MODULE MCTaskRunner ----------------------------
(***************************************************************************)
(* TaskRunner for the two kinds of tasks: a PeriodicTask, whose run() may   *)
(* end the task and which may be stopped, and a DurableTask, which goes on *)
(* through its item and which nobody stops.                                *)
(***************************************************************************)
EXTENDS TaskRunner

VARIABLE task   \* "periodic", of the module's constants, or "endless"

allVars == <<task, runnerVars>>

Endless == INSTANCE TaskRunner WITH Calls <- {"run_once", "reschedule"},
             Answers <- {TRUE}, Durable <- TRUE

MCInit == task \in {"periodic", "endless"} /\ Init

PeriodicNext == task = "periodic" /\ Next /\ UNCHANGED task
EndlessNext == task = "endless" /\ Endless!Next /\ UNCHANGED task

MCReactor == Reactor /\ UNCHANGED task
MCPool(t) ==
  \/ task = "periodic" /\ Pool(t) /\ UNCHANGED task
  \/ task = "endless" /\ Endless!Pool(t) /\ UNCHANGED task

MCSpec ==
  /\ MCInit /\ [][PeriodicNext \/ EndlessNext]_allVars
  /\ WF_allVars(MCReactor) /\ \A t \in Thread : WF_allVars(MCPool(t))
-----------------------------------------------------------------------------
(* "called ... repeatedly as long as it returns True" (startups.txt:381):   *)
(* the timer, the reschedule calls that cancel it and the requests in       *)
(* between never lose the next run of a task that nobody ends.             *)
RunsForever == []<>(task = "periodic" \/ \E t \in Thread : Running(t))
=============================================================================
