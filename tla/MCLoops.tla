------------------------------ MODULE MCLoops -------------------------------
(***************************************************************************)
(* The scheduler of callbacks (Scheduler) and tasks that share a lock      *)
(* (Uasyncio) in one run. They share no state: a behaviour is one of one   *)
(* of them, and the variables of the other are idle.                       *)
(***************************************************************************)
EXTENDS Scheduler

CONSTANTS
  None, Tasks, Locks, MaxSleep

VARIABLES
  component,
  runq, delay, waiting, io, coro, data, at, on, helper, event, lock, holder, mode, cur,
  thrown, main, stopper, told

tasks ==
  <<runq, delay, waiting, io, coro, data, at, on, helper, event, lock, holder, mode, cur,
    thrown, main, stopper, told>>

Aio == INSTANCE Uasyncio WITH Events <- {}, Streams <- {}, IoUses <- {}, UsesWaitFor <- TRUE,
                              UsesStop <- FALSE, CancelsWaiters <- FALSE

ASSUME AioParameters == Aio!Parameters
-----------------------------------------------------------------------------
MCCallbacks == {"f", "g"}

NoAio ==
  /\ runq = <<>> /\ delay = "off" /\ waiting = "off" /\ io = "off" /\ coro = "off" /\ data = "off"
  /\ at = "off" /\ on = "off" /\ helper = "off" /\ event = "off" /\ lock = "off" /\ holder = "off"
  /\ mode = "off" /\ cur = "off" /\ thrown = "off" /\ main = "off" /\ stopper = "off"
  /\ told = "off"

MCInit ==
  /\ component \in {"sched", "tasks"}
  /\ IF component = "tasks" THEN Aio!Init ELSE NoAio
  /\ Init

\* A program of tasks may come to its end.
MCNext ==
  /\ UNCHANGED component
  /\ \/ component = "sched" /\ Next /\ UNCHANGED tasks
     \/ component = "tasks" /\ Aio!Next /\ UNCHANGED vars
     \/ component \in {"tasks"} /\ UNCHANGED <<vars, tasks>>

MCSpec ==
  /\ MCInit /\ [][MCNext]_<<component, vars, tasks>>
  /\ WF_vars(component = "sched" /\ HandlePendingRaise)
  /\ WF_vars(component = "sched" /\ HandlePendingTail(TRUE))
  /\ WF_vars(component = "sched" /\ UnlockRegion)
  /\ WF_tasks(component = "tasks" /\ Aio!Loop)
  /\ WF_tasks(component = "tasks" /\ Aio!Yield)
  /\ WF_tasks(component = "tasks" /\ Aio!Tick)

-----------------------------------------------------------------------------
\* A task is in one queue.
OneQueue == component = "tasks" => Aio!OneQueue

\* A lock has one holder.
LockExclusive == component = "tasks" => Aio!LockExclusive

\* A task that waits is woken by what it waits for.
NoMissedWakeup == component = "tasks" => Aio!NoMissedWakeup

\* A cancel that was accepted is delivered.
CancelKept == component = "tasks" => Aio!CancelKept

\* A task that is scheduled runs.
ScheduledRuns == Aio!ScheduledRuns
=============================================================================
