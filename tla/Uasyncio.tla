------------------------------ MODULE Uasyncio ------------------------------
(***************************************************************************)
(* The cooperative scheduler of extmod/uasyncio: the loop that polls and   *)
(* resumes tasks (core.py), tasks that are awaited and cancelled (task.py, *)
(* and its twin in C, moduasyncio.c), events, locks and wait_for.          *)
(*                                                                         *)
(* A coroutine is arbitrary user code: once resumed, it makes any calls of *)
(* the library and then awaits something or ends.  Nothing else runs in    *)
(* between.  Queues hold tasks in the order they would be popped; of its   *)
(* time (ph_key) a task keeps how far it lies in the future.               *)
(***************************************************************************)
EXTENDS Integers, Sequences, FiniteSets, SequencesExt

CONSTANTS Tasks, Events, Locks, Streams,
          None,
          MaxSleep,       \* longest sleep and timeout
          IoUses,         \* <<stream, direction>> pairs the program waits for
          UsesWaitFor,    \* whether it calls wait_for
          UsesStop,       \* whether it calls run_forever and stop
          CancelsWaiters  \* whether a task cancels one that awaits it

\* What is assumed of the constants.
Parameters ==
  /\ MaxSleep \in Nat /\ IoUses \subseteq Streams \X {1, 2}
  /\ {UsesWaitFor, UsesStop, CancelsWaiters} \subseteq BOOLEAN

VARIABLES runq,      \* _task_queue
          delay,     \* ticks until ph_key, 0 when it is reached
          waiting,   \* the TaskQueue of every task, event and lock
          io,        \* _io_queue.map: the reader and the writer of a stream
          coro,      \* new, live, done (coro is None); see below
          data,      \* Task.data
          at, on,    \* where a task is suspended, and on what
          helper,    \* cancel_task of the wait_for a task is in
          event,     \* Event.state
          lock,      \* Lock.state
          holder,    \* tasks between acquire and release
          mode,      \* what the loop is doing
          cur,       \* cur_task
          thrown,    \* a CancelledError is on its way through cur's code
          main,      \* main_task
          stopper,   \* _stop_task
          told       \* tasks a cancel has chosen, until it reaches them

queues == <<runq, delay, waiting, io>>
tasks == <<coro, data, at, on, helper>>
sync == <<event, lock, holder>>
loop == <<mode, cur, thrown, main, stopper>>
vars == <<queues, tasks, sync, loop, told>>

Waitables == Tasks \cup Events \cup Locks
CancelledError == "CancelledError"
StopIteration == "StopIteration"
IOQueue == "IOQueue"

\* A main task that returned keeps its coroutine ("returned"), as do the
\* cancel_task that wait_for takes from the queue and a _stop_task that is
\* replaced ("dropped").
Coros == {"new", "live", "returned", "dropped", "done"}
Finished(t) == coro[t] = "done"

Init ==
  /\ runq = <<>> /\ delay = [t \in Tasks |-> 0]
  /\ waiting = [q \in Waitables |-> <<>>]
  /\ io = [s \in Streams |-> <<None, None>>]
  /\ coro = [t \in Tasks |-> "new"] /\ data = [t \in Tasks |-> None]
  /\ at = [t \in Tasks |-> "start"] /\ on = [t \in Tasks |-> None]
  /\ helper = [t \in Tasks |-> None]
  /\ event = [e \in Events |-> FALSE]
  /\ lock = [l \in Locks |-> 0] /\ holder = [l \in Locks |-> {}]
  /\ mode = "stopped" /\ cur = None /\ thrown = FALSE
  /\ main = None /\ stopper = None
  /\ told = {}
-----------------------------------------------------------------------------
(***************************************************************************)
(* Queues.  A push goes behind everything that is due no later.            *)
(***************************************************************************)
DueBy(q, d) == Cardinality({i \in DOMAIN q : delay[q[i]] <= d})

\* Mutant: before those that are due at the same time.
push_sorted_Front(q, t, d) ==
  LET n == Cardinality({i \in DOMAIN q : delay[q[i]] < d})
  IN SubSeq(q, 1, n) \o <<t>> \o SubSeq(q, n + 1, Len(q))

push_sorted(q, t, d) ==
  SubSeq(q, 1, DueBy(q, d)) \o <<t>> \o SubSeq(q, DueBy(q, d) + 1, Len(q))

\* push_head of every task of ts in turn: they are due now.
push_head(q, ts) ==
  SubSeq(q, 1, DueBy(q, 0)) \o ts \o SubSeq(q, DueBy(q, 0) + 1, Len(q))

Due(ts) == [t \in Tasks |-> IF t \in ToSet(ts) THEN 0 ELSE delay[t]]
Undata(ts) == [t \in Tasks |-> IF t \in ToSet(ts) THEN None ELSE data[t]]

Stopped == mode = "stopped"

\* The code of a task runs; that of the task of run_forever does nothing.
Running == mode = "task" /\ at[cur] # "stopper"

\* There is code before and after the loop as well.
UserCode == Stopped \/ Running

\* What the program has a reference to.
Known(t) == coro[t] \in {"live", "returned", "done"}
            /\ at[t] \notin {"stopper", "timer_start", "timer_sleep"}

\* Coroutines that have not run are interchangeable, so they are used in turn.
New(t) == coro[t] = "new" /\ t = CHOOSE u \in Tasks : coro[u] = "new"

create_task(t) ==
  /\ UserCode /\ New(t)
  /\ coro' = [coro EXCEPT ![t] = "live"]
  /\ runq' = push_head(runq, <<t>>) /\ delay' = Due(<<t>>)
  /\ UNCHANGED <<waiting, io, data, at, on, helper, sync, loop, told>>

\* run(coro), and Loop.run_until_complete of a coroutine (_promote_to_task):
\* the new task is the one the loop runs for.
run(t) ==
  /\ Stopped /\ New(t)
  /\ coro' = [coro EXCEPT ![t] = "live"]
  /\ runq' = push_head(runq, <<t>>) /\ delay' = Due(<<t>>)
  /\ main' = t /\ mode' = "poll"
  /\ UNCHANGED <<waiting, io, data, at, on, helper, sync, cur, thrown, stopper, told>>

\* Loop.run_until_complete of a task that exists.
run_until_complete(t) ==
  /\ UsesStop /\ Stopped /\ Known(t)
  /\ main' = t /\ mode' = "poll"
  /\ UNCHANGED <<queues, tasks, sync, cur, thrown, stopper, told>>

run_forever(t) ==
  /\ UsesStop /\ Stopped /\ New(t)
  /\ coro' = [u \in Tasks |-> IF u = t THEN "live"
                             ELSE IF u = stopper THEN "dropped" ELSE coro[u]]
  /\ at' = [at EXCEPT ![t] = "stopper"]
  /\ main' = t /\ stopper' = t /\ mode' = "poll"
  /\ UNCHANGED <<queues, data, on, helper, sync, cur, thrown, told>>

stop ==
  /\ UserCode /\ stopper # None
  /\ runq' = push_head(runq, <<stopper>>) /\ delay' = Due(<<stopper>>)
  /\ data' = Undata(<<stopper>>)
  /\ stopper' = None
  /\ UNCHANGED <<waiting, io, coro, at, on, helper, sync, mode, cur, thrown, main, told>>
-----------------------------------------------------------------------------
(***************************************************************************)
(* Task.cancel                                                             *)
(***************************************************************************)
\* The task at the end of the chain of tasks that x waits for.
Target(x) ==
  LET n == Cardinality(Tasks)
      f[i \in 0 .. n] ==
        IF i = 0 THEN x
        ELSE IF data[f[i - 1]] \in Tasks THEN data[f[i - 1]] ELSE f[i - 1]
  IN f[n]

\* IOQueue.remove takes the whole entry of the stream out of the map.
io_remove(t) == [s \in Streams |-> IF t \in ToSet(io[s]) THEN <<None, None>> ELSE io[s]]

\* Mutant: the task is not taken from the queue it waits in.
unqueue_Left(t, q) ==
  /\ IF data[t] \in Events \cup Locks \cup {IOQueue} \/ delay[t] > 0
     THEN runq' = push_head(Remove(q, t), <<t>>) /\ delay' = Due(<<t>>)
     ELSE runq' = q /\ UNCHANGED delay
  /\ UNCHANGED <<waiting, io>>

\* The task at the end of the chain is taken from where it waits, or from its
\* place in the future, and pushed on the run queue q; or it is there already.
unqueue(t, q) ==
  \/ /\ data[t] \in Events \cup Locks
     /\ waiting' = [waiting EXCEPT ![data[t]] = Remove(@, t)]
     /\ runq' = push_head(q, <<t>>) /\ delay' = Due(<<t>>)
     /\ UNCHANGED io
  \/ /\ data[t] = IOQueue
     /\ io' = io_remove(t)
     /\ runq' = push_head(q, <<t>>) /\ delay' = Due(<<t>>)
     /\ UNCHANGED waiting
  \/ /\ data[t] \in {None, CancelledError} /\ delay[t] > 0
     /\ runq' = push_head(Remove(q, t), <<t>>) /\ delay' = Due(<<t>>)
     /\ UNCHANGED <<waiting, io>>
  \/ /\ data[t] \in {None, CancelledError} /\ delay[t] = 0
     /\ runq' = q
     /\ UNCHANGED <<delay, waiting, io>>

\* Mutant: data is set first, and the push clears it.
cancel_ThenPush(x) ==
  /\ UserCode /\ cur # None /\ x # cur /\ Known(x) /\ ~Finished(x)
  /\ Running => Target(x) # cur
  /\ unqueue(Target(x), runq)
  /\ data' = [data EXCEPT ![Target(x)] = IF runq' = runq THEN CancelledError ELSE None]
  /\ told' = told \cup {Target(x)}
  /\ UNCHANGED <<coro, at, on, helper, sync, loop>>

\* Before the first run there is no cur_task and cancel raises an error; so it
\* does for the task that runs.  It returns False for one that is done.
cancel(x) ==
  /\ UserCode /\ cur # None /\ x # cur /\ Known(x) /\ ~Finished(x)
  /\ Running /\ ~CancelsWaiters => Target(x) # cur
  /\ unqueue(Target(x), runq)
  /\ data' = [data EXCEPT ![Target(x)] = CancelledError]
  /\ told' = told \cup {Target(x)}
  /\ UNCHANGED <<coro, at, on, helper, sync, loop>>
-----------------------------------------------------------------------------
(***************************************************************************)
(* Events and locks                                                        *)
(***************************************************************************)
EventSet(e) ==
  /\ UserCode
  /\ runq' = push_head(runq, waiting[e]) /\ delay' = Due(waiting[e])
  /\ data' = Undata(waiting[e])
  /\ waiting' = [waiting EXCEPT ![e] = <<>>]
  /\ event' = [event EXCEPT ![e] = TRUE]
  /\ UNCHANGED <<io, coro, at, on, helper, lock, holder, loop, told>>

EventClear(e) ==
  /\ UserCode
  /\ event' = [event EXCEPT ![e] = FALSE]
  /\ UNCHANGED <<queues, tasks, lock, holder, loop, told>>

\* Mutant: the lock is free until the next task takes it.
release_Free(l, q, d) ==
  /\ lock' = [lock EXCEPT ![l] = 0]
  /\ IF waiting[l] # <<>>
     THEN LET t == Head(waiting[l]) IN
          /\ waiting' = [waiting EXCEPT ![l] = Tail(@)]
          /\ runq' = push_head(q, <<t>>) /\ delay' = Due(<<t>>)
          /\ data' = [d EXCEPT ![t] = None]
     ELSE runq' = q /\ data' = d /\ UNCHANGED <<waiting, delay>>

\* Lock.release with run queue q and task data d: the lock passes to the task
\* that waits longest.
release(l, q, d) ==
  IF waiting[l] # <<>>
  THEN LET t == Head(waiting[l]) IN
       /\ lock' = [lock EXCEPT ![l] = t]
       /\ waiting' = [waiting EXCEPT ![l] = Tail(@)]
       /\ runq' = push_head(q, <<t>>) /\ delay' = Due(<<t>>)
       /\ data' = [d EXCEPT ![t] = None]
  ELSE /\ lock' = [lock EXCEPT ![l] = 0]
       /\ runq' = q /\ data' = d /\ UNCHANGED <<waiting, delay>>

LockRelease(l) ==
  /\ Running /\ cur \in holder[l] /\ lock[l] = 1
  /\ release(l, runq, data)
  /\ holder' = [holder EXCEPT ![l] = @ \ {cur}]
  /\ UNCHANGED <<io, coro, at, on, helper, event, loop, told>>

\* acquire of a lock that is free.
AcquireFree(l) ==
  /\ Running /\ lock[l] = 0
  /\ lock' = [lock EXCEPT ![l] = 1]
  /\ holder' = [holder EXCEPT ![l] = @ \cup {cur}]
  /\ UNCHANGED <<queues, tasks, event, loop, told>>
-----------------------------------------------------------------------------
(***************************************************************************)
(* What a task awaits.  The loop continues.                                *)
(***************************************************************************)
Suspend(where, what) ==
  /\ at' = [at EXCEPT ![cur] = where] /\ on' = [on EXCEPT ![cur] = what]
  /\ mode' = "poll" /\ thrown' = FALSE
  /\ UNCHANGED <<cur, main, stopper, told>>

\* sleep_ms: SingletonGenerator pushes the task for a time in the future.
Sleep(d) ==
  /\ Running
  /\ runq' = push_sorted(runq, cur, d) /\ delay' = [delay EXCEPT ![cur] = d]
  /\ data' = [data EXCEPT ![cur] = None]
  /\ Suspend("sleep", None)
  /\ UNCHANGED <<waiting, io, coro, helper, sync>>

\* The task joins the queue of what it waits for, and links itself to it.
Enqueue(q) ==
  /\ waiting' = [waiting EXCEPT ![q] = Append(@, cur)]
  /\ data' = [data EXCEPT ![cur] = q]

\* A program builds no circle of tasks that await each other.
Awaitable(x) == Known(x) /\ ~Finished(x) /\ Target(x) # cur

Await(x) ==
  /\ Running /\ Awaitable(x)
  /\ Enqueue(x) /\ Suspend("task", x)
  /\ UNCHANGED <<runq, delay, io, coro, helper, sync>>

EventWait(e) ==
  /\ Running /\ ~event[e]
  /\ Enqueue(e) /\ Suspend("event", e)
  /\ UNCHANGED <<runq, delay, io, coro, helper, sync>>

LockAcquire(l) ==
  /\ Running /\ lock[l] # 0 /\ cur \notin holder[l]
  /\ Enqueue(l) /\ Suspend("lock", l)
  /\ UNCHANGED <<runq, delay, io, coro, helper, sync>>

\* queue_read and queue_write, one reader and one writer for a stream.
queue_io(s, i) ==
  /\ Running /\ <<s, i>> \in IoUses /\ io[s][i] = None
  /\ io' = [io EXCEPT ![s][i] = cur]
  /\ data' = [data EXCEPT ![cur] = IOQueue]
  /\ Suspend("io", None)
  /\ UNCHANGED <<runq, delay, waiting, coro, helper, sync>>

\* wait_for(x) starts a timer, the task c, and awaits x.
WaitFor(x, c) ==
  /\ UsesWaitFor /\ Running /\ Awaitable(x) /\ New(c)
  /\ coro' = [coro EXCEPT ![c] = "live"]
  /\ runq' = push_head(runq, <<c>>) /\ delay' = Due(<<c>>)
  /\ Enqueue(x)
  /\ helper' = [helper EXCEPT ![cur] = c]
  /\ at' = [at EXCEPT ![cur] = "wait_for", ![c] = "timer_start"]
  /\ on' = [on EXCEPT ![cur] = x, ![c] = x]
  /\ mode' = "poll" /\ thrown' = FALSE
  /\ UNCHANGED <<io, sync, cur, main, stopper, told>>

\* Mutant: the tasks that wait for this one are not scheduled.
finish_NoWake(t, result) ==
  /\ data' = [data EXCEPT ![t] = result]
  /\ coro' = [coro EXCEPT ![t] = "done"]
  /\ UNCHANGED <<runq, delay, waiting>>

\* The loop stores the result and schedules the tasks that wait for it.
finish(t, result) ==
  /\ data' = [Undata(waiting[t]) EXCEPT ![t] = result]
  /\ coro' = [coro EXCEPT ![t] = "done"]
  /\ runq' = push_head(runq, waiting[t]) /\ delay' = Due(waiting[t])
  /\ waiting' = [waiting EXCEPT ![t] = <<>>]

\* The coroutine ends, with the CancelledError on its way or with a result.
\* Locks are used with "async with", so it holds none.
Finish(result) ==
  /\ mode = "task" /\ \A l \in Locks : cur \notin holder[l]
  /\ result = CancelledError => thrown
  /\ thrown' = FALSE
  /\ IF data[cur] # None \/ cur = main   \* the first is "assert t.data is None"
     THEN /\ mode' = "stopped"
          /\ coro' = [coro EXCEPT ![cur] = "returned"]
          /\ UNCHANGED <<runq, delay, waiting, data>>
     ELSE finish(cur, result) /\ mode' = "poll"
  /\ UNCHANGED <<io, at, on, helper, sync, cur, main, stopper, told>>
-----------------------------------------------------------------------------
(***************************************************************************)
(* The loop                                                                *)
(***************************************************************************)
\* Mutant: the entry goes with every event, whether or not it woke its tasks.
wait_io_event_Dequeue(s, ev) ==
  LET woken == SelectSeq([i \in 1 .. 2 |-> IF i \in ev THEN io[s][i] ELSE None],
                         LAMBDA t : t # None)
  IN /\ mode = "poll" /\ ev # {}
     /\ runq' = push_head(runq, woken) /\ delay' = Due(woken)
     /\ data' = Undata(woken)
     /\ io' = [io EXCEPT ![s] = <<None, None>>]
     /\ UNCHANGED <<waiting, coro, at, on, helper, sync, loop, told>>

\* One event of wait_io_event: the tasks waiting for it are scheduled, and the
\* entry goes when no task is left in it.
wait_io_event(s, ev) ==
  LET woken == SelectSeq([i \in 1 .. 2 |-> IF i \in ev THEN io[s][i] ELSE None],
                         LAMBDA t : t # None)
  IN /\ mode = "poll" /\ woken # <<>>
     /\ runq' = push_head(runq, woken) /\ delay' = Due(woken)
     /\ data' = Undata(woken)
     /\ io' = [io EXCEPT ![s] = [i \in 1 .. 2 |-> IF i \in ev THEN None ELSE @[i]]]
     /\ UNCHANGED <<waiting, coro, at, on, helper, sync, loop, told>>

\* The poll returns and the head of the run queue is due.
HeadDue ==
  /\ mode = "poll" /\ runq # <<>> /\ delay[Head(runq)] = 0
  /\ mode' = "run"
  /\ UNCHANGED <<queues, tasks, sync, cur, thrown, main, stopper, told>>

\* No task can be woken: run_until_complete returns.
NothingLeft ==
  /\ mode = "poll" /\ runq = <<>> /\ \A s \in Streams : io[s] = <<None, None>>
  /\ mode' = "stopped"
  /\ UNCHANGED <<queues, tasks, sync, cur, thrown, main, stopper, told>>

\* Time passes: max(0, ticks_diff(ph_key, ticks())) of every task.
Tick ==
  /\ \E t \in Tasks : delay[t] > 0
  /\ delay' = [t \in Tasks |-> IF delay[t] > 0 THEN delay[t] - 1 ELSE 0]
  /\ UNCHANGED <<runq, waiting, io, tasks, sync, loop, told>>

\* pop_head: the task t is resumed with what a cancel left in its data.
Popped(t) == mode = "run" /\ t = Head(runq)
Exc(t) == data[t] # None
Delivered(t) == told' = IF Exc(t) THEN told \ {t} ELSE told

\* Control is in the code of t, where a CancelledError is raised or not.
Resumed(t, cancelled) ==
  /\ mode' = "task" /\ cur' = t /\ thrown' = cancelled
  /\ Delivered(t)
  /\ UNCHANGED <<main, stopper>>

ResumeUser(t) ==
  /\ Popped(t) /\ at[t] \in {"start", "sleep", "event", "io", "stopper"}
  /\ runq' = Tail(runq) /\ data' = [data EXCEPT ![t] = None]
  /\ Resumed(t, Exc(t))
  /\ UNCHANGED <<delay, waiting, io, coro, at, on, helper, sync>>

\* Lock.acquire continues.  A task that is cancelled after the lock was passed
\* to it passes it on.
ResumeLock(t) ==
  LET l == on[t] IN
  /\ Popped(t) /\ at[t] = "lock"
  /\ IF ~Exc(t)
     THEN /\ lock' = [lock EXCEPT ![l] = 1]
          /\ holder' = [holder EXCEPT ![l] = @ \cup {t}]
          /\ runq' = Tail(runq) /\ UNCHANGED <<waiting, delay, data>>
     ELSE /\ IF lock[l] = t THEN release(l, Tail(runq), [data EXCEPT ![t] = None])
             ELSE /\ runq' = Tail(runq) /\ data' = [data EXCEPT ![t] = None]
                  /\ UNCHANGED <<waiting, delay, lock>>
          /\ UNCHANGED holder
  /\ Resumed(t, Exc(t))
  /\ UNCHANGED <<io, coro, at, on, helper, event>>

\* Task.__next__ of the awaited task: once more into its queue, if it is not
\* done.
AwaitAgain(t, x) ==
  /\ waiting' = [waiting EXCEPT ![x] = Append(@, t)]
  /\ runq' = Tail(runq) /\ data' = [data EXCEPT ![t] = x]
  /\ mode' = "poll" /\ cur' = t
  /\ UNCHANGED <<coro, helper, thrown, main, stopper, told>>

ResumeAwait(t) ==
  LET x == on[t] IN
  /\ Popped(t) /\ at[t] = "task"
  /\ IF Exc(t) \/ Finished(x)
     THEN /\ runq' = Tail(runq) /\ data' = [data EXCEPT ![t] = None]
          /\ Resumed(t, Exc(t) \/ data[x] = CancelledError)
          /\ UNCHANGED <<waiting, coro, helper>>
     ELSE AwaitAgain(t, x)
  /\ UNCHANGED <<delay, io, at, on, sync>>

\* wait_for continues: a CancelledError from the await is swallowed, a timer
\* that is still active is dropped, and one that ended means TimeoutError.
ResumeWaitFor(t) ==
  LET x == on[t]
      c == helper[t]
  IN /\ Popped(t) /\ at[t] = "wait_for"
     /\ IF Exc(t) \/ Finished(x)
        THEN /\ runq' = IF Finished(c) THEN Tail(runq) ELSE Remove(Tail(runq), c)
             /\ coro' = IF Finished(c) THEN coro ELSE [coro EXCEPT ![c] = "dropped"]
             /\ data' = [data EXCEPT ![t] = None]
             /\ helper' = [helper EXCEPT ![t] = None]
             /\ Resumed(t, FALSE)
             /\ UNCHANGED waiting
        ELSE AwaitAgain(t, x)
     /\ UNCHANGED <<delay, io, at, on, sync>>

\* The timer of a wait_for sleeps, then cancels the task waited for and ends.
ResumeTimer(c) ==
  LET x == on[c] IN
  /\ Popped(c) /\ cur' = c /\ mode' = "poll"
  /\ \/ /\ at[c] = "timer_start"
        /\ at' = [at EXCEPT ![c] = "timer_sleep"]
        /\ \E d \in 0 .. MaxSleep :
             /\ runq' = push_sorted(Tail(runq), c, d)
             /\ delay' = [delay EXCEPT ![c] = d]
        /\ UNCHANGED <<waiting, io, coro, data, told>>
     \/ /\ at[c] = "timer_sleep"
        /\ IF Finished(x)
           THEN /\ runq' = Tail(runq) /\ data' = [data EXCEPT ![c] = StopIteration]
                /\ UNCHANGED <<delay, waiting, io, told>>
           ELSE /\ unqueue(Target(x), Tail(runq))
                /\ data' = [data EXCEPT ![Target(x)] = CancelledError, ![c] = StopIteration]
                /\ told' = told \cup {Target(x)}
        /\ coro' = [coro EXCEPT ![c] = "done"]
        /\ UNCHANGED at
  /\ UNCHANGED <<on, helper, sync, thrown, main, stopper>>
-----------------------------------------------------------------------------
\* Calls that return to the code that makes them.
Call ==
  \/ \E t \in Tasks : create_task(t) \/ cancel(t)
  \/ \E e \in Events : EventSet(e) \/ EventClear(e)
  \/ \E l \in Locks : LockRelease(l) \/ AcquireFree(l)
  \/ stop

\* What ends a turn of a task.
Yield ==
  \/ \E d \in 0 .. MaxSleep : Sleep(d)
  \/ \E x \in Tasks : Await(x)
  \/ \E x, c \in Tasks : WaitFor(x, c)
  \/ \E e \in Events : EventWait(e)
  \/ \E l \in Locks : LockAcquire(l)
  \/ \E s \in Streams, i \in 1 .. 2 : queue_io(s, i)
  \/ \E result \in {StopIteration, CancelledError} : Finish(result)

Resume ==
  \E t \in Tasks : \/ ResumeUser(t) \/ ResumeLock(t) \/ ResumeAwait(t)
                   \/ ResumeWaitFor(t) \/ ResumeTimer(t)

Loop == HeadDue \/ NothingLeft \/ Resume

Next ==
  \/ \E t \in Tasks : run(t) \/ run_until_complete(t) \/ run_forever(t)
  \/ \E s \in Streams, ev \in SUBSET (1 .. 2) : wait_io_event(s, ev)
  \/ Call \/ Yield \/ Loop \/ Tick

Spec == Init /\ [][Next]_vars

\* The loop runs, tasks come back to it and time passes.
FairSpec == Spec /\ WF_vars(Loop) /\ WF_vars(Yield) /\ WF_vars(Tick)
-----------------------------------------------------------------------------
(***************************************************************************)
(* Properties                                                              *)
(***************************************************************************)
TypeOK ==
  /\ runq \in Seq(Tasks) /\ delay \in [Tasks -> 0 .. MaxSleep]
  /\ waiting \in [Waitables -> Seq(Tasks)]
  /\ \A s \in Streams : io[s] \in Seq(Tasks \cup {None}) /\ Len(io[s]) = 2
  /\ coro \in [Tasks -> Coros]
  /\ data \in [Tasks -> Waitables \cup {None, IOQueue, CancelledError, StopIteration}]
  /\ at \in [Tasks -> {"start", "sleep", "task", "event", "lock", "io", "wait_for",
                      "stopper", "timer_start", "timer_sleep"}]
  /\ on \in [Tasks -> Waitables \cup {None}] /\ helper \in [Tasks -> Tasks \cup {None}]
  /\ event \in [Events -> BOOLEAN]
  /\ lock \in [Locks -> {0, 1} \cup Tasks] /\ holder \in [Locks -> SUBSET Tasks]
  /\ mode \in {"stopped", "poll", "run", "task"}
  /\ {cur, main, stopper} \subseteq Tasks \cup {None}
  /\ told \subseteq Tasks
  /\ thrown \in BOOLEAN

\* The queues a task is in.
Where(t) ==
  {q \in Waitables : t \in ToSet(waiting[q])}
  \cup {q \in {"run"} : t \in ToSet(runq)}
  \cup {q \in {IOQueue} : \E s \in Streams : t \in ToSet(io[s])}

\* A task that has not ended and does not run is in exactly one queue, once,
\* and its data tells which: no wake-up, cancel, timeout or end of another
\* task loses it or schedules it twice.
OneQueue ==
  /\ IsInjective(runq) /\ \A q \in Waitables : IsInjective(waiting[q])
  /\ \A t \in Tasks :
       Where(t) = IF coro[t] # "live" \/ t = stopper \/ (mode = "task" /\ t = cur) THEN {}
                  ELSE IF data[t] \in Waitables \cup {IOQueue} THEN {data[t]}
                  ELSE {"run"}

\* At most one task is between acquire and release; a lock is locked when one
\* is; and one that is passed on is passed to a task about to run.
LockExclusive ==
  \A l \in Locks :
    /\ Cardinality(holder[l]) = IF lock[l] = 1 THEN 1 ELSE 0
    /\ lock[l] \in Tasks => on[lock[l]] = l /\ lock[l] \in ToSet(runq)
    /\ waiting[l] # <<>> => lock[l] # 0

\* A task waits for an event, or for another task, only while it is not set, or
\* not done.
NoMissedWakeup ==
  /\ \A e \in Events : event[e] => waiting[e] = <<>>
  /\ \A t \in Tasks : Finished(t) => waiting[t] = <<>>

\* A cancel that was accepted stays with the task until it is resumed.
CancelKept == \A t \in told : coro[t] = "live" => data[t] = CancelledError

\* A task that is scheduled runs, whatever the other tasks do: pushes go behind
\* it, so that tasks that never sleep cannot keep the loop for themselves.
ScheduledRuns == \A t \in Tasks : t \in ToSet(runq) ~> (t \notin ToSet(runq) \/ Stopped)

\* IOQueue.map has an entry for every task that waits for a stream (core.py, the
\* comment on map).
IoWaitersMapped ==
  \A t \in Tasks : coro[t] = "live" /\ data[t] = IOQueue
                   => \E s \in Streams : t \in ToSet(io[s])
=============================================================================
