----------------------------- MODULE Scheduler -----------------------------
(***************************************************************************)
(* The callback scheduler of the runtime (py/scheduler.c) on a single CPU, *)
(* where MICROPY_BEGIN_ATOMIC_SECTION disables interrupts.  An interrupt   *)
(* handler may then run between any two atomic sections and never inside   *)
(* one, so every atomic section is one action.                             *)
(*                                                                         *)
(* "regions" is the stack of the contexts that hold the scheduler lock,    *)
(* innermost last: a hard IRQ handler (lib/utils/mpirq.c), a finaliser run *)
(* by gc_sweep, or the tail of mp_handle_pending, which holds the lock     *)
(* while it runs the callback it took from the queue ("none" when the      *)
(* queue was empty).  Ordinary bytecode runs when the stack is empty.      *)
(***************************************************************************)
EXTENDS Integers, Sequences

CONSTANTS Depth,      \* MICROPY_SCHEDULER_DEPTH
          Callbacks,  \* the (function, argument) pairs that are scheduled
          MaxNest,    \* bound on the nesting of locked regions
          MaxKbd      \* bound on the number of keyboard interrupts

ASSUME DepthAssumption == Depth \in Nat \ {0}
ASSUME BoundsAssumption == MaxNest \in Nat /\ MaxKbd \in Nat
ASSUME CallbacksAssumption == "none" \notin Callbacks

VARIABLES sched_state,           \* IDLE, PENDING, or minus the lock depth
          sched_queue,           \* circular buffer
          sched_idx,             \* index of the oldest item
          sched_len,             \* number of items
          mp_pending_exception,  \* TRUE when it is not MP_OBJ_NULL
          regions,               \* contexts holding the lock
          nkbd                   \* keyboard interrupts so far

vars == <<sched_state, sched_queue, sched_idx, sched_len,
          mp_pending_exception, regions, nkbd>>

MP_SCHED_IDLE == 1
MP_SCHED_PENDING == 0
MP_SCHED_LOCKED == -1

\* Mutant: the index is reset, not reduced, when it leaves the buffer.
IDX_MASK_Reset(i) == IF i < Depth THEN i ELSE 0

\* The depth is a power of two, so the mask of the code is a remainder.
IDX_MASK(i) == i % Depth

\* Mutant: the queue is thought to have one slot more than it has.
mp_sched_full_OneMore == sched_len = Depth + 1

mp_sched_full == sched_len = Depth

Running(f) == [kind |-> "callback", func |-> f]
HardIrq == [kind |-> "irq", func |-> "none"]
Finaliser == [kind |-> "finaliser", func |-> "none"]

Region == {Running(f) : f \in Callbacks \cup {"none"}} \cup {HardIrq, Finaliser}
-----------------------------------------------------------------------------
Init ==
  /\ sched_state = MP_SCHED_IDLE
  /\ sched_queue = [i \in 0 .. Depth - 1 |-> "none"]
  /\ sched_idx = 0
  /\ sched_len = 0
  /\ mp_pending_exception = FALSE
  /\ regions = <<>>
  /\ nkbd = 0

\* Mutants: unlocking ignores the queue, or the exception, or the lock depth.
Unlocked_NoQueue(state) ==
  IF state + 1 # 0 THEN state + 1
  ELSE IF mp_pending_exception THEN MP_SCHED_PENDING ELSE MP_SCHED_IDLE
Unlocked_NoException(state) ==
  IF state + 1 # 0 THEN state + 1
  ELSE IF sched_len # 0 THEN MP_SCHED_PENDING ELSE MP_SCHED_IDLE
Unlocked_NoDepth(state) ==
  IF mp_pending_exception \/ sched_len # 0 THEN MP_SCHED_PENDING
  ELSE MP_SCHED_IDLE

\* The value mp_sched_unlock leaves in sched_state.
Unlocked(state) ==
  IF state + 1 # 0 THEN state + 1
  ELSE IF mp_pending_exception \/ sched_len # 0 THEN MP_SCHED_PENDING
  ELSE MP_SCHED_IDLE

\* Mutant: a nested lock is not counted.
Locked_NotCounted(state) == MP_SCHED_LOCKED

\* The value mp_sched_lock leaves in sched_state.
Locked(state) == IF state < 0 THEN state - 1 ELSE MP_SCHED_LOCKED

(***************************************************************************)
(* mp_sched_schedule, called by bytecode, by a callback or by an interrupt *)
(* handler.  When the queue is full it returns false and changes nothing.  *)
(***************************************************************************)
Schedule(f) ==
  /\ ~mp_sched_full
  /\ sched_state' = IF sched_state = MP_SCHED_IDLE THEN MP_SCHED_PENDING
                    ELSE sched_state
  /\ sched_queue' = [sched_queue EXCEPT ![IDX_MASK(sched_idx + sched_len)] = f]
  /\ sched_len' = sched_len + 1
  /\ UNCHANGED <<sched_idx, mp_pending_exception, regions, nkbd>>

\* mp_keyboard_interrupt, from an interrupt handler.
KeyboardInterrupt ==
  /\ nkbd < MaxKbd
  /\ nkbd' = nkbd + 1
  /\ mp_pending_exception' = TRUE
  /\ sched_state' = IF sched_state = MP_SCHED_IDLE THEN MP_SCHED_PENDING
                    ELSE sched_state
  /\ UNCHANGED <<sched_queue, sched_idx, sched_len, regions>>

\* mp_sched_lock, on entry to a hard IRQ handler or before a finaliser.
LockRegion(r) ==
  /\ Len(regions) < MaxNest
  /\ sched_state' = Locked(sched_state)
  /\ regions' = Append(regions, r)
  /\ UNCHANGED <<sched_queue, sched_idx, sched_len, mp_pending_exception, nkbd>>

\* mp_sched_unlock, by the innermost region when its code has returned.
UnlockRegion ==
  /\ regions # <<>>
  /\ sched_state' = Unlocked(sched_state)
  /\ regions' = SubSeq(regions, 1, Len(regions) - 1)
  /\ UNCHANGED <<sched_queue, sched_idx, sched_len, mp_pending_exception, nkbd>>

\* Mutant: clearing the exception makes the scheduler idle, queue or no queue.
StateWithoutException_Idle == MP_SCHED_IDLE

\* sched_state once the pending exception is cleared.
StateWithoutException ==
  IF sched_len = 0 THEN MP_SCHED_IDLE ELSE sched_state

(***************************************************************************)
(* mp_handle_pending(true), and the variant inlined in the VM, when an     *)
(* exception is pending: it is cleared and raised.                         *)
(***************************************************************************)
HandlePendingRaise ==
  /\ sched_state = MP_SCHED_PENDING
  /\ mp_pending_exception
  /\ mp_pending_exception' = FALSE
  /\ sched_state' = StateWithoutException
  /\ UNCHANGED <<sched_queue, sched_idx, sched_len, regions, nkbd>>

(***************************************************************************)
(* mp_handle_pending when it raises nothing: no exception is pending, or   *)
(* it was called with raise_exc = false and drops the exception.  The tail *)
(* takes the lock and the oldest callback, if any; UnlockRegion ends it.   *)
(***************************************************************************)
HandlePendingTail(raise_exc) ==
  /\ sched_state = MP_SCHED_PENDING
  /\ raise_exc => ~mp_pending_exception
  /\ mp_pending_exception' = FALSE
  /\ sched_state' = MP_SCHED_LOCKED
  /\ \/ /\ sched_len # 0
        /\ sched_idx' = IDX_MASK(sched_idx + 1)
        /\ sched_len' = sched_len - 1
        /\ regions' = Append(regions, Running(sched_queue[sched_idx]))
     \/ /\ sched_len = 0
        /\ regions' = Append(regions, Running("none"))
        /\ UNCHANGED <<sched_idx, sched_len>>
  /\ UNCHANGED <<sched_queue, nkbd>>

(***************************************************************************)
(* Code that takes the pending exception without looking at sched_state: a *)
(* write interrupted by a signal, or a trace callback that has returned.   *)
(***************************************************************************)
TakePendingException ==
  /\ mp_pending_exception
  /\ mp_pending_exception' = FALSE
  /\ UNCHANGED <<sched_state, sched_queue, sched_idx, sched_len, regions, nkbd>>

Next ==
  \/ \E f \in Callbacks : Schedule(f)
  \/ KeyboardInterrupt
  \/ \E r \in {HardIrq, Finaliser} : LockRegion(r)
  \/ UnlockRegion
  \/ HandlePendingRaise
  \/ \E raise_exc \in BOOLEAN : HandlePendingTail(raise_exc)
  \/ TakePendingException

Spec == Init /\ [][Next]_vars

(***************************************************************************)
(* The VM keeps executing opcodes, so it keeps reaching its pending check  *)
(* (which raises), and the code of every locked region returns.            *)
(***************************************************************************)
Fairness ==
  /\ WF_vars(HandlePendingRaise)
  /\ WF_vars(HandlePendingTail(TRUE))
  /\ WF_vars(UnlockRegion)

FairSpec == Spec /\ Fairness
-----------------------------------------------------------------------------
\* The waiting callbacks, oldest first.
Waiting == [i \in 1 .. sched_len |-> sched_queue[IDX_MASK(sched_idx + i - 1)]]

\* The callback being executed: the tail of mp_handle_pending is outermost.
Active == IF regions # <<>> THEN regions[1].func ELSE "none"

\* A region other than the execution of a callback is innermost.
InCritical ==
  regions # <<>> /\ regions[Len(regions)] \notin {Running(f) : f \in Callbacks}

\* Every variable holds a value of its C type, and every context on the stack
\* is one that mp_sched_lock or mp_handle_pending_tail puts there.
TypeOK ==
  /\ sched_state \in Int
  /\ sched_queue \in [0 .. Depth - 1 -> Callbacks \cup {"none"}]
  /\ sched_idx \in 0 .. Depth - 1
  /\ sched_len \in 0 .. Depth
  /\ mp_pending_exception \in BOOLEAN
  /\ regions \in Seq(Region)
  /\ nkbd \in 0 .. MaxKbd

\* sched_state counts the contexts that hold the lock, so the assertion of
\* mp_sched_unlock holds and the last unlock, and no earlier one, ends the
\* critical region.
LockDepth ==
  IF regions = <<>> THEN sched_state \in {MP_SCHED_IDLE, MP_SCHED_PENDING}
  ELSE sched_state = -Len(regions)

\* Work that arrives at any moment, also inside a locked region or while a
\* callback runs, leaves the unlocked scheduler in the state PENDING that the
\* VM polls: no wake-up is lost.
NoLostWakeup ==
  /\ regions = <<>>
  /\ mp_pending_exception \/ sched_len # 0
  => sched_state = MP_SCHED_PENDING

\* A scheduled function never preempts another one and never starts inside a
\* critical region: the tail of mp_handle_pending is only ever outermost.
NoPreemption ==
  \A i \in 2 .. Len(regions) : regions[i].kind # "callback"

\* The circular queue, the lock and the tail of mp_handle_pending implement
\* the bounded first-in-first-out queue of the documentation.
Abs == INSTANCE CallbackQueue WITH
         Capacity <- Depth, waiting <- Waiting, active <- Active,
         critical <- InCritical
ImplementsCallbackQueue == Abs!AbsSpec

\* Interrupts eventually stop arriving.
Quiet ==
  <>[][~KeyboardInterrupt /\ \A r \in {HardIrq, Finaliser} : ~LockRegion(r)]_vars

\* An accepted callback is eventually executed, whatever arrived meanwhile and
\* however often the queue was full, once interrupts no longer keep the CPU
\* from running the bytecode that polls.
CallbackRuns ==
  Quiet => \A f \in Callbacks :
    (\E i \in 1 .. sched_len : Waiting[i] = f) ~> (Active = f)

\* A keyboard interrupt, at whatever moment it arrives, is eventually taken.
InterruptTaken == Quiet => (mp_pending_exception ~> ~mp_pending_exception)
=============================================================================
