-------------------------- MODULE SchedulerProofs --------------------------
(***************************************************************************)
(* Proofs about Scheduler for every queue depth, set of callbacks and      *)
(* bound.  The safety invariants support each other: LockDepth tells       *)
(* that a PENDING scheduler has no locked region, which NoPreemption and   *)
(* NoLostWakeup need, so they are proved as one inductive invariant.       *)
(***************************************************************************)
EXTENDS Scheduler, SequenceTheorems, TLAPS

\* Every waiting slot between sched_idx and sched_idx + sched_len holds a
\* callback that was scheduled and not yet taken.
QueueFilled ==
  \A i \in 0 .. sched_len - 1 : sched_queue[IDX_MASK(sched_idx + i)] \in Callbacks

\* The inductive invariant.
IInv == TypeOK /\ LockDepth /\ NoLostWakeup /\ NoPreemption /\ QueueFilled

\* What Euclidean division determines: quotient 0 below the divisor.
LEMMA QuotientZero ==
  ASSUME NEW d \in Nat \ {0}, NEW q \in Int, NEW r \in 0 .. d - 1,
         d * q + r \in 0 .. d - 1
  PROVE  q = 0
<1>1. CASE q >= 1
  <2>1. d * q >= d
    BY <1>1
  <2>2. QED
    BY <2>1
<1>2. CASE q <= -1
  <2>1. d * q <= -d
    BY <1>2
  <2>2. QED
    BY <2>1
<1>3. QED
  BY <1>1, <1>2

\* The sums of indices the scheduler masks stay below two turns, and there
\* IDX_MASK is a conditional subtraction.
LEMMA IdxMask ==
  ASSUME NEW x \in Nat, x < 2 * Depth
  PROVE  IDX_MASK(x) = IF x < Depth THEN x ELSE x - Depth
<1>1. PICK q \in Int, r \in 0 .. Depth - 1 :
        x = Depth * q + r /\ r = x % Depth
  BY DepthAssumption
<1>2. CASE x < Depth
  <2>1. q = 0
    BY <1>1, <1>2, DepthAssumption, QuotientZero
  <2>2. QED
    BY <1>1, <1>2, <2>1, DepthAssumption DEF IDX_MASK
<1>3. CASE x >= Depth
  <2>1. Depth * (q - 1) + r = x - Depth
    BY <1>1, DepthAssumption
  <2>2. q - 1 = 0
    BY <1>1, <1>3, <2>1, DepthAssumption, QuotientZero
  <2>3. QED
    BY <1>1, <1>3, <2>2, DepthAssumption DEF IDX_MASK
<1>4. QED
  BY <1>2, <1>3, DepthAssumption

\* The index of the k-th item from the oldest is an index of the queue.
LEMMA IdxMaskRange ==
  ASSUME NEW a \in 0 .. Depth - 1, NEW k \in 0 .. Depth
  PROVE  IDX_MASK(a + k) \in 0 .. Depth - 1
<1>1. a + k \in Nat /\ a + k < 2 * Depth
  BY DepthAssumption
<1>2. QED
  BY <1>1, IdxMask, DepthAssumption

\* Taking the oldest item makes the next one the oldest.
LEMMA IdxMaskShift ==
  ASSUME NEW a \in 0 .. Depth - 1, NEW k \in 0 .. Depth - 1
  PROVE  IDX_MASK(IDX_MASK(a + 1) + k) = IDX_MASK(a + (k + 1))
<1> DEFINE b == IDX_MASK(a + 1)
<1>1. b = IF a + 1 < Depth THEN a + 1 ELSE a + 1 - Depth
  BY IdxMask, DepthAssumption
<1>2. b \in 0 .. Depth - 1
  BY <1>1, DepthAssumption
<1> HIDE DEF b
<1>3. PICK x \in Nat : x = b + k /\ x < 2 * Depth
  BY <1>2, DepthAssumption
<1>4. PICK y \in Nat : y = a + (k + 1) /\ y < 2 * Depth
  BY DepthAssumption
<1>5. /\ IDX_MASK(x) = IF x < Depth THEN x ELSE x - Depth
      /\ IDX_MASK(y) = IF y < Depth THEN y ELSE y - Depth
  BY <1>3, <1>4, IdxMask
<1>6. IDX_MASK(x) = IDX_MASK(y)
  BY <1>1, <1>3, <1>4, <1>5, DepthAssumption
<1>7. IDX_MASK(b + k) = IDX_MASK(a + (k + 1))
  BY <1>3, <1>4, <1>6, Zenon
<1>8. QED
  BY <1>7 DEF b

\* What is left of a stack when its top is removed.
LEMMA PopProperties ==
  ASSUME NEW S, NEW s \in Seq(S), s # <<>>, NEW t,
         t = SubSeq(s, 1, Len(s) - 1)
  PROVE  /\ t \in Seq(S)
         /\ Len(t) = Len(s) - 1
         /\ \A i \in 1 .. Len(s) - 1 : t[i] = s[i]
<1>1. PICK n \in Nat : n = Len(s) - 1
  OBVIOUS
<1>2. t = SubSeq(s, 1, n)
  BY <1>1
<1>3. \A i \in 1 .. n : s[i] \in S
  BY <1>1
<1>4. 1 \in Int /\ n \in Int
  OBVIOUS
<1>5. /\ t \in Seq(S)
      /\ Len(t) = IF 1 <= n THEN n - 1 + 1 ELSE 0
      /\ \A i \in 1 .. n - 1 + 1 : t[i] = s[1 + i - 1]
  BY <1>2, <1>3, <1>4, SubSeqProperties
<1>6. n - 1 + 1 = n /\ \A i \in 1 .. n : 1 + i - 1 = i
  OBVIOUS
<1>7. (IF 1 <= n THEN n - 1 + 1 ELSE 0) = n
  OBVIOUS
<1>8. \A i \in 1 .. n : t[i] = s[i]
  BY <1>5, <1>6, Zenon
<1>9. QED
  BY <1>1, <1>5, <1>7, <1>8, Zenon

\* mp_init establishes the invariant.
LEMMA InitIInv == Init => IInv
<1> SUFFICES ASSUME Init PROVE IInv
  OBVIOUS
<1>1. TypeOK
  <2>1. regions \in Seq(Region)
    BY DEF Init
  <2>2. /\ sched_state \in Int
        /\ sched_idx \in 0 .. Depth - 1
        /\ sched_len \in 0 .. Depth
        /\ nkbd \in 0 .. MaxKbd
    BY DepthAssumption, BoundsAssumption DEF Init, MP_SCHED_IDLE
  <2>3. sched_queue \in [0 .. Depth - 1 -> Callbacks \cup {"none"}]
    BY DEF Init
  <2>4. mp_pending_exception \in BOOLEAN
    BY Zenon DEF Init
  <2>5. QED
    BY <2>1, <2>2, <2>3, <2>4 DEF TypeOK
<1>2. LockDepth
  BY DEF Init, LockDepth
<1>3. NoLostWakeup
  BY DEF Init, NoLostWakeup
<1>4. NoPreemption
  BY DEF Init, NoPreemption
<1>5. QueueFilled
  BY DEF Init, QueueFilled
<1>6. QED
  BY <1>1, <1>2, <1>3, <1>4, <1>5 DEF IInv

\* One step per action: what each operation of the scheduler preserves.
LEMMA ScheduleIInv ==
  ASSUME IInv, NEW f \in Callbacks, Schedule(f)
  PROVE  IInv'
<1> USE DEF IInv, Schedule, mp_sched_full
<1>1. IDX_MASK(sched_idx + sched_len) \in 0 .. Depth - 1
  BY IdxMask, DepthAssumption DEF TypeOK
<1>2. TypeOK'
  <2>1. sched_queue' \in [0 .. Depth - 1 -> Callbacks \cup {"none"}]
    BY <1>1 DEF TypeOK
  <2>2. sched_state' \in Int
    BY DEF TypeOK, MP_SCHED_PENDING
  <2>3. sched_len' \in 0 .. Depth
    BY DepthAssumption DEF TypeOK
  <2>4. QED
    BY <2>1, <2>2, <2>3 DEF TypeOK
<1>3. LockDepth'
  BY DEF LockDepth, TypeOK, MP_SCHED_IDLE, MP_SCHED_PENDING
<1>4. NoLostWakeup'
  BY DEF LockDepth, NoLostWakeup
<1>5. NoPreemption'
  BY DEF NoPreemption
<1>6. QueueFilled'
  <2> SUFFICES ASSUME NEW i \in 0 .. sched_len' - 1
               PROVE  sched_queue'[IDX_MASK(sched_idx' + i)] \in Callbacks
    BY DEF QueueFilled
  <2>1. i \in 0 .. sched_len /\ sched_idx' = sched_idx
    BY DEF TypeOK
  <2>2. CASE i = sched_len
    BY <1>1, <2>1, <2>2 DEF TypeOK
  <2>3. CASE i < sched_len
    <3>1. IDX_MASK(sched_idx + i) \in 0 .. Depth - 1
      <4>1. i \in 0 .. Depth
        BY <2>3, DepthAssumption DEF TypeOK
      <4>2. QED
        BY <4>1, IdxMaskRange DEF TypeOK
    <3>2. i \in 0 .. sched_len - 1
      BY <2>3 DEF TypeOK
    <3>3. sched_queue[IDX_MASK(sched_idx + i)] \in Callbacks
      BY <3>2 DEF QueueFilled
    <3>4. QED
      BY <1>1, <2>1, <3>1, <3>3 DEF TypeOK
  <2>4. QED
    BY <2>1, <2>2, <2>3 DEF TypeOK
<1>7. QED
  BY <1>2, <1>3, <1>4, <1>5, <1>6

\* mp_keyboard_interrupt keeps the invariant.
LEMMA KeyboardInterruptIInv == IInv /\ KeyboardInterrupt => IInv'
<1> SUFFICES ASSUME IInv, KeyboardInterrupt PROVE IInv'
  OBVIOUS
<1> USE DEF IInv, KeyboardInterrupt
<1>1. TypeOK'
  <2>1. sched_state' \in Int /\ nkbd' \in 0 .. MaxKbd
    BY BoundsAssumption DEF TypeOK, MP_SCHED_PENDING
  <2>2. mp_pending_exception' \in BOOLEAN
    OBVIOUS
  <2>3. QED
    BY <2>1, <2>2 DEF TypeOK
<1>2. LockDepth'
  BY DEF LockDepth, TypeOK, MP_SCHED_IDLE, MP_SCHED_PENDING
<1>3. NoLostWakeup'
  BY DEF LockDepth, NoLostWakeup
<1>4. NoPreemption' /\ QueueFilled'
  BY DEF NoPreemption, QueueFilled
<1>5. QED
  BY <1>1, <1>2, <1>3, <1>4

\* mp_sched_lock keeps the invariant.
LEMMA LockRegionIInv ==
  ASSUME IInv, NEW r \in {HardIrq, Finaliser}, LockRegion(r)
  PROVE  IInv'
<1> USE DEF IInv, LockRegion
<1>1. r \in Region /\ r.kind # "callback"
  BY DEF Region, HardIrq, Finaliser
<1>2. /\ regions' = Append(regions, r)
      /\ regions' \in Seq(Region)
      /\ Len(regions') = Len(regions) + 1
      /\ regions' # <<>>
      /\ \A i \in 1 .. Len(regions) : regions'[i] = regions[i]
      /\ regions'[Len(regions) + 1] = r
  BY <1>1 DEF TypeOK
<1>3. sched_state' = -Len(regions')
  BY <1>2 DEF LockDepth, TypeOK, Locked, MP_SCHED_IDLE, MP_SCHED_PENDING,
     MP_SCHED_LOCKED
<1>4. TypeOK'
  <2>1. sched_state' \in Int
    BY <1>2, <1>3
  <2>2. QED
    BY <1>2, <2>1 DEF TypeOK
<1>5. LockDepth' /\ NoLostWakeup'
  BY <1>2, <1>3 DEF LockDepth, NoLostWakeup
<1>6. NoPreemption'
  BY <1>1, <1>2 DEF NoPreemption, TypeOK
<1>7. QueueFilled'
  BY DEF QueueFilled
<1>8. QED
  BY <1>4, <1>5, <1>6, <1>7

\* mp_sched_unlock keeps the invariant.
LEMMA UnlockRegionIInv == IInv /\ UnlockRegion => IInv'
<1> SUFFICES ASSUME IInv, UnlockRegion PROVE IInv'
  OBVIOUS
<1> USE DEF IInv
<1>0. /\ sched_state' = Unlocked(sched_state)
      /\ UNCHANGED <<sched_queue, sched_idx, sched_len, mp_pending_exception, nkbd>>
  BY DEF UnlockRegion
<1>1. /\ Len(regions) \in Nat \ {0}
      /\ sched_state = -Len(regions)
  BY DEF TypeOK, LockDepth, UnlockRegion
<1>2. /\ regions' \in Seq(Region)
      /\ Len(regions') = Len(regions) - 1
      /\ \A i \in 1 .. Len(regions) - 1 : regions'[i] = regions[i]
  <2>1. regions \in Seq(Region) /\ regions # <<>>
        /\ regions' = SubSeq(regions, 1, Len(regions) - 1)
    BY DEF TypeOK, UnlockRegion
  <2> HIDE DEF IInv
  <2> QED
    BY <2>1, PopProperties, Zenon
<1>3. CASE Len(regions) = 1
  <2>1. regions' = <<>>
    BY <1>2, <1>3
  <2>2. sched_state' = IF mp_pending_exception \/ sched_len # 0
                       THEN MP_SCHED_PENDING ELSE MP_SCHED_IDLE
    BY <1>0, <1>1, <1>3 DEF Unlocked
  <2>3. LockDepth' /\ NoLostWakeup' /\ sched_state' \in Int
    BY <1>0, <2>1, <2>2 DEF LockDepth, NoLostWakeup, MP_SCHED_PENDING, MP_SCHED_IDLE
  <2>4. QED
    BY <1>0, <1>1, <1>2, <2>3 DEF TypeOK, NoPreemption, QueueFilled
<1>4. CASE Len(regions) # 1
  <2>1. regions' # <<>>
    BY <1>1, <1>2, <1>4
  <2>2. sched_state' = -Len(regions')
    BY <1>0, <1>1, <1>2, <1>4 DEF Unlocked
  <2>3. LockDepth' /\ NoLostWakeup' /\ sched_state' \in Int
    BY <1>2, <2>1, <2>2 DEF LockDepth, NoLostWakeup
  <2>4. QED
    BY <1>0, <1>1, <1>2, <2>3 DEF TypeOK, NoPreemption, QueueFilled
<1>5. QED
  BY <1>3, <1>4

\* mp_handle_pending that raises keeps the invariant.
LEMMA HandlePendingRaiseIInv == IInv /\ HandlePendingRaise => IInv'
<1> SUFFICES ASSUME IInv, HandlePendingRaise PROVE IInv'
  OBVIOUS
<1> USE DEF IInv, HandlePendingRaise, StateWithoutException
<1>1. TypeOK'
  <2>1. sched_state' \in Int
    BY DEF TypeOK, MP_SCHED_IDLE
  <2>2. mp_pending_exception' \in BOOLEAN
    BY Zenon
  <2>3. QED
    BY <2>1, <2>2 DEF TypeOK
<1>2. LockDepth'
  BY DEF LockDepth, TypeOK, MP_SCHED_IDLE, MP_SCHED_PENDING
<1>3. NoLostWakeup'
  BY DEF NoLostWakeup, TypeOK
<1>4. NoPreemption' /\ QueueFilled'
  BY DEF NoPreemption, QueueFilled
<1>5. QED
  BY <1>1, <1>2, <1>3, <1>4

\* mp_handle_pending that runs callbacks keeps the invariant.
LEMMA HandlePendingTailIInv ==
  ASSUME IInv, NEW raise_exc \in BOOLEAN, HandlePendingTail(raise_exc)
  PROVE  IInv'
<1> USE DEF IInv, HandlePendingTail
<1>1. regions = <<>>
  BY DEF LockDepth, TypeOK, MP_SCHED_PENDING
<1>2. PICK f \in Callbacks \cup {"none"} : regions' = Append(regions, Running(f))
  BY DEF TypeOK
<1>3. /\ regions' \in Seq(Region)
      /\ regions' # <<>>
      /\ Len(regions') = 1
  BY <1>1, <1>2 DEF Region
<1>4. sched_state' = -Len(regions')
  BY <1>3 DEF MP_SCHED_LOCKED
<1>5. LockDepth' /\ NoLostWakeup' /\ NoPreemption'
  BY <1>3, <1>4 DEF LockDepth, NoLostWakeup, NoPreemption
<1>6. mp_pending_exception' \in BOOLEAN
  BY Zenon
<1>7. CASE sched_len # 0
  <2>1. /\ sched_idx' = IDX_MASK(sched_idx + 1)
        /\ sched_len' = sched_len - 1
    BY <1>7
  <2>2. sched_idx' \in 0 .. Depth - 1 /\ sched_len' \in 0 .. Depth
    BY <1>7, <2>1, IdxMask, DepthAssumption DEF TypeOK
  <2>3. TypeOK'
    BY <1>3, <1>4, <1>6, <2>2 DEF TypeOK
  <2>4. QueueFilled'
    <3> SUFFICES ASSUME NEW i \in 0 .. sched_len' - 1
                 PROVE  sched_queue'[IDX_MASK(sched_idx' + i)] \in Callbacks
      BY DEF QueueFilled
    <3>1. i + 1 \in 0 .. sched_len - 1
      BY <2>1 DEF TypeOK
    <3>2. IDX_MASK(sched_idx' + i) = IDX_MASK(sched_idx + (i + 1))
      <4>1. i \in 0 .. Depth - 1
        BY <3>1, DepthAssumption DEF TypeOK
      <4>2. QED
        BY <2>1, <4>1, IdxMaskShift DEF TypeOK
    <3>3. sched_queue[IDX_MASK(sched_idx + (i + 1))] \in Callbacks
      BY <3>1 DEF QueueFilled
    <3>4. QED
      BY <3>2, <3>3
  <2>5. QED
    BY <1>5, <2>3, <2>4
<1>8. CASE sched_len = 0
  BY <1>3, <1>4, <1>5, <1>6, <1>8 DEF TypeOK, QueueFilled
<1>9. QED
  BY <1>7, <1>8

\* Code that takes the pending exception itself keeps the invariant.
LEMMA TakePendingExceptionIInv == IInv /\ TakePendingException => IInv'
<1> SUFFICES ASSUME IInv, TakePendingException PROVE IInv'
  OBVIOUS
<1> USE DEF IInv, TakePendingException
<1>1. mp_pending_exception' \in BOOLEAN
  BY Zenon
<1>2. TypeOK'
  BY <1>1 DEF TypeOK
<1>3. LockDepth' /\ NoLostWakeup' /\ NoPreemption' /\ QueueFilled'
  BY DEF LockDepth, NoLostWakeup, NoPreemption, QueueFilled
<1>4. QED
  BY <1>2, <1>3

\* Every step of the scheduler, and every stuttering step, preserves IInv.
LEMMA NextIInv == IInv /\ [Next]_vars => IInv'
<1> SUFFICES ASSUME IInv, [Next]_vars PROVE IInv'
  OBVIOUS
<1>1. CASE UNCHANGED vars
  BY <1>1 DEF vars, IInv, TypeOK, LockDepth, NoLostWakeup, NoPreemption,
     QueueFilled
<1>2. CASE Next
  BY <1>2, ScheduleIInv, KeyboardInterruptIInv, LockRegionIInv,
     UnlockRegionIInv, HandlePendingRaiseIInv, HandlePendingTailIInv,
     TakePendingExceptionIInv DEF Next
<1>3. QED
  BY <1>1, <1>2

\* The inductive invariant holds in every reachable state, for every depth of
\* the queue.
THEOREM SchedulerInvariant == Spec => []IInv
BY InitIInv, NextIInv, PTL DEF Spec

\* The variables keep their types and the queue its bounds.
THEOREM SchedulerTypeOK == Spec => []TypeOK
<1>1. IInv => TypeOK
  BY DEF IInv
<1>2. QED
  BY <1>1, SchedulerInvariant, PTL

\* sched_state is minus the number of contexts holding the lock.
THEOREM SchedulerLockDepth == Spec => []LockDepth
<1>1. IInv => LockDepth
  BY DEF IInv
<1>2. QED
  BY <1>1, SchedulerInvariant, PTL

\* Whenever the scheduler is unlocked and has work, the VM will see PENDING.
THEOREM SchedulerNoLostWakeup == Spec => []NoLostWakeup
<1>1. IInv => NoLostWakeup
  BY DEF IInv
<1>2. QED
  BY <1>1, SchedulerInvariant, PTL

\* A scheduled function never preempts another or a critical region.
THEOREM SchedulerNoPreemption == Spec => []NoPreemption
<1>1. IInv => NoPreemption
  BY DEF IInv
<1>2. QED
  BY <1>1, SchedulerInvariant, PTL
=============================================================================
