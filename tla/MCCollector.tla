---------------------------- MODULE MCCollector -----------------------------
(***************************************************************************)
(* The collector of one thread (GCHeap) and threads that share it          *)
(* (Threads) in one run. They share no state: a behaviour is one of one of *)
(* them, and the variables of the other are idle.                          *)
(***************************************************************************)
EXTENDS GCHeap

CONSTANTS
  Threads, Main, Objs, Globals, Nobody, StoresDuring

VARIABLES
  component,
  gc_mutex, thread_mutex, thread, thread_signal_done, signalled, heap, marked, holds, stack,
  th_args, pc, todo

threads ==
  <<gc_mutex, thread_mutex, thread, thread_signal_done, signalled, heap, marked, holds, stack,
    th_args, pc, todo>>

Thr == INSTANCE Threads
-----------------------------------------------------------------------------
\* The threshold of gc_init, which never fires.
ThresholdOff == -1

NoThr ==
  /\ gc_mutex = "off" /\ thread_mutex = "off" /\ thread = "off" /\ thread_signal_done = "off"
  /\ signalled = "off" /\ heap = "off" /\ marked = "off" /\ holds = "off" /\ stack = "off"
  /\ th_args = "off" /\ pc = "off" /\ todo = "off"

MCInit ==
  /\ component \in {"gc", "threads"}
  /\ IF component = "threads" THEN Thr!Init ELSE NoThr
  /\ Init

MCNext ==
  /\ UNCHANGED component
  /\ \/ component = "gc" /\ Next /\ UNCHANGED threads
     \/ component = "threads" /\ Thr!Next /\ UNCHANGED vars

MCSpec == MCInit /\ [][MCNext]_<<component, vars, threads>>
-----------------------------------------------------------------------------
\* What the Python code of any thread can reach survives a collection.
LiveKept == component = "threads" => Thr!LiveKept

\* A collection finds no mark and no signal left over from another.
StartsClean == component = "threads" => Thr!StartsClean
=============================================================================
