------------------------------- MODULE Threads ------------------------------
(***************************************************************************)
(* Threads of the unix port and the garbage collector (mpthreadport.c,     *)
(* modthread.c, gc.c built without a GIL).  Any thread may collect: it     *)
(* holds gc_mutex, scans the root pointers and its own stack, and makes    *)
(* every other thread on the list scan its own by a signal, waiting on a   *)
(* semaphore for each.  The threads are not stopped: one that has scanned  *)
(* its stack goes on while the collector sweeps.                           *)
(*                                                                         *)
(* Python code is arbitrary: it allocates, binds and looks up names, drops *)
(* references, starts threads, collects.  The scan of one stack is atomic. *)
(***************************************************************************)
EXTENDS Naturals, Sequences, FiniteSets, SequencesExt

CONSTANTS
  Threads, Main,
  Objs,            \* blocks of the heap
  Globals,         \* the root pointers in mp_state_ctx, which hold objects too
  Nobody,
  StoresDuring     \* whether names are bound while another thread collects

VARIABLES
  gc_mutex, thread_mutex,   \* who holds them
  thread,                   \* the list of threads, newest first
  thread_signal_done,       \* a semaphore
  signalled,                \* threads with a signal to handle
  heap, marked,             \* objects that are allocated, and marked
  holds,                    \* the objects that an object refers to
  stack,                    \* the objects that the Python code of a thread refers to
  th_args,                  \* the arguments, while a thread is made
  pc,                       \* where a thread is; "none" before it is created
  todo                      \* the rest of the list, for the collector

signals == <<thread_signal_done, signalled>>
heapvars == <<heap, marked, holds>>
own == <<stack, th_args>>
vars == <<gc_mutex, thread_mutex, thread, signals, heapvars, own, pc, todo>>

\* gc_collect_root: heads that are not marked are, with what they lead to.
Mark(roots) ==
  LET new(S) == S \cap (heap \ marked)
      reach[n \in 0 .. Cardinality(Objs)] ==
        IF n = 0 THEN new(roots)
        ELSE reach[n - 1] \cup new(UNION {holds[x] : x \in reach[n - 1]})
  IN marked \cup reach[Cardinality(Objs)]

\* What a thread has in its stack and registers.
Refs(t) == stack[t] \cup ({th_args[t]} \ {Nobody})

At(t, label) == pc[t] = label
Go(t, label) == pc' = [pc EXCEPT ![t] = label]
-----------------------------------------------------------------------------
(* Python code of a thread.                                                *)
gc_alloc(t, x) ==
  /\ At(t, "run")
  /\ gc_mutex = Nobody
  /\ x \notin heap
  /\ heap' = heap \cup {x}
  /\ holds' = [holds EXCEPT ![x] = {}]
  /\ stack' = [stack EXCEPT ![t] = @ \cup {x}]
  /\ UNCHANGED <<gc_mutex, thread_mutex, thread, signals, marked, th_args, pc, todo>>

Load(t, x) ==
  /\ At(t, "run")
  /\ \E p \in stack[t] \cup {Globals} : x \in holds[p]
  /\ stack' = [stack EXCEPT ![t] = @ \cup {x}]
  /\ UNCHANGED <<gc_mutex, thread_mutex, thread, signals, heapvars, th_args, pc, todo>>

Drop(t, x) ==
  /\ At(t, "run")
  /\ x \in stack[t]
  /\ stack' = [stack EXCEPT ![t] = @ \ {x}]
  /\ UNCHANGED <<gc_mutex, thread_mutex, thread, signals, heapvars, th_args, pc, todo>>

Bind(t, x) ==
  /\ At(t, "run")
  /\ x \in stack[t]
  /\ gc_mutex = Nobody \/ StoresDuring
  /\ holds' = [holds EXCEPT ![Globals] = @ \cup {x}]
  /\ UNCHANGED <<gc_mutex, thread_mutex, thread, signals, heap, marked, own, pc, todo>>

Unbind(t, x) ==
  /\ At(t, "run")
  /\ x \in holds[Globals]
  /\ holds' = [holds EXCEPT ![Globals] = @ \ {x}]
  /\ UNCHANGED <<gc_mutex, thread_mutex, thread, signals, heap, marked, own, pc, todo>>
-----------------------------------------------------------------------------
(* start_new_thread: th_args, a block that nobody else knows, takes the    *)
(* arguments; then the thread exists, and then it is on the list.          *)
start_new_thread(t, args) ==
  /\ At(t, "run")
  /\ gc_mutex = Nobody
  /\ args \notin heap
  /\ heap' = heap \cup {args}
  /\ th_args' = [th_args EXCEPT ![t] = args]
  /\ Go(t, "args")
  /\ UNCHANGED <<gc_mutex, thread_mutex, thread, signals, marked, holds, stack, todo>>

mp_thread_create(t, u, S) ==
  /\ At(t, "args") /\ At(u, "none")
  /\ thread_mutex = Nobody
  /\ thread_mutex' = t
  /\ holds' = [holds EXCEPT ![th_args[t]] = S]
  /\ th_args' = [th_args EXCEPT ![u] = th_args[t]]
  /\ pc' = [pc EXCEPT ![t] = "create", ![u] = "entry"]
  /\ UNCHANGED <<gc_mutex, thread, signals, heap, marked, stack, todo>>

\* pthread_create fails: OSError.
mp_thread_create_er(t) ==
  /\ At(t, "args")
  /\ thread_mutex = Nobody
  /\ th_args' = [th_args EXCEPT ![t] = Nobody]
  /\ Go(t, "run")
  /\ UNCHANGED <<gc_mutex, thread_mutex, thread, signals, heapvars, stack, todo>>

Listed == {thread[i].id : i \in DOMAIN thread}

\* Mutant: the list does not keep the arguments.
mp_thread_created_NoArg(t) ==
  /\ At(t, "create")
  /\ \E u \in {u \in Threads : At(u, "entry") /\ u \notin Listed} :
       thread' = <<[id |-> u, ready |-> FALSE, arg |-> {}]>> \o thread
  /\ thread_mutex' = Nobody
  /\ th_args' = [th_args EXCEPT ![t] = Nobody]
  /\ Go(t, "run")
  /\ UNCHANGED <<gc_mutex, signals, heapvars, stack, todo>>

mp_thread_created(t) ==
  /\ At(t, "create")
  /\ \E u \in {u \in Threads : At(u, "entry") /\ u \notin Listed} :
       thread' = <<[id |-> u, ready |-> FALSE, arg |-> {th_args[u]}]>> \o thread
  /\ thread_mutex' = Nobody
  /\ th_args' = [th_args EXCEPT ![t] = Nobody]
  /\ Go(t, "run")
  /\ UNCHANGED <<gc_mutex, signals, heapvars, stack, todo>>

\* thread_entry
mp_thread_start(t) ==
  /\ At(t, "entry")
  /\ thread_mutex = Nobody
  /\ thread' = [i \in DOMAIN thread |-> IF thread[i].id = t THEN [thread[i] EXCEPT !.ready = TRUE]
                                        ELSE thread[i]]
  /\ stack' = [stack EXCEPT ![t] = {th_args[t]}]
  /\ th_args' = [th_args EXCEPT ![t] = Nobody]
  /\ Go(t, "run")
  /\ UNCHANGED <<gc_mutex, thread_mutex, signals, heapvars, todo>>

mp_thread_finish(t) ==
  /\ At(t, "run")
  /\ t # Main
  /\ thread_mutex = Nobody
  /\ thread' = SelectSeq(thread, LAMBDA th : th.id # t)
  /\ stack' = [stack EXCEPT ![t] = {}]
  /\ Go(t, "none")
  /\ UNCHANGED <<gc_mutex, thread_mutex, signals, heapvars, th_args, todo>>
-----------------------------------------------------------------------------
(* gc_collect                                                              *)
gc_collect_start(t) ==
  /\ At(t, "run")
  /\ gc_mutex = Nobody
  /\ gc_mutex' = t
  /\ marked' = Mark(holds[Globals])
  /\ Go(t, "self")
  /\ UNCHANGED <<thread_mutex, thread, signals, heap, holds, own, todo>>

gc_helper_collect_regs_and_stack(t) ==
  /\ At(t, "self")
  /\ marked' = Mark(Refs(t))
  /\ Go(t, "others")
  /\ UNCHANGED <<gc_mutex, thread_mutex, thread, signals, heap, holds, own, todo>>

mp_thread_gc_others(t) ==
  /\ At(t, "others")
  /\ thread_mutex = Nobody
  /\ thread_mutex' = t
  /\ todo' = thread
  /\ Go(t, "walk")
  /\ UNCHANGED <<gc_mutex, thread, signals, heapvars, own>>

\* The argument of a thread is a root; a thread that is ready is signalled.
Visit(t) ==
  /\ At(t, "walk")
  /\ todo # <<>>
  /\ LET th == Head(todo)
         other == th.id # t /\ th.ready
     IN /\ marked' = Mark(th.arg)
        /\ signalled' = IF other THEN signalled \cup {th.id} ELSE signalled
        /\ IF other THEN Go(t, "wait") /\ UNCHANGED todo
           ELSE todo' = Tail(todo) /\ UNCHANGED pc
  /\ UNCHANGED <<gc_mutex, thread_mutex, thread, thread_signal_done, heap, holds, own>>

\* Mutant: the collector does not wait.
sem_wait_Not(t) ==
  /\ At(t, "wait")
  /\ todo' = Tail(todo)
  /\ Go(t, "walk")
  /\ UNCHANGED <<gc_mutex, thread_mutex, thread, signals, heapvars, own>>

sem_wait(t) ==
  /\ At(t, "wait")
  /\ thread_signal_done > 0
  /\ thread_signal_done' = thread_signal_done - 1
  /\ todo' = Tail(todo)
  /\ Go(t, "walk")
  /\ UNCHANGED <<gc_mutex, thread_mutex, thread, signalled, heapvars, own>>

Visited(t) ==
  /\ At(t, "walk")
  /\ todo = <<>>
  /\ thread_mutex' = Nobody
  /\ Go(t, "sweep")
  /\ UNCHANGED <<gc_mutex, thread, signals, heapvars, own, todo>>

gc_collect_end(t) ==
  /\ At(t, "sweep")
  /\ heap' = heap \cap marked
  /\ marked' = {}
  /\ holds' = [x \in Objs \cup {Globals} |-> IF x \in heap' \cup {Globals} THEN holds[x] ELSE {}]
  /\ gc_mutex' = Nobody
  /\ Go(t, "run")
  /\ UNCHANGED <<thread_mutex, thread, signals, own, todo>>

\* The signal handler.
mp_thread_gc(t) ==
  /\ t \in signalled
  /\ marked' = Mark(Refs(t))
  /\ thread_signal_done' = thread_signal_done + 1
  /\ signalled' = signalled \ {t}
  /\ UNCHANGED <<gc_mutex, thread_mutex, thread, heap, holds, own, pc, todo>>
-----------------------------------------------------------------------------
\* mp_thread_init
Init ==
  /\ gc_mutex = Nobody /\ thread_mutex = Nobody
  /\ thread = <<[id |-> Main, ready |-> TRUE, arg |-> {}]>>
  /\ thread_signal_done = 0
  /\ signalled = {}
  /\ heap = {} /\ marked = {}
  /\ holds = [x \in Objs \cup {Globals} |-> {}]
  /\ stack = [t \in Threads |-> {}]
  /\ th_args = [t \in Threads |-> Nobody]
  /\ pc = [t \in Threads |-> IF t = Main THEN "run" ELSE "none"]
  /\ todo = <<>>

Python(t) ==
  \/ \E x \in Objs : gc_alloc(t, x) \/ Load(t, x) \/ Drop(t, x) \/ Bind(t, x) \/ Unbind(t, x)
  \/ \E args \in Objs : start_new_thread(t, args)
  \/ \E u \in Threads, S \in SUBSET stack[t] : mp_thread_create(t, u, S)
  \/ mp_thread_create_er(t) \/ mp_thread_created(t) \/ mp_thread_start(t) \/ mp_thread_finish(t)

gc_collect(t) ==
  \/ gc_collect_start(t) \/ gc_helper_collect_regs_and_stack(t) \/ mp_thread_gc_others(t)
  \/ Visit(t) \/ sem_wait(t) \/ Visited(t) \/ gc_collect_end(t)

Next == \E t \in Threads : Python(t) \/ gc_collect(t) \/ mp_thread_gc(t)

Spec == Init /\ [][Next]_vars
-----------------------------------------------------------------------------
\* What Python code can still reach is not freed: the names, and the stacks of
\* all threads, also of one that is not ready and so does not scan its own.
LiveKept ==
  LET roots == holds[Globals] \cup UNION {Refs(t) : t \in Threads}
  IN roots \cup UNION {holds[x] : x \in roots} \subseteq heap

\* Outside a collection nothing is marked, no signal is on its way and the
\* semaphore is down, so that the next collection starts clean: a block that is
\* already marked would not be traced, a semaphore that is up not be waited for.
StartsClean ==
  gc_mutex = Nobody => marked = {} /\ signalled = {} /\ thread_signal_done = 0
=============================================================================
