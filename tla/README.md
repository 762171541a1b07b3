# Verification of the Pycopy runtime

TLA+ models of the stateful parts of Pycopy (the MicroPython derivative in this
repository), the TLC configurations that check them on small instances, and
TLAPS proofs of their main invariants for all instances. Every definition is
translated from the C or Python source named in `PROJECT.json` under `map`.

## 1. Inventory

Pycopy is a core (`py/`: compiler, virtual machine, object types, memory
management), extension modules (`extmod/`), support code (`lib/utils`) and
ports. What follows lists the parts that keep state over several calls.

| Component | State | Operations | Interacts with |
|---|---|---|---|
| Callback scheduler, `py/scheduler.c`, `py/vm.c` pending check, `lib/utils/mpirq.c` | `sched_state`, circular `sched_queue`, `mp_pending_exception` | schedule, lock, unlock, handle_pending, keyboard_interrupt | VM loop, IRQ handlers, GC finalisers, signal handler |
| Memory manager, `py/gc.c` | allocation table, finaliser table, mark stack, `gc_lock_depth`, free-block hint, threshold | alloc, free, realloc, collect (mark, sweep), lock, unlock, sweep_all | every allocation; finalisers call the VM; threads share it under a mutex |
| Hash tables, `py/map.c` | slot array, `alloc`, `used`, flags | lookup, add, remove, rehash for map, ordered map and set | allocator (may raise in the middle) |
| Interned strings, `py/qstr.c` | chain of pools, current chunk | from_strn, add, find | allocator, threads (qstr mutex) |
| Cooperative tasks, `extmod/uasyncio`, `extmod/moduasyncio.c` | run queue, I/O queue, task `data`/`waiting` fields, events, locks | run_until_complete, create_task, cancel, sleep, wait_for, gather, Event, Lock, Stream | pairing heap, `select.poll`, generators |
| Pairing heap, `py/pairheap.c`, `extmod/uasyncio/task.py` | child/next links | meld, pairing, delete | run queue, task wait queues |
| Time queue, `extmod/modutimeq.c` | binary heap with ids | push, pop, peektime | user schedulers |
| Byte ring buffer, `py/ringbuf.h`, `py/ringbuf.c` | `iget`, `iput` | get, put, get16, put16, bulk variants | interrupt handler against main loop |
| Threads, `py/modthread.c`, `ports/unix/mpthreadport.c` | thread list, lock objects, GIL | start, exit, acquire, release, GC of other threads | GC, scheduler, VM (GIL bounce) |
| Virtual filesystem, `extmod/vfs.c` | mount table, current mount | mount, umount, chdir, lookup, ilistdir | filesystems |
| Terminal duplication, `extmod/uos_dupterm.c` | slots of stream objects | dupterm, rx, tx, deactivate | streams that raise or close |
| WebSocket and WebREPL, `extmod/moduwebsocket.c`, `extmod/modwebrepl.c` | frame parser state, REPL state, transfer counters | read, write, control frames | sockets, dupterm |
| Generators and VM exception stack, `py/objgenerator.c`, `py/vm.c` | code state, exception stack, pending exception | resume, send, throw, close | everything that runs bytecode |
| lwIP sockets, `extmod/modlwip.c` | socket state, accept ring, incoming pbuf chain | callbacks, accept, connect, send, receive, close | lwIP callbacks, polling |
| Bluetooth event ring, `extmod/modbluetooth.c` | ring buffer of events, irq data | enqueue, invoke irq, active | scheduler, BLE stack threads |
| Deques, lists, arrays, `py/objdeque.c`, `py/objlist.c` | index and length fields | append, popleft, ... | allocator |
| Compiler, parser, lexer, emitters, `py/compile.c`, `py/parse.c`, `py/emit*.c` | syntax trees, code buffers | compile | allocator, qstr |
| Numbers, formatting and codecs, `py/mpz.c`, `py/formatfloat.c`, `extmod/uzlib`, `extmod/re1.5` | none between calls | pure functions | none |
| littlefs, `lib/littlefs/lfs2.c` | metadata pairs, list of directories, global state, allocator's lookahead, open mdirs | mkdir, remove, rename, open, commit, compact, relocate, mount, repair | block device, power |
| Ports and drivers, `ports/*`, `drivers/*`, `lib/*` | hardware registers | device specific | hardware |

The behaviours that make this code hard to test: interrupt handlers and signal
handlers run between any two instructions of the main program (scheduler, ring
buffer); a collection may run inside any allocation and runs Python finalisers;
an allocation may fail and unwind with `longjmp` in the middle of an update;
tasks are cancelled while they wait for one another; the mark stack overflows; power
is lost between two writes to the flash; a connection is reset in the middle of a call.

## 2. Modules, runs, and what is left

| Module | Models | Checked by runs | Proved |
|---|---|---|---|
| `Scheduler`, `CallbackQueue` | `py/scheduler.c` and its callers | `loops` | four invariants |
| `GCHeap` | `py/gc.c` | `collector`, `io`, `gc_finaliser_flags` | five invariants |
| `Uasyncio` | `extmod/uasyncio`, `extmod/moduasyncio.c` | `loops`, `io`, `uasyncio_io_both_ways` | |
| `PairHeap`, `SortedQueue` | `py/pairheap.c` | `structures` | |
| `HashMap`, `KeySet` | `py/map.c` | `structures`, `hashmap_alloc_fails` | |
| `BleIrq`, `RingBuf` | event queue of `extmod/modbluetooth.c`, `py/ringbuf.*` | `io`, `ble_scan_given_up` | |
| `LfsPair`, `AtomicStore` | metadata pairs of `lib/littlefs/lfs2.c` | `storage`, `lfs_stale_mdir` | atomicity and two invariants |
| `Littlefs`, `AtomicStore` | the directory tree of `lib/littlefs/lfs2.c` | `storage`, `littlefs_lost_directory` | |
| `Threads` | `ports/unix/mpthreadport.c`, `py/modthread.c` | `collector` | |
| `Lwip` | TCP sockets of `extmod/modlwip.c` | `io`, `lwip_recv_race` | |

Operators with the comment "Mutant" are not part of a model: each is a plausible
mistake in the definition after it, listed in `PROJECT.json`, and makes the
property named there fail, which shows that the property depends on that code.

**Runs.** A run that passes puts several components side by side, in a module
`MC...`: the variable `component` says which of them a behaviour is about, and the
variables of the others keep a constant value. The states of such a run are the
sum, not the product, of the states of its components, and it shows of each of them
exactly what a run of its own would; these components share no state in the code
either. A property of one component holds trivially for the others. Where components
do interact, one module has both sides: `Threads` the threads and the collector,
`BleIrq` the stack, the ring and the scheduler, `Lwip` the methods and the callbacks,
`Littlefs` the operations, the allocator and the repair.

| Run | Components | Distinct states |
|---|---|---|
| `loops` | scheduler; tasks with a lock | 137,000 |
| `collector` | collector; threads | 1,800,000 |
| `structures` | pairing heap; hash tables | 51,000 |
| `storage` | metadata pair; directory tree | 2,360,000 |
| `io` | tasks with a stream; TCP sockets; BLE events; allocator | 1,640,000 |

A program of tasks or of sockets may come to an end: for those components, and
only for them, the next-state relation of the run has a step that changes nothing.
`storage` does not look for deadlocks: its operations are bounded by `MaxOps`, and a full
or worn-out device refuses every commit.

What is left:

1. Proofs: that `Scheduler` implements `CallbackQueue`; `Framed` and
   `NoLostEvent` of `BleIrq`; `Findable` of `HashMap`; `OneQueue` of `Uasyncio`;
   `Collected` and `CollectionEnds` of `GCHeap`; `OwnsPcb` of `Lwip`; `LiveKept` of
   `Threads`. `Littlefs` is recursive, hence out of the prover's reach.
2. `Scheduler` at the grain of loads and stores, for the unix port, where an
   atomic section is a mutex and does not keep a signal handler out; keyboard
   interrupts that leave a collection by a jump.
3. The ring buffer used by an interrupt handler without an atomic section.
4. Files of littlefs (the CTZ list and its cache), directories of several pairs.
5. Interned strings under their mutex; the mount table; terminal duplication; the
   WebSocket frame parser; the time queue.

## 3. Scheduler (`Scheduler`, `CallbackQueue`, `SchedulerProofs`)

*State.* `sched_state` (1 idle, 0 pending, minus the number of locks),
`sched_queue` with `sched_idx` and `sched_len`, and whether
`mp_pending_exception` is set. `regions` is the stack of contexts that hold the
lock: hard interrupt handlers, finalisers, and the tail of `mp_handle_pending`
that executes a callback.

*Actions.* One per atomic section: `Schedule` (`mp_sched_schedule`),
`KeyboardInterrupt`, `LockRegion` and `UnlockRegion` (`mp_sched_lock`,
`mp_sched_unlock`), `HandlePendingRaise` and `HandlePendingTail` (the function and
its inlined copy in the VM), and `TakePendingException` (code that clears the
exception without looking at the state). Atomic sections mask interrupts on the
machine modelled, so nothing interleaves inside one.

*Run `loops`* (four slots, two callbacks, three nested regions, two
keyboard interrupts). The queue wraps and fills, locks nest over a running callback,
and exceptions arrive while callbacks wait. `LockDepth`, `NoLostWakeup` and
`NoPreemption` are invariants. `ImplementsCallbackQueue` maps the circular buffer to
a sequence and shows that a bounded first-in-first-out queue is implemented.
`CallbackRuns` and `InterruptTaken` are liveness under weak fairness of the VM's
check and of the end of a locked region: the VM polls at every jump, and handlers
return. They also assume that interrupts stop at some time (`Quiet`), since a CPU
that is always interrupted runs no bytecode.

*Proofs*, for every depth, set of callbacks and bound. `IInv` is the conjunction
of the type invariant, the three invariants and `QueueFilled` (the slots from
`sched_idx` on, `sched_len` of them, hold callbacks), without which the type of the
region that a callback opens does not follow. There is one lemma per action. The
arithmetic of the mask (`% Depth`) is isolated in lemmas at the start.

## 4. Memory manager (`GCHeap`, `GCHeapInv`, `GCMutatorProofs`, `GCHeapProofs`)

*State.* The allocation table `atb` (free, head, tail, mark), the finaliser table
`ftb`, one pointer per block (`pool`), the root pointers, the free hint, the lock
depth, the threshold counter, and the variables of the collector's loops. `given`
records how many blocks the holder of a head was promised. `req` is an allocation
or a move that waits for the collection it triggered.

*Actions.* The program loads, stores and drops pointers, locks, allocates, frees,
reallocates (`Shrink`, `Expand`, `Move`), collects, and sweeps all. The collector
takes one pointer per step: `gc_collect_root`, `ScanWord` and `PopBlock`
(`gc_mark_subtree`), `StartRescanOrSweep` and `Rescan`
(`gc_deal_with_stack_overflow`), `gc_sweep`, `gc_collect_end`, and `Retry` (the second
attempt of `gc_alloc`). The program holds pointers to heads only and frees memory
that it alone holds, as the code above the allocator does.

*Runs.* `collector`: five blocks are the least in which an
object of two blocks has two children of which the second has a child, so that a
mark stack of one entry overflows and the rescan has something to find.
`LiveIntact` and `Collected` say that nothing reachable is touched and nothing else is
left; `CollectionEnds` says that every step of the collector lowers a well-founded
measure (`LeftToDo`). As TLC finds no deadlock either, and the collector is a loop
that nothing interrupts, a collection ends. `io`: requests of up to three
blocks in a heap of four, with flags, threshold, locks and automatic collection
switched; `HintSound`, `NoOrphanTail`, and `LiveIntact` with `FlagsOnHeads` (`HeapIntact`).
`gc_finaliser_flags` refutes "if set, then the corresponding block may have a
finaliser" (`FinaliserKept`); see the findings.

*Proofs*, for every heap size, stack size, number of roots and request bound, with
the assumption `GCConstants` only. None of the properties is inductive. `IInv` in
`GCHeapInv` adds: `ChainGiven` (the table against `given`, for garbage too), `Control`
(where the loops are, who holds the lock, that marks exist only during a
collection), `ReqOwner` (a waiting request is owned by a root), `TriColour` (a marked
block that is not on the stack, not in hand and not ahead of the rescan leads to no
unmarked head, unless the overflow flag is set) and `SweepOK` (reachable means marked
ahead of the sweep and head behind it). `Reachable` is defined as the least closed set,
so its lemmas (`GCHeapInv`) need no induction: a set that is closed and contains the
roots contains it. `GCMutatorProofs` covers the program's actions, `GCHeapProofs` the
collector's and the theorems.

## 5. uasyncio (`Uasyncio`)

*State.* The run queue with delays relative to now, the waiting queue of every
task, event and lock, the I/O map, and per task its coroutine, `data`, where it is
suspended and on what. `mode` and `cur` say what the loop does. Coroutines are arbitrary:
between two awaits a task may create, cancel, set, clear, acquire, release, and
then sleep, wait, end, or end with the exception thrown into it.

*Runs.* Three tasks, sleeps of 0 or 1. `loops` has a lock and `wait_for`; `io` has an
event, a stream, `wait_for`, `run_forever` and `stop` (`WaitersServed`). Three tasks are enough for a waiter, the
task it waits for, and one that cancels either. The properties: a task is in
exactly the queue that its `data` names (`OneQueue`); the lock has one owner, also when
it is passed to a task that is cancelled before it runs (`LockExclusive`); nobody waits
for what has already happened (`NoMissedWakeup`); an accepted cancel reaches its task
(`CancelKept`); `ScheduledRuns` is liveness under weak fairness of the loop, of a task's
return to it, and of time. In these programs no task cancels one that awaits it
(`CancelsWaiters = FALSE`): `cancel` would follow the chain of awaited tasks down to the
running task itself, which then has an exception stored. With `TRUE` TLC finds that its
next sleep drops the exception (`CancelKept` fails); if it ends instead, the loop's
`assert t.data is None` fails.

## 6. Pairing heap (`PairHeap`, `SortedQueue`)

The pointers `child`, `child_last`, `next` with the tag for "parent", as in the C code.
`meld`, `pairs` and `delete` follow the code statement by statement. Run `structures`:
five nodes and two keys, so that siblings, ties and deletes at the
first, a middle and the last place occur. `Stable` shows that it implements a stable sorted
queue, which `Uasyncio` takes for granted; `Linked` and `OutsideIsClean` are what
later operations follow. The functions are recursive, hence out of the prover's reach.

## 7. Hash tables (`HashMap`, `KeySet`)

*State.* The slots, `alloc` and `used` apart from the slots (they can disagree), and
`all_keys_are_qstrs`. Keys are objects with a class of equal objects and a hash.
*Actions.* `AddInPlace`, `AddGrown`, `AddFails` (memory runs out in
`mp_map_rehash`), `AddUnhashable`, `AddLast` (ordered), `remove`, `pop`, `clear`. The search is
defined by where it ends, not as a loop. *Run `structures`*: seven
keys, of which two pairs are equal (an interned and a plain string, 1 and True), three
hashes that collide, tables of 0 to 8 slots. `Findable`: exactly the keys in the table
are found, whatever was deleted on the way. `TableSized`: the table has as many slots
and keys as it claims. `KeepsKeys`: it implements a plain set of
keys, also when it grows or fails to. `hashmap_alloc_fails` adds the failures of sets
and ordered maps (`SpecWithFailures`).

## 8. Bluetooth events (`BleIrq`, `RingBuf`)

*State.* The ring byte by byte with its indices, the size of the data buffer, the
handler, `irq_scheduled`, where the reporting stack and `invoke_irq` are, and how many
calls wait in the scheduler. `pending` records the accepted events. *Actions.* `Report`
(any of the `mp_bluetooth_..._on_...` functions: an event with its fields),
`Schedule` or `Refuse`, `Invoke`, `Take`, `TakeNothing`, the end of a handler, `irq`, and
`config_rxbuf`. *Run `io`* (rings of 16, the least allowed, and
24 bytes; seven kinds of event; data of 3 and 14 bytes, of which the latter is cut). States that
differ in bytes already taken are identified (`Relevant`). `Framed`: the ring holds whole
events in order. `NoLostEvent` names its two exceptions: a handler that raised, and
a scheduler that refused, after which `irq_scheduled` is never cleared. Scan results are
left to `ble_scan_given_up` since they break `Framed`. Characteristic results are in no
run: their length is one byte short (section 14).

## 9. littlefs, one directory (`LfsPair`, `AtomicStore`, `LfsPairProofs`)

*State.* For each block its revision count, how many commits its log has, the value of
the last one, and whether the flash behind it is erased; the pair as the parent
knows it; the caller's mdir; the step of `lfs2_dir_commit` and the block that
`lfs2_dir_compact` writes. *Actions.* Each operation of the flash is a step: tags and
checksum of an append, erase, tags and checksum of a compaction, the choice of another
block, the commit to the parent and to the predecessor; `Fail` is an error and
`PowerLoss` a restart, at any step. An interrupted commit has no valid checksum;
an erase that is interrupted, or not needed by the device, may leave what was there.
Whether the flash behind a log is erased is a field of the block; the code infers it from
the valid bit of the next tag, which is the same if a unit of the flash is programmed as
a whole. A file that stays open after an error is `LFS2_F_ERRED`: its sync does nothing
until a write, so the next commit stands for a write and a sync.

*Run `storage`*: three blocks, six revision counts that wrap around, two commits to
a block, wear levelling every third compaction, and any earlier contents of unused
blocks. Six counts are enough for the comparison to be by the sign of a wrapped
difference; a third block is needed for a relocation. `Readable`: a reader always
finds a complete commit. `ProgsErased`: only erased flash is programmed. `Atomic`: the pair
implements `AtomicStore`: the directory is what it was or what the commit makes
it, and the latter once the commit has returned.

*Proofs*, for any number of blocks, values and revision counts (at least six),
any room and wear, and any earlier contents, under the assumption that no mdir
outlives a failed commit (`~StaysOpen`); without it `lfs_stale_mdir` refutes `Durable`. The
properties are not inductive: `PairInv` adds, for every step of a commit, which block
holds the directory (it has a complete commit, and the other one has none or an
older revision count), what the mdir knows of its pair, which block is written, and
that the parent names the old pair until the new block is complete. `BumpNewer` and
`NewerAsymmetric` isolate the wrapping arithmetic. One lemma per action.

## 10. littlefs, the tree (`Littlefs`, `AtomicStore`)

*State.* Each block's directory: entries in the order of their names, the tail that
threads all directories on one list, and its delta of the global state; the global
state as it is to be and as it is on disk (orphans, a pending move); the operation
and the mdirs that it holds; the nested calls of `lfs2_fs_relocate`. A commit to a pair
is one step, which `LfsPair` justifies. *Actions.* One per commit of `lfs2_mkdir`,
`lfs2_remove`, `lfs2_rename` and `lfs2_file_open` with the code up to the next commit; those
of `lfs2_fs_relocate`; those of `lfs2_fs_demove` and `lfs2_fs_deorphan`, which run before an
operation that follows a mount; `Restart` between any two. A commit is appended,
compacted, relocated, or returns an error (`Fails`, `Returned`), each where the bounds allow.
An error leaves the pair as it was and what the operation has prepared in RAM as it is.
Programs do not move a directory into itself, which `lfs2_rename` does not refuse.

*Run `storage`*: two names, directories in directories, three operations, one
compaction (the first commit of a new directory counts), one relocation, and one error
or loss of power, in eleven blocks, on an empty file system and on
one with two directories whose order on the list is not that of their names. A
loss of power or an error needs an operation to interrupt, one that repairs and one that
builds on the repair. `TreeAtomic`: every operation happens as a whole or not at
all. `Flagged`: whenever the list is not made up of the directories of the tree, the
global state on disk announces it; and an operation commits only through mdirs that
agree with the disk. `Disjoint`: no two directories have a block in common, and none has
one that the allocator may give out, once announced orphans are repaired. `ListEnds`: the
list of directories has an end; `lfs2_fs_deorphan` follows it without a test for a loop.

*Outside the bounds.* Five things lead to states in which the list, the flag or the tree
is wrong. They are excluded by constants, TLC finds each when the constant is changed,
and `PROJECT.json` has them as notes of hazards:

- power lost while an rmdir or the rename of a directory relocates a directory
  (`MixedRepairs = FALSE`), see the findings for the rename; in an rmdir the removed
  directory may stay on the list without a flag;
- blocks that wear out after a loss of power or an error (`LateWear = FALSE`): the repair
  is recorded in a new directory that is not on the list yet;
- two relocations in one another (`MaxRelocations = 1`);
- wear levelling on a full device (with eleven blocks one is always left): the directory
  is written to its own pair but without the global state, as one that is relocated;
- errors that leave something false in RAM (`AnyFailure = FALSE`, the condition is `Harmless`):
  a rename whose first commit fails leaves its move to be stored by the next operation,
  and a relocation that fails at the predecessor has already cleared the flag.

## 11. Threads (`Threads`)

*State.* The two mutexes, the list of threads, the semaphore and the signals on their
way, the heap as a set of objects that refer to objects, what each thread refers
to, and where each thread is. *Actions.* Arbitrary Python code (allocate, load, drop, bind,
unbind), `start_new_thread` in three steps (arguments, `pthread_create`, the entry in the
list), the new thread's start and end, and a collection in its steps: roots, own
stack, one visit per thread with a signal and a wait, sweep. The signal handler may
run at any moment. *Run `collector`*: three threads (the collector, one that it signals, one that
is being created) and two objects (the arguments, and what they refer to). `LiveKept`:
nothing that any thread can reach is freed. `StartsClean`: no mark, signal or
count of the semaphore is left when the next collection begins. Names are bound outside a
collection only (`StoresDuring = FALSE`): the comment of `mp_thread_gc_others` admits
the race, and with `TRUE` TLC finds a live object that is freed.

## 12. TCP sockets (`Lwip`)

*State.* Socket objects with their union of a pbuf chain and an accept ring, pcbs with the
callbacks registered, and the method in progress. Bytes of a connection are numbered, so
that `recv` can be compared with what the peer sent. *Actions.* `make_new`, `listen`, `accept`,
`connect`, `send`, `recv`, `close` in the steps between which the stack may call back (each
look of `recv` and of its error check at the state, the pcb or the buffer is a step), and the
callbacks: connected, error, error of an unaccepted connection, accept, receive, end,
and the poll that aborts a closed connection. *Run `io`*: two sockets, four pcbs, backlogs of 1
and 3, connections of three bytes. Three slots are the least in which an entry is
taken from the middle of the queue. `OwnsPcb`: a socket's pcb is alive and calls back for
that socket. `QueueIsRing`: the ring is the connections nobody has accepted, in order.
`StreamIntact`: `recv` returns the peer's bytes in order, and an end only after all of them.
A socket with a timeout of 0 is left out (`NonBlocking = FALSE`): its `recv` looks at the data
and then at the state, and with `TRUE` TLC finds an end reported with data waiting.

## 13. Findings

- `gc_finaliser_flags` (`py/gc.c:610`): freeing a chain that ends with the pool reads and
  clears entries of the table behind the allocation table, the finaliser flags.
- `uasyncio_io_both_ways` (`extmod/uasyncio/core.py:108`): cancelling the reader of a stream
  removes the entry of its writer, which is never woken.
- `hashmap_alloc_fails` (`py/map.c:313`, `:195`): sets and ordered maps are edited before the
  allocation that may raise.
- `ble_scan_given_up` (`extmod/modbluetooth.c:998`): a 16-bit length is read as one byte.
- `lfs_stale_mdir` (`lib/littlefs/lfs2.c:1854`): after a relocation that fails when the parent
  has already been updated, the mdir of an open file is the old one; its next
  successful sync is not found after a mount.
- `littlefs_lost_directory` (`lib/littlefs/lfs2.c:4163`): when power is lost in a rename of a
  directory whose destination is being relocated, the repair walks the list through
  the destination's old pair, takes the renamed directory for an orphan and drops
  it from the list; the allocator then no longer finds the directories below it.
- `lwip_recv_race` (`extmod/modlwip.c:771`): `recv` checks for data outside its critical section
  and asserts inside it that the connection is still there.

## 14. What the checks do not show

Proved for all constants: sections 3, 4 and 9, as far as their "Proofs" say. Only
model-checked: liveness (out of the prover's reach), `Collected`, `CollectionEnds`, the
refinement of `CallbackQueue`, and everything in sections 5 to 8 and 10 to 12. The heap
of `GCHeap` is single-threaded and has one pointer per block; in `Threads` the scan of one stack is
one step. lwIP itself, the BLE stacks and the flash are external: they are modelled by what
the code relies on.

*Not modelled*, with the reasons in `PROJECT.json`: the compiler, the virtual machine's
bytecode, numbers and codecs, ports and drivers, and the parts listed under "What is left".
Most of the repository is of these kinds (drivers, vendored libraries, port code, pure
translation), so that the models cover a small share of its lines: the parts that
keep state under interleaving, failure or loss of power.

*Hazards.* `PROJECT.json` lists the main ones, with the properties that cover them or a
note why none does. Further ones, which no property covers:

- `uasyncio/funcs.py:20`, `:26`: `wait_for` takes a cancel by someone else for its timeout, and
  prefers the timeout when the task ends in the same turn; its result is not modelled.
- `uasyncio/core.py:184`: a main task that returns does not wake the tasks that await it.
- `uasyncio/core.py:55`: a sleep that is called and not awaited breaks the next one (one
  shared generator); `core.py:82`: two readers of one stream; `task.py:60`: a cancel
  after `new_event_loop`; `stream.py:115`: closing a server that has not run.
- `moduasyncio.c:68`: times more than half a tick period apart have no order.
- `py/map.c:256`: comparing keys runs Python code that may change the table.
- `modbluetooth.c:1102`: the length passed for a characteristic is one byte short.
- `lfs2.c:4069`: two relocations in one another; `lfs2.c:1953`: the orphan flag stored in a
  directory that is not on the list yet; `lfs2.c:1697`: a worn block without a replacement.
- `py/gc.c:291`: with threads, a finaliser that allocates waits for the mutex of its own
  collection.
- `modlwip.c:345`, `:349`: closing a listening socket leaves waiting connections of a
  backlog of 1, and skips one when an abort shifts the ring (both modelled; the pcb
  lives on without a socket); `:711`, `:1031`: `send` and `accept` use the pcb after they have
  given up the critical section; `:642`: the error check looks at the state and then asserts
  that there is a pcb (modelled: the behaviour ends there).
