-------------------------------- MODULE MCIo --------------------------------
(***************************************************************************)
(* Four components in one run: streams that tasks wait for (Uasyncio), TCP *)
(* sockets (Lwip), the queue of BLE events (BleIrq), and the allocator     *)
(* with a threshold (GCHeap). They share no state: a behaviour is one of   *)
(* one of them, and the variables of the others are idle.                  *)
(***************************************************************************)
EXTENDS GCHeap

CONSTANTS
  None, Tasks, Events, Locks, Streams, IoUses, UsesWaitFor, UsesStop, CancelsWaiters, MaxSleep,
  Socks, Pcbs, NULL, Backlogs, NonBlocking, MaxBytes,
  Reports, Lens, Tags, RxBufs, UuidLen, MaxQueued

VARIABLES
  component,
  runq, delay, waiting, io, coro, data, at, on, helper, event, lock, holder, mode, cur,
  thrown, main, stopper, told,
  sock, tcp, call, got,
  ringbuf, irq_data_data_alloc, irq_handler, irq_scheduled, stack, queued, invoke, pending,
  raised, refused

tasks ==
  <<runq, delay, waiting, io, coro, data, at, on, helper, event, lock, holder, mode, cur,
    thrown, main, stopper, told>>
sockets == <<sock, tcp, call, got>>
ble ==
  <<ringbuf, irq_data_data_alloc, irq_handler, irq_scheduled, stack, queued, invoke, pending,
    raised, refused>>

Aio == INSTANCE Uasyncio
Tcp == INSTANCE Lwip
Ble == INSTANCE BleIrq WITH Events <- Reports

ASSUME AioParameters == Aio!Parameters
ASSUME BleParameters == Ble!Parameters
-----------------------------------------------------------------------------
\* A stream is read and not written.
OneWay == {<<s, 1>> : s \in Streams}

NoTcp ==
  /\ sock = "off" /\ tcp = "off" /\ call = "off" /\ got = "off"

NoBle ==
  /\ ringbuf = "off" /\ irq_data_data_alloc = "off" /\ irq_handler = "off"
  /\ irq_scheduled = "off" /\ stack = "off" /\ queued = "off" /\ invoke = "off" /\ pending = "off"
  /\ raised = "off" /\ refused = "off"

NoAio ==
  /\ runq = <<>> /\ delay = "off" /\ waiting = "off" /\ io = "off" /\ coro = "off" /\ data = "off"
  /\ at = "off" /\ on = "off" /\ helper = "off" /\ event = "off" /\ lock = "off" /\ holder = "off"
  /\ mode = "off" /\ cur = "off" /\ thrown = "off" /\ main = "off" /\ stopper = "off"
  /\ told = "off"

MCInit ==
  /\ component \in {"streams", "tcp", "ble", "heap"}
  /\ IF component = "tcp" THEN Tcp!Init ELSE NoTcp
  /\ IF component = "ble" THEN Ble!Init ELSE NoBle
  /\ IF component = "streams" THEN Aio!Init ELSE NoAio
  /\ Init

\* A program of tasks or sockets may come to its end.
MCNext ==
  /\ UNCHANGED component
  /\ \/ component = "streams" /\ Aio!Next /\ UNCHANGED <<sockets, ble, vars>>
     \/ component = "tcp" /\ Tcp!Next /\ UNCHANGED <<tasks, ble, vars>>
     \/ component = "ble" /\ Ble!Next /\ UNCHANGED <<tasks, sockets, vars>>
     \/ component = "heap" /\ Next /\ UNCHANGED <<tasks, sockets, ble>>
     \/ component \in {"streams", "tcp"} /\ UNCHANGED <<tasks, sockets, ble, vars>>

MCSpec == MCInit /\ [][MCNext]_<<component, tasks, sockets, ble, vars>>

\* States that differ only in bytes of the ring that have been taken are the same:
\* such a byte is overwritten before it is read again.
Relevant ==
  CASE component = "streams" -> tasks
    [] component = "tcp" -> sockets
    [] component = "ble" -> <<Ble!Contents(ringbuf), [ringbuf EXCEPT !.buf = "any"], Tail(ble)>>
    [] component = "heap" -> vars
-----------------------------------------------------------------------------
\* A task that waits for a stream is in its queue and in the poller's map, and is
\* woken and cancelled like any other.
WaitersServed ==
  component = "streams" =>
    Aio!OneQueue /\ Aio!NoMissedWakeup /\ Aio!CancelKept /\ Aio!IoWaitersMapped

\* The pcb of a socket is alive, and its callbacks are for that socket.
OwnsPcb == component = "tcp" => Tcp!OwnsPcb

\* The accept queue is a ring of the connections that nobody has accepted.
QueueIsRing == component = "tcp" => Tcp!QueueIsRing

\* recv returns what the peer has sent, in order.
StreamIntact == component = "tcp" => Tcp!StreamIntact

\* The ring holds whole events, and they fit the buffer they are taken into.
Framed == component = "ble" => Ble!TypeOK /\ Ble!Framed /\ Ble!DataFits

\* An accepted event has an invocation ahead of it.
NoLostEvent == component = "ble" => Ble!NoLostEvent

\* What the program holds is intact, collections at the threshold included, and
\* only heads have finaliser flags.
HeapIntact == LiveIntact /\ FlagsOnHeads
=============================================================================
