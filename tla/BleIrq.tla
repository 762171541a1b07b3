------------------------------- MODULE BleIrq -------------------------------
(***************************************************************************)
(* The event queue of extmod/modbluetooth.c: the Bluetooth stack puts      *)
(* events into a ring of bytes in interrupt context and schedules          *)
(* bluetooth_ble_invoke_irq, which takes them out and calls the program's  *)
(* handler.  The sections between MICROPY_PY_BLUETOOTH_ENTER and EXIT are  *)
(* atomic; the rest interleaves.                                           *)
(***************************************************************************)
EXTENDS RingBuf, SequencesExt

CONSTANTS Events,      \* the codes of the events that the stack reports
          Lens,        \* lengths of the data of scan results and notifications
          Tags,        \* what a byte of payload may be
          RxBufs,      \* sizes the ring is given
          UuidLen,     \* bytes in a UUID: 2, 4 or 16
          MaxQueued    \* bound: callbacks waiting in the scheduler

CENTRAL_CONNECT == 1
GATTS_WRITE == 3
SCAN_RESULT == 5
SCAN_DONE == 6
SERVICE_RESULT == 9
SERVICE_DONE == 10
CHARACTERISTIC_RESULT == 11
DESCRIPTOR_RESULT == 13
READ_DONE == 16
NOTIFY == 18
INDICATE_DONE == 20
MTU_EXCHANGED == 21

Codes == {CENTRAL_CONNECT, GATTS_WRITE, SCAN_RESULT, SCAN_DONE, SERVICE_RESULT, SERVICE_DONE,
          CHARACTERISTIC_RESULT, DESCRIPTOR_RESULT, READ_DONE, NOTIFY, INDICATE_DONE,
          MTU_EXCHANGED}

Parameters ==
  /\ Events \subseteq Codes /\ Lens \subseteq Nat /\ Tags \subseteq 0 .. 255
  /\ \A n \in RxBufs : n \in 16 .. 65535
  /\ UuidLen \in {2, 4, 16}

\* What ringbuf_extract is asked for: 16-bit fields, bytes, an address, signed
\* bytes, a UUID and data.  The functions that report an event put the same.
Layout(code) ==
  CASE code = CENTRAL_CONNECT -> [n_u16 |-> 1, bytes |-> 1 + 6, uuid |-> FALSE, data |-> FALSE]
    [] code \in {GATTS_WRITE, SERVICE_DONE, MTU_EXCHANGED} ->
         [n_u16 |-> 2, bytes |-> 0, uuid |-> FALSE, data |-> FALSE]
    [] code = INDICATE_DONE -> [n_u16 |-> 2, bytes |-> 1, uuid |-> FALSE, data |-> FALSE]
    [] code = SCAN_RESULT -> [n_u16 |-> 0, bytes |-> 1 + 6 + 2, uuid |-> FALSE, data |-> TRUE]
    [] code = SERVICE_RESULT -> [n_u16 |-> 3, bytes |-> 0, uuid |-> TRUE, data |-> FALSE]
    [] code = CHARACTERISTIC_RESULT -> [n_u16 |-> 3, bytes |-> 1, uuid |-> TRUE, data |-> FALSE]
    [] code = DESCRIPTOR_RESULT -> [n_u16 |-> 2, bytes |-> 0, uuid |-> TRUE, data |-> FALSE]
    [] code = NOTIFY -> [n_u16 |-> 2, bytes |-> 0, uuid |-> FALSE, data |-> TRUE]
    [] code = READ_DONE -> [n_u16 |-> 3, bytes |-> 0, uuid |-> FALSE, data |-> FALSE]
    [] OTHER -> [n_u16 |-> 0, bytes |-> 0, uuid |-> FALSE, data |-> FALSE]

VARIABLES ringbuf, irq_data_data_alloc,
          irq_handler,       \* whether there is one
          irq_scheduled,
          stack,             \* "idle", or "schedule": between EXIT and mp_sched_schedule
          queued,            \* calls of invoke_irq that wait in the scheduler
          invoke,            \* invoke_irq: "no", "loop", "handler"
          pending,           \* history: the events accepted and not yet taken or dropped
          raised, refused    \* history: the handler raised with no report since; the
                             \* scheduler has refused a callback

vars == <<ringbuf, irq_data_data_alloc, irq_handler, irq_scheduled, stack, queued, invoke,
          pending, raised, refused>>

MAX_EVENT_DATA_BYTES_LEN(size) == IF size >= 128 THEN size - 64 ELSE size \div 2

Init ==
  /\ \E n \in RxBufs : ringbuf = ringbuf_alloc(n)
                       /\ irq_data_data_alloc = MAX_EVENT_DATA_BYTES_LEN(n)
  /\ irq_handler = FALSE /\ irq_scheduled = FALSE
  /\ stack = "idle" /\ queued = 0 /\ invoke = "no"
  /\ pending = <<>> /\ raised = FALSE /\ refused = FALSE
-----------------------------------------------------------------------------
(***************************************************************************)
(* Reports of the stack.  An event is a code, what its payload bytes are,  *)
(* and the length of its data.                                             *)
(***************************************************************************)
Fill(n, field) == [i \in 1 .. n |-> field]

\* The fields in the order they are put: a byte, or two for a 16-bit field.
Fields(e) ==
  LET l == Layout(e.code)
  IN Fill(l.n_u16, <<e.tag, e.tag>>) \o Fill(l.bytes, <<e.tag>>)
     \o (IF l.uuid THEN <<<<UuidLen>>>> \o Fill(UuidLen, <<e.tag>>) ELSE <<>>)
     \o (IF l.data THEN <<<<e.len \div 256, e.len % 256>>>> \o Fill(e.len, <<e.tag>>) ELSE <<>>)

Bytes(e) == <<e.code>> \o FlattenSeq(Fields(e))

put_field(r, f) == IF Len(f) = 1 THEN ringbuf_put(r, f[1]) ELSE ringbuf_put16(r, f[1], f[2])

put_all(r, fields) ==
  FoldLeft(LAMBDA x, f : CHOOSE y \in {put_field(z, f) : z \in {x}} : TRUE, r, fields)

\* The len that is passed to enqueue_irq.  A characteristic is counted without
\* its properties.
Need(e) ==
  LET l == Layout(e.code)
  IN 2 * l.n_u16 + (IF e.code = CHARACTERISTIC_RESULT THEN 0 ELSE l.bytes)
     + (IF l.uuid THEN 1 + UuidLen ELSE 0) + (IF l.data THEN 2 + e.len ELSE 0)

\* Mutant: the byte for the code is not counted.
HasRoom_NoCode(e) == ringbuf_free(ringbuf) >= Need(e)

HasRoom(e) == ringbuf_free(ringbuf) >= Need(e) + 1

\* The scan result at the front is given up for another event.
GivesUpScan(e) ==
  ~HasRoom(e) /\ e.code # SCAN_RESULT /\ SCAN_RESULT \in ringbuf_peek(ringbuf)

\* Its fixed fields, one byte of its length, and as many bytes of data.
without_scan ==
  LET fixed == ringbuf_gets(ringbuf, 1 + 1 + 6 + 1 + 1)
  IN ringbuf_gets(ringbuf_gets(fixed, 1), IF ringbuf_peek(fixed) = {} THEN 0 ELSE Max(ringbuf_peek(fixed)))

Accepts(e) == irq_handler /\ (HasRoom(e) \/ GivesUpScan(e))

enqueue_irq(e) ==
  IF Accepts(e)
  THEN /\ \E r \in {IF HasRoom(e) THEN ringbuf ELSE without_scan} :
            ringbuf' = put_all(ringbuf_put(r, e.code), Fields(e))
       /\ pending' = Append(IF HasRoom(e) THEN pending ELSE Tail(pending), e)
  ELSE UNCHANGED <<ringbuf, pending>>

schedule_ringbuf ==
  /\ irq_scheduled' = TRUE
  /\ stack' = IF irq_scheduled THEN "idle" ELSE "schedule"
  /\ raised' = FALSE

Clipped(n) == Min({n, irq_data_data_alloc})

\* A function mp_bluetooth_..._on_... of the port API, up to EXIT.
Report(code, tag, n) ==
  LET e == [code |-> code, tag |-> tag, len |-> IF Layout(code).data THEN Clipped(n) ELSE 0]
  IN /\ stack = "idle"
     /\ enqueue_irq(e)
     /\ schedule_ringbuf
     /\ UNCHANGED <<irq_data_data_alloc, irq_handler, queued, invoke, refused>>

\* mp_sched_schedule takes the callback, or its queue is full.
Schedule ==
  /\ stack = "schedule" /\ queued < MaxQueued
  /\ stack' = "idle" /\ queued' = queued + 1
  /\ UNCHANGED <<ringbuf, irq_data_data_alloc, irq_handler, irq_scheduled, invoke, pending,
                 raised, refused>>

Refuse ==
  /\ stack = "schedule"
  /\ stack' = "idle" /\ refused' = TRUE
  /\ UNCHANGED <<ringbuf, irq_data_data_alloc, irq_handler, irq_scheduled, queued, invoke,
                 pending, raised>>
-----------------------------------------------------------------------------
(***************************************************************************)
(* bluetooth_ble_invoke_irq                                                *)
(***************************************************************************)
\* Mutant: the flag is left set.
Invoke_FlagKept ==
  /\ invoke = "no" /\ queued > 0
  /\ invoke' = "loop" /\ queued' = queued - 1
  /\ UNCHANGED <<ringbuf, irq_data_data_alloc, irq_handler, irq_scheduled, stack, pending,
                 raised, refused>>

\* The scheduler runs one callback at a time.
Invoke ==
  /\ invoke = "no" /\ queued > 0
  /\ invoke' = "loop" /\ queued' = queued - 1
  /\ irq_scheduled' = FALSE
  /\ UNCHANGED <<ringbuf, irq_data_data_alloc, irq_handler, stack, pending, raised, refused>>

\* The bytes ringbuf_extract takes behind the code; the lengths are in the ring.
extracted(c) ==
  LET l == Layout(c[1])
      fixed == 1 + 2 * l.n_u16 + l.bytes
  IN fixed + (IF l.uuid THEN 1 + c[fixed + 1] ELSE 0)
           + (IF l.data THEN 2 + 256 * c[fixed + 1] + c[fixed + 2] ELSE 0)

\* An event is taken.  Without a handler the call raises.
Take ==
  /\ invoke = "loop" /\ ringbuf.iget # ringbuf.iput
  /\ ringbuf' = ringbuf_gets(ringbuf, extracted(Contents(ringbuf)))
  /\ pending' = Tail(pending)
  /\ invoke' = IF irq_handler THEN "handler" ELSE "no"
  /\ raised' = (raised \/ ~irq_handler)
  /\ UNCHANGED <<irq_data_data_alloc, irq_handler, irq_scheduled, stack, queued, refused>>

TakeNothing ==
  /\ invoke = "loop" /\ ringbuf.iget = ringbuf.iput
  /\ invoke' = "no"
  /\ UNCHANGED <<ringbuf, irq_data_data_alloc, irq_handler, irq_scheduled, stack, queued,
                 pending, raised, refused>>

\* The handler returns, or raises out of the loop.
HandlerReturns ==
  /\ invoke = "handler" /\ invoke' = "loop"
  /\ UNCHANGED <<ringbuf, irq_data_data_alloc, irq_handler, irq_scheduled, stack, queued,
                 pending, raised, refused>>

HandlerRaises ==
  /\ invoke = "handler" /\ invoke' = "no" /\ raised' = TRUE
  /\ UNCHANGED <<ringbuf, irq_data_data_alloc, irq_handler, irq_scheduled, stack, queued,
                 pending, refused>>
-----------------------------------------------------------------------------
(***************************************************************************)
(* The program                                                             *)
(***************************************************************************)
\* BLE.irq.  The program runs when no report is under way in interrupt context,
\* or beside the stack's thread; invoke_irq runs it only as the handler.
Program == invoke # "loop"

irq(handler) ==
  /\ Program /\ irq_handler' = handler
  /\ UNCHANGED <<ringbuf, irq_data_data_alloc, irq_scheduled, stack, queued, invoke, pending,
                 raised, refused>>

\* BLE.config(rxbuf=n).  The events in the old ring are gone.
config_rxbuf(n) ==
  /\ Program
  /\ ringbuf' = ringbuf_alloc(n)
  /\ irq_data_data_alloc' = MAX_EVENT_DATA_BYTES_LEN(n)
  /\ pending' = <<>>
  /\ UNCHANGED <<irq_handler, irq_scheduled, stack, queued, invoke, raised, refused>>

Next ==
  \/ \E code \in Events, tag \in Tags, n \in Lens : Report(code, tag, n)
  \/ Schedule \/ Refuse
  \/ Invoke \/ Take \/ TakeNothing \/ HandlerReturns \/ HandlerRaises
  \/ \E h \in BOOLEAN : irq(h)
  \/ \E n \in RxBufs : config_rxbuf(n)

Spec == Init /\ [][Next]_vars
-----------------------------------------------------------------------------
(***************************************************************************)
(* Properties                                                              *)
(***************************************************************************)
TypeOK ==
  /\ ringbuf.iget \in 0 .. ringbuf.size - 1 /\ ringbuf.iput \in 0 .. ringbuf.size - 1
  /\ ringbuf.buf \in [0 .. ringbuf.size - 1 -> 0 .. 255]
  /\ irq_handler \in BOOLEAN /\ irq_scheduled \in BOOLEAN
  /\ stack \in {"idle", "schedule"} /\ queued \in 0 .. MaxQueued
  /\ invoke \in {"no", "loop", "handler"}

\* The ring holds whole events and nothing else, in the order they were accepted:
\* what invoke_irq takes for a code is one, whatever was refused or given up.
Framed == Contents(ringbuf) = FlattenSeq([i \in DOMAIN pending |-> Bytes(pending[i])])

\* "The code that enqueues into the ringbuf should ensure that it doesn't put more
\* than bt->irq_data_data_alloc bytes into the ringbuf": true of every waiting event,
\* also when the buffers have been exchanged.
DataFits == \A i \in DOMAIN pending : pending[i].len <= irq_data_data_alloc

\* An accepted event has an invocation ahead of it, unless the handler raised and
\* nothing was reported since, or the scheduler's queue was full when it mattered.
NoLostEvent ==
  pending # <<>> => invoke # "no" \/ queued > 0 \/ stack = "schedule" \/ raised \/ refused
=============================================================================
