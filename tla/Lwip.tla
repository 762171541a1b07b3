-------------------------------- MODULE Lwip --------------------------------
(***************************************************************************)
(* TCP sockets on lwIP (extmod/modlwip.c).  A Python program calls the     *)
(* methods of its sockets one at a time; the stack calls back between any  *)
(* two of their steps, except where MICROPY_PY_LWIP_ENTER keeps it out     *)
(* (the ports that process packets from an interrupt).  The stack is       *)
(* external: a control block (pcb) holds the callbacks and the argument    *)
(* that they are called with.  Bytes of a connection are numbered.         *)
(***************************************************************************)
EXTENDS Integers, Sequences, FiniteSets, SequencesExt

CONSTANTS
  Socks, Pcbs, NULL,
  Backlogs,      \* arguments of listen()
  NonBlocking,   \* whether the program reads from sockets with a timeout of 0
  MaxBytes       \* of a connection

VARIABLES
  sock,          \* the lwip_socket_obj_t objects
  tcp,           \* the pcbs
  call,          \* the method that is being executed
  got            \* what recv has returned of a socket since it was made

vars == <<sock, tcp, call, got>>

\* Errors are the states below STATE_NEW.
Errors == {"ERR_RST", "_ERR_BADF"}

NoSock == [pcb |-> NULL, state |-> "unmade", pbuf |-> <<>>, recv_offset |-> 0,
           alloc |-> 0, iget |-> 0, iput |-> 0, queue |-> [i \in {0} |-> NULL]]
NoPcb == [state |-> "FREE", arg |-> NULL, err |-> "none", recv |-> "none", connected |-> NULL,
          bytes |-> 0, fin |-> FALSE]
Nothing == [data |-> <<>>, eof |-> FALSE]
Idle == [op |-> "none", s |-> NULL, at |-> "none"]

\* Objects and pcbs that are free are interchangeable: one of them.
AnyOf(S) == IF S = {} THEN {} ELSE {CHOOSE x \in S : TRUE}
FreeSocks == AnyOf({s \in Socks : sock[s].state = "unmade"})
FreePcbs == AnyOf({p \in Pcbs : tcp[p].state = "FREE"})

Slots(sk) == IF sk.alloc = 0 THEN 1 ELSE sk.alloc
Wrap(sk, i) == IF i + 1 >= sk.alloc THEN 0 ELSE i + 1

\* Mutant: the entries behind p stay where they are.
Unqueue_Hole(sk, p) ==
  [sk EXCEPT !.queue = [i \in DOMAIN sk.queue |-> IF sk.queue[i] = p THEN NULL ELSE sk.queue[i]]]

\* _lwip_tcp_err_unaccepted: the entries behind p move down by one.
Unqueue(sk, p) ==
  LET n == IF sk.iput = sk.iget THEN Slots(sk) ELSE (sk.iput + Slots(sk) - sk.iget) % Slots(sk)
      at(k) == (sk.iget + k) % Slots(sk)
      last == at(n - 1)
      found == {k \in 0 .. n - 1 : sk.queue[at(k)] = p}
  IN IF found = {} THEN sk
     ELSE LET f == CHOOSE k \in found : \A j \in found : k <= j
              down(i) == \E k \in f .. n - 2 : i = at(k)
          IN [sk EXCEPT !.queue = [i \in DOMAIN sk.queue |->
                                     IF i = last THEN NULL
                                     ELSE IF down(i) THEN sk.queue[(i + 1) % Slots(sk)]
                                     ELSE sk.queue[i]],
                        !.iput = last]

\* lwip_socket_free_incoming of a listening socket.  tcp_abort calls the error
\* callback of the pcb, which is still the one of the accept queue.
Abort(sk, i) ==
  IF sk.queue[i] = NULL THEN sk ELSE [Unqueue(sk, sk.queue[i]) EXCEPT !.queue[i] = NULL]

AbortAll(sk) == FoldLeft(Abort, sk, [i \in 1 .. sk.alloc |-> i - 1])

\* The pcbs that AbortAll aborts.
Aborted(sk) ==
  {FoldLeft(Abort, sk, [j \in 1 .. i |-> j - 1]).queue[i] : i \in 0 .. sk.alloc - 1} \ {NULL}

lwip_socket_free_incoming(sk, listening) ==
  IF listening THEN AbortAll(sk) ELSE [sk EXCEPT !.pbuf = <<>>]
-----------------------------------------------------------------------------
(* Methods.  The ones that cannot wait are one step.                       *)
lwip_socket_make_new(s, p) ==
  /\ call = Idle
  /\ s \in FreeSocks /\ p \in FreePcbs
  /\ sock' = [sock EXCEPT ![s] = [NoSock EXCEPT !.pcb = p, !.state = "STATE_NEW"]]
  /\ tcp' = [tcp EXCEPT ![p] = [NoPcb EXCEPT !.state = "CLOSED", !.arg = s, !.err = "error"]]
  /\ UNCHANGED <<call, got>>

lwip_socket_listen(s, backlog) ==
  LET alloc == IF backlog <= 1 THEN 0 ELSE backlog
  IN /\ call = Idle
     /\ sock[s].pcb # NULL
     /\ tcp[sock[s].pcb].state = "CLOSED"
     /\ tcp' = [tcp EXCEPT ![sock[s].pcb].state = "LISTEN", ![sock[s].pcb].err = "none"]
     /\ sock' = [sock EXCEPT ![s] =
          [@ EXCEPT !.alloc = alloc, !.iget = 0, !.iput = 0, !.state = "STATE_LISTENING",
                    !.queue = [i \in 0 .. (IF alloc = 0 THEN 0 ELSE alloc - 1) |-> NULL]]]
     /\ UNCHANGED <<call, got>>

\* The program has called accept, connect, send or recv of a socket with a pcb.
Call(op, s, at) ==
  /\ call = Idle
  /\ sock[s].pcb # NULL
  /\ call' = [op |-> op, s |-> s, at |-> at]

In(op, at) == call.op = op /\ call.at = at
Return == call' = Idle
Goto(at) == call' = [call EXCEPT !.at = at]

\* A wait that is over because of the timeout.
TimedOut ==
  /\ call.at = "wait"
  /\ Return
  /\ UNCHANGED <<sock, tcp, got>>

\* The pcb or the buffer is gone when the method uses it: the end.
Crash(at) ==
  /\ Goto(at)
  /\ UNCHANGED <<sock, tcp, got>>

lwip_socket_accept(s) ==
  /\ sock[s].pcb # NULL /\ tcp[sock[s].pcb].state = "LISTEN"
  /\ Call("accept", s, "wait")
  /\ UNCHANGED <<sock, tcp, got>>

Accepted(s2) ==
  LET s == call.s
      sk == sock[s]
      p == sk.queue[sk.iget]
  IN /\ In("accept", "wait")
     /\ p # NULL
     /\ s2 \in FreeSocks
     /\ sock' = [sock EXCEPT ![s] = [@ EXCEPT !.iget = Wrap(sk, sk.iget), !.queue[sk.iget] = NULL],
                             ![s2] = [NoSock EXCEPT !.pcb = p, !.state = "STATE_CONNECTED"]]
     /\ tcp' = [tcp EXCEPT ![p] = [@ EXCEPT !.arg = s2, !.err = "error", !.recv = "recv"]]
     /\ call' = [op |-> "accept", s |-> s2, at |-> "peer"]
     /\ UNCHANGED got

\* The address of the peer is read from the pcb when the lock is given up.
AcceptPeer ==
  /\ In("accept", "peer")
  /\ IF sock[call.s].pcb = NULL THEN Crash("null")
     ELSE Return /\ UNCHANGED <<sock, tcp, got>>

\* tcp_connect fails; the state is what it was.
lwip_socket_connect_er(s) ==
  /\ call = Idle
  /\ sock[s].state = "STATE_NEW"
  /\ tcp' = [tcp EXCEPT ![sock[s].pcb].recv = "recv"]
  /\ UNCHANGED <<sock, call, got>>

lwip_socket_connect(s) ==
  /\ sock[s].state = "STATE_NEW"
  /\ Call("connect", s, "wait")
  /\ tcp' = [tcp EXCEPT ![sock[s].pcb] = [@ EXCEPT !.recv = "recv", !.state = "SYN_SENT"]]
  /\ sock' = [sock EXCEPT ![s].state = "STATE_CONNECTING"]
  /\ UNCHANGED got

Connected ==
  /\ In("connect", "wait")
  /\ sock[call.s].state # "STATE_CONNECTING"
  /\ Return
  /\ UNCHANGED <<sock, tcp, got>>
-----------------------------------------------------------------------------
(* send and recv of a socket that has lost its pcb: the error, once.       *)
lwip_socket_check_connected(s) ==
  /\ call = Idle
  /\ sock[s].state # "unmade" /\ sock[s].pcb = NULL
  /\ sock' = [sock EXCEPT ![s].state = "_ERR_BADF"]
  /\ UNCHANGED <<tcp, call, got>>

\* STREAM_ERROR_CHECK reads the state, then the pcb.
ErrorCheck ==
  /\ call.at = "errors"
  /\ IF sock[call.s].state \in Errors THEN Return ELSE Goto("pcb")
  /\ UNCHANGED <<sock, tcp, got>>

PcbCheck ==
  /\ call.at = "pcb"
  /\ Goto(IF sock[call.s].pcb = NULL THEN "failed" ELSE IF call.op = "recv" THEN "check" ELSE "lock")
  /\ UNCHANGED <<sock, tcp, got>>
-----------------------------------------------------------------------------
(* lwip_tcp_receive.  Programs do not read from a listening socket.        *)
lwip_socket_recv(s) ==
  /\ sock[s].state # "STATE_LISTENING"
  /\ Call("recv", s, "errors")
  /\ UNCHANGED <<sock, tcp, got>>

RecvCheck ==
  /\ In("recv", "check")
  /\ \E at \in IF sock[call.s].pbuf # <<>> THEN {"take"}
              ELSE {"wait"} \cup (IF NonBlocking THEN {"poll"} ELSE {}) : Goto(at)
  /\ UNCHANGED <<sock, tcp, got>>

Eof == got' = [got EXCEPT ![call.s].eof = TRUE]

RecvWait ==
  /\ In("recv", "wait")
  /\ sock[call.s].state # "STATE_CONNECTED" \/ sock[call.s].pbuf # <<>>
  /\ Goto("look")
  /\ UNCHANGED <<sock, tcp, got>>

\* After the wait the state, the buffer and again the state are looked at, and
\* the stack may run before each look.  With a timeout of 0 the state alone
\* decides between EOF and EAGAIN.
RecvLook ==
  LET closed == sock[call.s].state = "STATE_PEER_CLOSED"
  IN /\ call.op = "recv" /\ call.at \in {"look", "poll"}
     /\ IF call.at = "poll" THEN Return ELSE Goto(IF closed THEN "closed" ELSE "open")
     /\ IF call.at = "poll" /\ closed THEN Eof ELSE UNCHANGED got
     /\ UNCHANGED <<sock, tcp>>

\* Mutant: EOF as soon as the peer has closed.
RecvClosed_Early ==
  /\ In("recv", "closed")
  /\ Return /\ Eof
  /\ UNCHANGED <<sock, tcp>>

RecvClosed ==
  /\ In("recv", "closed")
  /\ IF sock[call.s].pbuf = <<>> THEN Return /\ Eof ELSE Goto("take") /\ UNCHANGED got
  /\ UNCHANGED <<sock, tcp>>

RecvOpen ==
  /\ In("recv", "open")
  /\ IF sock[call.s].state = "STATE_CONNECTED" THEN Goto("take") ELSE Return
  /\ UNCHANGED <<sock, tcp, got>>

\* With the lock: at most len bytes of the first pbuf.
RecvTake(len) ==
  /\ In("recv", "take")
  /\ LET s == call.s
         sk == sock[s]
         rest == SubSeq(Head(sk.pbuf), sk.recv_offset + 1, Len(Head(sk.pbuf)))
         data == SubSeq(rest, 1, IF len > Len(rest) THEN Len(rest) ELSE len)
     IN IF sk.pcb = NULL THEN Crash("assert")
        ELSE IF sk.pbuf = <<>> THEN Crash("null")
        ELSE /\ sock' = [sock EXCEPT ![s] =
                  IF data = rest THEN [@ EXCEPT !.pbuf = Tail(@), !.recv_offset = 0]
                  ELSE [@ EXCEPT !.recv_offset = @ + Len(data)]]
             /\ got' = [got EXCEPT ![s].data = @ \o data]
             /\ Return
             /\ UNCHANGED tcp
-----------------------------------------------------------------------------
(* lwip_tcp_send                                                           *)
lwip_socket_send(s) ==
  /\ Call("send", s, "errors")
  /\ UNCHANGED <<sock, tcp, got>>

\* tcp_write, with the lock: done, or there is no memory and the lock is given
\* up for 50 ms.
Write ==
  IF sock[call.s].pcb = NULL THEN Crash("null")
  ELSE /\ Return \/ Goto("retry")
       /\ UNCHANGED <<sock, tcp, got>>

\* The buffer of the pcb may be full.
SendLock ==
  \/ In("send", "lock") /\ Write
  \/ /\ In("send", "lock")
     /\ sock[call.s].pcb # NULL
     /\ Goto("wait")
     /\ UNCHANGED <<sock, tcp, got>>

SendWait ==
  /\ In("send", "wait")
  /\ IF sock[call.s].state \in Errors THEN Return /\ UNCHANGED <<sock, tcp, got>> ELSE Write

SendRetry == In("send", "retry") /\ Write
-----------------------------------------------------------------------------
\* MP_STREAM_CLOSE.  lwIP may keep the pcb of a connection for a while.
lwip_socket_close(s) ==
  LET p == sock[s].pcb
      listening == tcp[p].state = "LISTEN"
      gone == IF listening THEN Aborted(sock[s]) ELSE {}
  IN /\ call = Idle
     /\ p # NULL
     /\ sock' = [sock EXCEPT ![s] = [lwip_socket_free_incoming(@, listening) EXCEPT
                                       !.pcb = NULL, !.state = "_ERR_BADF"]]
     /\ \E after \in IF tcp[p].state = "ESTABLISHED" THEN {"FREE", "CLOSING"} ELSE {"FREE"} :
          tcp' = [q \in Pcbs |->
                    IF q = p /\ after = "CLOSING"
                    THEN [tcp[p] EXCEPT !.state = after, !.arg = NULL, !.err = "none", !.recv = "none"]
                    ELSE IF q = p \/ q \in gone THEN NoPcb ELSE tcp[q]]
     /\ got' = [got EXCEPT ![s] = Nothing]
     /\ UNCHANGED call
-----------------------------------------------------------------------------
(* Callbacks.  The stack runs between the steps of a method.               *)
_lwip_tcp_connected(p) ==
  /\ tcp[p].state = "SYN_SENT"
  /\ tcp' = [tcp EXCEPT ![p].state = "ESTABLISHED"]
  /\ sock' = [sock EXCEPT ![tcp[p].arg].state = "STATE_CONNECTED"]
  /\ UNCHANGED <<call, got>>

\* Mutant: the socket keeps the pcb.
_lwip_tcp_error_Kept(p) ==
  /\ tcp[p].state \in {"SYN_SENT", "ESTABLISHED"} /\ tcp[p].err = "error"
  /\ tcp' = [tcp EXCEPT ![p] = NoPcb]
  /\ sock' = [sock EXCEPT ![tcp[p].arg] =
                [lwip_socket_free_incoming(@, FALSE) EXCEPT !.state = "ERR_RST"]]
  /\ got' = [got EXCEPT ![tcp[p].arg] = Nothing]
  /\ UNCHANGED call

\* The connection is reset.
_lwip_tcp_error(p) ==
  /\ tcp[p].state \in {"SYN_SENT", "ESTABLISHED"} /\ tcp[p].err = "error"
  /\ tcp' = [tcp EXCEPT ![p] = NoPcb]
  /\ sock' = [sock EXCEPT ![tcp[p].arg] =
                [lwip_socket_free_incoming(@, FALSE) EXCEPT !.state = "ERR_RST", !.pcb = NULL]]
  /\ got' = [got EXCEPT ![tcp[p].arg] = Nothing]
  /\ UNCHANGED call

_lwip_tcp_err_unaccepted(p) ==
  /\ tcp[p].state = "ESTABLISHED" /\ tcp[p].err = "unaccepted"
  /\ tcp' = [tcp EXCEPT ![p] = NoPcb]
  /\ sock' = [sock EXCEPT ![tcp[p].connected] = Unqueue(@, p)]
  /\ UNCHANGED <<call, got>>

\* A connection that has been closed goes, at the latest when this aborts it.
_lwip_tcp_close_poll(p) ==
  /\ tcp[p].state = "CLOSING"
  /\ tcp' = [tcp EXCEPT ![p] = NoPcb]
  /\ UNCHANGED <<sock, call, got>>

\* A connection that finds no slot is dropped by lwIP.
_lwip_tcp_accept(p, q) ==
  LET s == tcp[p].arg
      sk == sock[s]
  IN /\ tcp[p].state = "LISTEN"
     /\ q \in FreePcbs
     /\ sk.queue[sk.iput] = NULL
     /\ sock' = [sock EXCEPT ![s] = [@ EXCEPT !.queue[sk.iput] = q, !.iput = Wrap(sk, @)]]
     /\ tcp' = [tcp EXCEPT ![q] = [NoPcb EXCEPT !.state = "ESTABLISHED", !.arg = q,
                                     !.err = "unaccepted", !.recv = "unaccepted", !.connected = s]]
     /\ UNCHANGED <<call, got>>

\* Data for a connection that is not accepted stays in the stack.
_lwip_tcp_recv(p, n) ==
  LET b == tcp[p].bytes
  IN /\ tcp[p].state = "ESTABLISHED" /\ tcp[p].recv = "recv"
     /\ ~tcp[p].fin
     /\ b + n <= MaxBytes
     /\ tcp' = [tcp EXCEPT ![p].bytes = b + n]
     /\ sock' = [sock EXCEPT ![tcp[p].arg].pbuf = Append(@, [i \in 1 .. n |-> b + i])]
     /\ UNCHANGED <<call, got>>

_lwip_tcp_recv_fin(p) ==
  /\ tcp[p].state = "ESTABLISHED" /\ tcp[p].recv = "recv"
  /\ ~tcp[p].fin
  /\ tcp' = [tcp EXCEPT ![p].fin = TRUE]
  /\ sock' = [sock EXCEPT ![tcp[p].arg].state = "STATE_PEER_CLOSED"]
  /\ UNCHANGED <<call, got>>
-----------------------------------------------------------------------------
Init ==
  /\ sock = [s \in Socks |-> NoSock]
  /\ tcp = [p \in Pcbs |-> NoPcb]
  /\ call = Idle
  /\ got = [s \in Socks |-> Nothing]

Python ==
  \/ \E s \in Socks :
       \/ \E p \in Pcbs : lwip_socket_make_new(s, p)
       \/ \E b \in Backlogs : lwip_socket_listen(s, b)
       \/ lwip_socket_accept(s) \/ Accepted(s) \/ lwip_socket_connect(s)
       \/ lwip_socket_connect_er(s)
       \/ lwip_socket_recv(s) \/ lwip_socket_send(s) \/ lwip_socket_close(s)
       \/ lwip_socket_check_connected(s)
  \/ TimedOut \/ Connected \/ AcceptPeer \/ ErrorCheck \/ PcbCheck
  \/ RecvCheck \/ RecvWait \/ RecvLook \/ RecvClosed \/ RecvOpen
  \/ \E len \in 1 .. 2 : RecvTake(len)
  \/ SendLock \/ SendWait \/ SendRetry

Stack ==
  /\ call.at \notin {"assert", "failed", "null"}
  /\ \E p \in Pcbs :
       \/ _lwip_tcp_connected(p) \/ _lwip_tcp_error(p) \/ _lwip_tcp_err_unaccepted(p)
       \/ _lwip_tcp_close_poll(p) \/ _lwip_tcp_recv_fin(p)
       \/ \E q \in Pcbs : _lwip_tcp_accept(p, q)
       \/ \E n \in 1 .. 2 : _lwip_tcp_recv(p, n)

Next == Python \/ Stack

Spec == Init /\ [][Next]_vars
-----------------------------------------------------------------------------
\* A socket that has a pcb is the one that lwIP tells of it: the pcb is alive,
\* no other socket has it, and its callbacks are called with this socket.
OwnsPcb ==
  \A s \in Socks : sock[s].pcb # NULL =>
    /\ tcp[sock[s].pcb].state # "FREE"
    /\ tcp[sock[s].pcb].arg = s

\* The accept queue of a listening socket is a ring without holes from iget up
\* to iput, and holds exactly the connections that nobody has accepted.
QueueIsRing ==
  \A s \in Socks : sock[s].state = "STATE_LISTENING" =>
    LET sk == sock[s]
        waiting == {p \in Pcbs : tcp[p].connected = s /\ tcp[p].err = "unaccepted"}
    IN /\ {sk.queue[i] : i \in DOMAIN sk.queue} \ {NULL} = waiting
       /\ \A i \in DOMAIN sk.queue :
            sk.queue[i] # NULL <=> (i + Slots(sk) - sk.iget) % Slots(sk) < Cardinality(waiting)
       /\ sk.iput = (sk.iget + Cardinality(waiting)) % Slots(sk)

\* What recv has returned and what is buffered are together what the peer has
\* sent, in order, and EOF comes after the last byte.
StreamIntact ==
  \A s \in Socks :
    LET sk == sock[s]
        rest == SubSeq(FlattenSeq(sk.pbuf), sk.recv_offset + 1, Len(FlattenSeq(sk.pbuf)))
    IN /\ sk.pcb # NULL /\ sk.state # "STATE_LISTENING" =>
            got[s].data \o rest = [i \in 1 .. tcp[sk.pcb].bytes |-> i]
       /\ got[s].eof => sk.pbuf = <<>>

\* lwip_tcp_receive asserts that the socket still has its pcb when it comes to
\* take the data.
RecvAsserts == ~In("recv", "assert")
=============================================================================
