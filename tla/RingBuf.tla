------------------------------ MODULE RingBuf ------------------------------
(***************************************************************************)
(* The byte ring of py/ringbuf.h and py/ringbuf.c, as functions on a       *)
(* record with the fields of ringbuf_t.  One slot is always left free.     *)
(***************************************************************************)
EXTENDS Naturals, Sequences, FiniteSetsExt

\* ringbuf_alloc
ringbuf_alloc(size) ==
  [buf |-> [i \in 0 .. size - 1 |-> 0], size |-> size, iget |-> 0, iput |-> 0]

ringbuf_free(r) == (r.size + r.iget - r.iput - 1) % r.size

ringbuf_avail(r) == (r.size + r.iput - r.iget) % r.size

\* -1 stands for an empty ring.
ringbuf_peek(r) == IF r.iget = r.iput THEN {} ELSE {r.buf[r.iget]}

\* The index behind i.
after(r, i) == IF i + 1 >= r.size THEN 0 ELSE i + 1

\* n calls of ringbuf_get; a call on an empty ring changes nothing.
ringbuf_gets(r, n) == [r EXCEPT !.iget = (r.iget + Min({n, ringbuf_avail(r)})) % r.size]

ringbuf_put(r, v) ==
  IF after(r, r.iput) = r.iget THEN r
  ELSE [r EXCEPT !.buf[r.iput] = v, !.iput = after(r, r.iput)]

\* Both bytes or none.
ringbuf_put16(r, hi, lo) ==
  LET a == after(r, r.iput)
      b == after(r, a)
  IN IF a = r.iget \/ b = r.iget THEN r
     ELSE [r EXCEPT !.buf[r.iput] = hi, !.buf[a] = lo, !.iput = b]

\* What there is to get, oldest first.
Contents(r) == [i \in 1 .. ringbuf_avail(r) |-> r.buf[(r.iget + i - 1) % r.size]]
=============================================================================
