------------------------------ MODULE CircBuf ------------------------------
(***************************************************************************)
(* circ_buf_t of src/modem/circ_buf.h: the ring that carries bytes between *)
(* the main loop and the LPUART1 interrupt in both directions, and that    *)
(* holds the datagrams waiting for net_recv.                               *)
(*                                                                         *)
(* A ring is a record; one slot always stays empty, so that begin = end    *)
(* means "empty".  The operators are those of the header, by name.  A      *)
(* module that needs the accesses inside an operator to be separate steps  *)
(* (ModemRx) writes those steps itself and says which operator they are.   *)
(***************************************************************************)
EXTENDS Naturals, Sequences

(* Every value a ring of len slots over Byte can have. *)
CircBufs(len, Byte) ==
    [begin : 0 .. len-1, end : 0 .. len-1, len : {len},
     storage : [0 .. len-1 -> Byte]]

(* A ring in static storage: indices zero, every slot the same byte. *)
EmptyBuf(len, zero) ==
    [begin |-> 0, end |-> 0, len |-> len, storage |-> [i \in 0 .. len-1 |-> zero]]

circ_buf_avail(buf) ==
    IF buf.begin <= buf.end THEN buf.end - buf.begin
                            ELSE buf.len - buf.begin + buf.end

circ_buf_free(buf) == buf.len - circ_buf_avail(buf) - 1

(* Every index is reduced to a slot. *)
Slot(k, len) == k % len

\* Mutant: the end index does not wrap.
Mut_push_NoWrap(buf, to_push) ==
    [buf EXCEPT !.storage[buf.end] = to_push, !.end = buf.end + 1]

circ_buf_push(buf, to_push) ==
    [buf EXCEPT !.storage[buf.end] = to_push, !.end = Slot(buf.end + 1, buf.len)]

circ_buf_seek(buf, at) == buf.storage[Slot(buf.begin + at, buf.len)]

circ_buf_advance_n(buf, n) == [buf EXCEPT !.begin = Slot(buf.begin + n, buf.len)]

(* circ_buf_pop is circ_buf_seek(buf, 0) for its value and this for its effect. *)
circ_buf_pop(buf) == circ_buf_advance_n(buf, 1)

(* The storage after circ_buf_append has written bytes from end on. *)
Written(buf, bytes) ==
    [i \in 0 .. buf.len - 1 |->
        LET k == Slot(i + buf.len - buf.end, buf.len)
        IN  IF k < Len(bytes) THEN bytes[k + 1] ELSE buf.storage[i]]

\* Mutant: the end index does not wrap.
Mut_append_NoWrap(buf, bytes) ==
    [buf EXCEPT !.storage = Written(buf, bytes), !.end = buf.end + Len(bytes)]

(* The loop of circ_buf_append, taken when the bytes fit. *)
circ_buf_append(buf, bytes) ==
    [begin |-> buf.begin, end |-> Slot(buf.end + Len(bytes), buf.len), len |-> buf.len,
     storage |-> Written(buf, bytes)]

(* What the ring holds, oldest byte first. *)
Contents(buf) == [i \in 1 .. circ_buf_avail(buf) |-> circ_buf_seek(buf, i - 1)]
=============================================================================
