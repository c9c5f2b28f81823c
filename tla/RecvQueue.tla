----------------------------- MODULE RecvQueue -----------------------------
(***************************************************************************)
(* The receive queue of src/modem/modem.c: the payloads of the waiting     *)
(* datagrams one after the other in the ring recv_qiurc_buf, and their     *)
(* lengths in the array recv_qiurc_lens, itself used as a ring with a      *)
(* count.  Both are used from the main loop only.                          *)
(*                                                                         *)
(* urc_buffer_handler calls arrive here when the whole datagram is in      *)
(* rx_buf (ModemRx); modem_socket_try_recv is called by net_recv.          *)
(***************************************************************************)
EXTENDS CircBuf

CONSTANTS
    Byte, Zero,
    MODEM_SOCKET_RECV_MAX,
    RECV_QIURC_LENS_BUF_SIZE,
    Datagrams,      \* the payloads the peer sends
    BufLens         \* the lengths of the buffers net_recv is called with

ASSUME QueueAssumption ==
    /\ MODEM_SOCKET_RECV_MAX \in Nat \ {0}
    /\ RECV_QIURC_LENS_BUF_SIZE \in Nat \ {0}
    /\ Zero \in Byte
    /\ Datagrams \subseteq Seq(Byte)
    /\ \A d \in Datagrams : Len(d) <= MODEM_SOCKET_RECV_MAX
    /\ BufLens \subseteq Nat

VARIABLES
    recv_qiurc_buf,
    recv_qiurc_lens, recv_qiurc_lens_start, recv_qiurc_lens_end, recv_qiurc_lens_count,
    handed          \* what the last successful modem_socket_try_recv returned

lens == <<recv_qiurc_lens, recv_qiurc_lens_start, recv_qiurc_lens_end, recv_qiurc_lens_count>>
vars == <<recv_qiurc_buf, lens, handed>>

Size == RECV_QIURC_LENS_BUF_SIZE

Init ==
    /\ recv_qiurc_buf = EmptyBuf(MODEM_SOCKET_RECV_MAX + 1, Zero)
    /\ recv_qiurc_lens = [k \in 0 .. Size - 1 |-> 0]
    /\ recv_qiurc_lens_start = 0 /\ recv_qiurc_lens_end = 0 /\ recv_qiurc_lens_count = 0
    /\ handed = <<>>

-----------------------------------------------------------------------------
\* Mutant: the array of lengths does not wrap.
Mut_NextLen(k) == k + 1

NextLen(k) == Slot(k + 1, Size)

\* Mutant: a datagram may take the slot that has to stay empty.
Mut_NoRoom(msg_len) ==
    \/ msg_len > circ_buf_free(recv_qiurc_buf) + 1
    \/ recv_qiurc_lens_count >= Size

NoRoom(msg_len) ==
    \/ msg_len > circ_buf_free(recv_qiurc_buf)
    \/ recv_qiurc_lens_count >= Size

(* The dropping branches of urc_buffer_handler change nothing here: no     *)
(* room, or a length at which the modem may have truncated the datagram.   *)
Dropped(msg_len) == NoRoom(msg_len) \/ msg_len = MODEM_SOCKET_RECV_MAX

urc_buffer_handler(msg) ==
    /\ ~Dropped(Len(msg))
    /\ recv_qiurc_buf' = circ_buf_append(recv_qiurc_buf, msg)
    /\ recv_qiurc_lens' = [recv_qiurc_lens EXCEPT ![recv_qiurc_lens_end] = Len(msg)]
    /\ recv_qiurc_lens_end' = NextLen(recv_qiurc_lens_end)
    /\ recv_qiurc_lens_count' = recv_qiurc_lens_count + 1
    /\ UNCHANGED <<recv_qiurc_lens_start, handed>>

(* modem_socket_try_recv, with a datagram waiting. *)
oldest_len == recv_qiurc_lens[recv_qiurc_lens_start]

PopLen ==
    /\ recv_qiurc_lens_count > 0
    /\ recv_qiurc_lens_start' = NextLen(recv_qiurc_lens_start)
    /\ recv_qiurc_lens_count' = recv_qiurc_lens_count - 1
    /\ UNCHANGED <<recv_qiurc_lens, recv_qiurc_lens_end>>

\* Mutant: the bytes of a datagram that is too long are not skipped.
Mut_RecvTooShort(buf_len) ==
    /\ PopLen
    /\ buf_len < oldest_len
    /\ UNCHANGED <<recv_qiurc_buf, handed>>

RecvTooShort(buf_len) ==
    /\ PopLen
    /\ buf_len < oldest_len
    /\ recv_qiurc_buf' = circ_buf_advance_n(recv_qiurc_buf, oldest_len)
    /\ UNCHANGED handed

Recv(buf_len) ==
    /\ PopLen
    /\ buf_len >= oldest_len
    /\ handed' = [k \in 1 .. oldest_len |-> circ_buf_seek(recv_qiurc_buf, k - 1)]
    /\ recv_qiurc_buf' = circ_buf_advance_n(recv_qiurc_buf, oldest_len)

Next ==
    \/ \E d \in Datagrams : urc_buffer_handler(d)
    \/ \E n \in BufLens : RecvTooShort(n) \/ Recv(n)

Spec == Init /\ [][Next]_vars

-----------------------------------------------------------------------------
(* The types of the state. *)
TypeOK ==
    /\ recv_qiurc_buf \in CircBufs(MODEM_SOCKET_RECV_MAX + 1, Byte)
    /\ recv_qiurc_lens \in [0 .. Size - 1 -> 0 .. MODEM_SOCKET_RECV_MAX]
    /\ recv_qiurc_lens_start \in 0 .. Size - 1 /\ recv_qiurc_lens_end \in 0 .. Size - 1
    /\ recv_qiurc_lens_count \in 0 .. Size
    /\ handed \in Seq(Byte)

(* Where the k-th waiting datagram ends in the ring. *)
Ends[k \in 0 .. recv_qiurc_lens_count] ==
    IF k = 0 THEN 0
    ELSE Ends[k - 1] + recv_qiurc_lens[Slot(recv_qiurc_lens_start + k - 1, Size)]

(* The two structures agree: the lengths add up to what the ring holds,    *)
(* and their start, end and count fit each other.                          *)
LensAddUp ==
    /\ Ends[recv_qiurc_lens_count] = circ_buf_avail(recv_qiurc_buf)
    /\ Slot(recv_qiurc_lens_start + recv_qiurc_lens_count, Size) = recv_qiurc_lens_end

Waiting ==
    [k \in 1 .. recv_qiurc_lens_count |->
        SubSeq(Contents(recv_qiurc_buf), Ends[k - 1] + 1, Ends[k])]

(* The ring and the array implement a bounded queue of datagrams: each     *)
(* comes out whole, with its own length, in the order of arrival, and one  *)
(* that does not fit the caller's buffer takes no byte of the next.        *)
Queue == INSTANCE DatagramQueue
           WITH queue <- Waiting, MaxCount <- Size, MaxBytes <- MODEM_SOCKET_RECV_MAX
ImplementsQueue == Queue!Spec
=============================================================================
