---------------------------- MODULE ModemSocket ----------------------------
(***************************************************************************)
(* The socket operations of src/modem/modem.c as functions on the state of *)
(* the modem driver, m:                                                    *)
(*   m.rx     what rx_buf holds: lines, and what arrives without an end of *)
(*            line (the prompt, the space after it, a payload)             *)
(*   m.tx     the command being transmitted, None when tx_ongoing is false *)
(*   m.queue  the datagrams in recv_qiurc_buf                              *)
(*   m.step   the step of the operation in progress                        *)
(* Each returns [res, m]: the code's return value (negative: failed, 0:    *)
(* done, 1: try again) and the new state.                                  *)
(*                                                                         *)
(* An arriving line is a tuple whose first element is its kind.  HDR is    *)
(* +QIURC: "recv" with a datagram, PAY the payload that follows it, JUNK a *)
(* line that no table knows.  The bytes under the lines, and the rings     *)
(* that hold them, are those of ModemRx and ModemTx: a line is seen here   *)
(* when LineIsReal of ModemRx says it is one, and a command is started as  *)
(* a whole or not at all (NoResidue of ModemTx).                           *)
(*                                                                         *)
(* The driver is assumed to receive no byte more than its ring holds, and  *)
(* a payload to contain no CR and no LF.  It matters for a payload whose   *)
(* header was flushed or matched as an unexpected line: its bytes are then *)
(* scanned for lines, and one inside it that reads OK would complete an    *)
(* operation (see FirstLine).                                              *)
(***************************************************************************)
EXTENDS Integers, Sequences, SequencesExt

CONSTANTS
    Datagrams,                  \* what the peer may send
    Size,                       \* the length of each
    MODEM_SOCKET_RECV_MAX,
    RECV_QIURC_LENS_BUF_SIZE

ASSUME ModemSocketAssumption ==
    /\ MODEM_SOCKET_RECV_MAX \in Nat \ {0}
    /\ RECV_QIURC_LENS_BUF_SIZE \in Nat \ {0}
    /\ Size \in [Datagrams -> 0 .. MODEM_SOCKET_RECV_MAX]

None == <<>>

Line(kind) == <<kind>>
Unterminated == {"PROMPT", "SPACE", "PAY"}

Reply(res, m) == [res |-> res, m |-> m]

(* modem_rx_advance over n arrivals. *)
Advance(m, n) == [m EXCEPT !.rx = SubSeq(@, n + 1, Len(@))]

modem_rx_buf_flush(m) == [m EXCEPT !.rx = <<>>]

(* modem_rx_seek_line_length: how many arrivals make up the first line, 0  *)
(* if it has not ended.  What has no end of its own ends with the \r\n     *)
(* that starts the next arrival; the space follows the prompt directly.    *)
(* A payload without its header is one such arrival, which the code would  *)
(* split at every CR or LF inside it.                                      *)
FirstLine(rx) ==
    LET n == IF Len(rx) > 1 /\ Head(rx) = Line("PROMPT") /\ rx[2] = Line("SPACE")
             THEN 2 ELSE 1
    IN  IF rx # <<>> /\ (Head(rx)[1] \notin Unterminated \/ Len(rx) > n) THEN n ELSE 0

-----------------------------------------------------------------------------
(* urc_buffer_handler drops a datagram that has no room in the ring or in  *)
(* the array of lengths, or that may have been truncated by the modem.     *)
QueuedBytes(queue) == FoldSeq(LAMBDA d, sum : sum + Size[d], 0, queue)

\* Mutant: the array of lengths takes one too many.
Mut_Refused(queue, d) ==
    \/ Size[d] > MODEM_SOCKET_RECV_MAX - QueuedBytes(queue)
    \/ Len(queue) > RECV_QIURC_LENS_BUF_SIZE
    \/ Size[d] = MODEM_SOCKET_RECV_MAX

Refused(queue, d) ==
    \/ Size[d] > MODEM_SOCKET_RECV_MAX - QueuedBytes(queue)
    \/ Len(queue) >= RECV_QIURC_LENS_BUF_SIZE
    \/ Size[d] = MODEM_SOCKET_RECV_MAX

\* Mutant: a line that announces no datagram is not skipped.
Mut_urc_NoAdvance(m) ==
    IF m.rx # <<>> /\ Head(m.rx)[1] = "HDR" /\ Len(m.rx) > 1
    THEN Reply(0, Advance(m, 2)) ELSE Reply(1, m)

urc_buffer_handler(m) ==
    LET n == FirstLine(m.rx)
    IN  CASE n = 0                    -> Reply(1, m)
          [] n > 0 /\ Head(m.rx)[1] # "HDR" -> Reply(1, Advance(m, n))
          [] n > 0 /\ Head(m.rx)[1] = "HDR" /\ Len(m.rx) = 1 -> Reply(1, m)
          [] OTHER ->
               LET d == Head(m.rx)[2]
               IN  IF Refused(m.queue, d)
                   THEN Reply(-1, Advance(m, 2))
                   ELSE Reply(0, [Advance(m, 2) EXCEPT !.queue = Append(@, d)])

(* The length of the caller's buffer decides the value returned and not    *)
(* the state: the datagram is taken off the queue in any case.             *)
modem_socket_try_recv(m) ==
    IF m.queue # <<>>
    THEN Reply(0, [m EXCEPT !.queue = Tail(@)])
    ELSE LET r == urc_buffer_handler(m)
         IN  Reply(IF r.res < 0 THEN -1 ELSE 1, r.m)

-----------------------------------------------------------------------------
(* match_responses; the socket operations use the strict variant, in which *)
(* a line the table does not have is a failure.                            *)
match_responses(m, responses, on_unexpected) ==
    LET n == FirstLine(m.rx)
        known == n = 1 /\ Head(m.rx)[1] \in DOMAIN responses
    IN  IF n = 0 THEN Reply(1, m)
                 ELSE Reply(IF known THEN responses[Head(m.rx)[1]] ELSE on_unexpected,
                            Advance(m, n))

match_responses_strict(m, responses) == match_responses(m, responses, -1)

ok_or_error == [OK |-> 0, ERROR |-> -1]
open_responses == [QIOPEN_OK |-> 0]

\* Mutant: the space after the prompt counts as the answer.
Mut_send_responses == [SEND_OK |-> 0, SPACE |-> 0]
send_responses == [SEND_OK |-> 0, SPACE |-> 1]

(* modem_tx_append and modem_tx_start; res is that of the first that fails.*)
Transmit(m, command) ==
    IF m.tx # None THEN Reply(-1, m) ELSE Reply(0, [m EXCEPT !.tx = command])

-----------------------------------------------------------------------------
modem_socket_open_init(m, hostname) ==
    LET r == Transmit(modem_rx_buf_flush(m), <<"QIOPEN", hostname>>)
    IN  IF r.res # 0 THEN r ELSE Reply(0, [r.m EXCEPT !.step = 0])

\* Mutant: OK alone completes the operation.
Mut_open_continue(m) == match_responses_strict(m, ok_or_error)

modem_socket_open_continue(m) ==
    IF m.step = 0
    THEN LET r == match_responses_strict(m, ok_or_error)
         IN  IF r.res # 0 THEN r ELSE Reply(1, [r.m EXCEPT !.step = 1])
    ELSE match_responses_strict(m, open_responses)

modem_socket_send_init(m, buf) ==
    LET r == Transmit(m, <<"QISEND", buf>>)
    IN  IF r.res # 0 THEN r ELSE Reply(0, [r.m EXCEPT !.step = 0])

(* The payload and the Ctrl-Z that ends it. *)
TransmitPayload(m, buf) ==
    LET r == Transmit(m, <<"DATA", buf>>)
    IN  IF r.res # 0 THEN r ELSE Reply(1, [r.m EXCEPT !.step = 1])

\* Mutant: whatever arrives first is taken for the prompt.
Mut_AwaitPrompt(m, buf) ==
    IF m.rx = <<>> THEN Reply(1, m) ELSE TransmitPayload(Advance(m, 1), buf)

(* Step 0 of modem_socket_send_continue. *)
AwaitPrompt(m, buf) ==
    CASE m.rx = <<>> -> Reply(1, m)
      [] m.rx # <<>> /\ Head(m.rx) = Line("PROMPT") -> TransmitPayload(Advance(m, 1), buf)
      [] OTHER -> LET r == urc_buffer_handler(m)
                  IN  Reply(IF r.res < 0 THEN -1 ELSE 1, r.m)

modem_socket_send_continue(m, buf) ==
    IF m.step = 0 THEN AwaitPrompt(m, buf) ELSE match_responses_strict(m, send_responses)

modem_socket_close_init(m) == Transmit(modem_rx_buf_flush(m), <<"QICLOSE">>)

modem_socket_close_continue(m) == match_responses_strict(m, ok_or_error)
=============================================================================
