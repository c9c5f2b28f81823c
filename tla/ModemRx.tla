------------------------------ MODULE ModemRx ------------------------------
(***************************************************************************)
(* src/modem/modem_rx.c and the functions of modem.c that read lines and   *)
(* datagrams through it, at the granularity of the accesses to the indices *)
(* of rx_buf.                                                              *)
(*                                                                         *)
(* The LPUART1 interrupt (HAL_UART_RxCpltCallback) runs to completion      *)
(* between two accesses of the main loop.  circ_buf_avail reads the        *)
(* volatile end twice, once to compare it with begin and once to subtract; *)
(* circ_buf_flush writes begin and then end.  Each of these is a step.     *)
(*                                                                         *)
(* In a build that defines NDEBUG the interrupt makes room in a full ring  *)
(* by dropping the oldest byte, and so writes begin as the main loop does. *)
(* While the main loop is idle that is one more step.  In the middle of a  *)
(* call it is a clash: from there to the next flush, which writes both     *)
(* indices anew, the accesses to begin are not split any further, and      *)
(* nothing but the type of the state is claimed.                           *)
(*                                                                         *)
(* Only the difference between a line terminator and any other byte        *)
(* matters here.  Whether a line is the header of a datagram, and how long *)
(* that datagram is, is up to the modem.                                   *)
(***************************************************************************)
EXTENDS CircBuf, Integers

CONSTANTS
    RxLen,      \* MODEM_RX_BUF
    MaxMsg,     \* the longest datagram, MODEM_SOCKET_RECV_MAX in the code
    SizeMod,    \* 2^32: arithmetic on size_t is modulo this
    Builds      \* "assert": Debug, Release; "ndebug": RelWithDebInfo, MinSizeRel

ASSUME RxAssumption ==
    /\ RxLen \in Nat /\ MaxMsg \in Nat /\ SizeMod \in Nat
    /\ RxLen > MaxMsg + 2
    /\ SizeMod > 2 * RxLen
    /\ Builds \subseteq {"assert", "ndebug"}

Byte == {"nl", "ch"}
is_newline(chr) == chr = "nl"

VARIABLES
    rx_buf,     \* the ring
    halted,     \* assert(false) was reached: nothing runs any more
    pc,         \* where the main loop is
    then,       \* what follows modem_rx_pop_newlines: "scan" or "prompt"
    ordered,    \* circ_buf_avail: begin <= end at the first read of end
    i,          \* modem_rx_seek_line_length: bytes scanned; later bytes to pop
    line_len,   \* the line it found
    msg_len,    \* the datagram length in that line
    fifo,       \* history: bytes received and not yet consumed, dropped or flushed
    torn,       \* since the last flush, a datagram was accepted on a torn circ_buf_avail
    clash,      \* since then, the interrupt dropped a byte in the middle of a call
    overrun     \* since then, the main loop has consumed bytes never received

vars == <<rx_buf, halted, pc, then, ordered, i, line_len, msg_len, fifo, torn, clash, overrun>>
locals == <<i, line_len, msg_len>>
history == <<fifo, torn, clash, overrun>>

Init ==
    /\ rx_buf = EmptyBuf(RxLen, "ch")
    /\ halted = FALSE
    /\ pc = "idle" /\ then = "scan" /\ ordered = TRUE
    /\ i = 0 /\ line_len = 0 /\ msg_len = 0
    /\ fifo = <<>> /\ torn = FALSE /\ clash = FALSE /\ overrun = FALSE

-----------------------------------------------------------------------------
(* The interrupt: a byte has arrived.  The assertion stops the program     *)
(* when the ring is full, where it is compiled in (the toolchain file sets *)
(* the flags of Debug and Release); CMake's own flags for RelWithDebInfo   *)
(* and MinSizeRel define NDEBUG, and the oldest byte makes room.           *)

\* Mutant: the ring counts as full one byte early.
Mut_full_early == circ_buf_free(rx_buf) <= 1

rx_full == circ_buf_free(rx_buf) = 0

(* What is left of the bytes received after n of them. *)
After(n) == IF n <= Len(fifo) THEN SubSeq(fifo, n + 1, Len(fifo)) ELSE <<>>

(* No history is kept between a clash and the next flush. *)
Record(bytes) == fifo' = IF clash' THEN <<>> ELSE bytes

Store(byte) ==
    /\ ~rx_full
    /\ rx_buf' = circ_buf_push(rx_buf, byte)
    /\ UNCHANGED <<halted, clash>>
    /\ Record(Append(fifo, byte))

Overflow ==
    /\ rx_full /\ "assert" \in Builds
    /\ halted' = TRUE
    /\ UNCHANGED <<rx_buf, fifo, clash>>

\* Mutant: no byte is popped to make room.
Mut_DropOldest(byte) ==
    /\ rx_full /\ "ndebug" \in Builds
    /\ rx_buf' = circ_buf_push(rx_buf, byte)
    /\ clash' = (clash \/ pc # "idle")
    /\ Record(Append(After(1), byte))
    /\ UNCHANGED halted

DropOldest(byte) ==
    /\ rx_full /\ "ndebug" \in Builds
    /\ rx_buf' = circ_buf_push(circ_buf_pop(rx_buf), byte)
    /\ clash' = (clash \/ pc # "idle")
    /\ Record(Append(After(1), byte))
    /\ UNCHANGED halted

HAL_UART_RxCpltCallback(byte) ==
    /\ ~halted
    /\ Store(byte) \/ Overflow \/ DropOldest(byte)
    /\ UNCHANGED <<pc, then, ordered, locals, torn, overrun>>

-----------------------------------------------------------------------------
(* Steps of the main loop. *)
Goto(from, to) == ~halted /\ pc = from /\ pc' = to

Keep == UNCHANGED <<then, ordered, locals>>

(* The caller gets its answer and the locals are gone. *)
Return(from) ==
    /\ Goto(from, "idle")
    /\ then' = "scan" /\ ordered' = TRUE /\ i' = 0 /\ line_len' = 0 /\ msg_len' = 0

(* circ_buf_avail, first and second read of end. *)
AvailCompare(from, to) ==
    /\ Goto(from, to)
    /\ ordered' = (rx_buf.begin <= rx_buf.end)
    /\ UNCHANGED <<rx_buf, halted, then, locals, history>>

avail == IF ordered THEN (rx_buf.end - rx_buf.begin) % SizeMod
                    ELSE rx_buf.len - rx_buf.begin + rx_buf.end

(* modem_rx_advance: n bytes of the ring are done with. *)
Consume(n) ==
    /\ rx_buf' = circ_buf_advance_n(rx_buf, n)
    /\ fifo' = After(n)
    /\ overrun' = (overrun \/ n > Len(fifo))
    /\ UNCHANGED <<halted, torn, clash>>

(* A caller asks for a line (match_responses, urc_buffer_handler), or for  *)
(* the prompt of AT+QISEND (modem_socket_send_continue).                   *)
Call(next) ==
    /\ Goto("idle", "pop_cmp")
    /\ then' = next
    /\ UNCHANGED <<rx_buf, halted, ordered, locals, history>>

(* modem_rx_pop_newlines *)
PopLoopTest ==
    /\ \/ avail = 0 /\ Return("pop_sub")
       \/ avail > 0 /\ Goto("pop_sub", "pop_seek") /\ Keep
    /\ UNCHANGED <<rx_buf, halted, history>>

PopNewline ==
    /\ is_newline(circ_buf_seek(rx_buf, 0))
    /\ Goto("pop_seek", "pop_cmp")
    /\ Consume(1)
    /\ Keep

NewlinesPopped ==
    /\ ~is_newline(circ_buf_seek(rx_buf, 0))
    /\ Goto("pop_seek", IF then = "scan" THEN "scan_cmp" ELSE "prompt")
    /\ i' = 0
    /\ UNCHANGED <<rx_buf, halted, then, ordered, line_len, msg_len, history>>

(* modem_socket_send_continue: the prompt is skipped; anything else is     *)
(* left to urc_buffer_handler.                                             *)
SkipPrompt == Return("prompt") /\ Consume(1)

NotThePrompt ==
    /\ Goto("prompt", "pop_cmp")
    /\ then' = "scan"
    /\ UNCHANGED <<rx_buf, halted, ordered, locals, history>>

\* Mutant: the scan stops one byte late.
Mut_ScanLoopTest ==
    /\ \/ i > avail /\ Return("scan_sub")
       \/ i <= avail /\ Goto("scan_sub", "scan_seek") /\ Keep
    /\ UNCHANGED <<rx_buf, halted, history>>

(* modem_rx_seek_line_length: the loop after the newlines. *)
ScanLoopTest ==
    /\ \/ i >= avail /\ Return("scan_sub")
       \/ i < avail /\ Goto("scan_sub", "scan_seek") /\ Keep
    /\ UNCHANGED <<rx_buf, halted, history>>

\* Mutants: the length returned includes the terminator; a terminator is missed.
Mut_LineFound ==
    /\ is_newline(circ_buf_seek(rx_buf, i))
    /\ Goto("scan_seek", "line")
    /\ line_len' = i + 1
    /\ UNCHANGED <<rx_buf, halted, then, ordered, i, msg_len, history>>

Mut_LineMissed ==
    /\ is_newline(circ_buf_seek(rx_buf, i))
    /\ Return("scan_seek")
    /\ UNCHANGED <<rx_buf, halted, history>>

LineFound ==
    /\ is_newline(circ_buf_seek(rx_buf, i))
    /\ Goto("scan_seek", "line")
    /\ line_len' = i
    /\ UNCHANGED <<rx_buf, halted, then, ordered, i, msg_len, history>>

NotYetNewline ==
    /\ ~is_newline(circ_buf_seek(rx_buf, i))
    /\ Goto("scan_seek", "scan_cmp")
    /\ i' = i + 1
    /\ UNCHANGED <<rx_buf, halted, then, ordered, line_len, msg_len, history>>

(* match_responses: known or not, the line is advanced over. *)
LineDone == Return("line") /\ Consume(line_len)

(* urc_buffer_handler: the line announces a datagram of n bytes ... *)
DatagramHeader(n) ==
    /\ Goto("line", "urc_cmp")
    /\ msg_len' = n
    /\ UNCHANGED <<rx_buf, halted, then, ordered, i, line_len, history>>

\* Mutant: the two bytes of the line terminator are forgotten.
Mut_needed == line_len + msg_len

needed == line_len + msg_len + 2

(* ... all of which must be there, terminator included, before any of it   *)
(* is consumed.                                                            *)
DatagramCheck ==
    /\ \/ avail < needed /\ Return("urc_sub") /\ UNCHANGED torn
       \/ /\ avail >= needed /\ Goto("urc_sub", "urc_skip") /\ Keep
          /\ torn' = (torn \/ (ordered /\ rx_buf.end < rx_buf.begin))
    /\ UNCHANGED <<rx_buf, halted, fifo, clash, overrun>>

SkipHeader ==
    /\ Goto("urc_skip", "urc_payload")
    /\ Consume(line_len + 2)
    /\ i' = msg_len
    /\ UNCHANGED <<then, ordered, line_len, msg_len>>

(* The payload is dropped in one go, or popped byte by byte. *)
DropPayload == Return("urc_payload") /\ Consume(msg_len)

PopPayload ==
    /\ Goto("urc_payload", "urc_pop") /\ Keep
    /\ UNCHANGED <<rx_buf, halted, history>>

PopPayloadByte ==
    /\ i > 0
    /\ Goto("urc_pop", "urc_pop")
    /\ Consume(1)
    /\ i' = i - 1
    /\ UNCHANGED <<then, ordered, line_len, msg_len>>

PayloadDone ==
    /\ i = 0
    /\ Return("urc_pop")
    /\ UNCHANGED <<rx_buf, halted, history>>

(* circ_buf_flush: begin, then end.  Neither depends on what was before.   *)
FlushBegin ==
    /\ Goto("idle", "flush_end")
    /\ rx_buf' = [rx_buf EXCEPT !.begin = 0]
    /\ torn' = FALSE /\ clash' = FALSE /\ overrun' = FALSE
    /\ UNCHANGED <<halted, then, ordered, locals, fifo>>

FlushEnd ==
    /\ Goto("flush_end", "idle")
    /\ rx_buf' = [rx_buf EXCEPT !.end = 0]
    /\ fifo' = <<>>
    /\ UNCHANGED <<halted, then, ordered, locals, torn, clash, overrun>>

-----------------------------------------------------------------------------
(* What happens inside a call once it has begun. *)
Running ==
    \/ AvailCompare("pop_cmp", "pop_sub") \/ PopLoopTest \/ PopNewline \/ NewlinesPopped
    \/ SkipPrompt \/ NotThePrompt
    \/ AvailCompare("scan_cmp", "scan_sub") \/ ScanLoopTest \/ LineFound \/ NotYetNewline
    \/ LineDone \/ (\E n \in 0 .. MaxMsg : DatagramHeader(n))
    \/ AvailCompare("urc_cmp", "urc_sub") \/ DatagramCheck
    \/ SkipHeader \/ DropPayload \/ PopPayload \/ PopPayloadByte \/ PayloadDone
    \/ FlushEnd

Next ==
    \/ \E byte \in Byte : HAL_UART_RxCpltCallback(byte)
    \/ \E next \in {"scan", "prompt"} : Call(next)
    \/ FlushBegin
    \/ Running
    \/ halted /\ UNCHANGED vars

(* The functions are loops without waiting: the main loop keeps running.   *)
Spec == Init /\ [][Next]_vars /\ WF_vars(Running)

-----------------------------------------------------------------------------
(* The types of the state; the indices never leave the storage. *)
TypeOK ==
    /\ rx_buf \in CircBufs(RxLen, Byte)
    /\ halted \in BOOLEAN /\ ordered \in BOOLEAN
    /\ torn \in BOOLEAN /\ clash \in BOOLEAN /\ overrun \in BOOLEAN
    /\ pc \in {"idle", "pop_cmp", "pop_sub", "pop_seek", "prompt", "scan_cmp", "scan_sub",
               "scan_seek", "line", "urc_cmp", "urc_sub", "urc_skip", "urc_payload",
               "urc_pop", "flush_end"}
    /\ then \in {"scan", "prompt"}
    /\ i \in Nat /\ line_len \in Nat /\ msg_len \in 0 .. MaxMsg
    /\ fifo \in Seq(Byte)

(* Since the last flush, no datagram was accepted on a torn read and no    *)
(* byte was dropped in the middle of a call.                               *)
Undisturbed == ~torn /\ ~clash

(* The ring is a FIFO between interrupt and main loop whatever the         *)
(* interleaving of their accesses: no received byte is repeated,           *)
(* reordered or overwritten, and none is lost except what a flush discards *)
(* and, in an NDEBUG build, the oldest byte of a full ring.  This holds    *)
(* until a torn read or a clash, and again from the next flush on.         *)
RingIsFifo == Undisturbed /\ pc # "flush_end" => Contents(rx_buf) = fifo

(* The loops of modem_rx_pop_newlines and modem_rx_seek_line_length may    *)
(* act on a torn circ_buf_avail (it then is a huge number) and still never *)
(* look at a byte that has not arrived: a read can only be torn by the     *)
(* arrival of the very byte the loop is about to look at.                  *)
SeeksReceived ==
    Undisturbed => /\ pc = "pop_seek" => Len(fifo) > 0
                   /\ pc = "scan_seek" => i < Len(fifo)

(* A line returned by modem_rx_seek_line_length is one: not empty, without *)
(* terminators inside, and followed by a terminator that has arrived.  In  *)
(* an NDEBUG build it may lack its head, dropped before the call.          *)
LineIsReal ==
    Undisturbed /\ pc \in {"line", "urc_cmp", "urc_sub", "urc_skip"}
        => /\ line_len > 0 /\ line_len < Len(fifo)
           /\ is_newline(fifo[line_len + 1])
           /\ \A k \in 1 .. line_len : ~is_newline(fifo[k])

(* Bytes are consumed only after they have arrived, unless the check for   *)
(* the whole datagram was made on a torn circ_buf_avail or the interrupt   *)
(* took bytes from under the main loop.                                    *)
OverrunOnlyIfTorn == overrun => ~Undisturbed

(* In a build with the assertion, overflow stops the program only when the *)
(* ring really holds as much as it can, or in the middle of a flush.       *)
HaltOnlyIfFullOrFlushing ==
    halted /\ Undisturbed => pc = "flush_end" \/ Len(fifo) = RxLen - 1

(* A caller that asks for a line when one is there gets it, however many   *)
(* bytes arrive meanwhile, as long as they fit.                            *)
HasLine == \E k \in 2 .. Len(fifo) : is_newline(fifo[k]) /\ ~is_newline(fifo[k - 1])
LineIsFound ==
    pc = "pop_cmp" /\ then = "scan" /\ HasLine /\ Undisturbed ~> pc = "line" \/ halted \/ clash

-----------------------------------------------------------------------------
(* modem.c:142-143, "we're sure that the whole message has been received,  *)
(* so we can start consuming the RX buffer".                               *)
ConsumesReceived == ~overrun

(* modem_rx.c:36-38: what the assertion reports is an "RX buffer overflow".*)
HaltOnlyIfFull == halted /\ ~torn => Len(fifo) = RxLen - 1
=============================================================================
