------------------------------ MODULE ModemTx ------------------------------
(***************************************************************************)
(* src/modem/modem_tx.c with the part of the STM32 HAL UART driver it      *)
(* drives (HAL_UART_Transmit_IT, UART_TxISR_8BIT, UART_EndTransmit_IT).    *)
(*                                                                         *)
(* Two actors share tx_buf and tx_ongoing: the main loop, whose functions  *)
(* are cut at every point where an interrupt changes what they will see,   *)
(* and the LPUART1 interrupt, which runs to completion between two steps   *)
(* of the main loop.  A command is its sequence of bytes; the callers      *)
(* append it in pieces, and the model lets the cuts fall anywhere.         *)
(*                                                                         *)
(* tx_char hands the driver the address of a local variable.  The driver   *)
(* dereferences it in a later interrupt; once tx_char has returned, what   *)
(* is read there is undefined, and the model takes the byte that was       *)
(* stored or any byte of Clobber.                                          *)
(***************************************************************************)
EXTENDS CircBuf, SequencesExt

CONSTANTS
    Byte,       \* the bytes of the commands
    Zero,       \* what static storage holds at reset
    TxLen,      \* MODEM_TX_BUF
    Commands,   \* what callers transmit: nonempty sequences of bytes
    Clobber     \* what a dead stack slot may hold besides the old byte

(* The longest command is a payload and Ctrl-Z: MODEM_SOCKET_SEND_MAX + 1 *)
(* bytes, with MODEM_TX_BUF 256 bytes longer than MODEM_SOCKET_SEND_MAX.  *)
ASSUME TxAssumption ==
    /\ TxLen \in Nat \ {0}
    /\ Zero \in Byte
    /\ Commands \subseteq Seq(Byte)
    /\ \A c \in Commands : Len(c) \in 1 .. TxLen - 1

VARIABLES
    tx_buf,     \* the ring
    tx_ongoing, \* a transmission is in progress
    huart,      \* the driver's transmit state and the two interrupt enables
    pc,         \* where the main loop is
    given,      \* the command the main loop is appending
    todo,       \* the part of it not yet appended
    byte,       \* tx_char's local in the main loop's frame
    cmd,        \* history: the command whose transmission was last started
    wire,       \* history: what the line has carried since then
    intact      \* history: every byte of it was the one stored by tx_char

vars == <<tx_buf, tx_ongoing, huart, pc, given, todo, byte, cmd, wire, intact>>
main == <<pc, given, todo, byte>>
line == <<cmd, wire, intact>>

Init ==
    /\ tx_buf = EmptyBuf(TxLen, Zero)
    /\ tx_ongoing = FALSE
    /\ huart = [gState |-> "READY", TXEIE |-> FALSE, TCIE |-> FALSE,
                TxXferCount |-> 0, pTxBuffPtr |-> Zero, frame |-> "dead"]
    /\ pc = "idle" /\ given = <<>> /\ todo = <<>> /\ byte = Zero
    /\ cmd = <<>> /\ wire = <<>> /\ intact = TRUE

-----------------------------------------------------------------------------
(* HAL_UART_Transmit_IT(huart, &b, 1); in a driver that is still busy it   *)
(* returns HAL_BUSY, which tx_char ignores.  "frame" says whether the      *)
(* local that pTxBuffPtr points to still exists.                           *)
HAL_UART_Transmit_IT(h, b, frame) ==
    IF h.gState = "READY"
    THEN [h EXCEPT !.gState = "BUSY_TX", !.TXEIE = TRUE, !.TxXferCount = 1,
                   !.pTxBuffPtr = b, !.frame = frame]
    ELSE h

-----------------------------------------------------------------------------
(* The main loop. *)

(* A caller of the modem driver starts to transmit a command. *)
Issue(c) ==
    /\ pc = "idle"
    /\ pc' = "append" /\ given' = c /\ todo' = c
    /\ UNCHANGED <<tx_buf, tx_ongoing, huart, byte, line>>

(* Every caller gives up when a piece is refused; what was appended stays. *)
GiveUp == pc' = "idle" /\ given' = <<>> /\ todo' = <<>>

\* Mutant: modem_tx_append without the test.
Mut_append_unguarded ==
    /\ pc = "append" /\ pc' = "copy"
    /\ UNCHANGED <<tx_buf, tx_ongoing, huart, given, todo, byte, line>>

(* modem_tx_append: the test of tx_ongoing ... *)
modem_tx_append ==
    /\ pc = "append"
    /\ IF tx_ongoing THEN GiveUp
                     ELSE pc' = "copy" /\ UNCHANGED <<given, todo>>
    /\ UNCHANGED <<tx_buf, tx_ongoing, huart, byte, line>>

(* ... and circ_buf_append of the next piece. *)
AppendPiece ==
    /\ pc = "copy"
    /\ \E n \in 1 .. Len(todo) :
         IF n > circ_buf_free(tx_buf)
         THEN GiveUp /\ UNCHANGED tx_buf
         ELSE /\ tx_buf' = circ_buf_append(tx_buf, SubSeq(todo, 1, n))
              /\ todo' = SubSeq(todo, n + 1, Len(todo))
              /\ pc' = IF n = Len(todo) THEN "start" ELSE "append"
              /\ UNCHANGED given
    /\ UNCHANGED <<tx_ongoing, huart, byte, line>>

modem_tx_start ==
    /\ pc = "start"
    /\ IF tx_ongoing \/ circ_buf_avail(tx_buf) = 0
       THEN GiveUp
       ELSE pc' = "mark" /\ UNCHANGED <<given, todo>>
    /\ UNCHANGED <<tx_buf, tx_ongoing, huart, byte, line>>

MarkOngoing ==
    /\ pc = "mark"
    /\ tx_ongoing' = TRUE
    /\ pc' = "pop"
    /\ cmd' = given /\ wire' = <<>> /\ intact' = TRUE
    /\ UNCHANGED <<tx_buf, huart, given, todo, byte>>

(* tx_char: the pop, the call of the driver, and the return. *)
PopByte ==
    /\ pc = "pop"
    /\ byte' = circ_buf_seek(tx_buf, 0)
    /\ tx_buf' = circ_buf_pop(tx_buf)
    /\ pc' = "transmit"
    /\ UNCHANGED <<tx_ongoing, huart, given, todo, line>>

Transmit ==
    /\ pc = "transmit"
    /\ huart' = HAL_UART_Transmit_IT(huart, byte, "live")
    /\ pc' = "return"
    /\ UNCHANGED <<tx_buf, tx_ongoing, given, todo, byte, line>>

ReturnFromTxChar ==
    /\ pc = "return"
    /\ huart' = [huart EXCEPT !.frame = "dead"]
    /\ pc' = "idle" /\ given' = <<>> /\ todo' = <<>>
    /\ UNCHANGED <<tx_buf, tx_ongoing, byte, line>>

-----------------------------------------------------------------------------
(* The LPUART1 interrupt. *)

\* Mutant: the transfer count is not decremented.
Mut_Send_NoCount ==
    /\ huart.TXEIE /\ huart.gState = "BUSY_TX" /\ huart.TxXferCount > 0
    /\ wire' = Append(wire, huart.pTxBuffPtr)
    /\ UNCHANGED <<tx_buf, tx_ongoing, huart, main, cmd, intact>>

(* TXE with a byte left: it goes to TDR, read through pTxBuffPtr. *)
TxISR_Send ==
    /\ huart.TXEIE /\ huart.gState = "BUSY_TX"
    /\ huart.TxXferCount > 0
    /\ \E b \in {huart.pTxBuffPtr} \cup (IF huart.frame = "dead" THEN Clobber ELSE {}) :
         /\ wire' = Append(wire, b)
         /\ intact' = (intact /\ b = huart.pTxBuffPtr)
    /\ huart' = [huart EXCEPT !.TxXferCount = @ - 1]
    /\ UNCHANGED <<tx_buf, tx_ongoing, main, cmd>>

(* TXE with none left: wait for the end of the transmission instead. *)
TxISR_Last ==
    /\ huart.TXEIE /\ huart.gState = "BUSY_TX"
    /\ huart.TxXferCount = 0
    /\ huart' = [huart EXCEPT !.TXEIE = FALSE, !.TCIE = TRUE]
    /\ UNCHANGED <<tx_buf, tx_ongoing, main, line>>

(* HAL_UART_TxCpltCallback starts the next byte, if there is one, from a   *)
(* frame of its own that is gone when the driver gets to the byte.         *)
SendNext(h) ==
    /\ huart' = HAL_UART_Transmit_IT(h, circ_buf_seek(tx_buf, 0), "dead")
    /\ tx_buf' = circ_buf_pop(tx_buf)
    /\ UNCHANGED tx_ongoing

AllSent(h) == huart' = h /\ tx_ongoing' = FALSE /\ UNCHANGED tx_buf

\* Mutants: never clears the flag; stops after one byte; leaves the last byte.
Mut_Callback_KeepsFlag(h) ==
    IF circ_buf_avail(tx_buf) > 0 THEN SendNext(h)
                                  ELSE huart' = h /\ UNCHANGED <<tx_buf, tx_ongoing>>
Mut_Callback_OneByte(h) == AllSent(h)
Mut_Callback_OffByOne(h) == IF circ_buf_avail(tx_buf) > 1 THEN SendNext(h) ELSE AllSent(h)

HAL_UART_TxCpltCallback(h) ==
    IF circ_buf_avail(tx_buf) > 0 THEN SendNext(h) ELSE AllSent(h)

(* TC: the end of a byte, and the callback. *)
UART_EndTransmit_IT ==
    /\ huart.TCIE
    /\ HAL_UART_TxCpltCallback([huart EXCEPT !.TCIE = FALSE, !.gState = "READY"])
    /\ UNCHANGED <<main, line>>

-----------------------------------------------------------------------------
TxChar == PopByte \/ Transmit \/ ReturnFromTxChar
Append_ == modem_tx_append \/ AppendPiece
Interrupt == TxISR_Send \/ TxISR_Last \/ UART_EndTransmit_IT

Next ==
    \/ \E c \in Commands : Issue(c)
    \/ Append_ \/ modem_tx_start \/ MarkOngoing
    \/ TxChar
    \/ Interrupt

(* The line is never stopped (no flow control), so a pending interrupt is  *)
(* eventually taken; tx_char is straight-line code.                        *)
Fairness == WF_vars(TxChar) /\ WF_vars(Interrupt)

Spec == Init /\ [][Next]_vars /\ Fairness

-----------------------------------------------------------------------------
(* The types of the state, and the control states the driver can be in. *)
TypeOK ==
    /\ tx_buf \in CircBufs(TxLen, Byte)
    /\ tx_ongoing \in BOOLEAN
    /\ huart \in [gState : {"READY", "BUSY_TX"}, TXEIE : BOOLEAN, TCIE : BOOLEAN,
                  TxXferCount : {0, 1}, pTxBuffPtr : Byte, frame : {"live", "dead"}]
    /\ pc \in {"idle", "append", "copy", "start", "mark", "pop", "transmit", "return"}
    /\ given \in Seq(Byte) /\ todo \in Seq(Byte)
    /\ byte \in Byte
    /\ cmd \in Seq(Byte) /\ wire \in Seq(Byte \cup Clobber) /\ intact \in BOOLEAN

(* circ_buf.h:16-18, "only one end may write to the buffer, and only one   *)
(* end may read from the buffer at a time": from the test of tx_ongoing in *)
(* modem_tx_append to the call of HAL_UART_Transmit_IT in tx_char, the     *)
(* main loop is both the writer and the reader of tx_buf, and no transmit  *)
(* interrupt, whose callback pops from it, may be enabled.                 *)
ExclusiveAccess ==
    pc \in {"copy", "start", "mark", "pop", "transmit"}
        => ~huart.TXEIE /\ ~huart.TCIE

(* tx_char ignores the status of HAL_UART_Transmit_IT.  A HAL_BUSY there   *)
(* would lose the popped byte, so the driver must be idle when it is       *)
(* called; and a transmission marked ongoing must have an interrupt to     *)
(* end it, or tx_ongoing would stay set and every later command fail.      *)
NeverStuck ==
    /\ pc = "transmit" => huart.gState = "READY"
    /\ tx_ongoing /\ pc \notin {"pop", "transmit"} => huart.TXEIE \/ huart.TCIE

(* A command is refused whole or sent whole: when the main loop is between *)
(* commands and nothing is being sent, the ring holds no leftover that     *)
(* would be glued to the front of the next command.                        *)
NoResidue ==
    pc = "idle" /\ ~tx_ongoing => circ_buf_avail(tx_buf) = 0

(* The line carries the bytes of the command, in order, none lost or       *)
(* repeated, and all of them by the time tx_ongoing is cleared.            *)
WireIntegrity ==
    /\ IsPrefix(wire, cmd)
    /\ ~tx_ongoing => wire = cmd

(* The same, as long as every byte the driver read through the pointer was *)
(* still the one tx_char had stored there.                                 *)
WireIntegrityIfIntact == intact => WireIntegrity

-----------------------------------------------------------------------------
(* The bytes of the current command that the line has yet to carry. *)
Unsent ==
    LET loaded == CASE pc = "transmit"          -> <<byte>>
                    [] huart.TxXferCount = 1    -> <<huart.pTxBuffPtr>>
                    [] OTHER                    -> <<>>
    IN  IF tx_ongoing THEN loaded \o Contents(tx_buf) ELSE <<>>

(* modem_tx.c implements the channel: a command starts only when the last  *)
(* one is out, its bytes leave in order (up to Clobber), every one of them *)
(* leaves, and then the transmitter becomes free again.                    *)
Channel == INSTANCE TxChannel
             WITH busy <- tx_ongoing, rest <- Unsent, out <- wire, Noise <- Clobber

ImplementsChannel == Channel!Spec
=============================================================================
