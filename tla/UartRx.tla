------------------------------- MODULE UartRx -------------------------------
(***************************************************************************)
(* Reception on LPUART1: the registers, the interrupt-driven part of the   *)
(* HAL driver, and the chain that modem_rx.c hangs on it: every completed  *)
(* reception calls HAL_UART_RxCpltCallback, which starts the next.         *)
(*                                                                         *)
(* Units go on arriving while the interrupt runs, so HAL_UART_IRQHandler   *)
(* is cut where it reads the flags, clears them, and reads the data.  The  *)
(* main loop, the tick and the button have lower priority and run only     *)
(* while no interrupt of LPUART1 is pending or active (MainRuns).          *)
(*                                                                         *)
(* A unit is what the user of this module receives: a byte, or a line, of  *)
(* which then only the byte that completes it is modelled.                 *)
(***************************************************************************)
EXTENDS Sequences

CONSTANTS
    Noise       \* a unit received with a framing or noise error

VARIABLES
    lpuart,     \* LPUART1: data register, flags, interrupt enables
    huart,      \* the driver: RxState, is RxISR installed, ErrorCode
    isr,        \* where HAL_UART_IRQHandler is, and what it read first
    rx_buf,     \* what the ring of modem_rx.c holds
    aborted     \* history: the driver has aborted the reception

rx == <<lpuart, huart, isr, rx_buf, aborted>>

NotInISR == [at |-> "out", RXNE |-> FALSE, ORE |-> FALSE, FE |-> FALSE,
             RXNEIE |-> FALSE, EIE |-> FALSE]

(* After HAL_UART_Init: enabled, nothing received, nothing started. *)
InitRx ==
    /\ lpuart = [RDR |-> Noise, RXNE |-> FALSE, ORE |-> FALSE, FE |-> FALSE,
                 RXNEIE |-> FALSE, EIE |-> FALSE]
    /\ huart = [RxState |-> "READY", RxISR |-> FALSE, ErrorCode |-> {}]
    /\ isr = NotInISR
    /\ rx_buf = <<>>
    /\ aborted = FALSE

(* The conditions under which LPUART1 requests an interrupt to receive. *)
Pending ==
    \/ lpuart.RXNE /\ lpuart.RXNEIE
    \/ lpuart.ORE /\ (lpuart.RXNEIE \/ lpuart.EIE)
    \/ lpuart.FE /\ lpuart.EIE

MainRuns == isr = NotInISR /\ ~Pending

-----------------------------------------------------------------------------
(* The hardware: with the data register full, the unit is lost. *)
Arrive(u) ==
    /\ lpuart' = IF lpuart.RXNE
                 THEN [lpuart EXCEPT !.ORE = TRUE]
                 ELSE [lpuart EXCEPT !.RDR = u, !.RXNE = TRUE, !.FE = @ \/ u = Noise]
    /\ UNCHANGED <<huart, isr, rx_buf, aborted>>

-----------------------------------------------------------------------------
(* modem_rx_start calls HAL_UART_Receive_IT from the main loop, which      *)
(* enables the error interrupt, then installs RxISR, then enables the data *)
(* interrupt.  Whatever happens in between, it returns HAL_OK.             *)
StartErrorInterrupt ==
    /\ MainRuns /\ huart.RxState = "READY"
    /\ huart' = [RxState |-> "BUSY_RX", RxISR |-> FALSE, ErrorCode |-> {}]
    /\ lpuart' = [lpuart EXCEPT !.EIE = TRUE]
    /\ UNCHANGED <<isr, rx_buf, aborted>>

InstallRxISR ==
    /\ MainRuns
    /\ huart' = [huart EXCEPT !.RxISR = TRUE]
    /\ UNCHANGED <<lpuart, isr, rx_buf, aborted>>

StartDataInterrupt ==
    /\ MainRuns
    /\ lpuart' = [lpuart EXCEPT !.RXNEIE = TRUE]
    /\ UNCHANGED <<huart, isr, rx_buf, aborted>>

-----------------------------------------------------------------------------
(* HAL_UART_IRQHandler *)
EnterISR ==
    /\ isr = NotInISR /\ Pending
    /\ isr' = [at |-> "entered", RXNE |-> lpuart.RXNE, ORE |-> lpuart.ORE, FE |-> lpuart.FE,
               RXNEIE |-> lpuart.RXNEIE, EIE |-> lpuart.EIE]
    /\ UNCHANGED <<lpuart, huart, rx_buf, aborted>>

HasData == isr.RXNE /\ isr.RXNEIE
HasError == isr.ORE \/ isr.FE

(* What HAL_UART_RxCpltCallback leaves: the driver was READY and waits for *)
(* the next unit again.                                                    *)
\* Mutants: the next reception is not started, or keeps the errors of the last.
Mut_Restarted_Not == [RxState |-> "READY", RxISR |-> FALSE, ErrorCode |-> huart.ErrorCode]
Mut_Restarted_Errors == [RxState |-> "BUSY_RX", RxISR |-> TRUE, ErrorCode |-> huart.ErrorCode]

Restarted == [RxState |-> "BUSY_RX", RxISR |-> TRUE, ErrorCode |-> {}]

(* What an empty data register holds does not matter. *)
DataRead == [lpuart EXCEPT !.RXNE = FALSE, !.RDR = Noise]

(* UART_RxISR_8BIT with the callback, or the flush of a unit that nobody   *)
(* asked for.                                                              *)
\* Mutant: the next reception is started without the error interrupt.
Mut_UART_RxISR_8BIT ==
    IF huart.RxState = "BUSY_RX"
    THEN /\ huart' = Restarted
         /\ lpuart' = [DataRead EXCEPT !.EIE = FALSE]
         /\ rx_buf' = Append(rx_buf, lpuart.RDR)
    ELSE /\ lpuart' = DataRead
         /\ UNCHANGED <<huart, rx_buf>>

UART_RxISR_8BIT ==
    IF huart.RxState = "BUSY_RX"
    THEN /\ huart' = Restarted
         /\ lpuart' = [DataRead EXCEPT !.RXNEIE = Restarted.RxISR, !.EIE = Restarted.RxISR]
         /\ rx_buf' = Append(rx_buf, lpuart.RDR)
    ELSE /\ lpuart' = DataRead
         /\ UNCHANGED <<huart, rx_buf>>

CallRxISR ==
    IF HasData /\ huart.RxISR THEN UART_RxISR_8BIT ELSE UNCHANGED <<lpuart, huart, rx_buf>>

Receive ==
    /\ isr.at = "entered" /\ ~HasError
    /\ CallRxISR
    /\ isr' = NotInISR
    /\ UNCHANGED aborted

ClearErrors ==
    /\ isr.at = "entered" /\ HasError
    /\ lpuart' = [lpuart EXCEPT !.ORE = @ /\ ~isr.ORE, !.FE = @ /\ ~(isr.FE /\ isr.EIE)]
    /\ huart' = [huart EXCEPT !.ErrorCode =
                    @ \cup (IF isr.ORE THEN {"ORE"} ELSE {})
                      \cup (IF isr.FE /\ isr.EIE THEN {"FE"} ELSE {})]
    /\ isr' = [isr EXCEPT !.at = "cleared"]
    /\ UNCHANGED <<rx_buf, aborted>>

ReceiveWithErrors ==
    /\ isr.at = "cleared" /\ huart.ErrorCode # {}
    /\ CallRxISR
    /\ isr' = [isr EXCEPT !.at = "read"]
    /\ UNCHANGED aborted

NothingToDo ==
    /\ isr.at = "cleared" /\ huart.ErrorCode = {}
    /\ isr' = NotInISR
    /\ UNCHANGED <<lpuart, huart, rx_buf, aborted>>

(* UART_EndRxTransfer.  The application has no HAL_UART_ErrorCallback.     *)
Abort ==
    /\ isr.at = "read" /\ "ORE" \in huart.ErrorCode
    /\ lpuart' = [lpuart EXCEPT !.RXNEIE = FALSE, !.EIE = FALSE]
    /\ huart' = [huart EXCEPT !.RxState = "READY", !.RxISR = FALSE]
    /\ isr' = NotInISR
    /\ aborted' = TRUE
    /\ UNCHANGED rx_buf

GoOn ==
    /\ isr.at = "read" /\ "ORE" \notin huart.ErrorCode
    /\ huart' = [huart EXCEPT !.ErrorCode = {}]
    /\ isr' = NotInISR
    /\ UNCHANGED <<lpuart, rx_buf, aborted>>

HAL_UART_IRQHandler ==
    EnterISR \/ Receive \/ ClearErrors \/ ReceiveWithErrors \/ NothingToDo \/ Abort \/ GoOn

-----------------------------------------------------------------------------
(* The chain of interrupts: the driver waits for a unit. *)
Listening ==
    /\ huart.RxState = "BUSY_RX" /\ huart.RxISR
    /\ lpuart.RXNEIE /\ lpuart.EIE

(* The handler finds nothing that it may do, clears no flag, and is called *)
(* again at once, until another unit arrives: a framing error whose        *)
(* interrupt is not enabled, or a unit and no RxISR to read it.            *)
Storm ==
    /\ lpuart.RXNE /\ lpuart.RXNEIE /\ ~lpuart.ORE
    /\ \/ lpuart.FE /\ ~lpuart.EIE /\ huart.ErrorCode = {}
       \/ ~lpuart.FE /\ ~huart.RxISR
=============================================================================
