---------------------------- MODULE Application ----------------------------
(***************************************************************************)
(* src/main.c with the button of platform.c: the modem is powered and      *)
(* brought up, the device is reset if that fails, and then the main loop   *)
(* runs for ever.  The interrupts are those of LPUART1 (UartRx), of the    *)
(* tick and of the button.                                                 *)
(*                                                                         *)
(* In the loop, anj_core_step stands for what it does to the DTLS timer;   *)
(* what it does to the modem is the module Net, and                        *)
(* temperature_sensor_update is the module TemperatureObj.                 *)
(***************************************************************************)
EXTENDS Bringup

CONSTANTS
    BootTexts,  \* what the modem may say when it is powered, unit by unit
    LoopDelay,  \* HAL_Delay(10)
    Delays      \* the pairs <<int_ms, fin_ms>> mbed TLS asks for

ASSUME ApplicationAssumption ==
    /\ BootTexts \subseteq Seq(Lines)
    /\ LoopDelay \in Nat /\ Delays \subseteq Nat \X Nat

VARIABLES
    timer,          \* mbedtls_timing_delay_context
    BspButtonState,
    elapsed,        \* history: ticks since the timer was set, at most TickMod
    unseen          \* history: the button was pressed after the last toggle

T == INSTANCE Timing

app == <<timer, BspButtonState, elapsed, unseen>>
vars == <<brvars, app>>

Init ==
    /\ InitBringup
    /\ timer = T!NoDelay /\ elapsed = 0
    /\ BspButtonState = "RELEASED" /\ unseen = FALSE

-----------------------------------------------------------------------------
(* Start-up.  The tick is counted from the end of its delays. *)
PowerModem ==
    /\ Goto("power", "boot")
    /\ out' \in BootTexts
    /\ UNCHANGED <<rx, uwTick, tickstart, call, owed, timedOut, foreign, app>>

ModemReady ==
    /\ Goto("boot", "start")
    /\ UNCHANGED <<rx, uwTick, tickstart, call, modem, timedOut, foreign, app>>

(* The reset takes the modem's power, and with it what it was about to say.*)
NVIC_SystemReset ==
    /\ MainRuns /\ pc = "failed"
    /\ lpuart' = [RDR |-> Noise, RXNE |-> FALSE, ORE |-> FALSE, FE |-> FALSE,
                  RXNEIE |-> FALSE, EIE |-> FALSE]
    /\ huart' = [RxState |-> "READY", RxISR |-> FALSE, ErrorCode |-> {}]
    /\ isr' = NotInISR /\ rx_buf' = <<>> /\ aborted' = FALSE
    /\ pc' = "power" /\ uwTick' = 0 /\ tickstart' = 0 /\ deadline' = 0
    /\ command' = 1 /\ attempt' = 0
    /\ owed' = <<>> /\ out' = <<>>
    /\ timedOut' = FALSE /\ foreign' = FALSE
    /\ timer' = T!NoDelay /\ elapsed' = 0
    /\ BspButtonState' = "RELEASED" /\ unseen' = FALSE

(* Anjay Lite is initialised and the objects are installed, or main ends.  *)
Install ==
    /\ Goto("done", "step") \/ Goto("done", "stopped")
    /\ UNCHANGED <<rx, uwTick, tickstart, call, modem, timedOut, foreign, app>>

-----------------------------------------------------------------------------
(* The loop. *)
InLoop ==
    \/ pc \in {"step", "button", "clear", "toggle"}
    \/ pc = "delay" /\ ~Delayed(LoopDelay + 1)

anj_core_step ==
    /\ StartDelay("step", "delay")
    /\ \/ UNCHANGED <<timer, elapsed>>
       \/ \E d \in Delays :
            /\ timer' = T!mbedtls_timing_set_delay(timer, uwTick, d[1], d[2])
            /\ elapsed' = 0
    /\ UNCHANGED <<rx, uwTick, call, modem, timedOut, foreign, BspButtonState, unseen>>

LoopDelayed ==
    /\ EndDelay("delay", "button", LoopDelay)
    /\ UNCHANGED <<rx, uwTick, call, modem, timedOut, foreign, app>>

(* check_button_state *)
TestButton ==
    /\ IF BspButtonState = "PRESSED" THEN Goto("button", "clear") ELSE Goto("button", "step")
    /\ UNCHANGED <<rx, uwTick, tickstart, call, modem, timedOut, foreign, app>>

ClearButton ==
    /\ Goto("clear", "toggle")
    /\ BspButtonState' = "RELEASED"
    /\ UNCHANGED <<rx, uwTick, tickstart, call, modem, timedOut, foreign, timer, elapsed, unseen>>

ToggleLed ==
    /\ Goto("toggle", "step")
    /\ unseen' = FALSE
    /\ UNCHANGED <<rx, uwTick, tickstart, call, modem, timedOut, foreign, timer, elapsed,
                   BspButtonState>>

\* Mutant: the LED is toggled before the state is released.
Mut_check_button_state ==
    \/ TestButton
    \/ /\ Goto("clear", "toggle") /\ unseen' = FALSE
       /\ UNCHANGED <<rx, uwTick, tickstart, call, modem, timedOut, foreign, timer, elapsed,
                      BspButtonState>>
    \/ /\ Goto("toggle", "step") /\ BspButtonState' = "RELEASED"
       /\ UNCHANGED <<rx, uwTick, tickstart, call, modem, timedOut, foreign, timer, elapsed, unseen>>

check_button_state == TestButton \/ ClearButton \/ ToggleLed

-----------------------------------------------------------------------------
(* Interrupts. *)
BSP_PB_Callback ==
    /\ MainRuns
    /\ BspButtonState' = "PRESSED" /\ unseen' = TRUE
    /\ UNCHANGED <<brvars, timer, elapsed>>

SysTick ==
    /\ HAL_IncTick
    /\ Waits \/ InLoop
    /\ elapsed' = IF timer.fin_ms = 0 \/ elapsed = TickMod THEN elapsed ELSE elapsed + 1
    /\ UNCHANGED <<timer, BspButtonState, unseen>>

LPUART1_IRQHandler ==
    /\ HAL_UART_IRQHandler
    /\ UNCHANGED <<pc, uwTick, tickstart, call, modem, timedOut, foreign, app>>

-----------------------------------------------------------------------------
Main ==
    \/ PowerModem \/ ModemReady \/ NVIC_SystemReset \/ Install
    \/ MainBringup /\ UNCHANGED app
    \/ anj_core_step \/ LoopDelayed \/ check_button_state

Next ==
    \/ Main
    \/ LPUART1_IRQHandler \/ SysTick \/ BSP_PB_Callback
    \/ (ModemAnswers \/ ModemSends) /\ UNCHANGED app

(* The processor runs: a pending interrupt is taken, time passes, and the  *)
(* main loop waits for nothing but time.  The modem may never answer, but  *)
(* an answer that it has begun to send takes no time.                      *)
Spec ==
    Init /\ [][Next]_vars
    /\ WF_vars(LPUART1_IRQHandler) /\ WF_vars(SysTick) /\ WF_vars(Main)
    /\ WF_vars(ModemSends /\ UNCHANGED app)

-----------------------------------------------------------------------------
(* The types of the state. *)
Ticks == 0 .. TickMod - 1

TypeOK ==
    /\ lpuart \in [RDR : Lines, RXNE : BOOLEAN, ORE : BOOLEAN, FE : BOOLEAN,
                   RXNEIE : BOOLEAN, EIE : BOOLEAN]
    /\ huart \in [RxState : {"READY", "BUSY_RX"}, RxISR : BOOLEAN,
                  ErrorCode : SUBSET {"ORE", "FE"}]
    /\ isr \in [at : {"out", "entered", "cleared", "read"}, RXNE : BOOLEAN, ORE : BOOLEAN,
                FE : BOOLEAN, RXNEIE : BOOLEAN, EIE : BOOLEAN]
    /\ rx_buf \in Seq(Lines) /\ out \in Seq(Lines) /\ owed \in Seq(1 .. Last)
    /\ uwTick \in Ticks /\ tickstart \in Ticks /\ deadline \in Ticks
    /\ command \in 1 .. Last /\ attempt \in 0 .. Commands[command].attempts - 1
    /\ timer \in [time_ms : Ticks, int_ms : Nat, fin_ms : Nat] /\ elapsed \in 0 .. TickMod
    /\ aborted \in BOOLEAN /\ timedOut \in BOOLEAN /\ foreign \in BOOLEAN
    /\ BspButtonState \in {"PRESSED", "RELEASED"} /\ unseen \in BOOLEAN

(* Once started, the chain of receive interrupts goes on for ever, unless  *)
(* the driver aborts the reception: no interleaving of arrivals with the   *)
(* handler, nor any framing error, breaks it.                              *)
Started == pc \notin {"power", "boot", "start", "starting", "installed"}
ChainGoesOn == Started => Listening \/ aborted

(* An overrun whose interrupt finds a unit to read does not abort the      *)
(* reception, although the driver calls it a blocking error: the callback  *)
(* has started the next reception, which forgets the error, before the     *)
(* handler looks at it.                                                    *)
AbortOnlyWithoutData == [][aborted' # aborted /\ aborted' => ~HasData]_vars

(* The handler is never called again and again for nothing, as long as the *)
(* reception was not aborted.                                              *)
StormOnlyIfAborted == Storm => aborted

(* A command of the bringup is completed by its own answer unless an       *)
(* attempt has timed out before: what a command leaves behind (the OK that *)
(* follows +CREG) is flushed before the next is sent.                      *)
ForeignOnlyIfTimedOut == foreign => timedOut

(* After a bringup without timeouts nothing is left of it, neither in the  *)
(* ring nor on the line nor with the modem, nor in the data register if    *)
(* the reception is still on: the socket operations start from a clean     *)
(* receiver (Init of Net).                                                 *)
CleanHandover ==
    pc = "done" /\ ~timedOut =>
        /\ rx_buf = <<>> /\ out = <<>> /\ owed = <<>>
        /\ lpuart.RXNE => aborted

(* Every press of the button is followed by a toggle of the LED, wherever  *)
(* in check_button_state it comes.                                         *)
PressIsSeen == unseen => BspButtonState = "PRESSED" \/ pc = "toggle"

(* The DTLS timer tells the time that has really passed, also across the   *)
(* rollover of the tick, for all delays below 49 days.                     *)
DelayIsElapsed ==
    timer.fin_ms # 0 /\ elapsed < TickMod =>
        T!mbedtls_timing_get_delay(timer, uwTick) = T!Verdict(elapsed, timer)

(* The bringup comes to an end, whatever the modem answers and however     *)
(* late, unless the processor is caught in the receive interrupt.          *)
BringupEnds == pc = "start" ~> pc \in {"done", "failed"} \/ Storm

-----------------------------------------------------------------------------
(* modem_rx.c:48, "start chain of interrupts": when modem_rx_start returns *)
(* 0, the driver waits for a unit.                                         *)
StartedMeansListening == [][pc = "installed" /\ pc' = "command" => Listening']_vars
=============================================================================
