------------------------- MODULE ApplicationProofs -------------------------
(***************************************************************************)
(* Proofs about Application, for every list of commands, every text of the *)
(* modem, and every width of the tick.                                     *)
(***************************************************************************)
EXTENDS Application, TLAPS, SequenceTheorems

-----------------------------------------------------------------------------
(* Types, part by part: what LPUART1 and its driver hold, the clock, where *)
(* the bringup is, the modem with the histories, and the application.      *)
RxTypes ==
    /\ lpuart \in [RDR : Lines, RXNE : BOOLEAN, ORE : BOOLEAN, FE : BOOLEAN,
                   RXNEIE : BOOLEAN, EIE : BOOLEAN]
    /\ huart \in [RxState : {"READY", "BUSY_RX"}, RxISR : BOOLEAN,
                  ErrorCode : SUBSET {"ORE", "FE"}]
    /\ isr \in [at : {"out", "entered", "cleared", "read"}, RXNE : BOOLEAN, ORE : BOOLEAN,
                FE : BOOLEAN, RXNEIE : BOOLEAN, EIE : BOOLEAN]
    /\ rx_buf \in Seq(Lines) /\ aborted \in BOOLEAN

ClockTypes == uwTick \in Ticks /\ tickstart \in Ticks /\ deadline \in Ticks

CallTypes == command \in 1 .. Last /\ attempt \in 0 .. Commands[command].attempts - 1

ModemTypes ==
    /\ out \in Seq(Lines) /\ owed \in Seq(1 .. Last)
    /\ timedOut \in BOOLEAN /\ foreign \in BOOLEAN

AppTypes ==
    /\ timer \in [time_ms : Ticks, int_ms : Nat, fin_ms : Nat] /\ elapsed \in 0 .. TickMod
    /\ BspButtonState \in {"PRESSED", "RELEASED"} /\ unseen \in BOOLEAN

(* The parts are the type invariant of the runs. *)
LEMMA TypeParts ==
    TypeOK <=> RxTypes /\ ClockTypes /\ CallTypes /\ ModemTypes /\ AppTypes
BY DEF TypeOK, RxTypes, ClockTypes, CallTypes, ModemTypes, AppTypes

(* What is received with an error is one of the units. *)
LEMMA NoiseIsALine == Noise \in Lines
<1> DEFINE Sent == {Line(text, k) : text \in Texts, k \in 0 .. Last}
<1>1. Lines = Sent \cup {Noise}
  BY DEF Lines
<1> HIDE DEF Sent
<1>. QED
  BY <1>1

(* So is every line the modem may answer with. *)
LEMMA LineType == \A text \in Texts \cup {Noise}, k \in 1 .. Last : Line(text, k) \in Lines
<1> TAKE text \in Texts \cup {Noise}, k \in 1 .. Last
<1>1. CASE text = Noise
  BY <1>1, NoiseIsALine DEF Line
<1>2. CASE text \in Texts
  <2>1. k \in 0 .. Last
    OBVIOUS
  <2>. QED
    BY <1>2, <2>1 DEF Lines
<1>. QED
  BY <1>1, <1>2

(* The commands are there, and each has an attempt. *)
LEMMA CommandsType ==
    /\ Last \in Nat \ {0}
    /\ \A k \in 1 .. Last :
         /\ Commands[k].attempts \in Nat \ {0} /\ Commands[k].timeout \in Nat
         /\ Commands[k].answers \subseteq Seq(Texts \cup {Noise})
<1>1. Commands \in Seq(CommandType)
  BY BringupAssumption
<1>2. Last \in Nat \ {0}
  BY <1>1, BringupAssumption DEF Last
<1>3. ASSUME NEW k \in 1 .. Last PROVE Commands[k] \in CommandType
  BY <1>1, ElementOfSeq DEF Last
<1>. QED
  BY <1>2, <1>3 DEF CommandType

(* The tick stays in its width. *)
LEMMA TickRange == \A x \in Int : x % TickMod \in Ticks
BY BringupAssumption DEF Ticks

-----------------------------------------------------------------------------
(* The steps of the interrupt handler keep the types of the reception. *)
LEMMA HandlerTypes == RxTypes /\ HAL_UART_IRQHandler => RxTypes'
<1> SUFFICES ASSUME RxTypes, HAL_UART_IRQHandler PROVE RxTypes'
  OBVIOUS
<1> USE NoiseIsALine DEF RxTypes
<1>1. ASSUME CallRxISR
      PROVE  /\ lpuart' \in [RDR : Lines, RXNE : BOOLEAN, ORE : BOOLEAN, FE : BOOLEAN,
                             RXNEIE : BOOLEAN, EIE : BOOLEAN]
             /\ huart' \in [RxState : {"READY", "BUSY_RX"}, RxISR : BOOLEAN,
                            ErrorCode : SUBSET {"ORE", "FE"}]
             /\ rx_buf' \in Seq(Lines)
  <2>1. DataRead \in [RDR : Lines, RXNE : BOOLEAN, ORE : BOOLEAN, FE : BOOLEAN,
                      RXNEIE : BOOLEAN, EIE : BOOLEAN]
    BY DEF DataRead
  <2>2. CASE HasData /\ huart.RxISR /\ huart.RxState = "BUSY_RX"
    <3>1. lpuart' = [DataRead EXCEPT !.RXNEIE = TRUE, !.EIE = TRUE] /\ huart' = Restarted
      BY <1>1, <2>2 DEF CallRxISR, UART_RxISR_8BIT, Restarted
    <3>2. rx_buf' = Append(rx_buf, lpuart.RDR)
      BY <1>1, <2>2 DEF CallRxISR, UART_RxISR_8BIT
    <3>3. huart' \in [RxState : {"READY", "BUSY_RX"}, RxISR : BOOLEAN,
                      ErrorCode : SUBSET {"ORE", "FE"}]
      BY <3>1 DEF Restarted
    <3>4. rx_buf' \in Seq(Lines)
      BY <3>2
    <3>. QED
      BY <2>1, <3>1, <3>3, <3>4
  <2>3. CASE ~(HasData /\ huart.RxISR /\ huart.RxState = "BUSY_RX")
    BY <1>1, <2>1, <2>3 DEF CallRxISR, UART_RxISR_8BIT
  <2>. QED
    BY <2>2, <2>3
<1>2. CASE EnterISR
  BY <1>2 DEF EnterISR
<1>3. CASE Receive
  BY <1>3, <1>1 DEF Receive, NotInISR
<1>4. CASE ClearErrors
  BY <1>4 DEF ClearErrors
<1>5. CASE ReceiveWithErrors
  BY <1>5, <1>1 DEF ReceiveWithErrors
<1>6. CASE NothingToDo
  BY <1>6 DEF NothingToDo, NotInISR
<1>7. CASE Abort
  BY <1>7 DEF Abort, NotInISR
<1>8. CASE GoOn
  BY <1>8 DEF GoOn, NotInISR
<1>. QED
  BY <1>2, <1>3, <1>4, <1>5, <1>6, <1>7, <1>8 DEF HAL_UART_IRQHandler

(* The start of the reception, a unit that arrives, and what the main loop *)
(* does to the ring keep them too.                                         *)
LEMMA StartTypes ==
    RxTypes /\ (StartErrorInterrupt \/ InstallRxISR \/ StartDataInterrupt) => RxTypes'
<1>1. RxTypes /\ StartErrorInterrupt => RxTypes'
  <2> SUFFICES ASSUME RxTypes, StartErrorInterrupt PROVE RxTypes'
    OBVIOUS
  <2>1. huart' \in [RxState : {"READY", "BUSY_RX"}, RxISR : BOOLEAN,
                   ErrorCode : SUBSET {"ORE", "FE"}]
    BY DEF StartErrorInterrupt
  <2>2. lpuart' \in [RDR : Lines, RXNE : BOOLEAN, ORE : BOOLEAN, FE : BOOLEAN,
                    RXNEIE : BOOLEAN, EIE : BOOLEAN]
    BY DEF RxTypes, StartErrorInterrupt
  <2>. QED
    BY <2>1, <2>2 DEF RxTypes, StartErrorInterrupt
<1>2. RxTypes /\ InstallRxISR => RxTypes'
  BY DEF RxTypes, InstallRxISR
<1>3. RxTypes /\ StartDataInterrupt => RxTypes'
  BY DEF RxTypes, StartDataInterrupt
<1>. QED
  BY <1>1, <1>2, <1>3

LEMMA ArriveTypes ==
    ASSUME RxTypes, NEW u \in Lines, Arrive(u)
    PROVE  RxTypes'
BY DEF RxTypes, Arrive

LEMMA RingTypes == RxTypes /\ (modem_rx_buf_flush \/ TakeLine) => RxTypes'
<1> SUFFICES ASSUME RxTypes, modem_rx_buf_flush \/ TakeLine PROVE RxTypes'
  OBVIOUS
<1>1. rx_buf' \in Seq(Lines)
  <2>1. CASE modem_rx_buf_flush
    BY <2>1 DEF modem_rx_buf_flush
  <2>2. CASE TakeLine
    BY <2>2 DEF TakeLine, RxTypes
  <2>. QED
    BY <2>1, <2>2
<1>. QED
  BY <1>1 DEF RxTypes, modem_rx_buf_flush, TakeLine

(* The steps of the bringup keep all types. *)
LEMMA BringupTypes == TypeOK /\ MainBringup /\ UNCHANGED app => TypeOK'
<1> SUFFICES ASSUME TypeOK, MainBringup, UNCHANGED app PROVE TypeOK'
  OBVIOUS
<1>1. RxTypes /\ ClockTypes /\ CallTypes /\ ModemTypes /\ AppTypes
  BY TypeParts
<1>2. AppTypes'
  BY <1>1 DEF AppTypes, app, Ticks
<1>3. RxTypes'
  <2>1. CASE UNCHANGED rx
    BY <1>1, <2>1 DEF RxTypes, rx
  <2>2. CASE modem_send_command
    BY <1>1, <2>2 DEF RxTypes, modem_send_command
  <2>3. CASE StartErrorInterrupt \/ InstallRxISR \/ StartDataInterrupt
             \/ modem_rx_buf_flush \/ TakeLine
    BY <1>1, <2>3, StartTypes, RingTypes
  <2>. QED
    BY <2>1, <2>2, <2>3
       DEF MainBringup, modem_rx_start, RxISRInstalled, ReceptionStarted, BeginCommand,
           Settled, BeginAttempt, Paused, PollInTime, TimeOut, NoLine, Unexpected,
           ErrorResponse, CommandDone, Finish, BringupDone
<1>4. ClockTypes'
  <2>1. 0 \in Ticks
    BY BringupAssumption DEF Ticks
  <2>2. CASE modem_send_command
    <3>1. uwTick + Commands[command].timeout \in Int
      BY <1>1, CommandsType DEF ClockTypes, CallTypes, Ticks
    <3>. QED
      BY <1>1, <2>2, <3>1, TickRange DEF modem_send_command, ClockTypes, Ticks
  <2>3. CASE ~modem_send_command
    BY <1>1, <2>1, <2>3
       DEF MainBringup, modem_rx_start, RxISRInstalled, ReceptionStarted, BeginCommand,
           Settled, BeginAttempt, Paused, PollInTime, TimeOut, NoLine, Unexpected,
           ErrorResponse, CommandDone, Finish, BringupDone, StartDelay, EndDelay, call,
           ClockTypes, Ticks
  <2>. QED
    BY <2>2, <2>3
<1>5. CallTypes'
  <2>1. CASE TimeOut
    BY <1>1, <2>1, CommandsType DEF TimeOut, CallTypes
  <2>2. CASE CommandDone
    <3>1. command' \in 1 .. Last /\ attempt' = 0
      BY <1>1, <2>2, CommandsType DEF CommandDone, CallTypes
    <3>2. Commands[command'].attempts \in Nat \ {0}
      BY <3>1, CommandsType
    <3>. QED
      BY <3>1, <3>2 DEF CallTypes
  <2>3. CASE UNCHANGED <<command, attempt>>
    BY <1>1, <2>3 DEF CallTypes
  <2>. QED
    BY <2>1, <2>2, <2>3
       DEF MainBringup, modem_rx_start, RxISRInstalled, ReceptionStarted, BeginCommand,
           Settled, BeginAttempt, Paused, modem_send_command, PollInTime, NoLine, Unexpected,
           ErrorResponse, Finish, BringupDone, call
<1>6. ModemTypes'
  <2>1. CASE modem_send_command
    BY <1>1, <2>1 DEF modem_send_command, ModemTypes, CallTypes
  <2>2. CASE UNCHANGED modem /\ (timedOut' = TRUE \/ UNCHANGED timedOut)
             /\ (foreign' \in BOOLEAN \/ UNCHANGED foreign)
    BY <1>1, <2>2 DEF ModemTypes, modem
  <2>3. CASE CommandDone
    BY <1>1, <2>3 DEF CommandDone, ModemTypes, modem
  <2>. QED
    BY <2>1, <2>2, <2>3
       DEF MainBringup, modem_rx_start, RxISRInstalled, ReceptionStarted, BeginCommand,
           Settled, BeginAttempt, Paused, PollInTime, TimeOut, NoLine, Unexpected,
           ErrorResponse, Finish, BringupDone
<1>. QED
  BY <1>2, <1>3, <1>4, <1>5, <1>6, TypeParts, PTL

(* The steps of main around the bringup, and its reset, keep all types. *)
LEMMA MainTypes ==
    ASSUME TypeOK, PowerModem \/ ModemReady \/ NVIC_SystemReset \/ Install
                   \/ anj_core_step \/ LoopDelayed \/ check_button_state
    PROVE  TypeOK'
<1>1. RxTypes /\ ClockTypes /\ CallTypes /\ ModemTypes /\ AppTypes
  BY TypeParts
<1>2. 0 \in Ticks /\ 0 \in 0 .. TickMod
  BY BringupAssumption DEF Ticks
<1>3. CASE PowerModem
  <2>1. out' \in Seq(Lines)
    BY <1>3, ApplicationAssumption DEF PowerModem
  <2>2. RxTypes' /\ ClockTypes' /\ CallTypes' /\ ModemTypes'
    BY <1>1, <1>3, <2>1
       DEF PowerModem, RxTypes, ClockTypes, CallTypes, ModemTypes, rx, call
  <2>3. AppTypes'
    BY <1>1, <1>3 DEF PowerModem, AppTypes, app, Ticks
  <2>. QED
    BY <2>2, <2>3, TypeParts, PTL
<1>4. CASE ModemReady \/ Install \/ LoopDelayed \/ check_button_state
  <2>1. RxTypes' /\ CallTypes' /\ ModemTypes'
    BY <1>1, <1>4
       DEF ModemReady, Install, LoopDelayed, check_button_state, TestButton, ClearButton,
           ToggleLed, RxTypes, CallTypes, ModemTypes, rx, call, modem
  <2>2. ClockTypes'
    BY <1>1, <1>2, <1>4
       DEF ModemReady, Install, LoopDelayed, check_button_state, TestButton, ClearButton,
           ToggleLed, EndDelay, ClockTypes, call, Ticks
  <2>3. AppTypes'
    BY <1>1, <1>4
       DEF ModemReady, Install, LoopDelayed, check_button_state, TestButton, ClearButton,
           ToggleLed, AppTypes, app, Ticks
  <2>. QED
    BY <2>1, <2>2, <2>3, TypeParts, PTL
<1>5. CASE NVIC_SystemReset
  <2>1. RxTypes'
    <3>1. lpuart' \in [RDR : Lines, RXNE : BOOLEAN, ORE : BOOLEAN, FE : BOOLEAN,
                      RXNEIE : BOOLEAN, EIE : BOOLEAN]
      BY <1>5, NoiseIsALine DEF NVIC_SystemReset
    <3>2. huart' \in [RxState : {"READY", "BUSY_RX"}, RxISR : BOOLEAN,
                     ErrorCode : SUBSET {"ORE", "FE"}]
      BY <1>5 DEF NVIC_SystemReset
    <3>3. isr' \in [at : {"out", "entered", "cleared", "read"}, RXNE : BOOLEAN,
                   ORE : BOOLEAN, FE : BOOLEAN, RXNEIE : BOOLEAN, EIE : BOOLEAN]
      BY <1>5 DEF NVIC_SystemReset, NotInISR
    <3>4. rx_buf' \in Seq(Lines) /\ aborted' \in BOOLEAN
      BY <1>5, EmptySeq DEF NVIC_SystemReset
    <3>. QED
      BY <3>1, <3>2, <3>3, <3>4 DEF RxTypes
  <2>2. ClockTypes' /\ CallTypes' /\ ModemTypes'
    <3>1. ClockTypes'
      BY <1>2, <1>5 DEF NVIC_SystemReset, ClockTypes, Ticks
    <3>2. command' = 1 /\ attempt' = 0
      BY <1>5 DEF NVIC_SystemReset
    <3>3. CallTypes'
      BY <3>2, CommandsType DEF CallTypes
    <3>4. ModemTypes'
      BY <1>5, EmptySeq DEF NVIC_SystemReset, ModemTypes
    <3>. QED
      BY <3>1, <3>3, <3>4
  <2>3. AppTypes'
    BY <1>2, <1>5 DEF NVIC_SystemReset, AppTypes, T!NoDelay, Ticks
  <2>. QED
    BY <2>1, <2>2, <2>3, TypeParts, PTL
<1>6. CASE anj_core_step
  <2>1. RxTypes' /\ ClockTypes' /\ CallTypes' /\ ModemTypes'
    BY <1>1, <1>6 DEF anj_core_step, StartDelay, RxTypes, ClockTypes, CallTypes, ModemTypes,
                      rx, call, modem
  <2>2. AppTypes'
    <3>1. CASE UNCHANGED <<timer, elapsed>>
      BY <1>1, <1>6, <3>1 DEF anj_core_step, AppTypes, Ticks
    <3>2. ASSUME NEW d \in Delays, elapsed' = 0,
                 timer' = T!mbedtls_timing_set_delay(timer, uwTick, d[1], d[2])
          PROVE  AppTypes'
      <4>1. d[1] \in Nat /\ d[2] \in Nat
        BY ApplicationAssumption
      <4>2. timer' \in [time_ms : Ticks, int_ms : Nat, fin_ms : Nat]
        BY <1>1, <3>2, <4>1
           DEF AppTypes, ClockTypes, T!mbedtls_timing_set_delay, T!anj_time_real_now
      <4>. QED
        BY <1>1, <1>2, <1>6, <3>2, <4>2 DEF anj_core_step, AppTypes, Ticks
    <3>. QED
      BY <1>6, <3>1, <3>2 DEF anj_core_step
  <2>. QED
    BY <2>1, <2>2, TypeParts, PTL
<1>. QED
  BY <1>3, <1>4, <1>5, <1>6

(* The interrupts and the modem keep all types. *)
LEMMA OutsideTypes ==
    ASSUME TypeOK, LPUART1_IRQHandler \/ SysTick \/ BSP_PB_Callback
                   \/ ((ModemAnswers \/ ModemSends) /\ UNCHANGED app)
    PROVE  TypeOK'
<1>1. RxTypes /\ ClockTypes /\ CallTypes /\ ModemTypes /\ AppTypes
  BY TypeParts
<1>2. CASE LPUART1_IRQHandler
  <2>1. RxTypes'
    BY <1>1, <1>2, HandlerTypes DEF LPUART1_IRQHandler
  <2>2. ClockTypes' /\ CallTypes' /\ ModemTypes'
    BY <1>1, <1>2 DEF LPUART1_IRQHandler, ClockTypes, CallTypes, ModemTypes, call, modem
  <2>3. AppTypes'
    BY <1>1, <1>2 DEF LPUART1_IRQHandler, AppTypes, app, Ticks
  <2>. QED
    BY <2>1, <2>2, <2>3, TypeParts, PTL
<1>3. CASE SysTick
  <2>1. uwTick' \in Ticks
    BY <1>1, <1>3, TickRange DEF SysTick, HAL_IncTick, ClockTypes, Ticks
  <2>2. elapsed' \in 0 .. TickMod
    BY <1>1, <1>3, BringupAssumption DEF SysTick, AppTypes
  <2>3. RxTypes' /\ CallTypes' /\ ModemTypes' /\ ClockTypes'
    BY <1>1, <1>3, <2>1
       DEF SysTick, HAL_IncTick, RxTypes, ClockTypes, CallTypes, ModemTypes, rx, call, modem
  <2>4. AppTypes'
    BY <1>1, <1>3, <2>2 DEF SysTick, AppTypes, Ticks
  <2>. QED
    BY <2>3, <2>4, TypeParts, PTL
<1>4. CASE BSP_PB_Callback
  <2>1. RxTypes' /\ ClockTypes' /\ CallTypes' /\ ModemTypes'
    BY <1>1, <1>4 DEF BSP_PB_Callback, RxTypes, ClockTypes, CallTypes, ModemTypes, brvars, rx,
                      call, modem
  <2>2. AppTypes'
    BY <1>1, <1>4 DEF BSP_PB_Callback, AppTypes, Ticks
  <2>. QED
    BY <2>1, <2>2, TypeParts, PTL
<1>5. CASE ModemAnswers /\ UNCHANGED app
  <2>1. Head(owed) \in 1 .. Last /\ owed' \in Seq(1 .. Last)
    BY <1>1, <1>5, HeadTailProperties DEF ModemAnswers, ModemTypes
  <2>2. out' \in Seq(Lines)
    <3>1. PICK answer \in Commands[Head(owed)].answers :
            out' = [j \in 1 .. Len(answer) |-> Line(answer[j], Head(owed))]
      BY <1>5 DEF ModemAnswers
    <3>2. answer \in Seq(Texts \cup {Noise})
      BY <2>1, <3>1, CommandsType
    <3>3. ASSUME NEW j \in 1 .. Len(answer) PROVE Line(answer[j], Head(owed)) \in Lines
      <4>1. answer[j] \in Texts \cup {Noise}
        BY <3>2, ElementOfSeq
      <4>. QED
        BY <2>1, <4>1, LineType
    <3>. QED
      BY <3>1, <3>2, <3>3
  <2>3. RxTypes' /\ ClockTypes' /\ CallTypes' /\ ModemTypes'
    BY <1>1, <1>5, <2>1, <2>2
       DEF ModemAnswers, RxTypes, ClockTypes, CallTypes, ModemTypes, rx, call
  <2>4. AppTypes'
    BY <1>1, <1>5 DEF AppTypes, app, Ticks
  <2>. QED
    BY <2>3, <2>4, TypeParts, PTL
<1>6. CASE ModemSends /\ UNCHANGED app
  <2>1. Head(out) \in Lines /\ out' \in Seq(Lines)
    BY <1>1, <1>6, HeadTailProperties DEF ModemSends, ModemTypes
  <2>2. RxTypes'
    BY <1>1, <1>6, <2>1, ArriveTypes DEF ModemSends
  <2>3. ClockTypes' /\ CallTypes' /\ ModemTypes'
    BY <1>1, <1>6, <2>1 DEF ModemSends, ClockTypes, CallTypes, ModemTypes, call
  <2>4. AppTypes'
    BY <1>1, <1>6 DEF AppTypes, app, Ticks
  <2>. QED
    BY <2>2, <2>3, <2>4, TypeParts, PTL
<1>. QED
  BY <1>2, <1>3, <1>4, <1>5, <1>6

(* The types of the start. *)
LEMMA InitTypes == Init => TypeOK
<1> SUFFICES ASSUME Init PROVE TypeOK
  OBVIOUS
<1>1. RxTypes
  <2>1. lpuart \in [RDR : Lines, RXNE : BOOLEAN, ORE : BOOLEAN, FE : BOOLEAN,
                    RXNEIE : BOOLEAN, EIE : BOOLEAN]
    BY NoiseIsALine DEF Init, InitBringup, InitRx
  <2>2. huart \in [RxState : {"READY", "BUSY_RX"}, RxISR : BOOLEAN,
                   ErrorCode : SUBSET {"ORE", "FE"}]
    BY DEF Init, InitBringup, InitRx
  <2>3. isr \in [at : {"out", "entered", "cleared", "read"}, RXNE : BOOLEAN, ORE : BOOLEAN,
                 FE : BOOLEAN, RXNEIE : BOOLEAN, EIE : BOOLEAN]
    BY DEF Init, InitBringup, InitRx, NotInISR
  <2>4. rx_buf \in Seq(Lines) /\ aborted \in BOOLEAN
    BY EmptySeq DEF Init, InitBringup, InitRx
  <2>. QED
    BY <2>1, <2>2, <2>3, <2>4 DEF RxTypes
<1>2. ClockTypes
  BY BringupAssumption DEF Init, InitBringup, ClockTypes, Ticks
<1>3. command = 1 /\ attempt = 0
  BY DEF Init, InitBringup
<1>4. CallTypes
  BY <1>3, CommandsType DEF CallTypes
<1>5. ModemTypes
  BY EmptySeq DEF Init, InitBringup, ModemTypes
<1>6. AppTypes
  <2>1. 0 \in Ticks /\ 0 \in 0 .. TickMod
    BY BringupAssumption DEF Ticks
  <2>. QED
    BY <2>1 DEF Init, AppTypes, T!NoDelay, Ticks
<1>. QED
  BY <1>1, <1>2, <1>4, <1>5, <1>6, TypeParts

(* So does a step that changes nothing. *)
LEMMA StutterTypes == TypeOK /\ UNCHANGED vars => TypeOK'
<1> SUFFICES ASSUME TypeOK, UNCHANGED vars PROVE TypeOK'
  OBVIOUS
<1>1. /\ UNCHANGED <<lpuart, huart, isr, rx_buf, aborted>>
      /\ UNCHANGED <<uwTick, tickstart, deadline, command, attempt, owed, out>>
      /\ UNCHANGED <<timedOut, foreign, timer, BspButtonState, elapsed, unseen>>
  BY DEF vars, brvars, rx, call, modem, app
<1>. QED
  BY <1>1 DEF TypeOK, Ticks

(* The state of the program, its interrupts and the modem is always of its *)
(* type: in particular the attempts of a command never exceed its number.  *)
THEOREM TypeCorrect == Spec => []TypeOK
<1>1. Init => TypeOK
  BY InitTypes
<1>2. TypeOK /\ [Next]_vars => TypeOK'
  <2> SUFFICES ASSUME TypeOK, [Next]_vars PROVE TypeOK'
    OBVIOUS
  <2>1. CASE MainBringup /\ UNCHANGED app
    BY <2>1, BringupTypes
  <2>2. CASE PowerModem \/ ModemReady \/ NVIC_SystemReset \/ Install
             \/ anj_core_step \/ LoopDelayed \/ check_button_state
    BY <2>2, MainTypes
  <2>3. CASE LPUART1_IRQHandler \/ SysTick \/ BSP_PB_Callback
             \/ ((ModemAnswers \/ ModemSends) /\ UNCHANGED app)
    BY <2>3, OutsideTypes
  <2>4. CASE UNCHANGED vars
    BY <2>4, StutterTypes
  <2>. QED
    BY <2>1, <2>2, <2>3, <2>4 DEF Next, Main
<1>. QED
  BY <1>1, <1>2, PTL DEF Spec

-----------------------------------------------------------------------------
(* The reception.  As long as it was not aborted, the driver is, step by   *)
(* step of the start, where HAL_UART_Receive_IT puts it, and listens from  *)
(* then on, also in the middle of the handler.  The data interrupt that    *)
(* the handler finds enabled was enabled by the start, and once it has     *)
(* read a unit no error is left.                                           *)
BeforeStart == pc \in {"power", "boot", "start"}

Reception ==
    /\ BeforeStart => isr = NotInISR /\ ~lpuart.RXNEIE /\ ~lpuart.EIE
    /\ ~aborted =>
         /\ ~Started => ~lpuart.RXNEIE
         /\ pc \in {"starting", "installed"} => huart.RxState = "BUSY_RX" /\ lpuart.EIE
         /\ pc = "installed" => huart.RxISR
         /\ Started => Listening
         /\ isr.RXNEIE => Started
         /\ isr.at = "read" /\ HasData => huart.ErrorCode = {}

(* Reading a unit leaves the driver as it was or listening.                *)
LEMMA CallReception ==
    ASSUME TypeOK, CallRxISR
    PROVE  \/ huart' = huart /\ lpuart'.RXNEIE = lpuart.RXNEIE /\ lpuart'.EIE = lpuart.EIE
              /\ ~(HasData /\ huart.RxISR /\ huart.RxState = "BUSY_RX")
           \/ Listening' /\ huart'.ErrorCode = {} /\ HasData
<1>1. RxTypes
  BY TypeParts
<1>2. DataRead \in [RDR : Lines, RXNE : BOOLEAN, ORE : BOOLEAN, FE : BOOLEAN,
                    RXNEIE : BOOLEAN, EIE : BOOLEAN]
      /\ DataRead.RXNEIE = lpuart.RXNEIE /\ DataRead.EIE = lpuart.EIE
  BY <1>1, NoiseIsALine DEF DataRead, RxTypes
<1>3. CASE HasData /\ huart.RxISR /\ huart.RxState = "BUSY_RX"
  <2>1. lpuart' = [DataRead EXCEPT !.RXNEIE = TRUE, !.EIE = TRUE] /\ huart' = Restarted
    BY <1>3 DEF CallRxISR, UART_RxISR_8BIT, Restarted
  <2>2. lpuart'.RXNEIE /\ lpuart'.EIE
    BY <1>2, <2>1
  <2>3. huart'.RxState = "BUSY_RX" /\ huart'.RxISR /\ huart'.ErrorCode = {}
    BY <2>1 DEF Restarted
  <2>. QED
    BY <1>3, <2>2, <2>3 DEF Listening
<1>4. CASE ~(HasData /\ huart.RxISR /\ huart.RxState = "BUSY_RX")
  <2>1. huart' = huart /\ (lpuart' = DataRead \/ lpuart' = lpuart)
    BY <1>4 DEF CallRxISR, UART_RxISR_8BIT
  <2>. QED
    BY <1>2, <1>4, <2>1
<1>. QED
  BY <1>3, <1>4

(* Every step of the handler keeps Reception; the main loop stands still.  *)
LEMMA HandlerReception ==
    ASSUME TypeOK, Reception, HAL_UART_IRQHandler, UNCHANGED pc
    PROVE  Reception'
<1>1. RxTypes
  BY TypeParts
<1>2. Started' = Started /\ BeforeStart' = BeforeStart
  BY DEF Started, BeforeStart
<1>3. ~BeforeStart
  BY DEF Reception, HAL_UART_IRQHandler, EnterISR, Pending, Receive, ClearErrors,
         ReceiveWithErrors, NothingToDo, Abort, GoOn, NotInISR
<1>4. CASE EnterISR
  <2>1. isr'.RXNEIE = lpuart.RXNEIE /\ isr'.at = "entered"
    BY <1>4 DEF EnterISR
  <2>. QED
    BY <1>2, <1>3, <1>4, <2>1 DEF EnterISR, Reception, Listening
<1>5. CASE Receive \/ ReceiveWithErrors
  <2>1. CallRxISR /\ UNCHANGED aborted
    BY <1>5 DEF Receive, ReceiveWithErrors
  <2>2. CASE huart' = huart /\ lpuart'.RXNEIE = lpuart.RXNEIE /\ lpuart'.EIE = lpuart.EIE
             /\ ~(HasData /\ huart.RxISR /\ huart.RxState = "BUSY_RX")
    <3>1. isr'.RXNEIE => isr.RXNEIE
      BY <1>1, <1>5 DEF Receive, ReceiveWithErrors, NotInISR, RxTypes
    <3>2. HasData' => HasData
      BY <1>1, <1>5 DEF Receive, ReceiveWithErrors, NotInISR, RxTypes, HasData
    <3>3. ~aborted => ~HasData
      BY <2>2 DEF Reception, HasData, Listening
    <3>. QED
      BY <1>2, <1>3, <2>1, <2>2, <3>1, <3>2, <3>3 DEF Reception, Listening
  <2>3. CASE Listening' /\ huart'.ErrorCode = {} /\ HasData
    <3>1. ~aborted => Started
      BY <2>3 DEF Reception, HasData
    <3>2. Started => ~(pc \in {"starting", "installed"}) /\ pc # "installed"
      BY DEF Started
    <3>. QED
      BY <1>2, <1>3, <2>1, <2>3, <3>1, <3>2 DEF Reception
  <2>. QED
    BY <2>1, <2>2, <2>3, CallReception
<1>6. CASE ClearErrors
  <2>1. lpuart'.RXNEIE = lpuart.RXNEIE /\ lpuart'.EIE = lpuart.EIE
    BY <1>1, <1>6 DEF ClearErrors, RxTypes
  <2>2. huart'.RxState = huart.RxState /\ huart'.RxISR = huart.RxISR
    BY <1>1, <1>6 DEF ClearErrors, RxTypes
  <2>3. isr'.at = "cleared" /\ isr'.RXNEIE = isr.RXNEIE
    BY <1>1, <1>6 DEF ClearErrors, RxTypes
  <2>. QED
    BY <1>2, <1>3, <1>6, <2>1, <2>2, <2>3 DEF ClearErrors, Reception, Listening
<1>7. CASE NothingToDo
  BY <1>2, <1>3, <1>7 DEF NothingToDo, NotInISR, Reception, Listening
<1>8. CASE Abort
  BY <1>2, <1>3, <1>8 DEF Abort, Reception
<1>9. CASE GoOn
  <2>1. huart'.RxState = huart.RxState /\ huart'.RxISR = huart.RxISR
    BY <1>1, <1>9 DEF GoOn, RxTypes
  <2>2. ~isr'.RXNEIE /\ isr'.at = "out"
    BY <1>9 DEF GoOn, NotInISR
  <2>. QED
    BY <1>2, <1>3, <1>9, <2>1, <2>2 DEF GoOn, Reception, Listening
<1>. QED
  BY <1>4, <1>5, <1>6, <1>7, <1>8, <1>9 DEF HAL_UART_IRQHandler

(* So do the steps of the main loop: those of the start one after the      *)
(* other, and the others because they leave the reception alone.           *)
LEMMA MainReception ==
    ASSUME TypeOK, Reception, Main
    PROVE  Reception'
<1>1. RxTypes
  BY TypeParts
<1>2. isr = NotInISR
  BY DEF Main, PowerModem, ModemReady, NVIC_SystemReset, Install, MainBringup, modem_rx_start,
         RxISRInstalled, ReceptionStarted, BeginCommand, Settled, BeginAttempt, Paused,
         modem_send_command, PollInTime, TimeOut, NoLine, Unexpected, ErrorResponse,
         CommandDone, Finish, BringupDone, anj_core_step, LoopDelayed, check_button_state,
         TestButton, ClearButton, ToggleLed, StartDelay, EndDelay, Goto, MainRuns
<1>3. ~isr.RXNEIE /\ isr.at = "out"
  BY <1>2 DEF NotInISR
<1>4. CASE PowerModem \/ ModemReady
  BY <1>1, <1>2, <1>3, <1>4
     DEF PowerModem, ModemReady, Goto, rx, Reception, BeforeStart, Started
<1>5. CASE NVIC_SystemReset
  <2>1. pc' = "power" /\ isr' = NotInISR /\ ~lpuart'.RXNEIE /\ ~lpuart'.EIE
    BY <1>5 DEF NVIC_SystemReset
  <2>2. ~isr'.RXNEIE /\ isr'.at = "out"
    BY <2>1 DEF NotInISR
  <2>. QED
    BY <2>1, <2>2 DEF Reception, BeforeStart, Started
<1>6. CASE modem_rx_start
  <2>1. huart'.RxState = "BUSY_RX"
    BY <1>6 DEF modem_rx_start, StartErrorInterrupt
  <2>2. lpuart'.EIE /\ lpuart'.RXNEIE = lpuart.RXNEIE
    BY <1>1, <1>6 DEF modem_rx_start, StartErrorInterrupt, RxTypes
  <2>3. pc = "start" /\ pc' = "starting" /\ UNCHANGED <<isr, aborted>>
    BY <1>6 DEF modem_rx_start, StartErrorInterrupt, Goto
  <2>. QED
    BY <1>3, <2>1, <2>2, <2>3 DEF Reception, BeforeStart, Started
<1>7. CASE RxISRInstalled
  <2>1. huart'.RxState = huart.RxState /\ huart'.RxISR
    BY <1>1, <1>7 DEF RxISRInstalled, InstallRxISR, RxTypes
  <2>2. pc = "starting" /\ pc' = "installed" /\ UNCHANGED <<lpuart, isr, aborted>>
    BY <1>7 DEF RxISRInstalled, InstallRxISR, Goto
  <2>. QED
    BY <1>3, <2>1, <2>2 DEF Reception, BeforeStart, Started
<1>8. CASE ReceptionStarted
  <2>1. lpuart'.RXNEIE /\ lpuart'.EIE = lpuart.EIE
    BY <1>1, <1>8 DEF ReceptionStarted, StartDataInterrupt, RxTypes
  <2>2. pc = "installed" /\ pc' = "command" /\ UNCHANGED <<huart, isr, aborted>>
    BY <1>8 DEF ReceptionStarted, StartDataInterrupt, Goto
  <2>. QED
    BY <1>3, <2>1, <2>2 DEF Reception, BeforeStart, Started, Listening
<1>9. CASE modem_send_command
  <2>1. huart'.RxState = huart.RxState /\ huart'.RxISR = huart.RxISR
    BY <1>1, <1>9 DEF modem_send_command, RxTypes
  <2>2. pc = "send" /\ pc' = "poll" /\ UNCHANGED <<lpuart, isr, aborted>>
    BY <1>9 DEF modem_send_command, Goto
  <2>. QED
    BY <1>3, <2>1, <2>2 DEF Reception, BeforeStart, Started, Listening
<1>10. ASSUME UNCHANGED <<lpuart, huart, isr, aborted>>, Started, Started'
       PROVE  Reception'
  BY <1>2, <1>3, <1>10 DEF Reception, BeforeStart, Started, Listening, HasData
<1>11. CASE Install \/ BeginCommand \/ Settled \/ BeginAttempt \/ Paused \/ PollInTime
            \/ TimeOut \/ NoLine \/ Unexpected \/ ErrorResponse \/ CommandDone \/ Finish
            \/ BringupDone \/ anj_core_step \/ LoopDelayed \/ check_button_state
  <2>1. UNCHANGED <<lpuart, huart, isr, aborted>>
    BY <1>11
       DEF Install, BeginCommand, Settled, BeginAttempt, Paused, PollInTime, TimeOut, NoLine,
           Unexpected, ErrorResponse, CommandDone, Finish, BringupDone, anj_core_step,
           LoopDelayed, check_button_state, TestButton, ClearButton, ToggleLed,
           modem_rx_buf_flush, TakeLine, rx
  <2>2. Started /\ Started'
    BY <1>11
       DEF Install, BeginCommand, Settled, BeginAttempt, Paused, PollInTime, TimeOut, NoLine,
           Unexpected, ErrorResponse, CommandDone, Finish, BringupDone, anj_core_step,
           LoopDelayed, check_button_state, TestButton, ClearButton, ToggleLed, StartDelay,
           EndDelay, Goto, Started
  <2>. QED
    BY <1>10, <2>1, <2>2
<1>. QED
  BY <1>4, <1>5, <1>6, <1>7, <1>8, <1>9, <1>11 DEF Main, MainBringup

(* Reception is an invariant. *)
LEMMA ReceptionInvariant == Spec => []Reception
<1>1. Init => Reception
  BY DEF Init, InitBringup, InitRx, NotInISR, Reception, BeforeStart, Started
<1>2. TypeOK /\ Reception /\ [Next]_vars => Reception'
  <2> SUFFICES ASSUME TypeOK, Reception, [Next]_vars PROVE Reception'
    OBVIOUS
  <2>1. CASE Main
    BY <2>1, MainReception
  <2>2. CASE LPUART1_IRQHandler
    BY <2>2, HandlerReception DEF LPUART1_IRQHandler
  <2>3. CASE ModemSends /\ UNCHANGED app
    <3>1. lpuart'.RXNEIE = lpuart.RXNEIE /\ lpuart'.EIE = lpuart.EIE
      BY <2>3, TypeParts DEF ModemSends, Arrive, RxTypes
    <3>2. UNCHANGED <<huart, isr, aborted, pc>>
      BY <2>3 DEF ModemSends, Arrive
    <3>. QED
      BY <3>1, <3>2 DEF Reception, BeforeStart, Started, Listening, HasData
  <2>4. CASE UNCHANGED <<lpuart, huart, isr, aborted, pc>>
    BY <2>4 DEF Reception, BeforeStart, Started, Listening, HasData
  <2>. QED
    BY <2>1, <2>2, <2>3, <2>4
       DEF Next, SysTick, HAL_IncTick, BSP_PB_Callback, ModemAnswers, vars, brvars, rx
<1>. QED
  BY <1>1, <1>2, TypeCorrect, PTL DEF Spec

(* Once started, the chain of interrupts goes on for ever, unless the      *)
(* driver aborts the reception: HAL_UART_RxCpltCallback restarts it.       *)
THEOREM ReceptionGoesOn == Spec => []ChainGoesOn
<1>1. Reception => ChainGoesOn
  BY DEF Reception, ChainGoesOn
<1>. QED
  BY <1>1, ReceptionInvariant, PTL

(* The receive interrupt never starves the main loop with a flag that      *)
(* HAL_UART_IRQHandler does not clear, unless the reception was aborted.   *)
THEOREM NoStorm == Spec => []StormOnlyIfAborted
<1>1. Reception => StormOnlyIfAborted
  BY DEF Reception, StormOnlyIfAborted, Storm, Listening
<1>. QED
  BY <1>1, ReceptionInvariant, PTL

(* The driver aborts the reception only if the interrupt of the overrun    *)
(* found no unit to read: UART_RxISR_8BIT forgets the error otherwise.     *)
THEOREM DataSavesReception == Spec => AbortOnlyWithoutData
<1>1. Reception /\ [Next]_vars => [aborted' # aborted /\ aborted' => ~HasData]_vars
  <2> SUFFICES ASSUME Reception, Next, aborted' # aborted, aborted' PROVE ~HasData
    OBVIOUS
  <2>1. Abort
    BY DEF Next, Main, PowerModem, ModemReady, NVIC_SystemReset, Install, MainBringup,
           modem_rx_start, RxISRInstalled, ReceptionStarted, BeginCommand, Settled,
           BeginAttempt, Paused, modem_send_command, PollInTime, TimeOut, NoLine, Unexpected,
           ErrorResponse, CommandDone, Finish, BringupDone, anj_core_step, LoopDelayed,
           check_button_state, TestButton, ClearButton, ToggleLed, StartErrorInterrupt,
           InstallRxISR, StartDataInterrupt, modem_rx_buf_flush, TakeLine, LPUART1_IRQHandler,
           HAL_UART_IRQHandler, EnterISR, Receive, ClearErrors, ReceiveWithErrors, NothingToDo,
           GoOn, SysTick, HAL_IncTick, BSP_PB_Callback, ModemAnswers, ModemSends, Arrive,
           brvars, rx
  <2>. QED
    BY <2>1 DEF Reception, Abort
<1>. QED
  BY <1>1, ReceptionInvariant, PTL DEF Spec, AbortOnlyWithoutData

-----------------------------------------------------------------------------
(* What the differences of ticks and the next tick are, without the %. *)
LEMMA Difference ==
    ASSUME NEW m \in Nat, m > 0, NEW t \in 0 .. m - 1, NEW s \in 0 .. m - 1
    PROVE  /\ (t - s) % m = IF s <= t THEN t - s ELSE t - s + m
           /\ (t + 1) % m = IF t + 1 < m THEN t + 1 ELSE 0
BY SMT

(* A tick adds one to the difference, as long as it fits, also when the    *)
(* later time has wrapped.                                                 *)
LEMMA TickAdds ==
    ASSUME NEW m \in Nat, m > 0, NEW t \in 0 .. m - 1, NEW s \in 0 .. m - 1,
           ((t - s) % m) + 1 < m
    PROVE  (((t + 1) % m) - s) % m = ((t - s) % m) + 1
<1>1. (t + 1) % m \in 0 .. m - 1
  BY Difference
<1>2. (((t + 1) % m) - s) % m = IF s <= (t + 1) % m THEN ((t + 1) % m) - s
                                                   ELSE ((t + 1) % m) - s + m
  BY <1>1, Difference
<1> DEFINE n == (t + 1) % m
           d == (t - s) % m
           e == (n - s) % m
<1>3. /\ n = IF t + 1 < m THEN t + 1 ELSE 0
      /\ d = IF s <= t THEN t - s ELSE t - s + m
      /\ e = IF s <= n THEN n - s ELSE n - s + m
      /\ d + 1 < m
  BY <1>2, Difference
<1> HIDE DEF n, d, e
<1>4. e = d + 1
  BY <1>3
<1>. QED
  BY <1>4 DEF n, d, e

(* While the timer runs and the ticks since it was set fit its width, the  *)
(* difference of the ticks is their number.                                *)
TimerRuns ==
    timer.fin_ms # 0 /\ elapsed < TickMod => (uwTick - timer.time_ms) % TickMod = elapsed

(* The DTLS timer tells the time that has really passed, also across the   *)
(* rollover of the tick, for every width of the tick.                      *)
THEOREM TimerIsRight == Spec => []DelayIsElapsed
<1>1. Init => TimerRuns
  BY DEF Init, T!NoDelay, TimerRuns
<1>2. TypeOK /\ TimerRuns /\ [Next]_vars => TimerRuns'
  <2> SUFFICES ASSUME TypeOK, TimerRuns, [Next]_vars PROVE TimerRuns'
    OBVIOUS
  <2>1. ClockTypes /\ AppTypes
    BY TypeParts
  <2>2. TickMod \in Nat /\ TickMod > 0
    BY BringupAssumption
  <2>3. CASE SysTick
    <3> SUFFICES ASSUME timer.fin_ms # 0, elapsed' < TickMod
                 PROVE  (uwTick' - timer.time_ms) % TickMod = elapsed'
      BY <2>3 DEF SysTick, TimerRuns
    <3>1. elapsed' = elapsed + 1 /\ elapsed \in Nat
      BY <2>1, <2>2, <2>3 DEF SysTick, AppTypes
    <3>2. elapsed < TickMod
      BY <2>2, <3>1
    <3>3. (uwTick - timer.time_ms) % TickMod = elapsed
      BY <3>2 DEF TimerRuns
    <3>4. uwTick' = (uwTick + 1) % TickMod
      BY <2>3 DEF SysTick, HAL_IncTick
    <3>5. uwTick \in 0 .. TickMod - 1 /\ timer.time_ms \in 0 .. TickMod - 1
      BY <2>1 DEF ClockTypes, AppTypes, Ticks
    <3>. QED
      BY <2>2, <3>1, <3>3, <3>4, <3>5, TickAdds
  <2>4. CASE anj_core_step
    <3>1. UNCHANGED uwTick
      BY <2>4 DEF anj_core_step
    <3>2. CASE UNCHANGED <<timer, elapsed>>
      BY <3>1, <3>2 DEF TimerRuns
    <3>3. ASSUME NEW d \in Delays, elapsed' = 0,
                 timer' = T!mbedtls_timing_set_delay(timer, uwTick, d[1], d[2])
          PROVE  TimerRuns'
      <4>1. timer'.fin_ms # 0 => timer'.time_ms = uwTick
        BY <3>3 DEF T!mbedtls_timing_set_delay, T!anj_time_real_now
      <4>2. (uwTick - uwTick) % TickMod = 0
        BY <2>1, <2>2, Difference DEF ClockTypes, Ticks
      <4>. QED
        BY <3>1, <3>3, <4>1, <4>2 DEF TimerRuns
    <3>. QED
      BY <2>4, <3>2, <3>3 DEF anj_core_step
  <2>5. CASE NVIC_SystemReset
    BY <2>5 DEF NVIC_SystemReset, T!NoDelay, TimerRuns
  <2>6. CASE UNCHANGED <<timer, elapsed, uwTick>>
    BY <2>6 DEF TimerRuns
  <2>. QED
    BY <2>3, <2>4, <2>5, <2>6
       DEF Next, Main, PowerModem, ModemReady, Install, MainBringup, modem_rx_start,
           RxISRInstalled, ReceptionStarted, BeginCommand, Settled, BeginAttempt, Paused,
           modem_send_command, PollInTime, TimeOut, NoLine, Unexpected, ErrorResponse,
           CommandDone, Finish, BringupDone, LoopDelayed, check_button_state, TestButton,
           ClearButton, ToggleLed, LPUART1_IRQHandler, BSP_PB_Callback, ModemAnswers,
           ModemSends, vars, brvars, app
<1>3. TypeOK /\ TimerRuns => DelayIsElapsed
  BY DEF TimerRuns, DelayIsElapsed, T!mbedtls_timing_get_delay, T!mbedtls_timing_get_timer,
         T!anj_time_real_now, T!unsigned_long
<1>. QED
  BY <1>1, <1>2, <1>3, TypeCorrect, PTL DEF Spec

(* Every press of the button is followed by a toggle of the LED, because   *)
(* check_button_state releases the state before it toggles.                *)
THEOREM NoPressIsLost == Spec => []PressIsSeen
<1>1. Init => PressIsSeen
  BY DEF Init, PressIsSeen
<1>2. PressIsSeen /\ [Next]_vars => PressIsSeen'
  <2> SUFFICES ASSUME PressIsSeen, [Next]_vars PROVE PressIsSeen'
    OBVIOUS
  <2>1. CASE check_button_state
    BY <2>1 DEF check_button_state, TestButton, ClearButton, ToggleLed, Goto, app, PressIsSeen
  <2>2. CASE BSP_PB_Callback \/ NVIC_SystemReset
    BY <2>2 DEF BSP_PB_Callback, NVIC_SystemReset, PressIsSeen
  <2>3. ASSUME UNCHANGED <<unseen, BspButtonState>>, pc # "toggle" \/ UNCHANGED pc
        PROVE  PressIsSeen'
    BY <2>3 DEF PressIsSeen
  <2>. QED
    BY <2>1, <2>2, <2>3
       DEF Next, Main, PowerModem, ModemReady, Install, MainBringup, modem_rx_start,
           RxISRInstalled, ReceptionStarted, BeginCommand, Settled, BeginAttempt, Paused,
           modem_send_command, PollInTime, TimeOut, NoLine, Unexpected, ErrorResponse,
           CommandDone, Finish, BringupDone, anj_core_step, LoopDelayed, SysTick, HAL_IncTick,
           LPUART1_IRQHandler, ModemAnswers, ModemSends, StartDelay, EndDelay, Goto, vars,
           brvars, app
<1>. QED
  BY <1>1, <1>2, PTL DEF Spec
-----------------------------------------------------------------------------
(* Whose lines are under way.  An aborted reception has left the start     *)
(* behind and reads nothing any more, and an empty data register holds     *)
(* what does not matter.  And as long as no attempt has timed out, nothing *)
(* is owed between two commands; once a tick has passed nothing is being   *)
(* sent; the flush leaves nothing; and while a command is under way, all   *)
(* there is belongs to it, and nothing is there before the modem answers.  *)
Mine(u) == u = Noise \/ u.of = command

Deaf == aborted => ~BeforeStart /\ huart.RxState = "READY"

Drained == ~lpuart.RXNE => lpuart.RDR = Noise

Emptied == ~aborted => ~lpuart.RXNE /\ ~isr.RXNE

Clean == rx_buf = <<>> /\ out = <<>> /\ Emptied

AllMine ==
    /\ \A i \in 1 .. Len(rx_buf) : Mine(rx_buf[i])
    /\ \A i \in 1 .. Len(out) : Mine(out[i])
    /\ ~aborted => Mine(lpuart.RDR)

Polling == pc \in {"poll", "match"}

Account ==
    /\ attempt = 0 /\ pc # "pause" /\ ~foreign
    /\ ~Polling => owed = <<>>
    /\ pc \in {"settle", "last"} /\ uwTick # tickstart => out = <<>>
    /\ pc = "flush" => out = <<>>
    /\ pc \in {"send", "done"} => Clean
    /\ Polling => AllMine
    /\ Polling /\ owed # <<>> => owed = <<command>> /\ Clean

(* Noise is the only unit that completes nothing by its own. *)
LEMMA OwnLine ==
    ASSUME NEW text \in Texts \cup {Noise}
    PROVE  Mine(Line(text, command))
BY DEF Mine, Line

(* What the handler may do to the units: it only takes them, and appends   *)
(* the one in the data register to the ring unless it was aborted.         *)
LEMMA HandlerTakes ==
    ASSUME TypeOK, Deaf, HAL_UART_IRQHandler
    PROVE  /\ aborted => aborted'
           /\ lpuart'.RXNE => lpuart.RXNE
           /\ isr'.RXNE => isr.RXNE \/ lpuart.RXNE
           /\ \/ lpuart'.RDR = lpuart.RDR /\ lpuart'.RXNE = lpuart.RXNE
              \/ lpuart'.RDR = Noise
           /\ \/ rx_buf' = rx_buf
              \/ ~aborted /\ isr.RXNE /\ rx_buf' = Append(rx_buf, lpuart.RDR)
<1>1. RxTypes
  BY TypeParts
<1>2. ASSUME CallRxISR
      PROVE  /\ lpuart'.RXNE => lpuart.RXNE
             /\ \/ lpuart'.RDR = lpuart.RDR /\ lpuart'.RXNE = lpuart.RXNE
                \/ lpuart'.RDR = Noise
             /\ \/ rx_buf' = rx_buf
                \/ ~aborted /\ isr.RXNE /\ rx_buf' = Append(rx_buf, lpuart.RDR)
  <2>1. DataRead.RXNE = FALSE /\ DataRead.RDR = Noise
    BY <1>1 DEF DataRead, RxTypes
  <2>2. CASE HasData /\ huart.RxISR /\ huart.RxState = "BUSY_RX"
    <3>1. lpuart' = [DataRead EXCEPT !.RXNEIE = TRUE, !.EIE = TRUE]
          /\ rx_buf' = Append(rx_buf, lpuart.RDR)
      BY <1>2, <2>2 DEF CallRxISR, UART_RxISR_8BIT, Restarted
    <3>2. lpuart'.RXNE = FALSE /\ lpuart'.RDR = Noise
      BY <2>1, <3>1 DEF DataRead
    <3>3. ~aborted /\ isr.RXNE
      BY <2>2 DEF Deaf, HasData
    <3>. QED
      BY <3>1, <3>2, <3>3
  <2>3. CASE ~(HasData /\ huart.RxISR /\ huart.RxState = "BUSY_RX")
    <3>1. lpuart' \in {lpuart, DataRead} /\ rx_buf' = rx_buf
      BY <1>2, <2>3 DEF CallRxISR, UART_RxISR_8BIT
    <3>. QED
      BY <2>1, <3>1
  <2>. QED
    BY <2>2, <2>3
<1>3. NotInISR.RXNE = FALSE
  BY DEF NotInISR
<1>4. CASE EnterISR
  <2>1. isr'.RXNE = lpuart.RXNE /\ UNCHANGED <<lpuart, rx_buf, aborted>>
    BY <1>4 DEF EnterISR
  <2>. QED
    BY <2>1
<1>5. CASE Receive
  BY <1>2, <1>3, <1>5 DEF Receive
<1>6. CASE ReceiveWithErrors
  <2>1. isr'.RXNE = isr.RXNE
    BY <1>1, <1>6 DEF ReceiveWithErrors, RxTypes
  <2>. QED
    BY <1>2, <1>6, <2>1 DEF ReceiveWithErrors
<1>7. CASE ClearErrors
  <2>1. isr'.RXNE = isr.RXNE /\ lpuart'.RXNE = lpuart.RXNE /\ lpuart'.RDR = lpuart.RDR
    BY <1>1, <1>7 DEF ClearErrors, RxTypes
  <2>. QED
    BY <1>7, <2>1 DEF ClearErrors
<1>8. CASE NothingToDo \/ GoOn
  BY <1>3, <1>8 DEF NothingToDo, GoOn
<1>9. CASE Abort
  <2>1. lpuart'.RXNE = lpuart.RXNE /\ lpuart'.RDR = lpuart.RDR
    BY <1>1, <1>9 DEF Abort, RxTypes
  <2>. QED
    BY <1>3, <1>9, <2>1 DEF Abort
<1>. QED
  BY <1>4, <1>5, <1>6, <1>7, <1>8, <1>9 DEF HAL_UART_IRQHandler
(* Every step keeps Deaf: only the start of the reception makes the driver *)
(* busy, and only an abort makes it deaf.                                  *)
LEMMA DeafStep ==
    ASSUME TypeOK, Reception, Deaf, [Next]_vars
    PROVE  Deaf'
<1>1. RxTypes
  BY TypeParts
<1>2. CASE LPUART1_IRQHandler
  <2>1. UNCHANGED pc /\ HAL_UART_IRQHandler
    BY <1>2 DEF LPUART1_IRQHandler
  <2>2. CASE Receive \/ ReceiveWithErrors
    <3>1. CallRxISR /\ UNCHANGED aborted
      BY <2>2 DEF Receive, ReceiveWithErrors
    <3>2. huart.RxState = "READY" => huart' = huart
      BY <3>1 DEF CallRxISR, UART_RxISR_8BIT
    <3>. QED
      BY <2>1, <3>1, <3>2 DEF Deaf, BeforeStart
  <2>3. CASE ClearErrors \/ GoOn
    <3>1. huart'.RxState = huart.RxState /\ UNCHANGED aborted
      BY <1>1, <2>3 DEF ClearErrors, GoOn, RxTypes
    <3>. QED
      BY <2>1, <3>1 DEF Deaf, BeforeStart
  <2>4. CASE EnterISR \/ NothingToDo
    BY <2>1, <2>4 DEF EnterISR, NothingToDo, Deaf, BeforeStart
  <2>5. CASE Abort
    <3>1. huart'.RxState = "READY"
      BY <1>1, <2>5 DEF Abort, RxTypes
    <3>2. ~BeforeStart
      BY <2>5 DEF Abort, Reception, NotInISR
    <3>. QED
      BY <2>1, <3>1, <3>2 DEF Deaf, BeforeStart
  <2>. QED
    BY <2>1, <2>2, <2>3, <2>4, <2>5 DEF HAL_UART_IRQHandler
<1>3. CASE NVIC_SystemReset
  BY <1>3 DEF NVIC_SystemReset, Deaf
<1>4. CASE modem_rx_start
  BY <1>4 DEF modem_rx_start, StartErrorInterrupt, Goto, Deaf, BeforeStart
<1>5. CASE RxISRInstalled
  <2>1. huart'.RxState = huart.RxState
    BY <1>1, <1>5 DEF RxISRInstalled, InstallRxISR, RxTypes
  <2>. QED
    BY <1>5, <2>1 DEF RxISRInstalled, InstallRxISR, Goto, Deaf, BeforeStart
<1>6. CASE modem_send_command
  <2>1. huart'.RxState = huart.RxState
    BY <1>1, <1>6 DEF modem_send_command, RxTypes
  <2>. QED
    BY <1>6, <2>1 DEF modem_send_command, Goto, Deaf, BeforeStart
<1>7. ASSUME UNCHANGED <<aborted, huart>>, BeforeStart' => BeforeStart
      PROVE  Deaf'
  BY <1>7 DEF Deaf
<1>8. CASE PowerModem \/ ModemReady \/ Install \/ ReceptionStarted \/ BeginCommand \/ Settled
           \/ BeginAttempt \/ Paused \/ PollInTime \/ TimeOut \/ NoLine \/ Unexpected
           \/ ErrorResponse \/ CommandDone \/ Finish \/ BringupDone \/ anj_core_step
           \/ LoopDelayed \/ check_button_state
  <2>1. UNCHANGED <<huart, aborted>>
    BY <1>8
       DEF PowerModem, ModemReady, ReceptionStarted, StartDataInterrupt,
           Install, BeginCommand, Settled, BeginAttempt, Paused, PollInTime, TimeOut, NoLine,
           Unexpected, ErrorResponse, CommandDone, Finish, BringupDone, anj_core_step,
           LoopDelayed, check_button_state, TestButton, ClearButton, ToggleLed,
           modem_rx_buf_flush, TakeLine, rx
  <2>2. BeforeStart' => BeforeStart
    BY <1>8
       DEF PowerModem, ModemReady, ReceptionStarted,
           Install, BeginCommand, Settled, BeginAttempt, Paused, PollInTime, TimeOut, NoLine,
           Unexpected, ErrorResponse, CommandDone, Finish, BringupDone, anj_core_step,
           LoopDelayed, check_button_state, TestButton, ClearButton, ToggleLed, StartDelay,
           EndDelay, Goto, BeforeStart
  <2>. QED
    BY <1>7, <2>1, <2>2
<1>9. CASE SysTick \/ BSP_PB_Callback \/ ModemAnswers \/ ModemSends \/ UNCHANGED vars
  BY <1>9 DEF SysTick, HAL_IncTick, BSP_PB_Callback, ModemAnswers, ModemSends, Arrive, vars,
              brvars, rx, Deaf, BeforeStart
<1>. QED
  BY <1>2, <1>3, <1>4, <1>5, <1>6, <1>8, <1>9 DEF Next, Main, MainBringup

(* Every step keeps Drained. *)
LEMMA DrainedStep ==
    ASSUME TypeOK, Deaf, Drained, [Next]_vars
    PROVE  Drained'
<1>1. RxTypes
  BY TypeParts
<1>2. CASE LPUART1_IRQHandler
  BY <1>2, HandlerTakes DEF LPUART1_IRQHandler, Drained
<1>3. CASE ModemSends
  <2>1. lpuart'.RXNE
    BY <1>1, <1>3 DEF ModemSends, Arrive, RxTypes
  <2>. QED
    BY <2>1 DEF Drained
<1>4. CASE NVIC_SystemReset
  BY <1>4 DEF NVIC_SystemReset, Drained
<1>5. CASE modem_rx_start \/ ReceptionStarted
  <2>1. lpuart'.RXNE = lpuart.RXNE /\ lpuart'.RDR = lpuart.RDR
    BY <1>1, <1>5 DEF modem_rx_start, ReceptionStarted, StartErrorInterrupt,
                      StartDataInterrupt, RxTypes
  <2>. QED
    BY <2>1 DEF Drained
<1>6. ASSUME UNCHANGED lpuart PROVE Drained'
  BY <1>6 DEF Drained
<1>. QED
  BY <1>2, <1>3, <1>4, <1>5, <1>6
     DEF Next, Main, MainBringup, PowerModem, ModemReady, Install, RxISRInstalled, InstallRxISR,
         BeginCommand, Settled, BeginAttempt, Paused, modem_send_command, PollInTime, TimeOut,
         NoLine, Unexpected, ErrorResponse, CommandDone, Finish, BringupDone, anj_core_step,
         LoopDelayed, check_button_state, TestButton, ClearButton, ToggleLed,
         modem_rx_buf_flush, TakeLine, SysTick, HAL_IncTick, BSP_PB_Callback, ModemAnswers,
         vars, brvars, rx

(* The handler keeps the account: what it appends to the ring was under    *)
(* way, and there is nothing to append where nothing was.                  *)
LEMMA HandlerAccount ==
    ASSUME TypeOK, Deaf, Account, LPUART1_IRQHandler
    PROVE  Account'
<1>1. HAL_UART_IRQHandler
      /\ UNCHANGED <<pc, uwTick, tickstart, command, attempt, owed, out, foreign>>
  BY DEF LPUART1_IRQHandler, call, modem
<1>2. RxTypes
  BY TypeParts
<1>3. Emptied => Emptied' /\ rx_buf' = rx_buf
  BY <1>1, HandlerTakes DEF Emptied
<1>4. Clean => Clean'
  BY <1>1, <1>3 DEF Clean
<1>5. AllMine => AllMine'
  <2>. SUFFICES ASSUME AllMine PROVE AllMine'
    OBVIOUS
  <2>2. ~aborted' => Mine(lpuart'.RDR)
    BY <1>1, HandlerTakes DEF AllMine, Mine
  <2>3. CASE rx_buf' = rx_buf
    BY <1>1, <2>2, <2>3 DEF AllMine, Mine
  <2>4. CASE ~aborted /\ rx_buf' = Append(rx_buf, lpuart.RDR)
    <3>1. rx_buf \in Seq(Lines) /\ lpuart.RDR \in Lines
      BY <1>2 DEF RxTypes
    <3>2. Len(rx_buf') = Len(rx_buf) + 1 /\ rx_buf'[Len(rx_buf) + 1] = lpuart.RDR
          /\ \A i \in 1 .. Len(rx_buf) : rx_buf'[i] = rx_buf[i]
      BY <2>4, <3>1, AppendProperties
    <3>3. Len(rx_buf) \in Nat
      BY <3>1, LenProperties
    <3>4. ASSUME NEW i \in 1 .. Len(rx_buf') PROVE Mine(rx_buf'[i])
      <4>1. i \in 1 .. Len(rx_buf) \/ i = Len(rx_buf) + 1
        BY <3>2, <3>3
      <4>. QED
        BY <2>4, <3>2, <4>1 DEF AllMine
    <3>. QED
      BY <1>1, <2>2, <3>4 DEF AllMine, Mine
  <2>. QED
    BY <1>1, <2>3, <2>4, HandlerTakes
<1>. QED
  BY <1>1, <1>4, <1>5 DEF Account, Polling

(* So does the modem: it answers only the command under way. *)
LEMMA AnswerAccount ==
    ASSUME TypeOK, Account, ModemAnswers
    PROVE  Account'
<1>1. ModemTypes
  BY TypeParts
<1>2. UNCHANGED <<rx, pc, uwTick, tickstart, command, attempt, foreign>> /\ owed # <<>>
  BY DEF ModemAnswers, call
<1>3. Polling /\ owed = <<command>> /\ Clean /\ AllMine
  BY <1>2 DEF Account
<1>4. owed' = <<>> /\ Head(owed) = command
  BY <1>3 DEF ModemAnswers
<1>5. AllMine'
  <2>1. PICK answer \in Commands[command].answers :
          out' = [j \in 1 .. Len(answer) |-> Line(answer[j], command)]
    BY <1>4 DEF ModemAnswers
  <2>2. command \in 1 .. Last
    BY TypeParts DEF CallTypes
  <2>3. answer \in Seq(Texts \cup {Noise})
    BY <2>1, <2>2, CommandsType
  <2>4. Len(out') = Len(answer)
    BY <2>1, <2>3, LenProperties
  <2>5. ASSUME NEW i \in 1 .. Len(out') PROVE Mine(out'[i])
    <3>1. i \in 1 .. Len(answer) /\ answer[i] \in Texts \cup {Noise}
      BY <2>3, <2>4, ElementOfSeq
    <3>2. out'[i] = Line(answer[i], command)
      BY <2>1, <3>1
    <3>. QED
      BY <3>1, <3>2, OwnLine
  <2>. QED
    BY <1>2, <1>3, <2>5 DEF AllMine, Mine, rx
<1>6. Polling' /\ UNCHANGED <<pc, attempt, foreign>>
  BY <1>2, <1>3 DEF Polling
<1>. QED
  BY <1>3, <1>4, <1>5, <1>6 DEF Account, Polling

(* And what it sends is already accounted for. *)
LEMMA SendAccount ==
    ASSUME TypeOK, Account, ModemSends
    PROVE  Account'
<1>1. ModemTypes /\ RxTypes
  BY TypeParts
<1>2. /\ UNCHANGED <<rx_buf, aborted, pc, uwTick, tickstart, command, attempt, owed, foreign>>
      /\ out # <<>> /\ out' = Tail(out) /\ Arrive(Head(out))
  BY DEF ModemSends, Arrive, call
<1>3. ~Clean /\ pc # "flush" /\ ~(pc \in {"settle", "last"} /\ uwTick # tickstart)
  BY <1>2 DEF Clean, Account
<1>4. pc \notin {"send", "done"} /\ owed = <<>>
  BY <1>3 DEF Account
<1>5. Polling => AllMine'
  <2>. SUFFICES ASSUME Polling PROVE AllMine'
    OBVIOUS
  <2>1. AllMine
    BY DEF Account
  <2>2. /\ Len(out) \in Nat /\ Len(out) >= 1 /\ Head(out) = out[1] /\ Len(out') = Len(out) - 1
        /\ \A i \in 1 .. Len(out') : out'[i] = out[i + 1]
    BY <1>1, <1>2, HeadTailProperties, LenProperties, EmptySeq DEF ModemTypes
  <2>3. Mine(Head(out)) /\ \A i \in 1 .. Len(out') : Mine(out'[i])
    <3>1. 1 \in 1 .. Len(out) /\ \A i \in 1 .. Len(out') : i + 1 \in 1 .. Len(out)
      BY <2>2
    <3>. QED
      BY <2>1, <2>2, <3>1 DEF AllMine
  <2>4. lpuart'.RDR \in {lpuart.RDR, Head(out)}
    BY <1>1, <1>2 DEF Arrive, RxTypes
  <2>. QED
    BY <1>2, <2>1, <2>3, <2>4 DEF AllMine, Mine
<1>. QED
  BY <1>2, <1>3, <1>4, <1>5 DEF Account, Polling
(* The main loop runs only while nothing is left in the data register,     *)
(* unless the reception was aborted.                                       *)
LEMMA MainIsLast ==
    ASSUME Reception, MainRuns, Started
    PROVE  Emptied
<1>1. ~isr.RXNE
  BY DEF MainRuns, NotInISR
<1>2. ~aborted => ~lpuart.RXNE
  BY DEF Reception, Listening, MainRuns, Pending
<1>. QED
  BY <1>1, <1>2 DEF Emptied

(* A delay that has ended has seen the tick change. *)
LEMMA DelayTakesTime ==
    ASSUME TypeOK, NEW n \in Nat, Delayed(n)
    PROVE  uwTick # tickstart
<1>1. uwTick \in Ticks /\ TickMod \in Nat \ {0}
  BY BringupAssumption DEF TypeOK
<1>2. ASSUME uwTick = tickstart PROVE FALSE
  <2>1. uwTick - tickstart = 0
    BY <1>1, <1>2 DEF Ticks
  <2>2. 0 % TickMod = 0
    BY <1>1
  <2>. QED
    BY <2>1, <2>2 DEF Delayed
<1>. QED
  BY <1>2

(* The steps of a command keep the account: the flush makes it, and only   *)
(* a line of the command itself completes it.                              *)
LEMMA CommandAccount ==
    ASSUME TypeOK, Reception, Drained, Account,
           BeginAttempt \/ modem_send_command \/ Unexpected \/ ErrorResponse \/ CommandDone
           \/ PollInTime \/ NoLine
    PROVE  Account'
<1>1. RxTypes /\ ModemTypes
  BY TypeParts
<1>2. CASE BeginAttempt
  <2>1. pc = "flush" /\ MainRuns /\ attempt = 0
    BY <1>2 DEF BeginAttempt, StartDelay, Goto, Account
  <2>2. Emptied
    BY <2>1, MainIsLast DEF Started
  <2>3. /\ pc' = "send" /\ rx_buf' = <<>>
        /\ UNCHANGED <<lpuart, isr, aborted, attempt, foreign, owed, out>>
    BY <1>2, <2>1 DEF BeginAttempt, Goto, modem_rx_buf_flush, call, modem
  <2>4. Clean' /\ owed = <<>>
    BY <2>1, <2>2, <2>3 DEF Account, Clean, Emptied, Polling
  <2>. QED
    BY <2>3, <2>4 DEF Account, Polling
<1>3. CASE modem_send_command
  <2>1. pc = "send" /\ pc' = "poll" /\ owed' = Append(owed, command)
        /\ UNCHANGED <<lpuart, isr, rx_buf, aborted, attempt, command, out, foreign>>
    BY <1>3 DEF modem_send_command, Goto
  <2>2. owed = <<>> /\ Clean /\ attempt = 0 /\ ~foreign
    BY <2>1 DEF Account, Polling
  <2>3. owed' = <<command>> /\ Clean'
    BY <2>1, <2>2 DEF Clean, Emptied
  <2>4. AllMine'
    <3>1. Len(rx_buf') = 0 /\ Len(out') = 0
      BY <2>1, <2>2, EmptySeq DEF Clean
    <3>2. ~aborted' => Mine(lpuart'.RDR)
      BY <2>1, <2>2 DEF Clean, Emptied, Drained, Mine
    <3>. QED
      BY <2>1, <3>1, <3>2 DEF AllMine, Mine
  <2>. QED
    BY <2>1, <2>2, <2>3, <2>4 DEF Account, Polling
<1>4. CASE PollInTime \/ NoLine
  <2>1. /\ Polling /\ Polling' /\ pc' \in {"poll", "match"}
        /\ UNCHANGED <<rx, attempt, command, owed, out, foreign>>
    BY <1>4 DEF PollInTime, NoLine, Goto, Polling, call, modem
  <2>. QED
    BY <2>1 DEF Account, Polling, AllMine, Mine, Clean, Emptied, rx
<1>5. ASSUME Polling, TakeLine
      PROVE  /\ Mine(Head(rx_buf)) /\ owed = <<>>
             /\ UNCHANGED <<command, out>> => AllMine'
  <2>1. AllMine /\ rx_buf # <<>> /\ owed = <<>>
    BY <1>5 DEF Account, TakeLine, Clean
  <2>2. rx_buf' = Tail(rx_buf) /\ UNCHANGED <<lpuart, aborted>>
    BY <1>5 DEF TakeLine
  <2>3. /\ Len(rx_buf) \in Nat /\ Len(rx_buf) >= 1 /\ Head(rx_buf) = rx_buf[1]
        /\ Len(rx_buf') = Len(rx_buf) - 1
        /\ \A i \in 1 .. Len(rx_buf') : rx_buf'[i] = rx_buf[i + 1]
    BY <1>1, <2>1, <2>2, HeadTailProperties, LenProperties, EmptySeq DEF RxTypes
  <2>4. 1 \in 1 .. Len(rx_buf) /\ \A i \in 1 .. Len(rx_buf') : i + 1 \in 1 .. Len(rx_buf)
    BY <2>3
  <2>5. Mine(Head(rx_buf)) /\ \A i \in 1 .. Len(rx_buf') : Mine(rx_buf'[i])
    BY <2>1, <2>3, <2>4 DEF AllMine
  <2>. QED
    BY <2>1, <2>2, <2>5 DEF AllMine, Mine
<1>6. CASE Unexpected
  <2>1. /\ pc = "match" /\ pc' = "poll" /\ TakeLine
        /\ UNCHANGED <<attempt, command, owed, out, foreign>>
    BY <1>6 DEF Unexpected, Goto, call, modem
  <2>2. owed = <<>> /\ AllMine'
    BY <1>5, <2>1 DEF Polling
  <2>. QED
    BY <2>1, <2>2 DEF Account, Polling
<1>7. CASE ErrorResponse
  <2>1. /\ pc = "match" /\ pc' = "failed" /\ TakeLine
        /\ UNCHANGED <<attempt, command, owed, out, foreign>>
    BY <1>7 DEF ErrorResponse, Goto, call, modem
  <2>2. owed = <<>>
    BY <1>5, <2>1 DEF Polling
  <2>. QED
    BY <2>1, <2>2 DEF Account, Polling
<1>8. CASE CommandDone
  <2>1. /\ pc = "match" /\ pc' \in {"command", "finish"} /\ TakeLine
        /\ Code(Head(rx_buf)) = 0 /\ attempt' = 0
        /\ foreign' = (foreign \/ Head(rx_buf).of # command)
        /\ UNCHANGED owed
    BY <1>8 DEF CommandDone, Goto, modem
  <2>2. owed = <<>> /\ Mine(Head(rx_buf))
    BY <1>5, <2>1 DEF Polling
  <2>3. Head(rx_buf) # Noise
    BY <2>1 DEF Code
  <2>4. ~foreign'
    BY <2>1, <2>2, <2>3 DEF Mine, Account
  <2>. QED
    BY <2>1, <2>2, <2>4 DEF Account, Polling
<1>. QED
  BY <1>2, <1>3, <1>4, <1>6, <1>7, <1>8

(* So do the steps between the commands: a delay that has ended has left   *)
(* the modem the time to send what it had to say.                          *)
LEMMA DelayAccount ==
    ASSUME TypeOK, Reception, Account,
           BeginCommand \/ Settled \/ Paused \/ Finish \/ BringupDone
    PROVE  Account'
<1>1. CASE BeginCommand \/ Finish
  <2>1. /\ ~Polling /\ pc' \in {"settle", "last"} /\ tickstart' = uwTick
        /\ UNCHANGED <<uwTick, attempt, owed, out, foreign>>
    BY <1>1 DEF BeginCommand, Finish, StartDelay, Goto, Polling, call, modem
  <2>. QED
    BY <2>1 DEF Account, Polling
<1>2. CASE Settled
  <2>1. /\ pc = "settle" /\ pc' = "flush" /\ Delayed(Settle)
        /\ UNCHANGED <<attempt, owed, out, foreign>>
    BY <1>2 DEF Settled, EndDelay, Goto, call, modem
  <2>2. out = <<>>
    BY <2>1, BringupAssumption, DelayTakesTime DEF Account
  <2>. QED
    BY <2>1, <2>2 DEF Account, Polling
<1>3. CASE Paused
  BY <1>3 DEF Paused, EndDelay, Goto, Account
<1>4. CASE BringupDone
  <2>1. /\ pc = "last" /\ pc' = "done" /\ Delayed(Settle) /\ MainRuns /\ rx_buf' = <<>>
        /\ UNCHANGED <<lpuart, isr, aborted, attempt, owed, out, foreign>>
    BY <1>4 DEF BringupDone, EndDelay, Goto, modem_rx_buf_flush, call, modem
  <2>2. out = <<>>
    BY <2>1, BringupAssumption, DelayTakesTime DEF Account
  <2>3. Emptied
    BY <2>1, MainIsLast DEF Started
  <2>4. Clean'
    BY <2>1, <2>2, <2>3 DEF Clean, Emptied
  <2>. QED
    BY <2>1, <2>4 DEF Account, Polling
<1>. QED
  BY <1>1, <1>2, <1>3, <1>4

(* The steps of main outside the commands leave nothing to account for. *)
LEMMA MainAccount ==
    ASSUME Account,
           PowerModem \/ ModemReady \/ Install \/ modem_rx_start \/ RxISRInstalled
           \/ ReceptionStarted \/ anj_core_step \/ LoopDelayed \/ check_button_state
    PROVE  Account'
<1>1. UNCHANGED <<attempt, owed, foreign>>
  BY DEF PowerModem, ModemReady, Install, modem_rx_start, RxISRInstalled, ReceptionStarted,
         anj_core_step, LoopDelayed, check_button_state, TestButton, ClearButton, ToggleLed,
         call, modem
<1>2. pc \notin {"poll", "match"}
      /\ pc' \notin {"settle", "last", "flush", "send", "done", "poll", "match", "pause"}
  BY DEF PowerModem, ModemReady, Install, modem_rx_start, RxISRInstalled, ReceptionStarted,
         anj_core_step, LoopDelayed, check_button_state, TestButton, ClearButton, ToggleLed,
         StartDelay, EndDelay, Goto
<1>. QED
  BY <1>1, <1>2 DEF Account, Polling

(* Every step keeps the account, as long as no attempt has timed out.      *)
LEMMA AccountStep ==
    ASSUME TypeOK, Reception, Deaf, Drained, ~timedOut => Account, [Next]_vars
    PROVE  ~timedOut' => Account'
<1>1. CASE NVIC_SystemReset
  BY <1>1 DEF NVIC_SystemReset, Account, Polling
<1>2. CASE TimeOut
  BY <1>2 DEF TimeOut
<1>3. ASSUME ~NVIC_SystemReset, ~TimeOut PROVE UNCHANGED timedOut
  BY <1>3
     DEF Next, Main, MainBringup, PowerModem, ModemReady, Install, modem_rx_start,
         RxISRInstalled, ReceptionStarted, BeginCommand, Settled, BeginAttempt, Paused,
         modem_send_command, PollInTime, NoLine, Unexpected, ErrorResponse, CommandDone, Finish,
         BringupDone, anj_core_step, LoopDelayed, check_button_state, TestButton, ClearButton,
         ToggleLed, LPUART1_IRQHandler, SysTick, HAL_IncTick, BSP_PB_Callback, ModemAnswers,
         ModemSends, vars, brvars
<1>. SUFFICES ASSUME ~NVIC_SystemReset, ~TimeOut, Account PROVE Account'
  BY <1>1, <1>2, <1>3
<1>4. CASE Main
  BY <1>4, CommandAccount, DelayAccount, MainAccount DEF Main, MainBringup
<1>5. CASE LPUART1_IRQHandler
  BY <1>5, HandlerAccount
<1>6. CASE ModemAnswers \/ ModemSends
  BY <1>6, AnswerAccount, SendAccount
<1>7. CASE SysTick
  <2>1. out = <<>> /\ UNCHANGED <<rx, pc, command, attempt, owed, out, foreign>>
    BY <1>7 DEF SysTick, HAL_IncTick, call, modem
  <2>. QED
    BY <2>1 DEF Account, Polling, AllMine, Mine, Clean, Emptied, rx
<1>8. CASE BSP_PB_Callback \/ UNCHANGED vars
  <2>1. UNCHANGED brvars
    BY <1>8 DEF BSP_PB_Callback, vars
  <2>. QED
    BY <2>1 DEF Account, Polling, AllMine, Mine, Clean, Emptied, brvars, rx, call, modem
<1>. QED
  BY <1>4, <1>5, <1>6, <1>7, <1>8 DEF Next

(* The account is kept for ever. *)
LEMMA AccountInvariant == Spec => [](Deaf /\ (~timedOut => Account))
<1>1. Init => Deaf /\ Drained /\ (~timedOut => Account)
  BY DEF Init, InitBringup, InitRx, Deaf, Drained, Account, Polling
<1>2. TypeOK /\ Reception /\ Deaf /\ Drained /\ (~timedOut => Account) /\ [Next]_vars
        => Deaf' /\ Drained' /\ (~timedOut' => Account')
  BY DeafStep, DrainedStep, AccountStep
<1>. QED
  BY <1>1, <1>2, TypeCorrect, ReceptionInvariant, PTL DEF Spec

(* A command of the bringup is completed by the answer to another only     *)
(* after an attempt has timed out, whatever the modem answers to it and    *)
(* however late, and whatever the receive interrupt loses.                 *)
THEOREM AnswersAreOwn == Spec => []ForeignOnlyIfTimedOut
<1>1. (~timedOut => Account) => ForeignOnlyIfTimedOut
  BY DEF Account, ForeignOnlyIfTimedOut
<1>. QED
  BY <1>1, AccountInvariant, PTL

(* A bringup without timeouts leaves nothing of its commands behind.       *)
THEOREM HandoverIsClean == Spec => []CleanHandover
<1>1. (~timedOut => Account) => CleanHandover
  BY DEF Account, Clean, Emptied, Polling, CleanHandover
<1>. QED
  BY <1>1, AccountInvariant, PTL
=============================================================================
