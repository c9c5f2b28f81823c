------------------------------ MODULE Bringup ------------------------------
(***************************************************************************)
(* modem_bringup of src/modem/modem.c: a list of commands, each with its   *)
(* timeout and attempts, whose answers are found in the receive ring line  *)
(* by line.  Time is the tick of the HAL; the modem answers when it likes, *)
(* or not at all, but sends the lines of an answer back to back.           *)
(***************************************************************************)
EXTENDS UartRx, Integers

CONSTANTS
    Commands,   \* the sequence of [timeout, attempts, delay, responses, answers]
    Settle,     \* HAL_Delay(200)
    TickMod     \* 2^32 in the code

Texts == {"OK", "ERROR", "registered", "other"}

CommandType ==
    [timeout : Nat \ {0}, attempts : Nat \ {0}, delay : Nat,
     responses : [Texts -> {-1, 0, 1}], answers : SUBSET Seq(Texts \cup {Noise})]

ASSUME BringupAssumption ==
    /\ Commands \in Seq(CommandType) /\ Commands # <<>>
    /\ Settle \in Nat /\ TickMod \in Nat \ {0}

VARIABLES
    pc,         \* where the main loop is
    uwTick,     \* the tick, modulo TickMod
    tickstart,  \* of the last HAL_Delay
    deadline,   \* of the attempt
    command, attempt,
    owed,       \* modem: the commands it has received and not yet answered
    out,        \* modem: the lines it is sending
    timedOut,   \* history: an attempt has timed out since the last reset
    foreign     \* history: a command was completed by the answer to another

modem == <<owed, out>>
call == <<command, attempt, deadline>>
brvars == <<rx, pc, uwTick, tickstart, call, modem, timedOut, foreign>>

(* A line, and the command it answers; 0 for what the modem says unasked.  *)
Line(text, k) == IF text = Noise THEN Noise ELSE [text |-> text, of |-> k]

Last == Len(Commands)
Lines == {Line(text, k) : text \in Texts, k \in 0 .. Last} \cup {Noise}

InitBringup ==
    /\ InitRx
    /\ pc = "power" /\ uwTick = 0 /\ tickstart = 0 /\ deadline = 0
    /\ command = 1 /\ attempt = 0
    /\ owed = <<>> /\ out = <<>>
    /\ timedOut = FALSE /\ foreign = FALSE

-----------------------------------------------------------------------------
Goto(from, to) == MainRuns /\ pc = from /\ pc' = to

(* HAL_Delay adds a tick to guarantee the minimum, and is at home in the   *)
(* arithmetic of uint32_t.                                                 *)
Delayed(n) == (uwTick - tickstart) % TickMod >= n + 1

StartDelay(from, to) ==
    /\ Goto(from, to)
    /\ tickstart' = uwTick

EndDelay(from, to, n) ==
    /\ Goto(from, to)
    /\ Delayed(n)
    /\ tickstart' = 0

-----------------------------------------------------------------------------
(* modem_bringup *)
modem_rx_start ==
    /\ Goto("start", "starting")
    /\ StartErrorInterrupt
    /\ UNCHANGED <<uwTick, tickstart, call, modem, timedOut, foreign>>

RxISRInstalled ==
    /\ Goto("starting", "installed")
    /\ InstallRxISR
    /\ UNCHANGED <<uwTick, tickstart, call, modem, timedOut, foreign>>

ReceptionStarted ==
    /\ Goto("installed", "command")
    /\ StartDataInterrupt
    /\ UNCHANGED <<uwTick, tickstart, call, modem, timedOut, foreign>>

(* bringup_command_ex *)
BeginCommand ==
    /\ StartDelay("command", "settle")
    /\ UNCHANGED <<rx, uwTick, call, modem, timedOut, foreign>>

Settled ==
    /\ EndDelay("settle", "flush", Settle)
    /\ UNCHANGED <<rx, uwTick, call, modem, timedOut, foreign>>

modem_rx_buf_flush == rx_buf' = <<>> /\ UNCHANGED <<lpuart, huart, isr, aborted>>

\* Mutant: leftovers are not cleared.
Mut_BeginAttempt ==
    /\ IF attempt > 0 THEN StartDelay("flush", "pause")
                      ELSE Goto("flush", "send") /\ UNCHANGED tickstart
    /\ UNCHANGED <<rx, uwTick, call, modem, timedOut, foreign>>

BeginAttempt ==
    /\ IF attempt > 0 THEN StartDelay("flush", "pause")
                      ELSE Goto("flush", "send") /\ UNCHANGED tickstart
    /\ modem_rx_buf_flush
    /\ UNCHANGED <<uwTick, call, modem, timedOut, foreign>>

Paused ==
    /\ EndDelay("pause", "send", Commands[command].delay)
    /\ UNCHANGED <<rx, uwTick, call, modem, timedOut, foreign>>

(* The transmitter, idle for some hundred milliseconds, takes the command; *)
(* HAL_UART_Transmit_IT clears the ErrorCode it shares with the reception. *)
modem_send_command ==
    /\ Goto("send", "poll")
    /\ owed' = Append(owed, command)
    /\ huart' = [huart EXCEPT !.ErrorCode = {}]
    /\ deadline' = (uwTick + Commands[command].timeout) % TickMod
    /\ UNCHANGED <<lpuart, isr, rx_buf, aborted, uwTick, tickstart, command, attempt, out,
                   timedOut, foreign>>

PollInTime ==
    /\ Goto("poll", "match")
    /\ uwTick < deadline
    /\ UNCHANGED <<rx, uwTick, tickstart, call, modem, timedOut, foreign>>

TimeOut ==
    /\ uwTick >= deadline
    /\ IF attempt + 1 < Commands[command].attempts
       THEN Goto("poll", "flush") /\ attempt' = attempt + 1
       ELSE Goto("poll", "failed") /\ UNCHANGED attempt
    /\ deadline' = 0
    /\ timedOut' = TRUE
    /\ UNCHANGED <<rx, uwTick, tickstart, command, modem, foreign>>

(* match_responses_lenient *)
\* Mutant: it waits for a line.
Mut_NoLine ==
    /\ Goto("match", "match")
    /\ rx_buf = <<>>
    /\ UNCHANGED <<rx, uwTick, tickstart, call, modem, timedOut, foreign>>

NoLine ==
    /\ Goto("match", "poll")
    /\ rx_buf = <<>>
    /\ UNCHANGED <<rx, uwTick, tickstart, call, modem, timedOut, foreign>>

Code(line) == IF line = Noise THEN 1 ELSE Commands[command].responses[line.text]

TakeLine ==
    /\ rx_buf # <<>>
    /\ rx_buf' = Tail(rx_buf)
    /\ UNCHANGED <<lpuart, huart, isr, aborted>>

Unexpected ==
    /\ Goto("match", "poll")
    /\ TakeLine /\ Code(Head(rx_buf)) > 0
    /\ UNCHANGED <<uwTick, tickstart, call, modem, timedOut, foreign>>

ErrorResponse ==
    /\ Goto("match", "failed")
    /\ TakeLine /\ Code(Head(rx_buf)) < 0
    /\ UNCHANGED <<uwTick, tickstart, call, modem, timedOut, foreign>>

\* Mutant: the attempts go on from those of the command before.
Mut_CommandDone ==
    /\ Goto("match", IF command < Last THEN "command" ELSE "finish")
    /\ TakeLine /\ Code(Head(rx_buf)) = 0
    /\ foreign' = (foreign \/ Head(rx_buf).of # command)
    /\ command' = IF command < Last THEN command + 1 ELSE command
    /\ deadline' = 0
    /\ UNCHANGED <<uwTick, tickstart, modem, timedOut, attempt>>

CommandDone ==
    /\ Goto("match", IF command < Last THEN "command" ELSE "finish")
    /\ TakeLine /\ Code(Head(rx_buf)) = 0
    /\ foreign' = (foreign \/ Head(rx_buf).of # command)
    /\ command' = IF command < Last THEN command + 1 ELSE command
    /\ attempt' = 0 /\ deadline' = 0
    /\ UNCHANGED <<uwTick, tickstart, modem, timedOut>>

Finish ==
    /\ StartDelay("finish", "last")
    /\ UNCHANGED <<rx, uwTick, call, modem, timedOut, foreign>>

\* Mutant: nothing is flushed in the end.
Mut_BringupDone ==
    /\ EndDelay("last", "done", Settle)
    /\ UNCHANGED <<rx, uwTick, call, modem, timedOut, foreign>>

BringupDone ==
    /\ EndDelay("last", "done", Settle)
    /\ modem_rx_buf_flush
    /\ UNCHANGED <<uwTick, call, modem, timedOut, foreign>>

-----------------------------------------------------------------------------
(* The modem. *)
ModemAnswers ==
    /\ owed # <<>> /\ out = <<>>
    /\ \E answer \in Commands[Head(owed)].answers :
         out' = [j \in 1 .. Len(answer) |-> Line(answer[j], Head(owed))]
    /\ owed' = Tail(owed)
    /\ UNCHANGED <<rx, pc, uwTick, tickstart, call, timedOut, foreign>>

ModemSends ==
    /\ out # <<>>
    /\ Arrive(Head(out))
    /\ out' = Tail(out)
    /\ UNCHANGED <<pc, uwTick, tickstart, call, owed, timedOut, foreign>>

(* SysTick.  What does not wait takes no time before the bringup is done,  *)
(* and the end of a wait is seen at most a tick late.                      *)
Waits ==
    \/ pc \in {"settle", "last"} /\ ~Delayed(Settle + 1)
    \/ pc = "pause" /\ ~Delayed(Commands[command].delay + 1)
    \/ pc \in {"poll", "match"} /\ uwTick <= deadline

HAL_IncTick ==
    /\ MainRuns /\ out = <<>>
    /\ uwTick' = (uwTick + 1) % TickMod
    /\ UNCHANGED <<rx, pc, tickstart, call, modem, timedOut, foreign>>

MainBringup ==
    \/ modem_rx_start \/ RxISRInstalled \/ ReceptionStarted
    \/ BeginCommand \/ Settled \/ BeginAttempt \/ Paused
    \/ modem_send_command \/ PollInTime \/ TimeOut
    \/ NoLine \/ Unexpected \/ ErrorResponse \/ CommandDone
    \/ Finish \/ BringupDone
=============================================================================
