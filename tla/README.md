# A verification model of the Anjay Lite bare-metal client

The repository is the firmware of an LwM2M client on an STM32U385: a main loop
around Anjay Lite, a BG96 modem on a UART driven byte by byte from interrupts, and
the glue between them. This directory holds TLA+ models of that glue, the TLC runs
that check them and the TLAPS proofs about them. Anjay Lite and mbed TLS are
submodules whose contents are not here; the ST driver is vendored, and only the
part the application depends on is modelled.

## Inventory

| component | state | operations | modelled in |
|---|---|---|---|
| ring buffer, `modem/circ_buf.h` | `begin`, `end`, storage | push, pop, seek, advance, append, flush | `CircBuf` |
| transmitter, `modem/modem_tx.c` | `tx_buf`, `tx_ongoing` | append, start; `HAL_UART_TxCpltCallback` | `ModemTx` |
| HAL UART transmit | `gState`, counters, buffer pointer, two interrupt enables | `HAL_UART_Transmit_IT`, TXE and TC interrupts | `ModemTx` |
| receiver, `modem/modem_rx.c` | `rx_buf`, `byte` | scan for lines, seek, advance, pop, flush; `HAL_UART_RxCpltCallback` | `ModemRx` |
| HAL UART receive | `RxState`, `RxISR`, `ErrorCode`, flags and interrupt enables | `HAL_UART_Receive_IT`, `HAL_UART_IRQHandler` with its error branch | `UartRx`; the callback's ring in `ModemRx` |
| socket operations, `modem/modem.c` | `step` of the operation, receive queue | open, send, close (init and continue), try_recv, URC handler | `ModemSocket`, `ModemRx` |
| receive queue, `modem/modem.c` | ring of bytes, array of lengths | push by the URC handler, pop by try_recv | `RecvQueue`; a sequence in `ModemSocket` |
| bringup, `modem/modem.c` | command, attempt, deadline | a list of commands with retries and delays | `Bringup` |
| network layer, `compat/net.c` | `ctx_storage`: used, state, current_op | create, connect, send, recv, shutdown, close, cleanup | `Net` |
| temperature object, `temperature_obj.c` | value, minimum, maximum, application type and its saved copy, DMA buffer | update, read, write, execute, transaction | `TemperatureObj` |
| main loop and button, `main.c`, `platform.c` | button flag | start-up, reset on failure, loop; button interrupt | `Application` |
| time and DTLS timers, `compat/time.c`, `compat/mbedtls/timing_alt.c` | tick, timer | now, set and get delay | `Timing`, on the tick of `Application` |
| random numbers, logging | none | `compat/prng.c`, `compat/log.c` | not modelled: no state |
| board set-up, ST start-up code | none after start-up | `platform.c` init, generated code | not modelled: runs before any concurrency |
| BG96 (external) | socket, command or data mode, output | the four socket commands, URCs; answers to the bringup | `BG96`; `Bringup` |
| Anjay Lite (external) | - | calls `compat/net.c` | the caller in `Net` |

How they interact. Anjay calls `net.c` from `anj_core_step` in the main loop; an
operation in progress returns `ANJ_NET_EINPROGRESS` and is called again. `net.c` runs
one operation at a time as a small state machine over `modem.c`, which appends a
command to the transmit ring, starts the transmitter, and on later calls looks for
complete lines in the receive ring. The LPUART1 interrupt takes bytes out of one ring
and puts bytes into the other. It preempts the main loop anywhere and is not preempted
by the application's own code (priority 10; the DMA has 12, button and tick 15).

What is hard: main loop and interrupt share the rings without locks, and some
operators of the ring read or write the shared indices twice; the transmitter is
kept alive only by its own chain of interrupts; the modem's lines carry nothing that
ties an answer to a command, arrive late, in pieces, and mixed with datagrams and
notifications; operations are abandoned half-way and there are no timeouts. Reception
lives on its own chain of interrupts too, in a driver that treats an overrun as fatal and
calls back an error handler that the application does not have; units arrive while
that driver runs, and before it is ready. The bringup does have timeouts, and a late answer
then meets the retry or the next command. One 32-bit tick is all there is of time.

What makes each component correct:

- ring: the contents after each operator are those of a FIFO, from every position;
- transmitter: exclusive use of the ring, whole commands in order, never stuck;
- receiver: nothing received is lost (but to a full ring) or invented, only real lines are
  returned, a line that is there is found, the overflow assertion means overflow;
- socket operations and network layer: success is reported only for what the modem did
  for this operation, payloads reach the modem only in data mode, operations end, a
  closed context has no socket behind it;
- receive queue: datagrams come out whole, in order, with their own lengths;
- UART reception: the chain never breaks and the handler never starves the main loop;
- bringup: an answer is matched to the command it answers, every command ends, and the socket
  operations find a clean receiver;
- time: a delay is over when that time has passed, across the rollover of the tick;
- button: every press is followed by a toggle of the LED;
- temperature: the extremes bound what was measured since the last reset, Anjay is told of
  every change, a failed write leaves no trace.

`PROJECT.json` lists the hazards one by one, at their lines.

## Modules

`CircBuf` has the operators of the header on a record. Indices are reduced by `Slot`,
the `%` of the code. `circ_buf_append` is written as one assignment of the storage
(`Written`) instead of a loop.

`TxChannel` is the abstract transmitter: `Accept` a command, `Emit` its bytes in order,
`Finish`. `ModemTx` is the program: the main loop in steps (`Issue`,
`modem_tx_append` and `AppendPiece`, `modem_tx_start`, `MarkOngoing`, and the three
steps of `tx_char`), and the interrupt (`TxISR_Send`, `TxISR_Last`,
`UART_EndTransmit_IT` with `HAL_UART_TxCpltCallback`). The main loop is cut wherever an
interrupt changes what it sees next. The piece boundaries of a command are arbitrary.
`huart.frame` says whether the local variable that the driver points to still exists;
a read after that yields the byte stored or any of `Clobber`. `cmd`, `wire` and
`intact` are history variables. The refinement maps the channel's rest of the command to
`Unsent`: the byte loaded and the contents of the ring.

`ModemRx` is the receiving side at the granularity of index accesses. Each
`circ_buf_avail` is two steps (`AvailCompare`, then the step that uses `avail`), with
the subtraction modulo `SizeMod` as on `size_t`; a flush is two steps. The loops of
`modem_rx_pop_newlines` and `modem_rx_seek_line_length` are steps, and so is the part of
`urc_buffer_handler` and `match_responses` that consumes. Bytes are newlines or not.
`fifo` is the history of what was received and not consumed; `torn` and `overrun` record
that a datagram was accepted on a torn length and that bytes were consumed that had not
arrived.

What the interrupt does when the ring is full depends on the build, the constant `Builds`. The presets
are Debug, Release, RelWithDebInfo and MinSizeRel; `cmake/gcc-arm-none-eabi.cmake` sets the flags of the
first two, without `-DNDEBUG`, and the other two get CMake's own, with it. `"assert"` is the first
kind: the assertion sets `halted` (`Overflow`). `"ndebug"` is the second: the oldest byte is popped to make
room (`DropOldest`). While the main loop is idle that is one more step. In the middle of a call or of a
flush it moves `begin` under the main loop, which `clash` records. Up to the clash every access to the indices is
a step, so the model is exact; after it the interrupt may also fall between the read and the write of `begin` in
`circ_buf_advance_n`, which is not split any further. So nothing but `TypeOK` is claimed from a clash (or a torn
read) to the next flush, which writes both indices whatever they were: there `torn`, `clash` and `overrun`
start anew, and the properties hold again (`Undisturbed`).

`ModemSocket` has the socket operations of `modem.c` as functions from the driver's
state to a return value and a new state, on the level of lines. `BG96` is the external
modem. `Net` composes both with `net.c`: one action per function and branch of
`current_op`, the delivery of what the modem wrote, the transmission of a command. `asked` is the
caller's argument; `did`, `done` and `answered` are history variables: what the modem
did since the operation began, what the last call reported done, and whether, when
the operation began, no earlier command was still owed an answer. A flush may cut a line
that is half received (`CutShort`); what remains of `SEND OK` may read `OK`.
That a line is seen only when it is one rests on `ModemRx`, and that commands are started
whole or not at all rests on `ModemTx`. `orderly` is the history of the caller: it has abandoned
no operation, and none has failed. It says when the driver and the modem can get out of
step at all: a line that nobody asked for (a datagram, a notification) fails the operation that
awaits its answer, and the answer then comes to the next one.

`RecvQueue` is the receive queue as `modem.c` keeps it: a `CircBuf` with the payloads one
after the other and an array of lengths with start, end and count. `DatagramQueue` is
what it promises. `Ends` is where each datagram ends in the ring, the sums of the lengths; the
refinement cuts the contents of the ring there (`Waiting`).

`TemperatureObj` is the main loop's handlers and the DMA of the ADC: `WriteVref` and
`WriteTemp` come between any two steps, and an update is two steps, `ReadVref` and
the rest, so that it may combine two scans. `Temperature` stands for the conversion; where
it divides by zero (an integer division by zero gives 0 on this core, the float division then
NaN) it yields `NaN`. `reported`, `measured` and `committed` are history variables. A
write may be refused at any chunk, after which Anjay ends the transaction with an error.

`UartRx` is the LPUART1 with the receive half of the HAL driver. Units arrive at any
moment, so `HAL_UART_IRQHandler` is cut where it reads the flags (`EnterISR`), clears them
(`ClearErrors`), reads the data and calls back (`Receive`, `ReceiveWithErrors`), and looks at
what `ErrorCode` holds by then (`Abort`, `GoOn`). Starting the reception is three steps, for
the order in which `UART_Start_Receive_IT` enables the error interrupt, installs `RxISR` and
enables the data interrupt. A unit is whatever the user of the module receives: a byte, or
a line, which is then its last byte. The ring it fills is a plain sequence; how it is really
kept is `ModemRx`. `aborted` is a history variable.

`Bringup` is `modem_bringup` on that receiver, one unit per line: each command with its
attempts, settling delay, flush, pause before a retry, deadline, and the answers matched
line by line (`Code` is the table of the command: 0 completes, negative fails, positive is
passed over). The modem owes an answer to every command it received (`owed`) and gives it
when it likes, chosen from `answers`, which may be to say nothing. A line remembers the
command it answers (`of`), for the history `foreign` only. Nothing but waiting takes time
(`Waits`), and the end of a wait is seen at most one tick late.

`Timing` has the four functions of the DTLS timer as operators with their widths: the
difference of two 64-bit times is converted to a 32-bit `unsigned long`. `Application`
composes `Bringup` and `Timing` with `main.c`: power, start, reset on failure, and the loop with
its button; its interrupts are LPUART1 (priority 10), tick and button (15), which wait for
the first. Below them is the main loop, so all but LPUART1 run only in `MainRuns`. The
histories `elapsed` and `unseen` count the ticks since the timer was set and remember a press.
`anj_core_step` is there for what it does to the timer: the modem under it is `Net`, whose
initial state is what `CleanHandover` says of the end of the bringup.

`MC*` modules give the constants; `*Proofs` modules hold the proofs.

## Runs

| run | shows | bounds |
|---|---|---|
| `tx` | exclusive use of the ring, never stuck, no residue, line = command if the pointer's byte is intact, refinement of `TxChannel` with liveness | ring of 5, commands of 1, 2 and 4 bytes: the last fills the ring, and every start position and wrap occurs |
| `tx_dangling` | **violated**: the line carries the command, whatever the dead variable holds | as `tx` |
| `rx` | both kinds of builds: FIFO under every interleaving, real lines only, no overrun and no spurious halt outside the two windows below and the clashes of an NDEBUG build, a line is found | ring of 5, datagrams of 0 or 1 byte: a line, its terminators and a datagram just fit, at every position; overflows while idle, in every step of a call and in a flush |
| `rx_torn` | **violated**: a datagram is consumed only after it was received | as `rx`, builds with the assertion |
| `rx_flush` | **violated**: the overflow assertion means overflow | as `rx`, builds with the assertion |
| `net` | success is real, payloads only in data mode, nothing of an answer left behind, operations end; without an abandoned or failed operation driver and modem stay in step, no command is swallowed in data mode and a freed context leaves no socket | one host, one message, two datagrams (one fits, one of the length taken for truncated), queue of 1; `Backlog` 2 lines under way, `Received` 3 in the ring |
| `net_close` | **violated**: after `net_close` returned 0 the modem has no socket | as `net` |
| `net_stale` | **violated**: after the flush an operation is completed by its own answers | as `net` |
| `recvq` | the two structures stay in step, whole datagrams in order | ring of 5, 3 lengths, datagrams of 0 to 4 bytes, caller's buffers of 1 and 4: both limits are met, from every position of both rings |
| `temp` | extremes, notifications and transactions under every interleaving with the DMA | three scans: two that mix into readings neither has, one that gives NaN; three application types |
| `app` | reception goes on and starves nobody, or was aborted; it is aborted only by an overrun without data; answers are foreign only after a timeout; without a timeout nothing of the bringup is left, save in the data register of an aborted reception; no press lost; the timer is right; the bringup ends | four commands: one with a retry whose answer may be lost or garbled, one plain, one completed by a line before its last, one with an unasked line before its answer or two after it, which can abort the reception and leave a third in the data register; start-up messages of up to two units; tick modulo 32, delays 0, timeouts of 1 tick |
| `app_start` | **violated**: when `modem_rx_start` returns 0 the driver waits for a unit | as `app` |

In `app` a bringup takes at most 23 ticks, so that deadlines do not roll over (the real one
runs in the first minutes after a reset) while the loop crosses the rollover again and again,
with a timer of 3 ticks at every phase. Delays of 0 and timeouts of 1 are the smallest that
let an answer come before the flush, between flush and pause, in time, and after the deadline.
One host and one message are enough because `did` is cleared when an operation begins:
an answer to an earlier operation for the same host is already told apart. Three
arrivals in the ring are what the prompt, its space and the end of that line need.

### What the violations mean

- *tx_dangling*. `tx_char` passes the address of a local to a driver that reads it
  in a later interrupt. In practice the first byte of a command is read at once; the
  others are started by the callback, whose frame is gone when the TXE interrupt is
  taken, and a receive interrupt served in between runs deeper and reuses the stack.
- *rx_torn*. If `end` wraps between the two reads in `circ_buf_avail`, the length is
  huge. The scanning loops survive this (`SeeksReceived`: the byte that tore the
  read is the one they look at). The check for a whole datagram does not.
- *rx_flush*. Between `begin = 0` and `end = 0` the ring looks as full as `end` is large. A Debug or
  Release build stops. An NDEBUG build pops, so that `begin` is 1 when `end` becomes 0: the
  flush leaves a ring full of old bytes (a clash).
- *net_close*. The state is `CLOSED` until a connect completes, so closing an
  abandoned connect does nothing and the modem's socket leaks. The notes at
  `modem.c:246` and `modem.c:358` observe this from outside.
- *app_start*. Two units of the modem's start-up messages before the reception is
  started leave an overrun pending. It interrupts `HAL_UART_Receive_IT` as soon as that
  enables the error interrupt, finds no data interrupt enabled, and aborts; the function
  goes on, enables the data interrupt with no reception in progress, and returns `HAL_OK`.
  From then on the reception is dead, the bringup hears nothing, times out and resets the
  device, with the modem's next start-up messages on the way.
- *net_stale*. Late answers to an abandoned operation complete the next one.

### What the passing runs taught

- An overrun that interrupts together with a byte does not end the reception although the
  driver calls it a blocking error: the callback has started the next reception by
  then, which clears `ErrorCode` (`AbortOnlyWithoutData`). Without a byte it does end it,
  for ever. This is luck of the order in the handler.
- Neither data nor framing errors, in any interleaving with the handler, can break
  the chain or call the handler for ever (`ChainGoesOn`, `StormOnlyIfAborted`); after an
  abort both can happen.
- An aborted reception goes unnoticed when it happens after the last answer: the bringup reports success,
  the modem's next line stays in the data register, and the socket operations hear nothing. A proof attempt
  found this (`CleanHandover` had excluded it, and two lines after the answer are needed to see it).
- A late `OK` is taken for the next command's only after a timeout; the flush with its 200 ms before
  it is what keeps the `OK` behind `+CREG` away from the next command.
- The subtraction in `mbedtls_timing_get_timer` survives the rollover because `unsigned long` has
  exactly as many bits as the tick; clamping the difference at zero would not.
- `check_button_state` clears the flag before it toggles. In the other order a press
  during the toggle would be lost.
- All trouble between `net.c` and the modem starts with an operation that was abandoned or that failed.

### Fairness

`tx`: an enabled transmit interrupt is eventually taken (there is no flow control), and
`tx_char` is straight-line code. `rx`: a function that has been called keeps running.
`net`: lines are delivered, a started command is transmitted, the modem reports the
result of an open, and Anjay goes on with an operation in progress, which its main loop does.
Fairness of transmission and of the open result is strong: in the program they
do not wait for anything, in the model the bound `Backlog` makes them wait for
room that datagrams may take again and again. Nothing is assumed about when the caller
begins, abandons or receives. `app`: the processor runs, so that the main loop goes on, a pending
interrupt is taken and the tick advances where the program waits for it; a modem
that has begun to send an answer sends it to its end. The modem may never answer. The transmitter accepts a command without fairness.

## Proofs

`CircBufProofs` proves the ring for every length: the range of `circ_buf_avail`,
that popping takes the oldest byte (`PopOldest`), and that an append that fits adds at the
end (`AppendBytes`). The arithmetic of `%` is in three lemmas (`Wrap`, `Distance`,
`SlotTwice`); the others see only `Slot`.

`ModemTxProofs` proves for every ring length, command set and `Clobber`, from
`TxAssumption` alone (commands are not empty and fit the ring, as
`modem_constants.h` arranges):

- `TypeCorrect`: the type invariant, inductive by itself;
- `MainHasTheRing` and `TransmitterNeverStuck`, from `Control`: the driver is busy exactly
  while one of its interrupts is enabled, `tx_ongoing` is set exactly while it is
  busy or about to be, and it is idle from the test of `tx_ongoing` to the call of the
  driver. Neither theorem's property is inductive: that no interrupt is enabled after the test
  needs the equivalence of flag and interrupts, which every interrupt must keep;
- `NothingLeftOver` and `LineCarriesTheCommand`, from `Control` and `Data`: while nothing is
  sent, ring and unappended rest make up the command; while something is, the line and
  `Unsent` make up the command last started.

`TemperatureObjProofs` proves the three properties of the run `temp` for every set of scans,
every conversion and every set of application types, from `TemperatureAssumption` (readings
are integers or NaN, integers standing for the ordered floats). `ExtremesHold` needs
`Sampled`: both samples come from scans, so that an update that is under way when the
DMA writes still stores one of the readings. `FailuresRestore` needs
`Recoverable`: inside a transaction the saved copy is the committed value.

`ApplicationProofs` proves for every list of commands, with any timeouts, attempts, response
tables and answers, every width of the tick and all start-up messages, from
`BringupAssumption` and `ApplicationAssumption` (the constants are of their types, there is a
command, the tick has a width):

- `TypeCorrect`, inductive by itself, with the arithmetic of the tick in `TickAdds`;
- `ReceptionGoesOn`, `NoStorm` and `DataSavesReception`, from `Reception`: what registers and
  driver look like before, during and after each of the three steps of starting, and at each
  point of the handler. The properties speak of the registers only; that clearing an error, or
  returning from the handler, keeps them needs what the handler has read and what
  `ErrorCode` may hold at that point. `Reception` is also an invariant TLC agrees with;
- `TimerIsRight`, from `TimerRuns`: the tick is the time of setting plus what has elapsed, modulo its
  width (`Difference`);
- `NoPressIsLost`, inductive by itself.

- `AnswersAreOwn` and `HandoverIsClean`, from `Account`, which holds as long as nothing has
  timed out: while a command is under way, every line in the ring, on the line or in the register
  is an answer to it (`AllMine`), and none is there before the modem answers (`Clean`); between two
  commands nothing is owed, once a tick of the settling delay has passed nothing is being sent, and the
  flush leaves nothing. An aborted reception may hold a line in its register, which is never read
  (`Deaf`); an empty register holds nothing that matters (`Drained`). Neither property is inductive:
  whether a line in the ring is foreign was decided when the command was sent.

`ModemRxProofs` proves the receiver for every ring length, longest datagram and width of
`size_t`, from `RxAssumption` (the ring holds a datagram and its line ending, and `size_t` counts
twice as far as the ring), under every interleaving of its index accesses, for builds with the assertion and without (`Builds` is any
set of the two):

- `TypeCorrect`: the indices stay in the storage, although `circ_buf_avail` may be anything;
- `RingCarriesAll`, `HaltsOnlyWhenFull`, `ScansOnlyReceived`, `LinesAreReal` and `OnlyTornOverruns`, all from
  `Reception`: while the reception is `Undisturbed`, these properties hold together with what
  the main loop has learnt. Only a flush ends a disturbance (`DisturbanceStays`, `FlushBeginSound`), and a byte dropped while
  the main loop is idle is none, since nothing has been concluded then (`ArrivalSound`). `Reads` says what a comparison `begin <= end` is still worth when the
  subtraction follows: `end` may have wrapped since but never unwraps, and a scan has not come to the
  wrap; `Scanned` that what a scan has passed is received and no terminator; `Enough` that what is about
  to be consumed has been received. The properties say nothing of the step between the two reads, so none is inductive.

`NetProofs` proves `Net` with `ModemSocket` and `BG96` for every number of hosts,
messages, datagrams and lines under way: `TypeCorrect`, and from `InStep` `ReportsAreTrue`, `PayloadsAreAwaited`,
`OrderKeepsStep`, `OrderKeepsCommands`, `FreedLeavesNothing` and `AnswersAreUsedUp`. `InStep` says of each operation that
began when nothing was owed (`Connecting`, `AwaitingPrompt`, `Sending`, `Closing`) which command is under way,
what the modem's socket and mode are, which answers are among the lines received or to come, and in
which order; and, for an orderly caller, that between two operations nothing is under way (`Quiet`), with no
socket behind a context that is not connected. The notifications and datagrams that may come anywhere in
between are outside `Only` and `Follows`. That the bytes of the waiting datagrams fit is no part of the `TypeOK` of
`Net`, where the queue is a sequence; it is proved of `RecvQueue`.

`ModemTxProofs` also proves the refinement, `TransmitterIsChannel`: the initial state is one
of `TxChannel`, and every step of main loop, driver or interrupt is `Accept`, `Emit`, `Finish` or a stutter.
`MarkOngoing` accepts, the interrupt that moves a byte to the line emits it, the callback that
finds the ring empty finishes; that the ring holds the command and nothing else when it is marked is `Data`. The
theorem speaks of `ChannelSafety`, the specification of the channel without its fairness.

`RecvQueueProofs` proves for every size of ring and array and every set of datagrams:

- `TypeCorrect`, inductive by itself;
- `LengthsAddUp`: `LensAddUp` is inductive given the types;
- `RingIsAQueue`: the whole of `ImplementsQueue`, as the abstract queue has no fairness. A queued
  datagram is `Take`, one handed over `HandOver`, one too long for the caller `Lose`.

Both structures are read through `Ends`, a recursive function over the lengths. What is needed of it,
that such sums exist, are unique (`SumUnique`) and grow (`SumGrows`), is proved by looking at
the least index at which it fails (`Least`, from the well-foundedness of `<`), because the library's
induction theorems take an operator as a parameter. Uniqueness then gives `Ends` after a step
(`QueuedEnds`, `EndsMoveUp`): the sums written down for the new lengths must be it.

Only model-checked: liveness (`LineIsFound`, `OperationsEnd`, `BringupEnds`, the fairness part of
`ImplementsChannel`), which the prover cannot do, and the runs that find a violation. Every
invariant and every action property of the passing runs is proved.

## Plan

1. Done: `CircBuf`, `ModemTx`, `ModemRx`, `ModemSocket` with `BG96` and `Net`, `RecvQueue`, `TemperatureObj`.
2. Done: `Bringup`, `UartRx`, `Timing`, `Application`.
3. Done: proofs of all safety properties and of the two refinements.
4. Left: what composes the levels. That the lines of `ModemSocket` are those of `ModemRx`, its commands
   those of `TxChannel`, and its queue `DatagramQueue`, is argued above and not proved; the last is the
   nearest, since both are sequences of datagrams with the same limits.

## Not modelled, and why

Formats (hostnames, numbers, log lines) carry no control. What an NDEBUG build does with its receive ring
between a clash and the next flush is not described, and `Net` and `Application` are about receivers that
do not overflow. Payloads contain no CR and no LF: a payload whose header was flushed, or matched
as an unexpected line, is one piece of `m.rx` in `Net`, while the code would split it into lines, and one inside
it that reads `OK` would complete the operation in progress. The branches of
`urc_buffer_handler` for a malformed length are not reached by a modem that announces at
most 1500 bytes; they skip the line, which `LineDone` of `ModemRx` covers. `net.c`'s
argument checks that change nothing (address family, message length) are left out. The
AT echo and the modem's own errors beyond those four commands belong to the modem.
In `Bringup` a line is one unit, so a flush there never cuts a line in two (in `Net` it
does), and its answer comes back to back, with no tick in between. A command of the bringup
always finds the transmitter idle (the settling delay before it is longer than any command takes, and
`TransmitterNeverStuck`), so its failing to be sent is left out. The installation of
Anjay's objects succeeds or fails. How Anjay schedules with the two clocks is Anjay's;
`mbedtls_timing_hardclock` and `mbedtls_timing_get_final_delay` read what is modelled and
change nothing. No property says which datagrams a new connection may
receive: the receive queue survives a close, in the code as in `Net`, and no text
of the repository speaks about it. Board
set-up runs once, before any concurrency.
