-------------------------------- MODULE BG96 --------------------------------
(***************************************************************************)
(* The Quectel BG96 modem as src/modem/modem.c uses it; it is not part of  *)
(* the repository.  It has one UDP socket, it is in command mode or, after *)
(* the prompt of AT+QISEND, in data mode, where all it receives is payload *)
(* until a Ctrl-Z.  It takes its time: out holds what it has written and   *)
(* the UART has yet to deliver.                                            *)
(***************************************************************************)
EXTENDS ModemSocket

CONSTANT Backlog    \* bound: how far delivery may lag behind the modem

VARIABLES
    sock,       \* the socket: closed, or opening or open towards a host
    data,       \* data mode
    out,        \* written by the modem, not yet received
    did         \* history: what the modem has done for the operation last begun

bg96 == <<sock, data, out, did>>

Closed == <<"closed">>

InitModem == sock = Closed /\ data = FALSE /\ out = <<>> /\ did = None

(* Every line the modem may write; JUNK is among them. *)
Emit(lines) == Len(out) + Len(lines) <= Backlog /\ out' = out \o lines

TakeQIOPEN(hostname) ==
    /\ ~data
    /\ \/ sock = Closed /\ sock' = <<"opening", hostname>> /\ Emit(<<Line("OK")>>)
       \/ Emit(<<Line("ERROR")>>) /\ UNCHANGED sock
    /\ UNCHANGED <<data, did>>

TakeQISEND ==
    /\ ~data
    /\ \/ /\ sock[1] = "open"
          /\ data' = TRUE
          /\ Emit(<<Line("PROMPT")>>) \/ Emit(<<Line("PROMPT"), Line("SPACE")>>)
       \/ sock[1] # "open" /\ Emit(<<Line("ERROR")>>) /\ UNCHANGED data
    /\ UNCHANGED <<sock, did>>

TakeDATA(payload) ==
    /\ \/ data /\ Emit(<<Line("SEND_OK")>>) /\ did' = <<"sent", payload>>
       \/ data /\ Emit(<<Line("SEND_FAIL")>>) /\ UNCHANGED did
       \/ ~data /\ Emit(<<Line("ERROR")>>) /\ UNCHANGED did
    /\ data' = FALSE
    /\ UNCHANGED sock

TakeQICLOSE ==
    /\ ~data
    /\ \/ Emit(<<Line("OK")>>)
       \/ sock = Closed /\ Emit(<<Line("ERROR")>>)
    /\ sock' = Closed /\ did' = <<"closed">>
    /\ UNCHANGED data

(* A command that arrives in data mode is a part of some payload. *)
Swallow == data /\ UNCHANGED bg96

Take(command) ==
    \/ command[1] = "QIOPEN" /\ TakeQIOPEN(command[2])
    \/ command[1] = "QISEND" /\ TakeQISEND
    \/ command[1] = "DATA" /\ TakeDATA(command[2])
    \/ command[1] = "QICLOSE" /\ TakeQICLOSE
    \/ command[1] # "DATA" /\ Swallow

(* The result of AT+QIOPEN, some time after its OK. *)
Opened ==
    /\ sock[1] = "opening"
    /\ \/ Emit(<<Line("QIOPEN_OK")>>) /\ sock' = <<"open", sock[2]>> /\ did' = <<"opened", sock[2]>>
       \/ Emit(<<Line("QIOPEN_ERR")>>) /\ sock' = Closed /\ UNCHANGED did
    /\ UNCHANGED data

(* A datagram from the peer, and the loss of the network. *)
Push(d) ==
    /\ sock[1] = "open"
    /\ Emit(<<<<"HDR", d>>, <<"PAY", d>>>>)
    /\ UNCHANGED <<sock, data, did>>

NetworkLost ==
    /\ sock[1] = "open"
    /\ ~data
    /\ Emit(<<Line("JUNK")>>)
    /\ sock' = Closed
    /\ UNCHANGED <<data, did>>

(* What is left of a line whose beginning was received and flushed; of a   *)
(* payload, a payload, without CR or LF like any other.                    *)
CutShort(line) ==
    CASE line[1] \in Unterminated -> {line}
      [] line[1] = "SEND_OK" -> {Line("JUNK"), Line("OK")}
      [] OTHER -> {Line("JUNK")}
=============================================================================
