-------------------------------- MODULE Net --------------------------------
(***************************************************************************)
(* src/compat/net.c, the Anjay Lite network layer, over the socket         *)
(* operations of modem.c and the external modem.                           *)
(*                                                                         *)
(* Anjay (external) calls the functions of net.c from the main loop, in    *)
(* any order; an operation that returned ANJ_NET_EINPROGRESS is called     *)
(* again until it is done, or abandoned for another one.  Between calls    *)
(* the interrupts deliver what the modem wrote and send it what was        *)
(* started.  The guard of an action is the branch of the function it is.   *)
(***************************************************************************)
EXTENDS BG96

CONSTANTS
    Hosts, Messages,
    Received    \* bound: arrivals waiting in rx_buf

VARIABLES
    ctx,        \* ctx_storage without op_ctx, which is m.step
    m,          \* the modem driver
    asked,      \* what the caller asked of the operation last begun
    done,       \* the operation that the last call reported done, or "none"
    answered,   \* history: no answer was owed when that operation began
    orderly     \* history: no operation was abandoned and none has failed

vars == <<ctx, m, asked, done, answered, orderly, sock, data, out, did>>
caller == <<ctx, m, asked, done, answered, orderly>>

Init ==
    /\ InitModem
    /\ ctx = [used |-> FALSE, state |-> "CLOSED", current_op |-> "NONE"]
    /\ m = [rx |-> <<>>, tx |-> None, queue |-> <<>>, step |-> 0]
    /\ asked = None /\ done = "none" /\ answered = TRUE /\ orderly = TRUE

-----------------------------------------------------------------------------
(* The interrupts. *)
Deliver ==
    /\ out # <<>> /\ Len(m.rx) < Received
    /\ m' = [m EXCEPT !.rx = Append(@, Head(out))]
    /\ out' = Tail(out)
    /\ UNCHANGED <<ctx, asked, done, answered, orderly, sock, data, did>>

Transmitted ==
    /\ m.tx # None
    /\ Take(m.tx)
    /\ m' = [m EXCEPT !.tx = None]
    /\ UNCHANGED <<ctx, asked, done, answered, orderly>>

-----------------------------------------------------------------------------
(* Something the modem has written, or is about to write, answers a        *)
(* command already given.                                                  *)
Answers == {Line(k) : k \in {"OK", "ERROR", "QIOPEN_OK", "QIOPEN_ERR",
                             "PROMPT", "SPACE", "SEND_OK", "SEND_FAIL"}}
AnswerOwed(rx, lines) ==
    \/ \E k \in 1 .. Len(rx) : rx[k] \in Answers
    \/ \E k \in 1 .. Len(lines) : lines[k] \in Answers
    \/ sock[1] = "opening" \/ data

(* An operation begins with r, the outcome of its init function.  One that *)
(* fails there leaves the operation in progress as it was.                 *)
Begin(r, op, what) ==
    /\ IF r.res # 0
       THEN UNCHANGED <<ctx, asked, answered, did>>
       ELSE /\ ctx' = [ctx EXCEPT !.current_op = op]
            /\ asked' = what /\ did' = None
            /\ answered' = ~AnswerOwed(r.m.rx, out')
    /\ orderly' = (orderly /\ r.res = 0 /\ ctx.current_op = "NONE")

(* modem_rx_buf_flush may take only the first part of the line that is     *)
(* arriving.                                                               *)
Flushed ==
    \/ UNCHANGED out
    \/ /\ out # <<>>
       /\ \E rest \in CutShort(Head(out)) : out' = <<rest>> \o Tail(out)

net_create_ctx ==
    /\ ~ctx.used
    /\ ctx' = [used |-> TRUE, state |-> "CLOSED", current_op |-> "NONE"]
    /\ done' = "none"
    /\ UNCHANGED <<m, asked, answered, orderly, bg96>>

net_connect_init(hostname) ==
    /\ ctx.used /\ ctx.current_op = "NONE"
    /\ Flushed
    /\ LET r == modem_socket_open_init(m, hostname)
       IN  m' = r.m /\ Begin(r, "CONNECT", <<"opened", hostname>>)
    /\ done' = "none"
    /\ UNCHANGED <<sock, data>>

net_connect_continue ==
    /\ ctx.used /\ ctx.current_op = "CONNECT"
    /\ LET r == modem_socket_open_continue(m)
       IN  /\ m' = r.m
           /\ ctx' = CASE r.res > 0 -> ctx
                       [] r.res < 0 -> [ctx EXCEPT !.current_op = "NONE"]
                       [] r.res = 0 -> [ctx EXCEPT !.current_op = "NONE",
                                                   !.state = "CONNECTED"]
           /\ done' = IF r.res = 0 THEN "connect" ELSE "none"
           /\ orderly' = (orderly /\ r.res >= 0)
    /\ UNCHANGED <<asked, answered, bg96>>

net_send_init(buf) ==
    /\ ctx.used /\ ctx.state = "CONNECTED" /\ ctx.current_op = "NONE"
    /\ UNCHANGED out
    /\ LET r == modem_socket_send_init(m, buf)
       IN  m' = r.m /\ Begin(r, "SEND", <<"sent", buf>>)
    /\ done' = "none"
    /\ UNCHANGED <<sock, data>>

\* Mutant: a send in progress is taken for one that is done.
Mut_net_send_continue ==
    /\ ctx.used /\ ctx.state = "CONNECTED" /\ ctx.current_op = "SEND"
    /\ LET r == modem_socket_send_continue(m, asked[2])
       IN  /\ m' = r.m
           /\ ctx' = [ctx EXCEPT !.current_op = "NONE"]
           /\ done' = IF r.res = 0 THEN "send" ELSE "none"
           /\ orderly' = (orderly /\ r.res >= 0)
    /\ UNCHANGED <<asked, answered, bg96>>

net_send_continue ==
    /\ ctx.used /\ ctx.state = "CONNECTED" /\ ctx.current_op = "SEND"
    /\ LET r == modem_socket_send_continue(m, asked[2])
       IN  /\ m' = r.m
           /\ ctx' = IF r.res > 0 THEN ctx ELSE [ctx EXCEPT !.current_op = "NONE"]
           /\ done' = IF r.res = 0 THEN "send" ELSE "none"
           /\ orderly' = (orderly /\ r.res >= 0)
    /\ UNCHANGED <<asked, answered, bg96>>

net_recv ==
    /\ ctx.used /\ ctx.state \in {"CONNECTED", "SHUTDOWN"} /\ ctx.current_op = "NONE"
    /\ m' = modem_socket_try_recv(m).m
    /\ done' = "none"
    /\ UNCHANGED <<ctx, asked, answered, orderly, bg96>>

(* The two branches of net_shutdown, for the callers it has: Anjay,        *)
(* net_close, and net_cleanup_ctx through net_close.  used says whether    *)
(* the caller keeps the context when the answer has come, good or bad.     *)
ShutdownInit ==
    /\ ctx.current_op # "SHUTDOWN"
    /\ Flushed
    /\ LET r == modem_socket_close_init(m)
       IN  m' = r.m /\ Begin(r, "SHUTDOWN", <<"closed">>)
    /\ UNCHANGED <<sock, data>>

ShutdownContinue(used) ==
    /\ ctx.current_op = "SHUTDOWN"
    /\ LET r == modem_socket_close_continue(m)
       IN  /\ m' = r.m
           /\ ctx' = IF r.res > 0 THEN ctx
                     ELSE [used |-> used, state |-> "SHUTDOWN", current_op |-> "NONE"]
           /\ done' = IF r.res = 0 THEN "shutdown" ELSE "none"
           /\ orderly' = (orderly /\ r.res >= 0)
    /\ UNCHANGED <<asked, answered, bg96>>

net_shutdown ==
    /\ ctx.used
    /\ \/ ShutdownInit /\ done' = "none"
       \/ ShutdownContinue(TRUE)

(* net_close of an open socket is net_shutdown. *)
net_close ==
    /\ ctx.used /\ ctx.state \in {"CLOSED", "SHUTDOWN"}
    /\ ctx' = [ctx EXCEPT !.state = "CLOSED"]
    /\ done' = "close"
    /\ UNCHANGED <<m, asked, answered, orderly, bg96>>

\* Mutant: the context is freed without being closed.
Mut_net_cleanup_ctx ==
    /\ ctx.used
    /\ ctx' = [ctx EXCEPT !.state = "CLOSED", !.used = FALSE]
    /\ done' = "close"
    /\ orderly' = (orderly /\ ctx.current_op = "NONE")
    /\ UNCHANGED <<m, asked, answered, bg96>>

(* net_cleanup_ctx frees the context unless the close is in progress.  An  *)
(* init that fails is a close that failed: the context is freed as well.   *)
net_cleanup_ctx ==
    /\ ctx.used
    /\ \/ /\ ctx.state \in {"CLOSED", "SHUTDOWN"}
          /\ ctx' = [ctx EXCEPT !.state = "CLOSED", !.used = FALSE]
          /\ done' = "close"
          /\ orderly' = (orderly /\ ctx.current_op = "NONE")
          /\ UNCHANGED <<m, asked, answered, bg96>>
       \/ ctx.state = "CONNECTED" /\ m.tx = None /\ ShutdownInit /\ done' = "none"
       \/ /\ ctx.state = "CONNECTED" /\ m.tx # None /\ ctx.current_op # "SHUTDOWN"
          /\ Flushed
          /\ m' = modem_socket_close_init(m).m
          /\ ctx' = [ctx EXCEPT !.used = FALSE]
          /\ done' = "none" /\ orderly' = FALSE
          /\ UNCHANGED <<asked, answered, sock, data, did>>
       \/ ctx.state = "CONNECTED" /\ ShutdownContinue(FALSE)

-----------------------------------------------------------------------------
Modem ==
    \/ Opened
    \/ \E d \in Datagrams : Push(d)
    \/ NetworkLost

Interrupts == Deliver \/ Transmitted

Continue ==
    \/ net_connect_continue
    \/ net_send_continue
    \/ ctx.current_op = "SHUTDOWN" /\ net_shutdown

Next ==
    \/ Interrupts
    \/ Modem /\ UNCHANGED caller
    \/ net_create_ctx
    \/ \E h \in Hosts : net_connect_init(h)
    \/ net_connect_continue
    \/ \E b \in Messages : net_send_init(b)
    \/ net_send_continue
    \/ net_recv
    \/ net_shutdown \/ net_close \/ net_cleanup_ctx

(* Anjay goes on with what it has begun from the main loop, the interrupts *)
(* are taken, and the modem reports the result of opening a socket.  The   *)
(* fairness of the last two is strong only because the bound Backlog makes *)
(* them wait for room in out, which datagrams may take again and again.    *)
Fairness ==
    /\ WF_vars(Deliver)
    /\ SF_vars(Transmitted) /\ SF_vars(Opened /\ UNCHANGED caller)
    /\ WF_vars(Continue)

Spec == Init /\ [][Next]_vars /\ Fairness

-----------------------------------------------------------------------------
(* The types of the state; the lengths of the datagrams fit their array.   *)
Arrivals == Answers \cup {Line("JUNK")} \cup ({"HDR", "PAY"} \X Datagrams)
Commands == {None, <<"QICLOSE">>} \cup ({"QIOPEN"} \X Hosts)
                                 \cup ({"QISEND", "DATA"} \X Messages)
Sockets == {Closed} \cup ({"opening", "open"} \X Hosts)
Deeds == {None, <<"closed">>} \cup ({"opened"} \X Hosts) \cup ({"sent"} \X Messages)

TypeOK ==
    /\ ctx \in [used : BOOLEAN, state : {"CLOSED", "CONNECTED", "SHUTDOWN"},
                current_op : {"NONE", "CONNECT", "SEND", "SHUTDOWN"}]
    /\ m \in [rx : Seq(Arrivals), tx : Commands, queue : Seq(Datagrams), step : {0, 1}]
    /\ Len(m.queue) <= RECV_QIURC_LENS_BUF_SIZE
    /\ out \in Seq(Arrivals)
    /\ data \in BOOLEAN /\ answered \in BOOLEAN /\ orderly \in BOOLEAN
    /\ sock \in Sockets /\ asked \in Deeds /\ did \in Deeds
    /\ done \in {"none", "connect", "send", "shutdown", "close"}

(* An operation that net.c reports done has been done by the modem: the    *)
(* socket was opened to that host, the modem took that payload whole, the  *)
(* socket was closed; not before, and not for another operation.  This     *)
(* holds for an operation that began when no earlier command was still to  *)
(* be answered; the responses carry nothing that tells operations apart.   *)
DoneIsDone ==
    done \in {"connect", "send", "shutdown"} /\ answered => did = asked

(* A payload is sent only to a modem that waits for one, in data mode: the *)
(* bytes of a message never reach the command interpreter.                 *)
PayloadOnlyInDataMode ==
    answered /\ m.tx # None /\ m.tx[1] = "DATA" => data

(* When net.c reports an operation done, the modem has nothing more to say *)
(* about it: no line is left that the next operation would take for its    *)
(* own, and the modem is back in command mode.                             *)
NoAnswerLeft ==
    [][done # done' /\ done' \in {"connect", "send", "shutdown"} /\ answered
         => ~AnswerOwed(m'.rx, out')]_vars

(* As long as the caller has abandoned no operation and none has failed,   *)
(* the answers that come are those to the operation in progress: net.c and *)
(* the modem get out of step by an abandoned or a failed operation only.   *)
InStepWhileOrderly == orderly => answered

(* And the modem takes no command for a part of a payload: the shutdown    *)
(* that would wait for ever is one that cut off a send.                    *)
CommandsStayCommands == orderly /\ data /\ m.tx # None => m.tx[1] = "DATA"

(* And a context that was freed leaves no socket behind, open or about to  *)
(* be opened, that would refuse the next connect.                          *)
FreedMeansClosed ==
    orderly /\ ~ctx.used => sock = Closed /\ (m.tx # None => m.tx[1] # "QIOPEN")

(* modem.c has no timeouts; an operation ends because the modem answers.   *)
(* Every operation whose answers are its own ends, whatever datagrams and  *)
(* notifications come between, except a send on a socket that was lost.    *)
InProgress(op) == ctx.used /\ ctx.current_op = op /\ answered
OperationsEnd ==
    \A op \in {"CONNECT", "SEND", "SHUTDOWN"} :
        InProgress(op) ~> ~InProgress(op) \/ (op = "SEND" /\ sock[1] # "open")

-----------------------------------------------------------------------------
(* modem.c:253-254: the flush is there "to clear out trash that might      *)
(* cause issues in future", so an operation that begins with it is         *)
(* completed by its own answers.                                           *)
FlushedMeansOwnAnswer == done \in {"connect", "shutdown"} => did = asked

(* net.c:193-194: a socket that net_close returns 0 for is "already        *)
(* closed"; the modem has no socket and is not about to open one.          *)
ClosedMeansClosed ==
    done = "close" => sock = Closed /\ (m.tx # None => m.tx[1] # "QIOPEN")
=============================================================================
