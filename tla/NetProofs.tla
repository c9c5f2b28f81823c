----------------------------- MODULE NetProofs -----------------------------
(***************************************************************************)
(* Proofs about Net, for every number of hosts, messages and datagrams and *)
(* every delay of the modem and the UART: as long as an operation began    *)
(* when no answer was owed, what arrives is the answer to it.              *)
(***************************************************************************)
EXTENDS Net, TLAPS

(* What has been received and what will be, in this order. *)
Lines == m.rx \o out

(* The answers among the lines are of these kinds. *)
Only(lines, kinds) ==
    \A k \in 1 .. Len(lines) : lines[k] \in Answers => lines[k][1] \in kinds

Silent(lines) == Only(lines, {})

(* Of two answers, the earlier is one of first, the later one of second.   *)
Follows(lines, first, second) ==
    \A j, k \in 1 .. Len(lines) :
        j < k /\ lines[j] \in Answers /\ lines[k] \in Answers
            => lines[j][1] \in first /\ lines[k][1] \in second

(* Each operation, from its command to the last of its answers. *)
Connecting ==
    /\ ~data
    /\ m.tx # None => /\ m.tx = <<"QIOPEN", asked[2]>>
                      /\ Silent(Lines) /\ sock[1] # "opening"
    /\ sock[1] = "opening" => sock[2] = asked[2] /\ Only(Lines, {"OK"})
    /\ Only(Lines, {"OK", "ERROR", "QIOPEN_OK", "QIOPEN_ERR"})
    /\ Follows(Lines, {"OK"}, {"QIOPEN_OK", "QIOPEN_ERR"})
    /\ did = asked \/ Only(Lines, {"OK", "ERROR", "QIOPEN_ERR"})

AwaitingPrompt ==
    /\ sock[1] # "opening"
    /\ m.tx # None => m.tx = <<"QISEND", asked[2]>> /\ Silent(Lines) /\ ~data
    /\ data \/ Only(Lines, {"ERROR"})
    /\ Only(Lines, {"PROMPT", "SPACE", "ERROR"})
    /\ Follows(Lines, {"PROMPT"}, {"SPACE"})

Sending ==
    /\ sock[1] # "opening"
    /\ m.tx # None => m.tx = <<"DATA", asked[2]>> /\ Only(Lines, {"SPACE"}) /\ data
    /\ m.tx = None => ~data
    /\ Only(Lines, {"SPACE", "SEND_OK", "SEND_FAIL"})
    /\ Follows(Lines, {"SPACE"}, {"SEND_OK", "SEND_FAIL"})
    /\ did = asked \/ Only(Lines, {"SPACE", "SEND_FAIL"})

Closing ==
    /\ sock[1] # "opening" /\ ~data
    /\ m.tx # None => m.tx = <<"QICLOSE">> /\ Silent(Lines)
    /\ Only(Lines, {"OK", "ERROR"})
    /\ Follows(Lines, {}, {})
    /\ (did = asked /\ sock = Closed) \/ Silent(Lines)

Exchange ==
    /\ ctx.current_op = "CONNECT" => Connecting
    /\ ctx.current_op = "SEND" /\ m.step = 0 => AwaitingPrompt
    /\ ctx.current_op = "SEND" /\ m.step = 1 => Sending
    /\ ctx.current_op = "SHUTDOWN" => Closing

(* Nothing is under way. *)
Quiet == m.tx = None /\ Silent(Lines) /\ sock[1] # "opening" /\ ~data

(* What the operation in progress was asked, whatever its answers. *)
AskedFits ==
    /\ ctx.current_op = "CONNECT" => asked \in {"opened"} \X Hosts
    /\ ctx.current_op = "SEND" => asked \in {"sent"} \X Messages
    /\ ctx.current_op = "SHUTDOWN" => asked = <<"closed">>

Settled == did = asked /\ m.tx = None /\ sock[1] # "opening"

InStep ==
    /\ answered => Exchange
    /\ answered /\ done \in {"connect", "send", "shutdown"} => Settled
    /\ PayloadOnlyInDataMode
    /\ orderly => answered
    /\ orderly /\ ctx.current_op = "NONE"
        => Quiet /\ (ctx.state # "CONNECTED" => sock = Closed)
    /\ orderly /\ ~ctx.used => ctx.current_op = "NONE" /\ ctx.state # "CONNECTED"

-----------------------------------------------------------------------------
(* What the modem driver's state is.                                       *)
Kinds == {"OK", "ERROR", "QIOPEN_OK", "QIOPEN_ERR", "PROMPT", "SPACE", "SEND_OK", "SEND_FAIL"}

LEMMA ArrivalKinds ==
    ASSUME NEW x \in Arrivals
    PROVE  /\ x \in Answers <=> x[1] \in Kinds
           /\ x[1] \in Kinds \cup {"JUNK"} => x = <<x[1]>>
           /\ x[1] \in {"HDR", "PAY"} => x[2] \in Datagrams
           /\ x[1] \in Kinds \cup {"JUNK", "HDR", "PAY"}
BY DEF Arrivals, Answers, Kinds, Line

LEMMA LinesArrive ==
    /\ \A k \in Kinds \cup {"JUNK"} : Line(k) \in Arrivals /\ Line(k)[1] = k
    /\ \A d \in Datagrams : <<"HDR", d>> \in Arrivals /\ <<"PAY", d>> \in Arrivals
BY DEF Arrivals, Answers, Kinds, Line

(* u is the end of v, from which n lines are gone or are no answers now.   *)
IsPart(u, v, n) ==
    /\ Len(u) + n = Len(v)
    /\ \A k \in 1 .. Len(u) : u[k] \in Answers => u[k] = v[k + n]

LEMMA PartOnly ==
    ASSUME NEW u \in Seq(Arrivals), NEW v \in Seq(Arrivals), NEW n \in Nat, IsPart(u, v, n),
           NEW kinds, Only(v, kinds)
    PROVE  Only(u, kinds)
<1>. SUFFICES ASSUME NEW k \in 1 .. Len(u), u[k] \in Answers
              PROVE  u[k][1] \in kinds
  BY DEF Only
<1>1. k + n \in 1 .. Len(v) /\ u[k] = v[k + n]
  BY DEF IsPart
<1>. QED
  BY <1>1 DEF Only

LEMMA PartFollows ==
    ASSUME NEW u \in Seq(Arrivals), NEW v \in Seq(Arrivals), NEW n \in Nat, IsPart(u, v, n),
           NEW first, NEW second, Follows(v, first, second)
    PROVE  Follows(u, first, second)
<1>. SUFFICES ASSUME NEW j \in 1 .. Len(u), NEW k \in 1 .. Len(u),
                     j < k, u[j] \in Answers, u[k] \in Answers
              PROVE  u[j][1] \in first /\ u[k][1] \in second
  BY DEF Follows
<1>1. /\ j + n \in 1 .. Len(v) /\ u[j] = v[j + n]
      /\ k + n \in 1 .. Len(v) /\ u[k] = v[k + n]
      /\ j + n < k + n
  BY DEF IsPart
<1>. QED
  BY <1>1 DEF Follows

(* Lines received and taken, delivered, flushed, written.                  *)
LEMMA TakenPart ==
    ASSUME NEW s \in Seq(Arrivals), NEW t \in Seq(Arrivals), NEW n \in 0 .. Len(s)
    PROVE  IsPart(SubSeq(s, n + 1, Len(s)) \o t, s \o t, n)
<1>1. /\ SubSeq(s, n + 1, Len(s)) \in Seq(Arrivals) /\ Len(SubSeq(s, n + 1, Len(s))) = Len(s) - n
      /\ \A k \in 1 .. Len(s) - n : SubSeq(s, n + 1, Len(s))[k] = s[k + n]
  OBVIOUS
<1>. HIDE DEF IsPart
<1>2. PICK r \in Seq(Arrivals) : r = SubSeq(s, n + 1, Len(s))
  BY <1>1
<1>3. Len(r) = Len(s) - n /\ \A k \in 1 .. Len(s) - n : r[k] = s[k + n]
  BY <1>1, <1>2
<1>4. Len(r \o t) + n = Len(s \o t)
  BY <1>3
<1>5. \A k \in 1 .. Len(r \o t) : (r \o t)[k] = (s \o t)[k + n]
  BY <1>3
<1>. QED
  BY <1>2, <1>4, <1>5 DEF IsPart

LEMMA DeliveredPart ==
    ASSUME NEW s \in Seq(Arrivals), NEW t \in Seq(Arrivals), t # <<>>
    PROVE  IsPart(Append(s, Head(t)) \o Tail(t), s \o t, 0)
<1>1. /\ Tail(t) \in Seq(Arrivals) /\ Len(Tail(t)) = Len(t) - 1 /\ Head(t) = t[1]
      /\ \A k \in 1 .. Len(t) - 1 : Tail(t)[k] = t[k + 1]
  OBVIOUS
<1>2. /\ Append(s, Head(t)) \in Seq(Arrivals) /\ Len(Append(s, Head(t))) = Len(s) + 1
      /\ \A k \in 1 .. Len(s) : Append(s, Head(t))[k] = s[k]
      /\ Append(s, Head(t))[Len(s) + 1] = t[1]
  BY <1>1
<1>3. PICK a \in Seq(Arrivals), b \in Seq(Arrivals) : a = Append(s, Head(t)) /\ b = Tail(t)
  BY <1>1, <1>2
<1>4. Len(a \o b) = Len(s \o t)
  BY <1>1, <1>2, <1>3
<1>5. \A k \in 1 .. Len(a \o b) : (a \o b)[k] = (s \o t)[k]
  BY <1>1, <1>2, <1>3
<1>. QED
  BY <1>3, <1>4, <1>5 DEF IsPart

(* A cut line is no answer, unless it ends SEND OK. *)
LEMMA CutLines ==
    ASSUME NEW x \in Arrivals, NEW y \in CutShort(x)
    PROVE  y \in Arrivals /\ (x[1] # "SEND_OK" /\ y \in Answers => y = x)
<1>1. CASE x[1] \in Unterminated
  <2>1. x[1] # "SEND_OK"
    BY <1>1 DEF Unterminated
  <2>2. CutShort(x) = {x}
    BY <1>1, <2>1 DEF CutShort
  <2>. QED
    BY <2>2
<1>2. CASE x[1] = "SEND_OK"
  <2>1. x[1] \notin Unterminated /\ y \in {Line("JUNK"), Line("OK")}
    BY <1>2 DEF CutShort, Unterminated
  <2>. QED
    BY <1>2, <2>1 DEF Arrivals, Answers, Line
<1>3. CASE x[1] \notin Unterminated /\ x[1] # "SEND_OK"
  <2>1. y = Line("JUNK")
    BY <1>3 DEF CutShort
  <2>. QED
    BY <2>1 DEF Arrivals, Answers, Line
<1>. QED
  BY <1>1, <1>2, <1>3

LEMMA FlushedType ==
    ASSUME out \in Seq(Arrivals), Flushed
    PROVE  /\ out' \in Seq(Arrivals)
           /\ Len(out') = Len(out)
           /\ \A k \in 1 .. Len(out) :
                out[k][1] # "SEND_OK" /\ out'[k] \in Answers => out'[k] = out[k]
<1>1. CASE UNCHANGED out
  BY <1>1
<1>2. ASSUME out # <<>>, NEW rest \in CutShort(Head(out)), out' = <<rest>> \o Tail(out)
      PROVE  /\ out' \in Seq(Arrivals)
             /\ Len(out') = Len(out)
             /\ \A k \in 1 .. Len(out) :
                  out[k][1] # "SEND_OK" /\ out'[k] \in Answers => out'[k] = out[k]
  <2>1. /\ Tail(out) \in Seq(Arrivals) /\ Len(Tail(out)) = Len(out) - 1
        /\ \A k \in 1 .. Len(out) - 1 : Tail(out)[k] = out[k + 1]
        /\ Head(out) = out[1] /\ out[1] \in Arrivals
    BY <1>2
  <2>2. rest \in Arrivals /\ (out[1][1] # "SEND_OK" /\ rest \in Answers => rest = out[1])
    BY <2>1, CutLines
  <2>3. PICK t \in Seq(Arrivals) : t = Tail(out)
    BY <2>1
  <2>4. /\ <<rest>> \o t \in Seq(Arrivals) /\ Len(<<rest>> \o t) = Len(t) + 1
        /\ (<<rest>> \o t)[1] = rest
        /\ \A k \in 2 .. Len(t) + 1 : (<<rest>> \o t)[k] = t[k - 1]
    BY <2>2
  <2>5. \A k \in 2 .. Len(out) : t[k - 1] = out[k]
    BY <2>1, <2>3
  <2>. QED
    BY <1>2, <2>1, <2>2, <2>3, <2>4, <2>5
<1>. QED
  BY <1>1, <1>2 DEF Flushed

LEMMA FlushedPart ==
    ASSUME NEW s \in Seq(Arrivals), out \in Seq(Arrivals), Flushed,
           Only(s \o out, Kinds \ {"SEND_OK"})
    PROVE  IsPart(<<>> \o out', s \o out, Len(s))
<1>1. /\ out' \in Seq(Arrivals) /\ Len(out') = Len(out)
      /\ \A k \in 1 .. Len(out) :
           out[k][1] # "SEND_OK" /\ out'[k] \in Answers => out'[k] = out[k]
  BY FlushedType
<1>2. Len(s \o out) = Len(s) + Len(out) /\ \A k \in 1 .. Len(out) : (s \o out)[k + Len(s)] = out[k]
  OBVIOUS
<1>3. <<>> \o out' = out'
  BY <1>1
<1>4. ASSUME NEW k \in 1 .. Len(out), out'[k] \in Answers
      PROVE  out'[k] = (s \o out)[k + Len(s)]
  <2>1. k + Len(s) \in 1 .. Len(s \o out)
    BY <1>2
  <2>2. out[k] \in Answers => out[k][1] # "SEND_OK"
    BY <1>2, <2>1 DEF Only
  <2>3. out[k] \notin Answers => out[k][1] # "SEND_OK"
    BY ArrivalKinds DEF Kinds
  <2>. QED
    BY <1>1, <1>2, <1>4, <2>2, <2>3
<1>5. Len(out') + Len(s) = Len(s \o out)
  BY <1>1, <1>2
<1>. QED
  BY <1>1, <1>3, <1>4, <1>5 DEF IsPart

(* What the modem writes comes after everything else. *)
LEMMA WrittenOnly ==
    ASSUME NEW s \in Seq(Arrivals), NEW t \in Seq(Arrivals), NEW w \in Seq(Arrivals), NEW kinds,
           Only(s \o t, kinds), Only(w, kinds)
    PROVE  Only(s \o (t \o w), kinds)
<1>0. s \o t \in Seq(Arrivals)
  OBVIOUS
<1>1. PICK v \in Seq(Arrivals) : v = s \o t
  BY <1>0
<1>2. s \o (t \o w) = v \o w
  BY <1>1
<1>3. ASSUME NEW k \in 1 .. Len(v \o w), (v \o w)[k] \in Answers
      PROVE  (v \o w)[k][1] \in kinds
  <2>1. CASE k <= Len(v)
    <3>1. (v \o w)[k] = v[k] /\ k \in 1 .. Len(v)
      BY <2>1
    <3>. QED
      BY <1>1, <1>3, <3>1 DEF Only
  <2>2. CASE k > Len(v)
    <3>1. (v \o w)[k] = w[k - Len(v)] /\ k - Len(v) \in 1 .. Len(w)
      BY <2>2
    <3>. QED
      BY <1>3, <3>1 DEF Only
  <2>. QED
    BY <2>1, <2>2
<1>. QED
  BY <1>2, <1>3 DEF Only

LEMMA WrittenFollows ==
    ASSUME NEW s \in Seq(Arrivals), NEW t \in Seq(Arrivals), NEW w \in Seq(Arrivals),
           NEW first, NEW second,
           Follows(s \o t, first, second), Follows(w, first, second),
           Silent(s \o t) \/ Silent(w) \/ (Only(s \o t, first) /\ Only(w, second))
    PROVE  Follows(s \o (t \o w), first, second)
<1>0. s \o t \in Seq(Arrivals)
  OBVIOUS
<1>1. PICK v \in Seq(Arrivals) : v = s \o t
  BY <1>0
<1>2. s \o (t \o w) = v \o w
  BY <1>1
<1>3. ASSUME NEW j \in 1 .. Len(v \o w), NEW k \in 1 .. Len(v \o w), j < k,
             (v \o w)[j] \in Answers, (v \o w)[k] \in Answers
      PROVE  (v \o w)[j][1] \in first /\ (v \o w)[k][1] \in second
  <2>1. CASE k <= Len(v)
    <3>1. /\ (v \o w)[k] = v[k] /\ k \in 1 .. Len(v)
          /\ (v \o w)[j] = v[j] /\ j \in 1 .. Len(v)
      BY <1>3, <2>1
    <3>. QED
      BY <1>1, <1>3, <3>1 DEF Follows
  <2>2. CASE j <= Len(v) /\ k > Len(v)
    <3>1. /\ (v \o w)[k] = w[k - Len(v)] /\ k - Len(v) \in 1 .. Len(w)
          /\ (v \o w)[j] = v[j] /\ j \in 1 .. Len(v)
      BY <2>2
    <3>. QED
      BY <1>1, <1>3, <3>1 DEF Only, Silent
  <2>3. CASE j > Len(v)
    <3>1. /\ (v \o w)[k] = w[k - Len(v)] /\ k - Len(v) \in 1 .. Len(w)
          /\ (v \o w)[j] = w[j - Len(v)] /\ j - Len(v) \in 1 .. Len(w)
          /\ j - Len(v) < k - Len(v)
      BY <1>3, <2>3
    <3>. QED
      BY <1>3, <3>1 DEF Follows
  <2>. QED
    BY <2>1, <2>2, <2>3
<1>. QED
  BY <1>2, <1>3 DEF Follows

LEMMA OnlyMore ==
    ASSUME NEW lines, NEW a, NEW b, Only(lines, a), a \subseteq b
    PROVE  Only(lines, b)
BY DEF Only

LEMMA SilentFollows ==
    ASSUME NEW lines, NEW first, NEW second, Silent(lines)
    PROVE  Follows(lines, first, second)
BY DEF Silent, Only, Follows

(* Once an answer that nothing follows is taken, there is silence. *)
LEMMA FirstOfTwo ==
    ASSUME NEW s \in Seq(Arrivals), NEW t \in Seq(Arrivals), NEW first, NEW second,
           s # <<>>, Head(s) \in Answers, Follows(s \o t, first, second)
    PROVE  /\ Only(SubSeq(s, 2, Len(s)) \o t, second)
           /\ Head(s)[1] \notin first => Silent(SubSeq(s, 2, Len(s)) \o t)
<1>1. /\ Len(s) > 0 /\ Head(s) = s[1] /\ (s \o t)[1] = s[1] /\ SubSeq(s, 2, Len(s)) \in Seq(Arrivals)
  OBVIOUS
<1>2. IsPart(SubSeq(s, 1 + 1, Len(s)) \o t, s \o t, 1)
  BY <1>1, TakenPart
<1>. SubSeq(s, 2, Len(s)) \o t \in Seq(Arrivals) /\ s \o t \in Seq(Arrivals)
  BY <1>1
<1>3. PICK u \in Seq(Arrivals), v \in Seq(Arrivals) : u = SubSeq(s, 2, Len(s)) \o t /\ v = s \o t
  OBVIOUS
<1>4. IsPart(u, v, 1)
  BY <1>2, <1>3
<1>5. ASSUME NEW k \in 1 .. Len(u), u[k] \in Answers
      PROVE  v[1][1] \in first /\ u[k][1] \in second
  <2>1. 1 \in 1 .. Len(v) /\ k + 1 \in 1 .. Len(v) /\ 1 < k + 1 /\ u[k] = v[k + 1]
    BY <1>4, <1>5 DEF IsPart
  <2>. QED
    BY <1>1, <1>3, <1>5, <2>1 DEF Follows
<1>. QED
  BY <1>1, <1>3, <1>5 DEF Only, Silent

(* What AnswerOwed asks. *)
LEMMA NothingOwed ==
    ASSUME NEW s \in Seq(Arrivals), NEW t \in Seq(Arrivals)
    PROVE  AnswerOwed(s, t) <=> ~(Silent(s \o t) /\ sock[1] # "opening" /\ ~data)
<1>1. Silent(s \o t) <=> \A k \in 1 .. Len(s \o t) : (s \o t)[k] \notin Answers
  BY DEF Silent, Only
<1>2. ASSUME \A k \in 1 .. Len(s \o t) : (s \o t)[k] \notin Answers
      PROVE  (\A k \in 1 .. Len(s) : s[k] \notin Answers) /\ (\A k \in 1 .. Len(t) : t[k] \notin Answers)
  <2>1. \A k \in 1 .. Len(s) : k \in 1 .. Len(s \o t) /\ (s \o t)[k] = s[k]
    OBVIOUS
  <2>2. \A k \in 1 .. Len(t) : k + Len(s) \in 1 .. Len(s \o t) /\ (s \o t)[k + Len(s)] = t[k]
    OBVIOUS
  <2>. QED
    BY <1>2, <2>1, <2>2
<1>3. ASSUME \A k \in 1 .. Len(s) : s[k] \notin Answers, \A k \in 1 .. Len(t) : t[k] \notin Answers
      PROVE  \A k \in 1 .. Len(s \o t) : (s \o t)[k] \notin Answers
  BY <1>3
<1>. QED
  BY <1>1, <1>2, <1>3 DEF AnswerOwed

-----------------------------------------------------------------------------
(* What the socket operations of modem.c do to the state of the driver.    *)
ModemState == [rx : Seq(Arrivals), tx : Commands, queue : Seq(Datagrams), step : {0, 1}]

Fits(q) == q \in ModemState /\ Len(q.queue) <= RECV_QIURC_LENS_BUF_SIZE

(* p is q after n arrivals have been taken. *)
Taken(q, p, n) ==
    /\ n \in 0 .. Len(q.rx)
    /\ p.rx = SubSeq(q.rx, n + 1, Len(q.rx))
    /\ p.tx = q.tx /\ p.step = q.step

LEMMA TakenNone ==
    ASSUME NEW q, Fits(q)
    PROVE  Taken(q, q, 0)
<1>1. q.rx \in Seq(Arrivals)
  BY DEF Fits, ModemState
<1>2. SubSeq(q.rx, 1, Len(q.rx)) = q.rx
  BY <1>1
<1>. QED
  BY <1>1, <1>2 DEF Taken

LEMMA AdvanceTakes ==
    ASSUME NEW q, Fits(q), NEW n \in 0 .. Len(q.rx)
    PROVE  /\ Fits(Advance(q, n)) /\ Taken(q, Advance(q, n), n)
           /\ Advance(q, n).queue = q.queue
<1>1. /\ q \in ModemState /\ q.rx \in Seq(Arrivals) /\ SubSeq(q.rx, n + 1, Len(q.rx)) \in Seq(Arrivals)
  BY DEF Fits, ModemState
<1>2. PICK r \in Seq(Arrivals) : r = SubSeq(q.rx, n + 1, Len(q.rx))
  BY <1>1
<1>3. [q EXCEPT !.rx = r] \in ModemState /\ Advance(q, n) = [q EXCEPT !.rx = r]
  BY <1>1, <1>2 DEF ModemState, Advance
<1>4. /\ [q EXCEPT !.rx = r].rx = r /\ [q EXCEPT !.rx = r].tx = q.tx
      /\ [q EXCEPT !.rx = r].step = q.step /\ [q EXCEPT !.rx = r].queue = q.queue
  BY <1>1 DEF ModemState
<1>. QED
  BY <1>1, <1>2, <1>3, <1>4 DEF Fits, Taken

LEMMA FirstLineRange ==
    ASSUME NEW rx \in Seq(Arrivals)
    PROVE  /\ FirstLine(rx) \in 0 .. Len(rx)
           /\ FirstLine(rx) > 0 => rx # <<>>
<1>1. rx # <<>> => Len(rx) > 0
  OBVIOUS
<1>2. CASE Len(rx) > 1 /\ Head(rx) = Line("PROMPT") /\ rx[2] = Line("SPACE")
  BY <1>1, <1>2 DEF FirstLine
<1>3. CASE ~(Len(rx) > 1 /\ Head(rx) = Line("PROMPT") /\ rx[2] = Line("SPACE"))
  BY <1>1, <1>3 DEF FirstLine
<1>. QED
  BY <1>2, <1>3

LEMMA QueueTakes ==
    ASSUME NEW q, Fits(q), NEW d \in Datagrams, ~Refused(q.queue, d)
    PROVE  LET p == [q EXCEPT !.queue = Append(@, d)]
           IN  Fits(p) /\ p.rx = q.rx /\ p.tx = q.tx /\ p.step = q.step
<1>1. /\ q \in ModemState /\ q.queue \in Seq(Datagrams) /\ Append(q.queue, d) \in Seq(Datagrams)
      /\ Len(q.queue) < RECV_QIURC_LENS_BUF_SIZE /\ Len(Append(q.queue, d)) = Len(q.queue) + 1
  BY ModemSocketAssumption DEF Fits, ModemState, Refused
<1>2. PICK r \in Seq(Datagrams) : r = Append(q.queue, d)
  BY <1>1
<1>3. /\ [q EXCEPT !.queue = Append(@, d)] = [q EXCEPT !.queue = r]
      /\ [q EXCEPT !.queue = r] \in ModemState
  BY <1>1, <1>2 DEF ModemState
<1>4. /\ [q EXCEPT !.queue = r].rx = q.rx /\ [q EXCEPT !.queue = r].tx = q.tx
      /\ [q EXCEPT !.queue = r].step = q.step /\ [q EXCEPT !.queue = r].queue = r
  BY <1>1 DEF ModemState
<1>. QED
  BY <1>1, <1>2, <1>3, <1>4, ModemSocketAssumption DEF Fits

LEMMA UrcTakes ==
    ASSUME NEW q, Fits(q)
    PROVE  /\ Fits(urc_buffer_handler(q).m)
           /\ \E n \in 0 .. Len(q.rx) : Taken(q, urc_buffer_handler(q).m, n)
<1>0. q.rx \in Seq(Arrivals) /\ Len(q.rx) \in Nat
  BY DEF Fits, ModemState
<1>1. PICK n \in 0 .. Len(q.rx) : n = FirstLine(q.rx) /\ (n > 0 => q.rx # <<>>)
  BY <1>0, FirstLineRange
<1>2. CASE n = 0
  <2>1. urc_buffer_handler(q).m = q
    BY <1>1, <1>2 DEF urc_buffer_handler, Reply
  <2>. QED
    BY <1>0, <2>1, TakenNone
<1>3. CASE n > 0 /\ Head(q.rx)[1] # "HDR"
  <2>1. urc_buffer_handler(q).m = Advance(q, n)
    BY <1>1, <1>3 DEF urc_buffer_handler, Reply
  <2>. QED
    BY <2>1, AdvanceTakes
<1>4. CASE n > 0 /\ Head(q.rx)[1] = "HDR" /\ Len(q.rx) = 1
  <2>1. urc_buffer_handler(q).m = q
    BY <1>1, <1>4 DEF urc_buffer_handler, Reply
  <2>. QED
    BY <1>0, <2>1, TakenNone
<1>5. CASE n > 0 /\ Head(q.rx)[1] = "HDR" /\ Len(q.rx) # 1
  <2>a. q.rx # <<>>
    BY <1>1, <1>5
  <2>b. Len(q.rx) > 0 /\ Head(q.rx) \in Arrivals
    BY <1>0, <2>a
  <2>c. Len(q.rx) # 1
    BY <1>5, Zenon
  <2>0. 2 \in 0 .. Len(q.rx)
    <3>1. PICK k \in Nat : k = Len(q.rx)
      BY <1>0
    <3>2. k > 0 /\ k # 1
      BY <2>b, <2>c, <3>1
    <3>3. 2 \in 0 .. k
      BY <3>2
    <3>. QED
      BY <3>1, <3>3
  <2>1. PICK d \in Datagrams : d = Head(q.rx)[2]
    BY <1>5, <2>b, ArrivalKinds
  <2>2. Fits(Advance(q, 2)) /\ Taken(q, Advance(q, 2), 2) /\ Advance(q, 2).queue = q.queue
    BY <2>0, AdvanceTakes
  <2>3. CASE Refused(q.queue, d)
    <3>1. urc_buffer_handler(q).m = Advance(q, 2)
      BY <1>1, <1>5, <2>1, <2>3 DEF urc_buffer_handler, Reply
    <3>. QED
      BY <2>0, <2>2, <3>1
  <2>4. CASE ~Refused(q.queue, d)
    <3>1. urc_buffer_handler(q).m = [Advance(q, 2) EXCEPT !.queue = Append(@, d)]
      BY <1>1, <1>5, <2>1, <2>4 DEF urc_buffer_handler, Reply
    <3>2. /\ Fits([Advance(q, 2) EXCEPT !.queue = Append(@, d)])
          /\ Taken(q, [Advance(q, 2) EXCEPT !.queue = Append(@, d)], 2)
      BY <2>2, <2>4, QueueTakes DEF Taken
    <3>. QED
      BY <2>0, <3>1, <3>2
  <2>. QED
    BY <2>3, <2>4
<1>. QED
  BY <1>2, <1>3, <1>4, <1>5

LEMMA RecvTakes ==
    ASSUME NEW q, Fits(q)
    PROVE  /\ Fits(modem_socket_try_recv(q).m)
           /\ \E n \in 0 .. Len(q.rx) : Taken(q, modem_socket_try_recv(q).m, n)
<1>1. CASE q.queue # <<>>
  <2>1. /\ q \in ModemState /\ Tail(q.queue) \in Seq(Datagrams) /\ Len(Tail(q.queue)) = Len(q.queue) - 1
        /\ Len(q.queue) \in Nat
    BY <1>1 DEF Fits, ModemState
  <2>2. PICK r \in Seq(Datagrams) : r = Tail(q.queue)
    BY <2>1
  <2>3. modem_socket_try_recv(q).m = [q EXCEPT !.queue = r] /\ [q EXCEPT !.queue = r] \in ModemState
    BY <1>1, <2>1, <2>2 DEF ModemState, modem_socket_try_recv, Reply
  <2>4. /\ [q EXCEPT !.queue = r].rx = q.rx /\ [q EXCEPT !.queue = r].tx = q.tx
        /\ [q EXCEPT !.queue = r].step = q.step /\ [q EXCEPT !.queue = r].queue = r
    BY <2>1 DEF ModemState
  <2>5. Fits([q EXCEPT !.queue = r])
    BY <2>1, <2>2, <2>3, <2>4, ModemSocketAssumption DEF Fits
  <2>6. Taken(q, [q EXCEPT !.queue = r], 0)
    BY <2>4, TakenNone DEF Taken
  <2>7. 0 \in 0 .. Len(q.rx)
    BY <2>6 DEF Taken
  <2>. QED
    BY <2>3, <2>5, <2>6, <2>7
<1>2. CASE q.queue = <<>>
  <2>1. modem_socket_try_recv(q).m = urc_buffer_handler(q).m
    BY <1>2 DEF modem_socket_try_recv, Reply
  <2>. QED
    BY <2>1, UrcTakes
<1>. QED
  BY <1>1, <1>2

(* match_responses succeeds only on a line that its table has. *)
LEMMA MatchTakes ==
    ASSUME NEW q, Fits(q), NEW responses
    PROVE  LET r == match_responses_strict(q, responses)
           IN  /\ Fits(r.m)
               /\ \E n \in 0 .. Len(q.rx) : Taken(q, r.m, n)
               /\ \/ r.res \in {-1, 1}
                  \/ /\ q.rx # <<>> /\ Taken(q, r.m, 1)
                     /\ Head(q.rx)[1] \in DOMAIN responses
                     /\ r.res = responses[Head(q.rx)[1]]
<1>0. q.rx \in Seq(Arrivals) /\ Len(q.rx) \in Nat
  BY DEF Fits, ModemState
<1>1. PICK n \in 0 .. Len(q.rx) : n = FirstLine(q.rx) /\ (n > 0 => q.rx # <<>>)
  BY <1>0, FirstLineRange
<1>2. CASE n = 0
  <2>1. match_responses_strict(q, responses) = [res |-> 1, m |-> q]
    BY <1>1, <1>2 DEF match_responses_strict, match_responses, Reply
  <2>. QED
    BY <1>0, <2>1, TakenNone
<1>3. CASE n # 0 /\ ~(n = 1 /\ Head(q.rx)[1] \in DOMAIN responses)
  <2>1. match_responses_strict(q, responses) = [res |-> -1, m |-> Advance(q, n)]
    BY <1>1, <1>3 DEF match_responses_strict, match_responses, Reply
  <2>. QED
    BY <2>1, AdvanceTakes
<1>4. CASE n = 1 /\ Head(q.rx)[1] \in DOMAIN responses
  <2>1. match_responses_strict(q, responses)
            = [res |-> responses[Head(q.rx)[1]], m |-> Advance(q, 1)]
    BY <1>1, <1>4 DEF match_responses_strict, match_responses, Reply
  <2>2. Fits(Advance(q, 1)) /\ Taken(q, Advance(q, 1), 1)
    BY <1>4, AdvanceTakes
  <2>. QED
    BY <1>1, <1>4, <2>1, <2>2
<1>. QED
  BY <1>2, <1>3, <1>4

(* The init functions start their command or leave the one under way.      *)
LEMMA TransmitStarts ==
    ASSUME NEW q, Fits(q), NEW c \in Commands
    PROVE  /\ q.tx # None => Transmit(q, c) = [res |-> -1, m |-> q]
           /\ q.tx = None =>
                /\ Transmit(q, c) = [res |-> 0, m |-> [q EXCEPT !.tx = c]]
                /\ Fits([q EXCEPT !.tx = c])
                /\ [q EXCEPT !.tx = c].rx = q.rx /\ [q EXCEPT !.tx = c].tx = c
                /\ [q EXCEPT !.tx = c].step = q.step
<1>1. /\ q \in ModemState /\ [q EXCEPT !.tx = c] \in ModemState
      /\ [q EXCEPT !.tx = c].rx = q.rx /\ [q EXCEPT !.tx = c].tx = c
      /\ [q EXCEPT !.tx = c].step = q.step /\ [q EXCEPT !.tx = c].queue = q.queue
  BY DEF Fits, ModemState
<1>. QED
  BY <1>1 DEF Fits, Transmit, Reply

LEMMA StepIs ==
    ASSUME NEW q, Fits(q), NEW n \in {0, 1}
    PROVE  /\ Fits([q EXCEPT !.step = n])
           /\ [q EXCEPT !.step = n].rx = q.rx /\ [q EXCEPT !.step = n].tx = q.tx
           /\ [q EXCEPT !.step = n].step = n
<1>1. /\ q \in ModemState /\ [q EXCEPT !.step = n] \in ModemState
      /\ [q EXCEPT !.step = n].rx = q.rx /\ [q EXCEPT !.step = n].tx = q.tx
      /\ [q EXCEPT !.step = n].step = n /\ [q EXCEPT !.step = n].queue = q.queue
  BY DEF Fits, ModemState
<1>. QED
  BY <1>1 DEF Fits

LEMMA FlushEmpties ==
    ASSUME NEW q, Fits(q)
    PROVE  /\ Fits(modem_rx_buf_flush(q))
           /\ modem_rx_buf_flush(q).rx = <<>> /\ modem_rx_buf_flush(q).tx = q.tx
           /\ modem_rx_buf_flush(q).step = q.step
<1>1. <<>> \in Seq(Arrivals)
  OBVIOUS
<1>2. /\ q \in ModemState /\ [q EXCEPT !.rx = <<>>] \in ModemState
      /\ [q EXCEPT !.rx = <<>>].rx = <<>> /\ [q EXCEPT !.rx = <<>>].tx = q.tx
      /\ [q EXCEPT !.rx = <<>>].step = q.step /\ [q EXCEPT !.rx = <<>>].queue = q.queue
  BY <1>1 DEF Fits, ModemState
<1>. QED
  BY <1>2 DEF Fits, modem_rx_buf_flush

LEMMA CommandTypes ==
    /\ \A h \in Hosts : <<"QIOPEN", h>> \in Commands /\ <<"QIOPEN", h>> # None
    /\ \A b \in Messages : /\ <<"QISEND", b>> \in Commands /\ <<"QISEND", b>> # None
                           /\ <<"DATA", b>> \in Commands /\ <<"DATA", b>> # None
    /\ <<"QICLOSE">> \in Commands /\ <<"QICLOSE">> # None
BY DEF Commands, None

(* The outcome r of an init function that starts c, at step 0 or at that   *)
(* of the operation before, with rx received and not flushed.              *)
Started(q, r, c, rx, n) ==
    /\ Fits(r.m) /\ r.m.rx = rx
    /\ q.tx # None => r.res = -1 /\ r.m.tx = q.tx /\ r.m.step = q.step
    /\ q.tx = None => r.res = 0 /\ r.m.tx = c /\ r.m.step = n

LEMMA OpenInit ==
    ASSUME NEW q, Fits(q), NEW h \in Hosts
    PROVE  Started(q, modem_socket_open_init(q, h), <<"QIOPEN", h>>, <<>>, 0)
<1>1. PICK f : f = modem_rx_buf_flush(q)
  OBVIOUS
<1>2. Fits(f) /\ f.rx = <<>> /\ f.tx = q.tx /\ f.step = q.step
  BY <1>1, FlushEmpties
<1>3. PICK c \in Commands : c = <<"QIOPEN", h>>
  BY CommandTypes
<1>4. CASE q.tx # None
  <2>0. Transmit(f, c) = [res |-> -1, m |-> f]
    BY <1>2, <1>4, TransmitStarts
  <2>1. modem_socket_open_init(q, h) = [res |-> -1, m |-> f]
    BY <1>1, <1>3, <2>0 DEF modem_socket_open_init
  <2>. QED
    BY <1>2, <1>4, <2>1 DEF Started
<1>5. CASE q.tx = None
  <2>1. PICK p : p = [f EXCEPT !.tx = c]
    OBVIOUS
  <2>2. /\ Transmit(f, c) = [res |-> 0, m |-> p]
        /\ Fits(p) /\ p.rx = <<>> /\ p.tx = c /\ p.step = f.step
    BY <1>2, <1>5, <2>1, TransmitStarts
  <2>3. PICK o : o = [p EXCEPT !.step = 0]
    OBVIOUS
  <2>4. Fits(o) /\ o.rx = <<>> /\ o.tx = c /\ o.step = 0
    BY <2>2, <2>3, StepIs
  <2>5. modem_socket_open_init(q, h) = [res |-> 0, m |-> o]
    BY <1>1, <1>3, <2>2, <2>3 DEF modem_socket_open_init, Reply
  <2>. QED
    BY <1>3, <1>5, <2>4, <2>5 DEF Started
<1>. QED
  BY <1>4, <1>5

LEMMA SendInit ==
    ASSUME NEW q, Fits(q), NEW b \in Messages
    PROVE  Started(q, modem_socket_send_init(q, b), <<"QISEND", b>>, q.rx, 0)
<1>3. PICK c \in Commands : c = <<"QISEND", b>>
  BY CommandTypes
<1>4. CASE q.tx # None
  <2>0. Transmit(q, c) = [res |-> -1, m |-> q]
    BY <1>4, TransmitStarts
  <2>1. modem_socket_send_init(q, b) = [res |-> -1, m |-> q]
    BY <1>3, <2>0 DEF modem_socket_send_init
  <2>. QED
    BY <1>4, <2>1 DEF Started
<1>5. CASE q.tx = None
  <2>1. PICK p : p = [q EXCEPT !.tx = c]
    OBVIOUS
  <2>2. /\ Transmit(q, c) = [res |-> 0, m |-> p]
        /\ Fits(p) /\ p.rx = q.rx /\ p.tx = c /\ p.step = q.step
    BY <1>5, <2>1, TransmitStarts
  <2>3. PICK o : o = [p EXCEPT !.step = 0]
    OBVIOUS
  <2>4. Fits(o) /\ o.rx = q.rx /\ o.tx = c /\ o.step = 0
    BY <2>2, <2>3, StepIs
  <2>5. modem_socket_send_init(q, b) = [res |-> 0, m |-> o]
    BY <1>3, <2>2, <2>3 DEF modem_socket_send_init, Reply
  <2>. QED
    BY <1>3, <1>5, <2>4, <2>5 DEF Started
<1>. QED
  BY <1>4, <1>5

LEMMA CloseInit ==
    ASSUME NEW q, Fits(q)
    PROVE  Started(q, modem_socket_close_init(q), <<"QICLOSE">>, <<>>, q.step)
<1>1. PICK f : f = modem_rx_buf_flush(q)
  OBVIOUS
<1>2. Fits(f) /\ f.rx = <<>> /\ f.tx = q.tx /\ f.step = q.step
  BY <1>1, FlushEmpties
<1>3. PICK c \in Commands : c = <<"QICLOSE">>
  BY CommandTypes
<1>4. modem_socket_close_init(q) = Transmit(f, c)
  BY <1>1, <1>3 DEF modem_socket_close_init
<1>5. CASE q.tx # None
  <2>1. Transmit(f, c) = [res |-> -1, m |-> f]
    BY <1>2, <1>5, TransmitStarts
  <2>. QED
    BY <1>2, <1>4, <1>5, <2>1 DEF Started
<1>6. CASE q.tx = None
  <2>1. PICK p : p = [f EXCEPT !.tx = c]
    OBVIOUS
  <2>2. /\ Transmit(f, c) = [res |-> 0, m |-> p]
        /\ Fits(p) /\ p.rx = <<>> /\ p.tx = c /\ p.step = f.step
    BY <1>2, <1>6, <2>1, TransmitStarts
  <2>. QED
    BY <1>2, <1>3, <1>4, <1>6, <2>2 DEF Started
<1>. QED
  BY <1>5, <1>6

(* The continue functions complete on the last line of their answers only. *)
LEMMA OpenContinue ==
    ASSUME NEW q, Fits(q)
    PROVE  LET r == modem_socket_open_continue(q)
           IN  /\ Fits(r.m) /\ r.res \in {-1, 0, 1}
               /\ r.m.tx = q.tx
               /\ \E n \in 0 .. Len(q.rx) : r.m.rx = SubSeq(q.rx, n + 1, Len(q.rx))
               /\ r.res = 0 => /\ q.rx # <<>> /\ Head(q.rx)[1] = "QIOPEN_OK"
                               /\ r.m.rx = SubSeq(q.rx, 2, Len(q.rx))
<1>1. CASE q.step = 0
  <2>1. PICK r : r = match_responses_strict(q, ok_or_error)
    OBVIOUS
  <2>2. DOMAIN ok_or_error = {"OK", "ERROR"} /\ ok_or_error["OK"] = 0 /\ ok_or_error["ERROR"] = -1
    BY DEF ok_or_error
  <2>3. /\ Fits(r.m) /\ r.res \in {-1, 0, 1}
        /\ \E n \in 0 .. Len(q.rx) : Taken(q, r.m, n)
    BY <2>1, <2>2, MatchTakes
  <2>6. r.m.tx = q.tx /\ \E n \in 0 .. Len(q.rx) : r.m.rx = SubSeq(q.rx, n + 1, Len(q.rx))
    BY <2>3 DEF Taken
  <2>4. CASE r.res # 0
    <3>1. modem_socket_open_continue(q) = r
      BY <1>1, <2>1, <2>4 DEF modem_socket_open_continue
    <3>. QED
      BY <2>3, <2>4, <2>6, <3>1
  <2>5. CASE r.res = 0
    <3>1. PICK o : o = [r.m EXCEPT !.step = 1]
      OBVIOUS
    <3>2. Fits(o) /\ o.rx = r.m.rx /\ o.tx = r.m.tx
      BY <2>3, <3>1, StepIs
    <3>3. modem_socket_open_continue(q) = [res |-> 1, m |-> o]
      BY <1>1, <2>1, <2>5, <3>1 DEF modem_socket_open_continue, Reply
    <3>. QED
      BY <2>6, <3>2, <3>3
  <2>. QED
    BY <2>4, <2>5
<1>2. CASE q.step # 0
  <2>1. PICK r : r = match_responses_strict(q, open_responses)
    OBVIOUS
  <2>2. DOMAIN open_responses = {"QIOPEN_OK"} /\ open_responses["QIOPEN_OK"] = 0
    BY DEF open_responses
  <2>3. modem_socket_open_continue(q) = r
    BY <1>2, <2>1 DEF modem_socket_open_continue
  <2>4. /\ Fits(r.m) /\ r.res \in {-1, 0, 1}
        /\ \E n \in 0 .. Len(q.rx) : Taken(q, r.m, n)
        /\ r.res = 0 => q.rx # <<>> /\ Head(q.rx)[1] = "QIOPEN_OK" /\ Taken(q, r.m, 1)
    BY <2>1, <2>2, MatchTakes
  <2>5. r.m.tx = q.tx /\ \E n \in 0 .. Len(q.rx) : r.m.rx = SubSeq(q.rx, n + 1, Len(q.rx))
    BY <2>4 DEF Taken
  <2>6. r.res = 0 => r.m.rx = SubSeq(q.rx, 2, Len(q.rx))
    BY <2>4 DEF Taken
  <2>. QED
    BY <2>3, <2>4, <2>5, <2>6
<1>. QED
  BY <1>1, <1>2

LEMMA CloseContinue ==
    ASSUME NEW q, Fits(q)
    PROVE  LET r == modem_socket_close_continue(q)
           IN  /\ Fits(r.m) /\ r.res \in {-1, 0, 1}
               /\ r.m.tx = q.tx
               /\ \E n \in 0 .. Len(q.rx) : r.m.rx = SubSeq(q.rx, n + 1, Len(q.rx))
               /\ r.res = 0 => /\ q.rx # <<>> /\ Head(q.rx)[1] = "OK"
                               /\ r.m.rx = SubSeq(q.rx, 2, Len(q.rx))
<1>1. PICK r : r = match_responses_strict(q, ok_or_error)
  OBVIOUS
<1>2. DOMAIN ok_or_error = {"OK", "ERROR"} /\ ok_or_error["OK"] = 0 /\ ok_or_error["ERROR"] = -1
  BY DEF ok_or_error
<1>3. modem_socket_close_continue(q) = r
  BY <1>1 DEF modem_socket_close_continue
<1>4. /\ Fits(r.m) /\ r.res \in {-1, 0, 1}
      /\ \E n \in 0 .. Len(q.rx) : Taken(q, r.m, n)
      /\ r.res = 0 => q.rx # <<>> /\ Head(q.rx)[1] = "OK" /\ Taken(q, r.m, 1)
  BY <1>1, <1>2, MatchTakes
<1>5. r.m.tx = q.tx /\ \E n \in 0 .. Len(q.rx) : r.m.rx = SubSeq(q.rx, n + 1, Len(q.rx))
  BY <1>4 DEF Taken
<1>6. r.res = 0 => r.m.rx = SubSeq(q.rx, 2, Len(q.rx))
  BY <1>4 DEF Taken
<1>. QED
  BY <1>3, <1>4, <1>5, <1>6

LEMMA PromptAwaited ==
    ASSUME NEW q, Fits(q), NEW b \in Messages
    PROVE  LET r == AwaitPrompt(q, b)
           IN  /\ Fits(r.m) /\ r.res \in {-1, 1}
               /\ \/ \E n \in 0 .. Len(q.rx) : Taken(q, r.m, n)
                  \/ /\ q.rx # <<>> /\ Head(q.rx)[1] = "PROMPT"
                     /\ r.m.rx = SubSeq(q.rx, 2, Len(q.rx))
                     /\ q.tx = None /\ r.m.tx = <<"DATA", b>> /\ r.m.step = 1
<1>0. q.rx \in Seq(Arrivals) /\ Len(q.rx) \in Nat
  BY DEF Fits, ModemState
<1>1. CASE q.rx = <<>>
  <2>1. AwaitPrompt(q, b) = [res |-> 1, m |-> q]
    BY <1>1 DEF AwaitPrompt, Reply
  <2>. QED
    BY <1>0, <2>1, TakenNone
<1>2. CASE q.rx # <<>> /\ Head(q.rx) = Line("PROMPT")
  <2>0. Head(q.rx)[1] = "PROMPT" /\ 1 \in 0 .. Len(q.rx)
    BY <1>0, <1>2 DEF Line
  <2>1. PICK p : p = Advance(q, 1)
    OBVIOUS
  <2>2. /\ Fits(p) /\ p.rx = SubSeq(q.rx, 2, Len(q.rx)) /\ p.tx = q.tx /\ p.step = q.step
        /\ Taken(q, p, 1)
    BY <2>0, <2>1, AdvanceTakes DEF Taken
  <2>3. PICK c \in Commands : c = <<"DATA", b>>
    BY CommandTypes
  <2>4. AwaitPrompt(q, b) = TransmitPayload(p, b)
    BY <1>2, <2>1 DEF AwaitPrompt
  <2>5. CASE p.tx # None
    <3>0. Transmit(p, c) = [res |-> -1, m |-> p]
      BY <2>2, <2>5, TransmitStarts
    <3>1. TransmitPayload(p, b) = [res |-> -1, m |-> p]
      BY <2>3, <3>0 DEF TransmitPayload
    <3>. QED
      BY <2>0, <2>2, <2>4, <3>1
  <2>6. CASE p.tx = None
    <3>1. PICK o : o = [p EXCEPT !.tx = c]
      OBVIOUS
    <3>2. /\ Transmit(p, c) = [res |-> 0, m |-> o]
          /\ Fits(o) /\ o.rx = p.rx /\ o.tx = c
      BY <2>2, <2>6, <3>1, TransmitStarts
    <3>3. PICK e : e = [o EXCEPT !.step = 1]
      OBVIOUS
    <3>4. Fits(e) /\ e.rx = p.rx /\ e.tx = c /\ e.step = 1
      BY <3>2, <3>3, StepIs
    <3>5. TransmitPayload(p, b) = [res |-> 1, m |-> e]
      BY <2>3, <3>2, <3>3 DEF TransmitPayload, Reply
    <3>. QED
      BY <1>2, <2>0, <2>2, <2>3, <2>4, <2>6, <3>4, <3>5
  <2>. QED
    BY <2>5, <2>6
<1>3. CASE q.rx # <<>> /\ Head(q.rx) # Line("PROMPT")
  <2>1. /\ AwaitPrompt(q, b).m = urc_buffer_handler(q).m
        /\ AwaitPrompt(q, b).res \in {-1, 1}
    BY <1>3 DEF AwaitPrompt, Reply
  <2>. QED
    BY <2>1, UrcTakes
<1>. QED
  BY <1>1, <1>2, <1>3

LEMMA ResultAwaited ==
    ASSUME NEW q, Fits(q)
    PROVE  LET r == match_responses_strict(q, send_responses)
           IN  /\ Fits(r.m) /\ r.res \in {-1, 0, 1}
               /\ \E n \in 0 .. Len(q.rx) : Taken(q, r.m, n)
               /\ r.res = 0 => /\ q.rx # <<>> /\ Head(q.rx)[1] = "SEND_OK"
                               /\ Taken(q, r.m, 1)
<1>1. /\ DOMAIN send_responses = {"SEND_OK", "SPACE"}
      /\ send_responses["SEND_OK"] = 0 /\ send_responses["SPACE"] = 1
  BY DEF send_responses
<1>. QED
  BY <1>1, MatchTakes

-----------------------------------------------------------------------------
(* The types of the state. *)
LEMMA EmitType ==
    ASSUME out \in Seq(Arrivals), NEW w \in Seq(Arrivals), Emit(w)
    PROVE  out' = out \o w /\ out' \in Seq(Arrivals)
<1>1. out' = out \o w
  BY DEF Emit
<1>2. out \o w \in Seq(Arrivals)
  OBVIOUS
<1>. QED
  BY <1>1, <1>2

(* Every sequence of lines that the modem writes.                          *)
LEMMA WrittenLines ==
    /\ \A k \in Kinds \cup {"JUNK"} : <<Line(k)>> \in Seq(Arrivals)
    /\ <<Line("PROMPT"), Line("SPACE")>> \in Seq(Arrivals)
    /\ \A d \in Datagrams : << <<"HDR", d>>, <<"PAY", d>> >> \in Seq(Arrivals)
<1>1. ASSUME NEW k \in Kinds \cup {"JUNK"}
      PROVE  <<Line(k)>> \in Seq(Arrivals)
  <2>1. PICK a \in Arrivals : a = Line(k)
    BY LinesArrive
  <2>2. <<a>> \in Seq(Arrivals)
    OBVIOUS
  <2>. QED
    BY <2>1, <2>2
<1>2. <<Line("PROMPT"), Line("SPACE")>> \in Seq(Arrivals)
  <2>1. PICK a \in Arrivals, b \in Arrivals : a = Line("PROMPT") /\ b = Line("SPACE")
    BY LinesArrive DEF Kinds
  <2>2. <<a, b>> \in Seq(Arrivals)
    OBVIOUS
  <2>. QED
    BY <2>1, <2>2
<1>3. ASSUME NEW d \in Datagrams
      PROVE  << <<"HDR", d>>, <<"PAY", d>> >> \in Seq(Arrivals)
  <2>1. PICK a \in Arrivals, b \in Arrivals : a = <<"HDR", d>> /\ b = <<"PAY", d>>
    BY LinesArrive
  <2>2. <<a, b>> \in Seq(Arrivals)
    OBVIOUS
  <2>. QED
    BY <2>1, <2>2
<1>. QED
  BY <1>1, <1>2, <1>3

LEMMA TakeType ==
    ASSUME TypeOK, Take(m.tx), m.tx # None
    PROVE  sock' \in Sockets /\ data' \in BOOLEAN /\ did' \in Deeds /\ out' \in Seq(Arrivals)
<1>1. /\ sock \in Sockets /\ data \in BOOLEAN /\ did \in Deeds /\ out \in Seq(Arrivals)
      /\ m.tx \in Commands
  BY DEF TypeOK
<1>e. ASSUME NEW w \in Seq(Arrivals), Emit(w) PROVE out' \in Seq(Arrivals)
  BY <1>1, <1>e, EmitType
<1>l. /\ <<Line("OK")>> \in Seq(Arrivals) /\ <<Line("ERROR")>> \in Seq(Arrivals)
      /\ <<Line("PROMPT")>> \in Seq(Arrivals) /\ <<Line("PROMPT"), Line("SPACE")>> \in Seq(Arrivals)
      /\ <<Line("SEND_OK")>> \in Seq(Arrivals) /\ <<Line("SEND_FAIL")>> \in Seq(Arrivals)
  BY WrittenLines DEF Kinds
<1>2. CASE m.tx[1] = "QIOPEN" /\ TakeQIOPEN(m.tx[2])
  <2>1. m.tx[2] \in Hosts
    BY <1>1, <1>2 DEF Commands, None
  <2>2. <<"opening", m.tx[2]>> \in Sockets
    BY <2>1 DEF Sockets
  <2>3. sock' \in Sockets
    BY <1>1, <1>2, <2>2 DEF TakeQIOPEN
  <2>4. out' \in Seq(Arrivals)
    BY <1>2, <1>e, <1>l DEF TakeQIOPEN
  <2>. QED
    BY <1>1, <1>2, <2>3, <2>4 DEF TakeQIOPEN
<1>3. CASE m.tx[1] = "QISEND" /\ TakeQISEND
  BY <1>1, <1>3, <1>e, <1>l DEF TakeQISEND
<1>4. CASE m.tx[1] = "DATA" /\ TakeDATA(m.tx[2])
  <2>1. m.tx[2] \in Messages
    BY <1>1, <1>4 DEF Commands, None
  <2>2. <<"sent", m.tx[2]>> \in Deeds
    BY <2>1 DEF Deeds
  <2>. QED
    BY <1>1, <1>4, <1>e, <1>l, <2>2 DEF TakeDATA
<1>5. CASE m.tx[1] = "QICLOSE" /\ TakeQICLOSE
  BY <1>1, <1>5, <1>e, <1>l DEF TakeQICLOSE, Sockets, Deeds
<1>6. CASE Swallow
  BY <1>1, <1>6 DEF Swallow, bg96
<1>. QED
  BY <1>2, <1>3, <1>4, <1>5, <1>6 DEF Take

LEMMA ModemType ==
    ASSUME TypeOK, Modem, UNCHANGED caller
    PROVE  TypeOK'
<1>1. sock \in Sockets /\ data \in BOOLEAN /\ did \in Deeds /\ out \in Seq(Arrivals)
  BY DEF TypeOK
<1>e. ASSUME NEW w \in Seq(Arrivals), Emit(w) PROVE out' \in Seq(Arrivals)
  BY <1>1, <1>e, EmitType
<1>l. /\ <<Line("QIOPEN_OK")>> \in Seq(Arrivals) /\ <<Line("QIOPEN_ERR")>> \in Seq(Arrivals)
      /\ <<Line("JUNK")>> \in Seq(Arrivals)
  BY WrittenLines DEF Kinds
<1>2. sock' \in Sockets /\ data' \in BOOLEAN /\ did' \in Deeds /\ out' \in Seq(Arrivals)
  <2>1. CASE Opened
    <3>1. sock[2] \in Hosts
      BY <1>1, <2>1 DEF Opened, Sockets, Closed
    <3>2. <<"open", sock[2]>> \in Sockets /\ Closed \in Sockets /\ <<"opened", sock[2]>> \in Deeds
      BY <3>1 DEF Sockets, Deeds
    <3>3. out' \in Seq(Arrivals)
      BY <1>e, <1>l, <2>1 DEF Opened
    <3>. QED
      BY <1>1, <2>1, <3>2, <3>3 DEF Opened
  <2>2. ASSUME NEW d \in Datagrams, Push(d)
        PROVE  sock' \in Sockets /\ data' \in BOOLEAN /\ did' \in Deeds /\ out' \in Seq(Arrivals)
    BY <1>1, <1>e, <2>2, WrittenLines DEF Push
  <2>3. CASE NetworkLost
    BY <1>1, <1>e, <1>l, <2>3 DEF NetworkLost, Sockets
  <2>. QED
    BY <2>1, <2>2, <2>3 DEF Modem
<1>. QED
  BY <1>2 DEF TypeOK, caller

LEMMA FitsIs ==
    ASSUME TypeOK
    PROVE  /\ Fits(m) /\ m.rx \in Seq(Arrivals) /\ m.tx \in Commands /\ m.step \in {0, 1}
           /\ Len(m.rx) \in Nat
BY DEF TypeOK, Fits, ModemState

LEMMA BeginType ==
    ASSUME TypeOK, AskedFits, NEW r, NEW op, NEW what, Begin(r, op, what), r.res \in Int,
           \/ op = "CONNECT" /\ what \in {"opened"} \X Hosts
           \/ op = "SEND" /\ what \in {"sent"} \X Messages
           \/ op = "SHUTDOWN" /\ what = <<"closed">>
    PROVE  /\ ctx' \in [used : BOOLEAN, state : {"CLOSED", "CONNECTED", "SHUTDOWN"},
                        current_op : {"NONE", "CONNECT", "SEND", "SHUTDOWN"}]
           /\ asked' \in Deeds /\ did' \in Deeds
           /\ answered' \in BOOLEAN /\ orderly' \in BOOLEAN
           /\ AskedFits'
<1>1. /\ ctx \in [used : BOOLEAN, state : {"CLOSED", "CONNECTED", "SHUTDOWN"},
                  current_op : {"NONE", "CONNECT", "SEND", "SHUTDOWN"}]
      /\ asked \in Deeds /\ did \in Deeds /\ answered \in BOOLEAN /\ orderly \in BOOLEAN
  BY DEF TypeOK
<1>2. orderly' \in BOOLEAN
  <2>1. orderly' = (orderly /\ r.res = 0 /\ ctx.current_op = "NONE")
    BY Zenon DEF Begin
  <2>. QED
    BY <2>1
<1>3. CASE r.res # 0
  BY <1>1, <1>2, <1>3 DEF Begin, AskedFits
<1>4. CASE r.res = 0
  <2>1. /\ ctx' = [ctx EXCEPT !.current_op = op] /\ asked' = what /\ did' = None
        /\ answered' = ~AnswerOwed(r.m.rx, out')
    BY <1>4, Zenon DEF Begin
  <2>2. op \in {"NONE", "CONNECT", "SEND", "SHUTDOWN"} /\ what \in Deeds /\ None \in Deeds
    BY DEF Deeds
  <2>3. /\ ctx' \in [used : BOOLEAN, state : {"CLOSED", "CONNECTED", "SHUTDOWN"},
                     current_op : {"NONE", "CONNECT", "SEND", "SHUTDOWN"}]
        /\ ctx'.current_op = op
    BY <1>1, <2>1, <2>2
  <2>4. answered' \in BOOLEAN
    BY <2>1, Zenon
  <2>5. AskedFits'
    BY <2>1, <2>3 DEF AskedFits
  <2>. QED
    BY <1>2, <2>1, <2>2, <2>3, <2>4, <2>5
<1>. QED
  BY <1>3, <1>4

LEMMA StartedRes ==
    ASSUME NEW q, NEW r, NEW c, NEW rx, NEW n, Started(q, r, c, rx, n)
    PROVE  r.res \in Int /\ Fits(r.m)
BY DEF Started

LEMMA InitType == Init => TypeOK /\ AskedFits
<1>. SUFFICES ASSUME Init PROVE TypeOK /\ AskedFits
  OBVIOUS
<1>1. <<>> \in Seq(Arrivals) /\ <<>> \in Seq(Datagrams) /\ Len(<<>>) = 0
  OBVIOUS
<1>2. None \in Commands /\ None \in Deeds /\ Closed \in Sockets
  BY DEF Commands, Deeds, Sockets
<1>3. m \in [rx : Seq(Arrivals), tx : Commands, queue : Seq(Datagrams), step : {0, 1}]
  BY <1>1, <1>2 DEF Init
<1>4. m.queue = <<>> /\ Len(m.queue) <= RECV_QIURC_LENS_BUF_SIZE
  BY <1>1, ModemSocketAssumption DEF Init
<1>5. ctx.current_op = "NONE"
  BY DEF Init
<1>. QED
  BY <1>1, <1>2, <1>3, <1>4, <1>5 DEF Init, InitModem, TypeOK, AskedFits

(* The functions of net.c keep the types. *)
LEMMA ShutdownInitType ==
    ASSUME TypeOK, AskedFits, ShutdownInit, done' \in {"none"}
    PROVE  TypeOK' /\ AskedFits'
<1>1. PICK r : r = modem_socket_close_init(m)
  OBVIOUS
<1>2. Fits(r.m) /\ r.res \in Int
  BY <1>1, FitsIs, CloseInit, StartedRes
<1>3. /\ m' = r.m /\ Begin(r, "SHUTDOWN", <<"closed">>) /\ Flushed /\ UNCHANGED <<sock, data>>
  BY <1>1 DEF ShutdownInit
<1>4. out' \in Seq(Arrivals)
  BY <1>3, FlushedType DEF TypeOK
<1>. QED
  BY <1>2, <1>3, <1>4, BeginType DEF TypeOK, Fits, ModemState

LEMMA ShutdownContinueType ==
    ASSUME TypeOK, AskedFits, NEW used \in BOOLEAN, ShutdownContinue(used)
    PROVE  TypeOK' /\ AskedFits'
<1>1. PICK r : r = modem_socket_close_continue(m)
  OBVIOUS
<1>2. Fits(r.m) /\ r.res \in Int
  BY <1>1, FitsIs, CloseContinue
<1>3. /\ m' = r.m /\ UNCHANGED <<asked, answered, sock, data, out, did>>
      /\ ctx' = IF r.res > 0 THEN ctx
                ELSE [used |-> used, state |-> "SHUTDOWN", current_op |-> "NONE"]
      /\ done' = IF r.res = 0 THEN "shutdown" ELSE "none"
      /\ orderly' = (orderly /\ r.res >= 0)
  BY <1>1, Zenon DEF ShutdownContinue, bg96
<1>4. orderly' \in BOOLEAN
  BY <1>3, Zenon
<1>5. done' \in {"none", "connect", "send", "shutdown", "close"}
  BY <1>3
<1>. QED
  BY <1>2, <1>3, <1>4, <1>5 DEF TypeOK, Fits, ModemState, AskedFits

LEMMA ConnectType ==
    ASSUME TypeOK, AskedFits, (\E h \in Hosts : net_connect_init(h)) \/ net_connect_continue
    PROVE  TypeOK' /\ AskedFits'
<1>1. ASSUME NEW h \in Hosts, net_connect_init(h)
      PROVE  TypeOK' /\ AskedFits'
  <2>1. PICK r : r = modem_socket_open_init(m, h)
    OBVIOUS
  <2>2. Fits(r.m) /\ r.res \in Int
    BY <2>1, FitsIs, OpenInit, StartedRes
  <2>3. /\ m' = r.m /\ Begin(r, "CONNECT", <<"opened", h>>) /\ Flushed /\ done' = "none"
        /\ UNCHANGED <<sock, data>>
    BY <1>1, <2>1 DEF net_connect_init
  <2>4. out' \in Seq(Arrivals)
    BY <2>3, FlushedType DEF TypeOK
  <2>. QED
    BY <2>2, <2>3, <2>4, BeginType DEF TypeOK, Fits, ModemState
<1>2. CASE net_connect_continue
  <2>1. PICK r : r = modem_socket_open_continue(m)
    OBVIOUS
  <2>2. Fits(r.m) /\ r.res \in {-1, 0, 1}
    BY <2>1, FitsIs, OpenContinue
  <2>3. /\ m' = r.m /\ UNCHANGED <<asked, answered, sock, data, out, did>>
        /\ ctx' = CASE r.res > 0 -> ctx
                    [] r.res < 0 -> [ctx EXCEPT !.current_op = "NONE"]
                    [] r.res = 0 -> [ctx EXCEPT !.current_op = "NONE", !.state = "CONNECTED"]
        /\ done' = IF r.res = 0 THEN "connect" ELSE "none"
        /\ orderly' = (orderly /\ r.res >= 0)
    BY <1>2, <2>1, Zenon DEF net_connect_continue, bg96
  <2>4. orderly' \in BOOLEAN
    BY <2>3, Zenon
  <2>5. done' \in {"none", "connect", "send", "shutdown", "close"}
    BY <2>3
  <2>6. /\ ctx' \in [used : BOOLEAN, state : {"CLOSED", "CONNECTED", "SHUTDOWN"},
                     current_op : {"NONE", "CONNECT", "SEND", "SHUTDOWN"}]
        /\ ctx'.current_op \in {ctx.current_op, "NONE"}
    <3>1. \/ ctx' = ctx \/ ctx' = [ctx EXCEPT !.current_op = "NONE"]
          \/ ctx' = [ctx EXCEPT !.current_op = "NONE", !.state = "CONNECTED"]
      <4>1. CASE r.res = 1
        BY <2>3, <4>1
      <4>2. CASE r.res = 0
        BY <2>3, <4>2
      <4>3. CASE r.res = -1
        BY <2>3, <4>3
      <4>. QED
        BY <2>2, <4>1, <4>2, <4>3
    <3>. QED
      BY <3>1 DEF TypeOK
  <2>. QED
    BY <2>2, <2>3, <2>4, <2>5, <2>6 DEF TypeOK, Fits, ModemState, AskedFits
<1>. QED
  BY <1>1, <1>2

LEMMA SendType ==
    ASSUME TypeOK, AskedFits, (\E b \in Messages : net_send_init(b)) \/ net_send_continue
    PROVE  TypeOK' /\ AskedFits'
<1>1. ASSUME NEW b \in Messages, net_send_init(b)
      PROVE  TypeOK' /\ AskedFits'
  <2>1. PICK r : r = modem_socket_send_init(m, b)
    OBVIOUS
  <2>2. Fits(r.m) /\ r.res \in Int
    BY <2>1, FitsIs, SendInit, StartedRes
  <2>3. /\ m' = r.m /\ Begin(r, "SEND", <<"sent", b>>) /\ done' = "none"
        /\ UNCHANGED <<out, sock, data>>
    BY <1>1, <2>1 DEF net_send_init
  <2>. QED
    BY <2>2, <2>3, BeginType DEF TypeOK, Fits, ModemState
<1>2. CASE net_send_continue
  <2>1. PICK r : r = modem_socket_send_continue(m, asked[2])
    OBVIOUS
  <2>0. asked[2] \in Messages
    BY <1>2 DEF net_send_continue, AskedFits
  <2>2. Fits(r.m) /\ r.res \in {-1, 0, 1}
    BY <2>0, <2>1, FitsIs, PromptAwaited, ResultAwaited DEF modem_socket_send_continue
  <2>3. /\ m' = r.m /\ UNCHANGED <<asked, answered, sock, data, out, did>>
        /\ ctx' = IF r.res > 0 THEN ctx ELSE [ctx EXCEPT !.current_op = "NONE"]
        /\ done' = IF r.res = 0 THEN "send" ELSE "none"
        /\ orderly' = (orderly /\ r.res >= 0)
    BY <1>2, <2>1, Zenon DEF net_send_continue, bg96
  <2>4. orderly' \in BOOLEAN
    BY <2>3, Zenon
  <2>5. done' \in {"none", "connect", "send", "shutdown", "close"}
    BY <2>3
  <2>6. /\ ctx' \in [used : BOOLEAN, state : {"CLOSED", "CONNECTED", "SHUTDOWN"},
                     current_op : {"NONE", "CONNECT", "SEND", "SHUTDOWN"}]
        /\ ctx'.current_op \in {ctx.current_op, "NONE"}
    BY <2>2, <2>3 DEF TypeOK
  <2>. QED
    BY <2>2, <2>3, <2>4, <2>5, <2>6 DEF TypeOK, Fits, ModemState, AskedFits
<1>. QED
  BY <1>1, <1>2

LEMMA CleanupType ==
    ASSUME TypeOK, AskedFits, net_cleanup_ctx
    PROVE  TypeOK' /\ AskedFits'
<1>1. CASE ShutdownInit /\ done' = "none"
  BY <1>1, ShutdownInitType
<1>2. CASE ShutdownContinue(FALSE)
  BY <1>2, ShutdownContinueType
<1>3. CASE /\ ctx' = [ctx EXCEPT !.state = "CLOSED", !.used = FALSE]
           /\ done' = "close"
           /\ orderly' = (orderly /\ ctx.current_op = "NONE")
           /\ UNCHANGED <<m, asked, answered, bg96>>
  <2>1. orderly' \in BOOLEAN
    BY <1>3, Zenon
  <2>. QED
    BY <1>3, <2>1 DEF TypeOK, AskedFits, bg96
<1>4. CASE /\ Flushed
           /\ m' = modem_socket_close_init(m).m
           /\ ctx' = [ctx EXCEPT !.used = FALSE]
           /\ done' = "none" /\ orderly' = FALSE
           /\ UNCHANGED <<asked, answered, sock, data, did>>
  <2>1. Fits(m')
    BY <1>4, FitsIs, CloseInit, StartedRes
  <2>2. out' \in Seq(Arrivals)
    BY <1>4, FlushedType DEF TypeOK
  <2>. QED
    BY <1>4, <2>1, <2>2 DEF TypeOK, AskedFits, Fits, ModemState
<1>. QED
  BY <1>1, <1>2, <1>3, <1>4 DEF net_cleanup_ctx

LEMMA NextType == TypeOK /\ AskedFits /\ [Next]_vars => TypeOK' /\ AskedFits'
<1>. SUFFICES ASSUME TypeOK, AskedFits, [Next]_vars PROVE TypeOK' /\ AskedFits'
  OBVIOUS
<1>1. CASE Deliver
  <2>1. /\ Append(m.rx, Head(out)) \in Seq(Arrivals) /\ Tail(out) \in Seq(Arrivals)
    BY <1>1, FitsIs DEF Deliver, TypeOK
  <2>2. PICK a \in Seq(Arrivals) : a = Append(m.rx, Head(out))
    BY <2>1
  <2>3. m' = [m EXCEPT !.rx = a] /\ out' = Tail(out)
    BY <1>1, <2>2 DEF Deliver
  <2>. QED
    BY <1>1, <2>1, <2>3 DEF Deliver, TypeOK, AskedFits
<1>2. CASE Transmitted
  <2>1. sock' \in Sockets /\ data' \in BOOLEAN /\ did' \in Deeds /\ out' \in Seq(Arrivals)
    BY <1>2, TakeType DEF Transmitted
  <2>2. None \in Commands
    BY DEF Commands
  <2>. QED
    BY <1>2, <2>1, <2>2 DEF Transmitted, TypeOK, AskedFits
<1>3. CASE Modem /\ UNCHANGED caller
  BY <1>3, ModemType DEF AskedFits, caller
<1>4. CASE net_create_ctx
  BY <1>4 DEF net_create_ctx, TypeOK, AskedFits, bg96
<1>5. CASE (\E h \in Hosts : net_connect_init(h)) \/ net_connect_continue
  BY <1>5, ConnectType
<1>6. CASE (\E b \in Messages : net_send_init(b)) \/ net_send_continue
  BY <1>6, SendType
<1>7. CASE net_recv
  <2>1. Fits(m')
    BY <1>7, FitsIs, RecvTakes DEF net_recv
  <2>. QED
    BY <1>7, <2>1 DEF net_recv, TypeOK, AskedFits, Fits, ModemState, bg96
<1>8. CASE net_shutdown
  BY <1>8, ShutdownInitType, ShutdownContinueType DEF net_shutdown
<1>9. CASE net_close
  BY <1>9 DEF net_close, TypeOK, AskedFits, bg96
<1>10. CASE net_cleanup_ctx
  BY <1>10, CleanupType
<1>11. CASE UNCHANGED vars
  BY <1>11 DEF vars, TypeOK, AskedFits
<1>. QED
  BY <1>1, <1>2, <1>3, <1>4, <1>5, <1>6, <1>7, <1>8, <1>9, <1>10, <1>11 DEF Next, Interrupts

LEMMA TypesHold == Spec => [](TypeOK /\ AskedFits)
<1>1. Init => TypeOK /\ AskedFits
  BY InitType
<1>2. TypeOK /\ AskedFits /\ [Next]_vars => TypeOK' /\ AskedFits'
  BY NextType
<1>. QED
  BY <1>1, <1>2, PTL DEF Spec

(* The state of the network layer, of the modem driver and of the modem is *)
(* always of its type; no more datagrams wait than have room for a length. *)
THEOREM TypeCorrect == Spec => []TypeOK
<1>1. TypeOK /\ AskedFits => TypeOK
  OBVIOUS
<1>. QED
  BY <1>1, TypesHold, PTL

-----------------------------------------------------------------------------
(* How each operation goes on. *)
LEMMA LinesType == TypeOK => Lines \in Seq(Arrivals)
BY DEF TypeOK, Lines

LEMMA PartKeeps ==
    ASSUME TypeOK, TypeOK', NEW n \in Nat, IsPart(Lines', Lines, n), m'.tx = m.tx,
           UNCHANGED <<asked, data, sock, did>>
    PROVE  /\ Connecting => Connecting'
           /\ AwaitingPrompt => AwaitingPrompt'
           /\ Sending => Sending'
           /\ Closing => Closing'
           /\ Quiet => Quiet'
<1>1. Lines \in Seq(Arrivals) /\ Lines' \in Seq(Arrivals)
  BY DEF TypeOK, Lines
<1>2. \A kinds : Only(Lines, kinds) => Only(Lines', kinds)
  BY <1>1, PartOnly
<1>3. \A first, second : Follows(Lines, first, second) => Follows(Lines', first, second)
  BY <1>1, PartFollows
<1>4. Connecting => Connecting'
  BY <1>2, <1>3 DEF Connecting, Silent
<1>5. AwaitingPrompt => AwaitingPrompt'
  BY <1>2, <1>3 DEF AwaitingPrompt, Silent
<1>6. Sending => Sending'
  BY <1>2, <1>3 DEF Sending, Silent
<1>7. Closing => Closing'
  BY <1>2, <1>3 DEF Closing, Silent
<1>8. Quiet => Quiet'
  BY <1>2 DEF Quiet, Silent
<1>. QED
  BY <1>4, <1>5, <1>6, <1>7, <1>8

LEMMA WrittenKinds ==
    /\ \A k \in Kinds : /\ Only(<<Line(k)>>, {k})
                        /\ \A first, second : Follows(<<Line(k)>>, first, second)
    /\ Silent(<<Line("JUNK")>>)
    /\ \A d \in Datagrams : Silent(<< <<"HDR", d>>, <<"PAY", d>> >>)
    /\ Only(<<Line("PROMPT"), Line("SPACE")>>, {"PROMPT", "SPACE"})
    /\ Follows(<<Line("PROMPT"), Line("SPACE")>>, {"PROMPT"}, {"SPACE"})
<1>1. ASSUME NEW k \in Kinds
      PROVE  Only(<<Line(k)>>, {k}) /\ \A first, second : Follows(<<Line(k)>>, first, second)
  BY DEF Only, Follows, Line
<1>2. Silent(<<Line("JUNK")>>)
  BY DEF Silent, Only, Line, Answers
<1>3. ASSUME NEW d \in Datagrams
      PROVE  Silent(<< <<"HDR", d>>, <<"PAY", d>> >>)
  BY DEF Silent, Only, Line, Answers
<1>4. Only(<<Line("PROMPT"), Line("SPACE")>>, {"PROMPT", "SPACE"})
  BY DEF Only, Line
<1>5. Follows(<<Line("PROMPT"), Line("SPACE")>>, {"PROMPT"}, {"SPACE"})
  BY DEF Follows, Line
<1>. QED
  BY <1>1, <1>2, <1>3, <1>4, <1>5

(* What is written next to the lines. *)
LEMMA EmitLines ==
    ASSUME TypeOK, NEW w \in Seq(Arrivals), Emit(w), m'.rx = m.rx
    PROVE  /\ \A kinds : Only(Lines, kinds) /\ Only(w, kinds) => Only(Lines', kinds)
           /\ \A first, second :
                /\ Follows(Lines, first, second) /\ Follows(w, first, second)
                /\ Silent(Lines) \/ Silent(w) \/ (Only(Lines, first) /\ Only(w, second))
                => Follows(Lines', first, second)
<1>1. m.rx \in Seq(Arrivals) /\ out \in Seq(Arrivals) /\ Lines' = m.rx \o (out \o w)
  BY EmitType DEF TypeOK, Lines
<1>. QED
  BY <1>1, WrittenOnly, WrittenFollows DEF Lines

LEMMA ConnectTaken ==
    ASSUME TypeOK, Connecting, asked \in {"opened"} \X Hosts, Transmitted
    PROVE  Connecting'
<1>1. /\ m.tx = <<"QIOPEN", asked[2]>> /\ Silent(Lines) /\ sock[1] # "opening" /\ ~data
      /\ Only(Lines, {"OK", "ERROR", "QIOPEN_ERR"})
  BY OnlyMore DEF Connecting, Transmitted, Silent
<1>2. TakeQIOPEN(asked[2])
  BY <1>1 DEF Transmitted, Take, Swallow
<1>3. m'.rx = m.rx /\ m'.tx = None /\ UNCHANGED <<asked, data, did>>
  BY <1>2 DEF Transmitted, TakeQIOPEN, TypeOK
<1>4. ASSUME NEW k \in {"OK", "ERROR"}, Emit(<<Line(k)>>)
      PROVE  /\ Only(Lines', {k})
             /\ Follows(Lines', {"OK"}, {"QIOPEN_OK", "QIOPEN_ERR"})
  <2>1. /\ <<Line(k)>> \in Seq(Arrivals) /\ Only(<<Line(k)>>, {k})
        /\ Follows(<<Line(k)>>, {"OK"}, {"QIOPEN_OK", "QIOPEN_ERR"})
    BY WrittenLines, WrittenKinds DEF Kinds
  <2>2. Only(Lines, {k}) /\ Follows(Lines, {"OK"}, {"QIOPEN_OK", "QIOPEN_ERR"})
    BY <1>1, OnlyMore, SilentFollows DEF Silent
  <2>. QED
    BY <1>1, <1>3, <1>4, <2>1, <2>2, EmitLines
<1>5. CASE sock = Closed /\ sock' = <<"opening", asked[2]>> /\ Emit(<<Line("OK")>>)
  <2>1. Only(Lines', {"OK"}) /\ Follows(Lines', {"OK"}, {"QIOPEN_OK", "QIOPEN_ERR"})
    BY <1>4, <1>5
  <2>2. /\ Only(Lines', {"OK", "ERROR", "QIOPEN_OK", "QIOPEN_ERR"})
        /\ Only(Lines', {"OK", "ERROR", "QIOPEN_ERR"})
    BY <2>1, OnlyMore
  <2>. QED
    BY <1>1, <1>3, <1>5, <2>1, <2>2 DEF Connecting
<1>6. CASE Emit(<<Line("ERROR")>>) /\ UNCHANGED sock
  <2>1. Only(Lines', {"ERROR"}) /\ Follows(Lines', {"OK"}, {"QIOPEN_OK", "QIOPEN_ERR"})
    BY <1>4, <1>6
  <2>2. /\ Only(Lines', {"OK", "ERROR", "QIOPEN_OK", "QIOPEN_ERR"})
        /\ Only(Lines', {"OK", "ERROR", "QIOPEN_ERR"})
    BY <2>1, OnlyMore
  <2>. QED
    BY <1>1, <1>3, <1>6, <2>1, <2>2 DEF Connecting
<1>. QED
  BY <1>2, <1>5, <1>6 DEF TakeQIOPEN

LEMMA PromptTaken ==
    ASSUME TypeOK, AwaitingPrompt, asked \in {"sent"} \X Messages, Transmitted
    PROVE  AwaitingPrompt'
<1>1. m.tx = <<"QISEND", asked[2]>> /\ Silent(Lines) /\ ~data /\ sock[1] # "opening"
  BY DEF AwaitingPrompt, Transmitted
<1>2. TakeQISEND
  BY <1>1 DEF Transmitted, Take, Swallow
<1>3. m'.rx = m.rx /\ m'.tx = None /\ UNCHANGED <<asked, sock, did>>
  BY <1>2 DEF Transmitted, TakeQISEND, TypeOK
<1>4. ASSUME NEW w \in Seq(Arrivals), Emit(w), NEW kinds, Only(w, kinds),
             Follows(w, {"PROMPT"}, {"SPACE"})
      PROVE  Only(Lines', kinds) /\ Follows(Lines', {"PROMPT"}, {"SPACE"})
  <2>2. Only(Lines, kinds) /\ Follows(Lines, {"PROMPT"}, {"SPACE"})
    BY <1>1, OnlyMore, SilentFollows DEF Silent
  <2>. QED
    BY <1>1, <1>3, <1>4, <2>2, EmitLines
<1>5. CASE data' = TRUE /\ Emit(<<Line("PROMPT")>>)
  <2>1. /\ <<Line("PROMPT")>> \in Seq(Arrivals) /\ Only(<<Line("PROMPT")>>, {"PROMPT"})
        /\ Follows(<<Line("PROMPT")>>, {"PROMPT"}, {"SPACE"})
    BY WrittenLines, WrittenKinds DEF Kinds
  <2>2. Only(Lines', {"PROMPT"}) /\ Follows(Lines', {"PROMPT"}, {"SPACE"})
    BY <1>4, <1>5, <2>1
  <2>3. Only(Lines', {"PROMPT", "SPACE", "ERROR"})
    BY <2>2, OnlyMore
  <2>. QED
    BY <1>1, <1>3, <1>5, <2>2, <2>3 DEF AwaitingPrompt
<1>6. CASE data' = TRUE /\ Emit(<<Line("PROMPT"), Line("SPACE")>>)
  <2>1. /\ <<Line("PROMPT"), Line("SPACE")>> \in Seq(Arrivals)
        /\ Only(<<Line("PROMPT"), Line("SPACE")>>, {"PROMPT", "SPACE"})
        /\ Follows(<<Line("PROMPT"), Line("SPACE")>>, {"PROMPT"}, {"SPACE"})
    BY WrittenLines, WrittenKinds
  <2>2. Only(Lines', {"PROMPT", "SPACE"}) /\ Follows(Lines', {"PROMPT"}, {"SPACE"})
    BY <1>4, <1>6, <2>1
  <2>3. Only(Lines', {"PROMPT", "SPACE", "ERROR"})
    BY <2>2, OnlyMore
  <2>. QED
    BY <1>1, <1>3, <1>6, <2>2, <2>3 DEF AwaitingPrompt
<1>7. CASE Emit(<<Line("ERROR")>>) /\ UNCHANGED data
  <2>1. /\ <<Line("ERROR")>> \in Seq(Arrivals) /\ Only(<<Line("ERROR")>>, {"ERROR"})
        /\ Follows(<<Line("ERROR")>>, {"PROMPT"}, {"SPACE"})
    BY WrittenLines, WrittenKinds DEF Kinds
  <2>2. Only(Lines', {"ERROR"}) /\ Follows(Lines', {"PROMPT"}, {"SPACE"})
    BY <1>4, <1>7, <2>1
  <2>3. Only(Lines', {"PROMPT", "SPACE", "ERROR"})
    BY <2>2, OnlyMore
  <2>. QED
    BY <1>1, <1>3, <1>7, <2>2, <2>3 DEF AwaitingPrompt
<1>. QED
  BY <1>2, <1>5, <1>6, <1>7 DEF TakeQISEND

LEMMA DataTaken ==
    ASSUME TypeOK, Sending, asked \in {"sent"} \X Messages, Transmitted
    PROVE  Sending'
<1>1. /\ m.tx = <<"DATA", asked[2]>> /\ Only(Lines, {"SPACE"}) /\ sock[1] # "opening" /\ data
      /\ Follows(Lines, {"SPACE"}, {"SEND_OK", "SEND_FAIL"})
  BY DEF Sending, Transmitted
<1>a. asked = <<"sent", asked[2]>>
  OBVIOUS
<1>2. TakeDATA(asked[2])
  BY <1>1 DEF Transmitted, Take
<1>3. m'.rx = m.rx /\ m'.tx = None /\ ~data' /\ UNCHANGED <<asked, sock>>
  BY <1>2 DEF Transmitted, TakeDATA, TypeOK
<1>4. ASSUME NEW k \in {"SEND_OK", "SEND_FAIL"}, Emit(<<Line(k)>>)
      PROVE  /\ Only(Lines', {"SPACE", k})
             /\ Follows(Lines', {"SPACE"}, {"SEND_OK", "SEND_FAIL"})
  <2>1. /\ <<Line(k)>> \in Seq(Arrivals) /\ Only(<<Line(k)>>, {k})
        /\ Follows(<<Line(k)>>, {"SPACE"}, {"SEND_OK", "SEND_FAIL"})
    BY WrittenLines, WrittenKinds DEF Kinds
  <2>2. /\ Only(Lines, {"SPACE", k}) /\ Only(<<Line(k)>>, {"SPACE", k})
        /\ Only(<<Line(k)>>, {"SEND_OK", "SEND_FAIL"})
    BY <1>1, <2>1, OnlyMore
  <2>. QED
    BY <1>1, <1>3, <1>4, <2>1, <2>2, EmitLines
<1>5. CASE Emit(<<Line("SEND_OK")>>) /\ did' = asked
  <2>1. Only(Lines', {"SPACE", "SEND_OK"}) /\ Follows(Lines', {"SPACE"}, {"SEND_OK", "SEND_FAIL"})
    BY <1>4, <1>5
  <2>2. Only(Lines', {"SPACE", "SEND_OK", "SEND_FAIL"})
    BY <2>1, OnlyMore
  <2>. QED
    BY <1>1, <1>3, <1>5, <2>1, <2>2 DEF Sending
<1>6. CASE Emit(<<Line("SEND_FAIL")>>) /\ UNCHANGED did
  <2>1. Only(Lines', {"SPACE", "SEND_FAIL"}) /\ Follows(Lines', {"SPACE"}, {"SEND_OK", "SEND_FAIL"})
    BY <1>4, <1>6
  <2>2. Only(Lines', {"SPACE", "SEND_OK", "SEND_FAIL"})
    BY <2>1, OnlyMore
  <2>. QED
    BY <1>1, <1>3, <1>6, <2>1, <2>2 DEF Sending
<1>. QED
  BY <1>1, <1>2, <1>a, <1>5, <1>6 DEF TakeDATA

LEMMA CloseTaken ==
    ASSUME TypeOK, Closing, asked = <<"closed">>, Transmitted
    PROVE  Closing'
<1>1. m.tx = <<"QICLOSE">> /\ Silent(Lines) /\ ~data
  BY DEF Closing, Transmitted
<1>2. TakeQICLOSE
  BY <1>1 DEF Transmitted, Take, Swallow
<1>3. /\ m'.rx = m.rx /\ m'.tx = None /\ UNCHANGED <<asked, data>>
      /\ sock' = Closed /\ did' = asked /\ sock'[1] # "opening"
  BY <1>2 DEF Transmitted, TakeQICLOSE, TypeOK, Closed
<1>4. ASSUME NEW k \in {"OK", "ERROR"}, Emit(<<Line(k)>>)
      PROVE  Only(Lines', {"OK", "ERROR"}) /\ Follows(Lines', {}, {})
  <2>1. <<Line(k)>> \in Seq(Arrivals) /\ Only(<<Line(k)>>, {k}) /\ Follows(<<Line(k)>>, {}, {})
    BY WrittenLines, WrittenKinds DEF Kinds
  <2>2. /\ Only(Lines, {"OK", "ERROR"}) /\ Follows(Lines, {}, {})
        /\ Only(<<Line(k)>>, {"OK", "ERROR"})
    BY <1>1, <2>1, OnlyMore, SilentFollows DEF Silent
  <2>. QED
    BY <1>1, <1>3, <1>4, <2>1, <2>2, EmitLines
<1>5. Only(Lines', {"OK", "ERROR"}) /\ Follows(Lines', {}, {})
  BY <1>2, <1>4 DEF TakeQICLOSE
<1>. QED
  BY <1>1, <1>3, <1>5 DEF Closing

LEMMA ModemKeeps ==
    ASSUME TypeOK, Modem, UNCHANGED caller
    PROVE  /\ Connecting /\ asked \in {"opened"} \X Hosts => Connecting'
           /\ AwaitingPrompt => AwaitingPrompt'
           /\ Sending => Sending'
           /\ Closing => Closing'
           /\ Quiet => Quiet'
<1>0. m' = m /\ asked' = asked
  BY DEF caller
<1>1. CASE Opened
  <2>1. sock[1] = "opening" /\ UNCHANGED data
    BY <1>1 DEF Opened
  <2>2. ASSUME Connecting, asked \in {"opened"} \X Hosts PROVE Connecting'
    <3>1. /\ sock[2] = asked[2] /\ Only(Lines, {"OK"}) /\ m.tx = None /\ ~data
          /\ Follows(Lines, {"OK"}, {"QIOPEN_OK", "QIOPEN_ERR"})
      BY <2>1, <2>2 DEF Connecting
    <3>2. asked = <<"opened", asked[2]>>
      BY <2>2
    <3>3. ASSUME NEW k \in {"QIOPEN_OK", "QIOPEN_ERR"}, Emit(<<Line(k)>>)
          PROVE  /\ Only(Lines', {"OK", k})
                 /\ Follows(Lines', {"OK"}, {"QIOPEN_OK", "QIOPEN_ERR"})
      <4>1. /\ <<Line(k)>> \in Seq(Arrivals) /\ Only(<<Line(k)>>, {k})
            /\ Follows(<<Line(k)>>, {"OK"}, {"QIOPEN_OK", "QIOPEN_ERR"})
        BY WrittenLines, WrittenKinds DEF Kinds
      <4>2. /\ Only(Lines, {"OK", k}) /\ Only(<<Line(k)>>, {"OK", k})
            /\ Only(<<Line(k)>>, {"QIOPEN_OK", "QIOPEN_ERR"})
        BY <3>1, <4>1, OnlyMore
      <4>. QED
        BY <1>0, <3>1, <3>3, <4>1, <4>2, EmitLines
    <3>4. CASE Emit(<<Line("QIOPEN_OK")>>) /\ sock'[1] # "opening" /\ did' = asked
      <4>1. /\ Only(Lines', {"OK", "QIOPEN_OK"})
            /\ Follows(Lines', {"OK"}, {"QIOPEN_OK", "QIOPEN_ERR"})
        BY <3>3, <3>4
      <4>2. Only(Lines', {"OK", "ERROR", "QIOPEN_OK", "QIOPEN_ERR"})
        BY <4>1, OnlyMore
      <4>. QED
        BY <1>0, <2>1, <3>1, <3>4, <4>1, <4>2 DEF Connecting
    <3>5. CASE Emit(<<Line("QIOPEN_ERR")>>) /\ sock'[1] # "opening"
      <4>1. /\ Only(Lines', {"OK", "QIOPEN_ERR"})
            /\ Follows(Lines', {"OK"}, {"QIOPEN_OK", "QIOPEN_ERR"})
        BY <3>3, <3>5
      <4>2. /\ Only(Lines', {"OK", "ERROR", "QIOPEN_OK", "QIOPEN_ERR"})
            /\ Only(Lines', {"OK", "ERROR", "QIOPEN_ERR"})
        BY <4>1, OnlyMore
      <4>. QED
        BY <1>0, <2>1, <3>1, <3>5, <4>1, <4>2 DEF Connecting
    <3>. QED
      BY <1>1, <3>1, <3>2, <3>4, <3>5 DEF Opened, Closed
  <2>. QED
    BY <2>1, <2>2 DEF AwaitingPrompt, Sending, Closing, Quiet
<1>2. ASSUME NEW w \in Seq(Arrivals), Silent(w), Emit(w), UNCHANGED <<data, did>>,
             sock[1] = "open", sock' \in {sock, Closed}
      PROVE  /\ Connecting => Connecting'
             /\ AwaitingPrompt => AwaitingPrompt'
             /\ Sending => Sending'
             /\ Closing => Closing'
             /\ Quiet => Quiet'
  <2>1. \A kinds : Only(Lines, kinds) => Only(Lines', kinds)
    <3>1. \A kinds : Only(w, kinds)
      BY <1>2, OnlyMore DEF Silent
    <3>. QED
      BY <1>0, <1>2, <3>1, EmitLines
  <2>2. \A first, second : Follows(Lines, first, second) => Follows(Lines', first, second)
    <3>1. \A first, second : Follows(w, first, second)
      BY <1>2, SilentFollows
    <3>. QED
      BY <1>0, <1>2, <3>1, EmitLines
  <2>3. m' = m /\ asked' = asked /\ data' = data /\ did' = did /\ sock'[1] # "opening"
    BY <1>0, <1>2 DEF Closed
  <2>4. Connecting => Connecting'
    BY <1>2, <2>1, <2>2, <2>3 DEF Connecting, Silent
  <2>5. AwaitingPrompt => AwaitingPrompt'
    BY <2>1, <2>2, <2>3 DEF AwaitingPrompt, Silent
  <2>6. Sending => Sending'
    BY <2>1, <2>2, <2>3 DEF Sending, Silent
  <2>7. Closing => Closing'
    BY <1>2, <2>1, <2>2, <2>3 DEF Closing, Silent, Closed
  <2>8. Quiet => Quiet'
    BY <2>1, <2>3 DEF Quiet, Silent
  <2>. QED
    BY <2>4, <2>5, <2>6, <2>7, <2>8
<1>3. CASE \E d \in Datagrams : Push(d)
  <2>1. PICK d \in Datagrams : Push(d)
    BY <1>3
  <2>. QED
    BY <1>2, <2>1, WrittenLines, WrittenKinds DEF Push
<1>4. CASE NetworkLost
  <2>1. <<Line("JUNK")>> \in Seq(Arrivals) /\ Silent(<<Line("JUNK")>>)
    BY WrittenLines, WrittenKinds
  <2>. QED
    BY <1>2, <1>4, <2>1 DEF NetworkLost
<1>. QED
  BY <1>1, <1>3, <1>4 DEF Modem

(* A flush before an operation that cannot begin takes nothing that the    *)
(* one in progress needs.                                                  *)
LEMMA FailedFlush ==
    ASSUME TypeOK, TypeOK', AskedFits, Exchange, m.tx # None, Flushed,
           m'.rx = <<>>, m'.tx = m.tx, m'.step = m.step, ctx'.current_op = ctx.current_op,
           UNCHANGED <<asked, data, sock, did>>
    PROVE  Exchange'
<1>1. ASSUME Only(Lines, {"SPACE"})
      PROVE  /\ Connecting => Connecting'
             /\ AwaitingPrompt => AwaitingPrompt'
             /\ Sending => Sending'
             /\ Closing => Closing'
  <2>1. Only(m.rx \o out, Kinds \ {"SEND_OK"})
    BY <1>1, OnlyMore DEF Lines, Kinds
  <2>2. Lines' = <<>> \o out' /\ Lines = m.rx \o out /\ m.rx \in Seq(Arrivals) /\ out \in Seq(Arrivals)
    BY DEF Lines, TypeOK
  <2>3. IsPart(<<>> \o out', m.rx \o out, Len(m.rx))
    BY <2>1, <2>2, FlushedPart
  <2>5. Len(m.rx) \in Nat
    BY <2>2
  <2>4. IsPart(Lines', Lines, Len(m.rx))
    BY <2>2, <2>3
  <2>. QED
    BY <2>4, <2>5, PartKeeps
<1>2. /\ Connecting \/ AwaitingPrompt \/ Closing => Only(Lines, {"SPACE"})
      /\ Sending => Only(Lines, {"SPACE"})
  BY OnlyMore DEF Connecting, AwaitingPrompt, Sending, Closing, Silent
<1>3. /\ Connecting => Connecting'
      /\ AwaitingPrompt => AwaitingPrompt'
      /\ Sending => Sending'
      /\ Closing => Closing'
  BY <1>1, <1>2
<1>. QED
  BY <1>3, Zenon DEF Exchange

-----------------------------------------------------------------------------
(* The steps of net.c and of the interrupts. *)
Reported == done \in {"connect", "send", "shutdown"}

LEMMA BeginInStep ==
    ASSUME TypeOK, TypeOK', AskedFits, InStep, ctx.used,
           NEW r, NEW op, NEW what, NEW c, NEW rx, NEW n,
           Started(m, r, c, rx, n), m' = r.m, Begin(r, op, what),
           done' = "none", UNCHANGED <<sock, data>>,
           \/ rx = <<>> /\ Flushed
           \/ rx = m.rx /\ UNCHANGED out /\ ctx.current_op = "NONE",
           \/ op = "CONNECT" /\ c = <<"QIOPEN", what[2]>>
           \/ op = "SEND" /\ c = <<"QISEND", what[2]>> /\ n = 0
           \/ op = "SHUTDOWN" /\ c = <<"QICLOSE">>
    PROVE  InStep'
<1>0. /\ m'.rx = rx /\ (m.tx # None => r.res = -1 /\ m'.tx = m.tx /\ m'.step = m.step)
      /\ (m.tx = None => r.res = 0 /\ m'.tx = c /\ m'.step = n)
  BY DEF Started
<1>a. orderly' = (orderly /\ r.res = 0 /\ ctx.current_op = "NONE")
  BY Zenon DEF Begin
<1>1. CASE m.tx # None
  <2>0. r.res # 0
    BY <1>0, <1>1
  <2>1. ~orderly' /\ UNCHANGED <<ctx, asked, answered, did>>
    BY <1>a, <2>0, Zenon DEF Begin
  <2>2. answered' => Exchange'
    <3>1. CASE rx = <<>> /\ Flushed
      BY <1>0, <1>1, <2>1, <3>1, FailedFlush DEF InStep
    <3>2. CASE ctx.current_op = "NONE"
      BY <2>1, <3>2 DEF Exchange
    <3>. QED
      BY <3>1, <3>2
  <2>3. PayloadOnlyInDataMode'
    BY <1>0, <1>1, <2>1 DEF InStep, PayloadOnlyInDataMode
  <2>. QED
    BY <2>1, <2>2, <2>3 DEF InStep
<1>2. CASE m.tx = None
  <2>1. /\ ctx' = [ctx EXCEPT !.current_op = op] /\ asked' = what
        /\ answered' = ~AnswerOwed(rx, out')
    BY <1>0, <1>2, Zenon DEF Begin, Started
  <2>2. m'.tx = c /\ ctx'.current_op = op /\ ctx'.used
    BY <1>0, <1>2, <2>1 DEF TypeOK
  <2>3. Lines' = rx \o out' /\ rx \in Seq(Arrivals) /\ out' \in Seq(Arrivals)
    BY <1>0 DEF Lines, TypeOK
  <2>4. answered' <=> Silent(Lines') /\ sock[1] # "opening" /\ ~data
    BY <2>1, <2>3, NothingOwed
  <2>5. answered' => Exchange'
    <3>. SUFFICES ASSUME answered' PROVE Exchange'
      OBVIOUS
    <3>1. Silent(Lines') /\ sock'[1] # "opening" /\ ~data'
      BY <2>4
    <3>2. /\ m'.tx = <<"QIOPEN", asked'[2]>> => Connecting'
          /\ m'.tx = <<"QISEND", asked'[2]>> => AwaitingPrompt'
          /\ m'.tx = <<"QICLOSE">> => Closing'
      <4>1. /\ \A kinds : Only(Lines', kinds)
            /\ \A first, second : Follows(Lines', first, second)
        BY <3>1, SilentFollows, OnlyMore DEF Silent
      <4>. QED
        BY <3>1, <4>1 DEF Connecting, AwaitingPrompt, Closing
    <3>. QED
      BY <1>0, <1>2, <2>1, <2>2, <3>2 DEF Exchange
  <2>6. PayloadOnlyInDataMode'
    BY <2>2 DEF PayloadOnlyInDataMode
  <2>7. orderly' => answered'
    <3>1. SUFFICES ASSUME orderly' PROVE answered'
      OBVIOUS
    <3>2. Quiet
      BY <1>a, <3>1 DEF InStep
    <3>3. Silent(Lines')
      <4>1. CASE rx = <<>> /\ Flushed
        <5>1. Only(m.rx \o out, Kinds \ {"SEND_OK"})
          BY <3>2, OnlyMore DEF Quiet, Silent, Lines
        <5>2. m.rx \in Seq(Arrivals) /\ out \in Seq(Arrivals) /\ Len(m.rx) \in Nat
          BY DEF TypeOK
        <5>4. IsPart(<<>> \o out', m.rx \o out, Len(m.rx))
          BY <4>1, <5>1, <5>2, FlushedPart
        <5>5. IsPart(Lines', Lines, Len(m.rx))
          BY <2>3, <4>1, <5>4 DEF Lines
        <5>3. Lines \in Seq(Arrivals) /\ Lines' \in Seq(Arrivals)
          BY DEF Lines, TypeOK
        <5>. QED
          BY <3>2, <5>2, <5>3, <5>5, PartOnly DEF Quiet, Silent
      <4>2. CASE rx = m.rx /\ UNCHANGED out
        BY <2>3, <3>2, <4>2 DEF Quiet, Lines
      <4>. QED
        BY <4>1, <4>2
    <3>. QED
      BY <2>4, <3>2, <3>3 DEF Quiet
  <2>8. op # "NONE" /\ done' = "none"
    OBVIOUS
  <2>. QED
    BY <2>2, <2>5, <2>6, <2>7, <2>8 DEF InStep
<1>. QED
  BY <1>1, <1>2

(* Arrivals that are taken. *)
LEMMA TakenKeeps ==
    ASSUME TypeOK, TypeOK', NEW n \in 0 .. Len(m.rx),
           m'.rx = SubSeq(m.rx, n + 1, Len(m.rx)), m'.tx = m.tx,
           UNCHANGED <<asked, data, sock, did, out>>
    PROVE  /\ Connecting => Connecting'
           /\ AwaitingPrompt => AwaitingPrompt'
           /\ Sending => Sending'
           /\ Closing => Closing'
           /\ Quiet => Quiet'
<1>1. m.rx \in Seq(Arrivals) /\ out \in Seq(Arrivals) /\ n \in Nat
  BY FitsIs DEF TypeOK
<1>2. IsPart(SubSeq(m.rx, n + 1, Len(m.rx)) \o out, m.rx \o out, n)
  BY <1>1, TakenPart
<1>3. IsPart(Lines', Lines, n)
  BY <1>2 DEF Lines
<1>. QED
  BY <1>1, <1>3, PartKeeps

(* The first line, when it is an answer. *)
LEMMA FirstAnswer ==
    ASSUME TypeOK, m.rx # <<>>, NEW kind \in Kinds, Head(m.rx)[1] = kind,
           m'.rx = SubSeq(m.rx, 2, Len(m.rx)), UNCHANGED out
    PROVE  /\ \A kinds : Only(Lines, kinds) => kind \in kinds
           /\ \A first, second : Follows(Lines, first, second)
                => Only(Lines', second) /\ (kind \notin first => Silent(Lines'))
<1>1. /\ m.rx \in Seq(Arrivals) /\ out \in Seq(Arrivals) /\ Head(m.rx) \in Arrivals
      /\ Len(m.rx) > 0 /\ Head(m.rx) = m.rx[1]
  BY FitsIs DEF TypeOK
<1>2. Head(m.rx) \in Answers
  BY <1>1, ArrivalKinds
<1>3. 1 \in 1 .. Len(Lines) /\ Lines[1] = Head(m.rx)
  BY <1>1 DEF Lines
<1>4. Lines' = SubSeq(m.rx, 2, Len(m.rx)) \o out
  BY DEF Lines
<1>5. ASSUME NEW first, NEW second, Follows(Lines, first, second)
      PROVE  Only(Lines', second) /\ (kind \notin first => Silent(Lines'))
  BY <1>1, <1>2, <1>4, <1>5, FirstOfTwo DEF Lines
<1>. QED
  BY <1>2, <1>3, <1>5 DEF Only

LEMMA ConnectInStep ==
    ASSUME TypeOK, TypeOK', InStep, net_connect_continue
    PROVE  InStep' /\ (Reported' /\ answered => Quiet')
<1>1. PICK r : r = modem_socket_open_continue(m)
  OBVIOUS
<1>2. /\ r.res \in {-1, 0, 1} /\ r.m.tx = m.tx
      /\ \E n \in 0 .. Len(m.rx) : r.m.rx = SubSeq(m.rx, n + 1, Len(m.rx))
      /\ r.res = 0 => /\ m.rx # <<>> /\ Head(m.rx)[1] = "QIOPEN_OK"
                      /\ r.m.rx = SubSeq(m.rx, 2, Len(m.rx))
  BY <1>1, FitsIs, OpenContinue
<1>3. /\ ctx.used /\ ctx.current_op = "CONNECT"
      /\ m' = r.m /\ UNCHANGED <<asked, answered, sock, data, out, did>>
      /\ ctx' = CASE r.res > 0 -> ctx
                  [] r.res < 0 -> [ctx EXCEPT !.current_op = "NONE"]
                  [] r.res = 0 -> [ctx EXCEPT !.current_op = "NONE", !.state = "CONNECTED"]
      /\ done' = IF r.res = 0 THEN "connect" ELSE "none"
      /\ orderly' = (orderly /\ r.res >= 0)
  BY <1>1, Zenon DEF net_connect_continue, bg96
<1>4. Connecting => Connecting'
  BY <1>2, <1>3, TakenKeeps
<1>5. PayloadOnlyInDataMode'
  BY <1>2, <1>3 DEF InStep, PayloadOnlyInDataMode
<1>6. CASE r.res = 1
  <2>1. ctx' = ctx /\ done' = "none" /\ orderly' = orderly
    <3>1. 1 > 0 /\ 1 # 0 /\ 1 >= 0
      OBVIOUS
    <3>2. orderly' = orderly
      BY <1>3, <1>6, <3>1, Zenon DEF TypeOK
    <3>. QED
      BY <1>3, <1>6, <3>2
  <2>2. answered' => Exchange'
    BY <1>3, <1>4, <2>1 DEF InStep, Exchange
  <2>. QED
    BY <1>3, <1>5, <2>1, <2>2 DEF InStep, Reported
<1>7. CASE r.res = -1
  <2>1. ctx' = [ctx EXCEPT !.current_op = "NONE"] /\ done' = "none"
    BY <1>3, <1>7
  <2>2. ~orderly'
    <3>1. ~(-1 >= 0)
      OBVIOUS
    <3>. QED
      BY <1>3, <1>7, <3>1, Zenon
  <2>3. ctx'.current_op = "NONE"
    BY <2>1 DEF TypeOK
  <2>. QED
    BY <1>5, <2>1, <2>2, <2>3 DEF InStep, Reported, Exchange
<1>8. CASE r.res = 0
  <2>1. /\ ctx' = [ctx EXCEPT !.current_op = "NONE", !.state = "CONNECTED"]
        /\ done' = "connect"
    BY <1>3, <1>8
  <2>2. orderly' = orderly
    <3>1. 0 >= 0
      OBVIOUS
    <3>. QED
      BY <1>3, <1>8, <3>1, Zenon DEF TypeOK
  <2>3. ctx'.current_op = "NONE" /\ ctx'.state = "CONNECTED" /\ ctx'.used
    BY <1>3, <2>1 DEF TypeOK
  <2>4. ASSUME answered PROVE Settled' /\ Quiet'
    <3>1. Connecting
      BY <1>3, <2>4 DEF InStep, Exchange
    <3>2. /\ \A kinds : Only(Lines, kinds) => "QIOPEN_OK" \in kinds
          /\ \A first, second : Follows(Lines, first, second)
               => Only(Lines', second) /\ ("QIOPEN_OK" \notin first => Silent(Lines'))
      BY <1>2, <1>3, <1>8, FirstAnswer DEF Kinds
    <3>3. did = asked /\ m.tx = None /\ sock[1] # "opening" /\ ~data
      BY <3>1, <3>2 DEF Connecting, Silent
    <3>4. Silent(Lines')
      BY <3>1, <3>2 DEF Connecting
    <3>. QED
      BY <1>2, <1>3, <3>3, <3>4 DEF Settled, Quiet
  <2>. QED
    BY <1>3, <1>5, <2>1, <2>2, <2>3, <2>4 DEF InStep, Exchange
<1>. QED
  BY <1>2, <1>6, <1>7, <1>8

LEMMA SendInStep ==
    ASSUME TypeOK, TypeOK', AskedFits, InStep, net_send_continue
    PROVE  InStep' /\ (Reported' /\ answered => Quiet')
<1>0. asked[2] \in Messages
  BY DEF net_send_continue, AskedFits
<1>1. PICK r : r = modem_socket_send_continue(m, asked[2])
  OBVIOUS
<1>3. /\ ctx.used /\ ctx.current_op = "SEND"
      /\ m' = r.m /\ UNCHANGED <<asked, answered, sock, data, out, did>>
      /\ ctx' = IF r.res > 0 THEN ctx ELSE [ctx EXCEPT !.current_op = "NONE"]
      /\ done' = IF r.res = 0 THEN "send" ELSE "none"
      /\ orderly' = (orderly /\ r.res >= 0)
      /\ ctx.state = "CONNECTED"
  BY <1>1, Zenon DEF net_send_continue, bg96
<1>2. /\ r.res \in {-1, 0, 1}
      /\ \/ \E n \in 0 .. Len(m.rx) : Taken(m, r.m, n)
         \/ /\ m.step = 0 /\ r.res # 0 /\ m.rx # <<>> /\ Head(m.rx)[1] = "PROMPT"
            /\ r.m.rx = SubSeq(m.rx, 2, Len(m.rx))
            /\ m.tx = None /\ r.m.tx = <<"DATA", asked[2]>> /\ r.m.step = 1
      /\ r.res = 0 => /\ m.step = 1 /\ m.rx # <<>> /\ Head(m.rx)[1] = "SEND_OK"
                      /\ r.m.rx = SubSeq(m.rx, 2, Len(m.rx))
  <2>1. CASE m.step = 0
    <3>1. r = AwaitPrompt(m, asked[2])
      BY <1>1, <2>1 DEF modem_socket_send_continue
    <3>. QED
      BY <1>0, <2>1, <3>1, FitsIs, PromptAwaited
  <2>2. CASE m.step = 1
    <3>1. r = match_responses_strict(m, send_responses)
      BY <1>1, <2>2 DEF modem_socket_send_continue
    <3>2. r.res = 0 => r.m.rx = SubSeq(m.rx, 2, Len(m.rx))
      BY <3>1, FitsIs, ResultAwaited DEF Taken
    <3>. QED
      BY <2>2, <3>1, <3>2, FitsIs, ResultAwaited
  <2>. QED
    BY <2>1, <2>2, FitsIs
<1>4. /\ answered => (m'.step = 0 => AwaitingPrompt') /\ (m'.step = 1 => Sending')
      /\ PayloadOnlyInDataMode'
  <2>1. ASSUME NEW n \in 0 .. Len(m.rx), Taken(m, r.m, n)
        PROVE  /\ answered => (m'.step = 0 => AwaitingPrompt') /\ (m'.step = 1 => Sending')
               /\ PayloadOnlyInDataMode'
    <3>1. m'.rx = SubSeq(m.rx, n + 1, Len(m.rx)) /\ m'.tx = m.tx /\ m'.step = m.step
      BY <1>3, <2>1 DEF Taken
    <3>2. AwaitingPrompt => AwaitingPrompt'
      BY <1>3, <3>1, TakenKeeps
    <3>3. Sending => Sending'
      BY <1>3, <3>1, TakenKeeps
    <3>4. PayloadOnlyInDataMode'
      BY <1>3, <3>1 DEF InStep, PayloadOnlyInDataMode
    <3>. QED
      BY <1>3, <3>1, <3>2, <3>3, <3>4 DEF InStep, Exchange
  <2>2. ASSUME m.step = 0, m.rx # <<>>, Head(m.rx)[1] = "PROMPT",
               r.m.rx = SubSeq(m.rx, 2, Len(m.rx)),
               m.tx = None, r.m.tx = <<"DATA", asked[2]>>, r.m.step = 1
        PROVE  /\ answered => (m'.step = 0 => AwaitingPrompt') /\ (m'.step = 1 => Sending')
               /\ PayloadOnlyInDataMode'
    <3>1. /\ \A kinds : Only(Lines, kinds) => "PROMPT" \in kinds
          /\ \A first, second : Follows(Lines, first, second) => Only(Lines', second)
      BY <1>3, <2>2, FirstAnswer DEF Kinds
    <3>2. m'.step = 1 /\ m'.tx = <<"DATA", asked[2]>> /\ m'.tx # None
      BY <1>0, <1>3, <2>2, CommandTypes
    <3>3. ASSUME answered PROVE Sending' /\ data
      <4>1. AwaitingPrompt
        BY <1>3, <2>2, <3>3 DEF InStep, Exchange
      <4>2. data /\ Only(Lines', {"SPACE"}) /\ sock[1] # "opening"
        BY <3>1, <4>1 DEF AwaitingPrompt
      <4>3. Follows(Lines', {"SPACE"}, {"SEND_OK", "SEND_FAIL"})
        <5>1. Follows(Lines, {"PROMPT"}, {"SPACE"})
          BY <4>1 DEF AwaitingPrompt
        <5>2. PICK u, v : u = Lines' /\ v = Lines
          OBVIOUS
        <5>3. v \in Seq(Arrivals) /\ u \in Seq(Arrivals)
          BY <5>2 DEF Lines, TypeOK
        <5>4. IsPart(SubSeq(m.rx, 1 + 1, Len(m.rx)) \o out, m.rx \o out, 1)
          <6>1. m.rx \in Seq(Arrivals) /\ out \in Seq(Arrivals) /\ 1 \in 0 .. Len(m.rx)
            BY <2>2, FitsIs DEF TypeOK
          <6>. QED
            BY <6>1, TakenPart
        <5>a. u = SubSeq(m.rx, 2, Len(m.rx)) \o out /\ v = m.rx \o out
          BY <1>3, <2>2, <5>2 DEF Lines
        <5>5. IsPart(u, v, 1)
          BY <5>4, <5>a
        <5>6. Follows(u, {"PROMPT"}, {"SPACE"})
          BY <5>1, <5>2, <5>3, <5>5, PartFollows
        <5>7. Only(u, {"SPACE"})
          BY <4>2, <5>2
        <5>8. Follows(u, {"SPACE"}, {"SEND_OK", "SEND_FAIL"})
          BY <5>6, <5>7 DEF Follows, Only
        <5>. QED
          BY <5>2, <5>8
      <4>4. /\ Only(Lines', {"SPACE", "SEND_OK", "SEND_FAIL"})
            /\ Only(Lines', {"SPACE", "SEND_FAIL"})
        BY <4>2, OnlyMore
      <4>. QED
        BY <1>3, <3>2, <4>2, <4>3, <4>4 DEF Sending
    <3>. QED
      BY <1>3, <3>2, <3>3 DEF PayloadOnlyInDataMode
  <2>. QED
    BY <1>2, <2>1, <2>2
<1>6. CASE r.res = 1
  <2>1. ctx' = ctx /\ done' = "none" /\ orderly' = orderly
    <3>1. 1 > 0 /\ 1 # 0 /\ 1 >= 0
      OBVIOUS
    <3>2. orderly' = orderly
      BY <1>3, <1>6, <3>1, Zenon DEF TypeOK
    <3>. QED
      BY <1>3, <1>6, <3>2
  <2>2. answered' => Exchange'
    BY <1>3, <1>4, <2>1 DEF Exchange
  <2>. QED
    BY <1>3, <1>4, <2>1, <2>2 DEF InStep, Reported
<1>7. CASE r.res = -1
  <2>1. ctx' = [ctx EXCEPT !.current_op = "NONE"] /\ done' = "none"
    BY <1>3, <1>7
  <2>2. ~orderly'
    <3>1. ~(-1 >= 0)
      OBVIOUS
    <3>. QED
      BY <1>3, <1>7, <3>1, Zenon
  <2>3. ctx'.current_op = "NONE"
    BY <2>1 DEF TypeOK
  <2>. QED
    BY <1>4, <2>1, <2>2, <2>3 DEF InStep, Reported, Exchange
<1>8. CASE r.res = 0
  <2>1. ctx' = [ctx EXCEPT !.current_op = "NONE"] /\ done' = "send"
    BY <1>3, <1>8
  <2>2. orderly' = orderly
    <3>1. 0 >= 0
      OBVIOUS
    <3>. QED
      BY <1>3, <1>8, <3>1, Zenon DEF TypeOK
  <2>3. ctx'.current_op = "NONE" /\ ctx'.state = "CONNECTED" /\ ctx'.used
    BY <1>3, <2>1 DEF TypeOK
  <2>4. ASSUME answered PROVE Settled' /\ Quiet'
    <3>1. Sending
      BY <1>2, <1>3, <1>8, <2>4 DEF InStep, Exchange
    <3>2. /\ \A kinds : Only(Lines, kinds) => "SEND_OK" \in kinds
          /\ \A first, second : Follows(Lines, first, second)
               => Only(Lines', second) /\ ("SEND_OK" \notin first => Silent(Lines'))
      BY <1>2, <1>3, <1>8, FirstAnswer DEF Kinds
    <3>3. did = asked /\ m.tx = None /\ sock[1] # "opening" /\ ~data
      BY <3>1, <3>2 DEF Sending
    <3>4. Silent(Lines')
      BY <3>1, <3>2 DEF Sending
    <3>5. m'.tx = m.tx
      BY <1>2, <1>3, <1>8 DEF Taken
    <3>. QED
      BY <1>3, <3>3, <3>4, <3>5 DEF Settled, Quiet
  <2>. QED
    BY <1>3, <1>4, <2>1, <2>2, <2>3, <2>4 DEF InStep, Exchange
<1>. QED
  BY <1>2, <1>6, <1>7, <1>8

LEMMA ShutdownInStep ==
    ASSUME TypeOK, TypeOK', InStep, NEW used \in BOOLEAN, ShutdownContinue(used), ctx.used
    PROVE  InStep' /\ (Reported' /\ answered => Quiet')
<1>1. PICK r : r = modem_socket_close_continue(m)
  OBVIOUS
<1>2. /\ r.res \in {-1, 0, 1} /\ r.m.tx = m.tx
      /\ \E n \in 0 .. Len(m.rx) : r.m.rx = SubSeq(m.rx, n + 1, Len(m.rx))
      /\ r.res = 0 => /\ m.rx # <<>> /\ Head(m.rx)[1] = "OK"
                      /\ r.m.rx = SubSeq(m.rx, 2, Len(m.rx))
  BY <1>1, FitsIs, CloseContinue
<1>3. /\ ctx.current_op = "SHUTDOWN"
      /\ m' = r.m /\ UNCHANGED <<asked, answered, sock, data, out, did>>
      /\ ctx' = IF r.res > 0 THEN ctx
                ELSE [used |-> used, state |-> "SHUTDOWN", current_op |-> "NONE"]
      /\ done' = IF r.res = 0 THEN "shutdown" ELSE "none"
      /\ orderly' = (orderly /\ r.res >= 0)
  BY <1>1, Zenon DEF ShutdownContinue, bg96
<1>4. Closing => Closing'
  BY <1>2, <1>3, TakenKeeps
<1>5. PayloadOnlyInDataMode'
  BY <1>2, <1>3 DEF InStep, PayloadOnlyInDataMode
<1>6. CASE r.res = 1
  <2>1. ctx' = ctx /\ done' = "none" /\ orderly' = orderly
    <3>1. 1 > 0 /\ 1 # 0 /\ 1 >= 0
      OBVIOUS
    <3>2. orderly' = orderly
      BY <1>3, <1>6, <3>1, Zenon DEF TypeOK
    <3>. QED
      BY <1>3, <1>6, <3>2
  <2>2. answered' => Exchange'
    BY <1>3, <1>4, <2>1 DEF InStep, Exchange
  <2>. QED
    BY <1>3, <1>5, <2>1, <2>2 DEF InStep, Reported
<1>7. CASE r.res = -1
  <2>1. /\ ctx' = [used |-> used, state |-> "SHUTDOWN", current_op |-> "NONE"]
        /\ done' = "none"
    BY <1>3, <1>7
  <2>2. ~orderly'
    <3>1. ~(-1 >= 0)
      OBVIOUS
    <3>. QED
      BY <1>3, <1>7, <3>1, Zenon
  <2>3. ctx'.current_op = "NONE"
    BY <2>1
  <2>. QED
    BY <1>5, <2>1, <2>2, <2>3 DEF InStep, Reported, Exchange
<1>8. CASE r.res = 0
  <2>1. /\ ctx' = [used |-> used, state |-> "SHUTDOWN", current_op |-> "NONE"]
        /\ done' = "shutdown"
    BY <1>3, <1>8
  <2>2. orderly' = orderly
    <3>1. 0 >= 0
      OBVIOUS
    <3>. QED
      BY <1>3, <1>8, <3>1, Zenon DEF TypeOK
  <2>3. ctx'.current_op = "NONE" /\ ctx'.state = "SHUTDOWN"
    BY <2>1
  <2>4. ASSUME answered PROVE Settled' /\ Quiet' /\ sock' = Closed
    <3>1. Closing
      BY <1>3, <2>4 DEF InStep, Exchange
    <3>2. /\ \A kinds : Only(Lines, kinds) => "OK" \in kinds
          /\ \A first, second : Follows(Lines, first, second)
               => Only(Lines', second) /\ ("OK" \notin first => Silent(Lines'))
      BY <1>2, <1>3, <1>8, FirstAnswer DEF Kinds
    <3>3. did = asked /\ m.tx = None /\ sock[1] # "opening" /\ ~data /\ sock = Closed
      BY <3>1, <3>2 DEF Closing, Silent
    <3>4. Silent(Lines')
      BY <3>1, <3>2 DEF Closing
    <3>. QED
      BY <1>2, <1>3, <3>3, <3>4 DEF Settled, Quiet
  <2>. QED
    BY <1>3, <1>5, <2>1, <2>2, <2>3, <2>4 DEF InStep, Exchange
<1>. QED
  BY <1>2, <1>6, <1>7, <1>8

(* The interrupts, the modem, and the rest of net.c. *)
LEMMA DeliverInStep ==
    ASSUME TypeOK, TypeOK', InStep, Deliver
    PROVE  InStep'
<1>1. /\ out # <<>> /\ m' = [m EXCEPT !.rx = Append(@, Head(out))] /\ out' = Tail(out)
      /\ UNCHANGED <<ctx, asked, done, answered, orderly, sock, data, did>>
  BY DEF Deliver
<1>2. m'.rx = Append(m.rx, Head(out)) /\ m'.tx = m.tx /\ m'.step = m.step
  BY <1>1 DEF TypeOK
<1>3. IsPart(Append(m.rx, Head(out)) \o Tail(out), m.rx \o out, 0)
  BY <1>1, FitsIs, DeliveredPart DEF TypeOK
<1>4. IsPart(Lines', Lines, 0) /\ 0 \in Nat
  BY <1>1, <1>2, <1>3 DEF Lines
<1>5. /\ Connecting => Connecting'
      /\ AwaitingPrompt => AwaitingPrompt'
      /\ Sending => Sending'
      /\ Closing => Closing'
      /\ Quiet => Quiet'
  BY <1>1, <1>2, <1>4, PartKeeps
<1>6. Exchange => Exchange'
  BY <1>1, <1>2, <1>5 DEF Exchange
<1>7. PayloadOnlyInDataMode'
  BY <1>1, <1>2 DEF InStep, PayloadOnlyInDataMode
<1>. QED
  BY <1>1, <1>2, <1>5, <1>6, <1>7 DEF InStep, Settled

LEMMA TransmittedInStep ==
    ASSUME TypeOK, TypeOK', AskedFits, InStep, Transmitted
    PROVE  InStep'
<1>1. /\ m.tx # None /\ m'.tx = None /\ m'.step = m.step
      /\ UNCHANGED <<ctx, asked, done, answered, orderly>>
  BY DEF Transmitted, TypeOK
<1>2. Exchange => Exchange'
  BY <1>1, FitsIs, ConnectTaken, PromptTaken, DataTaken, CloseTaken DEF Exchange, AskedFits
<1>3. PayloadOnlyInDataMode'
  BY <1>1 DEF PayloadOnlyInDataMode
<1>. QED
  BY <1>1, <1>2, <1>3 DEF InStep, Settled, Quiet

LEMMA ModemInStep ==
    ASSUME TypeOK, TypeOK', AskedFits, InStep, Modem, UNCHANGED caller
    PROVE  InStep'
<1>1. UNCHANGED <<ctx, m, asked, done, answered, orderly>>
  BY DEF caller
<1>2. /\ Connecting /\ asked \in {"opened"} \X Hosts => Connecting'
      /\ AwaitingPrompt => AwaitingPrompt'
      /\ Sending => Sending'
      /\ Closing => Closing'
      /\ Quiet => Quiet'
  BY ModemKeeps
<1>3. Exchange => Exchange'
  BY <1>1, <1>2 DEF Exchange, AskedFits
<1>4. PayloadOnlyInDataMode'
  BY <1>1 DEF InStep, PayloadOnlyInDataMode, Modem, Opened, Push, NetworkLost
<1>5. Settled => Settled'
  <2>1. sock[1] # "opening" => UNCHANGED did /\ sock' \in {sock, Closed}
    BY DEF Modem, Opened, Push, NetworkLost
  <2>2. Closed[1] # "opening"
    BY DEF Closed
  <2>. QED
    BY <1>1, <2>1, <2>2 DEF Settled
<1>6. sock = Closed => sock' = Closed
  BY DEF Modem, Opened, Push, NetworkLost, Closed
<1>. QED
  BY <1>1, <1>2, <1>3, <1>4, <1>5, <1>6 DEF InStep

LEMMA ShutdownInitInStep ==
    ASSUME TypeOK, TypeOK', AskedFits, InStep, ctx.used, ShutdownInit, done' = "none"
    PROVE  InStep'
<1>1. PICK r : r = modem_socket_close_init(m)
  OBVIOUS
<1>2. Started(m, r, <<"QICLOSE">>, <<>>, m.step)
  BY <1>1, FitsIs, CloseInit
<1>3. m' = r.m /\ Begin(r, "SHUTDOWN", <<"closed">>) /\ Flushed /\ UNCHANGED <<sock, data>>
  BY <1>1 DEF ShutdownInit
<1>. QED
  BY <1>2, <1>3, BeginInStep

LEMMA InitsInStep ==
    ASSUME TypeOK, TypeOK', AskedFits, InStep,
           (\E h \in Hosts : net_connect_init(h)) \/ (\E b \in Messages : net_send_init(b))
    PROVE  InStep'
<1>1. ASSUME NEW h \in Hosts, net_connect_init(h) PROVE InStep'
  <2>1. PICK r : r = modem_socket_open_init(m, h)
    OBVIOUS
  <2>2. Started(m, r, <<"QIOPEN", h>>, <<>>, 0)
    BY <2>1, FitsIs, OpenInit
  <2>3. /\ m' = r.m /\ Begin(r, "CONNECT", <<"opened", h>>) /\ Flushed /\ done' = "none"
        /\ ctx.used /\ UNCHANGED <<sock, data>>
    BY <1>1, <2>1 DEF net_connect_init
  <2>4. <<"opened", h>>[2] = h
    OBVIOUS
  <2>. QED
    BY <2>2, <2>3, <2>4, BeginInStep
<1>2. ASSUME NEW b \in Messages, net_send_init(b) PROVE InStep'
  <2>1. PICK r : r = modem_socket_send_init(m, b)
    OBVIOUS
  <2>2. Started(m, r, <<"QISEND", b>>, m.rx, 0)
    BY <2>1, FitsIs, SendInit
  <2>3. /\ m' = r.m /\ Begin(r, "SEND", <<"sent", b>>) /\ UNCHANGED out /\ done' = "none"
        /\ ctx.used /\ ctx.current_op = "NONE" /\ UNCHANGED <<sock, data>>
    BY <1>2, <2>1 DEF net_send_init
  <2>4. <<"sent", b>>[2] = b
    OBVIOUS
  <2>. QED
    BY <2>2, <2>3, <2>4, BeginInStep
<1>. QED
  BY <1>1, <1>2

LEMMA RecvInStep ==
    ASSUME TypeOK, TypeOK', InStep, net_recv
    PROVE  InStep'
<1>1. PICK n \in 0 .. Len(m.rx) : Taken(m, m', n)
  BY FitsIs, RecvTakes DEF net_recv
<1>2. /\ ctx.used /\ ctx.current_op = "NONE" /\ done' = "none"
      /\ UNCHANGED <<ctx, asked, answered, orderly, sock, data, out, did>>
  BY DEF net_recv, bg96
<1>3. m'.rx = SubSeq(m.rx, n + 1, Len(m.rx)) /\ m'.tx = m.tx
  BY <1>1 DEF Taken
<1>4. Quiet => Quiet'
  BY <1>2, <1>3, TakenKeeps
<1>5. PayloadOnlyInDataMode'
  BY <1>2, <1>3 DEF InStep, PayloadOnlyInDataMode
<1>. QED
  BY <1>2, <1>4, <1>5 DEF InStep, Exchange

LEMMA CleanupInStep ==
    ASSUME TypeOK, TypeOK', AskedFits, InStep, net_cleanup_ctx
    PROVE  InStep'
<1>0. ctx.used
  BY DEF net_cleanup_ctx
<1>1. CASE ShutdownInit /\ done' = "none"
  BY <1>0, <1>1, ShutdownInitInStep
<1>2. CASE ShutdownContinue(FALSE)
  BY <1>0, <1>2, ShutdownInStep
<1>3. CASE /\ ctx.state \in {"CLOSED", "SHUTDOWN"}
           /\ ctx' = [ctx EXCEPT !.state = "CLOSED", !.used = FALSE]
           /\ done' = "close"
           /\ orderly' = (orderly /\ ctx.current_op = "NONE")
           /\ UNCHANGED <<m, asked, answered, bg96>>
  <2>1. ctx'.current_op = ctx.current_op /\ ctx'.state = "CLOSED"
    BY <1>3 DEF TypeOK
  <2>2. UNCHANGED <<m, asked, answered, sock, data, out, did>> /\ done' = "close"
    BY <1>3 DEF bg96
  <2>3. orderly' => orderly /\ ctx.current_op = "NONE" /\ ctx.state # "CONNECTED"
    BY <1>3, Zenon
  <2>4. /\ Exchange => Exchange'
        /\ Quiet => Quiet'
        /\ PayloadOnlyInDataMode'
    BY <2>1, <2>2 DEF Exchange, Connecting, AwaitingPrompt, Sending, Closing, Quiet, Lines,
       InStep, PayloadOnlyInDataMode
  <2>. QED
    BY <2>1, <2>2, <2>3, <2>4 DEF InStep
<1>4. CASE /\ m.tx # None
           /\ Flushed
           /\ m' = modem_socket_close_init(m).m
           /\ ctx' = [ctx EXCEPT !.used = FALSE]
           /\ done' = "none" /\ orderly' = FALSE
           /\ UNCHANGED <<asked, answered, sock, data, did>>
  <2>1. Started(m, modem_socket_close_init(m), <<"QICLOSE">>, <<>>, m.step)
    BY FitsIs, CloseInit
  <2>2. m'.rx = <<>> /\ m'.tx = m.tx /\ m'.step = m.step
    BY <1>4, <2>1 DEF Started
  <2>3. ctx'.current_op = ctx.current_op
    BY <1>4 DEF TypeOK
  <2>4. answered' => Exchange'
    BY <1>4, <2>2, <2>3, FailedFlush DEF InStep
  <2>5. PayloadOnlyInDataMode'
    BY <1>4, <2>2 DEF InStep, PayloadOnlyInDataMode
  <2>. QED
    BY <1>4, <2>4, <2>5 DEF InStep
<1>. QED
  BY <1>1, <1>2, <1>3, <1>4 DEF net_cleanup_ctx

LEMMA InitInStep == Init => InStep
<1>. SUFFICES ASSUME Init PROVE InStep
  OBVIOUS
<1>1. /\ ctx.current_op = "NONE" /\ ctx.state = "CLOSED" /\ m.tx = None /\ done = "none" /\ answered
      /\ sock = Closed /\ ~data /\ sock[1] # "opening" /\ Len(Lines) = 0
  BY DEF Init, InitModem, Closed, Lines
<1>2. Quiet
  BY <1>1 DEF Quiet, Silent, Only
<1>3. PayloadOnlyInDataMode
  BY <1>1 DEF PayloadOnlyInDataMode
<1>. QED
  BY <1>1, <1>2, <1>3 DEF InStep, Exchange

LEMMA NextInStep == TypeOK /\ TypeOK' /\ AskedFits /\ InStep /\ [Next]_vars => InStep'
<1>. SUFFICES ASSUME TypeOK, TypeOK', AskedFits, InStep, [Next]_vars PROVE InStep'
  OBVIOUS
<1>1. CASE Interrupts
  BY <1>1, DeliverInStep, TransmittedInStep DEF Interrupts
<1>2. CASE Modem /\ UNCHANGED caller
  BY <1>2, ModemInStep
<1>3. CASE net_create_ctx
  <2>1. /\ ~ctx.used /\ ctx' = [used |-> TRUE, state |-> "CLOSED", current_op |-> "NONE"]
        /\ done' = "none" /\ UNCHANGED <<m, asked, answered, orderly, sock, data, out, did>>
    BY <1>3 DEF net_create_ctx, bg96
  <2>2. /\ Quiet => Quiet'
        /\ PayloadOnlyInDataMode'
    BY <2>1 DEF Quiet, Lines, InStep, PayloadOnlyInDataMode
  <2>3. ctx'.current_op = "NONE" /\ ctx'.used
    BY <2>1
  <2>. QED
    BY <2>1, <2>2, <2>3 DEF InStep, Exchange
<1>4. CASE (\E h \in Hosts : net_connect_init(h)) \/ (\E b \in Messages : net_send_init(b))
  BY <1>4, InitsInStep
<1>5. CASE net_connect_continue
  BY <1>5, ConnectInStep
<1>6. CASE net_send_continue
  BY <1>6, SendInStep
<1>7. CASE net_recv
  BY <1>7, RecvInStep
<1>8. CASE net_shutdown
  BY <1>8, ShutdownInitInStep, ShutdownInStep DEF net_shutdown
<1>9. CASE net_close
  <2>1. /\ ctx.used /\ ctx.state \in {"CLOSED", "SHUTDOWN"} /\ ctx' = [ctx EXCEPT !.state = "CLOSED"]
        /\ done' = "close" /\ UNCHANGED <<m, asked, answered, orderly, sock, data, out, did>>
    BY <1>9 DEF net_close, bg96
  <2>2. ctx'.current_op = ctx.current_op /\ ctx'.used
    BY <2>1 DEF TypeOK
  <2>3. /\ Exchange => Exchange'
        /\ Quiet => Quiet'
        /\ PayloadOnlyInDataMode'
    BY <2>1, <2>2 DEF Exchange, Connecting, AwaitingPrompt, Sending, Closing, Quiet, Lines,
       InStep, PayloadOnlyInDataMode
  <2>. QED
    BY <2>1, <2>2, <2>3 DEF InStep
<1>10. CASE net_cleanup_ctx
  BY <1>10, CleanupInStep
<1>11. CASE UNCHANGED vars
  BY <1>11 DEF vars, InStep, Exchange, Connecting, AwaitingPrompt, Sending, Closing, Quiet, Lines,
     PayloadOnlyInDataMode, Settled
<1>. QED
  BY <1>1, <1>2, <1>3, <1>4, <1>5, <1>6, <1>7, <1>8, <1>9, <1>10, <1>11 DEF Next

LEMMA StaysInStep == Spec => []InStep
<1>1. Init => InStep
  BY InitInStep
<1>2. TypeOK /\ AskedFits /\ TypeOK' /\ InStep /\ [Next]_vars => InStep'
  BY NextInStep
<1>. QED
  BY <1>1, <1>2, TypesHold, PTL DEF Spec

-----------------------------------------------------------------------------
(* What net.c reports done has been done by the modem, for this operation. *)
THEOREM ReportsAreTrue == Spec => []DoneIsDone
<1>1. InStep => DoneIsDone
  BY DEF InStep, DoneIsDone, Settled
<1>. QED
  BY <1>1, StaysInStep, PTL

(* The bytes of a message never reach the command interpreter.             *)
THEOREM PayloadsAreAwaited == Spec => []PayloadOnlyInDataMode
<1>1. InStep => PayloadOnlyInDataMode
  BY DEF InStep
<1>. QED
  BY <1>1, StaysInStep, PTL

(* net.c and the modem get out of step by an abandoned or a failed         *)
(* operation only.                                                         *)
THEOREM OrderKeepsStep == Spec => []InStepWhileOrderly
<1>1. InStep => InStepWhileOrderly
  BY DEF InStep, InStepWhileOrderly
<1>. QED
  BY <1>1, StaysInStep, PTL

(* No command of an orderly caller is swallowed as a part of a payload.    *)
THEOREM OrderKeepsCommands == Spec => []CommandsStayCommands
<1>1. TypeOK /\ InStep => CommandsStayCommands
  <2>. SUFFICES ASSUME TypeOK, InStep, orderly, data, m.tx # None
                PROVE  m.tx[1] = "DATA"
    BY DEF CommandsStayCommands
  <2>1. Exchange /\ ctx.current_op # "NONE"
    BY DEF InStep, Quiet
  <2>2. ctx.current_op \in {"CONNECT", "SEND", "SHUTDOWN"} /\ m.step \in {0, 1}
    BY <2>1 DEF TypeOK
  <2>. QED
    BY <2>1, <2>2 DEF Exchange, Connecting, AwaitingPrompt, Sending, Closing
<1>. QED
  BY <1>1, TypesHold, StaysInStep, PTL

(* A freed context of an orderly caller leaves no socket in the modem.     *)
THEOREM FreedLeavesNothing == Spec => []FreedMeansClosed
<1>1. InStep => FreedMeansClosed
  BY DEF InStep, FreedMeansClosed, Quiet
<1>. QED
  BY <1>1, StaysInStep, PTL

(* When an operation is reported done, the modem has nothing more to say   *)
(* about it.                                                               *)
THEOREM AnswersAreUsedUp == Spec => NoAnswerLeft
<1>1. ASSUME TypeOK, TypeOK', AskedFits, InStep, [Next]_vars
      PROVE  done # done' /\ done' \in {"connect", "send", "shutdown"} /\ answered
                => ~AnswerOwed(m'.rx, out')
  <2>p. SUFFICES ASSUME done # done', done' \in {"connect", "send", "shutdown"}, answered
                PROVE  ~AnswerOwed(m'.rx, out')
    OBVIOUS
  <2>1. Quiet' /\ UNCHANGED <<sock, data>>
    <3>0. Reported'
      BY <2>p DEF Reported
    <3>1. CASE net_connect_continue
      BY <1>1, <3>0, <3>1, <2>p, ConnectInStep DEF net_connect_continue, bg96
    <3>2. CASE net_send_continue
      BY <1>1, <3>0, <3>2, <2>p, SendInStep DEF net_send_continue, bg96
    <3>3. ASSUME NEW used \in BOOLEAN, ShutdownContinue(used), ctx.used
          PROVE  Quiet' /\ UNCHANGED <<sock, data>>
      BY <1>1, <3>0, <3>3, <2>p, ShutdownInStep DEF ShutdownContinue, bg96
    <3>4. CASE net_shutdown
      BY <2>p, <3>3, <3>4 DEF net_shutdown
    <3>5. CASE net_cleanup_ctx
      BY <2>p, <3>3, <3>5 DEF net_cleanup_ctx
    <3>6. CASE \/ Interrupts \/ (Modem /\ UNCHANGED caller) \/ UNCHANGED vars \/ net_create_ctx
               \/ (\E h \in Hosts : net_connect_init(h)) \/ (\E b \in Messages : net_send_init(b))
               \/ net_recv \/ net_close
      BY <2>p, <3>6 DEF Interrupts, Deliver, Transmitted, caller, vars, net_create_ctx, net_connect_init,
         net_send_init, net_recv, net_close
    <3>. QED
      BY <1>1, <3>1, <3>2, <3>4, <3>5, <3>6 DEF Next
  <2>2. m'.rx \in Seq(Arrivals) /\ out' \in Seq(Arrivals)
    BY <1>1 DEF TypeOK
  <2>. QED
    BY <2>1, <2>2, NothingOwed DEF Quiet, Lines
<1>. QED
  BY <1>1, TypesHold, StaysInStep, PTL DEF Spec, NoAnswerLeft
=============================================================================
