--------------------------- MODULE ModemTxProofs ---------------------------
(***************************************************************************)
(* Proofs about ModemTx, for every ring length, set of commands and        *)
(* outcome of the dangling pointer.                                        *)
(***************************************************************************)
EXTENDS ModemTx, CircBufProofs

(* The control part of the inductive invariant: the driver is busy exactly *)
(* while one of its interrupts is enabled, tx_ongoing is set exactly while *)
(* the driver is busy or about to be, and it is not busy anywhere between  *)
(* the test of tx_ongoing in modem_tx_append and the call of the driver.   *)
Control ==
    /\ huart.gState = "READY" <=> ~huart.TXEIE /\ ~huart.TCIE
    /\ ~(huart.TXEIE /\ huart.TCIE)
    /\ huart.TxXferCount = 1 => huart.TXEIE
    /\ tx_ongoing <=> pc \in {"pop", "transmit"} \/ huart.gState = "BUSY_TX"
    /\ pc \in {"copy", "start", "mark", "pop", "transmit"} => huart.gState = "READY"

-----------------------------------------------------------------------------
(* Concatenation is associative. *)
LEMMA ConcatAssoc ==
    ASSUME NEW S, NEW s \in Seq(S), NEW t \in Seq(S), NEW u \in Seq(S)
    PROVE  (s \o t) \o u = s \o (t \o u)
OBVIOUS

(* Popping keeps the ring a ring, even an empty one. *)
LEMMA PopType ==
    ASSUME NEW buf \in CircBufs(TxLen, Byte)
    PROVE  circ_buf_pop(buf) \in CircBufs(TxLen, Byte)
<1>1. TxLen \in Nat /\ TxLen > 0
  BY TxAssumption
<1>2. buf.begin \in 0 .. TxLen - 1 /\ buf.begin + 1 \in Nat /\ buf.len = TxLen
  BY <1>1 DEF CircBufs
<1>3. Slot(buf.begin + 1, TxLen) \in 0 .. TxLen - 1
  BY <1>1, <1>2, SlotRange
<1>. QED
  BY <1>2, <1>3 DEF CircBufs, circ_buf_pop, circ_buf_advance_n

(* What HAL_UART_Transmit_IT leaves in the driver has the driver's type. *)
LEMMA TransmitType ==
    ASSUME TypeOK, NEW h, NEW b \in Byte, NEW frame \in {"live", "dead"},
           h \in [gState : {"READY", "BUSY_TX"}, TXEIE : BOOLEAN, TCIE : BOOLEAN,
                  TxXferCount : {0, 1}, pTxBuffPtr : Byte, frame : {"live", "dead"}]
    PROVE  HAL_UART_Transmit_IT(h, b, frame)
             \in [gState : {"READY", "BUSY_TX"}, TXEIE : BOOLEAN, TCIE : BOOLEAN,
                  TxXferCount : {0, 1}, pTxBuffPtr : Byte, frame : {"live", "dead"}]
BY DEF HAL_UART_Transmit_IT

(* The state after reset has its types. *)
LEMMA InitType == Init => TypeOK
<1>. SUFFICES ASSUME Init PROVE TypeOK
  OBVIOUS
<1>1. EmptyBuf(TxLen, Zero) \in CircBufs(TxLen, Byte)
  BY TxAssumption DEF EmptyBuf, CircBufs
<1>2. tx_buf \in CircBufs(TxLen, Byte) /\ tx_ongoing \in BOOLEAN /\ intact \in BOOLEAN
  BY <1>1 DEF Init
<1>3. huart \in [gState : {"READY", "BUSY_TX"}, TXEIE : BOOLEAN, TCIE : BOOLEAN,
                 TxXferCount : {0, 1}, pTxBuffPtr : Byte, frame : {"live", "dead"}]
  BY TxAssumption DEF Init
<1>4. given \in Seq(Byte) /\ todo \in Seq(Byte) /\ cmd \in Seq(Byte)
      /\ wire \in Seq(Byte \cup Clobber)
  BY DEF Init
<1>5. pc = "idle" /\ byte \in Byte
  BY TxAssumption DEF Init
<1>. QED
  BY <1>2, <1>3, <1>4, <1>5 DEF TypeOK

(* Every step keeps the types. *)
LEMMA NextType == TypeOK /\ [Next]_vars => TypeOK'
<1>. SUFFICES ASSUME TypeOK, [Next]_vars PROVE TypeOK'
  OBVIOUS
<1>a. TxLen \in Nat /\ TxLen > 0 /\ Commands \subseteq Seq(Byte)
  BY TxAssumption
<1>b. circ_buf_seek(tx_buf, 0) \in Byte /\ circ_buf_pop(tx_buf) \in CircBufs(TxLen, Byte)
  BY <1>a, SeekType, PopType DEF TypeOK
<1>1. ASSUME NEW c \in Commands, Issue(c) PROVE TypeOK'
  BY <1>a, <1>1 DEF Issue, TypeOK, line
<1>c. ASSUME GiveUp PROVE pc' = "idle" /\ given' \in Seq(Byte) /\ todo' \in Seq(Byte)
  BY <1>c DEF GiveUp
<1>2. CASE modem_tx_append
  <2>1. GiveUp \/ (pc' = "copy" /\ UNCHANGED <<given, todo>>)
    BY <1>2 DEF modem_tx_append
  <2>. QED
    BY <1>2, <1>c, <2>1 DEF modem_tx_append, TypeOK, line
<1>3. CASE AppendPiece
  <2>. PICK n \in 1 .. Len(todo) :
         IF n > circ_buf_free(tx_buf)
         THEN GiveUp /\ UNCHANGED tx_buf
         ELSE /\ tx_buf' = circ_buf_append(tx_buf, SubSeq(todo, 1, n))
              /\ todo' = SubSeq(todo, n + 1, Len(todo))
              /\ pc' = IF n = Len(todo) THEN "start" ELSE "append"
              /\ UNCHANGED given
    BY <1>3 DEF AppendPiece
  <2>1. CASE n > circ_buf_free(tx_buf)
    BY <1>3, <1>c, <2>1 DEF AppendPiece, TypeOK, line
  <2>2. CASE ~(n > circ_buf_free(tx_buf))
    <3>1. SubSeq(todo, 1, n) \in Seq(Byte) /\ Len(SubSeq(todo, 1, n)) = n
      BY DEF TypeOK
    <3>2. SubSeq(todo, n + 1, Len(todo)) \in Seq(Byte)
      BY DEF TypeOK
    <3>3. circ_buf_append(tx_buf, SubSeq(todo, 1, n)) \in CircBufs(TxLen, Byte)
      <4>1. Len(SubSeq(todo, 1, n)) <= circ_buf_free(tx_buf)
        BY <1>a, <2>2, <3>1, AvailRange DEF TypeOK
      <4>. QED
        BY <1>a, <3>1, <4>1, AppendBytes DEF TypeOK
    <3>. QED
      BY <1>3, <2>2, <3>2, <3>3 DEF AppendPiece, TypeOK, line
  <2>. QED
    BY <2>1, <2>2
<1>4. CASE modem_tx_start
  <2>1. GiveUp \/ (pc' = "mark" /\ UNCHANGED <<given, todo>>)
    BY <1>4 DEF modem_tx_start
  <2>. QED
    BY <1>4, <1>c, <2>1 DEF modem_tx_start, TypeOK, line
<1>5. CASE MarkOngoing
  BY <1>5 DEF MarkOngoing, TypeOK
<1>6. CASE PopByte
  BY <1>b, <1>6 DEF PopByte, TypeOK, line
<1>7. CASE Transmit
  BY <1>7, TransmitType DEF Transmit, TypeOK, line
<1>8. CASE ReturnFromTxChar
  BY <1>8 DEF ReturnFromTxChar, TypeOK, line
<1>9. CASE TxISR_Send
  BY <1>9 DEF TxISR_Send, TypeOK, main
<1>10. CASE TxISR_Last
  BY <1>10 DEF TxISR_Last, TypeOK, main, line
<1>11. CASE UART_EndTransmit_IT
  <2>. DEFINE ready == [huart EXCEPT !.TCIE = FALSE, !.gState = "READY"]
  <2>1. ready \in [gState : {"READY", "BUSY_TX"}, TXEIE : BOOLEAN, TCIE : BOOLEAN,
                   TxXferCount : {0, 1}, pTxBuffPtr : Byte, frame : {"live", "dead"}]
    BY DEF TypeOK
  <2>2. CASE SendNext(ready)
    <3>1. huart' \in [gState : {"READY", "BUSY_TX"}, TXEIE : BOOLEAN, TCIE : BOOLEAN,
                      TxXferCount : {0, 1}, pTxBuffPtr : Byte, frame : {"live", "dead"}]
      BY <1>b, <2>1, <2>2, TransmitType DEF SendNext
    <3>. QED
      BY <1>b, <1>11, <2>2, <3>1 DEF UART_EndTransmit_IT, SendNext, TypeOK, main, line
  <2>3. CASE AllSent(ready)
    BY <1>11, <2>1, <2>3 DEF UART_EndTransmit_IT, AllSent, TypeOK, main, line
  <2>. QED
    BY <1>11, <2>2, <2>3 DEF UART_EndTransmit_IT, HAL_UART_TxCpltCallback
<1>12. CASE UNCHANGED vars
  BY <1>12 DEF vars, TypeOK
<1>. QED
  BY <1>1, <1>2, <1>3, <1>4, <1>5, <1>6, <1>7, <1>8, <1>9, <1>10, <1>11, <1>12
  DEF Next, Append_, TxChar, Interrupt

(* The state of modem_tx.c and of the driver keeps its types: in           *)
(* particular the indices of tx_buf never leave the storage.               *)
THEOREM TypeCorrect == Spec => []TypeOK
BY InitType, NextType, PTL DEF Spec

-----------------------------------------------------------------------------
(* After reset nothing is being sent and no interrupt is enabled. *)
LEMMA InitControl == Init => Control
BY DEF Init, Control

(* Every step keeps the control part. *)
LEMMA NextControl == TypeOK /\ Control /\ [Next]_vars => Control'
<1>. SUFFICES ASSUME TypeOK, Control, [Next]_vars PROVE Control'
  OBVIOUS
<1>. USE DEF Control
<1>1. ASSUME NEW c \in Commands, Issue(c) PROVE Control'
  BY <1>1 DEF Issue
<1>2. CASE modem_tx_append
  <2>1. CASE tx_ongoing
    BY <1>2, <2>1 DEF modem_tx_append, GiveUp
  <2>2. CASE ~tx_ongoing
    BY <1>2, <2>2 DEF modem_tx_append, TypeOK
  <2>. QED
    BY <2>1, <2>2
<1>3. CASE AppendPiece
  <2>1. pc = "copy" /\ pc' \in {"idle", "start", "append"} /\ UNCHANGED <<tx_ongoing, huart>>
    BY <1>3 DEF AppendPiece, GiveUp
  <2>. QED
    BY <2>1
<1>4. CASE modem_tx_start
  <2>1. pc = "start" /\ pc' \in {"idle", "mark"} /\ UNCHANGED <<tx_ongoing, huart>>
    BY <1>4 DEF modem_tx_start, GiveUp
  <2>. QED
    BY <2>1
<1>5. CASE MarkOngoing
  BY <1>5 DEF MarkOngoing
<1>6. CASE PopByte
  BY <1>6 DEF PopByte
<1>7. CASE Transmit
  BY <1>7 DEF Transmit, HAL_UART_Transmit_IT, TypeOK
<1>8. CASE ReturnFromTxChar
  BY <1>8 DEF ReturnFromTxChar, TypeOK
<1>9. CASE TxISR_Send
  BY <1>9 DEF TxISR_Send, TypeOK, main
<1>10. CASE TxISR_Last
  BY <1>10 DEF TxISR_Last, TypeOK, main
<1>11. CASE UART_EndTransmit_IT
  <2>. DEFINE ready == [huart EXCEPT !.TCIE = FALSE, !.gState = "READY"]
  <2>1. ready.gState = "READY" /\ ready.TCIE = FALSE /\ ready.TXEIE = huart.TXEIE
        /\ ready.TxXferCount = huart.TxXferCount
    BY DEF TypeOK
  <2>2. huart.TCIE /\ ~huart.TXEIE /\ huart.gState # "READY" /\ UNCHANGED pc
    BY <1>11 DEF UART_EndTransmit_IT, main
  <2>3. CASE SendNext(ready)
    <3>1. huart'.gState = "BUSY_TX" /\ huart'.TXEIE /\ ~huart'.TCIE
      BY <2>1, <2>3 DEF SendNext, HAL_UART_Transmit_IT, TypeOK
    <3>. QED
      BY <2>2, <2>3, <3>1 DEF SendNext, TypeOK
  <2>4. CASE AllSent(ready)
    BY <2>1, <2>2, <2>4 DEF AllSent, TypeOK
  <2>. QED
    BY <1>11, <2>3, <2>4 DEF UART_EndTransmit_IT, HAL_UART_TxCpltCallback
<1>12. CASE UNCHANGED vars
  BY <1>12 DEF vars
<1>. QED
  BY <1>1, <1>2, <1>3, <1>4, <1>5, <1>6, <1>7, <1>8, <1>9, <1>10, <1>11, <1>12
  DEF Next, Append_, TxChar, Interrupt

(* From the test of tx_ongoing to the call of the driver the main loop has *)
(* tx_buf to itself: no interrupt that would pop from it is enabled.       *)
THEOREM MainHasTheRing == Spec => []ExclusiveAccess
<1>1. TypeOK /\ Control => ExclusiveAccess
  BY DEF TypeOK, Control, ExclusiveAccess
<1>. QED
  BY <1>1, InitType, NextType, InitControl, NextControl, PTL DEF Spec

(* The driver is free whenever tx_char calls it, so the status it ignores  *)
(* is HAL_OK; and while tx_ongoing is set an interrupt is enabled that     *)
(* will get to clear it.                                                   *)
THEOREM TransmitterNeverStuck == Spec => []NeverStuck
<1>1. TypeOK /\ Control => NeverStuck
  BY DEF TypeOK, Control, NeverStuck
<1>. QED
  BY <1>1, InitType, NextType, InitControl, NextControl, PTL DEF Spec

-----------------------------------------------------------------------------
(* The data part of the inductive invariant.  While nothing is being sent, *)
(* what the ring holds and what is left to append make up the command the  *)
(* main loop is working on; and what the line has carried and what is left *)
(* to send always make up the command last started.                        *)
Data ==
    /\ pc = "idle" => given = <<>> /\ todo = <<>>
    /\ pc # "idle" => given \in Commands
    /\ pc \in {"start", "mark", "pop", "transmit", "return"} => todo = <<>>
    /\ ~tx_ongoing /\ pc # "return" => Contents(tx_buf) \o todo = given
    /\ ~tx_ongoing /\ pc = "return" => circ_buf_avail(tx_buf) = 0
    /\ tx_ongoing /\ pc = "append" => todo = given
    /\ pc = "pop" => Contents(tx_buf) = given
    /\ intact => wire \o Unsent = cmd

(* What Unsent is in each state of the transmitter. *)
LEMMA UnsentCases ==
    ASSUME TypeOK, Control
    PROVE  /\ ~tx_ongoing => Unsent = <<>>
           /\ tx_ongoing /\ pc = "transmit" => Unsent = <<byte>> \o Contents(tx_buf)
           /\ tx_ongoing /\ huart.TxXferCount = 1
                => Unsent = <<huart.pTxBuffPtr>> \o Contents(tx_buf)
           /\ tx_ongoing /\ pc # "transmit" /\ huart.TxXferCount = 0
                => Unsent = Contents(tx_buf)
<1>1. Contents(tx_buf) \in Seq(Byte)
  BY TxAssumption, ContentsType DEF TypeOK
<1>2. pc = "transmit" => huart.TxXferCount # 1
  BY DEF TypeOK, Control
<1>. QED
  BY <1>1, <1>2 DEF Unsent, TypeOK

(* The same after a step. *)
LEMMA UnsentCasesPrime ==
    ASSUME TypeOK', Control'
    PROVE  /\ ~tx_ongoing' => Unsent' = <<>>
           /\ tx_ongoing' /\ pc' = "transmit" => Unsent' = <<byte'>> \o Contents(tx_buf')
           /\ tx_ongoing' /\ huart'.TxXferCount = 1
                => Unsent' = <<huart'.pTxBuffPtr>> \o Contents(tx_buf')
           /\ tx_ongoing' /\ pc' # "transmit" /\ huart'.TxXferCount = 0
                => Unsent' = Contents(tx_buf')
<1>1. Contents(tx_buf') \in Seq(Byte)
  BY TxAssumption, ContentsType DEF TypeOK
<1>2. pc' = "transmit" => huart'.TxXferCount # 1
  BY DEF TypeOK, Control
<1>. QED
  BY <1>1, <1>2 DEF Unsent, TypeOK

(* After reset there is no command and the ring is empty. *)
LEMMA InitData == Init => Data
<1>. SUFFICES ASSUME Init PROVE Data
  OBVIOUS
<1>1. circ_buf_avail(tx_buf) = 0
  BY TxAssumption DEF Init, EmptyBuf, circ_buf_avail
<1>2. Contents(tx_buf) = <<>>
  BY <1>1, InitType, TxAssumption, ContentsType DEF TypeOK
<1>3. Unsent = <<>>
  BY DEF Init, Unsent
<1>. QED
  BY <1>1, <1>2, <1>3 DEF Init, Data

(* Every step keeps the data part. *)
LEMMA NextData == TypeOK /\ Control /\ Data /\ [Next]_vars => Data'
<1>. SUFFICES ASSUME TypeOK, Control, Data, [Next]_vars PROVE Data'
  OBVIOUS
<1>a. TxLen \in Nat /\ TxLen > 0
  BY TxAssumption
<1>b. \A c \in Commands : c \in Seq(Byte) /\ Len(c) \in 1 .. TxLen - 1 /\ c # <<>>
  BY TxAssumption
<1>c. TypeOK' /\ Control'
  BY NextType, NextControl
<1>d. Contents(tx_buf) \in Seq(Byte) /\ Len(Contents(tx_buf)) = circ_buf_avail(tx_buf)
      /\ circ_buf_avail(tx_buf) \in 0 .. TxLen - 1
  BY <1>a, ContentsType, AvailRange DEF TypeOK
<1>e. wire \in Seq(Byte \cup Clobber) /\ cmd \in Seq(Byte)
  BY DEF TypeOK
<1>1. ASSUME NEW c \in Commands, Issue(c) PROVE Data'
  <2>1. Unsent' = Unsent
    BY <1>1 DEF Issue, Unsent, line
  <2>2. ~tx_ongoing => Contents(tx_buf) \o <<>> = <<>>
    BY <1>1 DEF Issue, Data
  <2>3. ~tx_ongoing => Contents(tx_buf) \o c = c
    BY <1>b, <1>d, <2>2
  <2>. QED
    BY <1>1, <2>1, <2>3 DEF Issue, Data, line
<1>2. CASE modem_tx_append
  <2>1. Unsent' = Unsent
    BY <1>2 DEF modem_tx_append, GiveUp, Unsent, line
  <2>2. CASE tx_ongoing
    BY <1>2, <2>1, <2>2 DEF modem_tx_append, GiveUp, Data, line
  <2>3. CASE ~tx_ongoing
    BY <1>2, <2>1, <2>3 DEF modem_tx_append, Data, line
  <2>. QED
    BY <2>2, <2>3
<1>3. CASE AppendPiece
  <2>1. pc = "copy" /\ ~tx_ongoing /\ UNCHANGED <<tx_ongoing, huart, byte, cmd, wire, intact>>
    BY <1>3 DEF AppendPiece, Control, line
  <2>2. Contents(tx_buf) \o todo = given /\ given \in Commands
    BY <2>1 DEF Data
  <2>3. todo \in Seq(Byte) /\ Len(todo) <= circ_buf_free(tx_buf)
    <3>1. todo \in Seq(Byte)
      BY DEF TypeOK
    <3>2. Len(Contents(tx_buf) \o todo) = circ_buf_avail(tx_buf) + Len(todo)
      BY <1>d, <3>1
    <3>3. circ_buf_free(tx_buf) = TxLen - 1 - circ_buf_avail(tx_buf)
      BY <1>a, AvailRange DEF TypeOK
    <3>4. Len(given) <= TxLen - 1
      BY <1>a, <1>b, <2>2
    <3>. QED
      BY <1>a, <1>d, <2>2, <3>1, <3>2, <3>3, <3>4
  <2>4. circ_buf_free(tx_buf) \in Nat
    BY <1>a, AvailRange DEF TypeOK
  <2>5. PICK n \in 1 .. Len(todo) :
          /\ tx_buf' = circ_buf_append(tx_buf, SubSeq(todo, 1, n))
          /\ todo' = SubSeq(todo, n + 1, Len(todo))
          /\ pc' = IF n = Len(todo) THEN "start" ELSE "append"
          /\ UNCHANGED given
    BY <1>3, <2>3, <2>4 DEF AppendPiece
  <2>. DEFINE p == SubSeq(todo, 1, n)
              q == SubSeq(todo, n + 1, Len(todo))
  <2>6. /\ p \in Seq(Byte) /\ Len(p) = n /\ q \in Seq(Byte) /\ p \o q = todo
        /\ n = Len(todo) => q = <<>>
    BY <2>3
  <2>n. n <= circ_buf_free(tx_buf)
    BY <2>3, <2>4
  <2>p. tx_buf' = circ_buf_append(tx_buf, p) /\ todo' = q /\ given' = given
    BY <2>5
  <2>. HIDE DEF p, q
  <2>7. Contents(tx_buf') = Contents(tx_buf) \o p
    <3>1. Len(p) <= circ_buf_free(tx_buf) /\ tx_buf \in CircBufs(TxLen, Byte)
      BY <2>6, <2>n DEF TypeOK
    <3>2. Contents(circ_buf_append(tx_buf, p)) = Contents(tx_buf) \o p
      BY <1>a, <2>6, <3>1, AppendBytes
    <3>. QED
      BY <2>p, <3>2
  <2>8. Contents(tx_buf') \o todo' = given'
    <3>1. (Contents(tx_buf) \o p) \o q = Contents(tx_buf) \o (p \o q)
      <4>1. Contents(tx_buf) \in Seq(Byte) /\ p \in Seq(Byte) /\ q \in Seq(Byte)
        BY <1>d, <2>6
      <4>. QED
        BY <4>1, ConcatAssoc
    <3>2. Contents(tx_buf') \o todo' = (Contents(tx_buf) \o p) \o q
      BY <2>7, <2>p
    <3>3. Contents(tx_buf) \o (p \o q) = given
      BY <2>2, <2>6
    <3>. QED
      BY <2>p, <3>1, <3>2, <3>3
  <2>9. Unsent = <<>> /\ Unsent' = <<>>
    BY <1>c, <2>1, UnsentCases, UnsentCasesPrime
  <2>. QED
    BY <2>1, <2>2, <2>5, <2>6, <2>8, <2>9, <2>p DEF Data
<1>4. CASE modem_tx_start
  <2>1. pc = "start" /\ ~tx_ongoing
    BY <1>4 DEF modem_tx_start, Control
  <2>2. Contents(tx_buf) = given /\ given \in Commands
    <3>1. Contents(tx_buf) \o <<>> = given /\ given \in Commands
      BY <2>1 DEF Data
    <3>. QED
      BY <1>d, <3>1
  <2>3. circ_buf_avail(tx_buf) # 0
    BY <1>b, <1>d, <2>2
  <2>4. pc' = "mark" /\ UNCHANGED <<given, todo, tx_buf, tx_ongoing, huart, byte, cmd, wire, intact>>
    BY <1>4, <2>1, <2>3 DEF modem_tx_start, line
  <2>5. Unsent' = Unsent
    BY <2>1, <2>4 DEF Unsent
  <2>. QED
    BY <2>1, <2>4, <2>5 DEF Data
<1>5. CASE MarkOngoing
  <2>1. pc = "mark" /\ ~tx_ongoing /\ huart.TxXferCount = 0
    BY <1>5 DEF MarkOngoing, Control, TypeOK
  <2>2. Contents(tx_buf) = given /\ given \in Commands /\ todo = <<>>
    <3>1. Contents(tx_buf) \o <<>> = given /\ given \in Commands /\ todo = <<>>
      BY <2>1 DEF Data
    <3>. QED
      BY <1>d, <3>1
  <2>3. Unsent' = Contents(tx_buf)
    BY <1>c, <1>5, <2>1, UnsentCasesPrime DEF MarkOngoing
  <2>4. <<>> \o Contents(tx_buf) = given
    BY <1>d, <2>2
  <2>. QED
    BY <1>5, <2>2, <2>3, <2>4 DEF MarkOngoing, Data
<1>6. CASE PopByte
  <2>1. pc = "pop" /\ tx_ongoing /\ huart.TxXferCount = 0
    BY <1>6 DEF PopByte, Control, TypeOK
  <2>2. Contents(tx_buf) = given /\ given \in Commands
    BY <2>1 DEF Data
  <2>3. Contents(tx_buf) = <<circ_buf_seek(tx_buf, 0)>> \o Contents(circ_buf_pop(tx_buf))
    <3>1. circ_buf_avail(tx_buf) > 0
      BY <1>b, <1>d, <2>2
    <3>. QED
      BY <1>a, <3>1, PopOldest DEF TypeOK
  <2>4. Unsent = Contents(tx_buf)
    BY <2>1, UnsentCases
  <2>5. Unsent' = <<byte'>> \o Contents(tx_buf')
    BY <1>c, <1>6, <2>1, UnsentCasesPrime DEF PopByte
  <2>6. Unsent' = Unsent
    BY <1>6, <2>3, <2>4, <2>5 DEF PopByte
  <2>. QED
    BY <1>6, <2>1, <2>6 DEF PopByte, Data, line
<1>7. CASE Transmit
  <2>1. pc = "transmit" /\ tx_ongoing /\ huart.gState = "READY"
    BY <1>7 DEF Transmit, Control
  <2>2. huart'.TxXferCount = 1 /\ huart'.pTxBuffPtr = byte
    BY <1>7, <2>1 DEF Transmit, HAL_UART_Transmit_IT, TypeOK
  <2>3. Unsent' = Unsent
    BY <1>c, <1>7, <2>1, <2>2, UnsentCases, UnsentCasesPrime DEF Transmit
  <2>. QED
    BY <1>7, <2>1, <2>3 DEF Transmit, Data, line
<1>8. CASE ReturnFromTxChar
  <2>1. huart'.TxXferCount = huart.TxXferCount /\ huart'.pTxBuffPtr = huart.pTxBuffPtr
    BY <1>8 DEF ReturnFromTxChar, TypeOK
  <2>2. Unsent' = Unsent
    BY <1>8, <2>1 DEF ReturnFromTxChar, Unsent
  <2>3. ~tx_ongoing => Contents(tx_buf) \o <<>> = <<>>
    <3>1. ~tx_ongoing => circ_buf_avail(tx_buf) = 0
      BY <1>8 DEF ReturnFromTxChar, Data
    <3>. QED
      BY <1>d, <3>1
  <2>. QED
    BY <1>8, <2>2, <2>3 DEF ReturnFromTxChar, Data, line
<1>9. CASE TxISR_Send
  <2>1. /\ huart.TXEIE /\ huart.gState = "BUSY_TX" /\ huart.TxXferCount = 1
        /\ UNCHANGED <<tx_buf, tx_ongoing, pc, given, todo, byte, cmd>>
        /\ huart'.TxXferCount = 0
    BY <1>9 DEF TxISR_Send, TypeOK, main
  <2>2. tx_ongoing /\ pc \notin {"pop", "transmit"}
    BY <2>1 DEF Control
  <2>3. Unsent = <<huart.pTxBuffPtr>> \o Contents(tx_buf) /\ Unsent' = Contents(tx_buf)
    BY <1>c, <2>1, <2>2, UnsentCases, UnsentCasesPrime
  <2>4. intact' => intact /\ wire' = Append(wire, huart.pTxBuffPtr)
    BY <1>9 DEF TxISR_Send
  <2>5. huart.pTxBuffPtr \in Byte
    BY DEF TypeOK
  <2>6. Append(wire, huart.pTxBuffPtr) \o Contents(tx_buf)
          = wire \o (<<huart.pTxBuffPtr>> \o Contents(tx_buf))
    BY <1>d, <1>e, <2>5
  <2>. QED
    BY <2>1, <2>2, <2>3, <2>4, <2>6 DEF Data
<1>10. CASE TxISR_Last
  <2>1. huart'.TxXferCount = huart.TxXferCount /\ huart'.pTxBuffPtr = huart.pTxBuffPtr
    BY <1>10 DEF TxISR_Last, TypeOK
  <2>2. Unsent' = Unsent
    BY <1>10, <2>1 DEF TxISR_Last, Unsent, main
  <2>. QED
    BY <1>10, <2>2 DEF TxISR_Last, Data, main, line
<1>11. CASE UART_EndTransmit_IT
  <2>. DEFINE ready == [huart EXCEPT !.TCIE = FALSE, !.gState = "READY"]
  <2>1. ready.gState = "READY" /\ ready.TxXferCount = huart.TxXferCount
    BY DEF TypeOK
  <2>2. /\ huart.TCIE /\ tx_ongoing /\ pc \notin {"copy", "start", "mark", "pop", "transmit"}
        /\ huart.TxXferCount = 0
        /\ UNCHANGED <<pc, given, todo, byte, cmd, wire, intact>>
    BY <1>11 DEF UART_EndTransmit_IT, Control, TypeOK, main, line
  <2>3. Unsent = Contents(tx_buf)
    BY <2>2, UnsentCases
  <2>4. CASE circ_buf_avail(tx_buf) > 0
    <3>1. SendNext(ready)
      BY <1>11, <2>4 DEF UART_EndTransmit_IT, HAL_UART_TxCpltCallback
    <3>2. Contents(tx_buf) = <<circ_buf_seek(tx_buf, 0)>> \o Contents(circ_buf_pop(tx_buf))
      BY <1>a, <2>4, PopOldest DEF TypeOK
    <3>3. huart'.TxXferCount = 1 /\ huart'.pTxBuffPtr = circ_buf_seek(tx_buf, 0)
      BY <2>1, <3>1 DEF SendNext, HAL_UART_Transmit_IT, TypeOK
    <3>4. tx_ongoing' /\ tx_buf' = circ_buf_pop(tx_buf)
      BY <2>2, <3>1 DEF SendNext
    <3>5. Unsent' = <<circ_buf_seek(tx_buf, 0)>> \o Contents(circ_buf_pop(tx_buf))
      BY <1>c, <3>3, <3>4, UnsentCasesPrime
    <3>. QED
      BY <2>2, <2>3, <3>2, <3>4, <3>5 DEF Data
  <2>5. CASE ~(circ_buf_avail(tx_buf) > 0)
    <3>1. AllSent(ready)
      BY <1>11, <2>5 DEF UART_EndTransmit_IT, HAL_UART_TxCpltCallback
    <3>2. ~tx_ongoing' /\ tx_buf' = tx_buf
      BY <3>1 DEF AllSent
    <3>3. circ_buf_avail(tx_buf) = 0 /\ Contents(tx_buf) = <<>>
      BY <1>d, <2>5
    <3>4. Unsent' = Unsent
      BY <1>c, <2>3, <3>2, <3>3, UnsentCasesPrime
    <3>5. <<>> \o todo = todo
      BY DEF TypeOK
    <3>. QED
      BY <2>2, <3>2, <3>3, <3>4, <3>5 DEF Data, TypeOK
  <2>. QED
    BY <2>4, <2>5
<1>12. CASE UNCHANGED vars
  <2>1. Unsent' = Unsent
    BY <1>12 DEF vars, Unsent
  <2>. QED
    BY <1>12, <2>1 DEF vars, Data
<1>. QED
  BY <1>1, <1>2, <1>3, <1>4, <1>5, <1>6, <1>7, <1>8, <1>9, <1>10, <1>11, <1>12
  DEF Next, Append_, TxChar, Interrupt

(* Nothing is left in the ring between commands: a command is refused      *)
(* whole or sent whole, and never glued to the next one.                   *)
THEOREM NothingLeftOver == Spec => []NoResidue
<1>1. TypeOK /\ Data => NoResidue
  <2>. SUFFICES ASSUME TypeOK, Data, pc = "idle", ~tx_ongoing
                PROVE  circ_buf_avail(tx_buf) = 0
    BY DEF NoResidue
  <2>1. Contents(tx_buf) \in Seq(Byte) /\ Len(Contents(tx_buf)) = circ_buf_avail(tx_buf)
    BY TxAssumption, ContentsType DEF TypeOK
  <2>2. Contents(tx_buf) \o <<>> = <<>>
    BY DEF Data
  <2>. QED
    BY <2>1, <2>2
<1>. QED
  BY <1>1, InitType, NextType, InitControl, NextControl, InitData, NextData, PTL DEF Spec

(* As long as the driver reads the byte that tx_char stored, the line      *)
(* carries exactly the bytes of the command, in order.                     *)
THEOREM LineCarriesTheCommand == Spec => []WireIntegrityIfIntact
<1>1. TypeOK /\ Control /\ Data => WireIntegrityIfIntact
  <2>. SUFFICES ASSUME TypeOK, Control, Data, intact
                PROVE  WireIntegrity
    BY DEF WireIntegrityIfIntact
  <2>1. wire \o Unsent = cmd
    BY DEF Data
  <2>2. wire \in Seq(Byte \cup Clobber)
    BY DEF TypeOK
  <2>3. Unsent \in Seq(Byte)
    <3>1. Contents(tx_buf) \in Seq(Byte) /\ byte \in Byte /\ huart.pTxBuffPtr \in Byte
      BY TxAssumption, ContentsType DEF TypeOK
    <3>. QED
      BY <3>1 DEF Unsent
  <2>4. IsPrefix(wire, cmd)
    <3>. HIDE DEF Unsent
    <3>. QED
      BY <2>1, <2>2, <2>3 DEF IsPrefix
  <2>5. ~tx_ongoing => wire = cmd
    <3>1. ~tx_ongoing => wire \o <<>> = cmd
      BY <2>1, UnsentCases
    <3>. QED
      BY <2>2, <3>1
  <2>. QED
    BY <2>4, <2>5 DEF WireIntegrity
<1>. QED
  BY <1>1, InitType, NextType, InitControl, NextControl, InitData, NextData, PTL DEF Spec
-----------------------------------------------------------------------------
(* The channel of TxChannel without its fairness, which stays with TLC.    *)
ChannelSafety == Channel!Init /\ [][Channel!Next]_(Channel!chan)

(* After reset the channel is free and has carried nothing. *)
LEMMA InitChannel == Init => Channel!Init
BY DEF Init, Unsent, Channel!Init

(* Marking the transmission ongoing is the channel's Accept: at that point *)
(* the ring holds the command, and nothing else.                           *)
LEMMA MarkAccepts ==
    ASSUME TypeOK, Control, Data, TypeOK', Control', MarkOngoing
    PROVE  given \in Commands /\ Channel!Accept(given)
<1>1. pc = "mark" /\ ~tx_ongoing /\ huart.TxXferCount = 0
  BY DEF MarkOngoing, Control, TypeOK
<1>2. Contents(tx_buf) = given /\ given \in Commands
  <2>1. Contents(tx_buf) \o <<>> = given /\ given \in Commands
    BY <1>1 DEF Data
  <2>2. Contents(tx_buf) \in Seq(Byte)
    BY TxAssumption, ContentsType DEF TypeOK
  <2>. QED
    BY <2>1, <2>2
<1>3. tx_ongoing' = TRUE /\ pc' = "pop" /\ wire' = <<>> /\ UNCHANGED <<tx_buf, huart>>
  BY DEF MarkOngoing
<1>4. Unsent' = given
  BY <1>1, <1>2, <1>3, UnsentCasesPrime
<1>. QED
  BY <1>1, <1>2, <1>3, <1>4 DEF Channel!Accept

(* A TXE interrupt that has a byte to send is the channel's Emit. *)
LEMMA SendEmits ==
    ASSUME TypeOK, Control, TypeOK', Control', TxISR_Send
    PROVE  Channel!Emit
<1>1. /\ huart.TXEIE /\ huart.gState = "BUSY_TX" /\ huart.TxXferCount = 1
      /\ UNCHANGED <<tx_buf, tx_ongoing, pc>>
      /\ huart'.TxXferCount = 0
  BY DEF TxISR_Send, TypeOK, main
<1>2. tx_ongoing /\ pc \notin {"pop", "transmit"}
  BY <1>1 DEF Control
<1>3. Unsent = <<huart.pTxBuffPtr>> \o Contents(tx_buf) /\ Unsent' = Contents(tx_buf)
  BY <1>1, <1>2, UnsentCases, UnsentCasesPrime
<1>4. Contents(tx_buf) \in Seq(Byte) /\ huart.pTxBuffPtr \in Byte
  BY TxAssumption, ContentsType DEF TypeOK
<1>5. Unsent # <<>> /\ Head(Unsent) = huart.pTxBuffPtr /\ Tail(Unsent) = Unsent'
  <2>. HIDE DEF Unsent
  <2>. QED
    BY <1>3, <1>4
<1>6. \E b \in {huart.pTxBuffPtr} \cup Clobber : wire' = Append(wire, b)
  BY DEF TxISR_Send
<1>. QED
  BY <1>1, <1>2, <1>5, <1>6 DEF Channel!Emit

(* The end of a byte is the channel's Finish when the ring is empty, and   *)
(* otherwise only moves the next byte from the ring into the driver.       *)
LEMMA EndFinishes ==
    ASSUME TypeOK, Control, TypeOK', Control', UART_EndTransmit_IT
    PROVE  Channel!Finish \/ UNCHANGED Channel!chan
<1>. DEFINE ready == [huart EXCEPT !.TCIE = FALSE, !.gState = "READY"]
<1>1. ready.gState = "READY"
  BY DEF TypeOK
<1>2. /\ tx_ongoing /\ pc \notin {"pop", "transmit"} /\ huart.TxXferCount = 0
      /\ UNCHANGED <<pc, byte, wire>>
  BY DEF UART_EndTransmit_IT, Control, TypeOK, main, line
<1>3. Unsent = Contents(tx_buf)
  BY <1>2, UnsentCases
<1>4. CASE circ_buf_avail(tx_buf) > 0
  <2>1. SendNext(ready)
    BY <1>4 DEF UART_EndTransmit_IT, HAL_UART_TxCpltCallback
  <2>2. Contents(tx_buf) = <<circ_buf_seek(tx_buf, 0)>> \o Contents(circ_buf_pop(tx_buf))
    BY <1>4, TxAssumption, PopOldest DEF TypeOK
  <2>3. huart'.TxXferCount = 1 /\ huart'.pTxBuffPtr = circ_buf_seek(tx_buf, 0)
    BY <1>1, <2>1 DEF SendNext, HAL_UART_Transmit_IT, TypeOK
  <2>4. tx_ongoing' = tx_ongoing /\ tx_buf' = circ_buf_pop(tx_buf)
    BY <2>1 DEF SendNext
  <2>5. Unsent' = <<circ_buf_seek(tx_buf, 0)>> \o Contents(circ_buf_pop(tx_buf))
    BY <1>2, <2>3, <2>4, UnsentCasesPrime
  <2>6. Unsent' = Unsent
    BY <1>3, <2>2, <2>5
  <2>. QED
    BY <1>2, <2>4, <2>6 DEF Channel!chan
<1>5. CASE ~(circ_buf_avail(tx_buf) > 0)
  <2>1. AllSent(ready)
    BY <1>5 DEF UART_EndTransmit_IT, HAL_UART_TxCpltCallback
  <2>2. tx_ongoing' = FALSE
    BY <2>1 DEF AllSent
  <2>3. Contents(tx_buf) = <<>>
    <3>1. Contents(tx_buf) \in Seq(Byte) /\ Len(Contents(tx_buf)) = circ_buf_avail(tx_buf)
          /\ circ_buf_avail(tx_buf) \in 0 .. TxLen - 1
      BY TxAssumption, ContentsType, AvailRange DEF TypeOK
    <3>. QED
      BY <1>5, <3>1, TxAssumption
  <2>4. Unsent = <<>> /\ Unsent' = <<>>
    BY <1>3, <2>2, <2>3, UnsentCasesPrime
  <2>. QED
    BY <1>2, <2>2, <2>4 DEF Channel!Finish
<1>. QED
  BY <1>4, <1>5

(* tx_char takes a byte from the ring to its local and hands it to the     *)
(* driver: what is still to be sent stays the same.                        *)
LEMMA TxCharStutters ==
    ASSUME TypeOK, Control, Data, TypeOK', Control', TxChar
    PROVE  UNCHANGED Channel!chan
<1>1. CASE PopByte
  <2>1. pc = "pop" /\ tx_ongoing /\ huart.TxXferCount = 0
        /\ UNCHANGED <<tx_ongoing, huart, wire>>
        /\ pc' = "transmit" /\ byte' = circ_buf_seek(tx_buf, 0) /\ tx_buf' = circ_buf_pop(tx_buf)
    BY <1>1 DEF PopByte, Control, TypeOK, line
  <2>2. circ_buf_avail(tx_buf) > 0
    <3>1. Contents(tx_buf) = given /\ given \in Commands
      BY <2>1 DEF Data
    <3>2. Len(given) > 0
      BY <3>1, TxAssumption
    <3>3. Len(Contents(tx_buf)) = circ_buf_avail(tx_buf)
      BY TxAssumption, ContentsType DEF TypeOK
    <3>. QED
      BY <3>1, <3>2, <3>3
  <2>3. Contents(tx_buf) = <<circ_buf_seek(tx_buf, 0)>> \o Contents(circ_buf_pop(tx_buf))
    BY <2>2, TxAssumption, PopOldest DEF TypeOK
  <2>4. Unsent = Contents(tx_buf)
    BY <2>1, UnsentCases
  <2>5. Unsent' = <<byte'>> \o Contents(tx_buf')
    BY <2>1, UnsentCasesPrime
  <2>6. Unsent' = Unsent
    BY <2>1, <2>3, <2>4, <2>5
  <2>. QED
    BY <2>1, <2>6 DEF Channel!chan
<1>2. CASE Transmit
  <2>1. pc = "transmit" /\ tx_ongoing /\ huart.gState = "READY"
        /\ UNCHANGED <<tx_buf, tx_ongoing, wire>>
    BY <1>2 DEF Transmit, Control, line
  <2>2. huart'.TxXferCount = 1 /\ huart'.pTxBuffPtr = byte
    BY <1>2, <2>1 DEF Transmit, HAL_UART_Transmit_IT, TypeOK
  <2>3. Unsent = <<byte>> \o Contents(tx_buf)
    BY <2>1, UnsentCases
  <2>4. Unsent' = <<byte>> \o Contents(tx_buf)
    BY <2>1, <2>2, UnsentCasesPrime
  <2>. QED
    BY <2>1, <2>3, <2>4 DEF Channel!chan
<1>3. CASE ReturnFromTxChar
  <2>1. huart'.TxXferCount = huart.TxXferCount /\ huart'.pTxBuffPtr = huart.pTxBuffPtr
    BY <1>3 DEF ReturnFromTxChar, TypeOK
  <2>2. Unsent' = Unsent
    BY <1>3, <2>1 DEF ReturnFromTxChar, Unsent
  <2>. QED
    BY <1>3, <2>2 DEF ReturnFromTxChar, Channel!chan, line
<1>. QED
  BY <1>1, <1>2, <1>3 DEF TxChar

(* Until the transmission is marked ongoing nothing is to be sent, however *)
(* much the ring holds already.                                            *)
LEMMA PreparationStutters ==
    ASSUME TypeOK, Control, TypeOK', Control',
           (\E c \in Commands : Issue(c)) \/ Append_ \/ modem_tx_start
    PROVE  UNCHANGED Channel!chan
<1>1. CASE AppendPiece
  <2>1. ~tx_ongoing /\ UNCHANGED <<tx_ongoing, wire>>
    BY <1>1 DEF AppendPiece, Control, line
  <2>2. Unsent = <<>> /\ Unsent' = <<>>
    BY <2>1, UnsentCases, UnsentCasesPrime
  <2>. QED
    BY <2>1, <2>2 DEF Channel!chan
<1>2. CASE (\E c \in Commands : Issue(c)) \/ modem_tx_append \/ modem_tx_start
  <2>1. UNCHANGED <<tx_buf, tx_ongoing, huart, byte, wire>>
    BY <1>2 DEF Issue, modem_tx_append, modem_tx_start, line
  <2>2. pc \in {"idle", "append", "start"} /\ pc' \in {"idle", "append", "copy", "mark"}
    BY <1>2 DEF Issue, modem_tx_append, modem_tx_start, GiveUp
  <2>3. Unsent' = Unsent
    BY <2>1, <2>2 DEF Unsent
  <2>. QED
    BY <2>1, <2>3 DEF Channel!chan
<1>. QED
  BY <1>1, <1>2 DEF Append_

(* Every step of the transmitter is a step of the channel or leaves the    *)
(* channel alone.                                                          *)
LEMMA StepChannel ==
    TypeOK /\ Control /\ Data /\ [Next]_vars => [Channel!Next]_(Channel!chan)
<1>. SUFFICES ASSUME TypeOK, Control, Data, [Next]_vars
              PROVE  Channel!Next \/ UNCHANGED Channel!chan
  OBVIOUS
<1>a. TypeOK' /\ Control'
  BY NextType, NextControl
<1>1. CASE (\E c \in Commands : Issue(c)) \/ Append_ \/ modem_tx_start
  BY <1>a, <1>1, PreparationStutters
<1>2. CASE MarkOngoing
  BY <1>a, <1>2, MarkAccepts DEF Channel!Next
<1>3. CASE TxChar
  BY <1>a, <1>3, TxCharStutters
<1>4. CASE TxISR_Send
  BY <1>a, <1>4, SendEmits DEF Channel!Next
<1>5. CASE TxISR_Last
  <2>1. huart'.TxXferCount = huart.TxXferCount /\ huart'.pTxBuffPtr = huart.pTxBuffPtr
    BY <1>5 DEF TxISR_Last, TypeOK
  <2>2. Unsent' = Unsent
    BY <1>5, <2>1 DEF TxISR_Last, Unsent, main
  <2>. QED
    BY <1>5, <2>2 DEF TxISR_Last, Channel!chan, line
<1>6. CASE UART_EndTransmit_IT
  BY <1>a, <1>6, EndFinishes DEF Channel!Next
<1>7. CASE UNCHANGED vars
  <2>1. Unsent' = Unsent
    BY <1>7 DEF vars, Unsent
  <2>. QED
    BY <1>7, <2>1 DEF vars, Channel!chan
<1>. QED
  BY <1>1, <1>2, <1>3, <1>4, <1>5, <1>6, <1>7 DEF Next, Interrupt

(* modem_tx.c implements the channel, step by step, intact or not: a       *)
(* command is taken only when the last one is out, every byte the line     *)
(* carries is the next one of it or what the dangling pointer reads, and   *)
(* the flag is cleared only when none is left.                             *)
THEOREM TransmitterIsChannel == Spec => ChannelSafety
BY InitType, NextType, InitControl, NextControl, InitData, NextData,
   InitChannel, StepChannel, PTL DEF Spec, ChannelSafety
=============================================================================
