--------------------------- MODULE ModemRxProofs ---------------------------
(***************************************************************************)
(* Proofs about ModemRx, for every ring length, longest datagram and width *)
(* of size_t: what the main loop concludes from circ_buf_avail holds,      *)
(* although the interrupt moves the end index between its two reads.       *)
(***************************************************************************)
EXTENDS ModemRx, CircBufProofs

(* The main loop is between the two reads of circ_buf_avail. *)
Subtracts == pc \in {"pop_sub", "scan_sub", "urc_sub"}

Scans == pc \in {"scan_cmp", "scan_sub", "scan_seek"}

(* What the two reads may have seen.  Between them the interrupt may wrap  *)
(* the end index, but it never unwraps it; and a scan that has compared    *)
(* before the wrap has not come to the wrap yet.                           *)
Reads ==
    /\ Subtracts /\ ~ordered => rx_buf.end < rx_buf.begin
    /\ pc = "scan_sub" /\ ordered => rx_buf.begin + i < RxLen

(* What the scan has passed are received bytes, none of them a terminator. *)
Scanned ==
    Scans => /\ Len(fifo) > 0 /\ i <= Len(fifo)
             /\ ~is_newline(fifo[1])
             /\ \A k \in 1 .. i : ~is_newline(fifo[k])

(* What the main loop is about to consume has been received. *)
Enough ==
    /\ pc = "prompt" => Len(fifo) > 0
    /\ pc = "urc_skip" => Len(fifo) >= needed
    /\ pc = "urc_payload" => Len(fifo) >= msg_len /\ i = msg_len
    /\ pc = "urc_pop" => Len(fifo) >= i

(* What holds of the reception while it is undisturbed.                    *)
Sound ==
    /\ RingIsFifo /\ SeeksReceived /\ LineIsReal /\ HaltOnlyIfFullOrFlushing
    /\ Reads /\ Scanned /\ Enough
    /\ ~overrun

(* Between its two writes a flush has moved begin, unless the interrupt    *)
(* has moved it on.                                                        *)
Flushing == pc = "flush_end" /\ ~clash => rx_buf.begin = 0

(* The inductive invariant.                                                *)
Reception == Flushing /\ (Undisturbed => Sound)

-----------------------------------------------------------------------------
(* The ring has room for something. *)
LEMMA RxLenPositive == RxLen \in Nat /\ RxLen > 0
BY RxAssumption

(* The assertion is reached exactly when the ring cannot take a byte. *)
LEMMA FullIs ==
    ASSUME TypeOK
    PROVE  rx_full <=> circ_buf_avail(rx_buf) = RxLen - 1
<1>1. rx_buf \in CircBufs(RxLen, Byte)
  BY DEF TypeOK
<1>2. /\ circ_buf_avail(rx_buf) \in 0 .. RxLen - 1
      /\ circ_buf_free(rx_buf) = RxLen - 1 - circ_buf_avail(rx_buf)
  BY <1>1, RxLenPositive, AvailRange
<1>. QED
  BY <1>2, RxLenPositive DEF rx_full

(* Dropping the oldest byte of a full ring makes room for one.             *)
LEMMA RoomMade ==
    ASSUME TypeOK, rx_full
    PROVE  /\ circ_buf_pop(rx_buf) \in CircBufs(RxLen, Byte)
           /\ circ_buf_free(circ_buf_pop(rx_buf)) # 0
           /\ Contents(circ_buf_pop(rx_buf)) = SubSeq(Contents(rx_buf), 2, Len(Contents(rx_buf)))
<1>1. rx_buf \in CircBufs(RxLen, Byte)
  BY DEF TypeOK
<1>2. circ_buf_avail(rx_buf) = RxLen - 1 /\ RxLen \in Nat /\ RxLen > 2
  BY FullIs, RxAssumption
<1>3. 1 \in 0 .. circ_buf_avail(rx_buf)
  BY <1>2
<1>4. /\ circ_buf_pop(rx_buf) \in CircBufs(RxLen, Byte)
      /\ circ_buf_avail(circ_buf_pop(rx_buf)) = RxLen - 2
  BY <1>1, <1>2, <1>3, RxLenPositive, AdvanceN DEF circ_buf_pop
<1>5. circ_buf_free(circ_buf_pop(rx_buf)) = 1
  <2>1. circ_buf_pop(rx_buf).len = RxLen
    BY <1>4 DEF CircBufs
  <2>. QED
    BY <1>2, <1>4, <2>1 DEF circ_buf_free
<1>6. Contents(circ_buf_pop(rx_buf)) = SubSeq(Contents(rx_buf), 1 + 1, Len(Contents(rx_buf)))
  BY <1>1, <1>3, RxLenPositive, AdvanceContents DEF circ_buf_pop
<1>. QED
  BY <1>4, <1>5, <1>6

(* What is left of a sequence of bytes is one. *)
LEMMA AfterType ==
    ASSUME TypeOK, NEW n \in Nat
    PROVE  After(n) \in Seq(Byte)
<1>1. fifo \in Seq(Byte)
  BY DEF TypeOK
<1>. QED
  BY <1>1 DEF After

(* The interrupt leaves a ring, whether it stores its byte, stops the      *)
(* program or makes room.                                                  *)
LEMMA ArrivalType ==
    ASSUME TypeOK, NEW byte \in Byte, HAL_UART_RxCpltCallback(byte)
    PROVE  /\ rx_buf' \in CircBufs(RxLen, Byte) /\ fifo' \in Seq(Byte)
           /\ halted' \in BOOLEAN /\ clash' \in BOOLEAN
<1>0. /\ rx_buf \in CircBufs(RxLen, Byte) /\ fifo \in Seq(Byte)
      /\ halted \in BOOLEAN /\ clash \in BOOLEAN
  BY DEF TypeOK
<1>1. ASSUME NEW bytes \in Seq(Byte), Record(bytes)
      PROVE  fifo' \in Seq(Byte)
  <2>1. <<>> \in Seq(Byte)
    OBVIOUS
  <2>. QED
    BY <1>1, <2>1, Zenon DEF Record
<1>2. CASE Overflow
  BY <1>0, <1>2 DEF Overflow
<1>3. CASE Store(byte)
  <2>1. circ_buf_push(rx_buf, byte) \in CircBufs(RxLen, Byte)
    BY <1>0, <1>3, RxLenPositive, PushByte DEF Store, rx_full
  <2>2. Append(fifo, byte) \in Seq(Byte)
    BY <1>0
  <2>3. fifo' \in Seq(Byte)
    BY <1>1, <1>3, <2>2, Zenon DEF Store
  <2>. QED
    BY <1>0, <1>3, <2>1, <2>3 DEF Store
<1>4. CASE DropOldest(byte)
  <2>1. /\ circ_buf_pop(rx_buf) \in CircBufs(RxLen, Byte)
        /\ circ_buf_free(circ_buf_pop(rx_buf)) # 0
    BY <1>4, RoomMade DEF DropOldest
  <2>2. circ_buf_push(circ_buf_pop(rx_buf), byte) \in CircBufs(RxLen, Byte)
    BY <2>1, RxLenPositive, PushByte
  <2>3. After(1) \in Seq(Byte)
    BY AfterType
  <2>4. Append(After(1), byte) \in Seq(Byte)
    BY <2>3
  <2>5. fifo' \in Seq(Byte)
    BY <1>1, <1>4, <2>4, Zenon DEF DropOldest
  <2>6. clash' \in BOOLEAN
    BY <1>4, Zenon DEF DropOldest
  <2>. QED
    BY <1>0, <1>4, <2>2, <2>5, <2>6 DEF DropOldest
<1>. QED
  BY <1>2, <1>3, <1>4 DEF HAL_UART_RxCpltCallback

(* Consuming leaves a ring, too, even when more is consumed than is there. *)
LEMMA ConsumeType ==
    ASSUME TypeOK, NEW n \in Nat, Consume(n)
    PROVE  /\ rx_buf' \in CircBufs(RxLen, Byte) /\ fifo' \in Seq(Byte)
           /\ overrun' \in BOOLEAN /\ UNCHANGED <<halted, torn, clash>>
<1>1. rx_buf \in CircBufs(RxLen, Byte) /\ fifo \in Seq(Byte) /\ overrun \in BOOLEAN
  BY DEF TypeOK
<1>2. circ_buf_advance_n(rx_buf, n) \in CircBufs(RxLen, Byte)
  BY <1>1, RxLenPositive, AdvanceType
<1>3. After(n) \in Seq(Byte)
  BY AfterType
<1>. QED
  BY <1>1, <1>2, <1>3 DEF Consume

LEMMA InitType == Init => TypeOK
<1>. SUFFICES ASSUME Init PROVE TypeOK
  OBVIOUS
<1>1. EmptyBuf(RxLen, "ch") \in CircBufs(RxLen, Byte)
  BY RxLenPositive DEF EmptyBuf, CircBufs, Byte
<1>2. 0 \in 0 .. MaxMsg /\ <<>> \in Seq(Byte)
  BY RxAssumption
<1>. QED
  BY <1>1, <1>2 DEF Init, TypeOK

LEMMA NextType == TypeOK /\ [Next]_vars => TypeOK'
<1>. SUFFICES ASSUME TypeOK, [Next]_vars PROVE TypeOK'
  OBVIOUS
<1>. USE DEF Goto, Keep, Return, locals, history
<1>m. MaxMsg \in Nat /\ 0 \in 0 .. MaxMsg
  BY RxAssumption
<1>1. ASSUME NEW byte \in Byte, HAL_UART_RxCpltCallback(byte)
      PROVE  TypeOK'
  <2>1. /\ rx_buf' \in CircBufs(RxLen, Byte) /\ fifo' \in Seq(Byte)
        /\ halted' \in BOOLEAN /\ clash' \in BOOLEAN
    BY <1>1, ArrivalType
  <2>. QED
    BY <1>1, <2>1 DEF HAL_UART_RxCpltCallback, TypeOK
<1>2. ASSUME NEW next \in {"scan", "prompt"}, Call(next)
      PROVE  TypeOK'
  BY <1>2 DEF Call, TypeOK
<1>3. CASE FlushBegin
  <2>1. [rx_buf EXCEPT !.begin = 0] \in CircBufs(RxLen, Byte)
    BY RxLenPositive DEF TypeOK, CircBufs
  <2>. QED
    BY <1>3, <2>1 DEF FlushBegin, TypeOK
<1>4. CASE FlushEnd
  <2>1. [rx_buf EXCEPT !.end = 0] \in CircBufs(RxLen, Byte)
    BY RxLenPositive DEF TypeOK, CircBufs
  <2>. QED
    BY <1>4, <2>1 DEF FlushEnd, TypeOK
<1>5. CASE \/ AvailCompare("pop_cmp", "pop_sub") \/ AvailCompare("scan_cmp", "scan_sub")
           \/ AvailCompare("urc_cmp", "urc_sub")
  <2>1. ordered' \in BOOLEAN
    <3>1. ordered' = (rx_buf.begin <= rx_buf.end)
      BY <1>5, Zenon DEF AvailCompare
    <3>2. rx_buf.begin \in Nat /\ rx_buf.end \in Nat
      BY DEF TypeOK, CircBufs
    <3>3. CASE rx_buf.begin <= rx_buf.end
      BY <3>1, <3>3
    <3>4. CASE ~(rx_buf.begin <= rx_buf.end)
      BY <3>1, <3>4
    <3>. QED
      BY <3>3, <3>4
  <2>2. UNCHANGED <<rx_buf, halted, then, locals, history>>
        /\ pc' \in {"pop_sub", "scan_sub", "urc_sub"}
    BY <1>5 DEF AvailCompare
  <2>. QED
    BY <2>1, <2>2 DEF TypeOK
<1>6. CASE PopLoopTest \/ ScanLoopTest
  <2>. HIDE DEF avail
  <2>1. UNCHANGED <<rx_buf, halted, history>>
    BY <1>6 DEF PopLoopTest, ScanLoopTest
  <2>2. /\ pc' \in {"idle", "pop_seek", "scan_seek"}
        /\ then' \in {"scan", "prompt"} /\ ordered' \in BOOLEAN
        /\ i' \in Nat /\ line_len' \in Nat /\ msg_len' \in 0 .. MaxMsg
    <3>1. CASE Return("pop_sub")
      BY <1>m, <3>1 DEF TypeOK
    <3>2. CASE Return("scan_sub")
      BY <1>m, <3>2 DEF TypeOK
    <3>3. CASE Goto("pop_sub", "pop_seek") /\ Keep
      BY <3>3 DEF TypeOK
    <3>4. CASE Goto("scan_sub", "scan_seek") /\ Keep
      BY <3>4 DEF TypeOK
    <3>. HIDE DEF Goto, Keep, Return
    <3>. QED
      BY <1>6, <3>1, <3>2, <3>3, <3>4 DEF PopLoopTest, ScanLoopTest
  <2>. QED
    BY <2>1, <2>2 DEF TypeOK
<1>7. CASE PopNewline
  <2>1. /\ rx_buf' \in CircBufs(RxLen, Byte) /\ fifo' \in Seq(Byte)
        /\ overrun' \in BOOLEAN /\ UNCHANGED <<halted, torn, clash>>
    BY <1>7, ConsumeType DEF PopNewline
  <2>. QED
    BY <1>7, <2>1 DEF PopNewline, TypeOK
<1>8. CASE NewlinesPopped
  BY <1>8 DEF NewlinesPopped, TypeOK
<1>9. CASE SkipPrompt
  <2>1. /\ rx_buf' \in CircBufs(RxLen, Byte) /\ fifo' \in Seq(Byte)
        /\ overrun' \in BOOLEAN /\ UNCHANGED <<halted, torn, clash>>
    BY <1>9, ConsumeType DEF SkipPrompt
  <2>. QED
    BY <1>9, <1>m, <2>1 DEF SkipPrompt, TypeOK
<1>10. CASE NotThePrompt
  BY <1>10 DEF NotThePrompt, TypeOK
<1>11. CASE LineFound
  BY <1>11 DEF LineFound, TypeOK
<1>12. CASE NotYetNewline
  BY <1>12 DEF NotYetNewline, TypeOK
<1>13. CASE LineDone
  <2>1. /\ rx_buf' \in CircBufs(RxLen, Byte) /\ fifo' \in Seq(Byte)
        /\ overrun' \in BOOLEAN /\ UNCHANGED <<halted, torn, clash>>
    BY <1>13, ConsumeType DEF LineDone, TypeOK
  <2>. QED
    BY <1>13, <1>m, <2>1 DEF LineDone, TypeOK
<1>14. ASSUME NEW n \in 0 .. MaxMsg, DatagramHeader(n)
       PROVE  TypeOK'
  BY <1>14 DEF DatagramHeader, TypeOK
<1>15. CASE DatagramCheck
  <2>1. torn' \in BOOLEAN /\ UNCHANGED <<rx_buf, halted, fifo, clash, overrun>>
    BY <1>15 DEF DatagramCheck, TypeOK
  <2>2. /\ pc' \in {"idle", "urc_skip"}
        /\ then' \in {"scan", "prompt"} /\ ordered' \in BOOLEAN
        /\ i' \in Nat /\ line_len' \in Nat /\ msg_len' \in 0 .. MaxMsg
    <3>1. CASE Return("urc_sub")
      BY <1>m, <3>1 DEF TypeOK
    <3>2. CASE Goto("urc_sub", "urc_skip") /\ Keep
      BY <3>2 DEF TypeOK
    <3>. QED
      BY <1>15, <3>1, <3>2, Zenon DEF DatagramCheck
  <2>. QED
    BY <2>1, <2>2 DEF TypeOK
<1>16. CASE SkipHeader
  <2>1. line_len + 2 \in Nat /\ msg_len \in Nat
    BY <1>m DEF TypeOK
  <2>2. /\ rx_buf' \in CircBufs(RxLen, Byte) /\ fifo' \in Seq(Byte)
        /\ overrun' \in BOOLEAN /\ UNCHANGED <<halted, torn, clash>>
    BY <1>16, <2>1, ConsumeType DEF SkipHeader
  <2>. QED
    BY <1>16, <2>1, <2>2 DEF SkipHeader, TypeOK
<1>17. CASE DropPayload
  <2>1. msg_len \in Nat
    BY <1>m DEF TypeOK
  <2>2. /\ rx_buf' \in CircBufs(RxLen, Byte) /\ fifo' \in Seq(Byte)
        /\ overrun' \in BOOLEAN /\ UNCHANGED <<halted, torn, clash>>
    BY <1>17, <2>1, ConsumeType DEF DropPayload
  <2>. QED
    BY <1>17, <1>m, <2>2 DEF DropPayload, TypeOK
<1>18. CASE PopPayload \/ PayloadDone
  BY <1>18, <1>m DEF PopPayload, PayloadDone, TypeOK
<1>19. CASE PopPayloadByte
  <2>1. /\ rx_buf' \in CircBufs(RxLen, Byte) /\ fifo' \in Seq(Byte)
        /\ overrun' \in BOOLEAN /\ UNCHANGED <<halted, torn, clash>>
    BY <1>19, ConsumeType DEF PopPayloadByte
  <2>. QED
    BY <1>19, <2>1 DEF PopPayloadByte, TypeOK
<1>20. CASE UNCHANGED vars
  BY <1>20 DEF vars, TypeOK
<1>. QED
  BY <1>1, <1>2, <1>3, <1>4, <1>5, <1>6, <1>7, <1>8, <1>9, <1>10, <1>11, <1>12, <1>13, <1>14,
     <1>15, <1>16, <1>17, <1>18, <1>19, <1>20 DEF Next, Running

(* The indices stay within the storage, whatever the main loop takes for   *)
(* received and however far it consumes.                                   *)
THEOREM TypeCorrect == Spec => []TypeOK
<1>1. Init => TypeOK
  BY InitType
<1>2. TypeOK /\ [Next]_vars => TypeOK'
  BY NextType
<1>. QED
  BY <1>1, <1>2, PTL DEF Spec

-----------------------------------------------------------------------------
(* The ring holds what was received: how much, and which bytes.            *)
LEMMA RingHolds ==
    ASSUME TypeOK, Contents(rx_buf) = fifo
    PROVE  /\ rx_buf.begin \in 0 .. RxLen - 1 /\ rx_buf.end \in 0 .. RxLen - 1
           /\ Len(fifo) \in 0 .. RxLen - 1
           /\ Len(fifo) = circ_buf_avail(rx_buf)
           /\ Len(fifo) = IF rx_buf.begin <= rx_buf.end THEN rx_buf.end - rx_buf.begin
                          ELSE RxLen - rx_buf.begin + rx_buf.end
           /\ \A k \in 1 .. Len(fifo) : circ_buf_seek(rx_buf, k - 1) = fifo[k]
<1>1. rx_buf \in CircBufs(RxLen, Byte)
  BY DEF TypeOK
<1>2. /\ rx_buf.begin \in 0 .. RxLen - 1 /\ rx_buf.end \in 0 .. RxLen - 1
      /\ rx_buf.len = RxLen
  BY <1>1 DEF CircBufs
<1>3. circ_buf_avail(rx_buf) \in 0 .. RxLen - 1
  BY <1>1, RxLenPositive, AvailRange
<1>4. /\ Len(fifo) = circ_buf_avail(rx_buf)
      /\ \A k \in 1 .. circ_buf_avail(rx_buf) : circ_buf_seek(rx_buf, k - 1) = fifo[k]
  <2>1. /\ Len(Contents(rx_buf)) = circ_buf_avail(rx_buf)
        /\ \A k \in 1 .. circ_buf_avail(rx_buf) :
               Contents(rx_buf)[k] = circ_buf_seek(rx_buf, k - 1)
    BY <1>1, RxLenPositive, ContentsType
  <2>. QED
    BY <2>1
<1>. QED
  BY <1>2, <1>3, <1>4 DEF circ_buf_avail

(* A difference on an unsigned type. *)
LEMMA UnsignedDifference ==
    ASSUME NEW m \in Nat, m > 0, NEW t \in 0 .. m - 1, NEW s \in 0 .. m - 1
    PROVE  (t - s) % m = IF s <= t THEN t - s ELSE t - s + m
BY SMT

(* What the subtraction gives: the bytes held, or, when the end index has  *)
(* wrapped since the comparison, a huge number.                            *)
LEMMA AvailRead ==
    ASSUME TypeOK, Contents(rx_buf) = fifo, Subtracts, Reads
    PROVE  /\ avail \in Nat
           /\ ~(ordered /\ rx_buf.end < rx_buf.begin) => avail = Len(fifo)
           /\ ordered /\ rx_buf.end < rx_buf.begin
                => avail = SizeMod + rx_buf.end - rx_buf.begin
<1>1. /\ rx_buf.begin \in 0 .. RxLen - 1 /\ rx_buf.end \in 0 .. RxLen - 1
      /\ Len(fifo) \in 0 .. RxLen - 1
      /\ Len(fifo) = IF rx_buf.begin <= rx_buf.end THEN rx_buf.end - rx_buf.begin
                     ELSE RxLen - rx_buf.begin + rx_buf.end
  BY RingHolds
<1>2. SizeMod \in Nat /\ RxLen \in Nat /\ SizeMod > 2 * RxLen
  BY RxAssumption
<1>3. /\ rx_buf.begin \in 0 .. SizeMod - 1 /\ rx_buf.end \in 0 .. SizeMod - 1
      /\ SizeMod > 0
  BY <1>1, <1>2
<1>4. CASE ordered
  <2>1. (rx_buf.end - rx_buf.begin) % SizeMod
          = IF rx_buf.begin <= rx_buf.end THEN rx_buf.end - rx_buf.begin
                                          ELSE rx_buf.end - rx_buf.begin + SizeMod
    BY <1>2, <1>3, UnsignedDifference
  <2>. QED
    BY <1>1, <1>2, <1>4, <2>1 DEF avail
<1>5. CASE ~ordered
  <2>1. rx_buf.end < rx_buf.begin /\ rx_buf.len = RxLen
    BY <1>5 DEF Reads, TypeOK, CircBufs
  <2>. QED
    BY <1>1, <1>2, <1>5, <2>1 DEF avail
<1>. QED
  BY <1>4, <1>5

(* Consuming no more than was received takes it off the front.             *)
LEMMA ConsumeFront ==
    ASSUME TypeOK, Contents(rx_buf) = fifo, NEW n \in 0 .. Len(fifo), Consume(n)
    PROVE  /\ Contents(rx_buf)' = fifo'
           /\ Len(fifo') = Len(fifo) - n
           /\ overrun' = overrun /\ halted' = halted
<1>1. rx_buf \in CircBufs(RxLen, Byte) /\ fifo \in Seq(Byte) /\ overrun \in BOOLEAN
  BY DEF TypeOK
<1>2. Len(fifo) = circ_buf_avail(rx_buf) /\ Len(fifo) \in Nat
  BY <1>1, RingHolds
<1>3. /\ rx_buf' = circ_buf_advance_n(rx_buf, n)
      /\ fifo' = SubSeq(fifo, n + 1, Len(fifo))
      /\ halted' = halted
  BY <1>2 DEF Consume, After
<1>4. Contents(circ_buf_advance_n(rx_buf, n)) = SubSeq(fifo, n + 1, Len(fifo))
  <2>1. n \in 0 .. circ_buf_avail(rx_buf)
    BY <1>2
  <2>. QED
    BY <1>1, <2>1, RxLenPositive, AdvanceContents
<1>5. overrun' = overrun
  BY <1>1, <1>2 DEF Consume
<1>. QED
  BY <1>1, <1>2, <1>3, <1>4, <1>5

(* A byte arrives.  What was concluded from the bytes received before      *)
(* still holds; a torn read is torn by this byte; and when it takes the    *)
(* place of another, nothing had been concluded.                           *)
LEMMA ArrivalSound ==
    ASSUME TypeOK, Undisturbed, Undisturbed', Sound,
           NEW byte \in Byte, HAL_UART_RxCpltCallback(byte)
    PROVE  Sound'
<1>1. UNCHANGED <<pc, then, ordered, locals, torn, overrun>> /\ ~halted
  BY DEF HAL_UART_RxCpltCallback
<1>0. ~torn /\ ~clash /\ ~clash'
  BY DEF Undisturbed
<1>2. CASE Overflow
  <2>1. rx_buf' = rx_buf /\ fifo' = fifo /\ halted'
    BY <1>2 DEF Overflow
  <2>2. pc # "flush_end" => Len(fifo) = RxLen - 1
    BY <1>2, FullIs, RingHolds DEF Overflow, Sound, RingIsFifo
  <2>. QED
    BY <1>1, <2>1, <2>2 DEF locals, Sound, RingIsFifo, SeeksReceived, LineIsReal, Reads, Scanned,
       Enough, needed, Subtracts, Scans, HaltOnlyIfFullOrFlushing
<1>3. CASE Store(byte)
  <2>0. fifo' = Append(fifo, byte)
    BY <1>0, <1>3, Zenon DEF Store, Record
  <2>1. rx_buf' = circ_buf_push(rx_buf, byte) /\ ~halted'
    BY <1>1, <1>3 DEF Store
  <2>2. rx_buf \in CircBufs(RxLen, Byte) /\ fifo \in Seq(Byte)
        /\ i \in Nat /\ line_len \in Nat /\ msg_len \in Nat
    BY RxAssumption DEF TypeOK
  <2>3. /\ Contents(rx_buf') = Append(Contents(rx_buf), byte)
        /\ rx_buf'.begin = rx_buf.begin
        /\ rx_buf.end < rx_buf.begin => rx_buf'.end < rx_buf.begin
    BY <1>3, <2>1, <2>2, RxLenPositive, PushByte DEF Store, rx_full
  <2>4. /\ Len(fifo') = Len(fifo) + 1
        /\ \A k \in 1 .. Len(fifo) : fifo'[k] = fifo[k]
    BY <2>0, <2>2
  <2>5. RingIsFifo'
    BY <1>0, <1>1, <2>0, <2>3 DEF Sound, RingIsFifo, Undisturbed
  <2>6. SeeksReceived' /\ Enough'
    BY <1>1, <2>2, <2>4 DEF locals, Sound, SeeksReceived, Enough, needed
  <2>7. LineIsReal'
    BY <1>1, <2>2, <2>4 DEF locals, Sound, LineIsReal
  <2>8. Scanned'
    BY <1>1, <2>2, <2>4 DEF locals, Sound, Scanned, Scans
  <2>9. Reads'
    BY <1>1, <2>2, <2>3 DEF locals, Sound, Reads, Subtracts
  <2>. QED
    BY <1>1, <2>1, <2>5, <2>6, <2>7, <2>8, <2>9 DEF Sound, HaltOnlyIfFullOrFlushing
<1>4. CASE DropOldest(byte)
  <2>1. pc = "idle" /\ fifo' = Append(After(1), byte)
    BY <1>0, <1>4, Zenon DEF DropOldest, Record
  <2>2. rx_buf' = circ_buf_push(circ_buf_pop(rx_buf), byte) /\ ~halted'
    BY <1>1, <1>4 DEF DropOldest
  <2>3. /\ circ_buf_pop(rx_buf) \in CircBufs(RxLen, Byte)
        /\ circ_buf_free(circ_buf_pop(rx_buf)) # 0
        /\ Contents(circ_buf_pop(rx_buf)) = SubSeq(Contents(rx_buf), 2, Len(Contents(rx_buf)))
    BY <1>4, RoomMade DEF DropOldest
  <2>4. Contents(rx_buf') = Append(Contents(circ_buf_pop(rx_buf)), byte)
    <3>1. \A buf \in CircBufs(RxLen, Byte) : circ_buf_free(buf) # 0
            => Contents(circ_buf_push(buf, byte)) = Append(Contents(buf), byte)
      BY RxLenPositive, PushByte
    <3>. QED
      BY <2>2, <2>3, <3>1, Zenon
  <2>5. Contents(rx_buf) = fifo
    BY <2>1 DEF Sound, RingIsFifo
  <2>6. After(1) = SubSeq(fifo, 2, Len(fifo))
    <3>1. Len(fifo) = RxLen - 1 /\ RxLen \in Nat /\ RxLen > 2
      BY <1>4, <2>5, FullIs, RingHolds, RxAssumption DEF DropOldest
    <3>. QED
      BY <3>1 DEF After
  <2>7. RingIsFifo'
    BY <2>1, <2>3, <2>4, <2>5, <2>6 DEF RingIsFifo
  <2>. QED
    BY <1>1, <2>1, <2>2, <2>7 DEF Sound, SeeksReceived, LineIsReal, Reads, Scanned, Enough,
       Subtracts, Scans, HaltOnlyIfFullOrFlushing
<1>. QED
  BY <1>2, <1>3, <1>4 DEF HAL_UART_RxCpltCallback

(* Steps of the main loop that consume nothing.                            *)
LEMMA LookSound ==
    ASSUME TypeOK, Undisturbed, Undisturbed', Sound,
           \/ \E next \in {"scan", "prompt"} : Call(next)
           \/ AvailCompare("pop_cmp", "pop_sub") \/ AvailCompare("scan_cmp", "scan_sub")
           \/ AvailCompare("urc_cmp", "urc_sub")
           \/ PopLoopTest \/ NewlinesPopped \/ NotThePrompt
           \/ ScanLoopTest \/ LineFound \/ NotYetNewline
           \/ \E n \in 0 .. MaxMsg : DatagramHeader(n)
           \/ DatagramCheck
           \/ PopPayload \/ PayloadDone
    PROVE  Sound'
<1>. USE DEF Goto, Keep, Return, locals, history
<1>0. ~halted /\ pc # "flush_end"
  BY DEF Call, AvailCompare, PopLoopTest, NewlinesPopped, NotThePrompt, ScanLoopTest, LineFound,
     NotYetNewline, DatagramHeader, DatagramCheck, PopPayload, PayloadDone
<1>1. Contents(rx_buf) = fifo
  BY <1>0 DEF Sound, RingIsFifo
<1>2. /\ rx_buf.begin \in 0 .. RxLen - 1 /\ rx_buf.end \in 0 .. RxLen - 1
      /\ Len(fifo) \in 0 .. RxLen - 1
      /\ Len(fifo) = IF rx_buf.begin <= rx_buf.end THEN rx_buf.end - rx_buf.begin
                     ELSE RxLen - rx_buf.begin + rx_buf.end
      /\ \A k \in 1 .. Len(fifo) : circ_buf_seek(rx_buf, k - 1) = fifo[k]
  BY <1>1, RingHolds
<1>3. UNCHANGED <<rx_buf, halted, fifo, overrun>> /\ ~torn'
  BY DEF Undisturbed, Call, AvailCompare, PopLoopTest, NewlinesPopped, NotThePrompt, ScanLoopTest, LineFound,
     NotYetNewline, DatagramHeader, DatagramCheck, PopPayload, PayloadDone
<1>4. i \in Nat /\ line_len \in Nat /\ msg_len \in Nat /\ RxLen \in Nat
  BY RxAssumption DEF TypeOK
<1>5. RingIsFifo' /\ HaltOnlyIfFullOrFlushing' /\ ~overrun'
  BY <1>0, <1>1, <1>3 DEF Sound, RingIsFifo, HaltOnlyIfFullOrFlushing
<1>. SUFFICES SeeksReceived' /\ LineIsReal' /\ Reads' /\ Scanned' /\ Enough'
  BY <1>5 DEF Sound
<1>. USE DEF SeeksReceived, LineIsReal, Reads, Scanned, Enough, Subtracts, Scans, needed
<1>6. CASE \E next \in {"scan", "prompt"} : Call(next)
  BY <1>6 DEF Call
<1>7. ASSUME NEW from, NEW to, AvailCompare(from, to)
      PROVE  /\ ordered' => rx_buf.begin <= rx_buf.end
             /\ ~ordered' => rx_buf.end < rx_buf.begin
  <2>1. ordered' = (rx_buf.begin <= rx_buf.end)
    BY <1>7 DEF AvailCompare
  <2>2. CASE rx_buf.begin <= rx_buf.end
    BY <2>1, <2>2
  <2>3. CASE ~(rx_buf.begin <= rx_buf.end)
    <3>1. ~ordered'
      BY <2>1, <2>3, Zenon
    <3>. QED
      BY <1>2, <2>3, <3>1
  <2>. QED
    BY <2>2, <2>3
<1>8. CASE AvailCompare("pop_cmp", "pop_sub") \/ AvailCompare("scan_cmp", "scan_sub")
           \/ AvailCompare("urc_cmp", "urc_sub")
  <2>1. /\ ordered' => rx_buf.begin <= rx_buf.end
        /\ ~ordered' => rx_buf.end < rx_buf.begin
    BY <1>7, <1>8
  <2>2. UNCHANGED <<then, locals>>
    BY <1>8 DEF AvailCompare
  <2>3. \/ pc = "pop_cmp" /\ pc' = "pop_sub"
        \/ pc = "scan_cmp" /\ pc' = "scan_sub"
        \/ pc = "urc_cmp" /\ pc' = "urc_sub"
    BY <1>8 DEF AvailCompare
  <2>4. Scanned' /\ LineIsReal' /\ Enough' /\ SeeksReceived'
    BY <1>3, <2>2, <2>3 DEF Sound
  <2>5. Reads'
    <3>1. pc' = "scan_sub" => i <= Len(fifo)
      BY <2>3 DEF Sound
    <3>. QED
      BY <1>2, <1>3, <1>4, <2>1, <2>2, <2>3, <3>1
  <2>. QED
    BY <2>4, <2>5
<1>10. CASE PopLoopTest
  <2>1. avail > 0 /\ pc = "pop_sub" => Len(fifo) > 0
    <3>1. /\ avail \in Nat
          /\ ~(ordered /\ rx_buf.end < rx_buf.begin) => avail = Len(fifo)
      BY <1>1, <1>10, AvailRead DEF PopLoopTest, Sound
    <3>. QED
      BY <1>2, <1>4, <3>1
  <2>. HIDE DEF avail
  <2>2. CASE Return("pop_sub")
    BY <2>2
  <2>3. CASE avail > 0 /\ Goto("pop_sub", "pop_seek")
    BY <1>3, <2>1, <2>3
  <2>. QED
    BY <1>10, <2>2, <2>3 DEF PopLoopTest
<1>11. CASE NewlinesPopped
  <2>1. Len(fifo) > 0 /\ ~is_newline(fifo[1])
    <3>1. Len(fifo) > 0
      BY <1>11 DEF NewlinesPopped, Sound
    <3>2. circ_buf_seek(rx_buf, 0) = fifo[1]
      BY <1>2, <3>1
    <3>. QED
      BY <1>11, <3>1, <3>2 DEF NewlinesPopped
  <2>. QED
    BY <1>2, <1>3, <1>11, <2>1 DEF NewlinesPopped
<1>12. CASE NotThePrompt
  BY <1>12 DEF NotThePrompt
<1>13. CASE ScanLoopTest
  <2>1. pc = "scan_sub" /\ i < avail => i < Len(fifo)
    BY <1>1, <1>2, <1>4, AvailRead DEF Sound
  <2>. HIDE DEF avail
  <2>2. CASE Return("scan_sub")
    BY <2>2
  <2>3. CASE i < avail /\ Goto("scan_sub", "scan_seek") /\ Keep
    BY <1>3, <2>1, <2>3 DEF Sound
  <2>. QED
    BY <1>13, <2>2, <2>3 DEF ScanLoopTest
<1>14. CASE LineFound
  <2>1. i < Len(fifo) /\ is_newline(fifo[i + 1])
    <3>1. i < Len(fifo) /\ i + 1 \in 1 .. Len(fifo) /\ (i + 1) - 1 = i
      BY <1>2, <1>4, <1>14 DEF LineFound, Sound
    <3>2. circ_buf_seek(rx_buf, i) = fifo[i + 1]
      BY <1>2, <3>1
    <3>. QED
      BY <1>14, <3>1, <3>2 DEF LineFound
  <2>2. /\ ~is_newline(fifo[1])
        /\ \A k \in 1 .. i : ~is_newline(fifo[k])
    BY <1>14 DEF LineFound, Sound
  <2>3. i > 0
    BY <1>4, <2>1, <2>2
  <2>. QED
    BY <1>3, <1>14, <2>1, <2>2, <2>3 DEF LineFound
<1>15. CASE NotYetNewline
  <2>1. i < Len(fifo) /\ ~is_newline(fifo[i + 1])
    <3>1. i < Len(fifo) /\ i + 1 \in 1 .. Len(fifo) /\ (i + 1) - 1 = i
      BY <1>2, <1>4, <1>15 DEF NotYetNewline, Sound
    <3>2. circ_buf_seek(rx_buf, i) = fifo[i + 1]
      BY <1>2, <3>1
    <3>. QED
      BY <1>15, <3>1, <3>2 DEF NotYetNewline
  <2>2. /\ Len(fifo) > 0 /\ ~is_newline(fifo[1])
        /\ \A k \in 1 .. i : ~is_newline(fifo[k])
    BY <1>15 DEF NotYetNewline, Sound
  <2>3. \A k \in 1 .. i + 1 : ~is_newline(fifo[k])
    BY <1>4, <2>1, <2>2
  <2>. QED
    BY <1>2, <1>3, <1>4, <1>15, <2>1, <2>2, <2>3 DEF NotYetNewline
<1>16. CASE \E n \in 0 .. MaxMsg : DatagramHeader(n)
  BY <1>3, <1>16 DEF DatagramHeader, Sound
<1>17. CASE DatagramCheck
  <2>. HIDE DEF avail
  <2>1. CASE Return("urc_sub")
    BY <2>1
  <2>2. CASE /\ avail >= needed /\ Goto("urc_sub", "urc_skip") /\ Keep
             /\ torn' = (torn \/ (ordered /\ rx_buf.end < rx_buf.begin))
    <3>1. ~(ordered /\ rx_buf.end < rx_buf.begin)
      BY <1>3, <2>2, Zenon
    <3>2. avail = Len(fifo)
      BY <1>1, <2>2, <3>1, AvailRead DEF Sound
    <3>3. Len(fifo) >= needed
      BY <2>2, <3>2
    <3>. HIDE DEF needed
    <3>4. UNCHANGED <<needed, i, line_len, msg_len>> /\ pc = "urc_sub" /\ pc' = "urc_skip"
      BY <2>2 DEF needed
    <3>5. Enough'
      BY <1>3, <3>3, <3>4
    <3>6. SeeksReceived' /\ Reads' /\ Scanned'
      BY <3>4
    <3>7. LineIsReal'
      BY <1>3, <3>4 DEF Sound
    <3>. QED
      BY <3>5, <3>6, <3>7
  <2>. QED
    BY <1>17, <2>1, <2>2 DEF DatagramCheck
<1>18. CASE PopPayload \/ PayloadDone
  <2>1. CASE PopPayload
    BY <1>3, <2>1 DEF PopPayload, Sound
  <2>2. CASE PayloadDone
    BY <2>2 DEF PayloadDone
  <2>. QED
    BY <1>18, <2>1, <2>2
<1>. QED
  BY <1>6, <1>8, <1>10, <1>11, <1>12, <1>13, <1>14, <1>15, <1>16, <1>17, <1>18

(* Steps of the main loop that consume: all of it has been received.       *)
LEMMA ConsumeSound ==
    ASSUME TypeOK, Undisturbed, Undisturbed', Sound,
           PopNewline \/ SkipPrompt \/ LineDone \/ SkipHeader \/ DropPayload \/ PopPayloadByte
    PROVE  Sound'
<1>. USE DEF Goto, Keep, Return, locals
<1>0. ~halted /\ pc # "flush_end"
  BY DEF PopNewline, SkipPrompt, LineDone, SkipHeader, DropPayload, PopPayloadByte
<1>1. Contents(rx_buf) = fifo
  BY <1>0 DEF Sound, RingIsFifo
<1>2. Len(fifo) \in Nat
  BY <1>1, RingHolds
<1>3. i \in Nat /\ line_len \in Nat /\ msg_len \in Nat
  BY RxAssumption DEF TypeOK
<1>4. ASSUME NEW n \in 0 .. Len(fifo), Consume(n)
      PROVE  /\ Contents(rx_buf)' = fifo' /\ Len(fifo') = Len(fifo) - n
             /\ ~overrun' /\ ~halted'
    BY <1>0, <1>1, <1>4, ConsumeFront DEF Sound
<1>. SUFFICES /\ Contents(rx_buf)' = fifo' /\ ~overrun' /\ ~halted'
              /\ pc' \in {"idle", "pop_cmp", "urc_payload", "urc_pop"} /\ Enough'
  BY DEF Sound, RingIsFifo, SeeksReceived, LineIsReal, HaltOnlyIfFullOrFlushing, Reads, Scanned,
     Subtracts, Scans
<1>5. CASE PopNewline
  <2>1. 1 \in 0 .. Len(fifo)
    BY <1>2, <1>5 DEF PopNewline, Sound, SeeksReceived
  <2>. QED
    BY <1>4, <1>5, <2>1 DEF PopNewline, Enough
<1>6. CASE SkipPrompt
  <2>1. 1 \in 0 .. Len(fifo)
    BY <1>2, <1>6 DEF SkipPrompt, Sound, Enough
  <2>. QED
    BY <1>4, <1>6, <2>1 DEF SkipPrompt, Enough
<1>7. CASE LineDone
  <2>1. line_len \in 0 .. Len(fifo)
    BY <1>2, <1>3, <1>7 DEF LineDone, Sound, LineIsReal
  <2>. QED
    BY <1>4, <1>7, <2>1 DEF LineDone, Enough
<1>8. CASE SkipHeader
  <2>1. line_len + 2 \in 0 .. Len(fifo) /\ Len(fifo) >= line_len + msg_len + 2
    BY <1>2, <1>3, <1>8 DEF SkipHeader, Sound, Enough, needed
  <2>2. /\ Contents(rx_buf)' = fifo' /\ Len(fifo') = Len(fifo) - (line_len + 2)
        /\ ~overrun' /\ ~halted'
    BY <1>4, <1>8, <2>1 DEF SkipHeader
  <2>3. Len(fifo') >= msg_len
    BY <1>2, <1>3, <2>1, <2>2
  <2>. QED
    BY <1>8, <2>2, <2>3 DEF SkipHeader, Enough
<1>9. CASE DropPayload
  <2>1. msg_len \in 0 .. Len(fifo)
    BY <1>2, <1>3, <1>9 DEF DropPayload, Sound, Enough
  <2>. QED
    BY <1>4, <1>9, <2>1 DEF DropPayload, Enough
<1>10. CASE PopPayloadByte
  <2>1. 1 \in 0 .. Len(fifo) /\ Len(fifo) >= i /\ i > 0
    BY <1>2, <1>3, <1>10 DEF PopPayloadByte, Sound, Enough
  <2>2. /\ Contents(rx_buf)' = fifo' /\ Len(fifo') = Len(fifo) - 1
        /\ ~overrun' /\ ~halted'
    BY <1>4, <1>10, <2>1 DEF PopPayloadByte
  <2>3. Len(fifo') >= i - 1
    BY <1>2, <1>3, <2>1, <2>2
  <2>. QED
    BY <1>10, <2>2, <2>3 DEF PopPayloadByte, Enough
<1>. QED
  BY <1>5, <1>6, <1>7, <1>8, <1>9, <1>10

(* A flush begins.  It does not depend on what was before.                 *)
LEMMA FlushBeginSound ==
    ASSUME TypeOK, FlushBegin
    PROVE  Reception'
<1>1. rx_buf' = [rx_buf EXCEPT !.begin = 0] /\ ~halted' /\ pc' = "flush_end" /\ ~overrun'
  BY DEF FlushBegin, Goto
<1>2. rx_buf'.begin = 0
  BY <1>1 DEF TypeOK, CircBufs
<1>. QED
  BY <1>1, <1>2 DEF Reception, Flushing, Sound, RingIsFifo, SeeksReceived, LineIsReal,
     HaltOnlyIfFullOrFlushing, Reads, Scanned, Enough, Subtracts, Scans

(* It ends with an empty ring, unless the interrupt has moved begin on.    *)
LEMMA FlushEndSound ==
    ASSUME TypeOK, Undisturbed, Sound, Flushing, FlushEnd
    PROVE  Sound'
<1>1. /\ rx_buf' = [rx_buf EXCEPT !.end = 0] /\ fifo' = <<>> /\ pc = "flush_end" /\ pc' = "idle"
      /\ ~halted' /\ overrun' = overrun
  BY DEF FlushEnd, Goto
<1>2. rx_buf'.begin = 0 /\ rx_buf'.end = 0
  BY <1>1 DEF TypeOK, CircBufs, Flushing, Undisturbed
<1>3. circ_buf_avail(rx_buf') = 0
  BY <1>2 DEF circ_buf_avail
<1>4. Contents(rx_buf') = <<>>
  BY <1>3 DEF Contents
<1>. QED
  BY <1>1, <1>4 DEF Sound, RingIsFifo, SeeksReceived, LineIsReal, HaltOnlyIfFullOrFlushing, Reads,
     Scanned, Enough, Subtracts, Scans

(* While a flush is under way, begin is written by the flush itself, or    *)
(* else there is a clash.                                                  *)
LEMMA FlushPending ==
    ASSUME TypeOK, Flushing, [Next]_vars
    PROVE  Flushing'
<1>. USE DEF Flushing
<1>1. ASSUME NEW byte \in Byte, HAL_UART_RxCpltCallback(byte)
      PROVE  Flushing'
  <2>1. pc' = pc
    BY <1>1 DEF HAL_UART_RxCpltCallback
  <2>2. CASE Store(byte) \/ Overflow
    <3>1. rx_buf' = rx_buf \/ rx_buf' = circ_buf_push(rx_buf, byte)
      BY <2>2 DEF Store, Overflow
    <3>2. circ_buf_push(rx_buf, byte).begin = rx_buf.begin
      BY DEF circ_buf_push, TypeOK, CircBufs
    <3>3. clash' = clash
      BY <2>2 DEF Store, Overflow
    <3>. QED
      BY <2>1, <3>1, <3>2, <3>3
  <2>3. CASE DropOldest(byte)
    <3>1. pc # "idle" => clash'
      BY <2>3, Zenon DEF DropOldest
    <3>. QED
      BY <2>1, <3>1
  <2>. QED
    BY <1>1, <2>2, <2>3 DEF HAL_UART_RxCpltCallback
<1>2. CASE FlushBegin
  <2>1. Reception'
    BY <1>2, FlushBeginSound
  <2>. QED
    BY <2>1 DEF Reception
<1>3. ASSUME Running \/ \E next \in {"scan", "prompt"} : Call(next)
      PROVE  pc' # "flush_end"
  BY <1>3 DEF Running, Goto, Return, AvailCompare, PopLoopTest, PopNewline, NewlinesPopped,
     SkipPrompt, NotThePrompt, ScanLoopTest, LineFound, NotYetNewline, LineDone, DatagramHeader,
     DatagramCheck, SkipHeader, DropPayload, PopPayload, PopPayloadByte, PayloadDone, FlushEnd,
     Call
<1>4. CASE UNCHANGED vars
  BY <1>4 DEF vars
<1>. QED
  BY <1>1, <1>2, <1>3, <1>4 DEF Next

(* Only a flush ends a disturbance.                                        *)
LEMMA DisturbanceStays ==
    ASSUME TypeOK, [Next]_vars, ~Undisturbed, ~FlushBegin
    PROVE  ~Undisturbed'
<1>. USE DEF Undisturbed
<1>1. ASSUME NEW byte \in Byte, HAL_UART_RxCpltCallback(byte)
      PROVE  ~Undisturbed'
  <2>1. torn' = torn
    BY <1>1 DEF HAL_UART_RxCpltCallback
  <2>2. clash => clash'
    BY <1>1, Zenon DEF HAL_UART_RxCpltCallback, Store, Overflow, DropOldest
  <2>. QED
    BY <2>1, <2>2
<1>2. CASE DatagramCheck
  <2>1. torn => torn'
    BY <1>2, Zenon DEF DatagramCheck
  <2>2. clash' = clash
    BY <1>2 DEF DatagramCheck
  <2>. QED
    BY <2>1, <2>2
<1>3. ASSUME ~(\E byte \in Byte : HAL_UART_RxCpltCallback(byte)), ~DatagramCheck
      PROVE  torn' = torn /\ clash' = clash
  BY <1>3 DEF Next, Running, Goto, Return, Consume, AvailCompare, PopLoopTest, PopNewline,
     NewlinesPopped, SkipPrompt, NotThePrompt, ScanLoopTest, LineFound, NotYetNewline, LineDone,
     DatagramHeader, SkipHeader, DropPayload, PopPayload, PopPayloadByte, PayloadDone, FlushEnd,
     Call, vars, history
<1>. QED
  BY <1>1, <1>2, <1>3

LEMMA InitReception == Init => Reception
<1>. SUFFICES ASSUME Init PROVE Reception
  OBVIOUS
<1>1. rx_buf.begin = 0 /\ rx_buf.end = 0
  BY DEF Init, EmptyBuf
<1>2. Contents(rx_buf) = <<>>
  BY <1>1 DEF circ_buf_avail, Contents
<1>. QED
  BY <1>2 DEF Init, Reception, Flushing, Sound, RingIsFifo, SeeksReceived, LineIsReal,
     HaltOnlyIfFullOrFlushing, Reads, Scanned, Enough, Subtracts, Scans

LEMMA NextReception == TypeOK /\ Reception /\ [Next]_vars => Reception'
<1>. SUFFICES ASSUME TypeOK, Reception, [Next]_vars PROVE Reception'
  OBVIOUS
<1>1. CASE FlushBegin
  BY <1>1, FlushBeginSound
<1>2. CASE ~FlushBegin
  <2>1. Flushing'
    BY FlushPending DEF Reception
  <2>. SUFFICES ASSUME Undisturbed' PROVE Sound'
    BY <2>1 DEF Reception
  <2>2. Undisturbed /\ Sound /\ Flushing
    BY <1>2, DisturbanceStays DEF Reception
  <2>3. CASE \E byte \in Byte : HAL_UART_RxCpltCallback(byte)
    BY <2>2, <2>3, ArrivalSound
  <2>4. CASE FlushEnd
    BY <2>2, <2>4, FlushEndSound
  <2>5. CASE PopNewline \/ SkipPrompt \/ LineDone \/ SkipHeader \/ DropPayload \/ PopPayloadByte
    BY <2>2, <2>5, ConsumeSound
  <2>6. CASE UNCHANGED vars
    BY <2>2, <2>6 DEF vars, Undisturbed, Sound, RingIsFifo, SeeksReceived, LineIsReal,
       HaltOnlyIfFullOrFlushing, Reads, Scanned, Enough, Subtracts, Scans, needed
  <2>7. CASE \/ \E next \in {"scan", "prompt"} : Call(next)
             \/ AvailCompare("pop_cmp", "pop_sub") \/ AvailCompare("scan_cmp", "scan_sub")
             \/ AvailCompare("urc_cmp", "urc_sub")
             \/ PopLoopTest \/ NewlinesPopped \/ NotThePrompt
             \/ ScanLoopTest \/ LineFound \/ NotYetNewline
             \/ \E n \in 0 .. MaxMsg : DatagramHeader(n)
             \/ DatagramCheck
             \/ PopPayload \/ PayloadDone
    BY <2>2, <2>7, LookSound
  <2>. QED
    BY <1>2, <2>3, <2>4, <2>5, <2>6, <2>7 DEF Next, Running
<1>. QED
  BY <1>1, <1>2

LEMMA ReceptionHolds == Spec => []Reception
<1>1. Init => Reception
  BY InitReception
<1>2. TypeOK /\ Reception /\ [Next]_vars => Reception'
  BY NextReception
<1>. QED
  BY <1>1, <1>2, TypeCorrect, PTL DEF Spec

-----------------------------------------------------------------------------
(* The ring carries the bytes from interrupt to main loop, once and in     *)
(* order, under every interleaving of their accesses; a byte is lost only  *)
(* to a flush or as the oldest of a full ring of an NDEBUG build.  Not     *)
(* from a torn read or a clash to the next flush.                          *)
THEOREM RingCarriesAll == Spec => []RingIsFifo
<1>1. Reception => RingIsFifo
  BY DEF Reception, Sound, RingIsFifo
<1>. QED
  BY <1>1, ReceptionHolds, PTL

(* The scanning loops never look at a byte that has not arrived, although  *)
(* they may act on a torn circ_buf_avail, as long as the interrupt drops   *)
(* no byte while they run.                                                 *)
THEOREM ScansOnlyReceived == Spec => []SeeksReceived
<1>1. Reception => SeeksReceived
  BY DEF Reception, Sound, SeeksReceived
<1>. QED
  BY <1>1, ReceptionHolds, PTL

(* What modem_rx_seek_line_length returns is a line, and stays one while   *)
(* bytes arrive, as long as none is dropped from under it.                 *)
THEOREM LinesAreReal == Spec => []LineIsReal
<1>1. Reception => LineIsReal
  BY DEF Reception, Sound, LineIsReal
<1>. QED
  BY <1>1, ReceptionHolds, PTL

(* The check for a whole datagram on a torn read and, in an NDEBUG build,  *)
(* a byte dropped in the middle of a call are the only ways to consume     *)
(* what has not arrived.                                                   *)
THEOREM OnlyTornOverruns == Spec => []OverrunOnlyIfTorn
<1>1. Reception => OverrunOnlyIfTorn
  BY DEF Reception, Sound, OverrunOnlyIfTorn, Undisturbed
<1>. QED
  BY <1>1, ReceptionHolds, PTL

(* Where it is compiled in, the overflow assertion fires when the ring is  *)
(* full, or in a flush.                                                    *)
THEOREM HaltsOnlyWhenFull == Spec => []HaltOnlyIfFullOrFlushing
<1>1. Reception => HaltOnlyIfFullOrFlushing
  BY DEF Reception, Sound, HaltOnlyIfFullOrFlushing
<1>. QED
  BY <1>1, ReceptionHolds, PTL
=============================================================================
