-------------------------- MODULE RecvQueueProofs --------------------------
(***************************************************************************)
(* Proofs about RecvQueue, for every size of the ring and of the array of  *)
(* lengths, and every set of datagrams.                                    *)
(*                                                                         *)
(* The ends of the datagrams in the ring are sums over the lengths.  What  *)
(* is needed about sums is proved by taking the least index at which it    *)
(* would be wrong.                                                         *)
(***************************************************************************)
EXTENDS RecvQueue, CircBufProofs, WellFoundedInduction

(* A set of natural numbers that has elements has a least one. *)
LEMMA Least ==
    ASSUME NEW T, T \subseteq Nat, T # {}
    PROVE  \E n \in T : \A m \in T : n <= m
<1>. DEFINE R == OpToRel(<, Nat)
<1>1. IsWellFoundedOn(R, Nat)
  BY NatLessThanWellFounded
<1>2. \A x, y \in Nat : x < y => <<x, y>> \in R
  BY DEF OpToRel
<1>. HIDE DEF R
<1>3. PICK n \in T : \A m \in T : ~(<<m, n>> \in R)
  BY <1>1, WFMin
<1>4. ASSUME NEW m \in T PROVE n <= m
  <2>1. m \in Nat /\ n \in Nat /\ ~(m < n)
    BY <1>2, <1>3
  <2>. QED
    BY <2>1
<1>. QED
  BY <1>4

-----------------------------------------------------------------------------
(* f[k] is the sum of the first k of the m numbers w. *)
IsSum(f, w, m) ==
    /\ f \in [0 .. m -> Nat]
    /\ f[0] = 0
    /\ \A k \in 1 .. m : f[k] = f[k - 1] + w[k]

(* The same of a function whose values are not known to be numbers. *)
AddsUp(f, w, m) ==
    /\ f = [k \in 0 .. m |-> f[k]]
    /\ f[0] = 0
    /\ \A k \in 1 .. m : f[k] = f[k - 1] + w[k]

(* There are such sums ... *)
LEMMA SumExists ==
    ASSUME NEW m \in Nat, NEW w \in [1 .. m -> Nat]
    PROVE  \E f : IsSum(f, w, m)
<1>. DEFINE T == {n \in 0 .. m : ~\E f : IsSum(f, w, n)}
<1>. SUFFICES ASSUME T # {} PROVE FALSE
  <2>1. m \in 0 .. m
    OBVIOUS
  <2>. QED
    BY <2>1
<1>1. PICK n \in T : \A k \in T : n <= k
  <2>1. T \subseteq Nat
    OBVIOUS
  <2>. HIDE DEF T
  <2>. QED
    BY <2>1, Least
<1>2. n \in 0 .. m /\ ~\E f : IsSum(f, w, n)
  OBVIOUS
<1>3. CASE n = 0
  <2>1. IsSum([k \in 0 .. 0 |-> 0], w, 0)
    BY DEF IsSum
  <2>. QED
    BY <1>2, <1>3, <2>1
<1>4. CASE n # 0
  <2>1. n - 1 \in 0 .. m /\ n \in 1 .. m /\ ~(n <= n - 1)
    BY <1>2, <1>4
  <2>2. PICK f : IsSum(f, w, n - 1)
    BY <1>1, <2>1
  <2>. DEFINE g == [k \in 0 .. n |-> IF k = n THEN f[n - 1] + w[n] ELSE f[k]]
  <2>3. f \in [0 .. n - 1 -> Nat] /\ f[0] = 0 /\ \A k \in 1 .. n - 1 : f[k] = f[k - 1] + w[k]
    BY <2>2 DEF IsSum
  <2>4. \A k \in 0 .. n : k = n \/ k \in 0 .. n - 1
    BY <2>1
  <2>5. g \in [0 .. n -> Nat] /\ g[0] = 0
    BY <2>1, <2>3, <2>4
  <2>6. ASSUME NEW k \in 1 .. n PROVE g[k] = g[k - 1] + w[k]
    <3>1. CASE k = n
      BY <2>1, <3>1
    <3>2. CASE k # n
      <4>1. k \in 1 .. n - 1 /\ k - 1 \in 0 .. n /\ k - 1 # n /\ k \in 0 .. n
        BY <2>1, <3>2
      <4>. QED
        BY <2>3, <3>2, <4>1
    <3>. QED
      BY <3>1, <3>2
  <2>7. IsSum(g, w, n)
    <3>. HIDE DEF g
    <3>. QED
      BY <2>5, <2>6 DEF IsSum
  <2>. QED
    BY <1>2, <2>7
<1>. QED
  BY <1>3, <1>4

(* ... only one ... *)
LEMMA SumUnique ==
    ASSUME NEW m \in Nat, NEW w, NEW f, IsSum(f, w, m),
           NEW g, AddsUp(g, w, m)
    PROVE  f = g
<1>. DEFINE T == {n \in 0 .. m : f[n] # g[n]}
<1>1. T = {}
  <2>. SUFFICES ASSUME T # {} PROVE FALSE
    OBVIOUS
  <2>1. PICK n \in T : \A k \in T : n <= k
    <3>1. T \subseteq Nat
      OBVIOUS
    <3>. HIDE DEF T
    <3>. QED
      BY <3>1, Least
  <2>2. n \in 0 .. m /\ f[n] # g[n]
    OBVIOUS
  <2>3. n # 0
    BY <2>2 DEF IsSum, AddsUp
  <2>4. n - 1 \in 0 .. m /\ n \in 1 .. m /\ ~(n <= n - 1)
    BY <2>2, <2>3
  <2>5. f[n - 1] = g[n - 1]
    BY <2>1, <2>4
  <2>. QED
    BY <2>2, <2>4, <2>5 DEF IsSum, AddsUp
<1>2. f = [k \in 0 .. m |-> f[k]] /\ g = [k \in 0 .. m |-> g[k]]
  BY DEF IsSum, AddsUp
<1>3. \A k \in 0 .. m : f[k] = g[k]
  BY <1>1
<1>. QED
  BY <1>2, <1>3

(* ... and they grow. *)
LEMMA SumGrows ==
    ASSUME NEW m \in Nat, NEW w \in [1 .. m -> Nat], NEW f, IsSum(f, w, m),
           NEW i \in 0 .. m, NEW j \in 0 .. m, i <= j
    PROVE  f[i] <= f[j]
<1>. DEFINE T == {n \in i .. m : ~(f[i] <= f[n])}
<1>1. T = {}
  <2>. SUFFICES ASSUME T # {} PROVE FALSE
    OBVIOUS
  <2>1. PICK n \in T : \A k \in T : n <= k
    <3>1. T \subseteq Nat
      OBVIOUS
    <3>. HIDE DEF T
    <3>. QED
      BY <3>1, Least
  <2>2. n \in i .. m /\ ~(f[i] <= f[n]) /\ f[i] \in Nat /\ n \in 0 .. m
    BY DEF IsSum
  <2>3. n # i
    BY <2>2
  <2>4. n - 1 \in i .. m /\ n \in 1 .. m /\ ~(n <= n - 1) /\ n - 1 \in 0 .. m
    BY <2>2, <2>3
  <2>5. f[i] <= f[n - 1]
    BY <2>1, <2>4
  <2>6. f[n] = f[n - 1] + w[n] /\ w[n] \in Nat /\ f[n - 1] \in Nat
    BY <2>4 DEF IsSum
  <2>. QED
    BY <2>2, <2>5, <2>6
<1>. QED
  BY <1>1

-----------------------------------------------------------------------------
(* The lengths of the waiting datagrams, oldest first. *)
Lengths ==
    [k \in 1 .. recv_qiurc_lens_count |->
        recv_qiurc_lens[Slot(recv_qiurc_lens_start + k - 1, Size)]]

LEMMA LengthsType ==
    ASSUME TypeOK
    PROVE  Lengths \in [1 .. recv_qiurc_lens_count -> 0 .. MODEM_SOCKET_RECV_MAX]
<1>1. Size \in Nat /\ Size > 0
  BY QueueAssumption DEF Size
<1>2. ASSUME NEW k \in 1 .. recv_qiurc_lens_count
      PROVE  recv_qiurc_lens[Slot(recv_qiurc_lens_start + k - 1, Size)]
               \in 0 .. MODEM_SOCKET_RECV_MAX
  <2>1. recv_qiurc_lens_start + k - 1 \in Nat
    BY <1>1 DEF TypeOK
  <2>2. Slot(recv_qiurc_lens_start + k - 1, Size) \in 0 .. Size - 1
    BY <1>1, <2>1, SlotRange
  <2>. QED
    BY <2>2 DEF TypeOK
<1>. QED
  BY <1>2 DEF Lengths

(* Ends holds the sums of the lengths. *)
LEMMA EndsAreSums ==
    TypeOK => IsSum(Ends, Lengths, recv_qiurc_lens_count)
<1>. SUFFICES ASSUME TypeOK PROVE IsSum(Ends, Lengths, recv_qiurc_lens_count)
  OBVIOUS
<1>. DEFINE n == recv_qiurc_lens_count
<1>1. n \in Nat /\ Lengths \in [1 .. n -> Nat]
  <2>1. n \in Nat /\ MODEM_SOCKET_RECV_MAX \in Nat
    BY QueueAssumption DEF TypeOK, Size
  <2>. QED
    BY <2>1, LengthsType
<1>2. PICK f : IsSum(f, Lengths, n)
  <2>. HIDE DEF n
  <2>. QED
    BY <1>1, SumExists
<1>3. \A k \in 1 .. n :
        Lengths[k] = recv_qiurc_lens[Slot(recv_qiurc_lens_start + k - 1, Size)]
  BY DEF Lengths
<1>4. ASSUME NEW k \in 0 .. n
      PROVE  f[k] = IF k = 0 THEN 0
                    ELSE f[k - 1] + recv_qiurc_lens[Slot(recv_qiurc_lens_start + k - 1, Size)]
  <2>1. k = 0 \/ k \in 1 .. n
    BY <1>1
  <2>. QED
    BY <1>2, <1>3, <2>1 DEF IsSum
<1>5. f = [k \in 0 .. n |->
             IF k = 0 THEN 0
             ELSE f[k - 1] + recv_qiurc_lens[Slot(recv_qiurc_lens_start + k - 1, Size)]]
  BY <1>2, <1>4 DEF IsSum
<1>6. Ends = [k \in 0 .. n |->
                IF k = 0 THEN 0
                ELSE Ends[k - 1] + recv_qiurc_lens[Slot(recv_qiurc_lens_start + k - 1, Size)]]
  BY <1>5 DEF Ends
<1>. HIDE DEF Ends
<1>7. Ends = [k \in 0 .. n |-> Ends[k]]
  BY <1>6
<1>8. 0 \in 0 .. n /\ Ends[0] = 0
  BY <1>1, <1>6
<1>9. ASSUME NEW k \in 1 .. n PROVE Ends[k] = Ends[k - 1] + Lengths[k]
  <2>1. k \in 0 .. n /\ k # 0
    BY <1>1
  <2>. QED
    BY <1>3, <1>6, <2>1
<1>10. f = Ends
  <2>1. AddsUp(Ends, Lengths, n)
    BY <1>7, <1>8, <1>9 DEF AddsUp
  <2>2. PICK e : e = Ends
    OBVIOUS
  <2>3. f = e
    <3>. HIDE DEF n
    <3>. QED
      BY <1>1, <1>2, <2>1, <2>2, SumUnique
  <2>. QED
    BY <2>2, <2>3
<1>. QED
  BY <1>2, <1>10
-----------------------------------------------------------------------------
(* The sizes, as the provers like them. *)
LEMMA Sizes ==
    /\ Size \in Nat /\ Size > 0
    /\ MODEM_SOCKET_RECV_MAX \in Nat /\ MODEM_SOCKET_RECV_MAX + 1 \in Nat
    /\ MODEM_SOCKET_RECV_MAX + 1 > 0
BY QueueAssumption DEF Size

(* The next index of the array is one. *)
LEMMA NextLenType ==
    ASSUME NEW k \in 0 .. Size - 1
    PROVE  NextLen(k) \in 0 .. Size - 1
<1>1. k + 1 \in Nat
  BY Sizes
<1>. QED
  BY <1>1, Sizes, SlotRange DEF NextLen

(* The initial state has its types. *)
LEMMA InitType == Init => TypeOK
<1>. SUFFICES ASSUME Init PROVE TypeOK
  OBVIOUS
<1>1. recv_qiurc_buf \in CircBufs(MODEM_SOCKET_RECV_MAX + 1, Byte)
  <2>1. Zero \in Byte
    BY QueueAssumption
  <2>. QED
    BY <2>1, Sizes DEF Init, EmptyBuf, CircBufs
<1>. QED
  BY <1>1, Sizes DEF Init, TypeOK

(* Popping a length keeps the types of the array. *)
LEMMA PopLenType ==
    ASSUME TypeOK, PopLen
    PROVE  /\ recv_qiurc_lens' = recv_qiurc_lens /\ recv_qiurc_lens_end' = recv_qiurc_lens_end
           /\ recv_qiurc_lens_start' \in 0 .. Size - 1
           /\ recv_qiurc_lens_count' \in 0 .. Size
           /\ oldest_len \in 0 .. MODEM_SOCKET_RECV_MAX
<1>1. NextLen(recv_qiurc_lens_start) \in 0 .. Size - 1
  BY NextLenType DEF TypeOK
<1>. QED
  BY <1>1, Sizes DEF PopLen, TypeOK, oldest_len

(* Every step keeps the types. *)
LEMMA NextType == TypeOK /\ [Next]_vars => TypeOK'
<1>. SUFFICES ASSUME TypeOK, [Next]_vars PROVE TypeOK'
  OBVIOUS
<1>b. recv_qiurc_buf \in CircBufs(MODEM_SOCKET_RECV_MAX + 1, Byte)
  BY DEF TypeOK
<1>1. ASSUME NEW d \in Datagrams, urc_buffer_handler(d) PROVE TypeOK'
  <2>1. d \in Seq(Byte) /\ Len(d) \in 0 .. MODEM_SOCKET_RECV_MAX
    BY QueueAssumption
  <2>2. Len(d) <= circ_buf_free(recv_qiurc_buf) /\ recv_qiurc_lens_count < Size
    <3>1. circ_buf_free(recv_qiurc_buf) \in Nat
      BY <1>b, Sizes, AvailRange
    <3>. QED
      BY <1>1, <2>1, <3>1, Sizes DEF urc_buffer_handler, Dropped, NoRoom, TypeOK
  <2>3. recv_qiurc_buf' \in CircBufs(MODEM_SOCKET_RECV_MAX + 1, Byte)
    <3>1. circ_buf_append(recv_qiurc_buf, d) \in CircBufs(MODEM_SOCKET_RECV_MAX + 1, Byte)
      BY <1>b, <2>1, <2>2, Sizes, AppendBytes
    <3>. QED
      BY <1>1, <3>1 DEF urc_buffer_handler
  <2>4. NextLen(recv_qiurc_lens_end) \in 0 .. Size - 1
    BY NextLenType DEF TypeOK
  <2>5. recv_qiurc_lens_count' \in 0 .. Size
    BY <1>1, <2>2, Sizes DEF urc_buffer_handler, TypeOK
  <2>6. recv_qiurc_lens' \in [0 .. Size - 1 -> 0 .. MODEM_SOCKET_RECV_MAX]
    BY <1>1, <2>1 DEF urc_buffer_handler, TypeOK
  <2>. QED
    BY <1>1, <2>3, <2>4, <2>5, <2>6 DEF urc_buffer_handler, TypeOK
<1>2. ASSUME NEW n \in BufLens, RecvTooShort(n) \/ Recv(n) PROVE TypeOK'
  <2>1. PopLen /\ recv_qiurc_buf' = circ_buf_advance_n(recv_qiurc_buf, oldest_len)
    BY <1>2 DEF RecvTooShort, Recv
  <2>2. oldest_len \in Nat
    BY <2>1, PopLenType, Sizes
  <2>3. recv_qiurc_buf' \in CircBufs(MODEM_SOCKET_RECV_MAX + 1, Byte)
    BY <1>b, <2>1, <2>2, Sizes, AdvanceType
  <2>4. handed' \in Seq(Byte)
    <3>1. CASE RecvTooShort(n)
      BY <3>1 DEF RecvTooShort, TypeOK
    <3>2. CASE Recv(n)
      <4>1. ASSUME NEW k \in 1 .. oldest_len
            PROVE  circ_buf_seek(recv_qiurc_buf, k - 1) \in Byte
        <5>1. k - 1 \in Nat
          BY <2>2
        <5>. QED
          BY <1>b, <5>1, Sizes, SeekType
      <4>2. handed' = [k \in 1 .. oldest_len |-> circ_buf_seek(recv_qiurc_buf, k - 1)]
        BY <3>2 DEF Recv
      <4>. QED
        BY <2>2, <4>1, <4>2
    <3>. QED
      BY <1>2, <3>1, <3>2
  <2>. QED
    BY <2>1, <2>3, <2>4, PopLenType DEF TypeOK
<1>3. CASE UNCHANGED vars
  BY <1>3 DEF vars, lens, TypeOK
<1>. QED
  BY <1>1, <1>2, <1>3 DEF Next

(* The indices of the ring and of the array of lengths stay inside them,   *)
(* and no length is longer than the ring.                                  *)
THEOREM TypeCorrect == Spec => []TypeOK
BY InitType, NextType, PTL DEF Spec

-----------------------------------------------------------------------------
(* What LensAddUp says of the sums. *)
LEMMA Layout ==
    ASSUME TypeOK, LensAddUp
    PROVE  /\ recv_qiurc_lens_count \in 0 .. Size
           /\ Lengths \in [1 .. recv_qiurc_lens_count -> Nat]
           /\ Ends \in [0 .. recv_qiurc_lens_count -> Nat] /\ Ends[0] = 0
           /\ \A k \in 1 .. recv_qiurc_lens_count : Ends[k] = Ends[k - 1] + Lengths[k]
           /\ \A i, j \in 0 .. recv_qiurc_lens_count : i <= j => Ends[i] <= Ends[j]
           /\ Ends[recv_qiurc_lens_count] = circ_buf_avail(recv_qiurc_buf)
<1>1. recv_qiurc_lens_count \in 0 .. Size /\ recv_qiurc_lens_count \in Nat
  BY Sizes DEF TypeOK
<1>2. Lengths \in [1 .. recv_qiurc_lens_count -> Nat]
  BY <1>1, LengthsType, Sizes
<1>3. IsSum(Ends, Lengths, recv_qiurc_lens_count)
  BY EndsAreSums
<1>4. PICK m, w, f : m = recv_qiurc_lens_count /\ w = Lengths /\ f = Ends
  OBVIOUS
<1>5. \A i, j \in 0 .. m : i <= j => f[i] <= f[j]
  BY <1>1, <1>2, <1>3, <1>4, SumGrows
<1>. QED
  BY <1>1, <1>2, <1>3, <1>4, <1>5 DEF IsSum, LensAddUp

(* The waiting datagrams lie in the ring, each with its own length. *)
LEMMA WaitingType ==
    ASSUME TypeOK, LensAddUp
    PROVE  /\ Waiting \in Seq(Seq(Byte)) /\ Len(Waiting) = recv_qiurc_lens_count
           /\ \A k \in 1 .. recv_qiurc_lens_count :
                 /\ Waiting[k] = SubSeq(Contents(recv_qiurc_buf), Ends[k - 1] + 1, Ends[k])
                 /\ Len(Waiting[k]) = Lengths[k]
<1>1. PICK c : c = Contents(recv_qiurc_buf)
  OBVIOUS
<1>2. c \in Seq(Byte) /\ Len(c) = Ends[recv_qiurc_lens_count]
  <2>1. recv_qiurc_buf \in CircBufs(MODEM_SOCKET_RECV_MAX + 1, Byte)
    BY DEF TypeOK
  <2>2. Contents(recv_qiurc_buf) \in Seq(Byte)
        /\ Len(Contents(recv_qiurc_buf)) = circ_buf_avail(recv_qiurc_buf)
    BY <2>1, Sizes, ContentsType
  <2>. QED
    BY <1>1, <2>2, Layout
<1>3. recv_qiurc_lens_count \in Nat
  BY Layout, Sizes
<1>4. ASSUME NEW k \in 1 .. recv_qiurc_lens_count
      PROVE  /\ SubSeq(c, Ends[k - 1] + 1, Ends[k]) \in Seq(Byte)
             /\ Len(SubSeq(c, Ends[k - 1] + 1, Ends[k])) = Lengths[k]
  <2>1. k \in 0 .. recv_qiurc_lens_count /\ k - 1 \in 0 .. recv_qiurc_lens_count
        /\ recv_qiurc_lens_count \in 0 .. recv_qiurc_lens_count /\ k <= recv_qiurc_lens_count
    BY <1>3
  <2>2. PICK a, b : a = Ends[k - 1] /\ b = Ends[k]
    OBVIOUS
  <2>3. a \in Nat /\ b \in Nat /\ Lengths[k] \in Nat /\ b = a + Lengths[k] /\ b <= Len(c)
    BY <1>2, <2>1, <2>2, Layout
  <2>4. SubSeq(c, a + 1, b) \in Seq(Byte) /\ Len(SubSeq(c, a + 1, b)) = b - a
    BY <1>2, <2>3
  <2>. QED
    BY <2>2, <2>3, <2>4
<1>. QED
  BY <1>1, <1>3, <1>4 DEF Waiting
(* The oldest length gone, the others are as far from the start as before, *)
(* less one, and the end is where it was.                                  *)
LEMMA NextStart ==
    ASSUME NEW n \in Nat, n > 0, NEW s \in 0 .. n - 1, NEW c \in 1 .. n
    PROVE  /\ \A k \in 1 .. c - 1 : Slot(Slot(s + 1, n) + k - 1, n) = Slot(s + (k + 1) - 1, n)
           /\ Slot(Slot(s + 1, n) + (c - 1), n) = Slot(s + c, n)
<1>1. Slot(s + 1, n) = IF s + 1 < n THEN s + 1 ELSE s + 1 - n
  BY WrapOnce
<1>. DEFINE t == Slot(s + 1, n)
<1>2. t \in 0 .. n - 1
  BY <1>1
<1>3. ASSUME NEW j \in 0 .. n - 1 PROVE Slot(t + j, n) = Slot(s + j + 1, n)
  <2>1. Slot(t + j, n) = IF t + j < n THEN t + j ELSE t + j - n
    <3>1. PICK x : x = t + j
      OBVIOUS
    <3>2. x \in Nat /\ x < 2 * n
      BY <1>2, <3>1
    <3>. HIDE DEF t
    <3>3. Slot(x, n) = IF x < n THEN x ELSE x - n
      BY <3>2, WrapOnce
    <3>. QED
      BY <1>2, <3>1, <3>2, <3>3
  <2>2. CASE s + j + 1 < 2 * n
    <3>1. s + j + 1 \in Nat
      OBVIOUS
    <3>2. Slot(s + j + 1, n) = IF s + j + 1 < n THEN s + j + 1 ELSE s + j + 1 - n
      BY <2>2, <3>1, WrapOnce
    <3>. QED
      BY <1>1, <2>1, <3>2
  <2>3. CASE ~(s + j + 1 < 2 * n)
    <3>. QED
      BY <2>3
  <2>. QED
    BY <2>2, <2>3
<1>4. ASSUME NEW k \in 1 .. c - 1 PROVE Slot(t + k - 1, n) = Slot(s + (k + 1) - 1, n)
  <2>1. k - 1 \in 0 .. n - 1
    OBVIOUS
  <2>2. Slot(t + (k - 1), n) = Slot(s + (k - 1) + 1, n)
    BY <1>3, <2>1
  <2>3. t + (k - 1) = t + k - 1 /\ s + (k - 1) + 1 = s + (k + 1) - 1
    BY <1>2
  <2>. QED
    BY <2>2, <2>3
<1>5. Slot(t + (c - 1), n) = Slot(s + c, n)
  <2>1. c - 1 \in 0 .. n - 1
    OBVIOUS
  <2>2. Slot(t + (c - 1), n) = Slot(s + (c - 1) + 1, n)
    BY <1>3, <2>1
  <2>3. s + (c - 1) + 1 = s + c
    OBVIOUS
  <2>. QED
    BY <2>2, <2>3
<1>. QED
  BY <1>4, <1>5

(* As long as the array has room, its end is none of the slots in use.     *)
LEMMA EndIsFree ==
    ASSUME NEW n \in Nat, n > 0, NEW s \in 0 .. n - 1, NEW c \in 0 .. n - 1
    PROVE  /\ \A k \in 1 .. c : Slot(s + k - 1, n) # Slot(s + c, n)
           /\ Slot(Slot(s + c, n) + 1, n) = Slot(s + (c + 1), n)
<1>1. Slot(s + c, n) = IF s + c < n THEN s + c ELSE s + c - n
  BY WrapOnce
<1>2. ASSUME NEW k \in 1 .. c PROVE Slot(s + k - 1, n) # Slot(s + c, n)
  <2>1. s + k - 1 \in Nat /\ s + k - 1 < 2 * n
    OBVIOUS
  <2>2. Slot(s + k - 1, n) = IF s + k - 1 < n THEN s + k - 1 ELSE s + k - 1 - n
    BY <2>1, WrapOnce
  <2>. QED
    BY <1>1, <2>2
<1>3. Slot(Slot(s + c, n) + 1, n) = Slot(s + (c + 1), n)
  <2>. DEFINE e == Slot(s + c, n)
  <2>1. e \in 0 .. n - 1
    BY <1>1
  <2>3. Slot(e + 1, n) = IF e + 1 < n THEN e + 1 ELSE e + 1 - n
    <3>1. PICK x : x = e + 1
      OBVIOUS
    <3>2. x \in Nat /\ x < 2 * n
      BY <2>1, <3>1
    <3>. HIDE DEF e
    <3>3. Slot(x, n) = IF x < n THEN x ELSE x - n
      BY <3>2, WrapOnce
    <3>. QED
      BY <2>1, <3>1, <3>2, <3>3
  <2>4. s + (c + 1) \in Nat /\ s + (c + 1) < 2 * n
    OBVIOUS
  <2>5. Slot(s + (c + 1), n) = IF s + (c + 1) < n THEN s + (c + 1) ELSE s + (c + 1) - n
    BY <2>4, WrapOnce
  <2>. QED
    BY <1>1, <2>3, <2>5
<1>. QED
  BY <1>2, <1>3
-----------------------------------------------------------------------------
(* EndsAreSums, in the next state. *)
LEMMA EndsAreSumsNext ==
    TypeOK' => IsSum(Ends', Lengths', recv_qiurc_lens_count')
<1>. DEFINE Sums == IsSum(Ends, Lengths, recv_qiurc_lens_count)
<1>1. TypeOK => Sums
  BY EndsAreSums
<1>2. TypeOK' => Sums'
  <2>. HIDE DEF Sums
  <2>. QED
    BY <1>1, PTL
<1>3. Sums' => IsSum(Ends', Lengths', recv_qiurc_lens_count')
  BY DEF IsSum
<1>. QED
  BY <1>2, <1>3

(* A datagram that is queued fits the ring and the array. *)
LEMMA QueuedFits ==
    ASSUME TypeOK, NEW d \in Datagrams, urc_buffer_handler(d)
    PROVE  /\ d \in Seq(Byte) /\ Len(d) \in Nat
           /\ Len(d) <= circ_buf_free(recv_qiurc_buf)
           /\ recv_qiurc_lens_count \in 0 .. Size - 1
           /\ recv_qiurc_lens_count' = recv_qiurc_lens_count + 1
           /\ circ_buf_avail(recv_qiurc_buf') = circ_buf_avail(recv_qiurc_buf) + Len(d)
           /\ Contents(recv_qiurc_buf') = Contents(recv_qiurc_buf) \o d
           /\ circ_buf_avail(recv_qiurc_buf) + Len(d) <= MODEM_SOCKET_RECV_MAX
<1>b. recv_qiurc_buf \in CircBufs(MODEM_SOCKET_RECV_MAX + 1, Byte)
  BY DEF TypeOK
<1>1. d \in Seq(Byte) /\ Len(d) \in Nat
  BY QueueAssumption
<1>2. /\ circ_buf_avail(recv_qiurc_buf) \in Nat
      /\ circ_buf_free(recv_qiurc_buf) = MODEM_SOCKET_RECV_MAX - circ_buf_avail(recv_qiurc_buf)
      /\ circ_buf_free(recv_qiurc_buf) \in Nat
  BY <1>b, Sizes, AvailRange
<1>3. Len(d) <= circ_buf_free(recv_qiurc_buf) /\ recv_qiurc_lens_count < Size
  BY <1>1, <1>2, Sizes DEF urc_buffer_handler, Dropped, NoRoom, TypeOK
<1>4. recv_qiurc_buf' = circ_buf_append(recv_qiurc_buf, d)
      /\ recv_qiurc_lens_count' = recv_qiurc_lens_count + 1
  BY DEF urc_buffer_handler
<1>5. /\ circ_buf_avail(circ_buf_append(recv_qiurc_buf, d))
           = circ_buf_avail(recv_qiurc_buf) + Len(d)
      /\ Contents(circ_buf_append(recv_qiurc_buf, d)) = Contents(recv_qiurc_buf) \o d
  BY <1>b, <1>1, <1>3, Sizes, AppendBytes
<1>. QED
  BY <1>1, <1>2, <1>3, <1>4, <1>5, Sizes DEF TypeOK

(* Its length comes after the others. *)
LEMMA QueuedLength ==
    ASSUME TypeOK, LensAddUp, NEW d \in Datagrams, urc_buffer_handler(d)
    PROVE  /\ \A k \in 1 .. recv_qiurc_lens_count : Lengths'[k] = Lengths[k]
           /\ Lengths'[recv_qiurc_lens_count + 1] = Len(d)
           /\ Slot(recv_qiurc_lens_start' + recv_qiurc_lens_count', Size) = recv_qiurc_lens_end'
<1>. DEFINE n == recv_qiurc_lens_count
            s == recv_qiurc_lens_start
<1>1. n \in 0 .. Size - 1 /\ n \in Nat /\ n' = n + 1 /\ s \in 0 .. Size - 1 /\ s' = s
      /\ Size \in Nat /\ Size > 0
  <2>1. n \in 0 .. Size - 1 /\ n' = n + 1
    BY QueuedFits
  <2>. QED
    BY <2>1, Sizes DEF urc_buffer_handler, TypeOK
<1>2. recv_qiurc_lens_end = Slot(s + n, Size) /\ recv_qiurc_lens_end \in 0 .. Size - 1
  BY DEF LensAddUp, TypeOK
<1>3. /\ \A k \in 1 .. n : Slot(s + k - 1, Size) # Slot(s + n, Size)
      /\ Slot(Slot(s + n, Size) + 1, Size) = Slot(s + (n + 1), Size)
  <2>. HIDE DEF s, n
  <2>. QED
    BY <1>1, EndIsFree
<1>4. recv_qiurc_lens' = [recv_qiurc_lens EXCEPT ![recv_qiurc_lens_end] = Len(d)]
      /\ recv_qiurc_lens_end' = NextLen(recv_qiurc_lens_end)
  BY DEF urc_buffer_handler
<1>5. ASSUME NEW k \in 1 .. n + 1
      PROVE  Lengths'[k] = recv_qiurc_lens'[Slot(s + k - 1, Size)]
  <2>1. Lengths' = [i \in 1 .. n' |-> recv_qiurc_lens'[Slot(s' + i - 1, Size)]]
    BY DEF Lengths, Size
  <2>. QED
    BY <1>1, <2>1
<1>6. ASSUME NEW k \in 1 .. n PROVE Lengths'[k] = Lengths[k]
  <2>1. k \in 1 .. n + 1 /\ s + k - 1 \in Nat
    BY <1>1
  <2>2. Slot(s + k - 1, Size) \in 0 .. Size - 1
    BY <1>1, <2>1, SlotRange
  <2>3. recv_qiurc_lens'[Slot(s + k - 1, Size)] = recv_qiurc_lens[Slot(s + k - 1, Size)]
    BY <1>2, <1>3, <1>4, <2>2 DEF TypeOK
  <2>. QED
    BY <1>5, <2>1, <2>3 DEF Lengths
<1>7. Lengths'[n + 1] = Len(d)
  <2>1. n + 1 \in 1 .. n + 1 /\ s + (n + 1) - 1 = s + n
    BY <1>1
  <2>2. Lengths'[n + 1] = recv_qiurc_lens'[Slot(s + n, Size)]
    BY <1>5, <2>1
  <2>. QED
    BY <1>2, <1>4, <2>2 DEF TypeOK
<1>. QED
  BY <1>1, <1>2, <1>3, <1>4, <1>6, <1>7 DEF NextLen

(* It ends where the ring ends. *)
LEMMA QueuedEnds ==
    ASSUME TypeOK, TypeOK', LensAddUp, NEW d \in Datagrams, urc_buffer_handler(d)
    PROVE  /\ \A k \in 0 .. recv_qiurc_lens_count : Ends'[k] = Ends[k]
           /\ Ends'[recv_qiurc_lens_count + 1] = Ends[recv_qiurc_lens_count] + Len(d)
<1>. DEFINE n == recv_qiurc_lens_count
            g == [k \in 0 .. n + 1 |-> IF k = n + 1 THEN Ends[n] + Len(d) ELSE Ends[k]]
<1>1. n \in Nat /\ n' = n + 1 /\ n + 1 \in Nat
  BY QueuedFits
<1>2. IsSum(Ends', Lengths', n + 1)
  BY <1>1, EndsAreSumsNext
<1>3. /\ \A k \in 0 .. n : g[k] = Ends[k]
      /\ g[n + 1] = Ends[n] + Len(d)
  BY <1>1
<1>4. AddsUp(g, Lengths', n + 1)
  <2>1. g = [k \in 0 .. n + 1 |-> g[k]]
    OBVIOUS
  <2>2. g[0] = 0
    BY <1>1, <1>3, Layout
  <2>3. ASSUME NEW k \in 1 .. n + 1 PROVE g[k] = g[k - 1] + Lengths'[k]
    <3>1. CASE k = n + 1
      <4>1. k - 1 = n /\ n \in 0 .. n
        BY <1>1, <3>1
      <4>2. g[k] = Ends[n] + Len(d) /\ g[k - 1] = Ends[n] /\ Lengths'[k] = Len(d)
        BY <1>3, <3>1, <4>1, QueuedLength
      <4>. QED
        BY <4>2
    <3>2. CASE k # n + 1
      <4>1. k \in 1 .. n /\ k \in 0 .. n /\ k - 1 \in 0 .. n
        BY <1>1, <3>2
      <4>2. g[k] = Ends[k] /\ g[k - 1] = Ends[k - 1] /\ Lengths'[k] = Lengths[k]
        BY <1>3, <4>1, QueuedLength
      <4>. QED
        BY <4>1, <4>2, Layout
    <3>. QED
      BY <3>1, <3>2
  <2>. HIDE DEF g
  <2>. QED
    BY <2>1, <2>2, <2>3 DEF AddsUp
<1>5. Ends' = g
  <2>1. PICK m, w, f, h : m = n + 1 /\ w = Lengths' /\ f = Ends' /\ h = g
    OBVIOUS
  <2>2. m \in Nat /\ IsSum(f, w, m) /\ AddsUp(h, w, m)
    BY <1>1, <1>2, <1>4, <2>1
  <2>3. f = h
    BY <2>2, SumUnique
  <2>. QED
    BY <2>1, <2>3
<1>. QED
  BY <1>3, <1>5

(* The two structures agree again. *)
LEMMA QueuedAddsUp ==
    ASSUME TypeOK, TypeOK', LensAddUp, NEW d \in Datagrams, urc_buffer_handler(d)
    PROVE  LensAddUp'
<1>1. Ends'[recv_qiurc_lens_count'] = circ_buf_avail(recv_qiurc_buf')
  BY QueuedEnds, QueuedFits, Layout
<1>2. Slot(recv_qiurc_lens_start' + recv_qiurc_lens_count', Size) = recv_qiurc_lens_end'
  BY QueuedLength
<1>. QED
  BY <1>1, <1>2 DEF LensAddUp, Size

(* And the datagram waits behind the others. *)
LEMMA QueuedWaits ==
    ASSUME TypeOK, TypeOK', LensAddUp, NEW d \in Datagrams, urc_buffer_handler(d)
    PROVE  Waiting' = Append(Waiting, d)
<1>. DEFINE n == recv_qiurc_lens_count
<1>1. n \in Nat /\ n' = n + 1
  BY QueuedFits
<1>2. PICK c : c = Contents(recv_qiurc_buf)
  OBVIOUS
<1>3. c \in Seq(Byte) /\ Len(c) = Ends[n] /\ Contents(recv_qiurc_buf') = c \o d
      /\ d \in Seq(Byte) /\ Len(d) \in Nat
  <2>1. recv_qiurc_buf \in CircBufs(MODEM_SOCKET_RECV_MAX + 1, Byte)
    BY DEF TypeOK
  <2>2. Contents(recv_qiurc_buf) \in Seq(Byte)
        /\ Len(Contents(recv_qiurc_buf)) = circ_buf_avail(recv_qiurc_buf)
    BY <2>1, Sizes, ContentsType
  <2>. QED
    BY <1>2, <2>2, Layout, QueuedFits
<1>4. Waiting' = [k \in 1 .. n + 1 |-> SubSeq(c \o d, Ends'[k - 1] + 1, Ends'[k])]
  BY <1>1, <1>3 DEF Waiting
<1>5. ASSUME NEW k \in 1 .. n
      PROVE  SubSeq(c \o d, Ends'[k - 1] + 1, Ends'[k]) = Waiting[k]
  <2>1. k \in 0 .. n /\ k - 1 \in 0 .. n /\ n \in 0 .. n /\ k <= n /\ k - 1 <= k
    BY <1>1
  <2>2. PICK a, b : a = Ends[k - 1] /\ b = Ends[k]
    OBVIOUS
  <2>3. a \in Nat /\ b \in Nat /\ a <= b /\ b <= Len(c)
    BY <1>3, <2>1, <2>2, Layout
  <2>4. SubSeq(c \o d, a + 1, b) = SubSeq(c, a + 1, b)
    BY <1>3, <2>3
  <2>. QED
    BY <1>2, <2>1, <2>2, <2>4, QueuedEnds, WaitingType
<1>6. SubSeq(c \o d, Ends'[(n + 1) - 1] + 1, Ends'[n + 1]) = d
  <2>1. (n + 1) - 1 = n /\ n \in 0 .. n
    BY <1>1
  <2>2. SubSeq(c \o d, Len(c) + 1, Len(c) + Len(d)) = d
    BY <1>3
  <2>. QED
    BY <1>3, <2>1, <2>2, QueuedEnds
<1>7. PICK q : q = Waiting
  OBVIOUS
<1>8. q \in Seq(Seq(Byte)) /\ Len(q) = n
  BY <1>7, WaitingType
<1>9. PICK r : r = Waiting'
  OBVIOUS
<1>10. r = [k \in 1 .. n + 1 |-> IF k = n + 1 THEN d ELSE q[k]]
  <2>1. \A k \in 1 .. n + 1 : k = n + 1 \/ k \in 1 .. n
    BY <1>1
  <2>2. \A k \in 1 .. n + 1 :
          SubSeq(c \o d, Ends'[k - 1] + 1, Ends'[k]) = IF k = n + 1 THEN d ELSE q[k]
    BY <1>5, <1>6, <1>7, <2>1
  <2>. QED
    BY <1>4, <1>9, <2>2
<1>11. r = Append(q, d)
  <2>1. PICK z : z = Append(q, d)
    OBVIOUS
  <2>2. z \in Seq(Seq(Byte)) /\ Len(z) = n + 1
    BY <1>1, <1>3, <1>8, <2>1
  <2>3. \A k \in 1 .. n + 1 : z[k] = IF k = n + 1 THEN d ELSE q[k]
    BY <1>1, <1>3, <1>8, <2>1
  <2>4. z = [k \in 1 .. n + 1 |-> z[k]]
    BY <2>2
  <2>. QED
    BY <1>10, <2>1, <2>3, <2>4
<1>. QED
  BY <1>7, <1>9, <1>11
-----------------------------------------------------------------------------
(* Both outcomes of modem_socket_try_recv take the oldest datagram out.    *)
TakeOldest == PopLen /\ recv_qiurc_buf' = circ_buf_advance_n(recv_qiurc_buf, oldest_len)

(* The bytes skipped are those of the oldest datagram.                     *)
LEMMA OldestIsHeld ==
    ASSUME TypeOK, LensAddUp, TakeOldest
    PROVE  /\ recv_qiurc_lens_count \in 1 .. Size
           /\ recv_qiurc_lens_count' = recv_qiurc_lens_count - 1
           /\ oldest_len = Lengths[1] /\ oldest_len = Ends[1]
           /\ oldest_len \in 0 .. circ_buf_avail(recv_qiurc_buf)
           /\ circ_buf_avail(recv_qiurc_buf') = circ_buf_avail(recv_qiurc_buf) - oldest_len
           /\ Contents(recv_qiurc_buf')
                = SubSeq(Contents(recv_qiurc_buf), oldest_len + 1, Len(Contents(recv_qiurc_buf)))
<1>. DEFINE n == recv_qiurc_lens_count
<1>1. n \in 1 .. Size /\ n' = n - 1
  BY Sizes DEF TypeOK, TakeOldest, PopLen
<1>2. 1 \in 1 .. n /\ 1 \in 0 .. n /\ n \in 0 .. n /\ 1 <= n
  BY <1>1, Sizes
<1>3. oldest_len = Lengths[1]
  <2>1. Slot(recv_qiurc_lens_start + 1 - 1, Size) = recv_qiurc_lens_start
    <3>1. recv_qiurc_lens_start + 1 - 1 = recv_qiurc_lens_start
          /\ recv_qiurc_lens_start \in 0 .. Size - 1
      BY Sizes DEF TypeOK
    <3>. QED
      BY <3>1, Sizes DEF Slot
  <2>. QED
    BY <1>2, <2>1 DEF Lengths, oldest_len
<1>4. Lengths[1] = Ends[1]
  <2>1. Ends[1] = Ends[1 - 1] + Lengths[1] /\ Ends[0] = 0 /\ Lengths[1] \in Nat
    BY <1>2, Layout
  <2>. QED
    BY <2>1
<1>5. oldest_len \in 0 .. circ_buf_avail(recv_qiurc_buf)
  <2>1. Ends[1] \in Nat /\ Ends[n] \in Nat /\ Ends[1] <= Ends[n]
        /\ Ends[n] = circ_buf_avail(recv_qiurc_buf)
    BY <1>2, Layout
  <2>. QED
    BY <1>3, <1>4, <2>1
<1>6. recv_qiurc_buf \in CircBufs(MODEM_SOCKET_RECV_MAX + 1, Byte)
  BY DEF TypeOK
<1>7. PICK o : o = oldest_len
  OBVIOUS
<1>8. recv_qiurc_buf' = circ_buf_advance_n(recv_qiurc_buf, o)
  BY <1>7 DEF TakeOldest
<1>9. /\ circ_buf_avail(circ_buf_advance_n(recv_qiurc_buf, o))
           = circ_buf_avail(recv_qiurc_buf) - o
      /\ Contents(circ_buf_advance_n(recv_qiurc_buf, o))
           = SubSeq(Contents(recv_qiurc_buf), o + 1, Len(Contents(recv_qiurc_buf)))
  BY <1>5, <1>6, <1>7, Sizes, AdvanceN, AdvanceContents
<1>. QED
  BY <1>1, <1>3, <1>4, <1>5, <1>7, <1>8, <1>9

(* The other lengths move up by one. *)
LEMMA OthersMoveUp ==
    ASSUME TypeOK, LensAddUp, TakeOldest
    PROVE  /\ \A k \in 1 .. recv_qiurc_lens_count - 1 : Lengths'[k] = Lengths[k + 1]
           /\ Slot(recv_qiurc_lens_start' + recv_qiurc_lens_count', Size) = recv_qiurc_lens_end'
<1>. DEFINE n == recv_qiurc_lens_count
            s == recv_qiurc_lens_start
<1>1. n \in 1 .. Size /\ n' = n - 1 /\ s \in 0 .. Size - 1 /\ s' = Slot(s + 1, Size)
      /\ Size \in Nat /\ Size > 0
  <2>1. n \in 1 .. Size /\ n' = n - 1
    BY OldestIsHeld
  <2>. QED
    BY <2>1, Sizes DEF TypeOK, TakeOldest, PopLen, NextLen
<1>2. /\ \A k \in 1 .. n - 1 :
           Slot(Slot(s + 1, Size) + k - 1, Size) = Slot(s + (k + 1) - 1, Size)
      /\ Slot(Slot(s + 1, Size) + (n - 1), Size) = Slot(s + n, Size)
  <2>. HIDE DEF s, n
  <2>. QED
    BY <1>1, NextStart
<1>3. UNCHANGED <<recv_qiurc_lens, recv_qiurc_lens_end>>
  BY DEF TakeOldest, PopLen
<1>4. ASSUME NEW k \in 1 .. n - 1 PROVE Lengths'[k] = Lengths[k + 1]
  <2>1. Lengths' = [i \in 1 .. n' |-> recv_qiurc_lens'[Slot(s' + i - 1, Size)]]
    BY DEF Lengths, Size
  <2>2. Lengths'[k] = recv_qiurc_lens[Slot(Slot(s + 1, Size) + k - 1, Size)]
    BY <1>1, <1>3, <2>1
  <2>3. k + 1 \in 1 .. n
    BY <1>1
  <2>. QED
    BY <1>2, <2>2, <2>3 DEF Lengths
<1>5. Slot(s' + n', Size) = recv_qiurc_lens_end'
  BY <1>1, <1>2, <1>3 DEF LensAddUp
<1>. QED
  BY <1>4, <1>5

(* So do the ends, less the bytes of the oldest. *)
LEMMA EndsMoveUp ==
    ASSUME TypeOK, TypeOK', LensAddUp, TakeOldest
    PROVE  \A k \in 0 .. recv_qiurc_lens_count - 1 : Ends'[k] = Ends[k + 1] - Ends[1]
<1>. DEFINE n == recv_qiurc_lens_count
            g == [k \in 0 .. n - 1 |-> Ends[k + 1] - Ends[1]]
<1>1. n \in Nat /\ n >= 1 /\ n' = n - 1 /\ n - 1 \in Nat
  BY OldestIsHeld, Sizes
<1>2. IsSum(Ends', Lengths', n - 1)
  BY <1>1, EndsAreSumsNext
<1>3. \A k \in 0 .. n - 1 : g[k] = Ends[k + 1] - Ends[1]
  BY <1>1
<1>4. AddsUp(g, Lengths', n - 1)
  <2>1. g = [k \in 0 .. n - 1 |-> g[k]]
    OBVIOUS
  <2>2. g[0] = 0
    <3>1. 0 \in 0 .. n - 1 /\ 1 \in 0 .. n /\ 0 + 1 = 1
      BY <1>1
    <3>2. Ends[1] \in Nat
      BY <3>1, Layout
    <3>. QED
      BY <1>3, <3>1, <3>2
  <2>3. ASSUME NEW k \in 1 .. n - 1 PROVE g[k] = g[k - 1] + Lengths'[k]
    <3>1. /\ k \in 0 .. n - 1 /\ k - 1 \in 0 .. n - 1 /\ (k - 1) + 1 = k /\ (k + 1) - 1 = k
          /\ k + 1 \in 1 .. n /\ k + 1 \in 0 .. n /\ k \in 0 .. n /\ 1 \in 0 .. n
      BY <1>1
    <3>2. g[k] = Ends[k + 1] - Ends[1] /\ g[k - 1] = Ends[k] - Ends[1]
      BY <1>3, <3>1
    <3>3. Ends[k + 1] = Ends[k] + Lengths[k + 1] /\ Lengths'[k] = Lengths[k + 1]
      BY <3>1, Layout, OthersMoveUp
    <3>4. Ends[k] \in Nat /\ Ends[1] \in Nat /\ Lengths[k + 1] \in Nat
      BY <3>1, Layout
    <3>. HIDE DEF g
    <3>. QED
      BY <3>2, <3>3, <3>4
  <2>. HIDE DEF g
  <2>. QED
    BY <2>1, <2>2, <2>3 DEF AddsUp
<1>5. Ends' = g
  <2>1. PICK m, w, f, h : m = n - 1 /\ w = Lengths' /\ f = Ends' /\ h = g
    OBVIOUS
  <2>2. m \in Nat /\ IsSum(f, w, m) /\ AddsUp(h, w, m)
    BY <1>1, <1>2, <1>4, <2>1
  <2>3. f = h
    BY <2>2, SumUnique
  <2>. QED
    BY <2>1, <2>3
<1>. QED
  BY <1>3, <1>5

(* The two structures agree again. *)
LEMMA TakenAddsUp ==
    ASSUME TypeOK, TypeOK', LensAddUp, TakeOldest
    PROVE  LensAddUp'
<1>. DEFINE n == recv_qiurc_lens_count
<1>1. n \in Nat /\ n - 1 \in 0 .. n - 1 /\ (n - 1) + 1 = n /\ n' = n - 1
  BY OldestIsHeld, Sizes
<1>2. Ends'[n'] = circ_buf_avail(recv_qiurc_buf')
  <2>1. Ends'[n - 1] = Ends[n] - Ends[1]
    BY <1>1, EndsMoveUp
  <2>. QED
    BY <1>1, <2>1, OldestIsHeld, Layout
<1>. QED
  BY <1>2, OthersMoveUp DEF LensAddUp, Size

(* A part of what is left is a part of the whole. *)
LEMMA SubSeqTwice ==
    ASSUME NEW S, NEW c \in Seq(S), NEW o \in Nat, NEW a \in Nat, NEW b \in Nat,
           o <= a, a <= b, b <= Len(c)
    PROVE  SubSeq(SubSeq(c, o + 1, Len(c)), (a - o) + 1, b - o) = SubSeq(c, a + 1, b)
<1>1. PICK l : l = Len(c)
  OBVIOUS
<1>2. PICK r : r = SubSeq(c, o + 1, l)
  OBVIOUS
<1>3. l \in Nat /\ o <= l /\ b <= l
  BY <1>1
<1>4. r \in Seq(S) /\ Len(r) = l - o /\ \A k \in 1 .. l - o : r[k] = c[o + k]
  BY <1>1, <1>2, <1>3
<1>5. PICK x : x = SubSeq(r, (a - o) + 1, b - o)
  OBVIOUS
<1>6. PICK y : y = SubSeq(c, a + 1, b)
  OBVIOUS
<1>7. PICK p, e : p = a - o /\ e = b - o
  OBVIOUS
<1>8. p \in Nat /\ e \in Nat /\ p <= e /\ e <= Len(r)
  BY <1>3, <1>4, <1>7
<1>9. x \in Seq(S) /\ Len(x) = e - p /\ \A k \in 1 .. e - p : x[k] = r[p + k]
  BY <1>4, <1>5, <1>7, <1>8
<1>10. y \in Seq(S) /\ Len(y) = b - a /\ \A k \in 1 .. b - a : y[k] = c[a + k]
  BY <1>1, <1>3, <1>6
<1>11. e - p = b - a /\ b - a \in Nat
  BY <1>7
<1>12. ASSUME NEW k \in 1 .. b - a PROVE x[k] = y[k]
  <2>1. k \in 1 .. e - p /\ p + k \in 1 .. l - o /\ o + (p + k) = a + k
    BY <1>3, <1>7, <1>11
  <2>. QED
    BY <1>4, <1>9, <1>10, <2>1
<1>13. x = [k \in 1 .. b - a |-> x[k]] /\ y = [k \in 1 .. b - a |-> y[k]]
  BY <1>9, <1>10, <1>11
<1>14. x = y
  BY <1>12, <1>13
<1>. QED
  BY <1>1, <1>2, <1>5, <1>6, <1>14

(* And the others still wait as they were. *)
LEMMA OthersWait ==
    ASSUME TypeOK, TypeOK', LensAddUp, TakeOldest
    PROVE  Waiting # <<>> /\ Waiting' = Tail(Waiting)
<1>. DEFINE n == recv_qiurc_lens_count
<1>1. n \in Nat /\ n >= 1 /\ n' = n - 1
  BY OldestIsHeld, Sizes
<1>2. PICK c, o : c = Contents(recv_qiurc_buf) /\ o = oldest_len
  OBVIOUS
<1>3. /\ c \in Seq(Byte) /\ Len(c) = Ends[n] /\ o \in Nat /\ o = Ends[1] /\ o <= Len(c)
      /\ Contents(recv_qiurc_buf') = SubSeq(c, o + 1, Len(c))
  <2>1. recv_qiurc_buf \in CircBufs(MODEM_SOCKET_RECV_MAX + 1, Byte)
    BY DEF TypeOK
  <2>2. Contents(recv_qiurc_buf) \in Seq(Byte)
        /\ Len(Contents(recv_qiurc_buf)) = circ_buf_avail(recv_qiurc_buf)
        /\ circ_buf_avail(recv_qiurc_buf) \in Nat
    BY <2>1, Sizes, ContentsType, AvailRange
  <2>3. o \in 0 .. circ_buf_avail(recv_qiurc_buf)
    BY <1>2, OldestIsHeld
  <2>. QED
    BY <1>2, <2>2, <2>3, Layout, OldestIsHeld
<1>4. PICK q, r : q = Waiting /\ r = Waiting'
  OBVIOUS
<1>5. q \in Seq(Seq(Byte)) /\ Len(q) = n
  BY <1>4, WaitingType
<1>6. r = [k \in 1 .. n - 1 |-> SubSeq(SubSeq(c, o + 1, Len(c)), Ends'[k - 1] + 1, Ends'[k])]
  BY <1>1, <1>3, <1>4 DEF Waiting
<1>7. ASSUME NEW k \in 1 .. n - 1
      PROVE  SubSeq(SubSeq(c, o + 1, Len(c)), Ends'[k - 1] + 1, Ends'[k]) = q[k + 1]
  <2>1. /\ k \in 0 .. n - 1 /\ k - 1 \in 0 .. n - 1 /\ (k - 1) + 1 = k /\ (k + 1) - 1 = k
        /\ k + 1 \in 1 .. n /\ k + 1 \in 0 .. n /\ k \in 0 .. n /\ 1 \in 0 .. n /\ n \in 0 .. n
        /\ k <= k + 1 /\ 1 <= k /\ k + 1 <= n
    BY <1>1
  <2>2. PICK a, b : a = Ends[k] /\ b = Ends[k + 1]
    OBVIOUS
  <2>3. a \in Nat /\ b \in Nat /\ o <= a /\ a <= b /\ b <= Len(c)
    BY <1>3, <2>1, <2>2, Layout
  <2>4. Ends'[k - 1] = a - o /\ Ends'[k] = b - o
    <3>1. Ends'[k - 1] = Ends[(k - 1) + 1] - Ends[1] /\ Ends'[k] = Ends[k + 1] - Ends[1]
      BY <2>1, EndsMoveUp
    <3>. QED
      BY <1>3, <2>1, <2>2, <3>1
  <2>5. SubSeq(SubSeq(c, o + 1, Len(c)), (a - o) + 1, b - o) = SubSeq(c, a + 1, b)
    <3>1. \A S : \A sq \in Seq(S) : \A i, j, m \in Nat :
            i <= j /\ j <= m /\ m <= Len(sq)
              => SubSeq(SubSeq(sq, i + 1, Len(sq)), (j - i) + 1, m - i) = SubSeq(sq, j + 1, m)
      BY SubSeqTwice, Zenon
    <3>2. c \in Seq(Byte) /\ o \in Nat /\ a \in Nat /\ b \in Nat
          /\ o <= a /\ a <= b /\ b <= Len(c)
      BY <1>3, <2>3
    <3>. QED
      BY <3>1, <3>2, Zenon
  <2>6. q[k + 1] = SubSeq(c, a + 1, b)
    BY <1>2, <1>4, <2>1, <2>2, WaitingType
  <2>. QED
    BY <2>4, <2>5, <2>6
<1>8. PICK t : t = Tail(q)
  OBVIOUS
<1>9. t = [k \in 1 .. n - 1 |-> t[k]] /\ \A k \in 1 .. n - 1 : t[k] = q[k + 1]
  <2>1. q # <<>> /\ n - 1 \in Nat
    BY <1>1, <1>5
  <2>2. Tail(q) \in Seq(Seq(Byte))
    BY <1>5, <2>1
  <2>3. Len(Tail(q)) = n - 1
    BY <1>1, <1>5, <2>1
  <2>4. \A k \in 1 .. n - 1 : Tail(q)[k] = q[k + 1]
    BY <1>1, <1>5, <2>1
  <2>5. t \in Seq(Seq(Byte)) /\ Len(t) = n - 1
    BY <1>8, <2>2, <2>3
  <2>6. t = [k \in 1 .. n - 1 |-> t[k]]
    BY <2>1, <2>5
  <2>. QED
    BY <1>8, <2>4, <2>6
<1>10. r = t
  BY <1>6, <1>7, <1>9
<1>11. q # <<>>
  BY <1>1, <1>5
<1>. QED
  BY <1>4, <1>8, <1>10, <1>11

-----------------------------------------------------------------------------
(* Initially the ring and the array are empty. *)
LEMMA InitAddsUp == Init => LensAddUp /\ Waiting = <<>>
<1>. SUFFICES ASSUME Init PROVE LensAddUp /\ Waiting = <<>>
  OBVIOUS
<1>1. TypeOK /\ recv_qiurc_lens_count = 0
  BY InitType DEF Init
<1>2. Ends[0] = 0
  BY <1>1, EndsAreSums DEF IsSum
<1>3. circ_buf_avail(recv_qiurc_buf) = 0
  BY Sizes DEF Init, EmptyBuf, circ_buf_avail
<1>4. Slot(recv_qiurc_lens_start + recv_qiurc_lens_count, Size) = recv_qiurc_lens_end
  BY Sizes DEF Init, Slot
<1>5. Waiting = <<>>
  <2>1. 1 .. 0 = {}
    OBVIOUS
  <2>. QED
    BY <1>1, <2>1 DEF Waiting
<1>. QED
  BY <1>1, <1>2, <1>3, <1>4, <1>5 DEF LensAddUp

(* What the two outcomes of modem_socket_try_recv have in common. *)
LEMMA BothTakeOldest ==
    ASSUME NEW n \in BufLens, RecvTooShort(n) \/ Recv(n)
    PROVE  TakeOldest
BY DEF RecvTooShort, Recv, TakeOldest

(* Nothing done, nothing changed. *)
LEMMA IdleKeeps ==
    ASSUME UNCHANGED vars
    PROVE  (LensAddUp <=> LensAddUp') /\ Waiting' = Waiting /\ handed' = handed
<1>1. UNCHANGED <<recv_qiurc_buf, recv_qiurc_lens, recv_qiurc_lens_start,
                  recv_qiurc_lens_end, recv_qiurc_lens_count, handed>>
  BY DEF vars, lens
<1>2. Ends' = Ends
  BY <1>1 DEF Ends, Size
<1>. QED
  BY <1>1, <1>2 DEF LensAddUp, Waiting, Size

(* Every step keeps the two structures in agreement. *)
LEMMA NextAddsUp ==
    TypeOK /\ TypeOK' /\ LensAddUp /\ [Next]_vars => LensAddUp'
<1>. SUFFICES ASSUME TypeOK, TypeOK', LensAddUp, [Next]_vars PROVE LensAddUp'
  OBVIOUS
<1>1. ASSUME NEW d \in Datagrams, urc_buffer_handler(d) PROVE LensAddUp'
  BY <1>1, QueuedAddsUp
<1>2. ASSUME NEW n \in BufLens, RecvTooShort(n) \/ Recv(n) PROVE LensAddUp'
  BY <1>2, BothTakeOldest, TakenAddsUp
<1>3. CASE UNCHANGED vars
  BY <1>3, IdleKeeps
<1>. QED
  BY <1>1, <1>2, <1>3 DEF Next

(* The lengths in the array add up to the bytes in the ring, and the       *)
(* start, the end and the count of the array fit each other: a handler     *)
(* that pushes bytes without a length, or skips another number of bytes    *)
(* than it popped, would shift every later datagram.                       *)
THEOREM LengthsAddUp == Spec => []LensAddUp
<1>1. Init => LensAddUp
  BY InitAddsUp
<1>. QED
  BY <1>1, NextAddsUp, TypeCorrect, PTL DEF Spec

-----------------------------------------------------------------------------
(* The abstract queue counts the bytes that the ring holds. *)
LEMMA BytesAreEnds ==
    ASSUME TypeOK, LensAddUp
    PROVE  Queue!Bytes[Len(Waiting)] = circ_buf_avail(recv_qiurc_buf)
<1>. DEFINE n == recv_qiurc_lens_count
<1>1. n \in Nat /\ Len(Waiting) = n
  BY Layout, WaitingType, Sizes
<1>2. PICK m, e, q : m = n /\ e = Ends /\ q = Waiting
  OBVIOUS
<1>3. m \in Nat /\ Len(q) = m /\ e \in [0 .. m -> Nat] /\ e[0] = 0
  BY <1>1, <1>2, Layout
<1>4. \A k \in 1 .. m : e[k] = e[k - 1] + Len(q[k])
  BY <1>2, Layout, WaitingType
<1>5. e = [k \in 0 .. Len(q) |-> IF k = 0 THEN 0 ELSE e[k - 1] + Len(q[k])]
  <2>1. ASSUME NEW k \in 0 .. m
        PROVE  e[k] = IF k = 0 THEN 0 ELSE e[k - 1] + Len(q[k])
    <3>1. k = 0 \/ k \in 1 .. m
      BY <1>3
    <3>. QED
      BY <1>3, <1>4, <3>1
  <2>2. e = [k \in 0 .. m |-> e[k]]
    BY <1>3
  <2>3. e = [k \in 0 .. m |-> IF k = 0 THEN 0 ELSE e[k - 1] + Len(q[k])]
    BY <2>1, <2>2
  <2>. QED
    BY <1>3, <2>3
<1>6. e = [k \in 0 .. Len(Waiting) |-> IF k = 0 THEN 0 ELSE e[k - 1] + Len(Waiting[k])]
  BY <1>2, <1>5
<1>7. Queue!Bytes = [k \in 0 .. Len(Waiting) |->
                       IF k = 0 THEN 0 ELSE Queue!Bytes[k - 1] + Len(Waiting[k])]
  BY <1>6 DEF Queue!Bytes
<1>. HIDE DEF Queue!Bytes
<1>8. PICK g : g = Queue!Bytes
  OBVIOUS
<1>9. g = [k \in 0 .. m |-> IF k = 0 THEN 0 ELSE g[k - 1] + Len(q[k])]
  BY <1>1, <1>2, <1>7, <1>8
<1>10. PICK w : w = [k \in 1 .. m |-> Len(q[k])]
  OBVIOUS
<1>11. \A k \in 1 .. m : w[k] = Len(q[k])
  BY <1>10
<1>12. IsSum(e, w, m)
  BY <1>3, <1>4, <1>11 DEF IsSum
<1>13. AddsUp(g, w, m)
  <2>1. g = [k \in 0 .. m |-> g[k]]
    BY <1>9
  <2>2. g[0] = 0
    BY <1>3, <1>9
  <2>3. ASSUME NEW k \in 1 .. m PROVE g[k] = g[k - 1] + w[k]
    <3>1. k \in 0 .. m /\ k # 0
      BY <1>3
    <3>. QED
      BY <1>9, <1>11, <3>1
  <2>. QED
    BY <2>1, <2>2, <2>3 DEF AddsUp
<1>14. e = g
  BY <1>3, <1>12, <1>13, SumUnique
<1>15. Ends[n] = circ_buf_avail(recv_qiurc_buf)
  BY Layout
<1>. QED
  BY <1>1, <1>2, <1>8, <1>14, <1>15

(* A datagram is queued only within the limits of the abstract queue. *)
LEMMA StepTake ==
    ASSUME TypeOK, TypeOK', LensAddUp, NEW d \in Datagrams, urc_buffer_handler(d)
    PROVE  Queue!Take(d)
<1>1. Len(Waiting) < Size
  BY QueuedFits, WaitingType, Sizes
<1>2. Queue!Bytes[Len(Waiting)] + Len(d) <= MODEM_SOCKET_RECV_MAX
  BY BytesAreEnds, QueuedFits
<1>3. Waiting' = Append(Waiting, d)
  BY QueuedWaits
<1>4. UNCHANGED handed
  BY DEF urc_buffer_handler
<1>. QED
  BY <1>1, <1>2, <1>3, <1>4 DEF Queue!Take

(* What the caller gets are the bytes of the oldest datagram. *)
LEMMA StepHandOver ==
    ASSUME TypeOK, TypeOK', LensAddUp, NEW n \in BufLens, Recv(n)
    PROVE  Queue!HandOver
<1>1. TakeOldest
  BY BothTakeOldest
<1>2. PICK c, o, q : c = Contents(recv_qiurc_buf) /\ o = oldest_len /\ q = Waiting
  OBVIOUS
<1>b. recv_qiurc_buf \in CircBufs(MODEM_SOCKET_RECV_MAX + 1, Byte)
  BY DEF TypeOK
<1>3. /\ c \in Seq(Byte) /\ Len(c) = circ_buf_avail(recv_qiurc_buf)
      /\ \A i \in 1 .. Len(c) : c[i] = circ_buf_seek(recv_qiurc_buf, i - 1)
  <2>1. /\ Contents(recv_qiurc_buf) \in Seq(Byte)
        /\ Len(Contents(recv_qiurc_buf)) = circ_buf_avail(recv_qiurc_buf)
        /\ \A i \in 1 .. circ_buf_avail(recv_qiurc_buf) :
             Contents(recv_qiurc_buf)[i] = circ_buf_seek(recv_qiurc_buf, i - 1)
    BY <1>b, Sizes, ContentsType
  <2>. QED
    BY <1>2, <2>1
<1>4. o \in 0 .. Len(c) /\ Len(c) \in Nat
  <2>1. oldest_len \in 0 .. circ_buf_avail(recv_qiurc_buf)
    BY <1>1, OldestIsHeld
  <2>2. circ_buf_avail(recv_qiurc_buf) \in Nat
    BY <1>b, Sizes, AvailRange
  <2>. QED
    BY <1>2, <1>3, <2>1, <2>2
<1>5. q[1] = SubSeq(c, 1, o)
  <2>1. 1 \in 1 .. recv_qiurc_lens_count
    BY <1>1, OldestIsHeld, Sizes
  <2>2. Waiting[1] = SubSeq(Contents(recv_qiurc_buf), Ends[1 - 1] + 1, Ends[1])
    BY <2>1, WaitingType
  <2>3. Ends[1 - 1] = 0 /\ Ends[1] = oldest_len
    BY <1>1, Layout, OldestIsHeld
  <2>. QED
    BY <1>2, <2>2, <2>3
<1>6. handed' = SubSeq(c, 1, o)
  <2>1. handed' = [k \in 1 .. o |-> circ_buf_seek(recv_qiurc_buf, k - 1)]
    BY <1>2 DEF Recv
  <2>2. handed' = [k \in 1 .. o |-> c[k]]
    BY <1>3, <1>4, <2>1
  <2>3. PICK x : x = SubSeq(c, 1, o)
    OBVIOUS
  <2>4. x \in Seq(Byte) /\ Len(x) = o /\ \A k \in 1 .. o : x[k] = c[k]
    BY <1>3, <1>4, <2>3
  <2>5. x = [k \in 1 .. o |-> x[k]]
    BY <2>4
  <2>6. x = [k \in 1 .. o |-> c[k]]
    BY <2>4, <2>5
  <2>. QED
    BY <2>2, <2>3, <2>6
<1>7. q # <<>> /\ Waiting' = Tail(Waiting)
  BY <1>1, <1>2, OthersWait
<1>8. q \in Seq(Seq(Byte))
  BY <1>2, WaitingType
<1>9. Head(q) = q[1]
  BY <1>7, <1>8
<1>. QED
  BY <1>2, <1>5, <1>6, <1>7, <1>9 DEF Queue!HandOver

(* Every step is one of the abstract queue, or changes nothing of it. *)
LEMMA StepQueue ==
    TypeOK /\ TypeOK' /\ LensAddUp /\ [Next]_vars => [Queue!Next]_(Queue!dq)
<1>. SUFFICES ASSUME TypeOK, TypeOK', LensAddUp, [Next]_vars
              PROVE  [Queue!Next]_(Queue!dq)
  OBVIOUS
<1>1. ASSUME NEW d \in Datagrams, urc_buffer_handler(d) PROVE Queue!Next
  <2>1. Queue!Take(d)
    BY <1>1, StepTake
  <2>. QED
    BY <2>1 DEF Queue!Next
<1>2. ASSUME NEW n \in BufLens, RecvTooShort(n) PROVE Queue!Next
  <2>1. Waiting # <<>> /\ Waiting' = Tail(Waiting)
    BY <1>2, BothTakeOldest, OthersWait
  <2>2. UNCHANGED handed
    BY <1>2 DEF RecvTooShort
  <2>. QED
    BY <2>1, <2>2 DEF Queue!Next, Queue!Lose
<1>3. ASSUME NEW n \in BufLens, Recv(n) PROVE Queue!Next
  <2>1. Queue!HandOver
    BY <1>3, StepHandOver
  <2>. QED
    BY <2>1 DEF Queue!Next
<1>4. CASE UNCHANGED vars
  <2>1. Waiting' = Waiting /\ handed' = handed
    BY <1>4, IdleKeeps
  <2>. QED
    BY <2>1 DEF Queue!dq
<1>. QED
  BY <1>1, <1>2, <1>3, <1>4 DEF Next

(* The ring and the array of lengths are a bounded queue of datagrams:     *)
(* each one comes out of modem_socket_try_recv whole and in the order of   *)
(* arrival, and the buffer that is too short for one loses that one alone. *)
THEOREM RingIsAQueue == Spec => ImplementsQueue
<1>1. Init => Queue!Init
  BY InitAddsUp DEF Init, Queue!Init
<1>. QED
  BY <1>1, StepQueue, TypeCorrect, LengthsAddUp, PTL DEF Spec, ImplementsQueue, Queue!Spec
=============================================================================
