--------------------------- MODULE CircBufProofs ---------------------------
(***************************************************************************)
(* What the operators of circ_buf.h do to the contents of a ring, for      *)
(* every length, content and position of begin and end.                    *)
(***************************************************************************)
EXTENDS CircBuf, TLAPS

(* An index moved forward by less than a whole turn. *)
LEMMA Wrap ==
    ASSUME NEW len \in Nat, len > 0, NEW b \in 0 .. len - 1, NEW j \in 0 .. len - 1
    PROVE  /\ Slot(b + j, len) = IF b + j < len THEN b + j ELSE b + j - len
           /\ Slot(b + j, len) \in 0 .. len - 1
BY SMT DEF Slot

LEMMA WrapOnce ==
    ASSUME NEW len \in Nat, len > 0, NEW k \in Nat, k < 2 * len
    PROVE  Slot(k, len) = IF k < len THEN k ELSE k - len
BY SMT DEF Slot

(* The distance from the end of what is held to its index j, going round   *)
(* the ring: what the loop of circ_buf_append counts.                      *)
LEMMA Distance ==
    ASSUME NEW len \in Nat, len > 0, NEW b \in 0 .. len - 1,
           NEW av \in 0 .. len - 1, NEW j \in 0 .. len - 1
    PROVE  Slot(Slot(b + j, len) + len - Slot(b + av, len), len)
             = IF j < av THEN len - av + j ELSE j - av
BY SMT DEF Slot

(* Moving forward twice. *)
LEMMA SlotTwice ==
    ASSUME NEW len \in Nat, len > 0, NEW b \in 0 .. len - 1, NEW n \in 0 .. len - 1,
           NEW j \in 0 .. len - 1, n + j < len
    PROVE  Slot(Slot(b + n, len) + j, len) = Slot(b + (j + n), len)
BY SMT DEF Slot

(* An index reduced to a slot is a slot. *)
LEMMA SlotRange ==
    ASSUME NEW len \in Nat, len > 0, NEW k \in Nat
    PROVE  Slot(k, len) \in 0 .. len - 1
BY SMT DEF Slot

(* The fields of a ring, and where its end is. *)
LEMMA Fields ==
    ASSUME NEW len \in Nat, len > 0, NEW Byte, NEW buf \in CircBufs(len, Byte)
    PROVE  /\ buf.begin \in 0 .. len - 1
           /\ buf.end \in 0 .. len - 1
           /\ buf.len = len
           /\ buf.storage \in [0 .. len - 1 -> Byte]
           /\ buf.end = Slot(buf.begin + circ_buf_avail(buf), len)
<1>1. /\ buf.begin \in 0 .. len - 1 /\ buf.end \in 0 .. len - 1
      /\ buf.len = len /\ buf.storage \in [0 .. len - 1 -> Byte]
  BY DEF CircBufs
<1>2. /\ circ_buf_avail(buf) \in 0 .. len - 1
      /\ buf.end = IF buf.begin + circ_buf_avail(buf) < len
                   THEN buf.begin + circ_buf_avail(buf)
                   ELSE buf.begin + circ_buf_avail(buf) - len
  BY DEF CircBufs, circ_buf_avail
<1>3. Slot(buf.begin + circ_buf_avail(buf), len)
        = IF buf.begin + circ_buf_avail(buf) < len
          THEN buf.begin + circ_buf_avail(buf)
          ELSE buf.begin + circ_buf_avail(buf) - len
  <2>1. buf.begin \in 0 .. len - 1 /\ circ_buf_avail(buf) \in 0 .. len - 1
    BY <1>1, <1>2
  <2>. QED
    BY <2>1, Wrap
<1>. QED
  BY <1>1, <1>2, <1>3

(* The end index determines how much is held. *)
LEMMA AvailIs ==
    ASSUME NEW len \in Nat, len > 0, NEW Byte, NEW buf \in CircBufs(len, Byte),
           NEW k \in 0 .. len - 1, buf.end = Slot(buf.begin + k, len)
    PROVE  circ_buf_avail(buf) = k
<1>1. buf.begin \in 0 .. len - 1
  BY DEF CircBufs
<1>2. Slot(buf.begin + k, len) = IF buf.begin + k < len THEN buf.begin + k
                                                        ELSE buf.begin + k - len
  BY <1>1, Wrap
<1>3. circ_buf_avail(buf) = IF buf.begin <= buf.end THEN buf.end - buf.begin
                                                    ELSE len - buf.begin + buf.end
  BY DEF CircBufs, circ_buf_avail
<1>. QED
  BY <1>1, <1>2, <1>3

(* The number of bytes held never reaches len: the ring keeps one slot     *)
(* empty, and what circ_buf_free returns is what can still be pushed.      *)
LEMMA AvailRange ==
    ASSUME NEW len \in Nat, len > 0, NEW Byte, NEW buf \in CircBufs(len, Byte)
    PROVE  /\ circ_buf_avail(buf) \in 0 .. len - 1
           /\ circ_buf_free(buf) = len - 1 - circ_buf_avail(buf)
BY DEF CircBufs, circ_buf_avail, circ_buf_free

(* circ_buf_seek stays inside the storage. *)
LEMMA SeekType ==
    ASSUME NEW len \in Nat, len > 0, NEW Byte, NEW buf \in CircBufs(len, Byte),
           NEW at \in Nat
    PROVE  circ_buf_seek(buf, at) \in Byte
<1>1. buf.begin + at \in Nat /\ buf.len = len
  BY DEF CircBufs
<1>2. Slot(buf.begin + at, len) \in 0 .. len - 1
  BY <1>1, SlotRange
<1>3. buf.storage \in [0 .. len - 1 -> Byte]
  BY DEF CircBufs
<1>. QED
  BY <1>1, <1>2, <1>3 DEF circ_buf_seek

(* Contents is a sequence of circ_buf_avail bytes. *)
LEMMA ContentsType ==
    ASSUME NEW len \in Nat, len > 0, NEW Byte, NEW buf \in CircBufs(len, Byte)
    PROVE  /\ Contents(buf) \in Seq(Byte)
           /\ Len(Contents(buf)) = circ_buf_avail(buf)
           /\ \A i \in 1 .. circ_buf_avail(buf) : Contents(buf)[i] = circ_buf_seek(buf, i - 1)
<1>1. circ_buf_avail(buf) \in Nat
  BY AvailRange
<1>2. \A i \in 1 .. circ_buf_avail(buf) : circ_buf_seek(buf, i - 1) \in Byte
  BY <1>1, SeekType
<1>. QED
  BY <1>1, <1>2 DEF Contents

(* circ_buf_advance_n of no more bytes than are held drops that many of    *)
(* the oldest and nothing else.                                            *)
LEMMA AdvanceN ==
    ASSUME NEW len \in Nat, len > 0, NEW Byte, NEW buf \in CircBufs(len, Byte),
           NEW n \in 0 .. circ_buf_avail(buf)
    PROVE  /\ circ_buf_advance_n(buf, n) \in CircBufs(len, Byte)
           /\ circ_buf_avail(circ_buf_advance_n(buf, n)) = circ_buf_avail(buf) - n
           /\ \A i \in 1 .. circ_buf_avail(buf) - n :
                 Contents(circ_buf_advance_n(buf, n))[i] = Contents(buf)[i + n]
<1>. DEFINE new == circ_buf_advance_n(buf, n)
            av == circ_buf_avail(buf)
<1>av. av \in 0 .. len - 1
  BY AvailRange
<1>n. n \in 0 .. len - 1 /\ n <= av
  BY <1>av
<1>b. buf.begin \in 0 .. len - 1
  BY Fields
<1>e. buf.end \in 0 .. len - 1
  BY Fields
<1>end. buf.end = Slot(buf.begin + av, len)
  BY Fields
<1>l. buf.len = len /\ buf.storage \in [0 .. len - 1 -> Byte]
  BY Fields
<1>1. Slot(buf.begin + n, len) \in 0 .. len - 1
  BY <1>n, <1>b, Wrap
<1>2. new = [begin |-> Slot(buf.begin + n, len), end |-> buf.end, len |-> len,
             storage |-> buf.storage]
  BY <1>l DEF CircBufs, circ_buf_advance_n
<1>3. new \in CircBufs(len, Byte)
  BY <1>1, <1>2, <1>e, <1>l DEF CircBufs
<1>4. circ_buf_avail(new) = av - n
  <2>1. av - n \in 0 .. len - 1 /\ n + (av - n) < len /\ (av - n) + n = av
    BY <1>av, <1>n
  <2>2. Slot(Slot(buf.begin + n, len) + (av - n), len) = Slot(buf.begin + ((av - n) + n), len)
    BY <1>n, <1>b, <2>1, SlotTwice
  <2>3. new.end = Slot(new.begin + (av - n), len)
    BY <1>end, <1>2, <2>1, <2>2
  <2>. QED
    BY <1>3, <2>1, <2>3, AvailIs
<1>5. ASSUME NEW i \in 1 .. av - n
      PROVE  Contents(new)[i] = Contents(buf)[i + n]
  <2>1. i - 1 \in 0 .. len - 1 /\ n + (i - 1) < len /\ i + n \in 1 .. av
    BY <1>av, <1>n
  <2>2. Contents(new)[i] = circ_buf_seek(new, i - 1)
    BY <1>3, <1>4, ContentsType
  <2>3. Contents(buf)[i + n] = circ_buf_seek(buf, i + n - 1)
    BY <2>1, ContentsType
  <2>4. Slot(Slot(buf.begin + n, len) + (i - 1), len) = Slot(buf.begin + ((i - 1) + n), len)
    BY <1>n, <1>b, <2>1, SlotTwice
  <2>5. circ_buf_seek(new, i - 1) = buf.storage[Slot(Slot(buf.begin + n, len) + (i - 1), len)]
    BY <1>2 DEF circ_buf_seek
  <2>6. circ_buf_seek(buf, i + n - 1) = buf.storage[Slot(buf.begin + ((i - 1) + n), len)]
    <3>1. i + n - 1 = (i - 1) + n
      BY <1>n
    <3>. QED
      BY <3>1, <1>l DEF circ_buf_seek
  <2>. QED
    BY <2>2, <2>3, <2>4, <2>5, <2>6
<1>. QED
  BY <1>3, <1>4, <1>5

(* circ_buf_pop takes the oldest byte off the contents. *)
LEMMA PopOldest ==
    ASSUME NEW len \in Nat, len > 0, NEW Byte, NEW buf \in CircBufs(len, Byte),
           circ_buf_avail(buf) > 0
    PROVE  Contents(buf) = <<circ_buf_seek(buf, 0)>> \o Contents(circ_buf_pop(buf))
<1>. DEFINE new == circ_buf_pop(buf)
            av == circ_buf_avail(buf)
<1>1. av \in 0 .. len - 1 /\ av > 0 /\ 1 \in 0 .. av
  BY AvailRange
<1>2. /\ new \in CircBufs(len, Byte)
      /\ circ_buf_avail(new) = av - 1
      /\ \A i \in 1 .. av - 1 : Contents(new)[i] = Contents(buf)[i + 1]
  BY <1>1, AdvanceN DEF circ_buf_pop
<1>3. Contents(new) \in Seq(Byte) /\ Len(Contents(new)) = av - 1
  BY <1>2, ContentsType
<1>4. Contents(buf) \in Seq(Byte) /\ Len(Contents(buf)) = av
      /\ Contents(buf)[1] = circ_buf_seek(buf, 0)
  BY <1>1, ContentsType
<1>5. circ_buf_seek(buf, 0) \in Byte
  BY SeekType
<1>. HIDE DEF new, av
<1>6. ASSUME NEW i \in 1 .. av
      PROVE  (<<circ_buf_seek(buf, 0)>> \o Contents(new))[i] = Contents(buf)[i]
  <2>1. CASE i = 1
    BY <1>3, <1>4, <1>5, <2>1
  <2>2. CASE ~(i = 1)
    <3>1. i - 1 \in 1 .. av - 1
      BY <1>1, <2>2
    <3>2. (<<circ_buf_seek(buf, 0)>> \o Contents(new))[i] = Contents(new)[i - 1]
      BY <1>1, <1>3, <1>5, <2>2
    <3>3. Contents(new)[i - 1] = Contents(buf)[(i - 1) + 1] /\ (i - 1) + 1 = i
      BY <1>1, <1>2, <3>1
    <3>. QED
      BY <3>2, <3>3
  <2>. QED
    BY <2>1, <2>2
<1>7. <<circ_buf_seek(buf, 0)>> \o Contents(new) \in Seq(Byte)
      /\ Len(<<circ_buf_seek(buf, 0)>> \o Contents(new)) = av
  BY <1>1, <1>3, <1>5
<1>8. Contents(buf) = <<circ_buf_seek(buf, 0)>> \o Contents(new)
  BY <1>4, <1>6, <1>7
<1>. QED
  BY <1>8 DEF new

(* circ_buf_append of bytes that fit puts them behind what is held, and    *)
(* leaves what is held alone.                                              *)
LEMMA AppendBytes ==
    ASSUME NEW len \in Nat, len > 0, NEW Byte, NEW buf \in CircBufs(len, Byte),
           NEW bytes \in Seq(Byte), Len(bytes) <= circ_buf_free(buf)
    PROVE  /\ circ_buf_append(buf, bytes) \in CircBufs(len, Byte)
           /\ circ_buf_avail(circ_buf_append(buf, bytes)) = circ_buf_avail(buf) + Len(bytes)
           /\ Contents(circ_buf_append(buf, bytes)) = Contents(buf) \o bytes
<1>. DEFINE new == circ_buf_append(buf, bytes)
            av == circ_buf_avail(buf)
            n == Len(bytes)
            e == Slot(buf.end + n, len)
<1>av. av \in 0 .. len - 1
  BY AvailRange
<1>n. n \in 0 .. len - 1 /\ av + n <= len - 1
  BY AvailRange
<1>b. buf.begin \in 0 .. len - 1
  BY Fields
<1>e. buf.end \in 0 .. len - 1
  BY Fields
<1>end. buf.end = Slot(buf.begin + av, len)
  BY Fields
<1>l. buf.len = len /\ buf.storage \in [0 .. len - 1 -> Byte]
  BY Fields
<1>1. Written(buf, bytes) \in [0 .. len - 1 -> Byte]
  <2>1. ASSUME NEW i \in 0 .. len - 1
        PROVE  Slot(i + len - buf.end, len) \in Nat
    <3>1. i + len - buf.end \in Nat
      BY <1>e
    <3>2. Slot(i + len - buf.end, len) \in 0 .. len - 1
      BY <3>1, SlotRange
    <3>. QED
      BY <3>2
  <2>2. ASSUME NEW k \in Nat, k < n
        PROVE  bytes[k + 1] \in Byte
    BY <2>2
  <2>. QED
    BY <1>l, <2>1, <2>2 DEF Written
<1>2. e \in 0 .. len - 1
  <2>. HIDE DEF n
  <2>. QED
    BY <1>n, <1>e, Wrap
<1>3. new = [begin |-> buf.begin, end |-> e, len |-> len, storage |-> Written(buf, bytes)]
  BY <1>l DEF circ_buf_append
<1>4. new \in CircBufs(len, Byte)
  BY <1>b, <1>1, <1>2, <1>3 DEF CircBufs
<1>5. circ_buf_avail(new) = av + n
  <2>1. av + n \in 0 .. len - 1 /\ n + av = av + n
    BY <1>av, <1>n
  <2>2. Slot(Slot(buf.begin + av, len) + n, len) = Slot(buf.begin + (n + av), len)
    BY <1>av, <1>n, <1>b, SlotTwice
  <2>3. new.end = Slot(new.begin + (av + n), len)
    BY <1>end, <1>3, <2>1, <2>2
  <2>. QED
    BY <1>4, <2>1, <2>3, AvailIs
<1>6. ASSUME NEW i \in 1 .. av + n
      PROVE  Contents(new)[i] = (Contents(buf) \o bytes)[i]
  <2>. DEFINE at == Slot(buf.begin + (i - 1), len)
              k == Slot(at + len - buf.end, len)
  <2>i. i - 1 \in 0 .. len - 1
    BY <1>av, <1>n
  <2>1. at \in 0 .. len - 1
    BY <1>b, <2>i, Wrap
  <2>2. k = IF i - 1 < av THEN len - av + (i - 1) ELSE (i - 1) - av
    <3>1. k = Slot(Slot(buf.begin + (i - 1), len) + len - Slot(buf.begin + av, len), len)
      BY <1>end
    <3>2. Slot(Slot(buf.begin + (i - 1), len) + len - Slot(buf.begin + av, len), len)
            = IF i - 1 < av THEN len - av + (i - 1) ELSE (i - 1) - av
      <4>. HIDE DEF av
      <4>. QED
        BY <1>av, <1>b, <2>i, Distance
    <3>. QED
      BY <3>1, <3>2
  <2>3. Contents(new)[i] = Written(buf, bytes)[at]
    <3>1. Contents(new)[i] = circ_buf_seek(new, i - 1)
      BY <1>4, <1>5, ContentsType
    <3>. QED
      BY <1>3, <3>1 DEF circ_buf_seek
  <2>4. Written(buf, bytes)[at] = IF k < n THEN bytes[k + 1] ELSE buf.storage[at]
    BY <1>l, <2>1 DEF Written
  <2>5. /\ Contents(buf) \in Seq(Byte) /\ Len(Contents(buf)) = av
        /\ i <= av => Contents(buf)[i] = circ_buf_seek(buf, i - 1)
    BY ContentsType
  <2>6. CASE i <= av
    <3>1. ~(k < n)
      <4>. HIDE DEF av, n, k
      <4>. QED
        BY <1>av, <1>n, <2>2, <2>6
    <3>2. Contents(buf)[i] = buf.storage[at]
      BY <1>l, <2>5, <2>6 DEF circ_buf_seek
    <3>3. (Contents(buf) \o bytes)[i] = Contents(buf)[i]
      BY <2>5, <2>6
    <3>. QED
      BY <2>3, <2>4, <3>1, <3>2, <3>3
  <2>7. CASE ~(i <= av)
    <3>1. k < n /\ k + 1 = i - av
      <4>. HIDE DEF av, n, k
      <4>. QED
        BY <1>av, <1>n, <2>2, <2>7
    <3>2. (Contents(buf) \o bytes)[i] = bytes[i - av]
      BY <1>av, <1>n, <2>5, <2>7
    <3>. QED
      BY <2>3, <2>4, <3>1, <3>2
  <2>. QED
    BY <2>6, <2>7
<1>7. /\ Contents(new) \in Seq(Byte) /\ Len(Contents(new)) = av + n
      /\ Contents(buf) \o bytes \in Seq(Byte) /\ Len(Contents(buf) \o bytes) = av + n
  BY <1>4, <1>5, ContentsType
<1>8. Contents(new) = Contents(buf) \o bytes
  <2>. HIDE DEF av, new, n
  <2>. QED
    BY <1>6, <1>7
<1>. QED
  BY <1>4, <1>5, <1>8

(* Moving begin forward keeps the ring a ring, however far. *)
LEMMA AdvanceType ==
    ASSUME NEW len \in Nat, len > 0, NEW Byte, NEW buf \in CircBufs(len, Byte), NEW n \in Nat
    PROVE  circ_buf_advance_n(buf, n) \in CircBufs(len, Byte)
<1>1. buf.begin + n \in Nat /\ buf.len = len
  BY DEF CircBufs
<1>2. Slot(buf.begin + n, len) \in 0 .. len - 1
  BY <1>1, SlotRange
<1>. QED
  BY <1>1, <1>2 DEF CircBufs, circ_buf_advance_n

(* What is left after circ_buf_advance_n is the rest of the contents. *)
LEMMA AdvanceContents ==
    ASSUME NEW len \in Nat, len > 0, NEW Byte, NEW buf \in CircBufs(len, Byte),
           NEW n \in 0 .. circ_buf_avail(buf)
    PROVE  Contents(circ_buf_advance_n(buf, n))
             = SubSeq(Contents(buf), n + 1, Len(Contents(buf)))
<1>. DEFINE new == Contents(circ_buf_advance_n(buf, n))
            old == Contents(buf)
            av == circ_buf_avail(buf)
<1>1. av \in Nat /\ n \in Nat /\ n <= av
  BY AvailRange
<1>2. old \in Seq(Byte) /\ Len(old) = av
  BY ContentsType
<1>3. new \in Seq(Byte) /\ Len(new) = av - n
  <2>1. /\ circ_buf_advance_n(buf, n) \in CircBufs(len, Byte)
        /\ circ_buf_avail(circ_buf_advance_n(buf, n)) = av - n
    BY AdvanceN
  <2>. QED
    BY <2>1, ContentsType
<1>4. \A i \in 1 .. av - n : new[i] = old[i + n]
  BY AdvanceN
<1>. HIDE DEF new, old, av
<1>5. SubSeq(old, n + 1, av) \in Seq(Byte) /\ Len(SubSeq(old, n + 1, av)) = av - n
  BY <1>1, <1>2
<1>6. \A i \in 1 .. av - n : SubSeq(old, n + 1, av)[i] = old[i + n]
  BY <1>1, <1>2
<1>7. new = SubSeq(old, n + 1, av)
  BY <1>3, <1>4, <1>5, <1>6
<1>. QED
  BY <1>2, <1>7 DEF new, old

(* circ_buf_push of a byte that fits adds it at the end.  Indices that have *)
(* wrapped stay so.                                                        *)
LEMMA PushByte ==
    ASSUME NEW len \in Nat, len > 0, NEW Byte, NEW buf \in CircBufs(len, Byte),
           NEW byte \in Byte, circ_buf_free(buf) # 0
    PROVE  /\ circ_buf_push(buf, byte) \in CircBufs(len, Byte)
           /\ circ_buf_avail(circ_buf_push(buf, byte)) = circ_buf_avail(buf) + 1
           /\ Contents(circ_buf_push(buf, byte)) = Append(Contents(buf), byte)
           /\ circ_buf_push(buf, byte).begin = buf.begin
           /\ buf.end < buf.begin => circ_buf_push(buf, byte).end < buf.begin
<1>b. buf.begin \in 0 .. len - 1 /\ buf.end \in 0 .. len - 1
      /\ buf.len = len /\ buf.storage \in [0 .. len - 1 -> Byte]
  BY Fields
<1>av. circ_buf_avail(buf) \in 0 .. len - 1 /\ circ_buf_avail(buf) + 1 <= len - 1
  BY AvailRange
<1>1. Written(buf, <<byte>>) = [buf.storage EXCEPT ![buf.end] = byte]
  <2>1. ASSUME NEW i \in 0 .. len - 1
        PROVE  Slot(i + len - buf.end, len) \in Nat
               /\ (Slot(i + len - buf.end, len) < 1 <=> i = buf.end)
    <3>1. PICK k \in Nat : k = i + len - buf.end /\ k < 2 * len
      BY <1>b
    <3>2. Slot(k, len) = IF k < len THEN k ELSE k - len
      BY <3>1, WrapOnce
    <3>. QED
      BY <1>b, <3>1, <3>2
  <2>2. Written(buf, <<byte>>) = [i \in 0 .. len - 1 |->
                                    IF i = buf.end THEN byte ELSE buf.storage[i]]
    <3>1. ASSUME NEW k \in Nat, k < 1
          PROVE  <<byte>>[k + 1] = byte
      BY <3>1
    <3>. QED
      BY <1>b, <2>1, <3>1 DEF Written
  <2>. QED
    BY <1>b, <2>2
<1>2. circ_buf_push(buf, byte) = circ_buf_append(buf, <<byte>>)
  <2>1. circ_buf_append(buf, <<byte>>)
          = [begin |-> buf.begin, end |-> Slot(buf.end + 1, buf.len), len |-> buf.len,
             storage |-> [buf.storage EXCEPT ![buf.end] = byte]]
    <3>1. Len(<<byte>>) = 1
      OBVIOUS
    <3>. QED
      BY <1>1, <3>1 DEF circ_buf_append
  <2>2. circ_buf_push(buf, byte)
          = [begin |-> buf.begin, end |-> Slot(buf.end + 1, buf.len), len |-> buf.len,
             storage |-> [buf.storage EXCEPT ![buf.end] = byte]]
    <3>1. buf = [begin |-> buf.begin, end |-> buf.end, len |-> buf.len, storage |-> buf.storage]
      BY DEF CircBufs
    <3>2. circ_buf_push(buf, byte)
            = [[begin |-> buf.begin, end |-> buf.end, len |-> buf.len, storage |-> buf.storage]
                 EXCEPT !.storage[buf.end] = byte, !.end = Slot(buf.end + 1, buf.len)]
      BY <3>1, Zenon DEF circ_buf_push
    <3>. QED
      BY <1>b, <3>2
  <2>. QED
    BY <2>1, <2>2
<1>3. /\ circ_buf_append(buf, <<byte>>) \in CircBufs(len, Byte)
      /\ circ_buf_avail(circ_buf_append(buf, <<byte>>)) = circ_buf_avail(buf) + 1
      /\ Contents(circ_buf_append(buf, <<byte>>)) = Contents(buf) \o <<byte>>
  <2>1. <<byte>> \in Seq(Byte) /\ Len(<<byte>>) = 1 /\ 1 <= circ_buf_free(buf)
    BY AvailRange
  <2>. QED
    BY <2>1, AppendBytes
<1>4. Contents(buf) \o <<byte>> = Append(Contents(buf), byte)
  BY ContentsType
<1>5. circ_buf_push(buf, byte).begin = buf.begin
  BY <1>b DEF circ_buf_push, CircBufs
<1>6. ASSUME buf.end < buf.begin
      PROVE  circ_buf_push(buf, byte).end < buf.begin
  <2>1. buf.end + 1 < buf.begin
    BY <1>av, <1>b, <1>6 DEF circ_buf_avail
  <2>2. Slot(buf.end + 1, len) = buf.end + 1
    BY <1>b, <2>1 DEF Slot
  <2>. QED
    BY <1>b, <2>1, <2>2 DEF circ_buf_push, CircBufs
<1>. QED
  BY <1>2, <1>3, <1>4, <1>5, <1>6
=============================================================================
