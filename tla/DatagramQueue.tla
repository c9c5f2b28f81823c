--------------------------- MODULE DatagramQueue ---------------------------
(***************************************************************************)
(* What the receive queue of modem.c promises: a bounded queue of whole    *)
(* datagrams.  A datagram is taken or dropped when it is announced, and    *)
(* the oldest one is handed over, unless the caller's buffer is too short, *)
(* which loses that datagram and no other.                                 *)
(***************************************************************************)
EXTENDS Naturals, Sequences

CONSTANTS Datagrams, MaxCount, MaxBytes

VARIABLES queue, handed

dq == <<queue, handed>>

Init == queue = <<>> /\ handed = <<>>

(* The bytes of the first n datagrams. *)
Bytes[n \in 0 .. Len(queue)] == IF n = 0 THEN 0 ELSE Bytes[n - 1] + Len(queue[n])

Take(d) ==
    /\ Len(queue) < MaxCount /\ Bytes[Len(queue)] + Len(d) <= MaxBytes
    /\ queue' = Append(queue, d)
    /\ UNCHANGED handed

HandOver ==
    /\ queue # <<>>
    /\ handed' = Head(queue)
    /\ queue' = Tail(queue)

Lose == queue # <<>> /\ queue' = Tail(queue) /\ UNCHANGED handed

Next == (\E d \in Datagrams : Take(d)) \/ HandOver \/ Lose

Spec == Init /\ [][Next]_dq
=============================================================================
