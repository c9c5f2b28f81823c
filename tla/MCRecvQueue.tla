---------------------------- MODULE MCRecvQueue ----------------------------
(***************************************************************************)
(* RecvQueue with a ring of five slots, three lengths, and datagrams of no *)
(* byte to as many as are taken for truncated.  Two bytes are enough to    *)
(* tell a datagram from a shifted or swapped one.                          *)
(***************************************************************************)
EXTENDS RecvQueue

CONSTANTS a, b

MCByte == {a, b}
MCDatagrams == {<<>>, <<a>>, <<b, a>>, <<b, b, a>>, <<a, b, b, a>>}
=============================================================================
