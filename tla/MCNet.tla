------------------------------- MODULE MCNet -------------------------------
(***************************************************************************)
(* Net with one host, one message, a datagram that fits the receive ring   *)
(* once and one of the length that is taken for truncated.                 *)
(***************************************************************************)
EXTENDS Net

CONSTANTS server, update, short, full

MCDatagrams == {short, full}
MCSize == [d \in MCDatagrams |-> IF d = full THEN 2 ELSE 1]
=============================================================================
