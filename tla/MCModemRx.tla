----------------------------- MODULE MCModemRx -----------------------------
(***************************************************************************)
(* ModemRx with a ring of five slots: room for a one-byte line, its two    *)
(* terminators and a one-byte datagram, from every start position.         *)
(***************************************************************************)
EXTENDS ModemRx
=============================================================================
