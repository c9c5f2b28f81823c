----------------------------- MODULE MCModemTx -----------------------------
(***************************************************************************)
(* ModemTx with three commands: the shortest, one that needs two bytes and *)
(* one that fills the ring to its last usable slot.  With a ring of five   *)
(* slots every start position and every wrap occurs.                       *)
(***************************************************************************)
EXTENDS ModemTx

CONSTANTS a, b, c, junk

MCByte == {a, b, c}
MCCommands == {<<b>>, <<a, b>>, <<a, b, c, a>>}
MCClobber == {junk}
=============================================================================
