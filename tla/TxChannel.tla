----------------------------- MODULE TxChannel -----------------------------
(***************************************************************************)
(* What modem_tx.c promises: a channel that takes one command at a time    *)
(* and puts its bytes on the line in order, all of them, and only then     *)
(* takes the next one.  Noise is the set of bytes the line may carry in    *)
(* place of the right one; a faithful transmitter has Noise = {}.          *)
(***************************************************************************)
EXTENDS Sequences

CONSTANTS Commands, Noise

VARIABLES busy, rest, out

chan == <<busy, rest, out>>

Init == busy = FALSE /\ rest = <<>> /\ out = <<>>

Accept(c) ==
    /\ ~busy
    /\ busy' = TRUE
    /\ rest' = c
    /\ out' = <<>>

Emit ==
    /\ busy
    /\ rest # <<>>
    /\ \E b \in {Head(rest)} \cup Noise : out' = Append(out, b)
    /\ rest' = Tail(rest)
    /\ UNCHANGED busy

Finish ==
    /\ busy
    /\ rest = <<>>
    /\ busy' = FALSE
    /\ UNCHANGED <<rest, out>>

Next == (\E c \in Commands : Accept(c)) \/ Emit \/ Finish

Spec == Init /\ [][Next]_chan /\ WF_chan(Emit) /\ WF_chan(Finish)
=============================================================================
