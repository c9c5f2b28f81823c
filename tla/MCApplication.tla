--------------------------- MODULE MCApplication ---------------------------
(***************************************************************************)
(* Application with four commands: AT with two attempts, whose answer may  *)
(* be lost or garbled, ATE0, AT+CREG? whose answer has a line that         *)
(* completes the command and one that does not, and AT+QIACT?, with two    *)
(* lines that may follow unasked: enough to abort the reception and to     *)
(* leave a line in the data register.                                      *)
(***************************************************************************)
EXTENDS Application

ok_or_error == [t \in Texts |-> CASE t = "OK" -> 0 [] t = "ERROR" -> -1 [] OTHER -> 1]
creg_responses ==
    [t \in Texts |-> CASE t = "registered" -> 0 [] t = "ERROR" -> -1 [] OTHER -> 1]

MCCommands == <<
    [timeout |-> 1, attempts |-> 2, delay |-> 0, responses |-> ok_or_error,
     answers |-> {<<"OK">>, <<>>, <<Noise>>}],
    [timeout |-> 1, attempts |-> 1, delay |-> 0, responses |-> ok_or_error,
     answers |-> {<<"OK">>}],
    [timeout |-> 1, attempts |-> 1, delay |-> 0, responses |-> creg_responses,
     answers |-> {<<"registered", "OK">>, <<"ERROR">>}],
    [timeout |-> 1, attempts |-> 1, delay |-> 0, responses |-> ok_or_error,
     answers |-> {<<"other", "OK">>, <<"OK", "other", "other">>}]>>

Boot == Line("other", 0)
MCBootTexts == {<<>>, <<Boot>>, <<Noise>>, <<Boot, Boot>>, <<Noise, Boot>>}
MCDelays == {<<0, 0>>, <<1, 3>>}
=============================================================================
