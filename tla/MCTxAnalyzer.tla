---------------------------- MODULE MCTxAnalyzer -----------------------------
(* Two nodes, one or two blocks, and three minutes in one or two ticks.  Logs  *)
(* that decode, of an unknown event, without a topic, with data that does not  *)
(* fit, of an event with the same topic and more indexed arguments, and with a *)
(* value of a function type.                                                   *)
EXTENDS TxAnalyzer

CONSTANTS n1, n2, f1, f2

MCNodes == {n1, n2}
MCForks == {f1, f2}

Log(topics, known, indexed, decodes, function) ==
  [topics |-> topics, known |-> known, indexed |-> indexed, decodes |-> decodes,
   function |-> function]
MCLogs == {Log(2, TRUE, 1, TRUE, FALSE), Log(1, FALSE, 0, TRUE, FALSE),
           Log(0, FALSE, 0, TRUE, FALSE), Log(3, TRUE, 2, FALSE, FALSE),
           Log(4, TRUE, 2, TRUE, FALSE), Log(2, TRUE, 1, TRUE, TRUE)}

Call(fits, inputs, typed, function) ==
  [fits |-> fits, inputs |-> inputs, typed |-> typed, function |-> function]
MCCalls == {Call("none", 0, TRUE, FALSE), Call("method", 2, TRUE, FALSE),
            Call("method", 1, TRUE, TRUE), Call("submitTransaction", 3, FALSE, FALSE)}
           \cup {Call("submitTransaction", k, TRUE, FALSE) : k \in 2..4}
=============================================================================
