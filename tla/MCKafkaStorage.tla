--------------------------- MODULE MCKafkaStorage ---------------------------
(* Metrics of one or two names, each a HELP comment and a value, and the   *)
(* empty last line: one message below the limit and one above it.          *)
EXTENDS KafkaStorage

Help(n) == [id |-> <<"help", n>>, comment |-> TRUE, size |-> 1]
Value(n) == [id |-> <<"value", n>>, comment |-> FALSE, size |-> 1]
End == [id |-> <<"end", 0>>, comment |-> FALSE, size |-> 0]

MCMessages ==
  {<<>>, <<Help(1), Value(1), End>>, <<Help(1), Value(1), Help(2), Value(2), End>>}
=============================================================================
