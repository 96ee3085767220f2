---------------------------- MODULE KafkaStorage ----------------------------
(***************************************************************************)
(* The storage that sends metrics to Kafka (src/wca/storage.py), for a     *)
(* caller that catches its exceptions and goes on storing.  A message is a *)
(* sequence of lines, each [id, comment, size]; the metrics of a package   *)
(* are grouped by name, comments first, and the text ends with a newline,  *)
(* which makes its last line empty.                                        *)
(***************************************************************************)
EXTENDS Naturals, Sequences, SequencesExt, FiniteSets

CONSTANTS
  Messages,  \* the messages that callers store
  MAX_SIZE   \* a message of this size or more is divided

VARIABLES
  msg,      \* the message of the call to store()
  result,   \* "idle", "storing", "returned", "timeout" or "failed"
  chunks,   \* what the call has still to send
  queue,    \* the producer's queue
  error_from_callback,
  topic     \* ids of the lines delivered

vars == <<msg, result, chunks, queue, error_from_callback, topic>>

Size(lines) == FoldLeft(LAMBDA sum, line : sum + line.size, 0, lines)
Ids(lines) == {lines[i].id : i \in DOMAIN lines}

\* The comments from line i on and the line after them.  The loop over the
\* lines goes on with line i + 1, though the line is part of this metric.
NewMetric(lines, i) ==
  SubSeq(lines, i, SelectInSubSeq(lines, i, Len(lines), LAMBDA line : ~line.comment))

\* The last chunk is begun but not appended to the result.
divide_message(lines) ==
  LET Step(done, i) ==
        LET metric == NewMetric(lines, i)
        IN  IF Size(done.new \o metric) > MAX_SIZE /\ done.new # <<>>
            THEN [chunks |-> Append(done.chunks, done.new), new |-> metric]
            ELSE [done EXCEPT !.new = @ \o metric]
  IN  IF Size(lines) < MAX_SIZE
      THEN <<lines>>
      ELSE FoldLeft(Step, [chunks |-> <<>>, new |-> <<>>],
                    [i \in DOMAIN lines |-> i]).chunks

-----------------------------------------------------------------------------
Init ==
  /\ msg = <<>>
  /\ result = "idle"
  /\ chunks = <<>>
  /\ queue = <<>>
  /\ error_from_callback = FALSE
  /\ topic = {}

\* An empty list of metrics is skipped; any other is divided.
store(m) ==
  /\ result # "storing"
  /\ msg' = m
  /\ result' = "storing"
  /\ chunks' = IF m = <<>> THEN <<>> ELSE divide_message(m)
  /\ UNCHANGED <<queue, error_from_callback, topic>>

\* produce() and flush(): within the timeout the queue is delivered in part,
\* callback_on_delivery notes an error for a message that failed, and the
\* rest stays in the queue.  A timeout is raised before an error is looked at.
ProduceAndFlush ==
  /\ result = "storing" /\ chunks # <<>>
  /\ LET all == Append(queue, Head(chunks))
     IN  \E n \in 0..Len(all) : \E failed \in SUBSET (1..n) :
           LET error == error_from_callback \/ failed # {}
           IN  /\ queue' = SubSeq(all, n + 1, Len(all))
               /\ topic' = topic \cup UNION {Ids(all[i]) : i \in (1..n) \ failed}
               /\ result' = IF n < Len(all) THEN "timeout"
                            ELSE IF error THEN "failed" ELSE "storing"
               /\ error_from_callback' = (error /\ n < Len(all))
  /\ chunks' = IF result' = "storing" THEN Tail(chunks) ELSE <<>>
  /\ UNCHANGED msg

Return ==
  /\ result = "storing" /\ chunks = <<>>
  /\ result' = "returned"
  /\ UNCHANGED <<msg, chunks, queue, error_from_callback, topic>>

Next == (\E m \in Messages : store(m)) \/ ProduceAndFlush \/ Return

Spec == Init /\ [][Next]_vars

-----------------------------------------------------------------------------
(* When store() returns without raising, every line of the metrics has     *)
(* been delivered to Kafka, in one message or divided into several.        *)
DeliveredWhole == result = "returned" => Ids(msg) \subseteq topic
=============================================================================
