---------------------------- MODULE MCExecution ----------------------------
(* Execution with the constraints of one of its configurations.            *)
EXTENDS Execution

\* Alone, an execution writes two lines to stdout, one to each stream, or less:
\* the streams are treated alike, and two lines of one pass the cap.  Of two in
\* a row, sent at once over a connection that stays up, the first may fail in
\* any way and the second meets what it leaves running.
Bounded ==
  /\ \A e \in Execs : written[e, "stderr"] <= 1 /\ written[e, "stdout"] + written[e, "stderr"] <= 2
  /\ sends = 2 =>
       /\ link = "up"
       /\ \A e \in Execs : ~helper[e] /\ written[e, "stderr"] = 0 /\ written[e, "stdout"] <= 1
       /\ exec = 2 => pc \notin {"kill", "abort"}

AtOnce == sends' = 2 /\ sends = 1 => pc = "recv" /\ exec = 0
=============================================================================
