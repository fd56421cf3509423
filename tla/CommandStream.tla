--------------------------- MODULE CommandStream ---------------------------
(***************************************************************************)
(* The messages a client of the execute socket may see, and in which order *)
(* -- the connection life cycle of docs/design_backend.md, as the backend  *)
(* keeps it.  An execution begins with Started, has at most one Errors and *)
(* ends with one Done or Failed.  The lines of a stream come in order,     *)
(* none missing before the last, and stop at the cap with a notice.        *)
(* Executions of one connection do not overlap, and nothing is answered    *)
(* while one is open; but output of an execution that failed may still     *)
(* arrive after its Failed.                                                *)
(***************************************************************************)
EXTENDS Naturals, Sequences

CONSTANTS
  Cap,        \* lines of a stream that are sent on
  MaxSends,   \* bound: messages of the client, each one names an execution
  MaxLines    \* bound: lines of a stream

VARIABLE stream   \* every message the client has received

Reasons == {"ValidationError", "Timeout", "InternalError"}

Has(type, e) == \E i \in DOMAIN stream : stream[i].type = type /\ stream[i].exec = e
HasLine(s, e, n) ==
  \E i \in DOMAIN stream : stream[i] = [type |-> s, exec |-> e, line |-> n]

Began(e)  == Has("started", e)
Failed(e) == \E why \in Reasons : Has(why, e)
Ended(e)  == Has("done", e) \/ Failed(e)
Open(e)   == Began(e) /\ ~Ended(e)
Idle      == \A e \in 1..MaxSends : ~Open(e)

\* Output belongs to an open execution, or trails one that failed at run time.
Running(e) ==
  Began(e) /\ ~Has("errors", e) /\ ~Has("done", e) /\ ~Has("ValidationError", e)

See(type, e, n) == stream' = Append(stream, [type |-> type, exec |-> e, line |-> n])

Pong == See("pong", 0, 0) /\ Idle

Start(e) ==
  /\ See("started", e, 0)
  /\ Idle
  /\ \A f \in e..MaxSends : ~Began(f)

Output(s, e, n) ==
  /\ See(s, e, n)
  /\ Running(e)
  /\ n <= Cap
  /\ n > 1 => HasLine(s, e, n - 1)
  /\ ~HasLine(s, e, n)

Truncate(s, notice, e) ==
  /\ See(notice, e, 0)
  /\ Running(e)
  /\ HasLine(s, e, Cap)
  /\ ~Has(notice, e)

Errors(e) ==
  /\ See("errors", e, 0)
  /\ Open(e)
  /\ HasLine("stdout", e, 1) \/ HasLine("stderr", e, 1)
  /\ ~Has("errors", e)

Done(e) == See("done", e, 0) /\ Open(e)

Fail(e, why) ==
  /\ See(why, e, 0)
  /\ Open(e)
  /\ ~Has("errors", e)
  /\ why = "ValidationError" => ~HasLine("stdout", e, 1) /\ ~HasLine("stderr", e, 1)

Init == stream = <<>>

Next ==
  \/ Pong
  \/ \E e \in 1..MaxSends :
       \/ Start(e) \/ Errors(e) \/ Done(e)
       \/ \E why \in Reasons : Fail(e, why)
       \/ \E n \in 1..MaxLines : Output("stdout", e, n) \/ Output("stderr", e, n)
       \/ Truncate("stdout", "stdout truncated", e)
       \/ Truncate("stderr", "stderr truncated", e)

Spec == Init /\ [][Next]_stream
=============================================================================
