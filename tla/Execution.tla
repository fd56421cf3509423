----------------------------- MODULE Execution -----------------------------
(***************************************************************************)
(* One accepted WebSocket connection of the backend: the receive loop of   *)
(* handle_socket, handle_execute with its workspace, the executor's child  *)
(* process with the two tasks that read its pipes, the bounded channel     *)
(* they all send into and the task that forwards it to the socket.         *)
(*                                                                         *)
(* An execution is named by the number of the client message that asked    *)
(* for it.  What belongs to it (child, pipes, reader tasks, directory) is  *)
(* indexed by that number, because some of it may outlive the execution    *)
(* and meet the next one.                                                  *)
(***************************************************************************)
EXTENDS Naturals, Sequences

CONSTANTS
  Capacity,   \* messages the mpsc channel holds (32 in the code)
  Cap,        \* lines after which output.len() reaches max_stdout_kb * 1024
  PipeSize,   \* lines an OS pipe holds before its writer blocks
  MaxSends,   \* bound: messages the client sends
  MaxLines,   \* bound: lines an execution writes to each stream
  Requests    \* what the client sends, from Texts

Texts == {"execute", "invalid execute", "ping", "cancel", "garbage"}

ASSUME CapacityType == Capacity \in Nat \ {0}
ASSUME CapType      == Cap \in Nat \ {0}
ASSUME PipeSizeType == PipeSize \in Nat \ {0}
ASSUME BoundsType   == MaxSends \in Nat /\ MaxLines \in Nat
ASSUME RequestsType == Requests \subseteq Texts

VARIABLES
  link,       \* the socket: "up", "closing" (the client left) or "broken"
  inbox,      \* client messages handle_socket has not read
  sends,      \* how many messages the client has sent
  received,   \* every server message the client has received, in order
  pc,         \* where the task of handle_socket stands
  exec,       \* the latest execution (0 before the first)
  payload,    \* the request that asked for it
  outcome,    \* how Executor::execute returned for each execution: "ok" or
              \* the reason of its failure
  queue,      \* the mpsc channel
  inflight,   \* what send_task took from it and is sending (at most one)
  fwd,        \* send_task: "idle", "sending" or "done"
  child,      \* the CLI process of each execution
  helper,     \* whether a process the CLI started holds its pipes open
  written,    \* lines written to each pipe
  reader,     \* where the task that reads a pipe stands
  taken,      \* lines that task has read
  aborted,    \* whether the reader tasks were aborted
  dir         \* the workspace directory of each execution

client   == <<link, inbox, sends, received>>
handler  == <<pc, exec, payload, outcome>>
channel  == <<queue, inflight, fwd>>
process  == <<child, helper, written>>
readers  == <<reader, taken, aborted>>
vars     == <<client, handler, channel, process, readers, dir>>

Execs   == 1..MaxSends
Streams == {"stdout", "stderr"}
Pipes   == Execs \X Streams

(***************************************************************************)
(* Server messages.  A Failed message is named by its reason, a truncation *)
(* notice (sent as Stderr) by the stream it is about; `line' numbers the   *)
(* lines of a stream and is 0 elsewhere.                                   *)
(***************************************************************************)
Reasons == {"ValidationError", "Timeout", "InternalError"}
Notice  == [s \in Streams |-> IF s = "stdout" THEN "stdout truncated"
                                              ELSE "stderr truncated"]
Types   == Streams \cup Reasons \cup {"stdout truncated", "stderr truncated",
                                      "started", "errors", "done", "pong"}

Msg(type, e)   == [type |-> type, exec |-> e, line |-> 0]
Line(s, e, n)  == [type |-> s, exec |-> e, line |-> n]
Message        == [type : Types, exec : 0..MaxSends, line : 0..MaxLines]
Close          == [text |-> "close", exec |-> 0]
Request        == [text : Texts, exec : Execs] \cup {Close}

\* Where a reader task may be; its end closes the pipe.
Reading == {"reading", "sending", "noticing"}
Stopped == {"ended", "undecoded"}

Locations ==
  {"recv", "pong", "start", "validate", "reject", "create", "uncreated",
   "spawn", "wait", "kill", "abort", "collect", "report", "finish",
   "cleanup", "closed"}

Init ==
  /\ link = "up" /\ inbox = <<>> /\ sends = 0 /\ received = <<>>
  /\ pc = "recv" /\ exec = 0 /\ payload = "none" /\ outcome = [e \in Execs |-> "none"]
  /\ queue = <<>> /\ inflight = <<>> /\ fwd = "idle"
  /\ child = [e \in Execs |-> "none"]
  /\ helper = [e \in Execs |-> FALSE]
  /\ written = [p \in Pipes |-> 0]
  /\ reader = [p \in Pipes |-> "off"]
  /\ taken = [p \in Pipes |-> 0]
  /\ aborted = [e \in Execs |-> FALSE]
  /\ dir = [e \in Execs |-> "none"]

-----------------------------------------------------------------------------
(* The client and the network. *)

ClientSend(text) ==
  /\ link = "up"
  /\ sends < MaxSends
  /\ sends' = sends + 1
  /\ inbox' = Append(inbox, [text |-> text, exec |-> sends + 1])
  /\ UNCHANGED <<link, received, handler, channel, process, readers, dir>>

\* The client closes the socket, by leaving the page for instance.
ClientClose ==
  /\ link = "up"
  /\ link' = "closing"
  /\ inbox' = Append(inbox, Close)
  /\ UNCHANGED <<sends, received, handler, channel, process, readers, dir>>

\* The connection dies, with some of what was on its way to the server.
LinkBreaks ==
  /\ link # "broken"
  /\ link' = "broken"
  /\ \E n \in 0..Len(inbox) : inbox' = SubSeq(inbox, 1, n)
  /\ UNCHANGED <<sends, received, handler, channel, process, readers, dir>>

-----------------------------------------------------------------------------
(* The channel and send_task. *)

\* Mutants of Send: no bound on the channel; a receiver gone unnoticed.
SendUnbounded(m) ==
  /\ IF fwd = "done" THEN UNCHANGED queue ELSE queue' = Append(queue, m)
  /\ UNCHANGED <<inflight, fwd>>

SendDeaf(m) ==
  /\ Len(queue) < Capacity
  /\ queue' = IF fwd = "done" THEN queue ELSE Append(queue, m)
  /\ fwd # "done"
  /\ UNCHANGED <<inflight, fwd>>

\* tx.send(m).await: waits for room; after send_task is gone it fails at once
\* and every caller ignores that.
Send(m) ==
  /\ \/ fwd # "done" /\ Len(queue) < Capacity /\ queue' = Append(queue, m)
     \/ fwd = "done" /\ UNCHANGED queue
  /\ UNCHANGED <<inflight, fwd>>

Forward ==
  /\ fwd = "idle"
  /\ queue # <<>>
  /\ inflight' = <<Head(queue)>>
  /\ queue' = Tail(queue)
  /\ fwd' = "sending"
  /\ UNCHANGED <<client, handler, process, readers, dir>>

\* sender.send succeeds; a client that is closing no longer listens.
Deliver ==
  /\ fwd = "sending"
  /\ link # "broken"
  /\ received' = IF link = "up" THEN received \o inflight ELSE received
  /\ inflight' = <<>>
  /\ fwd' = "idle"
  /\ UNCHANGED <<link, inbox, sends, queue, handler, process, readers, dir>>

\* sender.send fails: the loop breaks and the receiving end is dropped.
DeliverFails ==
  /\ fwd = "sending"
  /\ link # "up"
  /\ fwd' = "done"
  /\ inflight' = <<>>
  /\ queue' = <<>>
  /\ UNCHANGED <<client, handler, process, readers, dir>>

-----------------------------------------------------------------------------
(* The receive loop of handle_socket. *)

Recv(texts, next) ==
  /\ pc = "recv"
  /\ inbox # <<>>
  /\ Head(inbox).text \in texts
  /\ inbox' = Tail(inbox)
  /\ pc' = next
  /\ UNCHANGED <<link, sends, received, process, readers, dir>>

RecvPing == Recv({"ping"}, "pong") /\ UNCHANGED <<exec, payload, outcome, channel>>

\* Cancel is only logged; what does not parse, or is not text, is skipped.
RecvSkipped ==
  /\ Recv({"cancel", "garbage"}, "recv")
  /\ UNCHANGED <<exec, payload, outcome, channel>>

RecvExecute ==
  /\ Recv({"execute", "invalid execute"}, "start")
  /\ exec' = Head(inbox).exec
  /\ payload' = Head(inbox).text
  /\ UNCHANGED <<outcome, channel>>

\* Leaving the loop: send_task is aborted with whatever it still had.
StopForwarding == fwd' = "done" /\ queue' = <<>> /\ inflight' = <<>>

RecvClose ==
  /\ Recv({"close"}, "closed")
  /\ StopForwarding
  /\ UNCHANGED <<exec, payload, outcome>>

\* The stream yields its error, which is skipped, and then ends.
RecvEnd ==
  /\ pc = "recv"
  /\ link = "broken"
  /\ inbox = <<>>
  /\ pc' = "closed"
  /\ StopForwarding
  /\ UNCHANGED <<client, exec, payload, outcome, process, readers, dir>>

-----------------------------------------------------------------------------
(* handle_execute.  While it runs the loop reads nothing. *)

\* The task goes from one place to the next, by a send or without one.
Goto(from, next) ==
  /\ pc = from
  /\ pc' = next
  /\ UNCHANGED <<client, exec, payload>>

Report(from, m, next) ==
  /\ Goto(from, next)
  /\ Send(m)
  /\ UNCHANGED <<outcome, process, readers, dir>>

SendPong    == Report("pong", Msg("pong", 0), "recv")
SendStarted == Report("start", Msg("started", exec), "validate")

Validate ==
  /\ Goto("validate", IF payload = "execute" THEN "create" ELSE "reject")
  /\ UNCHANGED <<outcome, channel, process, readers, dir>>

Reject == Report("reject", Msg("ValidationError", exec), "recv")

\* Workspace::create: one `?' after another, so it may stop with no directory,
\* with some of the files, or with all of them.
CreateWorkspace ==
  /\ \/ Goto("create", "spawn") /\ dir' = [dir EXCEPT ![exec] = "present"]
     \/ Goto("create", "uncreated") /\ dir' = [dir EXCEPT ![exec] = "partial"]
     \/ Goto("create", "uncreated") /\ UNCHANGED dir
  /\ UNCHANGED <<outcome, channel, process, readers>>

ReportUncreated == Report("uncreated", Msg("InternalError", exec), "recv")

Returns(from, how) ==
  /\ Goto(from, "report")
  /\ outcome' = [outcome EXCEPT ![exec] = how]

\* cmd.spawn: the child runs and one task per pipe reads it, or `?' returns.
Spawn ==
  /\ Goto("spawn", "wait")
  /\ child' = [child EXCEPT ![exec] = "running"]
  /\ reader' = [p \in Pipes |-> IF p[1] = exec THEN "reading" ELSE reader[p]]
  /\ UNCHANGED <<outcome, channel, helper, written, taken, aborted, dir>>

SpawnFails ==
  /\ Returns("spawn", "InternalError")
  /\ UNCHANGED <<channel, process, readers, dir>>

\* timeout(child.wait()) before the deadline ...
WaitReturns ==
  /\ Goto("wait", "collect")
  /\ child[exec] = "exited"
  /\ UNCHANGED <<outcome, channel, process, readers, dir>>

\* ... or with an error, which returns at once and leaves the rest running ...
WaitFails ==
  /\ Returns("wait", "InternalError")
  /\ UNCHANGED <<channel, process, readers, dir>>

\* Mutant: no deadline.
DeadlineForgotten ==
  /\ Goto("wait", "kill")
  /\ child[exec] = "exited"
  /\ UNCHANGED <<outcome, channel, process, readers, dir>>

\* ... or not at all.
DeadlinePasses ==
  /\ Goto("wait", "kill")
  /\ child[exec] = "running"    \* timeout polls child.wait() once more first
  /\ UNCHANGED <<outcome, channel, process, readers, dir>>

\* Mutant: the child is left alone.
KillForgotten ==
  /\ Goto("kill", "abort")
  /\ UNCHANGED <<outcome, channel, process, readers, dir>>

\* child.kill and child.wait reach the child only, not what it started.
Kill ==
  /\ Goto("kill", "abort")
  /\ child' = [child EXCEPT ![exec] = IF @ = "running" THEN "killed" ELSE @]
  /\ UNCHANGED <<outcome, channel, helper, written, readers, dir>>

\* abort does not wait for the tasks.
AbortReaders ==
  /\ Returns("abort", "Timeout")
  /\ aborted' = [aborted EXCEPT ![exec] = TRUE]
  /\ UNCHANGED <<channel, process, reader, taken, dir>>

\* Mutant: the reader tasks are not joined.
CollectUnjoined ==
  /\ Returns("collect", "ok")
  /\ UNCHANGED <<channel, process, readers, dir>>

\* Both reader tasks are joined, with no deadline.
Collect ==
  /\ Returns("collect", "ok")
  /\ \A s \in Streams : reader[<<exec, s>>] \in Stopped
  /\ UNCHANGED <<channel, process, readers, dir>>

\* Parser::parse_errors may find something in output that is not empty.
SendErrors ==
  /\ pc = "report"
  /\ outcome[exec] = "ok"
  /\ \E s \in Streams : taken[<<exec, s>>] > 0
  /\ Report("report", Msg("errors", exec), "finish")

SendDone ==
  /\ pc \in {"report", "finish"}
  /\ outcome[exec] = "ok"
  /\ Report(pc, Msg("done", exec), "cleanup")

SendFailed ==
  /\ pc = "report"
  /\ outcome[exec] \in Reasons
  /\ Report("report", Msg(outcome[exec], exec), "cleanup")

\* Mutant: the workspace is deleted while Executor::execute still waits.
CleanupEarly ==
  /\ \/ Goto("cleanup", "recv") \/ Goto("wait", "wait")
  /\ dir' = [dir EXCEPT ![exec] = "removed"]
  /\ UNCHANGED <<outcome, channel, process, readers>>

\* workspace.cleanup: a failure, possible above all while something still
\* writes there, is logged and forgotten.
Cleanup ==
  /\ Goto("cleanup", "recv")
  /\ \E result \in {"removed", "undeleted"} : dir' = [dir EXCEPT ![exec] = result]
  /\ UNCHANGED <<outcome, channel, process, readers>>

-----------------------------------------------------------------------------
(* The CLI and what it starts. *)

Writing(e) == child[e] = "running" \/ helper[e]

WriteLine(e, s) ==
  /\ Writing(e)
  /\ reader[<<e, s>>] \in Reading
  /\ written[<<e, s>>] < MaxLines
  /\ written[<<e, s>>] - taken[<<e, s>>] < PipeSize
  /\ written' = [written EXCEPT ![<<e, s>>] = @ + 1]
  /\ UNCHANGED <<client, handler, channel, child, helper, readers, dir>>

\* The CLI starts a process (git, for a dependency) that inherits the pipes.
StartHelper(e) ==
  /\ child[e] = "running"
  /\ helper' = [helper EXCEPT ![e] = TRUE]
  /\ UNCHANGED <<client, handler, channel, child, written, readers, dir>>

HelperExits(e) ==
  /\ helper[e]
  /\ helper' = [helper EXCEPT ![e] = FALSE]
  /\ UNCHANGED <<client, handler, channel, child, written, readers, dir>>

ChildExits(e) ==
  /\ child[e] = "running"
  /\ child' = [child EXCEPT ![e] = "exited"]
  /\ UNCHANGED <<client, handler, channel, helper, written, readers, dir>>

-----------------------------------------------------------------------------
(* The task that reads stream s of execution e. *)

\* Mutant: one line too many.
ReadLineOverCap(e, s) ==
  /\ reader[<<e, s>>] = "reading"
  /\ taken[<<e, s>>] < written[<<e, s>>]
  /\ taken' = [taken EXCEPT ![<<e, s>>] = @ + 1]
  /\ reader' = [reader EXCEPT ![<<e, s>>] = IF taken[<<e, s>>] <= Cap THEN "sending" ELSE @]
  /\ UNCHANGED <<client, handler, channel, process, aborted, dir>>

\* A line is sent on while the output is below its cap, and drained after.
ReadLine(e, s) ==
  /\ reader[<<e, s>>] = "reading"
  /\ taken[<<e, s>>] < written[<<e, s>>]
  /\ taken' = [taken EXCEPT ![<<e, s>>] = @ + 1]
  /\ reader' = [reader EXCEPT ![<<e, s>>] = IF taken[<<e, s>>] < Cap THEN "sending" ELSE @]
  /\ UNCHANGED <<client, handler, channel, process, aborted, dir>>

SendLine(e, s) ==
  /\ reader[<<e, s>>] = "sending"
  /\ Send(Line(s, e, taken[<<e, s>>]))
  /\ reader' = [reader EXCEPT ![<<e, s>>] = IF taken[<<e, s>>] = Cap THEN "noticing"
                                                                   ELSE "reading"]
  /\ UNCHANGED <<client, handler, process, taken, aborted, dir>>

SendNotice(e, s) ==
  /\ reader[<<e, s>>] = "noticing"
  /\ Send(Msg(Notice[s], e))
  /\ reader' = [reader EXCEPT ![<<e, s>>] = "reading"]
  /\ UNCHANGED <<client, handler, process, taken, aborted, dir>>

\* End of file: the pipe is empty and nobody holds its other end.
ReadEof(e, s) ==
  /\ reader[<<e, s>>] = "reading"
  /\ taken[<<e, s>>] = written[<<e, s>>]
  /\ ~Writing(e)
  /\ reader' = [reader EXCEPT ![<<e, s>>] = "ended"]
  /\ UNCHANGED <<client, handler, channel, process, taken, aborted, dir>>

\* next_line fails on a line that is not UTF-8: the task ends there, and
\* whoever writes next finds the pipe closed.
ReadUndecoded(e, s) ==
  /\ reader[<<e, s>>] = "reading"
  /\ taken[<<e, s>>] < written[<<e, s>>]
  /\ reader' = [reader EXCEPT ![<<e, s>>] = "undecoded"]
  /\ UNCHANGED <<client, handler, channel, process, taken, aborted, dir>>

\* An aborted task stops where it next awaits: one that is just running may
\* still send what it finds before that.
StopReader(e, s) ==
  /\ aborted[e]
  /\ reader[<<e, s>>] \in Reading
  /\ reader' = [reader EXCEPT ![<<e, s>>] = "ended"]
  /\ UNCHANGED <<client, handler, channel, process, taken, aborted, dir>>

-----------------------------------------------------------------------------
ClientNext == (\E text \in Requests : ClientSend(text)) \/ ClientClose

HandleExecute ==
  \/ SendStarted \/ Validate \/ Reject \/ CreateWorkspace \/ ReportUncreated
  \/ Spawn \/ SpawnFails \/ WaitReturns \/ DeadlinePasses
  \/ Kill \/ AbortReaders \/ Collect
  \/ SendErrors \/ SendDone \/ SendFailed \/ Cleanup

Loop == RecvPing \/ SendPong \/ RecvSkipped \/ RecvExecute \/ RecvClose \/ RecvEnd

ReaderStep(e, s) ==
  \/ ReadLine(e, s) \/ SendLine(e, s) \/ SendNotice(e, s)
  \/ ReadEof(e, s) \/ ReadUndecoded(e, s) \/ StopReader(e, s)

ProcessStep(e) ==
  \/ StartHelper(e) \/ HelperExits(e) \/ ChildExits(e)
  \/ \E s \in Streams : WriteLine(e, s)

Next ==
  \/ ClientNext \/ LinkBreaks
  \/ Loop \/ HandleExecute \/ WaitFails
  \/ Forward \/ Deliver \/ DeliverFails
  \/ \E e \in Execs : ProcessStep(e)
  \/ \E e \in Execs, s \in Streams : ReaderStep(e, s)

Spec == Init /\ [][Next]_vars

(***************************************************************************)
(* Fairness.  tokio polls every task that is ready, a deadline passes, and *)
(* sending on the socket of a client that reads, or on a dead socket, does *)
(* not take for ever.  Nothing makes the CLI exit, wait fail, nor a client *)
(* leave.                                                                  *)
(***************************************************************************)
ServerFairness ==
  /\ WF_vars(Loop)
  /\ WF_vars(HandleExecute)
  /\ WF_vars(Forward)
  /\ WF_vars(DeliverFails)
  /\ \A e \in Execs, s \in Streams : WF_vars(ReaderStep(e, s))

ClientReads == WF_vars(Deliver)
HelpersExit == \A e \in Execs : WF_vars(HelperExits(e))

FairSpec == Spec /\ ServerFairness /\ ClientReads /\ HelpersExit

\* A process the CLI started may never exit.
LingeringHelperSpec == Spec /\ ServerFairness /\ ClientReads

-----------------------------------------------------------------------------
ClientOK ==
  /\ link \in {"up", "closing", "broken"}
  /\ inbox \in Seq(Request)
  /\ sends \in 0..MaxSends
  /\ received \in Seq(Message)

HandlerOK ==
  /\ pc \in Locations
  /\ exec \in 0..MaxSends
  /\ payload \in {"none", "execute", "invalid execute"}
  /\ outcome \in [Execs -> {"none", "ok", "Timeout", "InternalError"}]

ChannelOK ==
  /\ queue \in Seq(Message) /\ Len(queue) <= Capacity
  /\ inflight \in Seq(Message)
  /\ fwd \in {"idle", "sending", "done"}

ProcessOK ==
  /\ child \in [Execs -> {"none", "running", "exited", "killed"}]
  /\ helper \in [Execs -> BOOLEAN]
  /\ written \in [Pipes -> 0..MaxLines]

ReadersOK ==
  /\ reader \in [Pipes -> {"off"} \cup Reading \cup Stopped]
  /\ taken \in [Pipes -> 0..MaxLines]
  /\ aborted \in [Execs -> BOOLEAN]

DirOK == dir \in [Execs -> {"none", "partial", "present", "removed", "undeleted"}]

TypeOK == ClientOK /\ HandlerOK /\ ChannelOK /\ ProcessOK /\ ReadersOK /\ DirOK

\* Line n of a stream was not read: the task ended at it, or at a line before,
\* that is not UTF-8.
Unread(e, s, n) == reader[<<e, s>>] = "undecoded" /\ n > taken[<<e, s>>]

LineReceived(i, s, n) == \E j \in 1..(i - 1) : received[j] = Line(s, received[i].exec, n)

\* When the client learns that an execution is done it has every line the
\* execution wrote below the cap, on either stream: the reader tasks are
\* joined before Done is sent, and one channel carries both.  A line that is
\* not UTF-8 is the one exception, with what follows it; the lines before it
\* arrive.
OutputComplete ==
  \A i \in DOMAIN received : received[i].type = "done" =>
    \A s \in Streams, n \in 1..MaxLines :
      n <= Cap /\ n <= written[<<received[i].exec, s>>] =>
        LineReceived(i, s, n) \/ Unread(received[i].exec, s, n)

\* A reported result means a dead CLI process, whoever won the race between
\* its exit and the deadline; only a failing wait leaves it running.
ReportedDead ==
  \A e \in Execs : outcome[e] \in {"ok", "Timeout"} => child[e] \in {"exited", "killed"}

\* The CLI never runs in a directory that is not there: the workspace is
\* deleted after the process is gone, unless wait failed.
DirOutlivesChild ==
  \A e \in Execs : child[e] = "running" =>
    dir[e] = "present" \/ outcome[e] = "InternalError"

\* Every execution comes to its end, and the loop reads on.
ExecutionEnds == (pc = "start") ~> (pc = "recv")

\* A connection whose client has gone gives up its slot, whatever it is doing,
\* once the server notices: a read of the socket has no deadline of its own.
SlotFreed == (link # "up") ~> (pc = "closed")

-----------------------------------------------------------------------------
(* What a document says, and the code does not do. *)

\* README.md:120, "Hard timeout per command execution": a command that runs
\* is over some time later, whatever it or the client does.
HardTimeout == (pc = "wait") ~> (pc = "recv")

-----------------------------------------------------------------------------
\* The client gets what module CommandStream promises.
S == INSTANCE CommandStream WITH stream <- received
ImplementsStream == S!Spec
=============================================================================
