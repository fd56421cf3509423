-------------------------- MODULE ExecutionProofs --------------------------
(***************************************************************************)
(* Proofs about Execution, for any channel, cap, pipe and number of        *)
(* requests, in three parts, each on the invariant of the part before it:  *)
(*                                                                         *)
(*   - type correctness, and the two safety properties about the process   *)
(*     and its directory;                                                  *)
(*   - Done comes after every line: lines on their way are followed from   *)
(*     the reader tasks through the channel and send_task to the client;   *)
(*   - Execution implements CommandStream: every message of that flow is   *)
(*     one that the stream before it allows, so the client, who receives   *)
(*     the flow message by message, sees a stream of CommandStream.        *)
(***************************************************************************)
EXTENDS Execution, SequenceTheorems, TLAPS

-----------------------------------------------------------------------------
(* The process and its directory. *)

\* A reader has not read more than was written: what keeps its count in type.
TypeInv ==
  /\ TypeOK
  /\ \A p \in Pipes : taken[p] <= written[p]

\* Client messages come numbered in order, each later than the latest execution.
OrderInv ==
  /\ exec <= sends
  /\ \A i \in 1..Len(inbox) : inbox[i] # Close =>
       exec < inbox[i].exec /\ inbox[i].exec <= sends
  /\ \A i, j \in 1..Len(inbox) : i < j /\ inbox[i] # Close /\ inbox[j] # Close =>
       inbox[i].exec < inbox[j].exec

\* An execution not yet asked for has no outcome and no process.
FreshInv ==
  \A e \in Execs : exec < e => outcome[e] = "none" /\ child[e] = "none"

\* What holds of the latest execution where the task of handle_socket stands.
PhaseInv ==
  /\ pc \notin {"recv", "pong", "closed"} => exec \in Execs
  /\ pc \in {"start", "validate", "reject", "create", "uncreated", "spawn"} =>
       outcome[exec] = "none" /\ child[exec] = "none"
  /\ pc \in {"wait", "kill", "abort", "collect"} => outcome[exec] = "none"
  /\ pc \in {"spawn", "wait", "kill", "abort", "collect"} => dir[exec] = "present"
  /\ pc = "kill" => child[exec] \in {"running", "exited"}
  /\ pc = "abort" => child[exec] \in {"exited", "killed"}
  /\ pc = "collect" => child[exec] = "exited"
  /\ pc \in {"report", "finish", "cleanup"} => outcome[exec] # "none"

SafeInv == FreshInv /\ PhaseInv /\ ReportedDead /\ DirOutlivesChild
RunInv  == TypeInv /\ OrderInv /\ SafeInv

-----------------------------------------------------------------------------
(* What an action leaves alone keeps its type. *)

\* An action that leaves the socket alone keeps its type.
LEMMA ClientSame   == ASSUME ClientOK, UNCHANGED client    PROVE ClientOK'
  BY DEF ClientOK, client
\* An action that leaves the task of handle_socket alone keeps its type.
LEMMA HandlerSame  == ASSUME HandlerOK, UNCHANGED handler  PROVE HandlerOK'
  BY DEF HandlerOK, handler
\* An action that leaves the channel alone keeps its type.
LEMMA ChannelSame  == ASSUME ChannelOK, UNCHANGED channel  PROVE ChannelOK'
  BY DEF ChannelOK, channel
\* An action that leaves the processes alone keeps their type.
LEMMA ProcessSame  == ASSUME ProcessOK, UNCHANGED process  PROVE ProcessOK'
  BY DEF ProcessOK, process
\* An action that leaves the reader tasks alone keeps their type.
LEMMA ReadersSame  == ASSUME ReadersOK, UNCHANGED readers  PROVE ReadersOK'
  BY DEF ReadersOK, readers
\* An action that leaves the directories alone keeps their type.
LEMMA DirSame      == ASSUME DirOK, UNCHANGED dir          PROVE DirOK'
  BY DEF DirOK
\* Nor can a reader overtake the writer when neither moves.
LEMMA CountSame ==
  ASSUME \A p \in Pipes : taken[p] <= written[p], UNCHANGED <<taken, written>>
  PROVE  (\A p \in Pipes : taken[p] <= written[p])'
  OBVIOUS

-----------------------------------------------------------------------------
(* Messages and the channel. *)

\* A client message names an execution, or none.
LEMMA RequestType ==
  ASSUME NEW r \in Request
  PROVE  r.exec \in 0..MaxSends
  <1>1. CASE r \in [text : Texts, exec : Execs]
    <2>1. r.exec \in Execs
      BY <1>1
    <2>. QED BY <2>1, BoundsType DEF Execs
  <1>2. CASE r = Close
    BY <1>2, BoundsType DEF Close
  <1>. QED BY <1>1, <1>2 DEF Request

\* The channel that StopForwarding leaves is empty.
LEMMA StoppedType ==
  ASSUME StopForwarding
  PROVE  ChannelOK'
  <1>1. Len(queue') <= Capacity /\ queue' \in Seq(Message) /\ inflight' \in Seq(Message)
    BY CapacityType DEF StopForwarding
  <1>. QED BY <1>1 DEF StopForwarding, ChannelOK

\* Msg builds a server message.
LEMMA MsgType ==
  ASSUME NEW type \in Types, NEW e \in 0..MaxSends
  PROVE  Msg(type, e) \in Message
  BY BoundsType DEF Msg, Message

\* Line builds a server message: the line of a stream.
LEMMA LineType ==
  ASSUME NEW s \in Streams, NEW e \in Execs, NEW n \in 0..MaxLines
  PROVE  Line(s, e, n) \in Message
  <1>1. s \in Types
    BY DEF Types
  <1>2. e \in 0..MaxSends
    BY BoundsType DEF Execs
  <1>. QED BY <1>1, <1>2 DEF Line, Message

\* A truncation notice has one of the message types.
LEMMA NoticeType ==
  ASSUME NEW s \in Streams
  PROVE  Notice[s] \in Types
  BY DEF Notice, Types, Streams

\* Sending keeps the channel a bounded sequence of messages.
LEMMA SendType ==
  ASSUME ChannelOK, NEW m \in Message, Send(m)
  PROVE  ChannelOK'
  <1>1. CASE UNCHANGED queue
    BY <1>1 DEF ChannelOK, Send
  <1>2. CASE Len(queue) < Capacity /\ queue' = Append(queue, m)
    <2>1. queue \in Seq(Message) /\ Capacity \in Nat
      BY CapacityType DEF ChannelOK
    <2>2. queue' \in Seq(Message) /\ Len(queue') = Len(queue) + 1
      BY <1>2, <2>1
    <2>3. Len(queue') <= Capacity
      BY <1>2, <2>1, <2>2
    <2>. QED BY <2>2, <2>3 DEF ChannelOK, Send
  <1>. QED BY <1>1, <1>2 DEF Send

-----------------------------------------------------------------------------
(* Type correctness, action by action. *)

\* The initial state is well typed.
LEMMA InitType == Init => TypeInv
  <1>. SUFFICES ASSUME Init PROVE TypeInv
    OBVIOUS
  <1>1. 0 \in 0..MaxSends /\ 0 \in 0..MaxLines /\ Capacity \in Nat
    BY BoundsType, CapacityType
  <1>2. ClientOK
    BY <1>1 DEF Init, ClientOK
  <1>3. HandlerOK
    BY <1>1 DEF Init, HandlerOK, Locations
  <1>4. ChannelOK
    BY <1>1 DEF Init, ChannelOK
  <1>5. ProcessOK /\ ReadersOK /\ DirOK
    BY <1>1 DEF Init, ProcessOK, ReadersOK, DirOK
  <1>6. \A p \in Pipes : taken[p] <= written[p]
    BY DEF Init
  <1>. QED BY <1>2, <1>3, <1>4, <1>5, <1>6 DEF TypeInv, TypeOK

\* The client and the network touch nothing but the inbox and the link.
LEMMA ClientStep ==
  ASSUME TypeInv, ClientNext \/ LinkBreaks
  PROVE  TypeInv'
  <1>1. ClientOK'
    <2>1. ASSUME NEW text \in Requests, ClientSend(text) PROVE ClientOK'
      <3>1. sends + 1 \in Execs /\ sends' \in 0..MaxSends
        BY <2>1, BoundsType DEF ClientSend, Execs, TypeInv, TypeOK, ClientOK
      <3>2. [text |-> text, exec |-> sends + 1] \in Request
        BY <3>1, RequestsType DEF Request
      <3>3. inbox' \in Seq(Request)
        BY <2>1, <3>2 DEF ClientSend, TypeInv, TypeOK, ClientOK
      <3>. QED BY <2>1, <3>1, <3>3 DEF ClientSend, TypeInv, TypeOK, ClientOK
    <2>2. CASE ClientClose
      <3>1. Close \in Request
        BY DEF Request
      <3>2. inbox' \in Seq(Request)
        BY <2>2, <3>1 DEF ClientClose, TypeInv, TypeOK, ClientOK
      <3>. QED BY <2>2, <3>2 DEF ClientClose, TypeInv, TypeOK, ClientOK
    <2>3. CASE LinkBreaks
      <3>1. inbox' \in Seq(Request)
        BY <2>3 DEF LinkBreaks, TypeInv, TypeOK, ClientOK
      <3>. QED BY <2>3, <3>1 DEF LinkBreaks, TypeInv, TypeOK, ClientOK
    <2>. QED BY <2>1, <2>2, <2>3 DEF ClientNext
  <1>2. UNCHANGED <<handler, channel, process, readers, dir>>
    BY DEF ClientNext, ClientSend, ClientClose, LinkBreaks
  <1>3. UNCHANGED <<taken, written>>
    BY <1>2 DEF process, readers
  <1>. QED BY <1>1, <1>2, <1>3, HandlerSame, ChannelSame, ProcessSame, ReadersSame,
              DirSame, CountSame DEF TypeInv, TypeOK

\* send_task and the socket touch the channel and what the client has received.
LEMMA ForwardingStep ==
  ASSUME TypeInv, Forward \/ Deliver \/ DeliverFails
  PROVE  TypeInv'
  <1>1. ClientOK' /\ ChannelOK'
    <2>1. CASE Forward
      <3>1. queue' \in Seq(Message) /\ Len(queue') <= Capacity /\ inflight' \in Seq(Message)
        BY <2>1, CapacityType DEF Forward, TypeInv, TypeOK, ChannelOK
      <3>. QED BY <2>1, <3>1, ClientSame DEF Forward, TypeInv, TypeOK, ChannelOK
    <2>2. CASE Deliver
      <3>1. received' \in Seq(Message) /\ inflight' \in Seq(Message)
        BY <2>2 DEF Deliver, TypeInv, TypeOK, ClientOK, ChannelOK
      <3>. QED BY <2>2, <3>1 DEF Deliver, TypeInv, TypeOK, ClientOK, ChannelOK
    <2>3. CASE DeliverFails
      <3>1. queue' \in Seq(Message) /\ Len(queue') <= Capacity /\ inflight' \in Seq(Message)
        BY <2>3, CapacityType DEF DeliverFails
      <3>. QED BY <2>3, <3>1, ClientSame DEF DeliverFails, TypeInv, TypeOK, ChannelOK
    <2>. QED BY <2>1, <2>2, <2>3
  <1>2. UNCHANGED <<handler, process, readers, dir>>
    BY DEF Forward, Deliver, DeliverFails
  <1>3. UNCHANGED <<taken, written>>
    BY <1>2 DEF process, readers
  <1>. QED BY <1>1, <1>2, <1>3, HandlerSame, ProcessSame, ReadersSame, DirSame, CountSame
           DEF TypeInv, TypeOK

\* Taking a message from the inbox, or finding the stream at its end.
LEMMA LoopStep ==
  ASSUME TypeInv, Loop
  PROVE  TypeInv'
  <1>1. UNCHANGED <<process, readers, dir>>
    BY DEF Loop, RecvPing, SendPong, RecvSkipped, RecvExecute, RecvClose, RecvEnd, Recv,
           Report
  <1>2. ASSUME NEW texts \in SUBSET (Texts \cup {"close"}), NEW next \in Locations,
               Recv(texts, next)
        PROVE  ClientOK' /\ pc' \in Locations /\ Head(inbox) \in Request
    <2>1. inbox \in Seq(Request) /\ inbox # <<>>
      BY <1>2 DEF Recv, TypeInv, TypeOK, ClientOK
    <2>2. Head(inbox) \in Request /\ Tail(inbox) \in Seq(Request)
      BY <2>1
    <2>. QED BY <1>2, <2>2 DEF Recv, TypeInv, TypeOK, ClientOK
  <1>3. ClientOK' /\ HandlerOK' /\ ChannelOK'
    <2>1. CASE RecvPing
      <3>1. ClientOK' /\ pc' \in Locations
        BY <1>2, <2>1 DEF RecvPing, Texts, Locations
      <3>2. HandlerOK' /\ ChannelOK'
        BY <2>1, <3>1, ChannelSame DEF RecvPing, TypeInv, TypeOK, HandlerOK
      <3>. QED BY <3>1, <3>2
    <2>2. CASE SendPong
      <3>1. Msg("pong", 0) \in Message
        <4>1. "pong" \in Types /\ 0 \in 0..MaxSends
          BY BoundsType DEF Types
        <4>. QED BY <4>1, MsgType
      <3>2. ClientOK' /\ HandlerOK'
        BY <2>2, ClientSame
        DEF SendPong, Report, Goto, TypeInv, TypeOK, HandlerOK, Locations
      <3>. QED BY <2>2, <3>1, <3>2, SendType DEF SendPong, Report, TypeInv, TypeOK
    <2>3. CASE RecvSkipped
      <3>1. ClientOK' /\ pc' \in Locations
        BY <1>2, <2>3 DEF RecvSkipped, Texts, Locations
      <3>2. HandlerOK' /\ ChannelOK'
        BY <2>3, <3>1, ChannelSame DEF RecvSkipped, TypeInv, TypeOK, HandlerOK
      <3>. QED BY <3>1, <3>2
    <2>4. CASE RecvExecute
      <3>1. ClientOK' /\ pc' \in Locations /\ Head(inbox) \in Request
        BY <1>2, <2>4 DEF RecvExecute, Texts, Locations
      <3>2. exec' \in 0..MaxSends
        <4>1. exec' = Head(inbox).exec
          BY <2>4 DEF RecvExecute
        <4>. QED BY <3>1, <4>1, RequestType
      <3>3. payload' \in {"execute", "invalid execute"}
        BY <2>4 DEF RecvExecute, Recv
      <3>. QED BY <2>4, <3>1, <3>2, <3>3, ChannelSame
               DEF RecvExecute, TypeInv, TypeOK, HandlerOK
    <2>5. CASE RecvClose
      <3>1. ClientOK' /\ pc' \in Locations
        BY <1>2, <2>5 DEF RecvClose, Texts, Locations
      <3>. QED BY <2>5, <3>1, StoppedType DEF RecvClose, TypeInv, TypeOK, HandlerOK
    <2>6. CASE RecvEnd
      BY <2>6, ClientSame, StoppedType DEF RecvEnd, TypeInv, TypeOK, HandlerOK, Locations
    <2>. QED BY <2>1, <2>2, <2>3, <2>4, <2>5, <2>6 DEF Loop
  <1>4. UNCHANGED <<taken, written>>
    BY <1>1 DEF process, readers
  <1>. QED BY <1>1, <1>3, <1>4, ProcessSame, ReadersSame, DirSame, CountSame
           DEF TypeInv, TypeOK

\* What handle_execute sends is a message, and sending it is all that happens
\* besides moving on.
LEMMA ReportType ==
  ASSUME TypeInv, NEW from \in Locations, NEW next \in Locations,
         NEW m \in Message, Report(from, m, next)
  PROVE  TypeInv'
  <1>1. ClientOK' /\ HandlerOK'
    BY ClientSame DEF Report, Goto, TypeInv, TypeOK, HandlerOK
  <1>2. ChannelOK'
    BY SendType DEF Report, TypeInv, TypeOK
  <1>3. UNCHANGED <<process, readers, dir, taken, written>>
    BY DEF Report, process, readers
  <1>. QED BY <1>1, <1>2, <1>3, ProcessSame, ReadersSame, DirSame, CountSame
           DEF TypeInv, TypeOK

\* The steps of handle_execute that send a message.
LEMMA ReportStep ==
  ASSUME TypeInv,
         SendStarted \/ Reject \/ ReportUncreated \/ SendErrors \/ SendDone \/ SendFailed
  PROVE  TypeInv'
  <1>1. exec \in 0..MaxSends
    BY DEF TypeInv, TypeOK, HandlerOK
  <1>2. \A type \in Types : Msg(type, exec) \in Message
    BY <1>1, MsgType
  <1>3. {"report", "finish", "cleanup", "start", "validate", "reject", "recv",
         "uncreated"} \subseteq Locations
    BY DEF Locations
  <1>4. Reasons \subseteq Types /\ {"started", "errors", "done"} \subseteq Types
    BY DEF Types
  <1>5. CASE SendStarted
    BY <1>2, <1>3, <1>4, <1>5, ReportType DEF SendStarted
  <1>6. CASE Reject
    BY <1>2, <1>3, <1>4, <1>6, ReportType DEF Reject, Reasons
  <1>7. CASE ReportUncreated
    BY <1>2, <1>3, <1>4, <1>7, ReportType DEF ReportUncreated, Reasons
  <1>8. CASE SendErrors
    BY <1>2, <1>3, <1>4, <1>8, ReportType DEF SendErrors
  <1>9. CASE SendDone
    BY <1>2, <1>3, <1>4, <1>9, ReportType DEF SendDone
  <1>10. CASE SendFailed
    BY <1>2, <1>3, <1>4, <1>10, ReportType DEF SendFailed
  <1>. QED BY <1>5, <1>6, <1>7, <1>8, <1>9, <1>10

\* The steps of handle_execute and of Executor::execute that send nothing.
LEMMA RunStep ==
  ASSUME TypeInv,
         \/ Validate \/ CreateWorkspace \/ Spawn \/ SpawnFails \/ WaitReturns
         \/ WaitFails \/ DeadlinePasses \/ Kill \/ AbortReaders \/ Collect \/ Cleanup
  PROVE  TypeInv'
  <1>1. ClientOK' /\ ChannelOK'
    <2>1. UNCHANGED <<client, channel>>
      BY DEF Validate, CreateWorkspace, Spawn, SpawnFails, WaitReturns, WaitFails,
             DeadlinePasses, Kill, AbortReaders, Collect, Cleanup, Goto, Returns
    <2>. QED BY <2>1, ClientSame, ChannelSame DEF TypeInv, TypeOK
  <1>2. HandlerOK'
    <2>1. pc' \in Locations /\ UNCHANGED <<exec, payload>>
      BY DEF Validate, CreateWorkspace, Spawn, SpawnFails, WaitReturns, WaitFails,
             DeadlinePasses, Kill, AbortReaders, Collect, Cleanup, Goto, Returns, Locations
    <2>2. outcome' \in [Execs -> {"none", "ok", "Timeout", "InternalError"}]
      BY DEF Validate, CreateWorkspace, Spawn, SpawnFails, WaitReturns, WaitFails,
             DeadlinePasses, Kill, AbortReaders, Collect, Cleanup, Returns,
             TypeInv, TypeOK, HandlerOK
    <2>. QED BY <2>1, <2>2 DEF TypeInv, TypeOK, HandlerOK
  <1>3. ProcessOK'
    BY DEF Validate, CreateWorkspace, Spawn, SpawnFails, WaitReturns, WaitFails,
           DeadlinePasses, Kill, AbortReaders, Collect, Cleanup, process,
           TypeInv, TypeOK, ProcessOK
  <1>4. ReadersOK'
    BY DEF Validate, CreateWorkspace, Spawn, SpawnFails, WaitReturns, WaitFails,
           DeadlinePasses, Kill, AbortReaders, Collect, Cleanup, readers, Reading,
           TypeInv, TypeOK, ReadersOK
  <1>5. DirOK'
    BY DEF Validate, CreateWorkspace, Spawn, SpawnFails, WaitReturns, WaitFails,
           DeadlinePasses, Kill, AbortReaders, Collect, Cleanup, TypeInv, TypeOK, DirOK
  <1>6. UNCHANGED <<taken, written>>
    BY DEF Validate, CreateWorkspace, Spawn, SpawnFails, WaitReturns, WaitFails,
           DeadlinePasses, Kill, AbortReaders, Collect, Cleanup, process, readers
  <1>. QED BY <1>1, <1>2, <1>3, <1>4, <1>5, <1>6, CountSame DEF TypeInv, TypeOK

\* The CLI and its helpers write, and only grow the count of what is written.
LEMMA ProcessType ==
  ASSUME TypeInv, NEW e \in Execs, ProcessStep(e)
  PROVE  TypeInv'
  <1>1. UNCHANGED <<client, handler, channel, readers, dir>>
    BY DEF ProcessStep, StartHelper, HelperExits, ChildExits, WriteLine
  <1>2. ProcessOK' /\ \A p \in Pipes : written[p] <= written'[p]
    <2>1. CASE StartHelper(e) \/ HelperExits(e) \/ ChildExits(e)
      <3>1. ProcessOK' /\ UNCHANGED written
        BY <2>1 DEF StartHelper, HelperExits, ChildExits, TypeInv, TypeOK, ProcessOK
      <3>2. \A p \in Pipes : written[p] \in Nat
        BY BoundsType DEF TypeInv, TypeOK, ProcessOK
      <3>. QED BY <3>1, <3>2
    <2>2. ASSUME NEW s \in Streams, WriteLine(e, s)
          PROVE  ProcessOK' /\ \A p \in Pipes : written[p] <= written'[p]
      <3>1. <<e, s>> \in Pipes /\ written[<<e, s>>] \in 0..MaxLines
        BY DEF Pipes, TypeInv, TypeOK, ProcessOK
      <3>2. written[<<e, s>>] + 1 \in 0..MaxLines
        BY <2>2, <3>1, BoundsType DEF WriteLine
      <3>. QED BY <2>2, <3>1, <3>2, BoundsType DEF WriteLine, TypeInv, TypeOK, ProcessOK
    <2>. QED BY <2>1, <2>2 DEF ProcessStep
  <1>3. (\A p \in Pipes : taken[p] <= written[p])'
    <2>1. \A p \in Pipes : taken[p] \in Nat /\ written[p] \in Nat /\ written'[p] \in Nat
      BY <1>2, BoundsType DEF TypeInv, TypeOK, ProcessOK, ReadersOK
    <2>. QED BY <1>1, <1>2, <2>1 DEF readers, TypeInv
  <1>. QED BY <1>1, <1>2, <1>3, ClientSame, HandlerSame, ChannelSame, ReadersSame,
              DirSame DEF TypeInv, TypeOK

\* A reader task takes no more than was written, and sends well-formed messages.
LEMMA ReaderType ==
  ASSUME TypeInv, NEW e \in Execs, NEW s \in Streams, ReaderStep(e, s)
  PROVE  TypeInv'
  <1>1. <<e, s>> \in Pipes /\ e \in 0..MaxSends
    BY BoundsType DEF Pipes, Execs
  <1>2. taken[<<e, s>>] \in 0..MaxLines /\ written[<<e, s>>] \in 0..MaxLines
    BY <1>1 DEF TypeInv, TypeOK, ProcessOK, ReadersOK
  <1>3. UNCHANGED <<client, handler, process, dir>>
    BY DEF ReaderStep, ReadLine, SendLine, SendNotice, ReadEof, ReadUndecoded, StopReader
  <1>4. CASE ReadLine(e, s)
    <2>1. taken[<<e, s>>] + 1 \in 0..MaxLines
      BY <1>2, <1>4, BoundsType DEF ReadLine
    <2>2. ReadersOK'
      BY <1>1, <1>4, <2>1 DEF ReadLine, Reading, TypeInv, TypeOK, ReadersOK
    <2>3. (\A p \in Pipes : taken[p] <= written[p])'
      BY <1>2, <1>3, <1>4, BoundsType
      DEF ReadLine, process, TypeInv, TypeOK, ReadersOK, ProcessOK
    <2>. QED BY <1>3, <1>4, <2>2, <2>3, ClientSame, HandlerSame, ChannelSame,
                ProcessSame, DirSame DEF ReadLine, TypeInv, TypeOK
  <1>5. CASE SendLine(e, s) \/ SendNotice(e, s)
    <2>1. ChannelOK'
      <3>1. Line(s, e, taken[<<e, s>>]) \in Message
        BY <1>2, LineType
      <3>2. Msg(Notice[s], e) \in Message
        BY <1>1, NoticeType, MsgType
      <3>. QED BY <1>5, <3>1, <3>2, SendType DEF SendLine, SendNotice, TypeInv, TypeOK
    <2>2. ReadersOK' /\ UNCHANGED <<taken, written>>
      BY <1>3, <1>5 DEF SendLine, SendNotice, Reading, process, TypeInv, TypeOK, ReadersOK
    <2>. QED BY <1>3, <2>1, <2>2, ClientSame, HandlerSame, ProcessSame, DirSame, CountSame
             DEF TypeInv, TypeOK
  <1>6. CASE ReadEof(e, s) \/ ReadUndecoded(e, s) \/ StopReader(e, s)
    <2>1. ReadersOK' /\ UNCHANGED <<taken, written, channel>>
      BY <1>3, <1>6
      DEF ReadEof, ReadUndecoded, StopReader, Stopped, process, TypeInv, TypeOK, ReadersOK
    <2>. QED BY <1>3, <2>1, ClientSame, HandlerSame, ChannelSame, ProcessSame, DirSame,
                CountSame DEF TypeInv, TypeOK
  <1>. QED BY <1>4, <1>5, <1>6 DEF ReaderStep

\* Every step keeps the type invariant.
LEMMA NextType == TypeInv /\ [Next]_vars => TypeInv'
  <1>. SUFFICES ASSUME TypeInv, [Next]_vars PROVE TypeInv'
    OBVIOUS
  <1>1. CASE UNCHANGED vars
    BY <1>1, ClientSame, HandlerSame, ChannelSame, ProcessSame, ReadersSame, DirSame,
       CountSame DEF vars, process, readers, TypeInv, TypeOK
  <1>2. CASE Loop
    BY <1>2, LoopStep
  <1>3. CASE HandleExecute \/ WaitFails
    BY <1>3, ReportStep, RunStep DEF HandleExecute
  <1>4. ASSUME NEW e \in Execs, NEW s \in Streams, ReaderStep(e, s) PROVE TypeInv'
    BY <1>4, ReaderType
  <1>5. ASSUME NEW e \in Execs, ProcessStep(e) PROVE TypeInv'
    BY <1>5, ProcessType
  <1>. QED BY <1>1, <1>2, <1>3, <1>4, <1>5, ClientStep, ForwardingStep DEF Next

\* Every state of every execution is well typed: the channel never holds more
\* than its capacity, no pipe more lines than were written.
THEOREM TypeCorrect == Spec => []TypeOK
  <1>1. Spec => []TypeInv
    BY InitType, NextType, PTL DEF Spec
  <1>2. TypeInv => TypeOK
    BY DEF TypeInv
  <1>. QED BY <1>1, <1>2, PTL

-----------------------------------------------------------------------------
(* The latest execution and the ones before and after it. *)

\* What touches neither the handler, the processes nor the directories is safe.
LEMMA SafeSame ==
  ASSUME SafeInv, UNCHANGED <<pc, exec, outcome, child, dir>>
  PROVE  SafeInv'
  BY DEF SafeInv, FreshInv, PhaseInv, ReportedDead, DirOutlivesChild

\* The numbers and the inbox the order is about.
LEMMA Counters ==
  ASSUME TypeInv
  PROVE  inbox \in Seq(Request) /\ sends \in Nat /\ exec \in Nat
  <1>1. inbox \in Seq(Request) /\ sends \in 0..MaxSends
    BY DEF TypeInv, TypeOK, ClientOK
  <1>2. exec \in 0..MaxSends
    BY DEF TypeInv, TypeOK, HandlerOK
  <1>. QED BY <1>1, <1>2

\* Messages stay in the order they were numbered in, whatever is read or lost.
LEMMA OrderStep == RunInv /\ [Next]_vars => OrderInv'
  <1>. SUFFICES ASSUME RunInv, [Next]_vars PROVE OrderInv'
    OBVIOUS
  <1>0. OrderInv /\ inbox \in Seq(Request) /\ sends \in Nat /\ exec \in Nat
    BY Counters DEF RunInv
  <1>1. \A i \in 1..Len(inbox) : inbox[i].exec \in Nat
    BY <1>0, RequestType, BoundsType
  <1>2. CASE UNCHANGED <<inbox, sends, exec>>
    BY <1>0, <1>2 DEF OrderInv
  <1>3. ASSUME NEW text \in Requests, ClientSend(text) PROVE OrderInv'
    <2>. DEFINE m == [text |-> text, exec |-> sends + 1]
    <2>1. sends' = sends + 1 /\ exec' = exec /\ inbox' = Append(inbox, m)
      BY <1>3 DEF ClientSend, handler
    <2>2. m.exec = sends + 1
      OBVIOUS
    <2>. HIDE DEF m
    <2>3. Len(inbox') = Len(inbox) + 1 /\ inbox'[Len(inbox) + 1] = m
          /\ \A i \in 1..Len(inbox) : inbox'[i] = inbox[i]
      BY <1>0, <2>1
    <2>. QED BY <1>0, <1>1, <2>1, <2>2, <2>3 DEF OrderInv
  <1>4. CASE ClientClose
    <2>1. sends' = sends /\ exec' = exec /\ inbox' = Append(inbox, Close)
      BY <1>4 DEF ClientClose, handler
    <2>2. Len(inbox') = Len(inbox) + 1 /\ inbox'[Len(inbox) + 1] = Close
          /\ \A i \in 1..Len(inbox) : inbox'[i] = inbox[i]
      BY <1>0, <2>1
    <2>. QED BY <1>0, <1>1, <2>1, <2>2 DEF OrderInv
  <1>5. CASE LinkBreaks
    <2>1. sends' = sends /\ exec' = exec
      BY <1>5 DEF LinkBreaks, handler
    <2>2. PICK n \in 0..Len(inbox) : inbox' = SubSeq(inbox, 1, n)
      BY <1>5 DEF LinkBreaks
    <2>3. Len(inbox') = n /\ n <= Len(inbox)
          /\ \A i \in 1..n : inbox'[i] = inbox[i]
      BY <1>0, <2>2
    <2>. QED BY <1>0, <1>1, <2>1, <2>3 DEF OrderInv
  <1>6. ASSUME NEW texts, NEW next, Recv(texts, next), "close" \notin texts,
               exec' \in {exec, Head(inbox).exec}
        PROVE  OrderInv'
    <2>1. inbox # <<>> /\ Head(inbox).text \in texts /\ inbox' = Tail(inbox)
          /\ sends' = sends
      BY <1>6 DEF Recv
    <2>2. Len(inbox) >= 1 /\ Head(inbox) = inbox[1] /\ Len(inbox') = Len(inbox) - 1
          /\ \A i \in 1..Len(inbox') : inbox'[i] = inbox[i + 1]
      BY <1>0, <2>1
    <2>3. inbox[1] # Close
      BY <1>6, <2>1, <2>2 DEF Close
    <2>. QED BY <1>0, <1>1, <1>6, <2>1, <2>2, <2>3 DEF OrderInv
  <1>7. CASE RecvClose
    <2>1. inbox # <<>> /\ inbox' = Tail(inbox) /\ sends' = sends /\ exec' = exec
      BY <1>7 DEF RecvClose, Recv
    <2>2. Len(inbox) >= 1 /\ Len(inbox') = Len(inbox) - 1
          /\ \A i \in 1..Len(inbox') : inbox'[i] = inbox[i + 1]
      BY <1>0, <2>1
    <2>. QED BY <1>0, <1>1, <2>1, <2>2 DEF OrderInv
  <1>8. CASE RecvPing \/ RecvSkipped \/ RecvExecute
    BY <1>6, <1>8 DEF RecvPing, RecvSkipped, RecvExecute
  <1>9. CASE SendPong \/ RecvEnd \/ HandleExecute \/ WaitFails
    <2>1. UNCHANGED <<inbox, sends, exec>>
      BY <1>9 DEF SendPong, RecvEnd, HandleExecute, WaitFails, SendStarted, Validate,
         Reject, CreateWorkspace, ReportUncreated, Spawn, SpawnFails, WaitReturns,
         DeadlinePasses, Kill, AbortReaders, Collect, SendErrors, SendDone, SendFailed,
         Cleanup, Report, Returns, Goto, client
    <2>. QED BY <1>2, <2>1
  <1>10. CASE \/ Forward \/ Deliver \/ DeliverFails
              \/ \E e \in Execs : ProcessStep(e)
              \/ \E e \in Execs, s \in Streams : ReaderStep(e, s)
    <2>1. UNCHANGED <<inbox, sends, exec>>
      BY <1>10 DEF Forward, Deliver, DeliverFails, ProcessStep, StartHelper, HelperExits,
         ChildExits, WriteLine, ReaderStep, ReadLine, SendLine, SendNotice, ReadEof,
         ReadUndecoded, StopReader, client, handler
    <2>. QED BY <1>2, <2>1
  <1>11. CASE UNCHANGED vars
    BY <1>2, <1>11 DEF vars, client, handler
  <1>. QED BY <1>3, <1>4, <1>5, <1>7, <1>8, <1>9, <1>10, <1>11
           DEF Next, ClientNext, Loop

\* Going on without touching the latest execution.
LEMMA SafeIdle ==
  ASSUME SafeInv, UNCHANGED <<exec, outcome, child, dir>>,
         \/ pc' \in {"recv", "pong", "closed"}
         \/ pc = "start" /\ pc' \in {"validate"}
         \/ pc = "validate" /\ pc' \in {"create", "reject"}
         \/ pc \in {"report", "finish"} /\ pc' \in {"finish", "cleanup"}
  PROVE  SafeInv'
  BY DEF SafeInv, FreshInv, PhaseInv, ReportedDead, DirOutlivesChild

\* An execution that begins is later than the latest.
LEMMA BeginLater ==
  ASSUME RunInv, RecvExecute
  PROVE  exec' \in Execs /\ exec < exec'
  <1>1. PICK r \in Request : /\ r = inbox[1] /\ 1 \in 1..Len(inbox)
                             /\ r.text \in {"execute", "invalid execute"}
                             /\ exec' = r.exec
    <2>1. inbox \in Seq(Request) /\ inbox # <<>>
      BY Counters DEF RunInv, RecvExecute, Recv
    <2>2. Head(inbox) = inbox[1] /\ inbox[1] \in Request /\ 1 \in 1..Len(inbox)
      BY <2>1
    <2>3. /\ Head(inbox).text \in {"execute", "invalid execute"}
          /\ exec' = Head(inbox).exec
      BY DEF RecvExecute, Recv
    <2>. QED BY <2>2, <2>3
  <1>2. r # Close
    <2>1. r.text \in {"execute", "invalid execute"}
      BY <1>1
    <2>2. Close.text = "close"
      BY DEF Close
    <2>. QED BY <2>1, <2>2
  <1>3. r \in [text : Texts, exec : Execs]
    BY <1>1, <1>2 DEF Request
  <1>4. exec' \in Execs
    BY <1>1, <1>3
  <1>5. exec < exec'
    BY <1>1, <1>2 DEF RunInv, OrderInv
  <1>. QED BY <1>4, <1>5

\* An execution that begins is one nothing has been done for.
LEMMA SafeBegin ==
  ASSUME RunInv, RecvExecute
  PROVE  SafeInv'
  <1>1. pc' = "start" /\ UNCHANGED <<outcome, child, dir>>
    BY DEF RecvExecute, Recv, process
  <1>2. exec' \in Execs /\ exec < exec'
    BY BeginLater
  <1>3. \A e \in Execs : exec' <= e => outcome[e] = "none" /\ child[e] = "none"
    <2>1. exec \in Nat /\ Execs \subseteq Nat
      BY Counters DEF RunInv, Execs
    <2>2. \A e \in Execs : exec' <= e => exec < e
      BY <1>2, <2>1
    <2>. QED BY <2>2 DEF RunInv, SafeInv, FreshInv
  <1>4. outcome[exec'] = "none" /\ child[exec'] = "none"
    <2>1. exec' \in Nat
      BY <1>2 DEF Execs
    <2>. QED BY <1>2, <1>3, <2>1
  <1>5. FreshInv'
    <2>1. \A e \in Execs : exec' < e => exec' <= e
      BY <1>2 DEF Execs
    <2>. QED BY <1>1, <1>3, <2>1 DEF FreshInv
  <1>6. PhaseInv'
    BY <1>1, <1>2, <1>4 DEF PhaseInv
  <1>. QED BY <1>1, <1>5, <1>6 DEF RunInv, SafeInv, ReportedDead, DirOutlivesChild

\* The workspace, the process and the outcome of the latest execution.
LEMMA SafeRun ==
  ASSUME RunInv,
         \/ CreateWorkspace \/ Spawn \/ SpawnFails \/ WaitReturns \/ WaitFails
         \/ DeadlinePasses \/ Kill \/ AbortReaders \/ Collect \/ Cleanup
  PROVE  SafeInv'
  <1>1. /\ outcome \in [Execs -> {"none", "ok", "Timeout", "InternalError"}]
        /\ child \in [Execs -> {"none", "running", "exited", "killed"}]
        /\ dir \in [Execs -> {"none", "partial", "present", "removed", "undeleted"}]
        /\ exec \in Nat /\ Execs \subseteq Nat /\ SafeInv
    <2>1. exec \in Nat /\ SafeInv
      BY Counters DEF RunInv
    <2>2. HandlerOK /\ ProcessOK /\ DirOK
      BY DEF RunInv, TypeInv, TypeOK
    <2>3. Execs \subseteq Nat
      BY DEF Execs
    <2>. QED BY <2>1, <2>2, <2>3 DEF HandlerOK, ProcessOK, DirOK
  <1>2. exec \in Execs
    BY <1>1 DEF SafeInv, PhaseInv, CreateWorkspace, Spawn, SpawnFails, WaitReturns,
       WaitFails, DeadlinePasses, Kill, AbortReaders, Collect, Cleanup, Goto, Returns
  <1>3. CASE CreateWorkspace
    BY <1>1, <1>2, <1>3 DEF CreateWorkspace, Goto, process, SafeInv, FreshInv, PhaseInv,
       ReportedDead, DirOutlivesChild
  <1>4. CASE Spawn
    <2>1. /\ pc = "spawn" /\ pc' = "wait" /\ UNCHANGED <<exec, outcome, dir>>
          /\ child' = [child EXCEPT ![exec] = "running"]
      BY <1>4 DEF Spawn, Goto
    <2>2. outcome[exec] = "none" /\ dir[exec] = "present"
      BY <1>1, <2>1 DEF SafeInv, PhaseInv
    <2>. QED BY <1>1, <1>2, <2>1, <2>2 DEF SafeInv, FreshInv, PhaseInv, ReportedDead,
                DirOutlivesChild
  <1>5. CASE SpawnFails \/ WaitFails
    BY <1>1, <1>2, <1>5 DEF SpawnFails, WaitFails, Returns, Goto, process, SafeInv,
       FreshInv, PhaseInv, ReportedDead, DirOutlivesChild
  <1>6. CASE WaitReturns \/ DeadlinePasses
    BY <1>1, <1>2, <1>6 DEF WaitReturns, DeadlinePasses, Goto, process, SafeInv,
       FreshInv, PhaseInv, ReportedDead, DirOutlivesChild
  <1>7. CASE Kill
    BY <1>1, <1>2, <1>7 DEF Kill, Goto, SafeInv, FreshInv, PhaseInv,
       ReportedDead, DirOutlivesChild
  <1>8. CASE AbortReaders \/ Collect
    BY <1>1, <1>2, <1>8 DEF AbortReaders, Collect, Returns, Goto, process, SafeInv,
       FreshInv, PhaseInv, ReportedDead, DirOutlivesChild
  <1>9. CASE Cleanup
    BY <1>1, <1>2, <1>9 DEF Cleanup, Goto, process, SafeInv, FreshInv, PhaseInv,
       ReportedDead, DirOutlivesChild
  <1>. QED BY <1>3, <1>4, <1>5, <1>6, <1>7, <1>8, <1>9

\* A child that exits was running, so the executor still waits for it, is about
\* to kill it, or has lost it.
LEMMA SafeProcess ==
  ASSUME RunInv, NEW e \in Execs, ProcessStep(e)
  PROVE  SafeInv'
  <1>1. child \in [Execs -> {"none", "running", "exited", "killed"}] /\ SafeInv
    BY DEF RunInv, TypeInv, TypeOK, ProcessOK
  <1>2. UNCHANGED <<pc, exec, outcome, dir>>
    BY DEF ProcessStep, StartHelper, HelperExits, ChildExits, WriteLine, handler
  <1>3. CASE UNCHANGED child
    BY <1>1, <1>2, <1>3, SafeSame
  <1>4. CASE ChildExits(e)
    BY <1>1, <1>2, <1>4 DEF ChildExits, SafeInv, FreshInv, PhaseInv, ReportedDead,
       DirOutlivesChild
  <1>. QED BY <1>3, <1>4 DEF ProcessStep, StartHelper, HelperExits, WriteLine

\* Every step keeps the inductive invariant.
LEMMA NextRun == RunInv /\ [Next]_vars => RunInv'
  <1>. SUFFICES ASSUME RunInv, [Next]_vars PROVE SafeInv'
    BY NextType, OrderStep DEF RunInv
  <1>1. SafeInv
    BY DEF RunInv
  <1>2. CASE UNCHANGED vars
    BY <1>1, <1>2, SafeSame DEF vars, handler, process
  <1>3. CASE ClientNext \/ LinkBreaks \/ Forward \/ Deliver \/ DeliverFails
    BY <1>1, <1>3, SafeSame DEF ClientNext, ClientSend, ClientClose, LinkBreaks, Forward,
       Deliver, DeliverFails, handler, process
  <1>4. CASE RecvPing \/ SendPong \/ RecvSkipped \/ RecvClose \/ RecvEnd
    BY <1>1, <1>4, SafeIdle DEF RecvPing, SendPong, RecvSkipped, RecvClose, RecvEnd, Recv,
       Report, Goto, process
  <1>5. CASE SendStarted \/ Validate \/ Reject \/ ReportUncreated \/ SendErrors
             \/ SendDone \/ SendFailed
    BY <1>1, <1>5, SafeIdle DEF SendStarted, Validate, Reject, ReportUncreated,
       SendErrors, SendDone, SendFailed, Report, Goto, process
  <1>6. ASSUME NEW e \in Execs, NEW s \in Streams, ReaderStep(e, s) PROVE SafeInv'
    <2>1. UNCHANGED <<pc, exec, outcome, child, dir>>
      BY <1>6 DEF ReaderStep, ReadLine, SendLine, SendNotice, ReadEof, ReadUndecoded,
         StopReader, handler, process
    <2>. QED BY <1>1, <2>1, SafeSame
  <1>. QED BY <1>2, <1>3, <1>4, <1>5, <1>6, SafeBegin, SafeRun, SafeProcess
           DEF Next, Loop, HandleExecute

\* The inductive invariant holds of every state.
THEOREM RunCorrect == Spec => []RunInv
  <1>1. Init => RunInv
    BY InitType DEF Init, RunInv, OrderInv, SafeInv, FreshInv, PhaseInv, ReportedDead,
       DirOutlivesChild
  <1>. QED BY <1>1, NextRun, PTL DEF Spec

\* Whoever wins the race between the exit of the CLI and the deadline, success
\* and timeout are reported of a process that is dead.
THEOREM ReportedDeadCorrect == Spec => []ReportedDead
  <1>1. RunInv => ReportedDead
    BY DEF RunInv, SafeInv
  <1>. QED BY <1>1, RunCorrect, PTL

\* A CLI process that runs has its directory, unless waiting for it failed.
THEOREM DirOutlivesChildCorrect == Spec => []DirOutlivesChild
  <1>1. RunInv => DirOutlivesChild
    BY DEF RunInv, SafeInv
  <1>. QED BY <1>1, RunCorrect, PTL

-----------------------------------------------------------------------------
(* The lines, and Done after them. *)

\* What the client has received or, while the socket is up, will receive.
Flow == IF link = "up" THEN received \o (inflight \o queue) ELSE received

\* send_task works and nothing tells the loop to stop while the socket is up.
LinkInv ==
  /\ link = "up" => fwd # "done" /\ \A i \in 1..Len(inbox) : inbox[i] # Close
  /\ fwd = "idle" => inflight = <<>>

\* Where the reader tasks of an execution are: not started without a process,
\* aborted only after the deadline, over when it succeeded, and with all that
\* was written when they got to the end of the file.
ReaderInv ==
  \A e \in Execs :
    /\ child[e] = "none" => \A s \in Streams : reader[<<e, s>>] = "off"
    /\ aborted[e] => outcome[e] = "Timeout"
    /\ outcome[e] = "ok" => \A s \in Streams : reader[<<e, s>>] \in Stopped
    /\ \A s \in Streams : reader[<<e, s>>] = "ended" /\ ~aborted[e] =>
         taken[<<e, s>>] = written[<<e, s>>]

\* A line below the cap that a task has read it has sent, but for the one it is
\* about to send.
ToSend(e, s, n) ==
  /\ n <= Cap /\ n <= taken[<<e, s>>] /\ ~aborted[e]
  /\ reader[<<e, s>>] = "sending" => n # taken[<<e, s>>]

LinesSent ==
  link = "up" =>
    \A e \in Execs, s \in Streams, n \in 1..MaxLines :
      ToSend(e, s, n) => \E j \in 1..Len(Flow) : Flow[j] = Line(s, e, n)

\* Done is of an execution that succeeded, and comes after its lines.
LineBefore(i, s, n) == \E j \in 1..(i - 1) : Flow[j] = Line(s, Flow[i].exec, n)

DoneLast ==
  \A i \in 1..Len(Flow) : Flow[i].type = "done" =>
    /\ Flow[i].exec \in Execs /\ outcome[Flow[i].exec] = "ok"
    /\ \A s \in Streams, n \in 1..MaxLines :
         n <= Cap /\ n <= written[<<Flow[i].exec, s>>] =>
           LineBefore(i, s, n) \/ Unread(Flow[i].exec, s, n)

OutputInv == RunInv /\ LinkInv /\ ReaderInv /\ LinesSent /\ DoneLast

-----------------------------------------------------------------------------
(* The flow. *)

\* The parts of the flow, and the counts, have their types.
LEMMA FlowTypes ==
  ASSUME TypeInv
  PROVE  /\ received \in Seq(Message) /\ inflight \in Seq(Message) /\ queue \in Seq(Message)
         /\ inflight \o queue \in Seq(Message)
         /\ Flow \in Seq(Message) /\ Len(Flow) \in Nat
         /\ Len(received) \in Nat /\ Len(received) <= Len(Flow)
         /\ \A i \in 1..Len(received) : Flow[i] = received[i]
  <1>1. received \in Seq(Message) /\ inflight \in Seq(Message) /\ queue \in Seq(Message)
    BY DEF TypeInv, TypeOK, ClientOK, ChannelOK
  <1>2. inflight \o queue \in Seq(Message)
    BY <1>1
  <1>. DEFINE rest == inflight \o queue
  <1>. HIDE DEF rest
  <1>3. /\ received \o rest \in Seq(Message)
        /\ Len(received \o rest) = Len(received) + Len(rest)
        /\ \A i \in 1..Len(received) : (received \o rest)[i] = received[i]
    BY <1>1, <1>2, ConcatProperties DEF rest
  <1>4. Len(rest) \in Nat /\ Len(received) \in Nat
    BY <1>1, <1>2 DEF rest
  <1>5. CASE link = "up"
    BY <1>1, <1>2, <1>3, <1>4, <1>5 DEF Flow, rest
  <1>6. CASE link # "up"
    BY <1>1, <1>2, <1>4, <1>6 DEF Flow
  <1>. QED BY <1>5, <1>6

\* What is sent comes last, if the client can still get it.
LEMMA FlowSend ==
  ASSUME TypeInv, LinkInv, NEW m \in Message, Send(m), UNCHANGED client
  PROVE  Flow' = IF link = "up" THEN Append(Flow, m) ELSE Flow
  <1>1. received' = received /\ link' = link /\ inflight' = inflight
    BY DEF client, Send
  <1>2. CASE link = "up"
    <2>1. queue' = Append(queue, m)
      BY <1>2 DEF Send, LinkInv
    <2>2. /\ received \in Seq(Message) /\ inflight \in Seq(Message) /\ queue \in Seq(Message)
          /\ inflight \o queue \in Seq(Message) /\ <<m>> \in Seq(Message)
      BY FlowTypes
    <2>3. Append(queue, m) = queue \o <<m>>
      BY <2>2
    <2>4. inflight \o (queue \o <<m>>) = (inflight \o queue) \o <<m>>
      BY <2>2, ConcatAssociative
    <2>5. received \o ((inflight \o queue) \o <<m>>) = (received \o (inflight \o queue)) \o <<m>>
      BY <2>2, ConcatAssociative
    <2>6. Flow \in Seq(Message)
      BY FlowTypes
    <2>7. Append(Flow, m) = Flow \o <<m>>
      BY <2>6
    <2>. QED BY <1>1, <1>2, <2>1, <2>3, <2>4, <2>5, <2>7 DEF Flow
  <1>3. CASE link # "up"
    BY <1>1, <1>3 DEF Flow
  <1>. QED BY <1>2, <1>3

\* Forwarding moves messages within the flow, or happens after it has ended.
LEMMA FlowForward ==
  ASSUME TypeInv, LinkInv, Forward \/ Deliver \/ DeliverFails
  PROVE  Flow' = Flow
  <1>1. /\ received \in Seq(Message) /\ inflight \in Seq(Message) /\ queue \in Seq(Message)
    BY FlowTypes
  <1>2. CASE Forward
    <2>1. inflight = <<>> /\ inflight' = <<Head(queue)>> /\ queue # <<>> /\ queue' = Tail(queue)
          /\ link' = link /\ received' = received
      BY <1>2 DEF Forward, LinkInv, client
    <2>2. <<Head(queue)>> \o Tail(queue) = queue
      BY <1>1, <2>1
    <2>3. <<>> \o queue = queue
      BY <1>1, ConcatEmptySeq
    <2>. QED BY <2>1, <2>2, <2>3 DEF Flow
  <1>3. CASE Deliver /\ link = "up"
    <2>1. received' = received \o inflight /\ inflight' = <<>> /\ queue' = queue /\ link' = link
      BY <1>3 DEF Deliver
    <2>2. <<>> \o queue = queue
      BY <1>1, ConcatEmptySeq
    <2>3. (received \o inflight) \o queue = received \o (inflight \o queue)
      BY <1>1, ConcatAssociative
    <2>. QED BY <1>3, <2>1, <2>2, <2>3 DEF Flow
  <1>4. CASE (Deliver \/ DeliverFails) /\ link # "up"
    BY <1>4 DEF Deliver, DeliverFails, client, Flow
  <1>. QED BY <1>2, <1>3, <1>4 DEF DeliverFails

\* The loop is left only when the socket is no longer up.
LEMMA LoopEnds ==
  ASSUME TypeInv, LinkInv, RecvClose \/ RecvEnd
  PROVE  link # "up"
  <1>1. CASE RecvClose
    <2>1. inbox \in Seq(Request) /\ inbox # <<>> /\ Head(inbox).text = "close"
      BY <1>1 DEF RecvClose, Recv, TypeInv, TypeOK, ClientOK
    <2>2. Head(inbox) = inbox[1] /\ inbox[1] \in Request /\ 1 \in 1..Len(inbox)
      BY <2>1
    <2>3. inbox[1] = Close
      BY <2>1, <2>2 DEF Request, Texts
    <2>. QED BY <2>2, <2>3 DEF LinkInv
  <1>. QED BY <1>1 DEF RecvEnd

\* The steps that send a message, and the message.
Sends(m) ==
  \/ SendPong /\ m = Msg("pong", 0)
  \/ SendStarted /\ m = Msg("started", exec)
  \/ Reject /\ m = Msg("ValidationError", exec)
  \/ ReportUncreated /\ m = Msg("InternalError", exec)
  \/ SendErrors /\ m = Msg("errors", exec)
  \/ SendDone /\ m = Msg("done", exec)
  \/ SendFailed /\ m = Msg(outcome[exec], exec)
  \/ \E e \in Execs, s \in Streams :
       \/ SendLine(e, s) /\ m = Line(s, e, taken[<<e, s>>])
       \/ SendNotice(e, s) /\ m = Msg(Notice[s], e)

\* The steps that send nothing and do not leave the loop.
QuietHandler ==
  \/ Validate \/ CreateWorkspace \/ Spawn \/ SpawnFails \/ WaitReturns \/ WaitFails
  \/ DeadlinePasses \/ Kill \/ AbortReaders \/ Collect \/ Cleanup

QuietReader(e, s) ==
  ReadLine(e, s) \/ ReadEof(e, s) \/ ReadUndecoded(e, s) \/ StopReader(e, s)

Quiet ==
  \/ ClientNext \/ LinkBreaks \/ RecvPing \/ RecvSkipped \/ RecvExecute
  \/ QuietHandler
  \/ Forward \/ Deliver \/ DeliverFails
  \/ \E e \in Execs : ProcessStep(e)
  \/ \E e \in Execs, s \in Streams : QuietReader(e, s)
  \/ UNCHANGED vars

\* A step leaves the flow as it is, or adds the message it sends, or ends what
\* the client can get.
Grows(m) == link = "up" /\ Flow' = Append(Flow, m)

FlowMoves ==
  \/ Quiet /\ Flow' = Flow
  \/ \E m \in Message : Sends(m) /\ Grows(m)
  \/ link' # "up" /\ Flow' = received

\* Every step is one of these.
LEMMA StepKinds ==
  ASSUME [Next]_vars
  PROVE  Quiet \/ RecvClose \/ RecvEnd \/ \E m : Sends(m)
  <1>1. CASE SendPong \/ SendStarted \/ Reject \/ ReportUncreated \/ SendErrors \/ SendDone
             \/ SendFailed
    BY <1>1 DEF Sends
  <1>2. CASE \E e \in Execs, s \in Streams : SendLine(e, s) \/ SendNotice(e, s)
    BY <1>2 DEF Sends
  <1>3. CASE HandleExecute \/ WaitFails
    BY <1>1, <1>3 DEF HandleExecute, Quiet, QuietHandler
  <1>4. CASE Loop
    BY <1>1, <1>4 DEF Loop, Quiet
  <1>5. CASE \E e \in Execs, s \in Streams : ReaderStep(e, s)
    BY <1>2, <1>5 DEF ReaderStep, Quiet, QuietReader
  <1>. QED BY <1>3, <1>4, <1>5 DEF Next, Quiet

\* A message that is sent is a server message, put into the channel.
LEMMA SendsType ==
  ASSUME TypeInv, NEW m, Sends(m)
  PROVE  m \in Message /\ Send(m) /\ UNCHANGED client
  <1>1. exec \in 0..MaxSends
    BY DEF TypeInv, TypeOK, HandlerOK
  <1>2. 0 \in 0..MaxSends
    BY BoundsType
  <1>3. Reasons \cup {"pong", "started", "errors", "done"} \subseteq Types
    BY DEF Types
  <1>4. \A t \in Types, e \in 0..MaxSends : Msg(t, e) \in Message
    BY MsgType
  <1>5. ASSUME NEW from, NEW to, NEW t \in Types, NEW e \in 0..MaxSends, m = Msg(t, e),
               Report(from, Msg(t, e), to)
        PROVE  m \in Message /\ Send(m) /\ UNCHANGED client
    BY <1>4, <1>5 DEF Report, Goto
  <1>6. CASE SendPong /\ m = Msg("pong", 0)
    BY <1>2, <1>3, <1>5, <1>6 DEF SendPong
  <1>7. CASE SendStarted /\ m = Msg("started", exec)
    BY <1>1, <1>3, <1>5, <1>7 DEF SendStarted
  <1>8. CASE Reject /\ m = Msg("ValidationError", exec)
    BY <1>1, <1>3, <1>5, <1>8 DEF Reject, Reasons
  <1>9. CASE ReportUncreated /\ m = Msg("InternalError", exec)
    BY <1>1, <1>3, <1>5, <1>9 DEF ReportUncreated, Reasons
  <1>10. CASE SendErrors /\ m = Msg("errors", exec)
    BY <1>1, <1>3, <1>5, <1>10 DEF SendErrors
  <1>11. CASE SendDone /\ m = Msg("done", exec)
    BY <1>1, <1>3, <1>5, <1>11 DEF SendDone
  <1>12. CASE SendFailed /\ m = Msg(outcome[exec], exec)
    BY <1>1, <1>3, <1>5, <1>12 DEF SendFailed
  <1>13. ASSUME NEW e \in Execs, NEW s \in Streams, SendLine(e, s),
                m = Line(s, e, taken[<<e, s>>])
         PROVE  m \in Message /\ Send(m) /\ UNCHANGED client
    <2>1. taken[<<e, s>>] \in 0..MaxLines
      BY DEF TypeInv, TypeOK, ReadersOK, Pipes
    <2>2. Line(s, e, taken[<<e, s>>]) \in Message
      BY <2>1, LineType
    <2>. QED BY <1>13, <2>2 DEF SendLine
  <1>14. ASSUME NEW e \in Execs, NEW s \in Streams, SendNotice(e, s), m = Msg(Notice[s], e)
         PROVE  m \in Message /\ Send(m) /\ UNCHANGED client
    <2>1. e \in 0..MaxSends
      BY BoundsType DEF Execs
    <2>2. Msg(Notice[s], e) \in Message
      BY <1>4, <2>1, NoticeType
    <2>. QED BY <1>14, <2>2 DEF SendNotice
  <1>. QED BY <1>6, <1>7, <1>8, <1>9, <1>10, <1>11, <1>12, <1>13, <1>14 DEF Sends

\* Done is sent by SendDone only.
LEMMA SendsDone ==
  ASSUME TypeInv, NEW m, Sends(m), m.type = "done"
  PROVE  SendDone /\ m = Msg("done", exec)
  <1>1. ASSUME NEW t, NEW e, m = Msg(t, e) PROVE t = "done"
    BY <1>1 DEF Msg
  <1>2. ASSUME NEW s, NEW e, NEW n, m = Line(s, e, n) PROVE s = "done"
    BY <1>2 DEF Line
  <1>3. \A s \in Streams : s # "done" /\ Notice[s] # "done"
    BY DEF Streams, Notice
  <1>4. ~(SendFailed /\ m = Msg(outcome[exec], exec))
    BY <1>1 DEF SendFailed, Reasons
  <1>5. \A e : /\ m # Msg("pong", 0) /\ m # Msg("started", e) /\ m # Msg("ValidationError", e)
               /\ m # Msg("InternalError", e) /\ m # Msg("errors", e)
    BY <1>1
  <1>6. \A e \in Execs, s \in Streams : m # Line(s, e, taken[<<e, s>>]) /\ m # Msg(Notice[s], e)
    BY <1>1, <1>2, <1>3
  <1>. QED BY <1>4, <1>5, <1>6 DEF Sends

\* Every step moves the flow in one of these ways.
LEMMA FlowStep ==
  ASSUME TypeInv, LinkInv, [Next]_vars
  PROVE  FlowMoves
  <1>1. CASE UNCHANGED <<link, received, inflight, queue>> /\ Quiet
    BY <1>1 DEF Flow, FlowMoves
  <1>2. CASE RecvClose \/ RecvEnd
    <2>1. link # "up"
      BY <1>2, LoopEnds
    <2>. QED BY <1>2, <2>1 DEF RecvClose, RecvEnd, Recv, client, Flow, FlowMoves
  <1>3. ASSUME NEW m, Sends(m) PROVE FlowMoves
    <2>1. m \in Message /\ Send(m) /\ UNCHANGED client
      BY <1>3, SendsType
    <2>2. Flow' = IF link = "up" THEN Append(Flow, m) ELSE Flow
      BY <2>1, FlowSend
    <2>3. CASE link = "up"
      BY <1>3, <2>1, <2>2, <2>3 DEF FlowMoves, Grows
    <2>4. CASE link # "up"
      BY <2>1, <2>2, <2>4 DEF FlowMoves, Flow, client
    <2>. QED BY <2>3, <2>4
  <1>4. CASE Quiet
    <2>1. CASE ClientNext \/ LinkBreaks
      BY <1>1, <1>4, <2>1
      DEF ClientNext, ClientSend, ClientClose, LinkBreaks, channel, Flow, FlowMoves
    <2>2. CASE RecvPing \/ RecvSkipped \/ RecvExecute
      BY <1>1, <1>4, <2>2 DEF RecvPing, RecvSkipped, RecvExecute, Recv, channel
    <2>3. CASE QuietHandler
      BY <1>1, <1>4, <2>3 DEF QuietHandler, Validate, CreateWorkspace, Spawn, SpawnFails,
         WaitReturns, WaitFails, DeadlinePasses, Kill, AbortReaders, Collect, Cleanup, Returns,
         Goto, client, channel
    <2>4. CASE Forward \/ Deliver \/ DeliverFails
      BY <1>4, <2>4, FlowForward DEF FlowMoves
    <2>5. CASE \/ \E e \in Execs : ProcessStep(e)
               \/ \E e \in Execs, s \in Streams : QuietReader(e, s)
      BY <1>1, <1>4, <2>5 DEF ProcessStep, StartHelper, HelperExits, ChildExits, WriteLine,
         QuietReader, ReadLine, ReadEof, ReadUndecoded, StopReader, client, channel
    <2>6. CASE UNCHANGED vars
      BY <1>1, <1>4, <2>6 DEF vars, client, channel
    <2>. QED BY <1>4, <2>1, <2>2, <2>3, <2>4, <2>5, <2>6 DEF Quiet
  <1>. QED BY <1>2, <1>3, <1>4, StepKinds

-----------------------------------------------------------------------------
(* The link and the reader tasks. *)

\* The socket is never up again.
LEMMA LinkDown == [Next]_vars /\ link' = "up" => link = "up"
  BY DEF Next, ClientNext, ClientSend, ClientClose, LinkBreaks, Loop, RecvPing, SendPong,
     RecvSkipped, RecvExecute, RecvClose, RecvEnd, Recv, HandleExecute, SendStarted, Validate,
     Reject, CreateWorkspace, ReportUncreated, Spawn, SpawnFails, WaitReturns, WaitFails,
     DeadlinePasses, Kill, AbortReaders, Collect, SendErrors, SendDone, SendFailed, Cleanup,
     Report, Returns, Goto, Forward, Deliver, DeliverFails, ProcessStep, StartHelper,
     HelperExits, ChildExits, WriteLine, ReaderStep, ReadLine, SendLine, SendNotice, ReadEof,
     ReadUndecoded, StopReader, client, vars

\* Only leaving the loop, or a send that fails, stops send_task; nothing is put
\* into the inbox after Close, and Close not while the socket is up.
LEMMA LinkStep == TypeInv /\ LinkInv /\ [Next]_vars => LinkInv'
  <1>. SUFFICES ASSUME TypeInv, LinkInv, [Next]_vars PROVE LinkInv'
    OBVIOUS
  <1>0. inbox \in Seq(Request)
    BY DEF TypeInv, TypeOK, ClientOK
  <1>1. CASE UNCHANGED <<link, inbox, inflight, fwd>>
    BY <1>1 DEF LinkInv
  <1>2. ASSUME NEW text \in Requests, ClientSend(text) PROVE LinkInv'
    <2>. DEFINE m == [text |-> text, exec |-> sends + 1]
    <2>1. m # Close
      BY RequestsType DEF Close, Texts
    <2>2. inbox' = Append(inbox, m) /\ UNCHANGED <<link, inflight, fwd>>
      BY <1>2 DEF ClientSend, channel
    <2>. HIDE DEF m
    <2>. QED BY <1>0, <2>1, <2>2 DEF LinkInv
  <1>3. CASE ClientClose \/ LinkBreaks
    BY <1>3 DEF ClientClose, LinkBreaks, LinkInv, channel
  <1>4. CASE RecvPing \/ RecvSkipped \/ RecvExecute
    <2>1. inbox # <<>> /\ inbox' = Tail(inbox) /\ UNCHANGED <<link, inflight, fwd>>
      BY <1>4 DEF RecvPing, RecvSkipped, RecvExecute, Recv, channel
    <2>2. Len(inbox') = Len(inbox) - 1 /\ \A i \in 1..Len(inbox') : inbox'[i] = inbox[i + 1]
      BY <1>0, <2>1
    <2>. QED BY <1>0, <2>1, <2>2 DEF LinkInv
  <1>5. CASE RecvClose \/ RecvEnd
    <2>1. link' # "up"
      BY <1>5, LoopEnds DEF RecvClose, RecvEnd, Recv, client
    <2>. QED BY <1>5, <2>1 DEF RecvClose, RecvEnd, StopForwarding, LinkInv
  <1>6. CASE SendPong \/ HandleExecute \/ WaitFails
    <2>1. UNCHANGED <<link, inbox, inflight, fwd>>
      BY <1>6 DEF SendPong, HandleExecute, WaitFails, SendStarted, Validate, Reject,
         CreateWorkspace, ReportUncreated, Spawn, SpawnFails, WaitReturns, DeadlinePasses,
         Kill, AbortReaders, Collect, SendErrors, SendDone, SendFailed, Cleanup, Report,
         Returns, Goto, Send, client, channel
    <2>. QED BY <1>1, <2>1
  <1>7. CASE Forward \/ Deliver \/ DeliverFails
    BY <1>7 DEF Forward, Deliver, DeliverFails, LinkInv, client
  <1>8. CASE \/ \E e \in Execs : ProcessStep(e)
             \/ \E e \in Execs, s \in Streams : ReaderStep(e, s)
    <2>1. UNCHANGED <<link, inbox, inflight, fwd>>
      BY <1>8 DEF ProcessStep, StartHelper, HelperExits, ChildExits, WriteLine, ReaderStep,
         ReadLine, SendLine, SendNotice, ReadEof, ReadUndecoded, StopReader, Send, client,
         channel
    <2>. QED BY <1>1, <2>1
  <1>9. CASE UNCHANGED vars
    BY <1>1, <1>9 DEF vars, client, channel
  <1>. QED BY <1>2, <1>3, <1>4, <1>5, <1>6, <1>7, <1>8, <1>9 DEF Next, ClientNext, Loop

\* The types of what the reader tasks and the pipes hold.
LEMMA ReaderTypes ==
  ASSUME RunInv
  PROVE  /\ outcome \in [Execs -> {"none", "ok", "Timeout", "InternalError"}]
         /\ child \in [Execs -> {"none", "running", "exited", "killed"}]
         /\ helper \in [Execs -> BOOLEAN]
         /\ written \in [Pipes -> 0..MaxLines]
         /\ reader \in [Pipes -> {"off"} \cup Reading \cup Stopped]
         /\ taken \in [Pipes -> 0..MaxLines]
         /\ aborted \in [Execs -> BOOLEAN]
  BY DEF RunInv, TypeInv, TypeOK, HandlerOK, ProcessOK, ReadersOK

\* Executor::execute decides the outcome of the latest execution once.
LEMMA OutcomeStep ==
  ASSUME RunInv, [Next]_vars
  PROVE  \/ UNCHANGED outcome
         \/ /\ exec \in Execs /\ outcome[exec] = "none"
            /\ outcome' = [outcome EXCEPT ![exec] = outcome'[exec]]
  <1>1. CASE SpawnFails \/ WaitFails \/ AbortReaders \/ Collect
    <2>1. exec \in Execs /\ outcome[exec] = "none"
      BY <1>1 DEF SpawnFails, WaitFails, AbortReaders, Collect, Returns, Goto, RunInv, SafeInv,
         PhaseInv
    <2>2. PICK how : outcome' = [outcome EXCEPT ![exec] = how]
      BY <1>1 DEF SpawnFails, WaitFails, AbortReaders, Collect, Returns
    <2>. QED BY <2>1, <2>2, ReaderTypes
  <1>2. CASE ClientNext \/ LinkBreaks \/ Loop \/ Forward \/ Deliver \/ DeliverFails
    BY <1>2 DEF ClientNext, ClientSend, ClientClose, LinkBreaks, Loop, RecvPing, SendPong,
       RecvSkipped, RecvExecute, RecvClose, RecvEnd, Recv, Report, Forward, Deliver,
       DeliverFails, handler
  <1>3. CASE \/ SendStarted \/ Validate \/ Reject \/ CreateWorkspace \/ ReportUncreated
             \/ Spawn \/ WaitReturns \/ DeadlinePasses \/ Kill \/ SendErrors \/ SendDone
             \/ SendFailed \/ Cleanup
    BY <1>3 DEF SendStarted, Validate, Reject, CreateWorkspace, ReportUncreated, Spawn,
       WaitReturns, DeadlinePasses, Kill, SendErrors, SendDone, SendFailed, Cleanup, Report
  <1>4. CASE \/ \E e \in Execs : ProcessStep(e)
             \/ \E e \in Execs, s \in Streams : ReaderStep(e, s)
    BY <1>4 DEF ProcessStep, StartHelper, HelperExits, ChildExits, WriteLine, ReaderStep,
       ReadLine, SendLine, SendNotice, ReadEof, ReadUndecoded, StopReader, handler
  <1>5. CASE UNCHANGED vars
    BY <1>5 DEF vars, handler
  <1>. QED BY <1>1, <1>2, <1>3, <1>4, <1>5 DEF Next, HandleExecute

\* What leaves the outcome, the process and the pipes alone leaves ReaderInv.
LEMMA ReaderSame ==
  ASSUME ReaderInv, UNCHANGED <<outcome, child, written, readers>>
  PROVE  ReaderInv'
  BY DEF ReaderInv, readers

\* The reader tasks start with the process, are aborted with the deadline, and
\* have ended when Collect succeeds.
LEMMA ReaderHandler ==
  ASSUME RunInv, ReaderInv, HandleExecute \/ WaitFails
  PROVE  ReaderInv'
  <1>1. CASE Spawn
    <2>1. exec \in Execs /\ outcome[exec] = "none"
      BY <1>1 DEF Spawn, Goto, RunInv, SafeInv, PhaseInv
    <2>2. /\ child' = [child EXCEPT ![exec] = "running"]
          /\ reader' = [q \in Pipes |-> IF q[1] = exec THEN "reading" ELSE reader[q]]
          /\ UNCHANGED <<outcome, written, taken, aborted>>
      BY <1>1 DEF Spawn
    <2>3. ~aborted[exec]
      BY <2>1 DEF ReaderInv
    <2>4. \A e \in Execs, s \in Streams :
            reader'[<<e, s>>] = IF e = exec THEN "reading" ELSE reader[<<e, s>>]
      BY <2>2 DEF Pipes
    <2>5. \A e \in Execs : child'[e] = IF e = exec THEN "running" ELSE child[e]
      BY <2>2, ReaderTypes
    <2>. QED BY <2>1, <2>2, <2>3, <2>4, <2>5 DEF ReaderInv
  <1>2. CASE SpawnFails \/ WaitFails \/ AbortReaders \/ Collect
    <2>1. exec \in Execs /\ outcome[exec] = "none"
      BY <1>2 DEF SpawnFails, WaitFails, AbortReaders, Collect, Returns, Goto, RunInv, SafeInv,
         PhaseInv
    <2>2. ~aborted[exec]
      BY <2>1 DEF ReaderInv
    <2>3. /\ UNCHANGED <<child, written, reader, taken>>
          /\ \/ outcome' = [outcome EXCEPT ![exec] = "InternalError"] /\ UNCHANGED aborted
             \/ /\ outcome' = [outcome EXCEPT ![exec] = "Timeout"]
                /\ aborted' = [aborted EXCEPT ![exec] = TRUE]
             \/ /\ outcome' = [outcome EXCEPT ![exec] = "ok"] /\ UNCHANGED aborted
                /\ \A s \in Streams : reader[<<exec, s>>] \in Stopped
      BY <1>2 DEF SpawnFails, WaitFails, AbortReaders, Collect, Returns, process, readers
    <2>. QED BY <2>1, <2>2, <2>3, ReaderTypes DEF ReaderInv
  <1>3. CASE Kill
    BY <1>3, ReaderTypes DEF Kill, ReaderInv, readers
  <1>4. CASE \/ SendStarted \/ Validate \/ Reject \/ CreateWorkspace \/ ReportUncreated
             \/ WaitReturns \/ DeadlinePasses \/ SendErrors \/ SendDone \/ SendFailed \/ Cleanup
    <2>1. UNCHANGED <<outcome, child, written, readers>>
      BY <1>4 DEF SendStarted, Validate, Reject, CreateWorkspace, ReportUncreated, WaitReturns,
         DeadlinePasses, SendErrors, SendDone, SendFailed, Cleanup, Report, process
    <2>. QED BY <2>1, ReaderSame
  <1>. QED BY <1>1, <1>2, <1>3, <1>4 DEF HandleExecute

\* A line is written only to a task that reads, and read only by one: neither
\* happens to a task that has ended.
LEMMA ReaderPipes ==
  ASSUME RunInv, ReaderInv,
         NEW e \in Execs, ProcessStep(e) \/ \E s \in Streams : ReaderStep(e, s)
  PROVE  ReaderInv'
  <1>0. UNCHANGED outcome
    BY DEF ProcessStep, StartHelper, HelperExits, ChildExits, WriteLine, ReaderStep, ReadLine,
       SendLine, SendNotice, ReadEof, ReadUndecoded, StopReader, handler
  <1>1. CASE StartHelper(e) \/ HelperExits(e)
    BY <1>0, <1>1, ReaderSame DEF StartHelper, HelperExits
  <1>2. CASE ChildExits(e)
    BY <1>0, <1>2, ReaderTypes DEF ChildExits, ReaderInv, readers
  <1>3. ASSUME NEW s \in Streams, WriteLine(e, s) PROVE ReaderInv'
    BY <1>0, <1>3, ReaderTypes DEF WriteLine, ReaderInv, readers, Reading, Pipes
  <1>4. ASSUME NEW s \in Streams, ReadLine(e, s) \/ SendLine(e, s) \/ SendNotice(e, s)
        PROVE  ReaderInv'
    <2>1. reader[<<e, s>>] \in Reading /\ <<e, s>> \in Pipes
      BY <1>4 DEF ReadLine, SendLine, SendNotice, Reading, Pipes
    <2>2. outcome[e] # "ok" /\ child[e] # "none"
      BY <2>1 DEF ReaderInv, Reading, Stopped
    <2>3. /\ UNCHANGED <<child, written, aborted>>
          /\ reader' = [reader EXCEPT ![<<e, s>>] = reader'[<<e, s>>]]
          /\ reader'[<<e, s>>] \in Reading
          /\ \A q \in Pipes : q # <<e, s>> => taken'[q] = taken[q]
      BY <1>4, <2>1, ReaderTypes DEF ReadLine, SendLine, SendNotice, Reading, process
    <2>. QED BY <1>0, <2>1, <2>2, <2>3, ReaderTypes DEF ReaderInv, Reading, Pipes
  <1>5. ASSUME NEW s \in Streams, ReadEof(e, s) \/ ReadUndecoded(e, s) \/ StopReader(e, s)
        PROVE  ReaderInv'
    <2>1. reader[<<e, s>>] \in Reading /\ <<e, s>> \in Pipes
      BY <1>5 DEF ReadEof, ReadUndecoded, StopReader, Reading, Pipes
    <2>2. outcome[e] # "ok" /\ child[e] # "none"
      BY <2>1 DEF ReaderInv, Reading, Stopped
    <2>3. UNCHANGED <<child, written, taken, aborted>>
      BY <1>5 DEF ReadEof, ReadUndecoded, StopReader, process
    <2>4. PICK end \in Stopped :
            /\ reader' = [reader EXCEPT ![<<e, s>>] = end]
            /\ end = "ended" /\ ~aborted[e] => taken[<<e, s>>] = written[<<e, s>>]
      BY <1>5 DEF ReadEof, ReadUndecoded, StopReader, Stopped
    <2>. QED BY <1>0, <2>1, <2>2, <2>3, <2>4, ReaderTypes DEF ReaderInv, Pipes
  <1>. QED BY <1>1, <1>2, <1>3, <1>4, <1>5 DEF ProcessStep, ReaderStep

\* Every step keeps what is known of the reader tasks.
LEMMA ReaderKept == RunInv /\ ReaderInv /\ [Next]_vars => ReaderInv'
  <1>. SUFFICES ASSUME RunInv, ReaderInv, [Next]_vars PROVE ReaderInv'
    OBVIOUS
  <1>1. CASE \/ ClientNext \/ LinkBreaks \/ Loop \/ Forward \/ Deliver \/ DeliverFails
             \/ UNCHANGED vars
    <2>1. UNCHANGED <<outcome, child, written, readers>>
      BY <1>1 DEF ClientNext, ClientSend, ClientClose, LinkBreaks, Loop, RecvPing, SendPong,
         RecvSkipped, RecvExecute, RecvClose, RecvEnd, Recv, Report, Forward, Deliver,
         DeliverFails, handler, process, vars
    <2>. QED BY <2>1, ReaderSame
  <1>. QED BY <1>1, ReaderHandler, ReaderPipes DEF Next

\* Nothing changes the outcome, the pipes or the reader tasks of an execution
\* that has succeeded.
LEMMA Frozen ==
  ASSUME RunInv, ReaderInv, [Next]_vars, NEW e \in Execs, outcome[e] = "ok"
  PROVE  /\ outcome'[e] = "ok"
         /\ \A s \in Streams : /\ written'[<<e, s>>] = written[<<e, s>>]
                               /\ reader'[<<e, s>>] = reader[<<e, s>>]
                               /\ taken'[<<e, s>>] = taken[<<e, s>>]
  <1>1. outcome'[e] = "ok"
    BY OutcomeStep, ReaderTypes
  <1>2. \A s \in Streams : reader[<<e, s>>] \in Stopped /\ <<e, s>> \in Pipes
    BY DEF ReaderInv, Pipes
  <1>3. CASE UNCHANGED <<written, reader, taken>>
    BY <1>1, <1>3
  <1>4. CASE Spawn
    <2>1. exec # e
      BY <1>4 DEF Spawn, Goto, RunInv, SafeInv, PhaseInv
    <2>2. /\ reader' = [q \in Pipes |-> IF q[1] = exec THEN "reading" ELSE reader[q]]
          /\ UNCHANGED <<written, taken>>
      BY <1>4 DEF Spawn
    <2>3. \A s \in Streams : reader'[<<e, s>>] = reader[<<e, s>>]
      BY <1>2, <2>1, <2>2
    <2>. QED BY <1>1, <2>2, <2>3
  <1>5. ASSUME NEW f \in Execs, NEW s \in Streams, WriteLine(f, s)
        PROVE  \A q \in Streams : /\ written'[<<e, q>>] = written[<<e, q>>]
                                  /\ reader'[<<e, q>>] = reader[<<e, q>>]
                                  /\ taken'[<<e, q>>] = taken[<<e, q>>]
    BY <1>2, <1>5, ReaderTypes DEF WriteLine, readers, Reading, Stopped
  <1>6. ASSUME NEW f \in Execs, NEW s \in Streams, ReaderStep(f, s)
        PROVE  \A q \in Streams : /\ written'[<<e, q>>] = written[<<e, q>>]
                                  /\ reader'[<<e, q>>] = reader[<<e, q>>]
                                  /\ taken'[<<e, q>>] = taken[<<e, q>>]
    <2>1. reader[<<f, s>>] \in Reading /\ UNCHANGED written
      BY <1>6 DEF ReaderStep, ReadLine, SendLine, SendNotice, ReadEof, ReadUndecoded,
         StopReader, Reading, process
    <2>2. PICK v : reader' = [reader EXCEPT ![<<f, s>>] = v]
      BY <1>6 DEF ReaderStep, ReadLine, SendLine, SendNotice, ReadEof, ReadUndecoded, StopReader
    <2>3. taken' = taken \/ taken' = [taken EXCEPT ![<<f, s>>] = @ + 1]
      BY <1>6 DEF ReaderStep, ReadLine, SendLine, SendNotice, ReadEof, ReadUndecoded, StopReader
    <2>4. \A q \in Streams : <<e, q>> # <<f, s>>
      BY <1>2, <2>1 DEF Reading, Stopped
    <2>. QED BY <1>2, <2>1, <2>2, <2>3, <2>4, ReaderTypes
  <1>7. CASE \/ ClientNext \/ LinkBreaks \/ Loop \/ Forward \/ Deliver \/ DeliverFails
             \/ UNCHANGED vars
    <2>1. UNCHANGED <<written, reader, taken>>
      BY <1>7 DEF ClientNext, ClientSend, ClientClose, LinkBreaks, Loop, RecvPing, SendPong,
         RecvSkipped, RecvExecute, RecvClose, RecvEnd, Recv, Report, Forward, Deliver,
         DeliverFails, process, readers, vars
    <2>. QED BY <1>3, <2>1
  <1>8. CASE (HandleExecute \/ WaitFails) /\ ~Spawn
    <2>1. UNCHANGED <<written, reader, taken>>
      BY <1>8 DEF HandleExecute, SendStarted, Validate, Reject, CreateWorkspace,
         ReportUncreated, SpawnFails, WaitReturns, WaitFails, DeadlinePasses, Kill,
         AbortReaders, Collect, SendErrors, SendDone, SendFailed, Cleanup, Report, process,
         readers
    <2>. QED BY <1>3, <2>1
  <1>9. ASSUME NEW f \in Execs, StartHelper(f) \/ HelperExits(f) \/ ChildExits(f)
        PROVE  UNCHANGED <<written, reader, taken>>
    BY <1>9 DEF StartHelper, HelperExits, ChildExits, readers
  <1>. QED BY <1>1, <1>3, <1>4, <1>5, <1>6, <1>7, <1>8, <1>9 DEF Next, ProcessStep

-----------------------------------------------------------------------------
(* The lines. *)

\* While the socket is up what is in the flow stays where it is.
LEMMA FlowKept ==
  ASSUME TypeInv, LinkInv, [Next]_vars, link' = "up"
  PROVE  \A j \in 1..Len(Flow) : j \in 1..Len(Flow') /\ Flow'[j] = Flow[j]
  <1>1. Flow \in Seq(Message)
    BY FlowTypes
  <1>2. CASE Flow' = Flow
    BY <1>1, <1>2
  <1>3. ASSUME NEW m, Grows(m)
        PROVE  \A j \in 1..Len(Flow) : j \in 1..Len(Flow') /\ Flow'[j] = Flow[j]
    BY <1>1, <1>3 DEF Grows
  <1>. QED BY <1>2, <1>3, FlowStep DEF FlowMoves

\* A line that has to be in the flow after a step had to be there before, or is
\* the one that the step sends.
LEMMA ToSendStep ==
  ASSUME RunInv, ReaderInv, [Next]_vars, NEW e \in Execs, NEW s \in Streams, NEW n \in 1..MaxLines,
         ToSend(e, s, n)'
  PROVE  ToSend(e, s, n) \/ (SendLine(e, s) /\ n = taken[<<e, s>>])
  <1>0. <<e, s>> \in Pipes /\ taken[<<e, s>>] \in Nat /\ n \in Nat /\ Cap \in Nat
    <2>1. <<e, s>> \in Pipes
      BY DEF Pipes
    <2>2. taken[<<e, s>>] \in 0..MaxLines
      BY <2>1, ReaderTypes
    <2>. QED BY <2>1, <2>2, CapType
  <1>1. CASE UNCHANGED <<reader, taken, aborted>>
    BY <1>1 DEF ToSend
  <1>2. CASE Spawn
    <2>1. exec \in Execs /\ child[exec] = "none"
      BY <1>2 DEF Spawn, Goto, RunInv, SafeInv, PhaseInv
    <2>2. UNCHANGED <<taken, aborted>>
      BY <1>2 DEF Spawn
    <2>3. CASE e = exec
      <3>1. reader[<<e, s>>] = "off"
        BY <2>1, <2>3 DEF ReaderInv
      <3>. QED BY <2>2, <3>1 DEF ToSend
    <2>4. CASE e # exec
      <3>1. reader' = [q \in Pipes |-> IF q[1] = exec THEN "reading" ELSE reader[q]]
        BY <1>2 DEF Spawn
      <3>2. reader'[<<e, s>>] = reader[<<e, s>>]
        BY <1>0, <2>4, <3>1
      <3>. QED BY <2>2, <3>2 DEF ToSend
    <2>. QED BY <2>3, <2>4
  <1>3. CASE AbortReaders
    <2>1. UNCHANGED <<reader, taken>> /\ aborted' = [aborted EXCEPT ![exec] = TRUE]
      BY <1>3 DEF AbortReaders
    <2>2. ~aborted'[e] => ~aborted[e]
      BY <2>1, ReaderTypes
    <2>. QED BY <2>1, <2>2 DEF ToSend
  <1>4. ASSUME NEW f \in Execs, NEW q \in Streams, ReaderStep(f, q), <<f, q>> # <<e, s>>
        PROVE  ToSend(e, s, n)
    <2>1. /\ reader'[<<e, s>>] = reader[<<e, s>>] /\ taken'[<<e, s>>] = taken[<<e, s>>]
          /\ aborted' = aborted
      BY <1>0, <1>4, ReaderTypes DEF ReaderStep, ReadLine, SendLine, SendNotice, ReadEof,
         ReadUndecoded, StopReader
    <2>. QED BY <2>1 DEF ToSend
  <1>5. CASE ReadLine(e, s)
    <2>1. /\ reader[<<e, s>>] = "reading" /\ aborted' = aborted
          /\ taken'[<<e, s>>] = taken[<<e, s>>] + 1
          /\ taken[<<e, s>>] < Cap => reader'[<<e, s>>] = "sending"
      BY <1>0, <1>5, ReaderTypes DEF ReadLine
    <2>. QED BY <1>0, <2>1 DEF ToSend
  <1>6. CASE SendLine(e, s)
    <2>1. taken' = taken /\ aborted' = aborted
      BY <1>6 DEF SendLine
    <2>. QED BY <1>6, <2>1 DEF ToSend
  <1>7. CASE SendNotice(e, s) \/ ReadEof(e, s) \/ ReadUndecoded(e, s)
    <2>1. reader[<<e, s>>] # "sending" /\ taken' = taken /\ aborted' = aborted
      BY <1>7 DEF SendNotice, ReadEof, ReadUndecoded
    <2>. QED BY <2>1 DEF ToSend
  <1>8. CASE StopReader(e, s)
    BY <1>8 DEF StopReader, ToSend
  <1>9. CASE \/ ClientNext \/ LinkBreaks \/ Loop \/ Forward \/ Deliver \/ DeliverFails
             \/ UNCHANGED vars
    <2>1. UNCHANGED <<reader, taken, aborted>>
      BY <1>9 DEF ClientNext, ClientSend, ClientClose, LinkBreaks, Loop, RecvPing, SendPong,
         RecvSkipped, RecvExecute, RecvClose, RecvEnd, Recv, Report, Forward, Deliver,
         DeliverFails, readers, vars
    <2>. QED BY <1>1, <2>1
  <1>10. CASE (HandleExecute \/ WaitFails) /\ ~Spawn /\ ~AbortReaders
    <2>1. UNCHANGED <<reader, taken, aborted>>
      BY <1>10 DEF HandleExecute, SendStarted, Validate, Reject, CreateWorkspace,
         ReportUncreated, SpawnFails, WaitReturns, WaitFails, DeadlinePasses, Kill,
         Collect, SendErrors, SendDone, SendFailed, Cleanup, Report, readers
    <2>. QED BY <1>1, <2>1
  <1>11. ASSUME NEW f \in Execs, ProcessStep(f) PROVE UNCHANGED <<reader, taken, aborted>>
    BY <1>11 DEF ProcessStep, StartHelper, HelperExits, ChildExits, WriteLine, readers
  <1>. QED BY <1>1, <1>2, <1>3, <1>4, <1>5, <1>6, <1>7, <1>8, <1>9, <1>10, <1>11
           DEF Next, ReaderStep

\* Every line that had to be sent stays in the flow.
LEMMA LinesKept ==
  RunInv /\ LinkInv /\ ReaderInv /\ LinesSent /\ [Next]_vars => LinesSent'
  <1>. SUFFICES ASSUME RunInv, LinkInv, ReaderInv, LinesSent, [Next]_vars, link' = "up",
                       NEW e \in Execs, NEW s \in Streams, NEW n \in 1..MaxLines,
                       ToSend(e, s, n)'
                PROVE  \E j \in 1..Len(Flow') : Flow'[j] = Line(s, e, n)
    BY DEF LinesSent
  <1>1. link = "up" /\ TypeInv
    BY LinkDown DEF RunInv
  <1>2. CASE ToSend(e, s, n)
    <2>1. PICK j \in 1..Len(Flow) : Flow[j] = Line(s, e, n)
      BY <1>1, <1>2 DEF LinesSent
    <2>. QED BY <1>1, <2>1, FlowKept
  <1>3. CASE SendLine(e, s) /\ n = taken[<<e, s>>]
    <2>1. taken[<<e, s>>] \in 0..MaxLines
      BY ReaderTypes DEF Pipes
    <2>. DEFINE m == Line(s, e, taken[<<e, s>>])
    <2>2. m \in Message
      BY <2>1, LineType
    <2>3. Send(m) /\ UNCHANGED client
      BY <1>3 DEF SendLine
    <2>. HIDE DEF m
    <2>4. Flow' = Append(Flow, m) /\ Flow \in Seq(Message) /\ Len(Flow) \in Nat
      BY <1>1, <2>2, <2>3, FlowSend, FlowTypes
    <2>5. Len(Flow) + 1 \in 1..Len(Flow') /\ Flow'[Len(Flow) + 1] = m
      BY <2>4
    <2>. QED BY <1>3, <2>5 DEF m
  <1>. QED BY <1>2, <1>3, ToSendStep

-----------------------------------------------------------------------------
(* Done. *)

\* A Done message that is in the flow keeps its lines before it.
LEMMA DoneOld ==
  ASSUME RunInv, ReaderInv, DoneLast, [Next]_vars, NEW i \in 1..Len(Flow),
         Flow[i].type = "done", \A j \in 1..i : Flow'[j] = Flow[j]
  PROVE  /\ Flow'[i].exec \in Execs /\ outcome'[Flow'[i].exec] = "ok"
         /\ \A s \in Streams, n \in 1..MaxLines :
              n <= Cap /\ n <= written'[<<Flow'[i].exec, s>>] =>
                LineBefore(i, s, n)' \/ Unread(Flow[i].exec, s, n)'
  <1>0. i \in 1..i /\ \A j \in 1..(i - 1) : j \in 1..i
    OBVIOUS
  <1>1. Flow'[i] = Flow[i] /\ \A j \in 1..(i - 1) : Flow'[j] = Flow[j]
    BY <1>0
  <1>2. Flow[i].exec \in Execs /\ outcome[Flow[i].exec] = "ok"
    BY DEF DoneLast
  <1>3. /\ outcome'[Flow[i].exec] = "ok"
        /\ \A s \in Streams : /\ written'[<<Flow[i].exec, s>>] = written[<<Flow[i].exec, s>>]
                              /\ reader'[<<Flow[i].exec, s>>] = reader[<<Flow[i].exec, s>>]
                              /\ taken'[<<Flow[i].exec, s>>] = taken[<<Flow[i].exec, s>>]
    BY <1>2, Frozen
  <1>4. \A s \in Streams, n \in 1..MaxLines : LineBefore(i, s, n) => LineBefore(i, s, n)'
    BY <1>1 DEF LineBefore
  <1>5. \A s \in Streams, n \in 1..MaxLines :
          n <= Cap /\ n <= written[<<Flow[i].exec, s>>] =>
            LineBefore(i, s, n) \/ Unread(Flow[i].exec, s, n)
    BY DEF DoneLast
  <1>6. \A s \in Streams, n \in 1..MaxLines :
          Unread(Flow[i].exec, s, n) => Unread(Flow[i].exec, s, n)'
    BY <1>1, <1>3 DEF Unread
  <1>. QED BY <1>1, <1>2, <1>3, <1>4, <1>5, <1>6

\* Done is sent when the reader tasks have ended, so when every line below the
\* cap has been sent.
LEMMA DoneNew ==
  ASSUME RunInv, ReaderInv, LinesSent, [Next]_vars, SendDone, link = "up",
         NEW i, i = Len(Flow) + 1, Len(Flow) \in Nat,
         \A j \in 1..Len(Flow) : Flow'[j] = Flow[j],
         Flow'[i] = Msg("done", exec)
  PROVE  /\ Flow'[i].exec \in Execs /\ outcome'[Flow'[i].exec] = "ok"
         /\ \A s \in Streams, n \in 1..MaxLines :
              n <= Cap /\ n <= written'[<<Flow'[i].exec, s>>] =>
                LineBefore(i, s, n)' \/ Unread(Flow[i].exec, s, n)'
  <1>1. exec \in Execs /\ outcome[exec] = "ok"
    BY DEF SendDone, RunInv, SafeInv, PhaseInv
  <1>2. Flow'[i].exec = exec
    BY DEF Msg
  <1>3. /\ outcome'[exec] = "ok"
        /\ \A s \in Streams : /\ written'[<<exec, s>>] = written[<<exec, s>>]
                              /\ reader'[<<exec, s>>] = reader[<<exec, s>>]
                              /\ taken'[<<exec, s>>] = taken[<<exec, s>>]
    BY <1>1, Frozen
  <1>4. ~aborted[exec] /\ \A s \in Streams : reader[<<exec, s>>] \in Stopped
    BY <1>1 DEF ReaderInv
  <1>5. ASSUME NEW s \in Streams, NEW n \in 1..MaxLines,
               n <= Cap, n <= written[<<exec, s>>], ~Unread(exec, s, n)
        PROVE  LineBefore(i, s, n)'
    <2>1. reader[<<exec, s>>] \in Stopped /\ taken[<<exec, s>>] \in 0..MaxLines
      BY <1>1, <1>4, <1>5, ReaderTypes DEF Pipes, RunInv
    <2>2. n <= taken[<<exec, s>>]
      <3>1. CASE reader[<<exec, s>>] = "ended"
        BY <1>1, <1>4, <1>5, <3>1 DEF ReaderInv
      <3>2. CASE reader[<<exec, s>>] = "undecoded"
        BY <1>5, <2>1, <3>2 DEF Unread
      <3>. QED BY <2>1, <3>1, <3>2 DEF Stopped
    <2>3. ToSend(exec, s, n)
      BY <1>4, <1>5, <2>1, <2>2 DEF ToSend, Stopped
    <2>4. PICK j \in 1..Len(Flow) : Flow[j] = Line(s, exec, n)
      BY <1>1, <2>3 DEF LinesSent
    <2>5. j \in 1..(i - 1) /\ Flow'[j] = Line(s, exec, n)
      BY <2>4
    <2>. QED BY <1>2, <2>5 DEF LineBefore
  <1>6. \A s \in Streams, n \in 1..MaxLines :
          Unread(exec, s, n) => Unread(Flow[i].exec, s, n)'
    BY <1>2, <1>3 DEF Unread
  <1>. QED BY <1>1, <1>2, <1>3, <1>5, <1>6

\* Every Done in the flow has its lines before it, whatever the step.
LEMMA DoneKept == OutputInv /\ [Next]_vars => DoneLast'
  <1>. SUFFICES ASSUME OutputInv, [Next]_vars, NEW i \in 1..Len(Flow'), Flow'[i].type = "done"
                PROVE  /\ Flow'[i].exec \in Execs /\ outcome'[Flow'[i].exec] = "ok"
                       /\ \A s \in Streams, n \in 1..MaxLines :
                            n <= Cap /\ n <= written'[<<Flow'[i].exec, s>>] =>
                              LineBefore(i, s, n)' \/ Unread(Flow[i].exec, s, n)'
    BY DEF DoneLast
  <1>1. /\ RunInv /\ TypeInv /\ LinkInv /\ ReaderInv /\ LinesSent /\ DoneLast
        /\ Flow \in Seq(Message) /\ Len(Flow) \in Nat
    BY FlowTypes DEF OutputInv, RunInv
  <1>2. CASE i \in 1..Len(Flow) /\ \A j \in 1..i : Flow'[j] = Flow[j]
    BY <1>1, <1>2, DoneOld
  <1>3. CASE Flow' = Flow
    BY <1>2, <1>3
  <1>4. ASSUME NEW m, Grows(m)
        PROVE  /\ i \in 1..Len(Flow) => \A j \in 1..i : Flow'[j] = Flow[j]
               /\ i \notin 1..Len(Flow) => i = Len(Flow) + 1 /\ Flow'[i] = m
               /\ \A j \in 1..Len(Flow) : Flow'[j] = Flow[j]
    BY <1>1, <1>4 DEF Grows
  <1>5. ASSUME NEW m \in Message, Sends(m), Grows(m), i \notin 1..Len(Flow)
        PROVE  SendDone /\ Grows(Msg("done", exec))
    <2>1. m.type = "done"
      BY <1>4, <1>5
    <2>. QED BY <1>1, <1>5, <2>1, SendsDone
  <1>6. CASE SendDone /\ Grows(Msg("done", exec)) /\ i \notin 1..Len(Flow)
    <2>1. /\ i = Len(Flow) + 1 /\ Flow'[i] = Msg("done", exec)
          /\ \A j \in 1..Len(Flow) : Flow'[j] = Flow[j]
      BY <1>4, <1>6
    <2>2. link = "up"
      BY <1>6 DEF Grows
    <2>. QED BY <1>1, <1>6, <2>1, <2>2, DoneNew
  <1>7. ASSUME NEW m \in Message, Grows(m), i \in 1..Len(Flow)
        PROVE  \A j \in 1..i : Flow'[j] = Flow[j]
    BY <1>4, <1>7
  <1>8. CASE Flow' = received
    <2>1. /\ Len(received) \in Nat /\ Len(received) <= Len(Flow)
          /\ \A j \in 1..Len(received) : Flow[j] = received[j]
      BY <1>1, FlowTypes
    <2>. QED BY <1>1, <1>2, <1>8, <2>1
  <1>. QED BY <1>1, <1>2, <1>3, <1>5, <1>6, <1>7, <1>8, FlowStep DEF FlowMoves

-----------------------------------------------------------------------------
(* The theorem. *)

\* At the start nothing is in the flow and no task reads.
LEMMA InitOutput == Init => OutputInv
  <1>. SUFFICES ASSUME Init PROVE OutputInv
    OBVIOUS
  <1>1. RunInv
    BY InitType DEF Init, RunInv, OrderInv, SafeInv, FreshInv, PhaseInv, ReportedDead,
       DirOutlivesChild
  <1>2. LinkInv
    BY DEF Init, LinkInv
  <1>3. ReaderInv
    BY DEF Init, ReaderInv, Pipes
  <1>4. LinesSent
    <2>1. \A e \in Execs, s \in Streams, n \in 1..MaxLines : ~ToSend(e, s, n)
      BY BoundsType DEF Init, ToSend, Pipes
    <2>. QED BY <2>1 DEF LinesSent
  <1>5. Flow = <<>>
    BY DEF Init, Flow
  <1>6. DoneLast
    BY <1>5 DEF DoneLast
  <1>. QED BY <1>1, <1>2, <1>3, <1>4, <1>6 DEF OutputInv

\* Every step keeps the inductive invariant.
LEMMA NextOutput == OutputInv /\ [Next]_vars => OutputInv'
  <1>. SUFFICES ASSUME OutputInv, [Next]_vars PROVE OutputInv'
    OBVIOUS
  <1>1. RunInv /\ TypeInv /\ LinkInv /\ ReaderInv /\ LinesSent
    BY DEF OutputInv, RunInv
  <1>2. RunInv'
    BY <1>1, NextRun
  <1>3. LinkInv'
    BY <1>1, LinkStep
  <1>4. ReaderInv'
    BY <1>1, ReaderKept
  <1>5. LinesSent'
    BY <1>1, LinesKept
  <1>6. DoneLast'
    BY DoneKept
  <1>. QED BY <1>2, <1>3, <1>4, <1>5, <1>6 DEF OutputInv

\* What the client has received is the beginning of the flow.
LEMMA OutputSafe == OutputInv => OutputComplete
  <1>. SUFFICES ASSUME OutputInv, NEW i \in DOMAIN received, received[i].type = "done",
                       NEW s \in Streams, NEW n \in 1..MaxLines,
                       n <= Cap, n <= written[<<received[i].exec, s>>],
                       ~Unread(received[i].exec, s, n)
                PROVE  LineReceived(i, s, n)
    BY DEF OutputComplete
  <1>1. /\ received \in Seq(Message) /\ Len(Flow) \in Nat
        /\ Len(received) \in Nat /\ Len(received) <= Len(Flow)
        /\ \A j \in 1..Len(received) : Flow[j] = received[j]
    BY FlowTypes DEF OutputInv, RunInv
  <1>2. i \in 1..Len(received) /\ i \in 1..Len(Flow) /\ Flow[i] = received[i]
    BY <1>1
  <1>3. LineBefore(i, s, n)
    BY <1>2 DEF OutputInv, DoneLast
  <1>4. PICK j \in 1..(i - 1) : Flow[j] = Line(s, Flow[i].exec, n)
    BY <1>3 DEF LineBefore
  <1>5. received[j] = Line(s, received[i].exec, n)
    BY <1>1, <1>2, <1>4
  <1>. QED BY <1>4, <1>5 DEF LineReceived

\* A client that learns that an execution is done has every line it wrote below
\* the cap, on either stream, whatever the channel holds and however the tasks
\* of the server interleave; a line that is not UTF-8 is the one exception, with
\* what follows it.
THEOREM OutputCompleteCorrect == Spec => []OutputComplete
  BY InitOutput, NextOutput, OutputSafe, PTL DEF Spec

-----------------------------------------------------------------------------
(* The stream. *)

(* The guards of CommandStream, of any stream q. *)

Has(q, type, e)     == \E i \in 1..Len(q) : q[i].type = type /\ q[i].exec = e
HasLine(q, s, e, n) == \E i \in 1..Len(q) : q[i] = Line(s, e, n)

Final         == Reasons \cup {"done"}
Open(q, e)    == Has(q, "started", e) /\ \A t \in Final : ~Has(q, t, e)
Running(q, e) ==
  Has(q, "started", e) /\ \A t \in {"errors", "done", "ValidationError"} : ~Has(q, t, e)

MayPong(q, m) == m = Msg("pong", 0) /\ \A e \in Execs : ~Open(q, e)

MayStart(q, m, e) ==
  /\ m = Msg("started", e)
  /\ \A f \in Execs : ~Open(q, f)
  /\ \A f \in e..MaxSends : ~Has(q, "started", f)

MayOutput(q, m, e, s, n) ==
  /\ m = Line(s, e, n)
  /\ Running(q, e)
  /\ n <= Cap
  /\ n > 1 => HasLine(q, s, e, n - 1)
  /\ ~HasLine(q, s, e, n)

MayTruncate(q, m, e, s) ==
  /\ m = Msg(Notice[s], e)
  /\ Running(q, e)
  /\ HasLine(q, s, e, Cap)
  /\ ~Has(q, Notice[s], e)

MayErr(q, m, e) ==
  /\ m = Msg("errors", e)
  /\ Open(q, e)
  /\ \E s \in Streams : HasLine(q, s, e, 1)
  /\ ~Has(q, "errors", e)

MayEnd(q, m, e, t) ==
  /\ m = Msg(t, e)
  /\ Open(q, e)
  /\ t # "done" => ~Has(q, "errors", e)
  /\ t = "ValidationError" => \A s \in Streams : ~HasLine(q, s, e, 1)

May(q, m) ==
  \/ MayPong(q, m)
  \/ \E e \in Execs :
       \/ MayStart(q, m, e) \/ MayErr(q, m, e)
       \/ \E t \in Final : MayEnd(q, m, e, t)
       \/ \E s \in Streams : \/ MayTruncate(q, m, e, s)
                             \/ \E n \in 1..MaxLines : MayOutput(q, m, e, s, n)

\* Every message is one that those before it allow.
Legal(q) == \A i \in 1..Len(q) : May(SubSeq(q, 1, i - 1), q[i])

-----------------------------------------------------------------------------
(* Streams. *)

\* The operators of CommandStream, as of the messages received.
LEMMA StreamOperators ==
  ASSUME received \in Seq(Message)
  PROVE  /\ \A t, e : S!Has(t, e) <=> Has(received, t, e)
         /\ \A s, e, n : S!HasLine(s, e, n) <=> HasLine(received, s, e, n)
         /\ \A e : S!Open(e) <=> Open(received, e)
         /\ \A e : S!Running(e) <=> Running(received, e)
  <1>0. DOMAIN received = 1..Len(received)
    OBVIOUS
  <1>1. \A t, e : S!Has(t, e) <=> Has(received, t, e)
    BY <1>0 DEF S!Has, Has
  <1>2. \A s, e, n : S!HasLine(s, e, n) <=> HasLine(received, s, e, n)
    BY <1>0 DEF S!HasLine, HasLine, Line
  <1>3. \A e : S!Open(e) <=> Open(received, e)
    BY <1>1 DEF S!Open, S!Began, S!Ended, S!Failed, S!Reasons, Open, Final, Reasons
  <1>4. \A e : S!Running(e) <=> Running(received, e)
    BY <1>1 DEF S!Running, S!Began, Running
  <1>. QED BY <1>1, <1>2, <1>3, <1>4

\* To receive a message that is allowed is a step of CommandStream.
LEMMA MayIsStep ==
  ASSUME received \in Seq(Message), NEW m, May(received, m), received' = Append(received, m)
  PROVE  S!Next
  <1>1. ASSUME MayPong(received, m) PROVE S!Next
    BY <1>1, StreamOperators DEF MayPong, Msg, S!Next, S!Pong, S!See, S!Idle, Execs
  <1>2. ASSUME NEW e \in Execs, MayStart(received, m, e) PROVE S!Next
    <2>1. S!Start(e)
      BY <1>2, StreamOperators DEF MayStart, Msg, S!Start, S!See, S!Idle, S!Began, Execs
    <2>. QED BY <2>1 DEF S!Next, Execs
  <1>3. ASSUME NEW e \in Execs, MayErr(received, m, e) PROVE S!Next
    <2>1. S!Errors(e)
      BY <1>3, StreamOperators DEF MayErr, Msg, S!Errors, S!See, Streams
    <2>. QED BY <2>1 DEF S!Next, Execs
  <1>4. ASSUME NEW e \in Execs, NEW t \in Final, MayEnd(received, m, e, t) PROVE S!Next
    <2>1. CASE t = "done"
      <3>1. S!Done(e)
        BY <1>4, <2>1, StreamOperators DEF MayEnd, Msg, S!Done, S!See
      <3>. QED BY <3>1 DEF S!Next, Execs
    <2>2. CASE t # "done"
      <3>1. t \in S!Reasons
        BY <2>2 DEF Final, Reasons, S!Reasons
      <3>2. S!Fail(e, t)
        BY <1>4, <2>2, StreamOperators DEF MayEnd, Msg, S!Fail, S!See, Streams
      <3>. QED BY <3>1, <3>2 DEF S!Next, Execs
    <2>. QED BY <2>1, <2>2
  <1>5. ASSUME NEW e \in Execs, NEW s \in Streams, MayTruncate(received, m, e, s) PROVE S!Next
    <2>1. S!Truncate(s, Notice[s], e)
      BY <1>5, StreamOperators DEF MayTruncate, Msg, S!Truncate, S!See
    <2>. QED BY <2>1 DEF S!Next, Execs, Streams, Notice
  <1>6. ASSUME NEW e \in Execs, NEW s \in Streams, NEW n \in 1..MaxLines,
               MayOutput(received, m, e, s, n)
        PROVE  S!Next
    <2>1. S!Output(s, e, n)
      BY <1>6, StreamOperators DEF MayOutput, Line, S!Output, S!See
    <2>. QED BY <2>1 DEF S!Next, Execs, Streams
  <1>. QED BY <1>1, <1>2, <1>3, <1>4, <1>5, <1>6 DEF May

\* A stream stays legal with a message that it allows.
LEMMA LegalAppend ==
  ASSUME NEW q \in Seq(Message), NEW m \in Message, Legal(q), May(q, m)
  PROVE  Legal(Append(q, m))
  <1>. DEFINE r == Append(q, m)
  <1>1. /\ r = q \o <<m>> /\ <<m>> \in Seq(Message) /\ Len(q) \in Nat /\ Len(r) = Len(q) + 1
        /\ r[Len(q) + 1] = m /\ \A i \in 1..Len(q) : r[i] = q[i]
    BY AppendProperties, AppendIsConcat
  <1>. HIDE DEF r
  <1>2. ASSUME NEW i \in 1..(Len(q) + 1) PROVE SubSeq(r, 1, i - 1) = SubSeq(q, 1, i - 1)
    <2>1. CASE i = 1
      <3>1. SubSeq(r, 1, 0) = <<>> /\ SubSeq(q, 1, 0) = <<>>
        BY SubSeqEmpty
      <3>. QED BY <2>1, <3>1
    <2>2. CASE i > 1
      <3>1. 1 \in 1..Len(q) /\ i - 1 \in 1..Len(q)
        BY <1>1, <2>2
      <3>. QED BY <1>1, <3>1, SubSeqOfConcat1
    <2>. QED BY <1>1, <2>1, <2>2
  <1>3. May(SubSeq(r, 1, Len(q)), r[Len(q) + 1])
    <2>1. SubSeq(r, 1, (Len(q) + 1) - 1) = SubSeq(q, 1, (Len(q) + 1) - 1)
      BY <1>1, <1>2
    <2>2. (Len(q) + 1) - 1 = Len(q)
      BY <1>1
    <2>3. SubSeq(q, 1, Len(q)) = q
      BY SubSeqFull
    <2>. QED BY <1>1, <2>1, <2>2, <2>3
  <1>4. ASSUME NEW i \in 1..Len(r) PROVE May(SubSeq(r, 1, i - 1), r[i])
    <2>1. CASE i \in 1..Len(q)
      BY <1>1, <1>2, <2>1 DEF Legal
    <2>2. CASE i = Len(q) + 1
      <3>1. i - 1 = Len(q)
        BY <1>1, <2>2
      <3>. QED BY <1>3, <2>2, <3>1
    <2>. QED BY <1>1, <2>1, <2>2
  <1>. QED BY <1>4 DEF Legal, r

\* In a legal stream what comes first allows what comes next.
LEMMA LegalNext ==
  ASSUME NEW p \in Seq(Message), NEW m \in Message, NEW rest \in Seq(Message),
         Legal(p \o (<<m>> \o rest))
  PROVE  May(p, m)
  <1>. DEFINE tail == <<m>> \o rest
              q    == p \o tail
  <1>1. <<m>> \in Seq(Message) /\ Len(<<m>>) = 1 /\ <<m>>[1] = m
    OBVIOUS
  <1>2. tail \in Seq(Message) /\ Len(tail) = 1 + Len(rest) /\ tail[1] = m
    BY <1>1, ConcatProperties
  <1>. HIDE DEF tail
  <1>3. Len(p) \in Nat /\ Len(rest) \in Nat
    OBVIOUS
  <1>4. q \in Seq(Message) /\ Len(q) = Len(p) + Len(tail) /\ q[Len(p) + 1] = m
    <2>1. Len(p) + 1 \in 1..(Len(p) + Len(tail)) /\ ~(Len(p) + 1 <= Len(p))
          /\ Len(p) + 1 - Len(p) = 1
      BY <1>2, <1>3
    <2>2. p \o tail \in Seq(Message) /\ Len(p \o tail) = Len(p) + Len(tail)
      BY <1>2, ConcatProperties
    <2>3. (p \o tail)[Len(p) + 1] = tail[1]
      BY <1>2, <1>3, <2>1
    <2>. QED BY <1>2, <2>2, <2>3
  <1>5. SubSeq(q, 1, Len(p)) = p
    <2>1. CASE Len(p) = 0
      <3>1. p = <<>>
        BY <2>1
      <3>. QED BY <2>1, <3>1, SubSeqEmpty
    <2>2. CASE Len(p) # 0
      <3>1. 1 \in 1..Len(p) /\ Len(p) \in 1..Len(p)
        BY <1>3, <2>2
      <3>. QED BY <1>2, <3>1, SubSeqOfConcat1, SubSeqFull
    <2>. QED BY <2>1, <2>2
  <1>6. Len(p) + 1 \in 1..Len(q) /\ (Len(p) + 1) - 1 = Len(p)
    BY <1>2, <1>3, <1>4
  <1>7. Legal(q)
    BY DEF tail
  <1>. QED BY <1>4, <1>5, <1>6, <1>7 DEF Legal

-----------------------------------------------------------------------------
(* What is in the flow, and where the tasks then are. *)

Seen(t, e)    == Has(Flow, t, e)
Sent(s, e, n) == HasLine(Flow, s, e, n)
Over(e)       == \E t \in Final : Seen(t, e)

Busy == {"validate", "reject", "create", "uncreated", "spawn", "wait", "kill", "abort",
         "collect", "report", "finish"}

\* What the loop and handle_execute have told the client about an execution.
HandlerSeen ==
  \A e \in Execs :
    /\ Over(e) => Seen("started", e)
    /\ Seen("started", e) => e <= exec
    /\ e = exec /\ pc = "start" => ~Seen("started", e)
    /\ e = exec /\ pc \in Busy => Seen("started", e) /\ ~Over(e)
    /\ Seen("started", e) /\ (e # exec \/ pc \in {"recv", "pong", "cleanup"}) => Over(e)

\* Errors are of a success and reported once, a refused request has no process,
\* and a process is of an execution that has started.
ResultSeen ==
  \A e \in Execs :
    /\ Seen("errors", e) => outcome[e] = "ok" /\ ~(e = exec /\ pc = "report")
    /\ Seen("ValidationError", e) => child[e] = "none"
    /\ child[e] # "none" => Seen("started", e)

\* What the place of a reader task says about the lines it has taken.
ReaderShape ==
  \A e \in Execs, s \in Streams :
    /\ reader[<<e, s>>] = "off" => taken[<<e, s>>] = 0
    /\ reader[<<e, s>>] = "sending" => 1 <= taken[<<e, s>>] /\ taken[<<e, s>>] <= Cap
    /\ reader[<<e, s>>] = "noticing" => taken[<<e, s>>] = Cap

\* A line that was taken, and that the task is not just about to send.
Passed(e, s, n) ==
  n <= taken[<<e, s>>] /\ (reader[<<e, s>>] = "sending" => n # taken[<<e, s>>])

\* Of a stream exactly the lines that have passed, up to the cap, are in the
\* flow, and the notice if the task has gone beyond.
StreamSeen(e, s) ==
  /\ \A n \in Nat : Sent(s, e, n) => Passed(e, s, n)
  /\ Seen(Notice[s], e) =>
       taken[<<e, s>>] >= Cap /\ reader[<<e, s>>] \notin {"sending", "noticing"}
  /\ reader[<<e, s>>] \in Reading =>
       \A n \in 1..MaxLines : n <= Cap /\ Passed(e, s, n) => Sent(s, e, n)

LinesSeen == \A e \in Execs, s \in Streams : StreamSeen(e, s)

FlowInv   == link = "up" => HandlerSeen /\ ResultSeen /\ LinesSeen /\ Legal(Flow)
OneByOne  == fwd = "sending" => Len(inflight) = 1
StreamInv == OutputInv /\ ReaderShape /\ OneByOne /\ FlowInv

-----------------------------------------------------------------------------
(* What a step adds. *)

\* The same flow, the same messages.
LEMMA SeenSame ==
  ASSUME Flow' = Flow
  PROVE  /\ \A t, e : Seen(t, e)' <=> Seen(t, e)
         /\ \A s, e, n : Sent(s, e, n)' <=> Sent(s, e, n)
         /\ \A e : Over(e)' <=> Over(e)
  <1>1. \A t, e : Seen(t, e)' <=> Seen(t, e)
    BY DEF Seen, Has
  <1>2. \A s, e, n : Sent(s, e, n)' <=> Sent(s, e, n)
    BY DEF Sent, HasLine, Line
  <1>. QED BY <1>1, <1>2 DEF Over

\* With one more message, that one.
LEMMA SeenGrown ==
  ASSUME TypeInv, NEW m \in Message, Grows(m)
  PROVE  /\ \A t, e : Seen(t, e)' <=> Seen(t, e) \/ (m.type = t /\ m.exec = e)
         /\ \A s, e, n : Sent(s, e, n)' <=> Sent(s, e, n) \/ m = Line(s, e, n)
         /\ \A e : Over(e)' <=> Over(e) \/ (m.type \in Final /\ m.exec = e)
  <1>1. /\ Len(Flow) \in Nat /\ Len(Flow') = Len(Flow) + 1 /\ Flow'[Len(Flow) + 1] = m
        /\ \A i \in 1..Len(Flow) : Flow'[i] = Flow[i]
    <2>1. Flow \in Seq(Message) /\ Flow' = Append(Flow, m)
      BY FlowTypes DEF Grows
    <2>. QED BY <2>1
  <1>2. \A i \in 1..Len(Flow') : i \in 1..Len(Flow) \/ i = Len(Flow) + 1
    BY <1>1
  <1>3. \A i \in 1..Len(Flow) : i \in 1..Len(Flow')
    BY <1>1
  <1>4. Len(Flow) + 1 \in 1..Len(Flow')
    BY <1>1
  <1>5. \A t, e : Seen(t, e)' <=> Seen(t, e) \/ (m.type = t /\ m.exec = e)
    BY <1>1, <1>2, <1>3, <1>4 DEF Seen, Has
  <1>6. \A s, e, n : Sent(s, e, n)' <=> Sent(s, e, n) \/ m = Line(s, e, n)
    BY <1>1, <1>2, <1>3, <1>4 DEF Sent, HasLine, Line
  <1>7. \A e : Over(e)' <=> Over(e) \/ (m.type \in Final /\ m.exec = e)
    BY <1>5 DEF Over
  <1>. QED BY <1>5, <1>6, <1>7

\* The fields of a message tell what it is.
LEMMA MsgFields ==
  /\ \A t, e : Msg(t, e).type = t /\ Msg(t, e).exec = e
  /\ \A s, e, n : Line(s, e, n).type = s /\ Line(s, e, n).exec = e /\ Line(s, e, n).line = n
  BY DEF Msg, Line

\* The numbers of executions can be compared.
LEMMA ExecNumbers ==
  ASSUME RunInv
  PROVE  exec \in Nat /\ Execs \subseteq Nat
  BY Counters DEF RunInv, Execs

\* The places where a step of handle_execute leaves the task.
LEMMA QuietPlaces ==
  ASSUME QuietHandler
  PROVE  /\ exec' = exec
         /\ pc \in Busy \cup {"cleanup"}
         /\ pc = "cleanup" => pc' = "recv"
         /\ pc # "cleanup" => pc' \in Busy
  BY DEF QuietHandler, Validate, CreateWorkspace, Spawn, SpawnFails, WaitReturns, WaitFails,
     DeadlinePasses, Kill, AbortReaders, Collect, Cleanup, Returns, Goto, Busy

\* All other quiet steps that do not read the inbox leave the handler alone.
LEMMA QuietOthers ==
  ASSUME Quiet, ~QuietHandler, ~RecvPing, ~RecvSkipped, ~RecvExecute
  PROVE  /\ UNCHANGED <<pc, exec, outcome>>
         /\ child' = child \/ \E e \in Execs : ChildExits(e)
  BY DEF Quiet, ClientNext, ClientSend, ClientClose, LinkBreaks, Forward, Deliver, DeliverFails,
     ProcessStep, StartHelper, HelperExits, ChildExits, WriteLine, QuietReader, ReadLine, ReadEof,
     ReadUndecoded, StopReader, handler, process, vars

-----------------------------------------------------------------------------
(* The handler. *)

\* Steps that send nothing: where the task goes agrees with what was told.
LEMMA HandlerQuiet ==
  ASSUME RunInv, HandlerSeen, Quiet, Flow' = Flow
  PROVE  HandlerSeen'
  <1>0. /\ \A e : Seen("started", e)' <=> Seen("started", e)
        /\ \A e : Over(e)' <=> Over(e)
    BY SeenSame
  <1>1. CASE UNCHANGED <<pc, exec>>
    BY <1>0, <1>1 DEF HandlerSeen
  <1>2. CASE RecvPing \/ RecvSkipped
    BY <1>0, <1>2 DEF RecvPing, RecvSkipped, Recv, HandlerSeen, Busy
  <1>3. CASE RecvExecute
    <2>1. pc = "recv" /\ pc' = "start"
      BY <1>3 DEF RecvExecute, Recv
    <2>2. exec' \in Execs /\ exec < exec'
      BY <1>3, BeginLater
    <2>3. \A e \in Execs : e <= exec => e <= exec' /\ e # exec'
      BY <2>2, ExecNumbers
    <2>. QED BY <1>0, <2>1, <2>3 DEF HandlerSeen, Busy
  <1>4. CASE QuietHandler
    <2>1. CASE pc = "cleanup"
      BY <1>0, <1>4, <2>1, QuietPlaces DEF HandlerSeen, Busy
    <2>2. CASE pc # "cleanup"
      <3>1. exec' = exec /\ pc \in Busy /\ pc' \in Busy
        BY <1>4, <2>2, QuietPlaces
      <3>. QED BY <1>0, <3>1 DEF HandlerSeen, Busy
    <2>. QED BY <2>1, <2>2
  <1>. QED BY <1>1, <1>2, <1>3, <1>4, QuietOthers

\* Steps that send: a request that has started is over when its task goes on.
LEMMA HandlerSends ==
  ASSUME RunInv, HandlerSeen, NEW m \in Message, Sends(m), Grows(m)
  PROVE  HandlerSeen'
  <1>0. /\ \A e : Seen("started", e)' <=> Seen("started", e) \/ (m.type = "started" /\ m.exec = e)
        /\ \A e : Over(e)' <=> Over(e) \/ (m.type \in Final /\ m.exec = e)
    BY SeenGrown DEF RunInv
  <1>1. CASE SendPong /\ m = Msg("pong", 0)
    <2>1. m.type = "pong" /\ pc = "pong" /\ pc' = "recv" /\ exec' = exec
      BY <1>1, MsgFields DEF SendPong, Report, Goto
    <2>. QED BY <1>0, <2>1 DEF HandlerSeen, Final, Reasons, Busy
  <1>2. CASE SendStarted /\ m = Msg("started", exec)
    <2>1. m.type = "started" /\ m.exec = exec /\ pc = "start" /\ pc' = "validate" /\ exec' = exec
      BY <1>2, MsgFields DEF SendStarted, Report, Goto
    <2>. QED BY <1>0, <2>1, ExecNumbers DEF HandlerSeen, Final, Reasons, Busy
  <1>3. CASE \/ Reject /\ m = Msg("ValidationError", exec)
             \/ ReportUncreated /\ m = Msg("InternalError", exec)
    <2>1. m.type \in Final /\ m.type # "started" /\ m.exec = exec /\ pc \in Busy /\ pc' = "recv"
          /\ exec' = exec
      BY <1>3, MsgFields DEF Reject, ReportUncreated, Report, Goto, Final, Reasons, Busy
    <2>. QED BY <1>0, <2>1 DEF HandlerSeen, Busy
  <1>4. CASE SendErrors /\ m = Msg("errors", exec)
    <2>1. m.type = "errors" /\ pc = "report" /\ pc' = "finish" /\ exec' = exec
      BY <1>4, MsgFields DEF SendErrors, Report, Goto
    <2>. QED BY <1>0, <2>1 DEF HandlerSeen, Final, Reasons, Busy
  <1>5. CASE \/ SendDone /\ m = Msg("done", exec)
             \/ SendFailed /\ m = Msg(outcome[exec], exec)
    <2>1. m.type \in Final /\ m.type # "started" /\ m.exec = exec /\ pc \in Busy
          /\ pc' = "cleanup" /\ exec' = exec
      BY <1>5, MsgFields DEF SendDone, SendFailed, Report, Goto, Final, Reasons, Busy
    <2>. QED BY <1>0, <2>1 DEF HandlerSeen, Busy
  <1>6. ASSUME NEW e \in Execs, NEW s \in Streams,
               \/ SendLine(e, s) /\ m = Line(s, e, taken[<<e, s>>])
               \/ SendNotice(e, s) /\ m = Msg(Notice[s], e)
        PROVE  HandlerSeen'
    <2>1. pc' = pc /\ exec' = exec
      BY <1>6 DEF SendLine, SendNotice, handler
    <2>2. m.type \in {s, Notice[s]}
      BY <1>6, MsgFields
    <2>3. m.type # "started" /\ m.type \notin Final
      BY <2>2 DEF Streams, Notice, Final, Reasons
    <2>. QED BY <1>0, <2>1, <2>3 DEF HandlerSeen
  <1>. QED BY <1>1, <1>2, <1>3, <1>4, <1>5, <1>6 DEF Sends

-----------------------------------------------------------------------------
(* Results and processes. *)

\* Steps that send nothing: a process is spawned for an execution that has
\* started and is not over, and an outcome decided before errors are looked for.
LEMMA ResultQuiet ==
  ASSUME RunInv, HandlerSeen, ResultSeen, Quiet, Flow' = Flow
  PROVE  ResultSeen'
  <1>0. \A t, e : Seen(t, e)' <=> Seen(t, e)
    BY SeenSame
  <1>1. CASE UNCHANGED <<pc, exec, outcome>> /\ (child' = child \/ \E e \in Execs : ChildExits(e))
    <2>1. \A e \in Execs : child'[e] = "none" <=> child[e] = "none"
      BY <1>1, ReaderTypes DEF ChildExits
    <2>. QED BY <1>0, <1>1, <2>1 DEF ResultSeen
  <1>2. CASE RecvPing \/ RecvSkipped \/ RecvExecute
    <2>1. pc' # "report" /\ UNCHANGED <<outcome, child>>
      BY <1>2 DEF RecvPing, RecvSkipped, RecvExecute, Recv, process
    <2>. QED BY <1>0, <2>1 DEF ResultSeen
  <1>3. CASE Spawn
    <2>1. /\ pc = "spawn" /\ pc' = "wait" /\ exec' = exec /\ outcome' = outcome
          /\ child' = [child EXCEPT ![exec] = "running"]
      BY <1>3 DEF Spawn, Goto
    <2>2. exec \in Execs
      BY <2>1 DEF RunInv, SafeInv, PhaseInv
    <2>3. Seen("started", exec) /\ ~Over(exec)
      BY <2>1, <2>2 DEF HandlerSeen, Busy
    <2>4. ~Seen("ValidationError", exec)
      BY <2>3 DEF Over, Final, Reasons
    <2>5. \A e \in Execs : e = exec => Seen("started", e) /\ ~Seen("ValidationError", e)
      BY <2>3, <2>4
    <2>6. \A e \in Execs : e # exec => child'[e] = child[e]
      BY <2>1, ReaderTypes
    <2>. QED BY <1>0, <2>1, <2>5, <2>6 DEF ResultSeen
  <1>4. CASE SpawnFails \/ WaitFails \/ AbortReaders \/ Collect
    <2>1. exec \in Execs /\ outcome[exec] = "none" /\ exec' = exec /\ child' = child
      BY <1>4 DEF SpawnFails, WaitFails, AbortReaders, Collect, Returns, Goto, RunInv, SafeInv,
         PhaseInv, process
    <2>2. PICK how : outcome' = [outcome EXCEPT ![exec] = how]
      BY <1>4 DEF SpawnFails, WaitFails, AbortReaders, Collect, Returns
    <2>3. \A e \in Execs : e # exec => outcome'[e] = outcome[e]
      BY <2>2, ReaderTypes
    <2>4. \A e \in Execs : e = exec => ~Seen("errors", e)
      BY <2>1 DEF ResultSeen
    <2>. QED BY <1>0, <2>1, <2>3, <2>4 DEF ResultSeen
  <1>5. CASE \/ Validate \/ CreateWorkspace \/ WaitReturns \/ DeadlinePasses \/ Kill \/ Cleanup
    <2>1. pc' # "report" /\ exec' = exec /\ outcome' = outcome
      BY <1>5 DEF Validate, CreateWorkspace, WaitReturns, DeadlinePasses, Kill, Cleanup, Goto
    <2>2. \A e \in Execs : child'[e] = "none" <=> child[e] = "none"
      BY <1>5, ReaderTypes DEF Validate, CreateWorkspace, WaitReturns, DeadlinePasses, Kill,
         Cleanup, process
    <2>. QED BY <1>0, <2>1, <2>2 DEF ResultSeen
  <1>. QED BY <1>1, <1>2, <1>3, <1>4, <1>5, QuietOthers DEF QuietHandler

\* Steps that send: errors are sent of a success, a request refused has no process.
LEMMA ResultSends ==
  ASSUME RunInv, ResultSeen, NEW m \in Message, Sends(m), Grows(m)
  PROVE  ResultSeen'
  <1>0. \A t, e : Seen(t, e)' <=> Seen(t, e) \/ (m.type = t /\ m.exec = e)
    BY SeenGrown DEF RunInv
  <1>1. CASE SendErrors /\ m = Msg("errors", exec)
    <2>1. /\ m.type = "errors" /\ m.exec = exec /\ outcome[exec] = "ok" /\ pc' = "finish"
          /\ UNCHANGED <<exec, outcome, child>>
      BY <1>1, MsgFields DEF SendErrors, Report, Goto, process
    <2>. QED BY <1>0, <2>1 DEF ResultSeen
  <1>2. CASE Reject /\ m = Msg("ValidationError", exec)
    <2>1. /\ m.type = "ValidationError" /\ m.exec = exec /\ child[exec] = "none" /\ pc' = "recv"
          /\ UNCHANGED <<exec, outcome, child>>
      BY <1>2, MsgFields DEF Reject, Report, Goto, process, RunInv, SafeInv, PhaseInv
    <2>. QED BY <1>0, <2>1 DEF ResultSeen
  <1>3. CASE \/ SendPong /\ m = Msg("pong", 0)
             \/ SendStarted /\ m = Msg("started", exec)
             \/ ReportUncreated /\ m = Msg("InternalError", exec)
             \/ SendDone /\ m = Msg("done", exec)
             \/ SendFailed /\ m = Msg(outcome[exec], exec)
    <2>1. pc' # "report" /\ UNCHANGED <<exec, outcome, child>>
      BY <1>3 DEF SendPong, SendStarted, ReportUncreated, SendDone, SendFailed, Report, Goto,
         process
    <2>2. m.type # "errors" /\ m.type # "ValidationError"
      <3>1. CASE SendFailed /\ m = Msg(outcome[exec], exec)
        <4>1. exec \in Execs
          BY <3>1 DEF SendFailed, RunInv, SafeInv, PhaseInv
        <4>. QED BY <3>1, <4>1, MsgFields, ReaderTypes
      <3>. QED BY <1>3, <3>1, MsgFields
    <2>. QED BY <1>0, <2>1, <2>2 DEF ResultSeen
  <1>4. ASSUME NEW e \in Execs, NEW s \in Streams,
               \/ SendLine(e, s) /\ m = Line(s, e, taken[<<e, s>>])
               \/ SendNotice(e, s) /\ m = Msg(Notice[s], e)
        PROVE  ResultSeen'
    <2>1. UNCHANGED <<pc, exec, outcome, child>>
      BY <1>4 DEF SendLine, SendNotice, handler, process
    <2>2. m.type \in {s, Notice[s]}
      BY <1>4, MsgFields
    <2>3. m.type # "errors" /\ m.type # "ValidationError"
      BY <2>2 DEF Streams, Notice
    <2>. QED BY <1>0, <2>1, <2>3 DEF ResultSeen
  <1>. QED BY <1>1, <1>2, <1>3, <1>4 DEF Sends

-----------------------------------------------------------------------------
(* The reader tasks. *)

\* The counts can be compared.
LEMMA LineNumbers ==
  ASSUME RunInv
  PROVE  /\ Cap \in Nat \ {0}
         /\ \A e \in Execs, s \in Streams : <<e, s>> \in Pipes /\ taken[<<e, s>>] \in Nat
  <1>1. \A e \in Execs, s \in Streams : <<e, s>> \in Pipes
    BY DEF Pipes
  <1>2. \A q \in Pipes : taken[q] \in 0..MaxLines
    BY ReaderTypes
  <1>. QED BY <1>1, <1>2, CapType

\* Every step but those of the reader tasks and Spawn leaves them alone.
LEMMA ReadersAlone ==
  ASSUME [Next]_vars
  PROVE  \/ UNCHANGED <<reader, taken>>
         \/ Spawn
         \/ \E e \in Execs, s \in Streams : ReaderStep(e, s)
  <1>1. CASE \/ ClientNext \/ LinkBreaks \/ Loop \/ Forward \/ Deliver \/ DeliverFails
             \/ UNCHANGED vars
    BY <1>1 DEF ClientNext, ClientSend, ClientClose, LinkBreaks, Loop, RecvPing, SendPong,
       RecvSkipped, RecvExecute, RecvClose, RecvEnd, Recv, Report, Forward, Deliver,
       DeliverFails, readers, vars
  <1>2. CASE (HandleExecute \/ WaitFails) /\ ~Spawn
    BY <1>2 DEF HandleExecute, SendStarted, Validate, Reject, CreateWorkspace,
       ReportUncreated, SpawnFails, WaitReturns, WaitFails, DeadlinePasses, Kill,
       AbortReaders, Collect, SendErrors, SendDone, SendFailed, Cleanup, Report, readers
  <1>3. CASE \E e \in Execs : ProcessStep(e)
    BY <1>3 DEF ProcessStep, StartHelper, HelperExits, ChildExits, WriteLine, readers
  <1>. QED BY <1>1, <1>2, <1>3 DEF Next

\* Spawn starts tasks that have taken nothing.
LEMMA SpawnReaders ==
  ASSUME RunInv, ReaderInv, Spawn
  PROVE  /\ taken' = taken
         /\ \A e \in Execs, s \in Streams :
              \/ reader'[<<e, s>>] = reader[<<e, s>>]
              \/ reader'[<<e, s>>] = "reading" /\ reader[<<e, s>>] = "off"
  <1>1. exec \in Execs /\ child[exec] = "none"
    BY DEF Spawn, Goto, RunInv, SafeInv, PhaseInv
  <1>2. taken' = taken
        /\ reader' = [q \in Pipes |-> IF q[1] = exec THEN "reading" ELSE reader[q]]
    BY DEF Spawn
  <1>3. \A e \in Execs, s \in Streams :
          reader'[<<e, s>>] = IF e = exec THEN "reading" ELSE reader[<<e, s>>]
    BY <1>2 DEF Pipes
  <1>4. \A s \in Streams : reader[<<exec, s>>] = "off"
    BY <1>1 DEF ReaderInv
  <1>. QED BY <1>2, <1>3, <1>4

\* A reader task leaves the other tasks alone.
LEMMA ReaderOthers ==
  ASSUME RunInv, NEW f \in Execs, NEW q \in Streams, ReaderStep(f, q),
         NEW e \in Execs, NEW s \in Streams, <<e, s>> # <<f, q>>
  PROVE  reader'[<<e, s>>] = reader[<<e, s>>] /\ taken'[<<e, s>>] = taken[<<e, s>>]
  BY LineNumbers, ReaderTypes DEF ReaderStep, ReadLine, SendLine, SendNotice, ReadEof,
     ReadUndecoded, StopReader

\* The places of the reader tasks keep what they say.
LEMMA ShapeKept == RunInv /\ ReaderInv /\ ReaderShape /\ [Next]_vars => ReaderShape'
  <1>. SUFFICES ASSUME RunInv, ReaderInv, ReaderShape, [Next]_vars PROVE ReaderShape'
    OBVIOUS
  <1>1. CASE UNCHANGED <<reader, taken>>
    BY <1>1 DEF ReaderShape
  <1>2. CASE Spawn
    BY <1>2, SpawnReaders DEF ReaderShape
  <1>3. ASSUME NEW f \in Execs, NEW q \in Streams, ReaderStep(f, q),
               NEW e \in Execs, NEW s \in Streams
        PROVE  /\ reader'[<<e, s>>] = "off" => taken'[<<e, s>>] = 0
               /\ reader'[<<e, s>>] = "sending" => 1 <= taken'[<<e, s>>] /\ taken'[<<e, s>>] <= Cap
               /\ reader'[<<e, s>>] = "noticing" => taken'[<<e, s>>] = Cap
    <2>1. CASE <<e, s>> # <<f, q>>
      BY <1>3, <2>1, ReaderOthers DEF ReaderShape
    <2>2. CASE ReadLine(e, s)
      <3>1. /\ reader[<<e, s>>] = "reading" /\ taken'[<<e, s>>] = taken[<<e, s>>] + 1
            /\ reader'[<<e, s>>] = IF taken[<<e, s>>] < Cap THEN "sending" ELSE "reading"
        BY <2>2, LineNumbers, ReaderTypes DEF ReadLine
      <3>. QED BY <3>1, LineNumbers
    <2>3. CASE SendLine(e, s)
      <3>1. /\ taken' = taken
            /\ reader'[<<e, s>>] = IF taken[<<e, s>>] = Cap THEN "noticing" ELSE "reading"
        BY <2>3, LineNumbers, ReaderTypes DEF SendLine
      <3>. QED BY <3>1
    <2>4. CASE SendNotice(e, s) \/ ReadEof(e, s) \/ ReadUndecoded(e, s) \/ StopReader(e, s)
      <3>1. reader'[<<e, s>>] \in {"reading", "ended", "undecoded"}
        BY <2>4, LineNumbers, ReaderTypes DEF SendNotice, ReadEof, ReadUndecoded, StopReader
      <3>. QED BY <3>1
    <2>. QED BY <1>3, <2>1, <2>2, <2>3, <2>4 DEF ReaderStep
  <1>. QED BY <1>1, <1>2, <1>3, ReadersAlone DEF ReaderShape

-----------------------------------------------------------------------------
(* The lines in the flow. *)

\* Nothing is seen of a stream by a step of other tasks.
LEMMA StreamSame ==
  ASSUME NEW e \in Execs, NEW s \in Streams, StreamSeen(e, s),
         \A n : Sent(s, e, n)' <=> Sent(s, e, n),
         Seen(Notice[s], e)' <=> Seen(Notice[s], e),
         reader'[<<e, s>>] = reader[<<e, s>>], taken'[<<e, s>>] = taken[<<e, s>>]
  PROVE  StreamSeen(e, s)'
  BY DEF StreamSeen, Passed

\* A quiet step of a reader task takes a line, which it then has to send or may
\* drop, or ends.
LEMMA StreamQuiet ==
  ASSUME RunInv, NEW e \in Execs, NEW s \in Streams, StreamSeen(e, s),
         Flow' = Flow, QuietReader(e, s)
  PROVE  StreamSeen(e, s)'
  <1>0. /\ \A n : Sent(s, e, n)' <=> Sent(s, e, n)
        /\ Seen(Notice[s], e)' <=> Seen(Notice[s], e)
    BY SeenSame
  <1>1. Cap \in Nat \ {0} /\ taken[<<e, s>>] \in Nat /\ <<e, s>> \in Pipes
    BY LineNumbers
  <1>2. CASE ReadLine(e, s)
    <2>1. /\ reader[<<e, s>>] = "reading" /\ taken'[<<e, s>>] = taken[<<e, s>>] + 1
          /\ reader'[<<e, s>>] = IF taken[<<e, s>>] < Cap THEN "sending" ELSE "reading"
      BY <1>1, <1>2, ReaderTypes DEF ReadLine
    <2>2. \A n \in Nat : Sent(s, e, n) => Passed(e, s, n)'
      BY <1>1, <2>1 DEF StreamSeen, Passed
    <2>3. Seen(Notice[s], e) =>
            taken'[<<e, s>>] >= Cap /\ reader'[<<e, s>>] \notin {"sending", "noticing"}
      BY <1>1, <2>1 DEF StreamSeen
    <2>4. ASSUME NEW n \in 1..MaxLines, n <= Cap, Passed(e, s, n)' PROVE Sent(s, e, n)
      <3>1. n <= taken[<<e, s>>]
        BY <1>1, <2>1, <2>4 DEF Passed
      <3>. QED BY <2>1, <2>4, <3>1 DEF StreamSeen, Passed, Reading
    <2>. QED BY <1>0, <2>2, <2>3, <2>4 DEF StreamSeen
  <1>3. CASE ReadEof(e, s) \/ ReadUndecoded(e, s) \/ StopReader(e, s)
    <2>1. taken' = taken /\ reader'[<<e, s>>] \in Stopped
      BY <1>1, <1>3, ReaderTypes DEF ReadEof, ReadUndecoded, StopReader, Stopped
    <2>2. reader'[<<e, s>>] \notin Reading /\ reader'[<<e, s>>] # "sending"
      BY <2>1 DEF Stopped, Reading
    <2>. QED BY <1>0, <2>1, <2>2 DEF StreamSeen, Passed, Reading
  <1>. QED BY <1>2, <1>3 DEF QuietReader

\* What a reader task sends is the line it took last, or the notice once.
LEMMA StreamSends ==
  ASSUME RunInv, ReaderShape, NEW e \in Execs, NEW s \in Streams, StreamSeen(e, s),
         NEW m \in Message, Grows(m),
         \/ SendLine(e, s) /\ m = Line(s, e, taken[<<e, s>>])
         \/ SendNotice(e, s) /\ m = Msg(Notice[s], e)
  PROVE  StreamSeen(e, s)'
  <1>0. /\ \A n : Sent(s, e, n)' <=> Sent(s, e, n) \/ m = Line(s, e, n)
        /\ Seen(Notice[s], e)' <=> Seen(Notice[s], e) \/ (m.type = Notice[s] /\ m.exec = e)
    BY SeenGrown DEF RunInv
  <1>1. Cap \in Nat \ {0} /\ taken[<<e, s>>] \in Nat /\ <<e, s>> \in Pipes
    BY LineNumbers
  <1>2. Notice[s] \notin Streams
    BY DEF Notice, Streams
  <1>3. CASE SendLine(e, s) /\ m = Line(s, e, taken[<<e, s>>])
    <2>1. /\ reader[<<e, s>>] = "sending" /\ taken' = taken
          /\ reader'[<<e, s>>] = IF taken[<<e, s>>] = Cap THEN "noticing" ELSE "reading"
      BY <1>1, <1>3, ReaderTypes DEF SendLine
    <2>2. \A n : m = Line(s, e, n) <=> n = taken[<<e, s>>]
      BY <1>3, MsgFields
    <2>3. Seen(Notice[s], e)' <=> Seen(Notice[s], e)
      BY <1>0, <1>2, <1>3, MsgFields
    <2>4. \A n \in Nat : Sent(s, e, n)' => Passed(e, s, n)'
      BY <1>0, <1>1, <2>1, <2>2 DEF StreamSeen, Passed
    <2>5. ~Seen(Notice[s], e)'
      BY <2>1, <2>3 DEF StreamSeen
    <2>6. ASSUME NEW n \in 1..MaxLines, n <= Cap, Passed(e, s, n)' PROVE Sent(s, e, n)'
      BY <1>0, <2>1, <2>2, <2>6 DEF StreamSeen, Passed, Reading
    <2>. QED BY <2>4, <2>5, <2>6 DEF StreamSeen
  <1>4. CASE SendNotice(e, s) /\ m = Msg(Notice[s], e)
    <2>1. /\ reader[<<e, s>>] = "noticing" /\ taken' = taken /\ reader'[<<e, s>>] = "reading"
      BY <1>1, <1>4, ReaderTypes DEF SendNotice
    <2>2. \A n : Sent(s, e, n)' <=> Sent(s, e, n)
      BY <1>0, <1>2, <1>4, MsgFields
    <2>3. taken[<<e, s>>] = Cap
      BY <2>1 DEF ReaderShape
    <2>. QED BY <1>1, <2>1, <2>2, <2>3 DEF StreamSeen, Passed, Reading
  <1>. QED BY <1>3, <1>4

\* Quiet steps leave the reader tasks alone, but for their own and Spawn.
LEMMA QuietReaders ==
  ASSUME Quiet
  PROVE  \/ UNCHANGED <<reader, taken>>
         \/ Spawn
         \/ \E e \in Execs, s \in Streams : QuietReader(e, s)
  <1>1. CASE \/ ClientNext \/ LinkBreaks \/ RecvPing \/ RecvSkipped \/ RecvExecute
             \/ Forward \/ Deliver \/ DeliverFails \/ UNCHANGED vars
    BY <1>1 DEF ClientNext, ClientSend, ClientClose, LinkBreaks, RecvPing, RecvSkipped,
       RecvExecute, Recv, Forward, Deliver, DeliverFails, readers, vars
  <1>2. CASE QuietHandler /\ ~Spawn
    BY <1>2 DEF QuietHandler, Validate, CreateWorkspace, SpawnFails, WaitReturns, WaitFails,
       DeadlinePasses, Kill, AbortReaders, Collect, Cleanup, readers
  <1>3. CASE \E e \in Execs : ProcessStep(e)
    BY <1>3 DEF ProcessStep, StartHelper, HelperExits, ChildExits, WriteLine, readers
  <1>. QED BY <1>1, <1>2, <1>3 DEF Quiet

\* Steps that send nothing.
LEMMA LinesQuiet ==
  ASSUME RunInv, ReaderInv, ReaderShape, LinesSeen, Quiet, Flow' = Flow,
         NEW e \in Execs, NEW s \in Streams
  PROVE  StreamSeen(e, s)'
  <1>0. /\ \A n : Sent(s, e, n)' <=> Sent(s, e, n)
        /\ Seen(Notice[s], e)' <=> Seen(Notice[s], e)
    BY SeenSame
  <1>1. StreamSeen(e, s)
    BY DEF LinesSeen
  <1>2. CASE UNCHANGED <<reader, taken>>
    BY <1>0, <1>1, <1>2, StreamSame
  <1>3. CASE Spawn
    <2>1. CASE reader'[<<e, s>>] = reader[<<e, s>>]
      BY <1>0, <1>1, <1>3, <2>1, SpawnReaders, StreamSame
    <2>2. CASE reader'[<<e, s>>] = "reading" /\ reader[<<e, s>>] = "off"
      <3>1. taken[<<e, s>>] = 0 /\ taken' = taken
        BY <1>3, <2>2, SpawnReaders DEF ReaderShape
      <3>. QED BY <1>0, <1>1, <2>2, <3>1 DEF StreamSeen, Passed
    <2>. QED BY <1>3, <2>1, <2>2, SpawnReaders
  <1>4. ASSUME NEW f \in Execs, NEW q \in Streams, QuietReader(f, q)
        PROVE  StreamSeen(e, s)'
    <2>1. CASE <<e, s>> = <<f, q>>
      BY <1>1, <1>4, <2>1, StreamQuiet
    <2>2. CASE <<e, s>> # <<f, q>>
      <3>1. ReaderStep(f, q)
        BY <1>4 DEF QuietReader, ReaderStep
      <3>. QED BY <1>0, <1>1, <2>2, <3>1, ReaderOthers, StreamSame
    <2>. QED BY <2>1, <2>2
  <1>. QED BY <1>2, <1>3, <1>4, QuietReaders

\* Steps that send.
LEMMA LinesSends ==
  ASSUME RunInv, ReaderShape, LinesSeen, NEW m \in Message, Sends(m), Grows(m),
         NEW e \in Execs, NEW s \in Streams
  PROVE  StreamSeen(e, s)'
  <1>0. /\ \A n : Sent(s, e, n)' <=> Sent(s, e, n) \/ m = Line(s, e, n)
        /\ Seen(Notice[s], e)' <=> Seen(Notice[s], e) \/ (m.type = Notice[s] /\ m.exec = e)
    BY SeenGrown DEF RunInv
  <1>1. StreamSeen(e, s)
    BY DEF LinesSeen
  <1>2. CASE \/ SendPong /\ m = Msg("pong", 0)
             \/ SendStarted /\ m = Msg("started", exec)
             \/ Reject /\ m = Msg("ValidationError", exec)
             \/ ReportUncreated /\ m = Msg("InternalError", exec)
             \/ SendErrors /\ m = Msg("errors", exec)
             \/ SendDone /\ m = Msg("done", exec)
             \/ SendFailed /\ m = Msg(outcome[exec], exec)
    <2>1. UNCHANGED <<reader, taken>>
      BY <1>2 DEF SendPong, SendStarted, Reject, ReportUncreated, SendErrors, SendDone,
         SendFailed, Report, readers
    <2>2. m.type \in Final \cup {"pong", "started", "errors"}
      BY <1>2, MsgFields DEF SendFailed, Final, Reasons
    <2>3. m.type # Notice[s] /\ m.type # s
      BY <2>2 DEF Final, Reasons, Notice, Streams
    <2>4. \A n : m # Line(s, e, n)
      BY <2>3, MsgFields
    <2>. QED BY <1>0, <1>1, <2>1, <2>3, <2>4, StreamSame
  <1>3. ASSUME NEW f \in Execs, NEW q \in Streams,
               \/ SendLine(f, q) /\ m = Line(q, f, taken[<<f, q>>])
               \/ SendNotice(f, q) /\ m = Msg(Notice[q], f)
        PROVE  StreamSeen(e, s)'
    <2>1. CASE <<e, s>> = <<f, q>>
      BY <1>1, <1>3, <2>1, StreamSends
    <2>2. CASE <<e, s>> # <<f, q>>
      <3>1. ReaderStep(f, q)
        BY <1>3 DEF ReaderStep
      <3>2. reader'[<<e, s>>] = reader[<<e, s>>] /\ taken'[<<e, s>>] = taken[<<e, s>>]
        BY <2>2, <3>1, ReaderOthers
      <3>3. e # f \/ s # q
        BY <2>2
      <3>4. Notice[s] # q /\ Notice[q] # s /\ (s # q => Notice[s] # Notice[q])
        BY DEF Notice, Streams
      <3>5. \A n : m # Line(s, e, n)
        BY <1>3, <3>3, <3>4, MsgFields
      <3>6. ~(m.type = Notice[s] /\ m.exec = e)
        BY <1>3, <3>3, <3>4, MsgFields
      <3>. QED BY <1>0, <1>1, <3>2, <3>5, <3>6, StreamSame
    <2>. QED BY <2>1, <2>2
  <1>. QED BY <1>2, <1>3 DEF Sends

-----------------------------------------------------------------------------
(* What is sent is allowed. *)

\* Open and Running, of the flow.
LEMMA FlowOperators ==
  /\ \A e : Open(Flow, e) <=> Seen("started", e) /\ ~Over(e)
  /\ \A e : Running(Flow, e) <=>
       /\ Seen("started", e) /\ ~Seen("errors", e) /\ ~Seen("done", e)
       /\ ~Seen("ValidationError", e)
  /\ \A t, e : Has(Flow, t, e) <=> Seen(t, e)
  /\ \A s, e, n : HasLine(Flow, s, e, n) <=> Sent(s, e, n)
  <1>1. \A t, e : Has(Flow, t, e) <=> Seen(t, e)
    BY DEF Seen
  <1>2. \A s, e, n : HasLine(Flow, s, e, n) <=> Sent(s, e, n)
    BY DEF Sent
  <1>. QED BY <1>1, <1>2 DEF Open, Running, Over

\* Done is of an execution that succeeded.
LEMMA DoneOk ==
  ASSUME DoneLast, NEW e, Seen("done", e)
  PROVE  outcome[e] = "ok"
  BY DEF Seen, Has, DoneLast

\* A task that reads belongs to a running execution.
LEMMA ReaderRunning ==
  ASSUME OutputInv, ResultSeen, NEW e \in Execs, NEW s \in Streams,
         reader[<<e, s>>] \in Reading
  PROVE  Running(Flow, e)
  <1>1. ReaderInv /\ DoneLast
    BY DEF OutputInv
  <1>2. child[e] # "none" /\ outcome[e] # "ok"
    BY <1>1 DEF ReaderInv, Reading, Stopped
  <1>3. Seen("started", e) /\ ~Seen("errors", e) /\ ~Seen("ValidationError", e)
    BY <1>2 DEF ResultSeen
  <1>4. ~Seen("done", e)
    BY <1>1, <1>2, DoneOk
  <1>. QED BY <1>3, <1>4, FlowOperators

\* What the loop and handle_execute send is allowed by the flow before it.
LEMMA HandlerMay ==
  ASSUME StreamInv, link = "up", NEW m,
         \/ SendPong /\ m = Msg("pong", 0)
         \/ SendStarted /\ m = Msg("started", exec)
         \/ Reject /\ m = Msg("ValidationError", exec)
         \/ ReportUncreated /\ m = Msg("InternalError", exec)
         \/ SendErrors /\ m = Msg("errors", exec)
         \/ SendDone /\ m = Msg("done", exec)
         \/ SendFailed /\ m = Msg(outcome[exec], exec)
  PROVE  May(Flow, m)
  <1>0. /\ RunInv /\ ReaderInv /\ LinesSent /\ DoneLast /\ ReaderShape
        /\ HandlerSeen /\ ResultSeen /\ LinesSeen
    BY DEF StreamInv, OutputInv, FlowInv
  <1>1. CASE SendPong /\ m = Msg("pong", 0)
    <2>1. pc = "pong"
      BY <1>1 DEF SendPong, Report, Goto
    <2>2. \A e \in Execs : ~Open(Flow, e)
      BY <1>0, <2>1, FlowOperators DEF HandlerSeen
    <2>. QED BY <1>1, <2>2 DEF May, MayPong
  <1>2. CASE SendStarted /\ m = Msg("started", exec)
    <2>1. pc = "start" /\ exec \in Execs
      BY <1>0, <1>2 DEF SendStarted, Report, Goto, RunInv, SafeInv, PhaseInv
    <2>2. \A e \in Execs : ~Open(Flow, e)
      BY <1>0, <2>1, FlowOperators DEF HandlerSeen
    <2>3. ASSUME NEW f \in exec..MaxSends PROVE ~Has(Flow, "started", f)
      <3>1. exec \in Nat /\ f \in Execs /\ exec <= f
        BY <2>1, BoundsType DEF Execs
      <3>2. f <= exec => f = exec
        BY <3>1
      <3>. QED BY <1>0, <2>1, <3>1, <3>2, FlowOperators DEF HandlerSeen
    <2>. QED BY <1>2, <2>1, <2>2, <2>3 DEF May, MayStart
  <1>3. ASSUME pc \in Busy, exec \in Execs, NEW t \in Final, m = Msg(t, exec),
               t # "done" => outcome[exec] # "ok",
               t = "ValidationError" => child[exec] = "none"
        PROVE  May(Flow, m)
    <2>1. Open(Flow, exec)
      BY <1>0, <1>3, FlowOperators DEF HandlerSeen
    <2>2. t # "done" => ~Has(Flow, "errors", exec)
      BY <1>0, <1>3, FlowOperators DEF ResultSeen
    <2>3. ASSUME t = "ValidationError", NEW s \in Streams PROVE ~HasLine(Flow, s, exec, 1)
      <3>1. reader[<<exec, s>>] = "off"
        BY <1>0, <1>3, <2>3 DEF ReaderInv
      <3>2. taken[<<exec, s>>] = 0
        BY <1>0, <1>3, <3>1 DEF ReaderShape
      <3>3. ~Passed(exec, s, 1)
        BY <3>2 DEF Passed
      <3>4. ~Sent(s, exec, 1)
        BY <1>0, <1>3, <3>3 DEF LinesSeen, StreamSeen
      <3>. QED BY <3>4, FlowOperators
    <2>. QED BY <1>3, <2>1, <2>2, <2>3 DEF May, MayEnd
  <1>4. CASE Reject /\ m = Msg("ValidationError", exec)
    <2>1. pc = "reject" /\ exec \in Execs /\ outcome[exec] = "none" /\ child[exec] = "none"
      BY <1>0, <1>4 DEF Reject, Report, Goto, RunInv, SafeInv, PhaseInv
    <2>. QED BY <1>3, <1>4, <2>1 DEF Busy, Final, Reasons
  <1>5. CASE ReportUncreated /\ m = Msg("InternalError", exec)
    <2>1. pc = "uncreated" /\ exec \in Execs /\ outcome[exec] = "none" /\ child[exec] = "none"
      BY <1>0, <1>5 DEF ReportUncreated, Report, Goto, RunInv, SafeInv, PhaseInv
    <2>. QED BY <1>3, <1>5, <2>1 DEF Busy, Final, Reasons
  <1>6. CASE SendDone /\ m = Msg("done", exec)
    <2>1. pc \in {"report", "finish"} /\ exec \in Execs
      BY <1>0, <1>6 DEF SendDone, RunInv, SafeInv, PhaseInv
    <2>. QED BY <1>3, <1>6, <2>1 DEF Busy, Final
  <1>7. CASE SendFailed /\ m = Msg(outcome[exec], exec)
    <2>1. pc = "report" /\ exec \in Execs /\ outcome[exec] \in Reasons
      BY <1>0, <1>7 DEF SendFailed, RunInv, SafeInv, PhaseInv
    <2>2. outcome[exec] # "ValidationError"
      BY <1>0, <2>1, ReaderTypes
    <2>. QED BY <1>3, <1>7, <2>1, <2>2 DEF Busy, Final, Reasons
  <1>8. CASE SendErrors /\ m = Msg("errors", exec)
    <2>1. pc = "report" /\ exec \in Execs /\ outcome[exec] = "ok"
      BY <1>0, <1>8 DEF SendErrors, RunInv, SafeInv, PhaseInv
    <2>2. PICK s \in Streams : taken[<<exec, s>>] > 0
      BY <1>8 DEF SendErrors
    <2>3. ~aborted[exec] /\ reader[<<exec, s>>] \in Stopped
      BY <1>0, <2>1 DEF ReaderInv
    <2>4. taken[<<exec, s>>] \in 0..MaxLines /\ Cap \in Nat \ {0} /\ MaxLines \in Nat
      BY <1>0, <2>1, LineNumbers, ReaderTypes, BoundsType
    <2>5. ToSend(exec, s, 1) /\ 1 \in 1..MaxLines
      BY <2>2, <2>3, <2>4 DEF ToSend, Stopped
    <2>6. HasLine(Flow, s, exec, 1)
      BY <1>0, <2>1, <2>5 DEF LinesSent, HasLine
    <2>7. Open(Flow, exec) /\ ~Has(Flow, "errors", exec)
      BY <1>0, <2>1, FlowOperators DEF HandlerSeen, ResultSeen, Busy
    <2>. QED BY <1>8, <2>1, <2>6, <2>7 DEF May, MayErr
  <1>. QED BY <1>1, <1>2, <1>4, <1>5, <1>6, <1>7, <1>8

\* What a reader task sends is allowed by the flow before it.
LEMMA ReaderMay ==
  ASSUME StreamInv, link = "up", NEW m, NEW e \in Execs, NEW s \in Streams,
         \/ SendLine(e, s) /\ m = Line(s, e, taken[<<e, s>>])
         \/ SendNotice(e, s) /\ m = Msg(Notice[s], e)
  PROVE  May(Flow, m)
  <1>0. RunInv /\ OutputInv /\ ReaderShape /\ ResultSeen /\ StreamSeen(e, s)
    BY DEF StreamInv, OutputInv, FlowInv, LinesSeen
  <1>1. taken[<<e, s>>] \in 0..MaxLines /\ Cap \in Nat \ {0} /\ MaxLines \in Nat
    BY <1>0, LineNumbers, ReaderTypes, BoundsType
  <1>2. reader[<<e, s>>] \in Reading
    BY DEF SendLine, SendNotice, Reading
  <1>3. Running(Flow, e)
    BY <1>0, <1>2, ReaderRunning
  <1>4. CASE SendLine(e, s) /\ m = Line(s, e, taken[<<e, s>>])
    <2>. DEFINE n == taken[<<e, s>>]
    <2>1. reader[<<e, s>>] = "sending"
      BY <1>4 DEF SendLine
    <2>2. n \in 1..MaxLines /\ n <= Cap /\ n \in Nat
      BY <1>0, <1>1, <2>1 DEF ReaderShape
    <2>3. ~Sent(s, e, n)
      BY <1>0, <2>1, <2>2 DEF StreamSeen, Passed
    <2>4. ASSUME n > 1 PROVE Sent(s, e, n - 1)
      <3>1. n - 1 \in 1..MaxLines /\ n - 1 <= Cap /\ n - 1 <= n /\ n - 1 # n
        BY <1>1, <2>2, <2>4
      <3>. QED BY <1>0, <1>2, <3>1 DEF StreamSeen, Passed
    <2>5. MayOutput(Flow, m, e, s, n)
      BY <1>3, <1>4, <2>2, <2>3, <2>4, FlowOperators DEF MayOutput
    <2>. QED BY <2>2, <2>5 DEF May
  <1>5. CASE SendNotice(e, s) /\ m = Msg(Notice[s], e)
    <2>1. reader[<<e, s>>] = "noticing"
      BY <1>5 DEF SendNotice
    <2>2. taken[<<e, s>>] = Cap
      BY <1>0, <2>1 DEF ReaderShape
    <2>3. Cap \in 1..MaxLines /\ Cap <= Cap
      BY <1>1, <2>2
    <2>4. Sent(s, e, Cap)
      BY <1>0, <1>2, <2>1, <2>2, <2>3 DEF StreamSeen, Passed
    <2>5. ~Seen(Notice[s], e)
      BY <1>0, <2>1 DEF StreamSeen
    <2>6. MayTruncate(Flow, m, e, s)
      BY <1>3, <1>5, <2>4, <2>5, FlowOperators DEF MayTruncate
    <2>. QED BY <2>6 DEF May
  <1>. QED BY <1>4, <1>5

-----------------------------------------------------------------------------
(* The theorem. *)

\* send_task has one message at a time in its hands.
LEMMA OneStep == OneByOne /\ [Next]_vars => OneByOne'
  <1>. SUFFICES ASSUME OneByOne, [Next]_vars PROVE OneByOne'
    OBVIOUS
  <1>1. CASE UNCHANGED <<inflight, fwd>>
    BY <1>1 DEF OneByOne
  <1>2. CASE Forward \/ Deliver \/ DeliverFails \/ RecvClose \/ RecvEnd
    BY <1>2 DEF Forward, Deliver, DeliverFails, RecvClose, RecvEnd, StopForwarding, OneByOne
  <1>3. CASE \/ ClientNext \/ LinkBreaks \/ RecvPing \/ RecvSkipped \/ RecvExecute \/ SendPong
             \/ UNCHANGED vars
    BY <1>1, <1>3 DEF ClientNext, ClientSend, ClientClose, LinkBreaks, RecvPing, RecvSkipped,
       RecvExecute, SendPong, Report, Send, channel, vars
  <1>4. CASE HandleExecute \/ WaitFails
    BY <1>1, <1>4 DEF HandleExecute, WaitFails, SendStarted, Validate, Reject, CreateWorkspace,
       ReportUncreated, Spawn, SpawnFails, WaitReturns, DeadlinePasses, Kill, AbortReaders,
       Collect, SendErrors, SendDone, SendFailed, Cleanup, Report, Send, channel
  <1>5. CASE \/ \E e \in Execs : ProcessStep(e)
             \/ \E e \in Execs, s \in Streams : ReaderStep(e, s)
    BY <1>1, <1>5 DEF ProcessStep, StartHelper, HelperExits, ChildExits, WriteLine, ReaderStep,
       ReadLine, SendLine, SendNotice, ReadEof, ReadUndecoded, StopReader, Send, channel
  <1>. QED BY <1>2, <1>3, <1>4, <1>5 DEF Next, Loop

\* At the start nothing is in the flow.
LEMMA InitStream == Init => StreamInv
  <1>. SUFFICES ASSUME Init PROVE StreamInv
    OBVIOUS
  <1>1. OutputInv
    BY InitOutput
  <1>2. ReaderShape /\ OneByOne
    BY DEF Init, ReaderShape, OneByOne, Pipes
  <1>3. Flow = <<>>
    BY DEF Init, Flow
  <1>4. /\ \A t, e : ~Seen(t, e)
        /\ \A s, e, n : ~Sent(s, e, n)
        /\ \A e : ~Over(e)
        /\ Legal(Flow)
    BY <1>3 DEF Seen, Has, Sent, HasLine, Over, Legal
  <1>5. HandlerSeen /\ ResultSeen
    BY <1>4 DEF Init, HandlerSeen, ResultSeen, Busy
  <1>6. LinesSeen
    BY <1>4 DEF Init, LinesSeen, StreamSeen, Pipes, Reading
  <1>. QED BY <1>1, <1>2, <1>4, <1>5, <1>6 DEF StreamInv, FlowInv

\* Every step keeps the inductive invariant.
LEMMA NextStream == StreamInv /\ [Next]_vars => StreamInv'
  <1>. SUFFICES ASSUME StreamInv, [Next]_vars PROVE StreamInv'
    OBVIOUS
  <1>1. RunInv /\ TypeInv /\ LinkInv /\ ReaderInv /\ ReaderShape /\ OutputInv
    BY DEF StreamInv, OutputInv, RunInv
  <1>2. OutputInv' /\ ReaderShape' /\ OneByOne'
    BY <1>1, NextOutput, ShapeKept, OneStep DEF StreamInv
  <1>3. ASSUME link' = "up" PROVE (HandlerSeen /\ ResultSeen /\ LinesSeen /\ Legal(Flow))'
    <2>1. link = "up" /\ HandlerSeen /\ ResultSeen /\ LinesSeen /\ Legal(Flow)
      BY <1>3, LinkDown DEF StreamInv, FlowInv
    <2>2. CASE Quiet /\ Flow' = Flow
      <3>1. HandlerSeen' /\ ResultSeen'
        BY <1>1, <2>1, <2>2, HandlerQuiet, ResultQuiet
      <3>2. LinesSeen'
        BY <1>1, <2>1, <2>2, LinesQuiet DEF LinesSeen
      <3>. QED BY <2>1, <2>2, <3>1, <3>2
    <2>3. ASSUME NEW m \in Message, Sends(m), Grows(m)
          PROVE  (HandlerSeen /\ ResultSeen /\ LinesSeen /\ Legal(Flow))'
      <3>1. HandlerSeen' /\ ResultSeen'
        BY <1>1, <2>1, <2>3, HandlerSends, ResultSends
      <3>2. LinesSeen'
        BY <1>1, <2>1, <2>3, LinesSends DEF LinesSeen
      <3>3. May(Flow, m)
        BY <2>1, <2>3, HandlerMay, ReaderMay DEF Sends
      <3>4. Flow \in Seq(Message) /\ Flow' = Append(Flow, m)
        BY <1>1, <2>3, FlowTypes DEF Grows
      <3>5. Legal(Append(Flow, m))
        BY <2>1, <3>3, <3>4, LegalAppend
      <3>. QED BY <3>1, <3>2, <3>4, <3>5
    <2>. QED BY <1>1, <1>3, <2>2, <2>3, FlowStep DEF FlowMoves
  <1>. QED BY <1>2, <1>3 DEF StreamInv, FlowInv

\* The client receives the flow message by message: each is a step of
\* CommandStream.
LEMMA StepIsStream == StreamInv /\ [Next]_vars => [S!Next]_received
  <1>. SUFFICES ASSUME StreamInv, [Next]_vars PROVE S!Next \/ received' = received
    OBVIOUS
  <1>1. CASE Deliver /\ link = "up"
    <2>1. /\ received \in Seq(Message) /\ inflight \in Seq(Message) /\ queue \in Seq(Message)
      BY FlowTypes DEF StreamInv, OutputInv, RunInv
    <2>2. fwd = "sending" /\ received' = received \o inflight
      BY <1>1 DEF Deliver
    <2>. DEFINE m == inflight[1]
    <2>3. inflight = <<m>> /\ m \in Message
      <3>1. Len(inflight) = 1
        BY <2>2 DEF StreamInv, OneByOne
      <3>2. m \in Message /\ <<m>> \in Seq(Message) /\ Len(<<m>>) = 1 /\ <<m>>[1] = m
        BY <2>1, <3>1
      <3>3. \A i \in 1..1 : inflight[i] = <<m>>[i]
        BY <3>2
      <3>. QED BY <2>1, <3>1, <3>2, <3>3, SeqEqual
    <2>. HIDE DEF m
    <2>4. Legal(received \o (<<m>> \o queue))
      BY <1>1, <2>3 DEF StreamInv, FlowInv, Flow
    <2>5. May(received, m)
      BY <2>1, <2>3, <2>4, LegalNext
    <2>6. received' = Append(received, m)
      BY <2>1, <2>2, <2>3
    <2>. QED BY <2>1, <2>5, <2>6, MayIsStep
  <1>2. CASE Deliver /\ link # "up"
    BY <1>2 DEF Deliver
  <1>3. CASE \/ ClientNext \/ LinkBreaks \/ Loop \/ Forward \/ DeliverFails \/ UNCHANGED vars
    BY <1>3 DEF ClientNext, ClientSend, ClientClose, LinkBreaks, Loop, RecvPing, SendPong,
       RecvSkipped, RecvExecute, RecvClose, RecvEnd, Recv, Report, Goto, Forward, DeliverFails,
       client, vars
  <1>4. CASE HandleExecute \/ WaitFails
    BY <1>4 DEF HandleExecute, WaitFails, SendStarted, Validate, Reject, CreateWorkspace,
       ReportUncreated, Spawn, SpawnFails, WaitReturns, DeadlinePasses, Kill, AbortReaders,
       Collect, SendErrors, SendDone, SendFailed, Cleanup, Report, Returns, Goto, client
  <1>5. CASE \/ \E e \in Execs : ProcessStep(e)
             \/ \E e \in Execs, s \in Streams : ReaderStep(e, s)
    BY <1>5 DEF ProcessStep, StartHelper, HelperExits, ChildExits, WriteLine, ReaderStep,
       ReadLine, SendLine, SendNotice, ReadEof, ReadUndecoded, StopReader, client
  <1>. QED BY <1>1, <1>2, <1>3, <1>4, <1>5 DEF Next

\* What a client receives over one connection is a stream of CommandStream,
\* whatever the channel holds, however the tasks interleave and wherever the
\* connection closes or breaks.
THEOREM ExecutionImplementsStream == Spec => ImplementsStream
  <1>1. Init => S!Init
    BY DEF Init, S!Init
  <1>2. StreamInv /\ [Next]_vars => [S!Next]_received
    BY StepIsStream
  <1>3. Spec => []StreamInv
    BY InitStream, NextStream, PTL DEF Spec
  <1>. QED BY <1>1, <1>2, <1>3, PTL DEF Spec, S!Spec, ImplementsStream
=============================================================================
