------------------------------ MODULE WsClient ------------------------------
(***************************************************************************)
(* The browser's side of the execute socket: useWebSocket with its refs,   *)
(* its reconnect timer, the promise of executeWithResult and the store     *)
(* fields it drives, against a backend that serves every socket the way    *)
(* module CommandStream describes.                                         *)
(*                                                                         *)
(* JavaScript runs one callback at a time: each action is one callback.    *)
(* Output lines only feed the console and are left out.  The delay before  *)
(* a reconnect, and the attempts it is computed from, are time.            *)
(***************************************************************************)
EXTENDS Naturals, Sequences, FiniteSets

CONSTANTS
  MaxSockets,   \* bound: sockets the page creates
  MaxCommands,  \* bound: commands the user sends
  MaxRemounts   \* how often the component is mounted again: 0 in production,
                \* once more by the StrictMode of main.tsx in development

ASSUME BoundsType ==
  /\ MaxSockets \in Nat \ {0} /\ MaxCommands \in Nat /\ MaxRemounts \in Nat

VARIABLES
  sock,         \* readyState of each socket; "closed" once onclose has run
  wsRef,        \* wsRef.current: a socket, or 0 for null
  wsStatus,     \* the store's wsStatus
  isExecuting,  \* 0 for false, else the socket whose Started set it
  pending,      \* pendingRef.current: the command that waits, or 0 for null
  promise,      \* what became of the promise of each command
  settledBy,    \* the command whose Done or Failed settled it
  timer,        \* whether the timeout in reconnectTimeoutRef is armed
  stray,        \* armed timeouts that no ref remembers any more
  mounted,
  remounts,
  commands,     \* commands sent so far
  up,           \* per socket: commands on their way to the backend
  serving,      \* per socket: whether the rate limiter let it in
  running,      \* per socket: the command the backend executes, or 0
  down          \* per socket: messages on their way to the page

refs    == <<wsRef, pending, timer, stray>>
store   == <<wsStatus, isExecuting>>
life    == <<mounted, remounts>>
results == <<promise, settledBy>>
server  == <<up, serving, running, down>>
vars    == <<sock, refs, store, life, results, commands, server>>

Sockets  == 1..MaxSockets
Commands == 1..MaxCommands

Init ==
  /\ sock = [i \in Sockets |-> "none"]
  /\ wsRef = 0 /\ wsStatus = "disconnected" /\ isExecuting = 0
  /\ pending = 0
  /\ promise = [c \in Commands |-> "none"]
  /\ settledBy = [c \in Commands |-> 0]
  /\ timer = FALSE /\ stray = 0
  /\ mounted = FALSE /\ remounts = 0 /\ commands = 0
  /\ up = [i \in Sockets |-> <<>>]
  /\ serving = [i \in Sockets |-> FALSE]
  /\ running = [i \in Sockets |-> 0]
  /\ down = [i \in Sockets |-> <<>>]

Reply(i, type, c) == down' = [down EXCEPT ![i] = Append(@, [type |-> type, command |-> c])]

\* The backend accepts the socket, and its rate limiter lets it in or sends a
\* Failed of no command and closes it.
Admit(i)  == serving' = [serving EXCEPT ![i] = TRUE] /\ UNCHANGED down
Refuse(i) == Reply(i, "failed", 0) /\ UNCHANGED serving

-----------------------------------------------------------------------------
(* connect, and the callbacks of a socket. *)

IsOpen(i) == i # 0 /\ sock[i] = "open"

Fresh == {i \in Sockets : sock[i] = "none"}

\* Only an open socket keeps connect from making another one.
Connect ==
  IF IsOpen(wsRef) THEN UNCHANGED <<sock, wsRef, wsStatus>>
  ELSE \E i \in Fresh :
         /\ \A j \in Fresh : i <= j
         /\ sock' = [sock EXCEPT ![i] = "connecting"]
         /\ wsRef' = i
         /\ wsStatus' = "connecting"

OnOpen(i) ==
  /\ sock[i] = "connecting"
  /\ sock' = [sock EXCEPT ![i] = "open"]
  /\ wsStatus' = "connected"
  /\ \/ Admit(i) \/ Refuse(i)
  /\ UNCHANGED <<refs, isExecuting, life, results, commands, up, running>>

\* Mutant: onerror schedules a reconnect as well.
OnErrorReconnects(i) ==
  /\ sock[i] \in {"connecting", "open"}
  /\ sock' = [sock EXCEPT ![i] = "closing"]
  /\ wsStatus' = "error"
  /\ timer' = TRUE
  /\ UNCHANGED <<wsRef, pending, stray, isExecuting, life, results, commands, server>>

\* The handshake fails or the connection dies: onerror, and onclose to follow.
OnError(i) ==
  /\ sock[i] \in {"connecting", "open"}
  /\ sock' = [sock EXCEPT ![i] = "closing"]
  /\ wsStatus' = "error"
  /\ UNCHANGED <<refs, isExecuting, life, results, commands, server>>

\* The backend closes the socket after its last message (refused by the rate
\* limiter, or for an idle proxy in between).
ServerCloses(i) ==
  /\ sock[i] = "open"
  /\ down[i] = <<>>
  /\ sock' = [sock EXCEPT ![i] = "closing"]
  /\ UNCHANGED <<refs, store, life, results, commands, server>>

\* Whatever was on its way is lost, and nobody hears of what still runs.
Drop(i) ==
  /\ up' = [up EXCEPT ![i] = <<>>]
  /\ running' = [running EXCEPT ![i] = 0]
  /\ down' = [down EXCEPT ![i] = <<>>]

\* Mutants of OnClose: the reconnect, or the status, is forgotten.
OnCloseForgetful(i) ==
  /\ sock[i] = "closing"
  /\ sock' = [sock EXCEPT ![i] = "closed"]
  /\ wsRef' = 0
  /\ wsStatus' = "disconnected"
  /\ Drop(i)
  /\ UNCHANGED <<pending, timer, stray, isExecuting, life, results, commands, serving>>

OnCloseSilent(i) ==
  /\ sock[i] = "closing"
  /\ sock' = [sock EXCEPT ![i] = "closed"]
  /\ wsRef' = 0
  /\ timer' = TRUE
  /\ stray' = IF timer THEN stray + 1 ELSE stray
  /\ Drop(i)
  /\ UNCHANGED <<pending, store, life, results, commands, serving>>

\* onclose, of whichever socket it is.
OnClose(i) ==
  /\ sock[i] = "closing"
  /\ sock' = [sock EXCEPT ![i] = "closed"]
  /\ wsRef' = 0
  /\ wsStatus' = "disconnected"
  /\ timer' = TRUE
  /\ stray' = IF timer THEN stray + 1 ELSE stray
  /\ Drop(i)
  /\ UNCHANGED <<pending, isExecuting, life, results, commands, serving>>

TimerFires ==
  /\ \/ timer /\ timer' = FALSE /\ UNCHANGED stray
     \/ stray > 0 /\ stray' = stray - 1 /\ UNCHANGED timer
  /\ Connect
  /\ UNCHANGED <<pending, isExecuting, life, results, commands, server>>

-----------------------------------------------------------------------------
(* handleMessage. *)

\* Mutant: a third way to settle a promise.
SettleUndecided(how, c) ==
  /\ pending' = 0
  /\ promise' = IF pending = 0 THEN promise ELSE [promise EXCEPT ![pending] = "settled"]
  /\ settledBy' = IF pending = 0 THEN settledBy ELSE [settledBy EXCEPT ![pending] = c]

\* Done and Failed settle the pending promise, whichever command it is of.
Settle(how, c) ==
  /\ pending' = 0
  /\ promise' = IF pending = 0 THEN promise ELSE [promise EXCEPT ![pending] = how]
  /\ settledBy' = IF pending = 0 THEN settledBy ELSE [settledBy EXCEPT ![pending] = c]

\* Mutant: Failed does not clear isExecuting.
HandleFailedBusy(i, m) ==
  /\ m.type = "failed"
  /\ Settle("rejected", m.command)
  /\ UNCHANGED isExecuting

HandleStarted(i, m) ==
  /\ m.type = "started"
  /\ isExecuting' = i
  /\ UNCHANGED <<pending, results>>

HandleDone(i, m) ==
  /\ m.type = "done"
  /\ isExecuting' = 0
  /\ Settle("resolved", m.command)

HandleFailed(i, m) ==
  /\ m.type = "failed"
  /\ isExecuting' = 0
  /\ Settle("rejected", m.command)

\* onmessage: a socket that is no longer open delivers nothing.
OnMessage(i) ==
  /\ sock[i] = "open"
  /\ down[i] # <<>>
  /\ \/ HandleStarted(i, Head(down[i]))
     \/ HandleDone(i, Head(down[i]))
     \/ HandleFailed(i, Head(down[i]))
  /\ down' = [down EXCEPT ![i] = Tail(@)]
  /\ UNCHANGED <<sock, wsRef, timer, stray, wsStatus, life, commands, up, serving, running>>

-----------------------------------------------------------------------------
(* execute and executeWithResult, as the buttons of Header call them. *)

Submit ==
  /\ commands < MaxCommands
  /\ commands' = commands + 1
  /\ up' = [up EXCEPT ![wsRef] = Append(@, commands + 1)]
  /\ UNCHANGED <<sock, wsRef, timer, stray, store, life, settledBy, serving, running, down>>

\* Compile, Run or Test; without an open socket execute just returns.  The
\* entries of the run menu stay enabled while something is executing.
Execute ==
  /\ mounted
  /\ IsOpen(wsRef)
  /\ Submit
  /\ UNCHANGED <<pending, promise>>

\* Mutant: a second command takes the place of the first.
PublishOverPending ==
  /\ mounted
  /\ IsOpen(wsRef)
  /\ pending' = commands + 1
  /\ promise' = [promise EXCEPT ![commands + 1] = "waiting"]
  /\ Submit

\* Publish; it throws without an open socket, and while another one waits.
Publish ==
  /\ mounted
  /\ IsOpen(wsRef)
  /\ pending = 0
  /\ Submit
  /\ pending' = commands + 1
  /\ promise' = [promise EXCEPT ![commands + 1] = "waiting"]

-----------------------------------------------------------------------------
(* The effect of useWebSocket.  The refs survive a remount by StrictMode. *)

Mount ==
  /\ ~mounted
  /\ mounted' = TRUE
  /\ Connect
  /\ UNCHANGED <<pending, timer, stray, isExecuting, remounts, results, commands, server>>

\* The cleanup: clear the timeout in the ref, close the socket in the ref.
Unmount ==
  /\ mounted
  /\ remounts < MaxRemounts
  /\ mounted' = FALSE
  /\ remounts' = remounts + 1
  /\ timer' = FALSE
  /\ sock' = IF wsRef = 0 \/ sock[wsRef] \notin {"connecting", "open"} THEN sock
             ELSE [sock EXCEPT ![wsRef] = "closing"]
  /\ UNCHANGED <<wsRef, pending, stray, store, results, commands, server>>

-----------------------------------------------------------------------------
(* The backend at the other end of socket i. *)

Begin(i) ==
  /\ sock[i] = "open"
  /\ serving[i]
  /\ running[i] = 0
  /\ up[i] # <<>>
  /\ running' = [running EXCEPT ![i] = Head(up[i])]
  /\ up' = [up EXCEPT ![i] = Tail(@)]
  /\ Reply(i, "started", Head(up[i]))
  /\ UNCHANGED <<sock, refs, store, life, results, commands, serving>>

Finish(i) ==
  /\ sock[i] = "open"
  /\ running[i] # 0
  /\ \E how \in {"done", "failed"} : Reply(i, how, running[i])
  /\ running' = [running EXCEPT ![i] = 0]
  /\ UNCHANGED <<sock, refs, store, life, results, commands, up, serving>>

-----------------------------------------------------------------------------
Next ==
  \/ Mount \/ Unmount \/ TimerFires \/ Execute \/ Publish
  \/ \E i \in Sockets :
       \/ OnOpen(i) \/ OnError(i) \/ ServerCloses(i) \/ OnClose(i) \/ OnMessage(i)
       \/ Begin(i) \/ Finish(i)

Spec == Init /\ [][Next]_vars

\* Timers fire, events are dispatched and executions end (Execution shows
\* when); nothing makes a user act or the network fail.
FairSpec ==
  /\ Spec
  /\ WF_vars(Mount) /\ WF_vars(TimerFires)
  /\ \A i \in Sockets :
       /\ WF_vars(OnOpen(i) \/ OnError(i))
       /\ WF_vars(OnClose(i)) /\ WF_vars(OnMessage(i))
       /\ WF_vars(Begin(i)) /\ WF_vars(Finish(i))
       /\ WF_vars(~serving[i] /\ ServerCloses(i))
-----------------------------------------------------------------------------
TypeOK ==
  /\ sock \in [Sockets -> {"none", "connecting", "open", "closing", "closed"}]
  /\ wsRef \in 0..MaxSockets
  /\ wsStatus \in {"disconnected", "connecting", "connected", "error"}
  /\ isExecuting \in 0..MaxSockets
  /\ pending \in 0..MaxCommands
  /\ promise \in [Commands -> {"none", "waiting", "resolved", "rejected"}]
  /\ settledBy \in [Commands -> 0..MaxCommands]
  /\ timer \in BOOLEAN /\ stray \in Nat
  /\ mounted \in BOOLEAN /\ remounts \in 0..MaxRemounts
  /\ commands \in 0..MaxCommands
  /\ up \in [Sockets -> Seq(Commands)]
  /\ serving \in [Sockets -> BOOLEAN]
  /\ running \in [Sockets -> 0..MaxCommands]
  /\ down \in [Sockets ->
       Seq([type : {"started", "done", "failed"}, command : 0..MaxCommands])]

\* One page, one connection: the reconnect chain never has a second socket
\* alive beside the one in the ref, nor a timer armed beside a socket -- unless
\* the page was mounted twice, when the old socket's onclose clears the new ref.
SingleConnection == remounts = 0 =>
  /\ \A i \in Sockets : sock[i] \in {"connecting", "open", "closing"} => wsRef = i
  /\ timer => wsRef = 0
  /\ stray = 0

\* The status the user sees is that of the connection commands go to, with the
\* same exception.
StatusTruthful == remounts = 0 =>
  /\ IsOpen(wsRef) => wsStatus = "connected"
  /\ wsStatus = "connected" => wsRef # 0 /\ sock[wsRef] \in {"open", "closing"}

\* While the socket that announced an execution is open, "executing" is shown
\* only if the backend executes, or the end of the execution is on its way.
ExecutingTruthful ==
  IsOpen(isExecuting) =>
    \/ running[isExecuting] # 0
    \/ \E k \in DOMAIN down[isExecuting] : down[isExecuting][k].type \in {"done", "failed"}

\* No promise is forgotten: the one that waits is the one in the ref.
PendingKept ==
  \A c \in Commands : promise[c] = "waiting" <=> pending = c

\* A page without a connection gets one, or runs out of this model's sockets.
Reconnects ==
  (mounted /\ wsRef = 0) ~> (wsStatus = "connected" \/ Fresh = {})

-----------------------------------------------------------------------------
(* What the code or a document says, and the code does not do. *)

\* useWebSocket.ts:198, "Another command is already in progress": only one
\* command at a time is in progress while a promise waits, so that the result
\* it gets is the result of its own command.
OwnResult == \A c \in Commands : promise[c] = "resolved" => settledBy[c] = c
=============================================================================
