--------------------------- MODULE WsClientProofs ---------------------------
(***************************************************************************)
(* Proofs about the execute client, for any number of sockets, commands    *)
(* and remounts: a promise that waits is the one in the ref, a page that   *)
(* was mounted once has one connection and shows its status, and           *)
(* "executing" is shown only while an execution or its end is under way.   *)
(***************************************************************************)
EXTENDS WsClient, SequenceTheorems, TLAPS

Message == [type : {"started", "done", "failed"}, command : 0..MaxCommands]

\* Until the page is mounted there is nothing.
Unborn ==
  ~mounted /\ remounts = 0 => wsRef = 0 /\ ~timer /\ \A i \in Sockets : sock[i] = "none"

\* A socket that announced an execution has been open.
Announced == isExecuting # 0 => sock[isExecuting] \notin {"none", "connecting"}

\* The end of an execution follows its announcement.
Ends(i, k) == \E l \in DOMAIN down[i] : l > k /\ down[i][l].type \in {"done", "failed"}
StartedEnds ==
  \A i \in Sockets : \A k \in DOMAIN down[i] :
    down[i][k].type = "started" => running[i] # 0 \/ Ends(i, k)

ConnectionInv == Unborn /\ SingleConnection /\ StatusTruthful
ExecutingInv  == Announced /\ StartedEnds /\ ExecutingTruthful
ClientInv     == TypeOK /\ PendingKept /\ ConnectionInv /\ ExecutingInv

-----------------------------------------------------------------------------
(* Types. *)

\* At first there are no sockets and no commands.
LEMMA InitInv == Init => ClientInv
<1> SUFFICES ASSUME Init PROVE ClientInv
  OBVIOUS
<1> USE DEF Init
<1>1. up \in [Sockets -> Seq(Commands)] /\ down \in [Sockets -> Seq(Message)]
  OBVIOUS
<1>2. TypeOK
  <2>1. /\ wsRef \in 0..MaxSockets /\ isExecuting \in 0..MaxSockets /\ pending \in 0..MaxCommands
        /\ remounts \in 0..MaxRemounts /\ commands \in 0..MaxCommands /\ stray \in Nat
    BY BoundsType
  <2>2. settledBy \in [Commands -> 0..MaxCommands] /\ running \in [Sockets -> 0..MaxCommands]
    BY BoundsType
  <2>3. /\ sock \in [Sockets -> {"none", "connecting", "open", "closing", "closed"}]
        /\ promise \in [Commands -> {"none", "waiting", "resolved", "rejected"}]
        /\ serving \in [Sockets -> BOOLEAN]
    OBVIOUS
  <2> QED
    BY <1>1, <2>1, <2>2, <2>3 DEF TypeOK, Message
<1>3. PendingKept
  BY DEF PendingKept, Commands
<1>4. ConnectionInv
  BY DEF ConnectionInv, Unborn, SingleConnection, StatusTruthful, IsOpen
<1>5. ExecutingInv
  <2>1. \A i \in Sockets : DOMAIN down[i] = {}
    OBVIOUS
  <2> QED
    BY <2>1 DEF ExecutingInv, Announced, StartedEnds, ExecutingTruthful, IsOpen
<1> QED
  BY <1>2, <1>3, <1>4, <1>5 DEF ClientInv

\* The numbers of sockets and commands.
LEMMA Numbers ==
  /\ MaxSockets \in Nat /\ MaxCommands \in Nat /\ MaxRemounts \in Nat
  /\ \A i \in Sockets : i \in 0..MaxSockets /\ i # 0 /\ i \in Nat
  /\ \A c \in Commands : c \in 0..MaxCommands /\ c # 0 /\ c \in Nat
  /\ \A i \in 0..MaxSockets : i # 0 => i \in Sockets
  /\ \A c \in 0..MaxCommands : c # 0 => c \in Commands
  BY BoundsType DEF Sockets, Commands

\* What connect does, if it does something.
LEMMA Connects ==
  ASSUME TypeOK, Connect
  PROVE  \/ IsOpen(wsRef) /\ UNCHANGED <<sock, wsRef, wsStatus>>
         \/ /\ ~IsOpen(wsRef)
            /\ \E i \in Sockets : /\ sock[i] = "none" /\ wsRef' = i
                                  /\ sock' = [sock EXCEPT ![i] = "connecting"]
            /\ wsStatus' = "connecting"
  BY DEF Connect, Fresh

\* A step of a socket and of the store keeps their types.
LEMMA ConnectTyped ==
  ASSUME TypeOK, Connect
  PROVE  /\ sock' \in [Sockets -> {"none", "connecting", "open", "closing", "closed"}]
         /\ wsRef' \in 0..MaxSockets
         /\ wsStatus' \in {"disconnected", "connecting", "connected", "error"}
<1>1. CASE IsOpen(wsRef) /\ UNCHANGED <<sock, wsRef, wsStatus>>
  BY <1>1 DEF TypeOK
<1>2. CASE /\ \E i \in Sockets : /\ sock[i] = "none" /\ wsRef' = i
                                 /\ sock' = [sock EXCEPT ![i] = "connecting"]
           /\ wsStatus' = "connecting"
  BY <1>2, Numbers DEF TypeOK
<1> QED
  BY <1>1, <1>2, Connects

\* A message more, and a message less, on its way to the page.
LEMMA ReplyTyped ==
  ASSUME TypeOK, NEW i \in Sockets, NEW type \in {"started", "done", "failed"},
         NEW c \in 0..MaxCommands, Reply(i, type, c)
  PROVE  /\ down' \in [Sockets -> Seq(Message)]
         /\ \A j \in Sockets : j # i => down'[j] = down[j]
         /\ down'[i] = Append(down[i], [type |-> type, command |-> c])
         /\ [type |-> type, command |-> c] \in Message
<1>1. [type |-> type, command |-> c] \in Message
  BY DEF Message
<1>2. down \in [Sockets -> Seq(Message)]
  BY DEF TypeOK, Message
<1>3. Append(down[i], [type |-> type, command |-> c]) \in Seq(Message)
  BY <1>1, <1>2, AppendProperties
<1> QED
  BY <1>1, <1>2, <1>3 DEF Reply

\* The first message, and the rest.
LEMMA Messages ==
  ASSUME TypeOK, NEW i \in Sockets, down[i] # <<>>
  PROVE  Head(down[i]) \in Message /\ Tail(down[i]) \in Seq(Message)
  BY HeadTailProperties DEF TypeOK, Message

\* Every step keeps the types.
LEMMA TypeStep == TypeOK /\ [Next]_vars => TypeOK'
<1> SUFFICES ASSUME TypeOK, [Next]_vars PROVE TypeOK'
  OBVIOUS
<1> USE DEF TypeOK
<1>0. down \in [Sockets -> Seq(Message)]
  BY DEF Message
<1>1. CASE Mount
  BY <1>1, ConnectTyped DEF Mount, results, server
<1>2. CASE Unmount
  <2>1. sock' \in [Sockets -> {"none", "connecting", "open", "closing", "closed"}]
    BY <1>2 DEF Unmount
  <2>2. remounts' \in 0..MaxRemounts
    BY <1>2, BoundsType DEF Unmount
  <2> QED
    BY <1>2, <2>1, <2>2 DEF Unmount, store, results, server
<1>3. CASE TimerFires
  <2>1. timer' \in BOOLEAN /\ stray' \in Nat
    <3>1. CASE timer' = FALSE /\ UNCHANGED stray
      BY <3>1
    <3>2. CASE stray > 0 /\ stray' = stray - 1 /\ UNCHANGED timer
      <4>1. stray' \in Nat
        BY <3>2
      <4> QED
        BY <3>2, <4>1
    <3> QED
      BY <1>3, <3>1, <3>2 DEF TimerFires
  <2> QED
    BY <1>3, <2>1, ConnectTyped DEF TimerFires, life, results, server
<1>4. ASSUME Submit, IsOpen(wsRef), UNCHANGED mounted,
             pending' \in 0..MaxCommands,
             promise' \in [Commands -> {"none", "waiting", "resolved", "rejected"}]
      PROVE  TypeOK'
  <2>1. wsRef \in Sockets /\ commands + 1 \in Commands /\ commands' \in 0..MaxCommands
    BY <1>4, Numbers DEF Submit, IsOpen, Commands
  <2>2. Append(up[wsRef], commands + 1) \in Seq(Commands)
    BY <2>1, AppendProperties
  <2>3. up' \in [Sockets -> Seq(Commands)]
    BY <1>4, <2>1, <2>2 DEF Submit
  <2> QED
    BY <1>4, <2>1, <2>3 DEF Submit, store, life
<1>5. CASE Execute
  BY <1>4, <1>5 DEF Execute, Submit, life
<1>6. CASE Publish
  <2>1. commands + 1 \in Commands /\ commands + 1 \in 0..MaxCommands
    BY <1>6, Numbers DEF Publish, Submit, Commands
  <2> QED
    BY <1>4, <1>6, <2>1 DEF Publish, Submit, life
<1>7. ASSUME NEW i \in Sockets, OnOpen(i) PROVE TypeOK'
  <2>1. serving' \in [Sockets -> BOOLEAN] /\ down' \in [Sockets -> Seq(Message)]
    <3>1. CASE Admit(i)
      BY <1>0, <3>1 DEF Admit
    <3>2. CASE Refuse(i)
      <4>1. 0 \in 0..MaxCommands
        BY BoundsType
      <4>2. Reply(i, "failed", 0) /\ UNCHANGED serving
        BY <3>2 DEF Refuse
      <4>3. down' \in [Sockets -> Seq(Message)]
        BY <4>1, <4>2, ReplyTyped
      <4> QED
        BY <4>2, <4>3
    <3> QED
      BY <1>7, <3>1, <3>2 DEF OnOpen
  <2>2. sock' \in [Sockets -> {"none", "connecting", "open", "closing", "closed"}]
    BY <1>7 DEF OnOpen
  <2> QED
    BY <1>7, <2>1, <2>2 DEF OnOpen, refs, life, results, Message
<1>8. ASSUME NEW i \in Sockets, OnError(i) \/ ServerCloses(i) PROVE TypeOK'
  <2>1. sock' \in [Sockets -> {"none", "connecting", "open", "closing", "closed"}]
    BY <1>8 DEF OnError, ServerCloses
  <2> QED
    BY <1>8, <2>1 DEF OnError, ServerCloses, refs, store, life, results, server
<1>9. ASSUME NEW i \in Sockets, OnClose(i) PROVE TypeOK'
  <2>1. sock' \in [Sockets -> {"none", "connecting", "open", "closing", "closed"}]
    BY <1>9 DEF OnClose
  <2>2. stray' \in Nat /\ timer' \in BOOLEAN /\ wsRef' \in 0..MaxSockets
    BY <1>9, BoundsType DEF OnClose
  <2>3. up' \in [Sockets -> Seq(Commands)] /\ down' \in [Sockets -> Seq(Message)]
    BY <1>0, <1>9 DEF OnClose, Drop
  <2>4. running' \in [Sockets -> 0..MaxCommands]
    BY <1>9, BoundsType DEF OnClose, Drop
  <2> QED
    BY <1>9, <2>1, <2>2, <2>3, <2>4 DEF OnClose, life, results, Message
<1>10. ASSUME NEW i \in Sockets, OnMessage(i) PROVE TypeOK'
  <2> DEFINE m == Head(down[i])
  <2>1. m \in Message /\ down' \in [Sockets -> Seq(Message)]
    BY <1>0, <1>10, Messages DEF OnMessage
  <2>2. m.command \in 0..MaxCommands
    BY <2>1 DEF Message
  <2> HIDE DEF m
  <2>3. ASSUME NEW how \in {"resolved", "rejected"}, NEW c \in 0..MaxCommands, Settle(how, c)
        PROVE  /\ pending' \in 0..MaxCommands
               /\ promise' \in [Commands -> {"none", "waiting", "resolved", "rejected"}]
               /\ settledBy' \in [Commands -> 0..MaxCommands]
    <3>1. pending' \in 0..MaxCommands
      BY <2>3, BoundsType DEF Settle
    <3>2. promise' \in [Commands -> {"none", "waiting", "resolved", "rejected"}]
      BY <2>3 DEF Settle
    <3>3. settledBy' \in [Commands -> 0..MaxCommands]
      BY <2>3 DEF Settle
    <3> QED
      BY <3>1, <3>2, <3>3
  <2>4. /\ isExecuting' \in 0..MaxSockets /\ pending' \in 0..MaxCommands
        /\ promise' \in [Commands -> {"none", "waiting", "resolved", "rejected"}]
        /\ settledBy' \in [Commands -> 0..MaxCommands]
    <3>1. CASE HandleStarted(i, m)
      BY <3>1, Numbers DEF HandleStarted, results
    <3>2. CASE HandleDone(i, m)
      BY <2>2, <2>3, <3>2, BoundsType DEF HandleDone
    <3>3. CASE HandleFailed(i, m)
      BY <2>2, <2>3, <3>3, BoundsType DEF HandleFailed
    <3> QED
      BY <1>10, <3>1, <3>2, <3>3 DEF OnMessage, m
  <2> QED
    BY <1>10, <2>1, <2>4 DEF OnMessage, life, Message
<1>11. ASSUME NEW i \in Sockets, Begin(i) PROVE TypeOK'
  <2>1. Head(up[i]) \in Commands /\ Tail(up[i]) \in Seq(Commands)
    BY <1>11, HeadTailProperties DEF Begin
  <2>2. running' \in [Sockets -> 0..MaxCommands] /\ up' \in [Sockets -> Seq(Commands)]
    BY <1>11, <2>1, Numbers DEF Begin
  <2>3. down' \in [Sockets -> Seq(Message)]
    BY <1>11, <2>1, Numbers, ReplyTyped DEF Begin
  <2> QED
    BY <1>11, <2>2, <2>3 DEF Begin, refs, store, life, results, Message
<1>12. ASSUME NEW i \in Sockets, Finish(i) PROVE TypeOK'
  <2>1. running[i] \in 0..MaxCommands
    OBVIOUS
  <2>2. PICK how \in {"done", "failed"} : Reply(i, how, running[i])
    BY <1>12 DEF Finish
  <2>3. down' \in [Sockets -> Seq(Message)]
    <3>1. how \in {"started", "done", "failed"}
      BY <2>2
    <3> QED
      BY <2>1, <2>2, <3>1, ReplyTyped
  <2>4. running' \in [Sockets -> 0..MaxCommands]
    BY <1>12, BoundsType DEF Finish
  <2> QED
    BY <1>12, <2>3, <2>4 DEF Finish, refs, store, life, results, Message
<1>13. CASE UNCHANGED vars
  BY <1>13 DEF vars, refs, store, life, results, server
<1> QED
  BY <1>1, <1>2, <1>3, <1>5, <1>6, <1>7, <1>8, <1>9, <1>10, <1>11, <1>12, <1>13 DEF Next

-----------------------------------------------------------------------------
(* The promises. *)

\* Only Publish makes a promise wait, and only what settles it lets it go.
LEMMA PendingStep == TypeOK /\ PendingKept /\ [Next]_vars => PendingKept'
<1> SUFFICES ASSUME TypeOK, PendingKept, [Next]_vars PROVE PendingKept'
  OBVIOUS
<1>0. promise \in [Commands -> {"none", "waiting", "resolved", "rejected"}] /\ pending \in 0..MaxCommands
  BY DEF TypeOK
<1>1. CASE pending' = pending /\ promise' = promise
  BY <1>1 DEF PendingKept
<1>2. CASE Publish
  <2>1. pending = 0 /\ pending' = commands + 1 /\ promise' = [promise EXCEPT ![commands + 1] = "waiting"]
    BY <1>2 DEF Publish
  <2>2. commands + 1 \in Commands
    BY <1>2, Numbers DEF Publish, Submit, Commands, TypeOK
  <2>3. \A c \in Commands : promise[c] # "waiting"
    BY <2>1, Numbers DEF PendingKept
  <2> QED
    BY <1>0, <2>1, <2>2, <2>3 DEF PendingKept
<1>3. ASSUME NEW how \in {"resolved", "rejected"}, NEW c, Settle(how, c) PROVE PendingKept'
  <2>1. pending' = 0 /\ promise' = IF pending = 0 THEN promise ELSE [promise EXCEPT ![pending] = how]
    BY <1>3 DEF Settle
  <2>2. \A d \in Commands : promise'[d] # "waiting"
    <3>1. CASE pending = 0
      BY <2>1, <3>1, Numbers DEF PendingKept
    <3>2. CASE pending # 0
      <4>1. pending \in Commands
        BY <1>0, <3>2, Numbers
      <4>2. \A d \in Commands : promise'[d] = IF d = pending THEN how ELSE promise[d]
        BY <1>0, <2>1, <3>2, <4>1
      <4> QED
        BY <4>2 DEF PendingKept
    <3> QED
      BY <3>1, <3>2
  <2> QED
    BY <2>1, <2>2, Numbers DEF PendingKept
<1>4. ASSUME NEW i \in Sockets, OnMessage(i) PROVE PendingKept'
  BY <1>1, <1>3, <1>4 DEF OnMessage, HandleStarted, HandleDone, HandleFailed, results
<1>5. ASSUME NEW i \in Sockets, OnOpen(i) \/ OnError(i) \/ ServerCloses(i) \/ OnClose(i) \/ Begin(i) \/ Finish(i)
      PROVE  pending' = pending /\ promise' = promise
  BY <1>5 DEF OnOpen, OnError, ServerCloses, OnClose, Begin, Finish, refs, results
<1>6. ASSUME Mount \/ Unmount \/ TimerFires \/ Execute \/ UNCHANGED vars
      PROVE  pending' = pending /\ promise' = promise
  BY <1>6 DEF Mount, Unmount, TimerFires, Execute, vars, refs, results
<1> QED
  BY <1>1, <1>2, <1>4, <1>5, <1>6 DEF Next

-----------------------------------------------------------------------------
(* The connection. *)

\* With one socket at a time, a reconnect replaces one that has closed.
LEMMA ConnectionStep == TypeOK /\ ConnectionInv /\ [Next]_vars => ConnectionInv'
<1> SUFFICES ASSUME TypeOK, ConnectionInv, [Next]_vars PROVE ConnectionInv'
  OBVIOUS
<1>0. /\ sock \in [Sockets -> {"none", "connecting", "open", "closing", "closed"}]
      /\ wsRef \in 0..MaxSockets /\ 0 \notin Sockets
      /\ \A i \in 0..MaxSockets : i # 0 => i \in Sockets
  BY Numbers DEF TypeOK
<1> DEFINE Alive(s) == s \in {"connecting", "open", "closing"}
<1> DEFINE One   == /\ \A i \in Sockets : Alive(sock[i]) => wsRef = i
                    /\ timer => wsRef = 0
                    /\ stray = 0
<1> DEFINE Shown == /\ IsOpen(wsRef) => wsStatus = "connected"
                    /\ wsStatus = "connected" => wsRef # 0 /\ sock[wsRef] \in {"open", "closing"}
<1>1. remounts' = 0 => remounts = 0
  BY DEF TypeOK, Next, Mount, Unmount, TimerFires, Execute, Publish, Submit, OnOpen, OnError,
         ServerCloses, OnClose, OnMessage, Begin, Finish, life, vars
<1>2. SUFFICES ASSUME remounts = 0, remounts' = 0
               PROVE  /\ ~mounted' => wsRef' = 0 /\ ~timer' /\ \A i \in Sockets : sock'[i] = "none"
                      /\ One' /\ Shown'
  BY <1>1 DEF ConnectionInv, Unborn, SingleConnection, StatusTruthful
<1>3. One /\ Shown /\ (~mounted => wsRef = 0 /\ ~timer /\ \A i \in Sockets : sock[i] = "none")
  BY <1>2 DEF ConnectionInv, Unborn, SingleConnection, StatusTruthful
<1>4. ASSUME Connect, mounted', timer' => timer /\ mounted, wsRef = 0 \/ IsOpen(wsRef), timer' => wsRef' = 0,
             stray' = 0
      PROVE  One' /\ Shown'
  <2>1. CASE IsOpen(wsRef) /\ UNCHANGED <<sock, wsRef, wsStatus>>
    BY <1>3, <1>4, <2>1 DEF IsOpen
  <2>2. CASE /\ ~IsOpen(wsRef)
             /\ \E i \in Sockets : /\ sock[i] = "none" /\ wsRef' = i
                                   /\ sock' = [sock EXCEPT ![i] = "connecting"]
             /\ wsStatus' = "connecting"
    <3>1. PICK i \in Sockets : sock[i] = "none" /\ wsRef' = i /\ sock' = [sock EXCEPT ![i] = "connecting"]
      BY <2>2
    <3>2. \A j \in Sockets : ~Alive(sock[j])
      BY <1>0, <1>3, <1>4, <2>2
    <3>3. \A j \in Sockets : sock'[j] = IF j = i THEN "connecting" ELSE sock[j]
      BY <1>0, <3>1
    <3>4. One'
      BY <1>4, <3>1, <3>2, <3>3
    <3>5. Shown'
      BY <2>2, <3>1, <3>3 DEF IsOpen
    <3> QED
      BY <3>4, <3>5
  <2> QED
    BY <1>4, <2>1, <2>2, Connects
<1>5. ASSUME NEW i \in Sockets, NEW s \in {"open", "closing"}, Alive(sock[i]),
             sock' = [sock EXCEPT ![i] = s], UNCHANGED <<wsRef, timer, stray, mounted>>,
             s = "open" => wsStatus' = "connected",
             s = "closing" => wsStatus' \in {"error", wsStatus}
      PROVE  /\ ~mounted' => wsRef' = 0 /\ ~timer' /\ \A j \in Sockets : sock'[j] = "none"
             /\ One' /\ Shown'
  <2>1. wsRef = i /\ mounted
    BY <1>3, <1>5
  <2>2. \A j \in Sockets : sock'[j] = IF j = i THEN s ELSE sock[j]
    BY <1>0, <1>5
  <2>3. One'
    BY <1>3, <1>5, <2>1, <2>2
  <2>4. Shown'
    BY <1>0, <1>3, <1>5, <2>1, <2>2 DEF IsOpen
  <2> QED
    BY <1>5, <2>1, <2>3, <2>4
<1>6. ASSUME UNCHANGED <<sock, wsRef, timer, stray, mounted, wsStatus>>
      PROVE  /\ ~mounted' => wsRef' = 0 /\ ~timer' /\ \A j \in Sockets : sock'[j] = "none"
             /\ One' /\ Shown'
  BY <1>3, <1>6 DEF IsOpen
<1>7. CASE Mount
  <2>1. Connect /\ mounted' /\ ~mounted /\ timer' = timer /\ stray' = stray
    BY <1>7 DEF Mount
  <2>2. wsRef = 0 /\ ~timer' /\ stray' = 0
    BY <1>3, <2>1
  <2> QED
    BY <1>4, <2>1, <2>2
<1>8. CASE Unmount
  BY <1>2, <1>8 DEF Unmount
<1>9. CASE TimerFires
  <2>1. timer /\ ~timer' /\ stray' = 0 /\ Connect /\ mounted' = mounted
    BY <1>3, <1>9 DEF TimerFires, life
  <2>2. wsRef = 0 /\ mounted
    BY <1>3, <2>1
  <2> QED
    BY <1>4, <2>1, <2>2
<1>10. CASE Execute \/ Publish
  BY <1>6, <1>10 DEF Execute, Publish, Submit, store, life
<1>11. ASSUME NEW i \in Sockets, OnOpen(i)
       PROVE  /\ ~mounted' => wsRef' = 0 /\ ~timer' /\ \A j \in Sockets : sock'[j] = "none"
              /\ One' /\ Shown'
  BY <1>5, <1>11 DEF OnOpen, refs, life
<1>12. ASSUME NEW i \in Sockets, OnError(i) \/ ServerCloses(i)
       PROVE  /\ ~mounted' => wsRef' = 0 /\ ~timer' /\ \A j \in Sockets : sock'[j] = "none"
              /\ One' /\ Shown'
  BY <1>5, <1>12 DEF OnError, ServerCloses, refs, store, life
<1>13. ASSUME NEW i \in Sockets, OnClose(i)
       PROVE  /\ ~mounted' => wsRef' = 0 /\ ~timer' /\ \A j \in Sockets : sock'[j] = "none"
              /\ One' /\ Shown'
  <2>1. wsRef = i /\ mounted /\ ~timer
    BY <1>0, <1>3, <1>13 DEF OnClose
  <2>2. wsRef' = 0 /\ wsStatus' = "disconnected" /\ stray' = 0 /\ mounted' = mounted
    BY <1>3, <1>13, <2>1 DEF OnClose, life
  <2>3. \A j \in Sockets : sock'[j] = IF j = i THEN "closed" ELSE sock[j]
    BY <1>0, <1>13 DEF OnClose
  <2>4. \A j \in Sockets : ~Alive(sock'[j])
    BY <1>3, <2>1, <2>3
  <2> QED
    BY <2>1, <2>2, <2>4 DEF IsOpen
<1>14. ASSUME NEW i \in Sockets, OnMessage(i) \/ Begin(i) \/ Finish(i)
       PROVE  /\ ~mounted' => wsRef' = 0 /\ ~timer' /\ \A j \in Sockets : sock'[j] = "none"
              /\ One' /\ Shown'
  BY <1>6, <1>14 DEF OnMessage, Begin, Finish, refs, store, life
<1>15. CASE UNCHANGED vars
  BY <1>6, <1>15 DEF vars, refs, store, life
<1> HIDE DEF One, Shown, Alive
<1> QED
  BY <1>7, <1>8, <1>9, <1>10, <1>11, <1>12, <1>13, <1>14, <1>15 DEF Next

-----------------------------------------------------------------------------
(* What executes. *)

\* A message more at the end leaves the others where they were.
LEMMA AppendMessages ==
  ASSUME NEW s \in Seq(Message), NEW m \in Message
  PROVE  /\ DOMAIN s \subseteq DOMAIN Append(s, m)
         /\ \A k \in DOMAIN s : Append(s, m)[k] = s[k]
         /\ Len(s) + 1 \in DOMAIN Append(s, m) /\ Append(s, m)[Len(s) + 1] = m
         /\ \A k \in DOMAIN Append(s, m) : k \in DOMAIN s \/ k = Len(s) + 1
         /\ \A k \in DOMAIN s : Len(s) + 1 > k
<1>1. Len(s) \in Nat /\ DOMAIN s = 1..Len(s)
  BY LenProperties
<1>2. Append(s, m) \in Seq(Message) /\ Len(Append(s, m)) = Len(s) + 1
  BY AppendProperties
<1>3. DOMAIN Append(s, m) = 1..(Len(s) + 1)
  BY <1>2, LenProperties
<1>4. Append(s, m)[Len(s) + 1] = m /\ \A k \in 1..Len(s) : Append(s, m)[k] = s[k]
  BY AppendProperties
<1> QED
  BY <1>1, <1>3, <1>4

\* Without the first message, the others move up by one.
LEMMA TailMessages ==
  ASSUME NEW s \in Seq(Message), s # <<>>
  PROVE  /\ Len(s) \in Nat /\ Len(s) # 0 /\ DOMAIN s = 1..Len(s)
         /\ DOMAIN Tail(s) = 1..(Len(s) - 1)
         /\ \A k \in DOMAIN Tail(s) : Tail(s)[k] = s[k + 1] /\ k + 1 \in DOMAIN s
         /\ Head(s) = s[1] /\ 1 \in DOMAIN s
<1>1. Len(s) \in Nat /\ DOMAIN s = 1..Len(s)
  BY LenProperties
<1>2. Tail(s) \in Seq(Message) /\ Len(Tail(s)) = Len(s) - 1 /\ \A k \in 1..Len(Tail(s)) : Tail(s)[k] = s[k + 1]
  BY HeadTailProperties
<1>3. DOMAIN Tail(s) = 1..(Len(s) - 1) /\ Len(Tail(s)) \in Nat
  BY <1>2, LenProperties
<1>4. Len(s) # 0
  BY <1>1, <1>2, <1>3
<1>5. Head(s) = s[1]
  OBVIOUS
<1>6. \A k \in 1..(Len(s) - 1) : k + 1 \in 1..Len(s)
  BY <1>1
<1> QED
  BY <1>1, <1>2, <1>3, <1>4, <1>5, <1>6

\* Nothing happens to the messages of a socket, or an end joins them.
LEMMA EndsLast ==
  ASSUME TypeOK, ExecutingInv, NEW i \in Sockets, UNCHANGED <<sock, isExecuting>>,
         \A j \in Sockets : j # i => down'[j] = down[j] /\ running'[j] = running[j],
         \/ down'[i] = down[i] /\ (running[i] # 0 => running'[i] # 0)
         \/ \E m \in Message : /\ down'[i] = Append(down[i], m)
                               /\ m.type \in {"done", "failed"} \/ running'[i] # 0
  PROVE  ExecutingInv'
<1>0. down[i] \in Seq(Message) /\ isExecuting \in 0..MaxSockets
  BY DEF TypeOK, Message
<1>1. Announced'
  BY DEF ExecutingInv, Announced
<1>2. ASSUME NEW j \in Sockets, j # i
      PROVE  \A k \in DOMAIN down'[j] : down'[j][k].type = "started" => running'[j] # 0 \/ Ends(j, k)'
  BY <1>2 DEF ExecutingInv, StartedEnds, Ends
<1>3. CASE down'[i] = down[i] /\ (running[i] # 0 => running'[i] # 0)
  <2>1. StartedEnds'
    BY <1>2, <1>3 DEF ExecutingInv, StartedEnds, Ends
  <2>2. ExecutingTruthful'
    BY <1>0, <1>3, Numbers DEF ExecutingInv, ExecutingTruthful, IsOpen
  <2> QED
    BY <1>1, <2>1, <2>2 DEF ExecutingInv
<1>4. CASE \E m \in Message : /\ down'[i] = Append(down[i], m)
                              /\ m.type \in {"done", "failed"} \/ running'[i] # 0
  <2>1. PICK m \in Message : /\ down'[i] = Append(down[i], m)
                             /\ m.type \in {"done", "failed"} \/ running'[i] # 0
    BY <1>4
  <2>2. CASE running'[i] # 0
    <3>1. StartedEnds'
      BY <1>2, <2>2 DEF StartedEnds
    <3>2. ExecutingTruthful'
      BY <1>0, <2>2, Numbers DEF ExecutingInv, ExecutingTruthful, IsOpen
    <3> QED
      BY <1>1, <3>1, <3>2 DEF ExecutingInv
  <2>3. CASE m.type \in {"done", "failed"}
    <3> DEFINE last == Len(down[i]) + 1
    <3>1. /\ last \in DOMAIN down'[i] /\ down'[i][last] = m
          /\ \A k \in DOMAIN down'[i] : k \in DOMAIN down[i] \/ k = last
          /\ \A k \in DOMAIN down[i] : last > k
      BY <1>0, <2>1, AppendMessages
    <3> HIDE DEF last
    <3>2. \A k \in DOMAIN down'[i] : down'[i][k].type = "started" => Ends(i, k)'
      <4>1. m.type # "started"
        BY <2>3
      <4> QED
        BY <2>3, <3>1, <4>1 DEF Ends
    <3>3. StartedEnds'
      BY <1>2, <3>2 DEF StartedEnds
    <3>4. ExecutingTruthful'
      BY <1>0, <2>3, <3>1, Numbers DEF ExecutingInv, ExecutingTruthful, IsOpen
    <3> QED
      BY <1>1, <3>3, <3>4 DEF ExecutingInv
  <2> QED
    BY <2>1, <2>2, <2>3
<1> QED
  BY <1>3, <1>4

\* "executing" is shown for a socket with an execution, or with its end under way.
LEMMA ExecutingStep == TypeOK /\ ExecutingInv /\ [Next]_vars => ExecutingInv'
<1> SUFFICES ASSUME TypeOK, ExecutingInv, [Next]_vars PROVE ExecutingInv'
  OBVIOUS
<1>0. /\ sock \in [Sockets -> {"none", "connecting", "open", "closing", "closed"}]
      /\ isExecuting \in 0..MaxSockets /\ wsRef \in 0..MaxSockets
      /\ down \in [Sockets -> Seq(Message)] /\ running \in [Sockets -> 0..MaxCommands]
      /\ \A j \in 0..MaxSockets : j # 0 => j \in Sockets
  BY Numbers DEF TypeOK, Message
<1>1. ASSUME UNCHANGED <<isExecuting, down, running>>,
             \A j \in Sockets : \/ sock'[j] = sock[j] \/ sock'[j] = "closing"
                                \/ sock[j] = "none" /\ sock'[j] = "connecting"
      PROVE  ExecutingInv'
  <2>1. Announced'
    BY <1>0, <1>1 DEF ExecutingInv, Announced
  <2>2. StartedEnds'
    BY <1>1 DEF ExecutingInv, StartedEnds, Ends
  <2>3. IsOpen(isExecuting)' => IsOpen(isExecuting)
    BY <1>0, <1>1 DEF IsOpen
  <2>4. ExecutingTruthful'
    BY <1>0, <1>1, <2>3 DEF ExecutingInv, ExecutingTruthful
  <2> QED
    BY <2>1, <2>2, <2>4 DEF ExecutingInv
<1>2. Connect => \A j \in Sockets : \/ sock'[j] = sock[j] \/ sock'[j] = "closing"
                                    \/ sock[j] = "none" /\ sock'[j] = "connecting"
  BY <1>0, Connects
<1>3. CASE Mount \/ TimerFires
  <2>1. Connect /\ UNCHANGED <<isExecuting, down, running>>
    BY <1>3 DEF Mount, TimerFires, server
  <2> QED
    BY <1>1, <1>2, <2>1
<1>4. CASE Unmount
  <2>1. UNCHANGED <<isExecuting, down, running>>
    BY <1>4 DEF Unmount, store, server
  <2>2. \A j \in Sockets : sock'[j] = sock[j] \/ sock'[j] = "closing"
    BY <1>0, <1>4 DEF Unmount
  <2> QED
    BY <1>1, <2>1, <2>2
<1>5. CASE Execute \/ Publish
  BY <1>1, <1>5 DEF Execute, Publish, Submit, store
<1>6. ASSUME NEW i \in Sockets, OnOpen(i) PROVE ExecutingInv'
  <2>1. isExecuting # i
    BY <1>6, Numbers DEF OnOpen, ExecutingInv, Announced
  <2>2. isExecuting' = isExecuting /\ running' = running
    BY <1>6 DEF OnOpen
  <2>3. \A j \in Sockets : sock'[j] = IF j = i THEN "open" ELSE sock[j]
    BY <1>0, <1>6 DEF OnOpen
  <2>4. \A j \in Sockets : j # i => down'[j] = down[j]
    BY <1>0, <1>6 DEF OnOpen, Admit, Refuse, Reply
  <2>5. \/ down'[i] = down[i]
        \/ \E m \in Message : m.type = "failed" /\ down'[i] = Append(down[i], m)
    <3>1. CASE Admit(i)
      BY <3>1 DEF Admit
    <3>2. CASE Refuse(i)
      <4>1. [type |-> "failed", command |-> 0] \in Message
        BY BoundsType DEF Message
      <4>2. down'[i] = Append(down[i], [type |-> "failed", command |-> 0])
        BY <1>0, <3>2 DEF Refuse, Reply
      <4> QED
        BY <4>1, <4>2
    <3> QED
      BY <1>6, <3>1, <3>2 DEF OnOpen
  <2>6. Announced'
    BY <1>0, <2>1, <2>2, <2>3 DEF ExecutingInv, Announced
  <2>7. ExecutingTruthful'
    BY <1>0, <2>1, <2>2, <2>3, <2>4 DEF ExecutingInv, ExecutingTruthful, IsOpen
  <2>8. \A j \in Sockets : j # i => \A k \in DOMAIN down'[j] :
          down'[j][k].type = "started" => running'[j] # 0 \/ Ends(j, k)'
    BY <2>2, <2>4 DEF ExecutingInv, StartedEnds, Ends
  <2>9. \A k \in DOMAIN down'[i] : down'[i][k].type = "started" => running'[i] # 0 \/ Ends(i, k)'
    <3>1. CASE down'[i] = down[i]
      BY <2>2, <3>1 DEF ExecutingInv, StartedEnds, Ends
    <3>2. CASE \E m \in Message : m.type = "failed" /\ down'[i] = Append(down[i], m)
      <4>1. PICK m \in Message : m.type = "failed" /\ down'[i] = Append(down[i], m)
        BY <3>2
      <4>2. /\ Len(down[i]) + 1 \in DOMAIN down'[i] /\ down'[i][Len(down[i]) + 1] = m
            /\ \A k \in DOMAIN down'[i] : k \in DOMAIN down[i] \/ k = Len(down[i]) + 1
            /\ \A k \in DOMAIN down[i] : Len(down[i]) + 1 > k
        BY <1>0, <4>1, AppendMessages
      <4> QED
        BY <4>1, <4>2 DEF Ends
    <3> QED
      BY <2>5, <3>1, <3>2
  <2>10. StartedEnds'
    BY <2>8, <2>9 DEF StartedEnds
  <2> QED
    BY <2>6, <2>7, <2>10 DEF ExecutingInv
<1>7. ASSUME NEW i \in Sockets, OnError(i) \/ ServerCloses(i) PROVE ExecutingInv'
  <2>1. UNCHANGED <<isExecuting, down, running>>
    BY <1>7 DEF OnError, ServerCloses, store, server
  <2>2. \A j \in Sockets : sock'[j] = sock[j] \/ sock'[j] = "closing"
    BY <1>0, <1>7 DEF OnError, ServerCloses
  <2> QED
    BY <1>1, <2>1, <2>2
<1>8. ASSUME NEW i \in Sockets, OnClose(i) PROVE ExecutingInv'
  <2>1. isExecuting' = isExecuting
    BY <1>8 DEF OnClose
  <2>2. \A j \in Sockets : sock'[j] = IF j = i THEN "closed" ELSE sock[j]
    BY <1>0, <1>8 DEF OnClose
  <2>3. /\ \A j \in Sockets : j # i => down'[j] = down[j] /\ running'[j] = running[j]
        /\ down'[i] = <<>>
    BY <1>0, <1>8 DEF OnClose, Drop
  <2>4. Announced'
    BY <1>0, <2>1, <2>2 DEF ExecutingInv, Announced
  <2>5. StartedEnds'
    <3>1. DOMAIN down'[i] = {}
      BY <2>3
    <3> QED
      BY <2>3, <3>1 DEF ExecutingInv, StartedEnds, Ends
  <2>6. ExecutingTruthful'
    BY <1>0, <2>1, <2>2, <2>3 DEF ExecutingInv, ExecutingTruthful, IsOpen
  <2> QED
    BY <2>4, <2>5, <2>6 DEF ExecutingInv
<1>9. ASSUME NEW i \in Sockets, OnMessage(i) PROVE ExecutingInv'
  <2>1. /\ sock[i] = "open" /\ down[i] # <<>> /\ UNCHANGED <<sock, running>>
        /\ \A j \in Sockets : j # i => down'[j] = down[j]
        /\ down'[i] = Tail(down[i])
    BY <1>0, <1>9 DEF OnMessage
  <2>2. /\ DOMAIN down[i] = 1..Len(down[i]) /\ Len(down[i]) \in Nat
        /\ DOMAIN down'[i] = 1..(Len(down[i]) - 1)
        /\ \A k \in DOMAIN down'[i] : down'[i][k] = down[i][k + 1] /\ k + 1 \in DOMAIN down[i]
        /\ Head(down[i]) = down[i][1] /\ 1 \in DOMAIN down[i]
    BY <1>0, <2>1, TailMessages
  <2>3. ASSUME NEW k \in DOMAIN down[i], Ends(i, k)
        PROVE  \E l \in DOMAIN down'[i] : l > k - 1 /\ down'[i][l].type \in {"done", "failed"}
    <3>1. PICK l \in DOMAIN down[i] : l > k /\ down[i][l].type \in {"done", "failed"}
      BY <2>3 DEF Ends
    <3>2. l - 1 \in DOMAIN down'[i] /\ l - 1 > k - 1 /\ (l - 1) + 1 = l
      BY <2>2, <3>1
    <3>3. down'[i][l - 1] = down[i][l]
      BY <2>2, <3>2
    <3> QED
      BY <3>1, <3>2, <3>3
  <2>4. StartedEnds'
    <3>1. \A j \in Sockets : j # i => \A k \in DOMAIN down'[j] :
            down'[j][k].type = "started" => running'[j] # 0 \/ Ends(j, k)'
      BY <2>1 DEF ExecutingInv, StartedEnds, Ends
    <3>2. ASSUME NEW k \in DOMAIN down'[i], down'[i][k].type = "started"
          PROVE  running'[i] # 0 \/ Ends(i, k)'
      <4>1. k + 1 \in DOMAIN down[i] /\ down[i][k + 1].type = "started"
        BY <2>2, <3>2
      <4>2. running[i] # 0 \/ Ends(i, k + 1)
        BY <4>1 DEF ExecutingInv, StartedEnds
      <4>3. Ends(i, k + 1) => \E l \in DOMAIN down'[i] : l > (k + 1) - 1 /\ down'[i][l].type \in {"done", "failed"}
        BY <2>3, <4>1
      <4>4. (k + 1) - 1 = k
        BY <2>2
      <4> QED
        BY <2>1, <4>2, <4>3, <4>4 DEF Ends
    <3> QED
      BY <3>1, <3>2 DEF StartedEnds
  <2>5. CASE HandleStarted(i, Head(down[i]))
    <3>1. isExecuting' = i /\ down[i][1].type = "started"
      BY <2>2, <2>5 DEF HandleStarted
    <3>2. Announced'
      BY <2>1, <3>1 DEF Announced
    <3>3. running[i] # 0 \/ Ends(i, 1)
      BY <2>2, <3>1 DEF ExecutingInv, StartedEnds
    <3>4. ExecutingTruthful'
      BY <2>1, <2>2, <2>3, <3>1, <3>3 DEF ExecutingTruthful
    <3> QED
      BY <2>4, <3>2, <3>4 DEF ExecutingInv
  <2>6. CASE HandleDone(i, Head(down[i])) \/ HandleFailed(i, Head(down[i]))
    <3>1. isExecuting' = 0
      BY <2>6 DEF HandleDone, HandleFailed
    <3> QED
      BY <2>4, <3>1 DEF ExecutingInv, Announced, ExecutingTruthful, IsOpen
  <2> QED
    BY <1>9, <2>5, <2>6 DEF OnMessage
<1>10. ASSUME NEW i \in Sockets, Begin(i) PROVE ExecutingInv'
  <2>1. Head(up[i]) \in Commands
    BY <1>10, HeadTailProperties DEF Begin, TypeOK
  <2>2. running' = [running EXCEPT ![i] = Head(up[i])] /\ Head(up[i]) # 0
    BY <1>10, <2>1, Numbers DEF Begin
  <2>3. /\ \A j \in Sockets : j # i => down'[j] = down[j]
        /\ \E m \in Message : down'[i] = Append(down[i], m)
    BY <1>10, <2>1, Numbers, ReplyTyped DEF Begin
  <2>4. UNCHANGED <<sock, isExecuting>>
    BY <1>10 DEF Begin, store
  <2> QED
    BY <1>0, <2>2, <2>3, <2>4, EndsLast
<1>11. ASSUME NEW i \in Sockets, Finish(i) PROVE ExecutingInv'
  <2>1. PICK how \in {"done", "failed"} : Reply(i, how, running[i])
    BY <1>11 DEF Finish
  <2>2. /\ \A j \in Sockets : j # i => down'[j] = down[j]
        /\ down'[i] = Append(down[i], [type |-> how, command |-> running[i]])
        /\ [type |-> how, command |-> running[i]] \in Message
    <3>1. how \in {"started", "done", "failed"} /\ running[i] \in 0..MaxCommands
      BY <1>0, <2>1
    <3> QED
      BY <2>1, <3>1, ReplyTyped
  <2>3. UNCHANGED <<sock, isExecuting>> /\ \A j \in Sockets : j # i => running'[j] = running[j]
    BY <1>0, <1>11 DEF Finish, store
  <2>4. [type |-> how, command |-> running[i]].type \in {"done", "failed"}
    BY <2>1
  <2> QED
    BY <2>2, <2>3, <2>4, EndsLast
<1>12. CASE UNCHANGED vars
  BY <1>1, <1>12 DEF vars, store, server
<1> QED
  BY <1>3, <1>4, <1>5, <1>6, <1>7, <1>8, <1>9, <1>10, <1>11, <1>12 DEF Next

-----------------------------------------------------------------------------
\* The invariant of the client, whatever the network and the user do.
THEOREM ClientInvariant == Spec => []ClientInv
<1>1. ClientInv /\ [Next]_vars => ClientInv'
  BY TypeStep, PendingStep, ConnectionStep, ExecutingStep DEF ClientInv
<1> QED
  BY InitInv, <1>1, PTL DEF Spec

\* The refs, the store, the promises and the queues have their types.
THEOREM TypeCorrect == Spec => []TypeOK
<1>1. ClientInv => TypeOK
  BY DEF ClientInv
<1> QED
  BY <1>1, ClientInvariant, PTL

\* No promise of executeWithResult is forgotten.
THEOREM PromisesKept == Spec => []PendingKept
<1>1. ClientInv => PendingKept
  BY DEF ClientInv
<1> QED
  BY <1>1, ClientInvariant, PTL

\* A page that was mounted once has one connection.
THEOREM OneConnection == Spec => []SingleConnection
<1>1. ClientInv => SingleConnection
  BY DEF ClientInv, ConnectionInv
<1> QED
  BY <1>1, ClientInvariant, PTL

\* It shows the status of that connection.
THEOREM StatusShown == Spec => []StatusTruthful
<1>1. ClientInv => StatusTruthful
  BY DEF ClientInv, ConnectionInv
<1> QED
  BY <1>1, ClientInvariant, PTL

\* It shows "executing" only while an execution or its end is under way.
THEOREM ExecutingShown == Spec => []ExecutingTruthful
<1>1. ClientInv => ExecutingTruthful
  BY DEF ClientInv, ExecutingInv
<1> QED
  BY <1>1, ClientInvariant, PTL
=============================================================================
