# move-ide: a verification project

TLA+ models of the Move playground in this repository (a Rust backend that runs
the Aptos CLI for browsers over a WebSocket, and a React frontend), the TLC
runs that check them and the proofs TLAPS checks. Paths are relative to the
repository root.

## The system

A page keeps a workspace of files. It opens a socket to `/ws/execute` and sends
the whole workspace with a command; the backend writes it to a fresh directory,
runs the CLI there, streams what it prints and deletes the directory. A page can
also share its workspace as a GitHub gist and open a shared one.

| Component | Code | State it keeps | Operations | Module |
|---|---|---|---|---|
| Rate limiter | `backend/src/service/rate_limiter.rs` | a counter per address | acquire, release (by a guard's `Drop`) | `RateLimiter`, `Slots` |
| Execute socket | `backend/src/api/execute.rs` | receive loop, bounded channel, send task | receive, execute, report, close | `Execution`, `CommandStream` |
| Executor | `backend/src/service/executor.rs` | child process, two reader tasks | spawn, read, wait with a deadline, kill, collect | `Execution` |
| Workspace directories | `backend/src/sandbox/workspace.rs` | directories on disk | create, cleanup, sweep of orphans | `Execution`, `Server` |
| Server process | `backend/src/main.rs`, `app.rs`, `config.rs` | all of the above, and what survives a crash | start, accept, refuse, crash | `Server` |
| Execute client | `frontend/src/hooks/useWebSocket.ts` | socket ref, timer, pending promise, store fields | connect, reconnect, execute, publish | `WsClient` |
| Explorer and tabs | `frontend/src/store/workspace.ts`, `components/FileTree.tsx`, `EditorPane.tsx` | files, tabs, active file, folders, the question asked | create, rename, move, drop, delete, type | `Explorer` |
| Path rules, Validator | `frontend/src/lib/pathRules.ts`, `backend/src/service/validator.rs` | none | normalise and accept a path, validate a request | `PathRules`, `Requests` |
| Error parser | `backend/src/service/parser.rs` | none | find the errors in the CLI's output | `Diagnostics` |
| Entry function | `frontend/src/components/ConfigPanel.tsx`, `Workspace.tsx` | list and selection, layout | find functions, select | `EntryFunctions` |
| Publish, run on chain | `frontend/src/components/Header.tsx`, `lib/devnetAccount.ts` | wallet, devnet account, clicks under way | connect, create, publish, run | `OnChain` |
| Preferences | `frontend/src/store/ui.ts`, `App.tsx`, `Header.tsx`, `EditorPane.tsx` | menus, theme, keybindings, vim adapter, storage | press, choose, follow the system, mount | `Preferences` |
| Sharing | `backend/src/service/gist.rs`, `api/share.rs`, `auth.rs`, `frontend/src/App.tsx`, `Header.tsx` | calls, cookie, gists | share, open, retry after 401 | `Share` |

How they meet: `handle_socket` takes a slot of the limiter for the life of the
connection and awaits each execution in its receive loop; the handler and the
two reader tasks send into one channel of 32 messages which one task forwards
to the socket; the page's callbacks run one at a time but on events that arrive
in any order; the auth cookie, the CLI, GitHub and the network are outside.

What is hard: five tasks and a process tree per execution with a deadline, a
full channel, a link that may break, and nothing but end-of-file to say that
the output is over; slots that must be returned on every path; directories that
outlive the process; a page whose reconnects, remounts and promises overlap;
handlers that act on what was last rendered, while files, wallet, account or
theme have changed; two sets of path rules; names that are flattened and
restored. The list with lines is in `PROJECT.json`, "hazards".

## The modules

**`Slots`** is what the limiter promises: a set of owners per address, never
more than `MaxPerIp`, and refusal only of a full address.
**`RateLimiter`** is how it is done: `Entry` takes the DashMap entry for
writing, `FetchAdd` increments, `Accept` or `Refuse` decide (a refusal takes
its increment back) and unlock, `Release`/`FetchSub` are the guard's drop under
a read lock. Each atomic operation is an action, so that every interleaving of
tasks is there.

**`CommandStream`** is what a client of the socket may rely on, as a
specification of the sequence of messages it has received: `Started` first, the
lines of a stream in order up to the cap and then a notice, at most one
`Errors`, one `Done` or `Failed`, executions that do not overlap. It also says
what it does *not* promise: lines may trail a `Failed`.
**`Execution`** is one accepted connection. `pc` is where the task of
`handle_socket` stands; `queue`, `inflight` and `fwd` are the channel and
`send_task`; `child`, `helper` and `written` the CLI, a process it started and
their pipes; `reader`, `taken`, `aborted` the reader tasks; `dir` the directory.
Everything that can outlive an execution is indexed by the number of the
message that asked for it. Output is counted in lines; `Cap` stands for
`max_stdout_kb`. A `Send` waits for room and fails at once, ignored, when the
receiver is gone. A reader that meets a line that is not UTF-8 stops
(`ReadUndecoded`). The reports of a failing `create`, `spawn` and `wait`, an
invalid request, pings and messages that are only logged are actions too.

**`Server`** puts connections, slots and directories into a process that starts,
sweeps the temp directory, listens and crashes; counters and connections die
with it, directories and CLI processes do not. Acquire and release are one step
each (which `RateLimiterProofs` justifies), an execution is three.

**`WsClient`** is `useWebSocket` with one action per callback: `OnOpen`,
`OnError`, `OnClose`, `OnMessage`, `TimerFires`, `Execute`, `Publish`, `Mount`,
`Unmount`. `stray` counts timeouts whose handle was overwritten. `isExecuting`
is a Boolean in the code; here it is the socket whose `Started` set it. The
backend at the other end follows `CommandStream`.

**`Explorer`** has the store's actions as functions of its state (`RenameFile`,
`MoveFolder`, ...) and the handlers of the tree and the tabs as actions. `asking`
is what the user is in the middle of; an answer may come after the files it was
asked about were replaced by `LoadShare`. `Drop` is the row's handler and then
that of the list the event bubbles to, both with the files of the last
rendering.

**`Share`** has the calls of a page with the step each stands at, tokens that
are numbered and expire in order, the two handlers behind the middleware, and
`Encode`/`Decode`, the file names of a gist, on paths split into tokens.

**`PathRules`** has the two sets of path rules as operators on texts, which are
sequences of pieces (a slash, a blank, a dot, a drive, a run of other
characters): `NormalizePath`, `FolderPath` and `FilePath` of the page,
`ServedPath` of the backend, and `Place`, where the file system puts a path.
**`Requests`** puts them to use: what is typed goes through `NormalizePath` and
the handlers of the tree (creation, renaming and drops, with the paths they
put together), files grow, and `Submit` sends them to `ValidateFiles` and
`Validate`, the validator's checks in their order.
**`Diagnostics`** goes on with a valid request: lines the CLI prints, and
`ParseErrors` over both streams when it is done, with the three patterns and
the removal of duplicates. In `Explorer` the same handlers act on names, with
tabs, dialogs and shared workspaces; there paths have no spelling.

**`EntryFunctions`** is `ConfigPanel`: its effect (`due`, `FindFunctions`), the
selection, and the layout that mounts it. **`OnChain`** is what the run menu
does on chain: a job per click records what the closure took along, `Built` is
the promise of `executeWithResult`, `Sign` who signs; beside it the wallet and
the devnet account with its asynchronous creation, its storage and other pages.
**`Preferences`** has menus with the mousedown and the click as two steps, the
theme with the media query's event on its way, and the vim adapter with an
editor that comes and goes. **`Page`** composes the three: the function that is
selected is what may be run on chain.

`MC*` modules only give values to constants, and state constraints. `*Proofs`
modules hold the theorems and their proofs.

## The runs

| Run | Bounds | What it shows |
|---|---|---|
| `rate_limiter` | 5 connections, 2 addresses, limit 2 | counters and locks exact between operations, limit kept, refusals justified, `Slots` implemented |
| `execution` | 2 messages, 2 lines, cap 1, channel and pipe of 1 (`Bounded`, `AtOnce`) | output complete before `Done` (of a stream with a line that is not UTF-8, the lines before it), process dead before a result, directory outlives the process, executions do not mix: `CommandStream` implemented |
| `execution_live` | 1 request, 1 line | every execution ends; a client that has gone frees its slot |
| `ws_client` | 4 sockets, 2 commands, 1 remount | one connection, truthful status and "executing", no promise lost, reconnection |
| `server` | 4 connections, 2 addresses, 3 directories, 2 crashes | slots are connections, directories in use are kept, old ones go |
| `explorer` | 3 names, depth 2, 4 contents, 1 empty folder | tabs sound, moves lose nothing, `Move.toml` kept |
| `share` | 2 calls, 2 tokens, 4 workspaces (`Plain`) | flat workspaces come back exactly, no second gist, every call ends |
| `page` | 3 workspaces, 2 clicks, 2 accounts (`Apart`) | list and selection current, the signer is who was offered, the account shown is stored, menus, theme and storage agree, no vim left |
| `requests` | 14 typed texts, 3 files, limits of 2 files and size 1, 2 lines per stream (`Alone`) | no path refused and no two files one on disk, every error placed once |
| `lingering_helper` | as `execution_live` | violation: `HardTimeout` |
| `ws_wrong_result` | 1 socket, 2 commands | violation: `OwnResult` |
| `drop_bubbles` | 4 names, no shares | violation: `RefusedDropMovesNothing` |

Why the bounds are enough. A limit of 2 with 3 connections of one address and 2
of another has full, refused and transient counters at once. A channel, a pipe
and a cap of one element are full, and reached, after one step; a second line
is the first to be drained. Two requests are the least that can overlap (an inbox of three adds waiting, not
interleaving), and four sockets allow a reconnect after each of two mounts. Three directories and
two crashes leave orphans of a run that itself started with orphans. The names
include one that is good for a file and a folder. Two clicks are the least of
which one can be turned away by the other, two accounts the least that can
differ, and one file over the limit shows every refusal of the validator.

The constraints leave out combinations, not cases. `Bounded`: an execution alone
has every error path; of two in a row, sent at once (`AtOnce`), the first may
fail in every way and the link stays up. `Apart`: while one part of the page is
explored, the others stay where they started, but for the selected function,
which is all they share. `Alone`: a request is looked at before the files
change, which its copy would not notice; the CLI's output names files of the
initial workspace; sizes change while there are few paths. `Plain`: named
addresses go with the two workspaces that can be shared and come back.

Deadlock checking is off where the system may stop: a closed connection, a
client out of commands, the bounds of `Share`.

Every property has a mutant in `PROJECT.json`, a plausible slip in the code
(written next to the definition it replaces) that makes TLC find it violated.

### Fairness

`Execution` assumes weak fairness of the loop, the handler, the send task and
the readers (tokio polls what is ready, timers fire), of `Deliver` (a client that
reads) and of helpers exiting. It assumes nothing of the CLI, nor that an
error ends an execution (`WaitFails` is under no fairness): the deadline is a
step of the handler. Without the assumption on helpers `lingering_helper` fails,
and without that on the client so does the end of an execution after its
deadline. `WsClient` assumes that events are dispatched, timers fire and
executions end; not that handshakes succeed, so `Reconnects` says that the page
gets a connection or has used every socket of the bound trying. `Share` assumes
that the backend answers. `Server`, `Explorer`, `Page` and `Requests` state safety
only and assume nothing.

## What is proved

`RateLimiterProofs` holds for any finite set of tasks, any addresses and any
limit. Assumptions: those of `RateLimiter` on its constants.

- `LimiterInvariant`: the inductive invariant. Counters being exact is not
  inductive alone: it needs that a task between `FetchAdd` and its decision
  holds the write lock, that the lock excludes other writers and the readers,
  and which counter value each place of a task accounts for.
- `SlotsAreBounded`, `RefusalsAreJustified`: the limit, and no spurious refusal,
  from that invariant.
- `LimiterImplementsSlots`: initial states map to initial states and each step
  to a step of `Slots` or a stutter, with the owners of guards as the mapping.

`ExecutionProofs` holds for any capacity, cap, pipe size and number of requests
and lines. Assumptions: those of `Execution` on its constants.

- `TypeCorrect`: types, with the bound of the channel. Inductive once no reader
  has taken more than was written.
- `RunCorrect`: the inductive invariant behind the next two. Three parts: the
  requests in the inbox are numbered in order and later than the latest
  execution (`OrderInv`), so that a new execution finds no process and no
  outcome of its own (`FreshInv`), and each place of the handler says what it
  knows of the process, the outcome and the directory (`PhaseInv`).
- `ReportedDeadCorrect`, `DirOutlivesChildCorrect`: a result is reported of a
  dead process, and a running one keeps its directory, even while the next
  execution is under way.

Its second part, "The output", ends in `OutputCompleteCorrect`. What the client
has received, or will while the socket is up, is one sequence (`Flow`): the send
task only moves messages within it (`FlowForward`) and everybody else only adds
at its end (`FlowStep`). Every line below the cap that a reader task has taken is
in it, but for the one it is about to send (`LinesSent`); a task that ended
without being aborted has taken all that was written, or all up to a line that is not
UTF-8, which `OutputComplete` excepts with what follows it (`ReaderInv`), and nothing
of an execution changes once it has succeeded (`Frozen`). So a `Done` comes after
its lines (`DoneLast`).

Its third part, "The stream", is the refinement, `ExecutionImplementsStream`. It
restates the guards of `CommandStream` as operators on any sequence (`May`) and
proves that each message of the flow is one that those before it allow
(`Legal`); the client receives the flow one message at a time (`OneByOne`), so
each delivery is a step of `CommandStream` (`StepIsStream`). For `Legal` to be
inductive, the flow is tied to where the tasks are: what the handler has told
(`HandlerSeen`), what errors and refusals say of outcome and process
(`ResultSeen`), and, per stream, that exactly the lines a task has passed are
there, up to the cap, and the notice only beyond it (`LinesSeen`, with
`ReaderShape`).

`ServerProofs` holds for any finite set of connections, any addresses, directories,
limit and crashes (`ConnsFinite`, `LimitsType`). `ServerInvariant` strengthens the
three properties by what holds between the starts: nobody is connected unless the
process listens (`Quiet`), no two executions have a directory in common
(`OwnDirs`), counters are exact from the start of the process on (`SlotsExact`),
and what the sweep has not yet listed or removed (`Swept`). From it
`SlotsCorrect`, `InUseCorrect` and `DiskCorrect`.

`ShareProofs` holds for any pages, tokens, calls, and workspaces whose paths are
sequences of tokens. `FlatFiles` is about the names alone: what `Decode` and
`Loaded` make of the gist of a flat workspace is that workspace. `ShareInvariant`
adds that a gist holds what its call sent and that this call arrives nowhere any
more (`GistsKnown`), which is why no retry makes a second one (`SharedOnce`) and
a link opens what was shared (`FlatCorrect`).

`WsClientProofs` holds for any number of sockets, commands and remounts.
`ClientInvariant` has three independent parts: `PendingKept` with the types; one
connection and its status, inductive once a page that was never mounted has none
(`Unborn`); and "executing", which needs that a `Started` in a channel is followed
by its end or by a running execution (`StartedEnds`). From it `PromisesKept`,
`OneConnection`, `StatusShown` and `ExecutingShown`.

`ServerProofs`, `ShareProofs` and `WsClientProofs` also state `TypeCorrect`: the
types are part of each of these invariants.

`ExplorerProofs` holds for any names, depth, number of contents, and shared
workspaces that name no file twice. Each function of the store and each handler
has a lemma of its own: given a sound store (`StoreOK`: types, tabs of files that
are there, none twice, an active one unless none is open) it leaves a sound one,
and says what it does to the contents. Two things are hard: the
tabs that go with a file are what `SelectSeq` leaves (`Filtered`, by induction
over a set of lengths), and a drop is two handlers of which the second judges by
files that are gone (`DropInput`, with `DropFileOK` and `DropFolderOK`: what the
first has moved is no more at the path the second would move it from). With them `TabsSound` alone is not inductive: what the user is asked
about must stay something that may be answered (`AskingOK`: it is never
`Move.toml` that is renamed or dragged) though a shared workspace arrives in
between. `RestOK` has the other types. From
`ExplorerInv == StoreOK(store) /\ AskingOK /\ RestOK` follow `TypeCorrect` and
`TabsStaySound`; `NothingIsLost` and `MoveTomlStays` are action properties of
steps from states where it holds. That a swap of the beginning of paths is
injective (`SwapInjective`) is why a folder loses nothing when it moves.

`PageProofs` holds for any workspaces, clicks and accounts. The preferences need
that an event of the system is on its way only in mode "system" and that no
adapter is without an editor (`PreferencesInv`); the clicks need their types, and
the accounts that the last one on its way to the header is the one stored
(`Latest`). From these `PreferencesCorrect`, `DefaultWithoutVim`, `SignerNamed`
and `AccountStored`. `SelectionCorrect` needs in addition that, until an edit, the panel's
list is empty or that of the files (`FunctionsInv`), and what `FlattenSeq` makes
of the functions of the files (`ListedIs`, by induction over the number of
files).

`RequestsProofs` holds for any typed texts, drives, limits and output of any
length. Assumptions: what is typed is a sequence of pieces (`TypedType`), the
CLI counts lines from 1 (`LinesType`), and the limits are numbers.

- `PathsCorrect`. `NormalizePath` leaves no slash at the end and no two in a row
  (`Normalized`), and what `FolderPath` then accepts is a *clean* path: no empty
  name, none that starts with a dot, no "..", no backslash (`FolderPathClean`).
  The invariant is that every path of the explorer is clean and, of files,
  `Move.toml` or one that ends in ".move" (`WorkspaceInv`); it is inductive
  because base names, parents, destinations and swaps of clean paths are clean
  (`BaseNames`, `FoldersClean`, `Destinations`, `Swaps`). The backend serves such
  paths (`GoodServed`). And `Place` is injective on them (`PlacesApart`): taking
  a path apart at its slashes loses nothing (`SplitInjective`), and of a clean
  path no name is dropped on the way (`CleanNames`, `EnterAll`).
- `ErrorsCorrect`: `Found` yields exactly the lines below an opening one
  (`FoundHits`), those of a stream are among those of both streams one after the
  other (`HitsOfConcat`), and adding what the second pattern finds keeps what
  the first has found and repeats nothing (`Gathered`). What is shown stays
  right until the next click, as the request and the output stay (`ErrorsInv`).
- `TypeCorrect`: from the same invariant, `RequestsInv`.

How folds are proved about. The operators of `PathRules` and `Diagnostics` are
folds of the community modules, that is, recursive functions on sets of places.
`FoldExists` shows that such a function
exists, and `FoldRuns` that it takes one place after the other; each operation
then has a lemma that names its steps (`SplitRuns`, `EnterRuns`, `SingleRuns`,
`NotesRun`, `AddsRun`). Induction is not over a formula but over the set of the
numbers for which it holds (`Induction`, from the least number of a set, of
which `NatLessThanWellFounded` is the source). `Place` and `Found` are written as
folds, and `FirstEntry` as `SelectInSeq`, for that reason.

Every invariant and action property of a passing run is stated by a theorem;
so is each of the two refinements. Only model-checked: liveness (`ExecutionEnds`,
`SlotFreed`, `Reconnects`, `CallsEnd`), for which the prover has no support, and
what the three runs show that expect a violation.

## Departures

Met while modelling. The first three are runs; for the others the model shows
the behaviour, and the property that would state the document's claim is not
kept because it fails.

1. `README.md:120` "Hard timeout per command execution": joining the readers
   (`executor.rs:226`) has no deadline; a process the CLI started that keeps the
   pipes open holds the execution. (`lingering_helper`)
2. `useWebSocket.ts:198` "Another command is already in progress": only
   publications are counted, and messages name no command, so the `Done` of a
   Test resolves the promise of a Publish. (`ws_wrong_result`)
3. `FileTree.tsx:430` "Cannot move a folder into itself": the drop goes on to
   the list (line 817) and moves the folder to the root. (`drop_bubbles`)
4. `docs/specification.md:61` "Permalink loads the exact code": nested paths
   come back flattened and may collide; the selected function is not shared
   at all (`gist.rs:75`). `FlatExact` is what remains true.
5. The same line 120: after the deadline the `Failed` report awaits room in the
   channel (`execute.rs:212`); a client that stops reading holds it for ever.
6. `CHANGELOG.md:9` "to avoid stray processes": `child.kill` (`executor.rs:214`)
   reaches the CLI only; helpers survive (`helper` stays TRUE).
7. `README.md:43` "then deletes the workspace": a `create` that fails half-way
   (`workspace.rs:28`) leaves its directory until the next start (`partial`).
8. `README.md:43` "streams stdout/stderr": a line that is not UTF-8 ends the
   stream silently (`executor.rs:136`, `ReadUndecoded`).
9. `README.md:123` "Concurrent executions allowed per client IP": the limit
   counts connections, executing or not (`execute.rs:60`).
10. `docs/design_frontend.md:406` "Idle | Run button enabled": a socket that
    dies after `Started` leaves `isExecuting` set (`useWebSocket.ts:121`).
11. `useWebSocket.ts:198` again: `onclose` leaves `pendingRef` set, and later
    publications are turned away although nothing is in progress.
12. `useWebSocket.ts:208` "Connect on mount": under StrictMode the first
    mount's `onclose` (line 123) clears the second's ref and reconnects, which
    is why two properties of `WsClient` are limited to pages mounted once.
13. `FileTree.tsx:229` "A folder with that path already exists": nothing keeps a
    file or folder from being created below a path that is a file.
14. `docs/specification.md:403` "Delete last file | Block with toast": not
    blocked; reachable with a shared workspace that has no `Move.toml`.
15. `Header.tsx:364`: `walletMenuRef` is attached to the run menu's element, so
    every press inside the wallet menu counts as outside and closes it before
    the click: its buttons cannot be used with a mouse (`ClosedBy`).
16. `README.md:17` "Devnet publish/run" and `Header.tsx:513` "Switch wallet to
    devnet to publish": the network is looked at when Publish is rendered, not
    when the wallet signs, and for "Run (Devnet)" (`Header.tsx:428`) never; a
    wallet on another network signs there (`net` in `Sign`).
17. `docs/specification.md:390` "Function not found in code": nothing checks it;
    a selected function that was renamed stays selected (`ConfigPanel.tsx:71`),
    and tests are offered in the same list.
18. `devnetAccount.ts:20`: another page overwrites the stored account; the one
    shown is then gone after a reload (`others` in `ShownIsStored`).
19. `README.md:11` "vim mode": the editor may be mounted with the callback of
    the first rendering, before the stored keys are read; vim is then chosen
    but not attached (`EditorMounts`). `NoVimInDefault` is the converse.
20. `README.md:11` and `docs/specification.md:46` promise inline error markers:
    `EditorPane.tsx:308` looks for a model whose path ends with the file's, and
    `Editor` (404) is given no path. The events `playground:run` and
    `playground:share` (239 to 247) have no listener.
21. `pathRules.ts:21`: normalising is not idempotent ("a /" gives "a ", which
    gives "a"). The tree validates and uses the same normalised text, so
    `PathsAgree` holds; a file dropped or renamed may keep a blank in its name.
    `ConfigPanel.tsx:79` trims a named address only to see whether it is empty.
22. `parser.rs:47` "Avoid duplicates": of two errors without a code on a line
    only the first is reported, and a warning whose message contains "error: "
    is reported as an error as well. `ErrorsPlaced` is by place for that reason.

## What the properties except

Where the code does less than a reader of the properties might hope:

- `SlotFreed` is about breaks the server notices. `receiver.next()`
  (`execute.rs:91`) has no timeout: an idle client that vanishes without closing
  keeps its slot until the operating system gives the connection up.
- `wait` may fail (`executor.rs:212`): the process and its readers go on while
  the workspace is deleted. `ReportedDead` and `DirOutlivesChild` except the
  outcome `InternalError` for that.
- `Kill` has no case for a kill that fails (`executor.rs:214`), whose result the
  code ignores; the `wait` that follows still waits for the process to die.
- `DiskAccounted` counts the directory of a failed `create`, and one that could
  not be removed (`workspace.rs:28`, 44), as left over.
- `OutputComplete` is about lines before one that is not UTF-8 (item 8).
- `SingleConnection` and `StatusTruthful` are of a page mounted once (item 12);
  `ExecutingTruthful` is about executions whose socket is open (item 10).
- `Preferences` begins when the effects of `App.tsx` have run: `initTheme` (line
  12) and the listener (30) are attached one after the other, and a change of
  the system's theme in between is missed until the next.
- The size of a request is bounded by the limits on files and on their number
  only, both configurable; nothing checks the 1 MB of
  `docs/specification.md:286`.

## Not modelled

- The tokenizer tables of `moveLanguage.ts` and `tomlLanguage.ts`, health and
  error answers, build and deployment: no state.
- `OutputPane` shows output and errors and keeps nothing. The store's
  `loadTemplate` and `reset` have no caller in a component.
- Routes, CORS, the environment and the spelling of tokens and cookies:
  configuration and cryptography; `Share` knows only whether a token is good.
- The conversion of publish arguments (`Header.tsx:187` to 229) and what the SDK
  makes of them: data that no property tells apart.
- How `Server`'s connections and `WsClient`'s backend would run together with
  `Execution` in one state: each uses what the other promises (`Slots`,
  `CommandStream`) instead.
