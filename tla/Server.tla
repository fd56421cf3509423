------------------------------- MODULE Server -------------------------------
(***************************************************************************)
(* The backend process as a whole: start-up with the removal of orphaned   *)
(* workspaces, the connections it accepts under the per-IP limit, the      *)
(* workspace directories their executions create, and crashes.  Counters   *)
(* and connections die with the process; directories and the CLI processes *)
(* it started do not.                                                      *)
(*                                                                         *)
(* RateLimiter shows that taking and returning a slot may be seen as one   *)
(* step; Execution has the steps inside an execution.                      *)
(***************************************************************************)
EXTENDS Integers, FiniteSets

CONSTANTS
  Conns,         \* connections
  Ips,           \* client addresses
  Source,        \* the address of each connection
  MaxPerIp,      \* Config::concurrent_per_ip
  MaxDirs,       \* bound: workspaces created (their names are fresh uuids)
  MaxCrashes     \* bound: crashes of the process

ASSUME ConnsFinite == IsFiniteSet(Conns)
ASSUME SourceType  == Source \in [Conns -> Ips]
ASSUME LimitsType  == MaxPerIp \in Nat /\ MaxDirs \in Nat /\ MaxCrashes \in Nat

NoDir == 0
Dirs  == 1..MaxDirs

VARIABLES
  phase,      \* of the process: "down", "booting", "sweeping" or "listening"
  listing,    \* playground_* entries the sweep has not come to
  conn,       \* "none", "loop" (receiving), or executing: "created", "spawned"
  dirOf,      \* the workspace of its execution
  slots,      \* active_connections
  disk,       \* the playground_* directories in the temp directory
  created,    \* how many there have been
  cli,        \* the workspaces a CLI process is running in
  leftover,   \* since the last start: directories whose creation or removal
              \* failed, or that a CLI process made again
  crashes

vars == <<phase, listing, conn, dirOf, slots, disk, created, cli, leftover, crashes>>

connections == <<conn, dirOf, slots>>
files       == <<disk, created, leftover>>

Init ==
  /\ phase = "down" /\ listing = {}
  /\ conn = [c \in Conns |-> "none"]
  /\ dirOf = [c \in Conns |-> NoDir]
  /\ slots = [ip \in Ips |-> 0]
  /\ disk = {} /\ created = 0 /\ cli = {} /\ leftover = {} /\ crashes = 0

-----------------------------------------------------------------------------
(* main. *)

Boot ==
  /\ phase = "down"
  /\ phase' = "booting"
  /\ slots' = [ip \in Ips |-> 0]
  /\ leftover' = {}
  /\ UNCHANGED <<listing, conn, dirOf, disk, created, cli, crashes>>

\* cleanup_orphaned_workspaces: read_dir, which may fail and end the sweep.
ReadTempDir ==
  /\ phase = "booting"
  /\ phase' = "sweeping"
  /\ \/ listing' = disk /\ UNCHANGED leftover
     \/ listing' = {} /\ leftover' = leftover \cup disk
  /\ UNCHANGED <<connections, disk, created, cli, crashes>>

\* Mutants: an entry a process still uses is skipped; the sweep goes on while
\* the server listens.
RemoveOrphanUnused(d) ==
  /\ phase = "sweeping"
  /\ d \in listing
  /\ listing' = listing \ {d}
  /\ disk' = IF d \in cli THEN disk ELSE disk \ {d}
  /\ UNCHANGED <<phase, connections, created, cli, leftover, crashes>>

RemoveOrphanAnytime(d) ==
  /\ phase \in {"sweeping", "listening"}
  /\ d \in disk
  /\ listing' = listing \ {d}
  /\ disk' = disk \ {d}
  /\ UNCHANGED <<phase, connections, created, cli, leftover, crashes>>

\* One entry after another is removed; a failure is logged.  A CLI process
\* that outlived a crash may still be running in it.
RemoveOrphan(d) ==
  /\ phase = "sweeping"
  /\ d \in listing
  /\ listing' = listing \ {d}
  /\ \/ disk' = disk \ {d} /\ UNCHANGED leftover
     \/ leftover' = leftover \cup {d} /\ UNCHANGED disk
  /\ UNCHANGED <<phase, connections, created, cli, crashes>>

\* next_entry fails: the loop ends there.
SweepBreaksOff ==
  /\ phase = "sweeping"
  /\ listing # {}
  /\ listing' = {}
  /\ leftover' = leftover \cup listing
  /\ UNCHANGED <<phase, connections, disk, created, cli, crashes>>

\* Mutant: the sweep is spawned, and serving does not wait for it.
ListenAtOnce ==
  /\ phase = "sweeping"
  /\ phase' = "listening"
  /\ UNCHANGED <<listing, connections, files, cli, crashes>>

\* Only then the server binds its port.
Listen ==
  /\ phase = "sweeping"
  /\ listing = {}
  /\ phase' = "listening"
  /\ UNCHANGED <<listing, connections, files, cli, crashes>>

Crash ==
  /\ phase # "down"
  /\ crashes < MaxCrashes
  /\ crashes' = crashes + 1
  /\ phase' = "down"
  /\ listing' = {}
  /\ conn' = [c \in Conns |-> "none"]
  /\ dirOf' = [c \in Conns |-> NoDir]
  /\ UNCHANGED <<slots, files, cli>>

-----------------------------------------------------------------------------
(* handle_socket. *)

\* What try_acquire finds.
Full(ip) == slots[ip] >= MaxPerIp

Accept(c) ==
  /\ phase = "listening"
  /\ conn[c] = "none"
  /\ ~Full(Source[c])
  /\ slots' = [slots EXCEPT ![Source[c]] = @ + 1]
  /\ conn' = [conn EXCEPT ![c] = "loop"]
  /\ UNCHANGED <<phase, listing, dirOf, files, cli, crashes>>

\* A Failed message and the end of the connection; nothing changes.
Refuse(c) ==
  /\ phase = "listening"
  /\ conn[c] = "none"
  /\ Full(Source[c])
  /\ UNCHANGED vars

\* Mutants: the guard is forgotten when the loop ends; the slot is released by
\* hand and by the guard.
DisconnectKeepsSlot(c) ==
  /\ conn[c] = "loop"
  /\ conn' = [conn EXCEPT ![c] = "none"]
  /\ UNCHANGED <<phase, listing, dirOf, slots, files, cli, crashes>>

DisconnectTwice(c) ==
  /\ conn[c] = "loop"
  /\ conn' = [conn EXCEPT ![c] = "none"]
  /\ slots' = [slots EXCEPT ![Source[c]] = @ - 2]
  /\ UNCHANGED <<phase, listing, dirOf, files, cli, crashes>>

\* The loop ends, and the guard is dropped.  It does not end during an
\* execution: handle_execute is awaited in it.
Disconnect(c) ==
  /\ conn[c] = "loop"
  /\ conn' = [conn EXCEPT ![c] = "none"]
  /\ slots' = [slots EXCEPT ![Source[c]] = @ - 1]
  /\ UNCHANGED <<phase, listing, dirOf, files, cli, crashes>>

-----------------------------------------------------------------------------
(* handle_execute. *)

\* Workspace::create, or its failure with a directory left half-filled.
Create(c) ==
  /\ conn[c] = "loop"
  /\ created < MaxDirs
  /\ created' = created + 1
  /\ disk' = disk \cup {created + 1}
  /\ \/ /\ conn' = [conn EXCEPT ![c] = "created"]
        /\ dirOf' = [dirOf EXCEPT ![c] = created + 1]
        /\ UNCHANGED leftover
     \/ leftover' = leftover \cup {created + 1} /\ UNCHANGED <<conn, dirOf>>
  /\ UNCHANGED <<phase, listing, slots, cli, crashes>>

SpawnCli(c) ==
  /\ conn[c] = "created"
  /\ conn' = [conn EXCEPT ![c] = "spawned"]
  /\ cli' = cli \cup {dirOf[c]}
  /\ UNCHANGED <<phase, listing, dirOf, slots, files, crashes>>

\* The process exits by itself, or is killed by the deadline.
CliEnds(d) ==
  /\ d \in cli
  /\ cli' = cli \ {d}
  /\ UNCHANGED <<phase, listing, connections, files, crashes>>

\* The directory is the HOME of the CLI, which creates it again when it is not
\* there: only a process that outlived its execution or its server can.
CliMakesDir(d) ==
  /\ d \in cli
  /\ d \notin disk
  /\ disk' = disk \cup {d}
  /\ leftover' = leftover \cup {d}
  /\ UNCHANGED <<phase, listing, connections, created, cli, crashes>>

\* cleanup: the directory is removed, or the failure is logged.  The CLI was
\* not spawned, is dead, or wait failed and it still runs.
Cleanup(c) ==
  /\ conn[c] \in {"created", "spawned"}
  /\ conn' = [conn EXCEPT ![c] = "loop"]
  /\ dirOf' = [dirOf EXCEPT ![c] = NoDir]
  /\ \/ disk' = disk \ {dirOf[c]} /\ UNCHANGED leftover
     \/ leftover' = leftover \cup {dirOf[c]} /\ UNCHANGED disk
  /\ UNCHANGED <<phase, listing, slots, created, cli, crashes>>

-----------------------------------------------------------------------------
Next ==
  \/ Boot \/ ReadTempDir \/ SweepBreaksOff \/ Listen \/ Crash
  \/ \E d \in Dirs : RemoveOrphan(d) \/ CliEnds(d) \/ CliMakesDir(d)
  \/ \E c \in Conns :
       \/ Accept(c) \/ Refuse(c) \/ Disconnect(c)
       \/ Create(c) \/ SpawnCli(c) \/ Cleanup(c)

Spec == Init /\ [][Next]_vars

-----------------------------------------------------------------------------
TypeOK ==
  /\ phase \in {"down", "booting", "sweeping", "listening"}
  /\ listing \subseteq Dirs
  /\ conn \in [Conns -> {"none", "loop", "created", "spawned"}]
  /\ dirOf \in [Conns -> Dirs \cup {NoDir}]
  /\ slots \in [Ips -> Nat]
  /\ disk \subseteq Dirs
  /\ created \in 0..MaxDirs
  /\ cli \subseteq Dirs
  /\ leftover \subseteq Dirs
  /\ crashes \in 0..MaxCrashes

Open(ip)      == {c \in Conns : Source[c] = ip /\ conn[c] # "none"}
Executing(ip) == {c \in Open(ip) : conn[c] # "loop"}

\* While the server listens, the slots taken from an address are those of its
\* open connections, also after a crash that dropped connections unreleased.
SlotsAreConnections ==
  phase = "listening" => \A ip \in Ips : slots[ip] = Cardinality(Open(ip))

\* The directory of an execution stays until its own cleanup: no sweep, and no
\* other execution's cleanup, removes it.
InUseKept ==
  \A ip \in Ips : \A c \in Executing(ip) : dirOf[c] \in disk

\* While the server listens every directory on disk belongs to a running
\* execution or is left over since the start: those of an earlier run are gone.
DiskAccounted ==
  phase = "listening" =>
    disk \subseteq leftover \cup UNION {{dirOf[c] : c \in Executing(ip)} : ip \in Ips}
=============================================================================
