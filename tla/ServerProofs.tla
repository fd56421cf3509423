---------------------------- MODULE ServerProofs ----------------------------
(***************************************************************************)
(* Proofs about the backend process, for any finite set of connections and *)
(* any number of addresses, directories and crashes: slots are those of    *)
(* the open connections, an execution keeps its directory, and what is on  *)
(* disk is accounted for while the server listens.                         *)
(***************************************************************************)
EXTENDS Server, FiniteSetTheorems, TLAPS

Busy(c) == conn[c] \in {"created", "spawned"}

\* There are connections only while the process listens.
Quiet == phase # "listening" => \A c \in Conns : conn[c] = "none"

\* Each execution has a directory, none has one it did not create, and no two
\* have the same.
OwnDirs ==
  /\ \A c \in Conns : (Busy(c) <=> dirOf[c] # NoDir) /\ dirOf[c] <= created
  /\ \A c, k \in Conns : Busy(c) /\ dirOf[c] = dirOf[k] => c = k

\* From the start of the process on, not only while it listens.
SlotsExact == phase # "down" => \A ip \in Ips : slots[ip] = Cardinality(Open(ip))

DirsThere == \A c \in Conns : Busy(c) => dirOf[c] \in disk

\* What the sweep has still to remove, and what it leaves to the executions.
Swept ==
  /\ phase = "sweeping" => disk \subseteq leftover \cup listing
  /\ phase = "listening" => disk \subseteq leftover \cup {dirOf[c] : c \in {k \in Conns : Busy(k)}}

ServerInv == TypeOK /\ Quiet /\ OwnDirs /\ SlotsExact /\ DirsThere /\ Swept

-----------------------------------------------------------------------------
\* The process starts with nothing.
LEMMA InitInv == Init => ServerInv
<1> SUFFICES ASSUME Init PROVE ServerInv
  OBVIOUS
<1> USE DEF Init
<1>1. TypeOK
  BY LimitsType DEF TypeOK, Dirs, NoDir
<1>2. Quiet /\ SlotsExact /\ DirsThere /\ Swept
  BY DEF Quiet, SlotsExact, DirsThere, Swept, Busy
<1>3. OwnDirs
  BY DEF OwnDirs, Busy, NoDir
<1> QED
  BY <1>1, <1>2, <1>3 DEF ServerInv

\* Open connections are finitely many, and one more or one less of them counts.
LEMMA OpenSets ==
  ASSUME NEW T \in SUBSET Conns, NEW c \in Conns
  PROVE  /\ Cardinality(T) \in Nat
         /\ c \notin T => Cardinality(T \cup {c}) = Cardinality(T) + 1
         /\ c \in T => Cardinality(T \ {c}) = Cardinality(T) - 1 /\ Cardinality(T) # 0
<1>1. IsFiniteSet(T)
  BY ConnsFinite, FS_Subset
<1>2. Cardinality(T) \in Nat
  BY <1>1, FS_CardinalityType
<1>3. c \notin T => Cardinality(T \cup {c}) = Cardinality(T) + 1
  BY <1>1, FS_AddElement
<1>4. c \in T => Cardinality(T \ {c}) = Cardinality(T) - 1
  BY <1>1, FS_RemoveElement
<1>5. c \in T => Cardinality(T) # 0
  BY <1>1, FS_EmptySet
<1> QED
  BY <1>2, <1>3, <1>4, <1>5

\* A connection that opens or closes changes the slots of its address by one.
LEMMA SlotsStep ==
  ASSUME ServerInv, [Next]_vars
  PROVE  SlotsExact' /\ slots' \in [Ips -> Nat]
<1> USE DEF ServerInv
<1>0. slots \in [Ips -> Nat] /\ conn \in [Conns -> {"none", "loop", "created", "spawned"}]
  BY DEF TypeOK
<1>1. ASSUME NEW c \in Conns, Accept(c) PROVE SlotsExact' /\ slots' \in [Ips -> Nat]
  <2>1. \A ip \in Ips : Open(ip)' = IF ip = Source[c] THEN Open(ip) \cup {c} ELSE Open(ip)
    BY <1>0, <1>1 DEF Accept, Open
  <2>2. c \notin Open(Source[c])
    BY <1>1 DEF Accept, Open
  <2>3. \A ip \in Ips : slots[ip] = Cardinality(Open(ip))
    BY <1>1 DEF Accept, SlotsExact
  <2>4. \A ip \in Ips : Open(ip) \in SUBSET Conns
    BY DEF Open
  <2>5. Source[c] \in Ips
    BY SourceType
  <2>6. Cardinality(Open(Source[c]) \cup {c}) = slots[Source[c]] + 1
    BY <2>2, <2>3, <2>4, <2>5, OpenSets
  <2>7. slots' = [slots EXCEPT ![Source[c]] = slots[Source[c]] + 1]
    BY <1>1 DEF Accept
  <2>8. slots' \in [Ips -> Nat]
    BY <1>0, <2>5, <2>7
  <2>9. \A ip \in Ips : slots'[ip] = Cardinality(Open(ip)')
    BY <1>0, <2>1, <2>3, <2>5, <2>6, <2>7
  <2> QED
    BY <2>8, <2>9 DEF SlotsExact
<1>2. ASSUME NEW c \in Conns, Disconnect(c) PROVE SlotsExact' /\ slots' \in [Ips -> Nat]
  <2>1. \A ip \in Ips : Open(ip)' = IF ip = Source[c] THEN Open(ip) \ {c} ELSE Open(ip)
    BY <1>0, <1>2 DEF Disconnect, Open
  <2>2. c \in Open(Source[c])
    BY <1>2 DEF Disconnect, Open
  <2>3. \A ip \in Ips : slots[ip] = Cardinality(Open(ip))
    BY <1>2 DEF Disconnect, SlotsExact, Quiet
  <2>4. \A ip \in Ips : Open(ip) \in SUBSET Conns
    BY DEF Open
  <2>5. Source[c] \in Ips
    BY SourceType
  <2>6. Cardinality(Open(Source[c]) \ {c}) = slots[Source[c]] - 1 /\ slots[Source[c]] # 0
    BY <2>2, <2>3, <2>4, <2>5, OpenSets
  <2>7. slots' = [slots EXCEPT ![Source[c]] = slots[Source[c]] - 1]
    BY <1>2 DEF Disconnect
  <2>8. slots' \in [Ips -> Nat]
    BY <1>0, <2>5, <2>6, <2>7
  <2>9. \A ip \in Ips : slots'[ip] = Cardinality(Open(ip)')
    BY <1>0, <2>1, <2>3, <2>5, <2>6, <2>7
  <2> QED
    BY <2>8, <2>9 DEF SlotsExact
<1>3. CASE Boot
  <2>1. \A ip \in Ips : Open(ip)' = {}
    BY <1>3 DEF Boot, Open, Quiet
  <2> QED
    BY <1>3, <2>1, FS_EmptySet DEF Boot, SlotsExact
<1>4. CASE Crash
  BY <1>0, <1>4 DEF Crash, SlotsExact
<1>5. ASSUME NEW c \in Conns, Create(c) \/ SpawnCli(c) \/ Cleanup(c)
      PROVE  SlotsExact' /\ slots' \in [Ips -> Nat]
  <2>1. \A ip \in Ips : Open(ip)' = Open(ip)
    BY <1>0, <1>5 DEF Create, SpawnCli, Cleanup, Open
  <2>2. phase' = phase /\ slots' = slots
    BY <1>5 DEF Create, SpawnCli, Cleanup, files
  <2> QED
    BY <1>0, <2>1, <2>2 DEF SlotsExact
<1>6. ASSUME conn' = conn, slots' = slots, phase' # "down" => phase # "down"
      PROVE  SlotsExact' /\ slots' \in [Ips -> Nat]
  BY <1>0, <1>6 DEF SlotsExact, Open
<1>7. CASE ReadTempDir \/ SweepBreaksOff \/ Listen
  <2>1. conn' = conn /\ slots' = slots /\ phase # "down"
    BY <1>7 DEF ReadTempDir, SweepBreaksOff, Listen, connections
  <2> QED
    BY <1>6, <2>1
<1>8. ASSUME NEW d \in Dirs, RemoveOrphan(d) \/ CliEnds(d) \/ CliMakesDir(d)
      PROVE  SlotsExact' /\ slots' \in [Ips -> Nat]
  <2>1. conn' = conn /\ slots' = slots /\ phase' = phase
    BY <1>8 DEF RemoveOrphan, CliEnds, CliMakesDir, connections
  <2> QED
    BY <1>6, <2>1
<1>9. ASSUME NEW c \in Conns, Refuse(c) PROVE SlotsExact' /\ slots' \in [Ips -> Nat]
  <2>1. conn' = conn /\ slots' = slots /\ phase' = phase
    BY <1>9 DEF Refuse, vars
  <2> QED
    BY <1>6, <2>1
<1>10. CASE UNCHANGED vars
  <2>1. conn' = conn /\ slots' = slots /\ phase' = phase
    BY <1>10 DEF vars
  <2> QED
    BY <1>6, <2>1
<1> QED
  BY <1>1, <1>2, <1>3, <1>4, <1>5, <1>7, <1>8, <1>9, <1>10 DEF Next

\* The types, but for the slots of the lemma before.
LEMMA TypeStep ==
  ASSUME ServerInv, [Next]_vars
  PROVE  TypeOK'
<1> USE DEF ServerInv
<1>1. slots' \in [Ips -> Nat]
  BY SlotsStep
<1>2. MaxDirs \in Nat /\ MaxCrashes \in Nat /\ created \in 0..MaxDirs /\ crashes \in 0..MaxCrashes
  BY LimitsType DEF TypeOK
<1>3. \A c \in Conns : Create(c) => created + 1 \in Dirs /\ created + 1 \in 0..MaxDirs
  BY <1>2 DEF Create, Dirs
<1>4. phase' \in {"down", "booting", "sweeping", "listening"} /\ crashes' \in 0..MaxCrashes
  BY <1>2 DEF TypeOK, Next, vars, connections, files, Boot, ReadTempDir, SweepBreaksOff, Listen,
     Crash, RemoveOrphan, CliEnds, CliMakesDir, Accept, Refuse, Disconnect, Create, SpawnCli, Cleanup
<1>5. created' \in 0..MaxDirs
  BY <1>2, <1>3 DEF Next, vars, connections, files, Boot, ReadTempDir, SweepBreaksOff, Listen,
     Crash, RemoveOrphan, CliEnds, CliMakesDir, Accept, Refuse, Disconnect, Create, SpawnCli, Cleanup
<1>6. conn' \in [Conns -> {"none", "loop", "created", "spawned"}]
  BY DEF TypeOK, Next, vars, connections, files, Boot, ReadTempDir, SweepBreaksOff, Listen,
     Crash, RemoveOrphan, CliEnds, CliMakesDir, Accept, Refuse, Disconnect, Create, SpawnCli, Cleanup
<1>7. dirOf' \in [Conns -> Dirs \cup {NoDir}]
  BY <1>3 DEF TypeOK, Next, vars, connections, files, Boot, ReadTempDir, SweepBreaksOff, Listen,
     Crash, RemoveOrphan, CliEnds, CliMakesDir, Accept, Refuse, Disconnect, Create, SpawnCli, Cleanup
<1>8. disk' \subseteq Dirs /\ listing' \subseteq Dirs
  BY <1>3 DEF TypeOK, Next, vars, connections, files, Boot, ReadTempDir, SweepBreaksOff, Listen,
     Crash, RemoveOrphan, CliEnds, CliMakesDir, Accept, Refuse, Disconnect, Create, SpawnCli, Cleanup
<1>9. \A c \in Conns : Busy(c) => dirOf[c] \in Dirs
  BY DEF TypeOK, OwnDirs
<1>10. leftover' \subseteq Dirs
  BY <1>3, <1>9 DEF TypeOK, Busy, Next, vars, connections, files, Boot, ReadTempDir, SweepBreaksOff, Listen,
     Crash, RemoveOrphan, CliEnds, CliMakesDir, Accept, Refuse, Disconnect, Create, SpawnCli, Cleanup
<1>11. cli' \subseteq Dirs
  BY <1>9 DEF TypeOK, Busy, Next, vars, connections, files, Boot, ReadTempDir, SweepBreaksOff, Listen,
     Crash, RemoveOrphan, CliEnds, CliMakesDir, Accept, Refuse, Disconnect, Create, SpawnCli, Cleanup
<1> QED
  BY <1>1, <1>4, <1>5, <1>6, <1>7, <1>8, <1>10, <1>11 DEF TypeOK

\* The steps that change neither connections nor their directories.
Apart ==
  \/ Boot \/ ReadTempDir \/ SweepBreaksOff \/ Listen
  \/ \E d \in Dirs : RemoveOrphan(d) \/ CliEnds(d) \/ CliMakesDir(d)
  \/ \E c \in Conns : Refuse(c)
  \/ UNCHANGED vars

\* They are as apart as their name says.
LEMMA ApartSame == Apart => UNCHANGED <<conn, dirOf, created>>
  BY DEF Apart, vars, connections, files, Boot, ReadTempDir, SweepBreaksOff, Listen, RemoveOrphan,
     CliEnds, CliMakesDir, Refuse

\* Connections are accepted while the process listens, and a crash ends them.
LEMMA QuietStep ==
  ASSUME ServerInv, [Next]_vars
  PROVE  Quiet'
<1> USE DEF ServerInv, Quiet
<1>0. conn \in [Conns -> {"none", "loop", "created", "spawned"}]
  BY DEF TypeOK
<1>1. CASE Apart
  BY <1>1, ApartSame DEF Apart, vars, connections, files, Boot, ReadTempDir, SweepBreaksOff,
     Listen, RemoveOrphan, CliEnds, CliMakesDir, Refuse
<1>2. CASE Crash
  BY <1>2 DEF Crash
<1>3. ASSUME NEW c \in Conns, Accept(c) \/ Disconnect(c) \/ Create(c) \/ SpawnCli(c) \/ Cleanup(c)
      PROVE  Quiet'
  BY <1>0, <1>3 DEF Accept, Disconnect, Create, SpawnCli, Cleanup
<1> QED
  BY <1>1, <1>2, <1>3 DEF Next, Apart

\* A new directory has a new number, and a finished execution keeps none.
LEMMA OwnDirsStep ==
  ASSUME ServerInv, [Next]_vars
  PROVE  OwnDirs'
<1> USE DEF ServerInv
<1>0. /\ conn \in [Conns -> {"none", "loop", "created", "spawned"}]
      /\ dirOf \in [Conns -> Dirs \cup {NoDir}] /\ created \in Nat
  BY LimitsType DEF TypeOK
<1>00. \A d \in Dirs \cup {NoDir} : d \in Nat
  BY DEF Dirs, NoDir
<1>1. CASE Apart
  BY <1>1, ApartSame DEF OwnDirs, Busy
<1>2. CASE Crash
  BY <1>0, <1>2 DEF Crash, files, OwnDirs, Busy, NoDir
<1>3. ASSUME NEW c \in Conns, Accept(c) \/ Disconnect(c) \/ SpawnCli(c) PROVE OwnDirs'
  <2>1. dirOf' = dirOf /\ created' = created
    BY <1>3 DEF Accept, Disconnect, SpawnCli, files
  <2>2. \A k \in Conns : Busy(k)' <=> Busy(k)
    BY <1>0, <1>3 DEF Accept, Disconnect, SpawnCli, Busy
  <2> QED
    BY <2>1, <2>2 DEF OwnDirs
<1>4. ASSUME NEW c \in Conns, Create(c) PROVE OwnDirs'
  <2>1. CASE UNCHANGED <<conn, dirOf>>
    <3>1. created' = created + 1
      BY <1>4 DEF Create
    <3>2. \A k \in Conns : dirOf[k] \in Nat /\ dirOf[k] <= created
      BY <1>0, <1>00 DEF OwnDirs
    <3>3. \A k \in Conns : dirOf'[k] <= created'
      BY <1>0, <2>1, <3>1, <3>2
    <3> QED
      BY <2>1, <3>3 DEF OwnDirs, Busy
  <2>2. CASE /\ conn' = [conn EXCEPT ![c] = "created"]
             /\ dirOf' = [dirOf EXCEPT ![c] = created + 1]
    <3>1. created' = created + 1
      BY <1>4 DEF Create
    <3>2. \A k \in Conns : k # c => (Busy(k)' <=> Busy(k)) /\ dirOf'[k] = dirOf[k] /\ dirOf[k] # created + 1
      BY <1>0, <1>00, <2>2 DEF OwnDirs, Busy
    <3>3. Busy(c)' /\ dirOf'[c] = created + 1 /\ created + 1 # NoDir
      BY <1>0, <2>2 DEF Busy, NoDir
    <3> QED
      BY <1>0, <1>00, <3>1, <3>2, <3>3 DEF OwnDirs
  <2> QED
    BY <1>4, <2>1, <2>2 DEF Create
<1>5. ASSUME NEW c \in Conns, Cleanup(c) PROVE OwnDirs'
  <2>1. created' = created
    BY <1>5 DEF Cleanup
  <2>2. \A k \in Conns : k # c => (Busy(k)' <=> Busy(k)) /\ dirOf'[k] = dirOf[k]
    BY <1>0, <1>5 DEF Cleanup, Busy
  <2>3. ~Busy(c)' /\ dirOf'[c] = NoDir /\ NoDir <= created
    BY <1>0, <1>5 DEF Cleanup, Busy, NoDir
  <2> QED
    BY <2>1, <2>2, <2>3 DEF OwnDirs
<1> QED
  BY <1>1, <1>2, <1>3, <1>4, <1>5 DEF Next, Apart

\* The sweep is over when executions begin, and a cleanup takes its own.
LEMMA DirsThereStep ==
  ASSUME ServerInv, [Next]_vars
  PROVE  DirsThere'
<1> USE DEF ServerInv
<1>0. /\ conn \in [Conns -> {"none", "loop", "created", "spawned"}]
      /\ dirOf \in [Conns -> Dirs \cup {NoDir}]
  BY DEF TypeOK
<1>1. ASSUME NEW d \in Dirs, RemoveOrphan(d) PROVE DirsThere'
  BY <1>1 DEF RemoveOrphan, connections, Quiet, DirsThere, Busy
<1>2. ASSUME UNCHANGED <<conn, dirOf>>, disk \subseteq disk' PROVE DirsThere'
  BY <1>2 DEF DirsThere, Busy
<1>3. CASE Boot \/ ReadTempDir \/ SweepBreaksOff \/ Listen \/ UNCHANGED vars
  BY <1>2, <1>3 DEF vars, connections, files, Boot, ReadTempDir, SweepBreaksOff, Listen
<1>4. ASSUME NEW d \in Dirs, CliEnds(d) \/ CliMakesDir(d) PROVE DirsThere'
  BY <1>2, <1>4 DEF CliEnds, CliMakesDir, connections, files
<1>5. CASE Crash
  BY <1>5 DEF Crash, DirsThere, Busy
<1>6. ASSUME NEW c \in Conns, Accept(c) \/ Refuse(c) \/ Disconnect(c) \/ SpawnCli(c) PROVE DirsThere'
  <2>1. dirOf' = dirOf /\ disk' = disk
    BY <1>6 DEF Accept, Refuse, Disconnect, SpawnCli, files, vars
  <2>2. \A k \in Conns : Busy(k)' <=> Busy(k)
    BY <1>0, <1>6 DEF Accept, Refuse, Disconnect, SpawnCli, Busy, vars
  <2> QED
    BY <2>1, <2>2 DEF DirsThere
<1>7. ASSUME NEW c \in Conns, Create(c) PROVE DirsThere'
  <2>1. \A k \in Conns : k # c => (Busy(k)' <=> Busy(k)) /\ dirOf'[k] = dirOf[k]
    BY <1>0, <1>7 DEF Create, Busy
  <2>2. Busy(c)' => dirOf'[c] = created + 1
    BY <1>0, <1>7 DEF Create, Busy
  <2> QED
    BY <1>7, <2>1, <2>2 DEF Create, DirsThere
<1>8. ASSUME NEW c \in Conns, Cleanup(c) PROVE DirsThere'
  <2>1. \A k \in Conns : k # c => (Busy(k)' <=> Busy(k)) /\ dirOf'[k] = dirOf[k]
    BY <1>0, <1>8 DEF Cleanup, Busy
  <2>2. ~Busy(c)' /\ disk \ {dirOf[c]} \subseteq disk'
    BY <1>0, <1>8 DEF Cleanup, Busy
  <2>3. \A k \in Conns : Busy(k) /\ k # c => dirOf[k] # dirOf[c]
    BY DEF OwnDirs
  <2> QED
    BY <2>1, <2>2, <2>3 DEF DirsThere
<1> QED
  BY <1>1, <1>3, <1>4, <1>5, <1>6, <1>7, <1>8 DEF Next

\* Nothing is on disk but what the sweep has before it, what was left over and
\* what an execution uses.
LEMMA SweptStep ==
  ASSUME ServerInv, [Next]_vars
  PROVE  Swept'
<1> USE DEF ServerInv
<1> DEFINE Used == {dirOf[c] : c \in {k \in Conns : Busy(k)}}
<1>0. /\ conn \in [Conns -> {"none", "loop", "created", "spawned"}]
      /\ dirOf \in [Conns -> Dirs \cup {NoDir}]
  BY DEF TypeOK
<1>1. CASE Boot \/ ReadTempDir \/ SweepBreaksOff \/ Crash
  BY <1>1 DEF Boot, ReadTempDir, SweepBreaksOff, Crash, connections, files, Swept
<1>2. CASE Listen
  BY <1>2 DEF Listen, connections, files, Swept, Busy
<1>3. ASSUME phase' = phase, UNCHANGED <<conn, dirOf>>, leftover \cup listing \subseteq leftover' \cup listing',
             leftover \subseteq leftover', disk' \ leftover' \subseteq disk
      PROVE  Swept'
  BY <1>3 DEF Swept, Busy
<1>4. ASSUME NEW d \in Dirs, CliEnds(d) \/ CliMakesDir(d) PROVE Swept'
  BY <1>3, <1>4 DEF CliEnds, CliMakesDir, connections, files
<1>5. ASSUME NEW d \in Dirs, RemoveOrphan(d) PROVE Swept'
  BY <1>5 DEF RemoveOrphan, connections, Swept
<1>6. CASE UNCHANGED vars
  BY <1>3, <1>6 DEF vars
<1>7. ASSUME NEW c \in Conns, Accept(c) \/ Refuse(c) \/ Disconnect(c) \/ SpawnCli(c) PROVE Swept'
  <2>1. UNCHANGED <<phase, listing, dirOf, disk, leftover>>
    BY <1>7 DEF Accept, Refuse, Disconnect, SpawnCli, files, vars
  <2>2. \A k \in Conns : Busy(k)' <=> Busy(k)
    BY <1>0, <1>7 DEF Accept, Refuse, Disconnect, SpawnCli, Busy, vars
  <2>3. Used' = Used
    BY <2>1, <2>2
  <2> QED
    BY <2>1, <2>3 DEF Swept
<1>8. ASSUME NEW c \in Conns, Create(c) PROVE Swept'
  <2>1. \A k \in Conns : Busy(k) => Busy(k)' /\ dirOf'[k] = dirOf[k]
    BY <1>0, <1>8 DEF Create, Busy
  <2>2. created + 1 \in leftover' \cup Used'
    BY <1>0, <1>8 DEF Create, Busy
  <2>3. Used \subseteq Used'
    BY <2>1
  <2>4. phase = "listening"
    BY <1>8 DEF Create, Quiet
  <2>5. phase' = phase /\ disk' = disk \cup {created + 1} /\ leftover \subseteq leftover'
    BY <1>8 DEF Create
  <2> QED
    BY <2>2, <2>3, <2>4, <2>5 DEF Swept
<1>9. ASSUME NEW c \in Conns, Cleanup(c) PROVE Swept'
  <2>1. \A k \in Conns : k # c /\ Busy(k) => Busy(k)' /\ dirOf'[k] = dirOf[k]
    BY <1>0, <1>9 DEF Cleanup, Busy
  <2>2. Used \ {dirOf[c]} \subseteq Used'
    BY <2>1
  <2>3. phase = "listening"
    BY <1>9 DEF Cleanup, Quiet
  <2>4. phase' = phase /\ leftover \subseteq leftover' /\ disk' \subseteq disk /\ (dirOf[c] \in disk' => dirOf[c] \in leftover')
    BY <1>9 DEF Cleanup
  <2> QED
    BY <2>2, <2>3, <2>4 DEF Swept
<1> QED
  BY <1>1, <1>2, <1>4, <1>5, <1>6, <1>7, <1>8, <1>9 DEF Next

-----------------------------------------------------------------------------
\* The inductive invariant.
THEOREM ServerInvariant == Spec => []ServerInv
<1>1. ServerInv /\ [Next]_vars => ServerInv'
  BY TypeStep, QuietStep, OwnDirsStep, SlotsStep, DirsThereStep, SweptStep DEF ServerInv
<1> QED
  BY InitInv, <1>1, PTL DEF Spec

\* The state of the process is well typed; in particular no slot is given back
\* that was not taken.
THEOREM TypeCorrect == Spec => []TypeOK
<1>1. ServerInv => TypeOK
  BY DEF ServerInv
<1> QED
  BY ServerInvariant, <1>1, PTL

\* Slots follow the connections through every crash and restart.
THEOREM SlotsCorrect == Spec => []SlotsAreConnections
<1>1. ServerInv => SlotsAreConnections
  BY DEF ServerInv, SlotsExact, SlotsAreConnections
<1> QED
  BY ServerInvariant, <1>1, PTL

\* An execution keeps its directory until its own cleanup.
THEOREM InUseCorrect == Spec => []InUseKept
<1>1. ServerInv => InUseKept
  BY DEF ServerInv, TypeOK, DirsThere, Busy, InUseKept, Executing, Open
<1> QED
  BY ServerInvariant, <1>1, PTL

\* What is on disk is in use, or left over since the start.
THEOREM DiskCorrect == Spec => []DiskAccounted
<1>1. ASSUME ServerInv, phase = "listening", NEW d \in disk, d \notin leftover
      PROVE  d \in UNION {{dirOf[c] : c \in Executing(ip)} : ip \in Ips}
  <2>1. PICK c \in Conns : Busy(c) /\ d = dirOf[c]
    BY <1>1 DEF ServerInv, Swept
  <2>2. Source[c] \in Ips /\ c \in Executing(Source[c])
    BY <2>1, SourceType DEF Executing, Open, Busy
  <2> QED
    BY <2>1, <2>2
<1>2. ServerInv => DiskAccounted
  BY <1>1 DEF DiskAccounted
<1> QED
  BY ServerInvariant, <1>2, PTL
=============================================================================
