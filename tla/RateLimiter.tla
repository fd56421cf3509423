---------------------------- MODULE RateLimiter ----------------------------
(***************************************************************************)
(* The rate limiter of the backend, one step per atomic operation.         *)
(*                                                                         *)
(* active_connections maps an address to an AtomicUsize.  try_acquire      *)
(* keeps the DashMap entry, and with it the write lock of the address,     *)
(* until it returns; release only takes the read lock.  So several         *)
(* releases may run side by side, but none of them, and no other           *)
(* try_acquire, runs between the fetch_add and the fetch_sub of one.       *)
(* DashMap locks a shard, which may hold several addresses; the lock of    *)
(* one address is the least it guarantees.                                 *)
(***************************************************************************)
EXTENDS Integers, FiniteSets

CONSTANTS
  Tasks,      \* the tasks that run handle_socket, one per WebSocket
  Ips,        \* client addresses
  Source,     \* Source[t]: the address extract_client_ip found for t
  MaxPerIp    \* Config::concurrent_per_ip

ASSUME TasksFinite == IsFiniteSet(Tasks)
ASSUME SourceType  == Source \in [Tasks -> Ips]
ASSUME MaxType     == MaxPerIp \in Nat

VARIABLES
  known,      \* the addresses with an entry in active_connections
  counter,    \* the AtomicUsize of each of them (0 where there is no entry)
  pc,         \* where each task stands in try_acquire or release
  current     \* the value fetch_add returned to the task (0 once out of scope)

vars == <<known, counter, pc, current>>

Locations == {"idle", "entry", "added", "held", "refused", "releasing"}

Init ==
  /\ known = {}
  /\ counter = [ip \in Ips |-> 0]
  /\ pc = [t \in Tasks |-> "idle"]
  /\ current = [t \in Tasks |-> 0]

-----------------------------------------------------------------------------
\* Mutant of Writers: the entry gives its lock up before it is used.
WritersUnlocked(ip) == {t \in Tasks : Source[t] = ip /\ pc[t] = "entry"}

\* The tasks that hold the write (resp. the read) lock of an address.
Writers(ip) == {t \in Tasks : Source[t] = ip /\ pc[t] \in {"entry", "added"}}
Readers(ip) == {t \in Tasks : Source[t] = ip /\ pc[t] = "releasing"}

\* active_connections.entry(ip).or_insert_with(...): waits for the lock.
Entry(t) ==
  /\ pc[t] = "idle"
  /\ Writers(Source[t]) = {}
  /\ Readers(Source[t]) = {}
  /\ known' = known \cup {Source[t]}
  /\ counter' = [counter EXCEPT ![Source[t]] = IF Source[t] \in known THEN @ ELSE 0]
  /\ pc' = [pc EXCEPT ![t] = "entry"]
  /\ UNCHANGED current

FetchAdd(t) ==
  /\ pc[t] = "entry"
  /\ current' = [current EXCEPT ![t] = counter[Source[t]]]
  /\ counter' = [counter EXCEPT ![Source[t]] = @ + 1]
  /\ pc' = [pc EXCEPT ![t] = "added"]
  /\ UNCHANGED known

\* Mutants: `<=' for `<'; the fetch_sub performed twice, or left out; a
\* release that does not wait for the lock.
AcceptOneMore(t) ==
  /\ pc[t] = "added"
  /\ current[t] <= MaxPerIp
  /\ pc' = [pc EXCEPT ![t] = "held"]
  /\ current' = [current EXCEPT ![t] = 0]
  /\ UNCHANGED <<known, counter>>

RefuseTwice(t) ==
  /\ pc[t] = "added"
  /\ current[t] >= MaxPerIp
  /\ counter' = [counter EXCEPT ![Source[t]] = @ - 2]
  /\ pc' = [pc EXCEPT ![t] = "refused"]
  /\ current' = [current EXCEPT ![t] = 0]
  /\ UNCHANGED known

RefuseKeepsAdd(t) ==
  /\ pc[t] = "added"
  /\ current[t] >= MaxPerIp
  /\ pc' = [pc EXCEPT ![t] = "refused"]
  /\ current' = [current EXCEPT ![t] = 0]
  /\ UNCHANGED <<known, counter>>

ReleaseUnlocked(t) ==
  /\ pc[t] = "held"
  /\ pc' = [pc EXCEPT ![t] = "releasing"]
  /\ UNCHANGED <<known, counter, current>>

\* Ok(RateLimitGuard): the entry, and the lock with it, is dropped.
Accept(t) ==
  /\ pc[t] = "added"
  /\ current[t] < MaxPerIp
  /\ pc' = [pc EXCEPT ![t] = "held"]
  /\ current' = [current EXCEPT ![t] = 0]
  /\ UNCHANGED <<known, counter>>

\* Err(TooManyConnections), after the fetch_sub that takes the add back.
Refuse(t) ==
  /\ pc[t] = "added"
  /\ current[t] >= MaxPerIp
  /\ counter' = [counter EXCEPT ![Source[t]] = @ - 1]
  /\ pc' = [pc EXCEPT ![t] = "refused"]
  /\ current' = [current EXCEPT ![t] = 0]
  /\ UNCHANGED known

\* Drop of the guard: release looks the entry up under the read lock ...
Release(t) ==
  /\ pc[t] = "held"
  /\ Writers(Source[t]) = {}
  /\ pc' = [pc EXCEPT ![t] = IF Source[t] \in known THEN "releasing" ELSE "idle"]
  /\ UNCHANGED <<known, counter, current>>

\* ... and takes one off its counter.
FetchSub(t) ==
  /\ pc[t] = "releasing"
  /\ counter' = [counter EXCEPT ![Source[t]] = @ - 1]
  /\ pc' = [pc EXCEPT ![t] = "idle"]
  /\ UNCHANGED <<known, current>>

\* A refused client hangs up; its task may serve a new connection.
HangUp(t) ==
  /\ pc[t] = "refused"
  /\ pc' = [pc EXCEPT ![t] = "idle"]
  /\ UNCHANGED <<known, counter, current>>

Next == \E t \in Tasks :
  \/ Entry(t) \/ FetchAdd(t) \/ Accept(t) \/ Refuse(t)
  \/ Release(t) \/ FetchSub(t) \/ HangUp(t)

Spec == Init /\ [][Next]_vars

-----------------------------------------------------------------------------
TypeOK ==
  /\ known \subseteq Ips
  /\ counter \in [Ips -> Nat]
  /\ pc \in [Tasks -> Locations]
  /\ current \in [Tasks -> Nat]

\* The tasks a counter has been incremented for and not yet decremented.
Counted(ip) ==
  {t \in Tasks : Source[t] = ip /\ pc[t] \in {"added", "held", "releasing"}}

\* The counter of an address is the number of its tasks between their
\* fetch_add and their fetch_sub: no path of handle_socket forgets a
\* decrement or performs one twice.
CounterExact == \A ip \in Ips : counter[ip] = Cardinality(Counted(ip))

\* The tasks of an address that own a guard.
Holders(ip) ==
  {t \in Tasks : Source[t] = ip /\ pc[t] \in {"held", "releasing"}}

\* An address never owns more than concurrent_per_ip guards.
SlotsBounded == \A ip \in Ips : Cardinality(Holders(ip)) <= MaxPerIp

\* try_acquire turns a connection away only if MaxPerIp guards are owned at
\* that moment: a refusal under way never costs another client its slot.
RefusedOnlyWhenFull ==
  [][\A t \in Tasks : Refuse(t) =>
       Cardinality(Holders(Source[t])) = MaxPerIp]_vars

-----------------------------------------------------------------------------
\* Whoever is inside try_acquire or owns a guard has its entry in the map.
EntryKnown ==
  \A t \in Tasks : pc[t] \notin {"idle", "refused"} => Source[t] \in known

\* The write lock excludes the readers and every other writer.
LockExclusive ==
  \A t \in Tasks : pc[t] \in {"entry", "added"} =>
    /\ Writers(Source[t]) = {t}
    /\ Readers(Source[t]) = {}

\* What fetch_add returned is still the counter less the task's own one.
CurrentFresh ==
  \A t \in Tasks : pc[t] = "added" => counter[Source[t]] = current[t] + 1

\* The inductive invariant: why a refusal is never spurious.
LimiterInv ==
  /\ TypeOK
  /\ EntryKnown
  /\ LockExclusive
  /\ CounterExact
  /\ CurrentFresh
  /\ SlotsBounded

-----------------------------------------------------------------------------
\* What the tasks have been told, for the abstract specification.
answer == [t \in Tasks |->
  CASE pc[t] \in {"held", "releasing"} -> "held"
    [] pc[t] = "refused" -> "refused"
    [] OTHER -> "none"]

S == INSTANCE Slots

\* The counters and locks implement the slots of module Slots.
ImplementsSlots == S!Spec
=============================================================================
