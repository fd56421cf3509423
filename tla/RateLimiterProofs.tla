------------------------- MODULE RateLimiterProofs -------------------------
(***************************************************************************)
(* Proofs about the rate limiter, for any number of tasks, addresses and   *)
(* slots: the invariant LimiterInv is inductive, an address never owns     *)
(* more than MaxPerIp guards, no refusal is spurious, and the counters     *)
(* under their locks implement the slots of module Slots.                  *)
(***************************************************************************)
EXTENDS RateLimiter, FiniteSetTheorems, TLAPS

\* A set of tasks is finite, and its cardinality is a natural number.
LEMMA TaskSets ==
  ASSUME NEW T \in SUBSET Tasks
  PROVE  IsFiniteSet(T) /\ Cardinality(T) \in Nat
  BY TasksFinite, FS_Subset, FS_CardinalityType

\* Nobody is counted at the start.
LEMMA InitInv == Init => LimiterInv
<1> SUFFICES ASSUME Init PROVE LimiterInv
  OBVIOUS
<1>1. \A ip \in Ips : Counted(ip) = {} /\ Holders(ip) = {}
  BY DEF Init, Counted, Holders
<1>2. CounterExact /\ SlotsBounded
  BY <1>1, FS_EmptySet, MaxType DEF Init, CounterExact, SlotsBounded
<1>3. TypeOK /\ EntryKnown /\ LockExclusive /\ CurrentFresh
  BY DEF Init, TypeOK, Locations, EntryKnown, LockExclusive, CurrentFresh
<1> QED
  BY <1>2, <1>3 DEF LimiterInv

\* fetch_add: the task joins the tasks its address is counted for.
LEMMA FetchAddCounts ==
  ASSUME LimiterInv, NEW t \in Tasks, FetchAdd(t)
  PROVE  CounterExact' /\ counter' \in [Ips -> Nat]
<1> USE SourceType DEF LimiterInv, TypeOK, CounterExact, FetchAdd
<1>1. \A ip \in Ips : Counted(ip)' =
        IF ip = Source[t] THEN Counted(ip) \cup {t} ELSE Counted(ip)
  BY DEF Counted
<1>2. t \notin Counted(Source[t])
  BY DEF Counted
<1>3. \A ip \in Ips : Counted(ip) \in SUBSET Tasks
  BY DEF Counted
<1>4. Cardinality(Counted(Source[t]) \cup {t}) = Cardinality(Counted(Source[t])) + 1
  BY <1>2, <1>3, TaskSets, FS_AddElement
<1>5. Source[t] \in Ips
  OBVIOUS
<1>6. counter' = [counter EXCEPT ![Source[t]] = @ + 1]
  OBVIOUS
<1>7. CounterExact'
  <2>1. \A ip \in Ips : counter'[ip] = Cardinality(Counted(ip)')
    BY <1>1, <1>4, <1>5, <1>6
  <2> QED
    BY <2>1
<1> QED
  BY <1>5, <1>6, <1>7

\* fetch_sub, in a refusal or in a release: the task leaves them again.
LEMMA FetchSubCounts ==
  ASSUME LimiterInv, NEW t \in Tasks, Refuse(t) \/ FetchSub(t)
  PROVE  CounterExact' /\ counter' \in [Ips -> Nat]
<1> USE SourceType DEF LimiterInv, TypeOK, CounterExact, Refuse, FetchSub
<1>1. \A ip \in Ips : Counted(ip)' =
        IF ip = Source[t] THEN Counted(ip) \ {t} ELSE Counted(ip)
  BY DEF Counted
<1>2. t \in Counted(Source[t])
  BY DEF Counted
<1>3. \A ip \in Ips : Counted(ip) \in SUBSET Tasks
  BY DEF Counted
<1>4. Cardinality(Counted(Source[t]) \ {t}) = Cardinality(Counted(Source[t])) - 1
  BY <1>2, <1>3, TaskSets, FS_RemoveElement
<1>5. Cardinality(Counted(Source[t]) \ {t}) \in Nat
  BY <1>3, TaskSets
<1>6. counter' = [counter EXCEPT ![Source[t]] = @ - 1]
  OBVIOUS
<1> QED
  BY <1>1, <1>4, <1>5, <1>6

\* The other steps neither change a counter nor who is counted.
LEMMA OthersCount ==
  ASSUME LimiterInv, NEW t \in Tasks,
         Entry(t) \/ Accept(t) \/ Release(t) \/ HangUp(t)
  PROVE  CounterExact' /\ counter' \in [Ips -> Nat]
<1> USE SourceType DEF LimiterInv, TypeOK, CounterExact
<1>1. CASE Entry(t)
  <2>1. \A ip \in Ips : Counted(ip)' = Counted(ip)
    BY <1>1 DEF Entry, Counted
  <2>2. Source[t] \notin known => Counted(Source[t]) = {}
    BY DEF EntryKnown, Counted
  <2>3. counter' = counter
    BY <1>1, <2>2, FS_EmptySet DEF Entry
  <2> QED
    BY <2>1, <2>3
<1>2. CASE Accept(t) \/ Release(t) \/ HangUp(t)
  <2>1. \A ip \in Ips : Counted(ip)' = Counted(ip)
    BY <1>2 DEF Accept, Release, HangUp, Counted, EntryKnown
  <2> QED
    BY <1>2, <2>1 DEF Accept, Release, HangUp
<1> QED
  BY <1>1, <1>2

\* Every step keeps the locks exclusive.
LEMMA LocksKept ==
  ASSUME LimiterInv, NEW t \in Tasks,
         \/ Entry(t) \/ FetchAdd(t) \/ Accept(t) \/ Refuse(t)
         \/ Release(t) \/ FetchSub(t) \/ HangUp(t)
  PROVE  LockExclusive'
<1> USE DEF LimiterInv, TypeOK, LockExclusive, Writers, Readers
<1>1. CASE Entry(t)
  BY <1>1 DEF Entry
<1>2. CASE FetchAdd(t)
  BY <1>2 DEF FetchAdd
<1>3. CASE Accept(t) \/ Refuse(t)
  BY <1>3 DEF Accept, Refuse
<1>4. CASE Release(t)
  BY <1>4 DEF Release
<1>5. CASE FetchSub(t) \/ HangUp(t)
  BY <1>5 DEF FetchSub, HangUp
<1> QED
  BY <1>1, <1>2, <1>3, <1>4, <1>5

\* A task is accepted only while its address has a slot left: the counted
\* tasks are then its holders and the task itself.
LEMMA SlotsKept ==
  ASSUME LimiterInv, NEW t \in Tasks,
         \/ Entry(t) \/ FetchAdd(t) \/ Accept(t) \/ Refuse(t)
         \/ Release(t) \/ FetchSub(t) \/ HangUp(t)
  PROVE  SlotsBounded'
<1> USE DEF LimiterInv, TypeOK
<1>1. CASE Accept(t)
  <2>1. Source[t] \in Ips
    BY SourceType
  <2>2. Holders(Source[t])' = Counted(Source[t])
    BY <1>1 DEF Accept, Holders, Counted, LockExclusive, Writers
  <2>3. Cardinality(Counted(Source[t])) <= MaxPerIp
    <3>1. counter[Source[t]] = current[t] + 1 /\ current[t] < MaxPerIp
      BY <1>1 DEF Accept, CurrentFresh
    <3>2. current[t] \in Nat
      OBVIOUS
    <3> QED
      BY <2>1, <3>1, <3>2, MaxType DEF CounterExact
  <2>4. \A ip \in Ips : ip # Source[t] => Holders(ip)' = Holders(ip)
    BY <1>1 DEF Accept, Holders
  <2> QED
    BY <2>2, <2>3, <2>4 DEF SlotsBounded
<1>2. CASE Entry(t) \/ FetchAdd(t) \/ Refuse(t) \/ Release(t) \/ FetchSub(t) \/ HangUp(t)
  <2>1. \A ip \in Ips : Holders(ip)' \in SUBSET Holders(ip)
    BY <1>2 DEF Entry, FetchAdd, Refuse, Release, FetchSub, HangUp, Holders
  <2>2. \A ip \in Ips : Holders(ip) \in SUBSET Tasks
    BY DEF Holders
  <2>3. \A ip \in Ips : Cardinality(Holders(ip)') <= Cardinality(Holders(ip))
    BY <2>1, <2>2, TaskSets, FS_Subset
  <2>4. \A ip \in Ips : Holders(ip)' \in SUBSET Tasks
    BY <2>1, <2>2
  <2>5. \A ip \in Ips : Cardinality(Holders(ip)) \in Nat /\ Cardinality(Holders(ip)') \in Nat
    BY <2>2, <2>4, TaskSets
  <2>6. \A ip \in Ips : Cardinality(Holders(ip)') <= MaxPerIp
    BY <2>3, <2>5, MaxType DEF SlotsBounded
  <2> QED
    BY <2>6 DEF SlotsBounded
<1> QED
  BY <1>1, <1>2

\* The inductive step.
LEMMA StepInv == LimiterInv /\ [Next]_vars => LimiterInv'
<1> SUFFICES ASSUME LimiterInv, [Next]_vars PROVE LimiterInv'
  OBVIOUS
<1>1. CASE UNCHANGED vars
  BY <1>1 DEF vars, LimiterInv, TypeOK, EntryKnown, LockExclusive, CounterExact,
              CurrentFresh, SlotsBounded, Writers, Readers, Counted, Holders
<1>2. ASSUME NEW t \in Tasks,
             \/ Entry(t) \/ FetchAdd(t) \/ Accept(t) \/ Refuse(t)
             \/ Release(t) \/ FetchSub(t) \/ HangUp(t)
      PROVE  LimiterInv'
  <2>1. CounterExact' /\ counter' \in [Ips -> Nat]
    BY <1>2, FetchAddCounts, FetchSubCounts, OthersCount
  <2>2. LockExclusive' /\ SlotsBounded'
    BY <1>2, LocksKept, SlotsKept
  <2>3. /\ known' \subseteq Ips
        /\ pc' \in [Tasks -> Locations]
        /\ current' \in [Tasks -> Nat]
    BY <1>2, SourceType
       DEF LimiterInv, TypeOK, Locations,
           Entry, FetchAdd, Accept, Refuse, Release, FetchSub, HangUp
  <2>4. EntryKnown'
    BY <1>2, SourceType
       DEF LimiterInv, TypeOK, Locations, EntryKnown,
           Entry, FetchAdd, Accept, Refuse, Release, FetchSub, HangUp
  <2>5. CurrentFresh'
    <3> USE SourceType DEF LimiterInv, TypeOK, CurrentFresh
    <3>1. CASE Entry(t)
      <4>1. Writers(Source[t]) = {}
        BY <3>1 DEF Entry
      <4>2. \A u \in Tasks : pc'[u] = "added" => pc[u] = "added" /\ Source[u] # Source[t]
        BY <3>1, <4>1 DEF Entry, Writers
      <4> QED
        BY <3>1, <4>2 DEF Entry
    <3>2. CASE FetchAdd(t)
      <4>1. \A u \in Tasks : pc[u] = "added" => Source[u] # Source[t]
        BY <3>2 DEF FetchAdd, LockExclusive, Writers
      <4> QED
        BY <3>2, <4>1 DEF FetchAdd
    <3>3. CASE Accept(t)
      BY <3>3 DEF Accept
    <3>4. CASE Refuse(t)
      <4>1. \A u \in Tasks \ {t} : pc[u] = "added" => Source[u] # Source[t]
        BY <3>4 DEF Refuse, LockExclusive, Writers
      <4> QED
        BY <3>4, <4>1 DEF Refuse
    <3>5. CASE Release(t) \/ HangUp(t)
      BY <3>5 DEF Release, HangUp
    <3>6. CASE FetchSub(t)
      <4>1. \A u \in Tasks : pc[u] = "added" => Source[u] # Source[t]
        BY <3>6 DEF FetchSub, LockExclusive, Readers
      <4> QED
        BY <3>6, <4>1 DEF FetchSub
    <3> QED
      BY <1>2, <3>1, <3>2, <3>3, <3>4, <3>5, <3>6
  <2> QED
    BY <2>1, <2>2, <2>3, <2>4, <2>5 DEF LimiterInv, TypeOK
<1> QED
  BY <1>1, <1>2 DEF Next

\* The counters are exact, the locks exclusive and the slots bounded in every
\* state of the rate limiter.
THEOREM LimiterInvariant == Spec => []LimiterInv
  BY InitInv, StepInv, PTL DEF Spec

\* The limit holds: an address never owns more than MaxPerIp guards.
THEOREM SlotsAreBounded == Spec => []SlotsBounded
<1>1. LimiterInv => SlotsBounded
  BY DEF LimiterInv
<1> QED
  BY <1>1, LimiterInvariant, PTL

\* In a state of LimiterInv a refusing task is counted besides the holders of
\* its address, so those are exactly MaxPerIp.
LEMMA RefusalFull ==
  ASSUME LimiterInv, NEW t \in Tasks, Refuse(t)
  PROVE  Cardinality(Holders(Source[t])) = MaxPerIp
<1> USE DEF LimiterInv, TypeOK
<1>1. Source[t] \in Ips
  BY SourceType
<1>2. Counted(Source[t]) = Holders(Source[t]) \cup {t} /\ t \notin Holders(Source[t])
  BY DEF Refuse, Counted, Holders, LockExclusive, Writers
<1>3. Holders(Source[t]) \in SUBSET Tasks
  BY DEF Holders
<1>4. Cardinality(Counted(Source[t])) = Cardinality(Holders(Source[t])) + 1
  BY <1>2, <1>3, TaskSets, FS_AddElement
<1>5. counter[Source[t]] = current[t] + 1 /\ current[t] >= MaxPerIp
  BY DEF Refuse, CurrentFresh
<1>6. Cardinality(Holders(Source[t])) \in Nat /\ current[t] \in Nat
  BY <1>3, TaskSets
<1>7. Cardinality(Holders(Source[t])) <= MaxPerIp
  BY <1>1 DEF SlotsBounded
<1> QED
  BY <1>1, <1>4, <1>5, <1>6, <1>7, MaxType DEF CounterExact

\* No refusal is spurious: whoever is turned away finds every slot owned.
THEOREM RefusalsAreJustified == Spec => RefusedOnlyWhenFull
<1>1. LimiterInv => \A t \in Tasks : Refuse(t) => Cardinality(Holders(Source[t])) = MaxPerIp
  BY RefusalFull
<1>2. LimiterInv /\ [Next]_vars =>
        [\A t \in Tasks : Refuse(t) => Cardinality(Holders(Source[t])) = MaxPerIp]_vars
  BY <1>1
<1> QED
  BY <1>2, LimiterInvariant, PTL DEF Spec, RefusedOnlyWhenFull

-----------------------------------------------------------------------------
\* The guards owned are the slots held.
LEMMA SameHolders == \A ip : S!Holders(ip) = Holders(ip)
  BY SourceType DEF S!Holders, Holders, answer

\* The instance counts the way this module does.
LEMMA SameCardinality == \A T : S!Cardinality(T) = Cardinality(T)
  BY DEF S!Cardinality, Cardinality

\* Every step of the limiter is a step of the slots, or changes no answer.
LEMMA StepImplements ==
  ASSUME LimiterInv, NEW t \in Tasks,
         \/ Entry(t) \/ FetchAdd(t) \/ Accept(t) \/ Refuse(t)
         \/ Release(t) \/ FetchSub(t) \/ HangUp(t)
  PROVE  [S!Next]_answer
<1> USE DEF LimiterInv, TypeOK
<1>1. CASE Entry(t) \/ FetchAdd(t)
  <2>1. answer' = answer
    BY <1>1 DEF Entry, FetchAdd, answer
  <2> QED
    BY <2>1
<1>2. CASE Release(t)
  <2>1. Source[t] \in known
    BY <1>2 DEF Release, EntryKnown
  <2>2. answer' = answer
    BY <1>2, <2>1 DEF Release, answer
  <2> QED
    BY <2>2
<1>3. CASE Accept(t)
  <2>1. Counted(Source[t]) = Holders(Source[t]) \cup {t} /\ t \notin Holders(Source[t])
    BY <1>3 DEF Accept, Counted, Holders, LockExclusive, Writers
  <2>2. Holders(Source[t]) \in SUBSET Tasks /\ Source[t] \in Ips
    BY SourceType DEF Holders
  <2>3. Cardinality(Counted(Source[t])) = Cardinality(Holders(Source[t])) + 1
    BY <2>1, <2>2, TaskSets, FS_AddElement
  <2>4. Cardinality(Holders(Source[t])) = current[t]
    <3>1. current[t] \in Nat /\ Cardinality(Holders(Source[t])) \in Nat
      BY <2>2, TaskSets
    <3> QED
      BY <1>3, <2>2, <2>3, <3>1 DEF Accept, CurrentFresh, CounterExact
  <2>5. Cardinality(S!Holders(Source[t])) < MaxPerIp
    BY <1>3, <2>4, SameHolders DEF Accept
  <2>6. answer[t] = "none" /\ answer' = [answer EXCEPT ![t] = "held"]
    BY <1>3 DEF Accept, answer
  <2> QED
    BY <2>5, <2>6, SameCardinality DEF S!Next, S!Admit
<1>4. CASE Refuse(t)
  <2>1. Cardinality(S!Holders(Source[t])) = MaxPerIp
    BY <1>4, RefusalFull, SameHolders
  <2>2. answer[t] = "none" /\ answer' = [answer EXCEPT ![t] = "refused"]
    BY <1>4 DEF Refuse, answer
  <2> QED
    BY <2>1, <2>2, SameCardinality DEF S!Next, S!Refuse
<1>5. CASE FetchSub(t) \/ HangUp(t)
  <2>1. answer[t] \in {"held", "refused"} /\ answer' = [answer EXCEPT ![t] = "none"]
    BY <1>5 DEF FetchSub, HangUp, answer
  <2> QED
    BY <2>1 DEF S!Next, S!Leave
<1> QED
  BY <1>1, <1>2, <1>3, <1>4, <1>5

\* The counters and locks of the rate limiter implement module Slots.
THEOREM LimiterImplementsSlots == Spec => ImplementsSlots
<1>1. Init => S!Init
  BY DEF Init, S!Init, answer
<1>2. LimiterInv /\ [Next]_vars => [S!Next]_answer
  <2>1. UNCHANGED vars => answer' = answer
    BY DEF vars, answer
  <2> QED
    BY <2>1, StepImplements DEF Next
<1> QED
  BY <1>1, <1>2, LimiterInvariant, PTL DEF Spec, S!Spec, ImplementsSlots
=============================================================================
