----------------------------- MODULE PageProofs -----------------------------
(***************************************************************************)
(* Proofs about the header of a page, for any workspaces, clicks and       *)
(* accounts: what the panel lists and has selected, who signs a            *)
(* transaction, which devnet account is shown, and what becomes of the     *)
(* menus, the theme and the vim adapter.                                   *)
(***************************************************************************)
EXTENDS Page, SequenceTheorems, WellFoundedInduction, TLAPS

-----------------------------------------------------------------------------
(* The functions of the files. *)

LEMMA LeastNumber ==
  ASSUME NEW T \in SUBSET Nat, T # {}
  PROVE  \E m \in T : \A n \in T : m <= n
<1> DEFINE R == OpToRel(<, Nat)
<1>1. IsWellFoundedOn(R, Nat)
  BY NatLessThanWellFounded
<1>2. PICK m \in T : \A n \in T : <<n, m>> \notin R
  <2> HIDE DEF R
  <2> QED
    BY <1>1, WFMin
<1>3. \A n \in T : ~(n < m)
  BY <1>2 DEF OpToRel
<1> QED
  BY <1>3

LEMMA Induction ==
  ASSUME NEW S, 0 \in S, \A n \in Nat : n \in S => n + 1 \in S
  PROVE  Nat \subseteq S
<1> SUFFICES ASSUME Nat \ S # {} PROVE FALSE
  OBVIOUS
<1>1. PICK m \in Nat \ S : \A n \in Nat \ S : m <= n
  BY LeastNumber
<1>2. m # 0 /\ m - 1 \in Nat /\ ~(m <= m - 1)
  OBVIOUS
<1>3. m - 1 \in S
  BY <1>1, <1>2
<1> QED
  BY <1>2, <1>3


\* What FlattenSeq makes of sequences.  The function that it computes by
\* recursion exists, and its values are sequences.
LEMMA Flattened ==
  ASSUME NEW E, NEW seqs \in Seq(Seq(E))
  PROVE  FlattenSeq(seqs) \in Seq(E)
<1> DEFINE L == Len(seqs)
           Body(f, i) == IF i = 1 THEN seqs[i] ELSE f[i - 1] \o seqs[i]
           Has(k) == \E f : f = [i \in 1..k |-> Body(f, i)]
           S == {k \in Nat : Has(k)}
<1>1. L \in Nat /\ DOMAIN seqs = 1..L /\ \A i \in 1..L : seqs[i] \in Seq(E)
  OBVIOUS
<1>2. 0 \in S
  <2> DEFINE f == [i \in 1..0 |-> <<>>]
  <2>1. f = [i \in 1..0 |-> Body(f, i)]
    OBVIOUS
  <2> HIDE DEF f, Body
  <2> QED
    BY <2>1
<1>3. ASSUME NEW k \in Nat, k \in S PROVE k + 1 \in S
  <2>1. PICK f : f = [i \in 1..k |-> Body(f, i)]
    BY <1>3
  <2> DEFINE g == [i \in 1..(k + 1) |-> IF i <= k THEN f[i] ELSE Body(f, k + 1)]
  <2>2. ASSUME NEW i \in 1..(k + 1) PROVE g[i] = Body(g, i)
    <3>1. i # 1 => i - 1 \in 1..k /\ i - 1 \in 1..(k + 1) /\ i - 1 <= k
      OBVIOUS
    <3>2. i # 1 => g[i - 1] = f[i - 1]
      BY <3>1
    <3>3. Body(g, i) = Body(f, i)
      BY <3>2
    <3>4. g[i] = Body(f, i)
      <4>1. CASE i <= k
        <5>1. i \in 1..k
          BY <4>1
        <5> HIDE DEF Body
        <5> QED
          BY <2>1, <4>1, <5>1
      <4>2. CASE ~(i <= k)
        <5>1. i = k + 1
          BY <4>2
        <5> QED
          BY <4>2, <5>1
      <4> QED
        BY <4>1, <4>2
    <3> QED
      BY <3>3, <3>4
  <2>3. g = [i \in 1..(k + 1) |-> Body(g, i)]
    BY <2>2
  <2>4. Has(k + 1)
    <3> HIDE DEF g, Body
    <3> QED
      BY <2>3, Zenon
  <2> HIDE DEF Has
  <2> QED
    BY <2>4
<1>4. L \in S
  <2> HIDE DEF S
  <2>1. Nat \subseteq S
    BY <1>2, <1>3, Induction
  <2> QED
    BY <1>1, <2>1
<1> DEFINE flatten == CHOOSE f : f = [i \in 1..L |-> Body(f, i)]
<1>5. flatten = [i \in 1..L |-> Body(flatten, i)]
  BY <1>4
<1>6. L # 0 => FlattenSeq(seqs) = flatten[L]
  BY DEF FlattenSeq
<1> HIDE DEF flatten
<1> DEFINE T == {k \in Nat : k \in 1..L => flatten[k] \in Seq(E)}
<1>7. 0 \in T
  OBVIOUS
<1>8. ASSUME NEW k \in Nat, k \in T PROVE k + 1 \in T
  <2> SUFFICES ASSUME k + 1 \in 1..L PROVE flatten[k + 1] \in Seq(E)
    OBVIOUS
  <2>1. flatten[k + 1] = Body(flatten, k + 1)
    BY <1>5
  <2>2. CASE k = 0
    BY <2>1, <2>2, <1>1
  <2>3. CASE k # 0
    <3>1. flatten[k] \in Seq(E) /\ seqs[k + 1] \in Seq(E)
      BY <1>1, <1>8, <2>3
    <3>2. k + 1 # 1 /\ (k + 1) - 1 = k
      BY <2>3
    <3>3. flatten[k + 1] = flatten[k] \o seqs[k + 1]
      BY <2>1, <3>2
    <3> QED
      BY <3>1, <3>3, ConcatProperties
  <2> QED
    BY <2>2, <2>3
<1>9. L # 0 => flatten[L] \in Seq(E)
  <2> HIDE DEF T
  <2>1. Nat \subseteq T
    BY <1>7, <1>8, Induction
  <2> QED
    BY <2>1, <1>1 DEF T
<1>10. L = 0 => FlattenSeq(seqs) = <<>>
  BY <1>1 DEF FlattenSeq
<1> QED
  BY <1>6, <1>9, <1>10

\* The functions of a file are of its module.
LEMMA InIs ==
  ASSUME NEW E, NEW file,
         file.entries \in Seq(ToSet(file.entries)), file.tests \in Seq(ToSet(file.tests)),
         \A n \in ToSet(file.entries) \cup ToSet(file.tests), b \in BOOLEAN :
           [fullName |-> <<file.module, n>>, isEntry |-> b] \in E
  PROVE  In(file) \in Seq(E)
<1> DEFINE found(names, entry) ==
             [i \in DOMAIN names |-> [fullName |-> <<file.module, names[i]>>, isEntry |-> entry]]
<1>1. ASSUME NEW names, names \in Seq(ToSet(names)), NEW b \in BOOLEAN,
             \A n \in ToSet(names) : [fullName |-> <<file.module, n>>, isEntry |-> b] \in E
      PROVE  found(names, b) \in Seq(E)
  <2>1. Len(names) \in Nat /\ DOMAIN names = 1..Len(names)
    OBVIOUS
  <2>2. \A i \in DOMAIN names : names[i] \in ToSet(names)
    BY DEF ToSet
  <2>3. found(names, b) \in [1..Len(names) -> E]
    BY <1>1, <2>1, <2>2
  <2> QED
    BY <2>1, <2>3, SeqDef
<1>2. found(file.entries, TRUE) \in Seq(E) /\ found(file.tests, FALSE) \in Seq(E)
  BY <1>1
<1>3. In(file) = IF file.move /\ file.module # ""
                 THEN found(file.entries, TRUE) \o found(file.tests, FALSE) ELSE <<>>
  BY DEF In
<1> HIDE DEF found
<1>4. found(file.entries, TRUE) \o found(file.tests, FALSE) \in Seq(E)
  BY <1>2, ConcatProperties
<1> QED
  BY <1>3, <1>4, EmptySeq

\* No function of a workspace has the name that stands for none.
LEMMA ListedIs ==
  ASSUME NEW w \in Workspaces
  PROVE  \E E : Listed(w) \in Seq(E) /\ \A f \in E : f.fullName # Null
<1> DEFINE names(i) == ToSet(w[i].entries) \cup ToSet(w[i].tests)
           Q(i) == {[fullName |-> <<w[i].module, n>>, isEntry |-> b] :
                      n \in names(i), b \in BOOLEAN}
           E == UNION {Q(i) : i \in DOMAIN w}
           seqs == [i \in DOMAIN w |-> In(w[i])]
<1>1. Len(w) \in Nat /\ DOMAIN w = 1..Len(w)
  BY FilesType
<1>2. \A i \in DOMAIN w : In(w[i]) \in Seq(E)
  <2> SUFFICES ASSUME NEW i \in DOMAIN w PROVE In(w[i]) \in Seq(E)
    OBVIOUS
  <2>1. \A n \in names(i), b \in BOOLEAN : [fullName |-> <<w[i].module, n>>, isEntry |-> b] \in E
    OBVIOUS
  <2> HIDE DEF E
  <2> QED
    BY <2>1, FilesType, InIs
<1>3. \A f \in E : f.fullName # Null
  BY DEF Null
<1> HIDE DEF E
<1>4. seqs \in Seq(Seq(E))
  <2>1. seqs \in [1..Len(w) -> Seq(E)]
    BY <1>1, <1>2
  <2> QED
    BY <1>1, <2>1, SeqDef
<1>5. Listed(w) = FlattenSeq(seqs)
  BY DEF Listed
<1> HIDE DEF seqs
<1>6. Listed(w) \in Seq(E)
  BY <1>4, <1>5, Flattened
<1> QED
  BY <1>3, <1>6

\* What find finds is in the list.
LEMMA FirstEntryIs ==
  ASSUME NEW E, NEW list \in Seq(E), FirstEntry(list) # 0
  PROVE  FirstEntry(list) \in DOMAIN list
<1> DEFINE I == {i \in 1..Len(list) : list[i].isEntry}
<1>1. FirstEntry(list) = IF I # {} THEN Min(I) ELSE 0
  BY DEF FirstEntry, SelectInSeq
<1>2. I \in SUBSET Nat /\ I \subseteq DOMAIN list
  OBVIOUS
<1> HIDE DEF I
<1>3. I # {}
  BY <1>1
<1>4. Min(I) \in I
  BY <1>2, <1>3, LeastNumber DEF Min
<1> QED
  BY <1>1, <1>2, <1>3, <1>4

\* The selection that the effect makes is of the list, and is one.
LEMMA AutoSelectIs ==
  ASSUME NEW w \in Workspaces
  PROVE  /\ AutoSelect(Listed(w)) \in {selected} \cup FullNames(Listed(w))
         /\ FirstEntry(Listed(w)) # 0 => AutoSelect(Listed(w)) # Null
<1>1. PICK E : Listed(w) \in Seq(E) /\ \A f \in E : f.fullName # Null
  BY ListedIs
<1> DEFINE list == Listed(w)
           i == FirstEntry(list)
<1>2. i # 0 => i \in DOMAIN list
  BY <1>1, FirstEntryIs
<1>3. \A k \in DOMAIN list : list[k].fullName \in FullNames(list) /\ list[k].fullName # Null
  BY <1>1 DEF FullNames
<1> HIDE DEF list, i
<1> QED
  BY <1>2, <1>3 DEF AutoSelect, list, i

-----------------------------------------------------------------------------
(* The preferences. *)

\* A change of the system is on its way only in mode "system"; an adapter
\* needs an editor to be attached to.
ListensInSystem == changed => mode = "system"
VimNeedsHandle  == ~handle => vim = "none"

PreferencesInv ==
  /\ changed \in BOOLEAN
  /\ saved \in [mode : Modes \cup {"none"}, keys : Keys \cup {"none"}]
  /\ PressArrives /\ ThemeFollows /\ ChoicesSaved /\ ListensInSystem
  /\ NoVimInDefault /\ VimNeedsHandle

\* A page starts with what the page before it saved.
LEMMA PreferencesStart == PreferencesInit => PreferencesInv
<1> SUFFICES ASSUME PreferencesInit PROVE PreferencesInv
  OBVIOUS
<1> USE DEF PreferencesInit
<1>1. changed \in BOOLEAN /\ saved \in [mode : Modes \cup {"none"}, keys : Keys \cup {"none"}]
  OBVIOUS
<1>2. PressArrives
  BY DEF PressArrives, Nowhere
<1>3. ThemeFollows /\ ListensInSystem
  BY DEF ThemeFollows, ListensInSystem
<1>4. ChoicesSaved
  BY DEF ChoicesSaved
<1>5. NoVimInDefault /\ VimNeedsHandle
  BY DEF NoVimInDefault, VimNeedsHandle
<1> QED
  BY <1>1, <1>2, <1>3, <1>4, <1>5 DEF PreferencesInv

\* Whatever the user, the system and the editor do, the preferences agree.
LEMMA PreferencesStep == PreferencesInv /\ [PreferencesNext]_preferences => PreferencesInv'
<1> SUFFICES ASSUME PreferencesInv, [PreferencesNext]_preferences PROVE PreferencesInv'
  OBVIOUS
<1> USE DEF PreferencesInv
<1> DEFINE Theme == changed \in BOOLEAN /\ ThemeFollows /\ ListensInSystem
<1> DEFINE Vim   == NoVimInDefault /\ VimNeedsHandle
<1> DEFINE Kept  == saved \in [mode : Modes \cup {"none"}, keys : Keys \cup {"none"}] /\ ChoicesSaved
<1>0. PressArrives /\ Theme /\ Vim /\ Kept
  OBVIOUS
<1>1. UNCHANGED menus => PressArrives'
  BY <1>0 DEF menus, PressArrives
<1>2. UNCHANGED themes => Theme'
  BY <1>0 DEF themes, ThemeFollows, ListensInSystem, ComputeTheme
<1>3. UNCHANGED <<keys, handle, vim>> => Vim'
  BY <1>0 DEF NoVimInDefault, VimNeedsHandle
<1>4. UNCHANGED <<mode, keys, saved>> => Kept'
  BY <1>0 DEF ChoicesSaved
<1>5. PressArrives' /\ Theme' /\ Vim' /\ Kept' => PreferencesInv'
  OBVIOUS
<1> HIDE DEF Theme, Vim, Kept
<1>6. ASSUME NEW p \in Places, Press(p) PROVE PreferencesInv'
  <2>1. PressArrives'
    BY <1>6 DEF Press, ClosedBy, PressArrives
  <2>2. UNCHANGED <<themes, keys, saved, adapter>>
    BY <1>6 DEF Press
  <2> QED
    BY <1>2, <1>3, <1>4, <1>5, <2>1, <2>2 DEF themes, adapter
<1>7. CASE Click
  <2>1. PressArrives'
    BY <1>7 DEF Click, Nowhere, PressArrives
  <2>2. UNCHANGED <<themes, keys, saved, adapter>>
    BY <1>7 DEF Click
  <2> QED
    BY <1>2, <1>3, <1>4, <1>5, <2>1, <2>2 DEF themes, adapter
<1>8. ASSUME Choose PROVE PressArrives'
  BY <1>8 DEF Choose, Nowhere, PressArrives
<1>9. ASSUME NEW m \in Modes, SetThemeMode(m) PROVE PreferencesInv'
  <2>1. /\ Choose /\ mode' = m /\ theme' = ComputeTheme(m) /\ saved' = [saved EXCEPT !.mode = m]
        /\ changed' = (changed /\ m = "system") /\ UNCHANGED <<os, keys, adapter>>
    BY <1>9 DEF SetThemeMode
  <2>2. Theme'
    BY <1>0, <2>1 DEF Theme, ThemeFollows, ListensInSystem, ComputeTheme
  <2>3. Kept'
    <3>1. saved' \in [mode : Modes \cup {"none"}, keys : Keys \cup {"none"}]
      BY <1>0, <1>9, <2>1 DEF Kept
    <3>2. saved'.mode = m /\ saved'.keys = saved.keys /\ keys' = keys /\ m # "none"
      BY <1>0, <2>1 DEF Kept, Modes, Themes
    <3> QED
      BY <1>0, <2>1, <3>1, <3>2 DEF Kept, ChoicesSaved
  <2> QED
    BY <1>3, <1>5, <1>8, <2>1, <2>2, <2>3 DEF adapter
<1>10. CASE OsChanges
  <2>1. Theme'
    BY <1>0, <1>10 DEF OsChanges, Theme, ThemeFollows, ListensInSystem, ComputeTheme
  <2>2. UNCHANGED <<menus, mode, keys, saved, adapter>>
    BY <1>10 DEF OsChanges
  <2> QED
    BY <1>1, <1>3, <1>4, <1>5, <2>1, <2>2 DEF adapter
<1>11. CASE SyncSystemTheme
  <2>1. Theme'
    BY <1>0, <1>11 DEF SyncSystemTheme, Theme, ThemeFollows, ListensInSystem, ComputeTheme
  <2>2. UNCHANGED <<menus, mode, keys, saved, adapter>>
    BY <1>11 DEF SyncSystemTheme
  <2> QED
    BY <1>1, <1>3, <1>4, <1>5, <2>1, <2>2 DEF adapter
<1>12. ASSUME NEW k \in Keys, SetKeybindingMode(k) PROVE PreferencesInv'
  <2>1. Choose /\ keys' = k /\ saved' = [saved EXCEPT !.keys = k] /\ UNCHANGED <<themes, handle>>
    BY <1>12 DEF SetKeybindingMode, SavedKeys
  <2>2. Vim'
    BY <1>0, <1>12 DEF SetKeybindingMode, Vim, NoVimInDefault, VimNeedsHandle
  <2>3. Kept'
    <3>1. saved' \in [mode : Modes \cup {"none"}, keys : Keys \cup {"none"}]
      BY <1>0, <1>12, <2>1 DEF Kept
    <3>2. saved'.keys = k /\ saved'.mode = saved.mode /\ mode' = mode /\ k # "none"
      BY <1>0, <2>1 DEF Kept, Keys, themes
    <3> QED
      BY <1>0, <2>1, <3>1, <3>2 DEF Kept, ChoicesSaved
  <2> QED
    BY <1>2, <1>5, <1>8, <2>1, <2>2, <2>3
<1>13. CASE EditorMounts
  <2>1. Vim'
    BY <1>0, <1>13 DEF EditorMounts, Adapter, Vim, NoVimInDefault, VimNeedsHandle
  <2>2. UNCHANGED <<menus, themes, keys, saved>>
    BY <1>13 DEF EditorMounts
  <2> QED
    BY <1>1, <1>2, <1>4, <1>5, <2>1, <2>2 DEF themes
<1>14. CASE EditorGoes \/ EditorComes \/ PaneGoes
  <2>1. Vim'
    BY <1>0, <1>14 DEF EditorGoes, EditorComes, PaneGoes, Vim, NoVimInDefault, VimNeedsHandle
  <2>2. UNCHANGED <<menus, themes, keys, saved>>
    BY <1>14 DEF EditorGoes, EditorComes, PaneGoes
  <2> QED
    BY <1>1, <1>2, <1>4, <1>5, <2>1, <2>2 DEF themes
<1>15. CASE UNCHANGED preferences
  BY <1>1, <1>2, <1>3, <1>4, <1>5, <1>15 DEF preferences, themes, adapter
<1> QED
  BY <1>6, <1>7, <1>9, <1>10, <1>11, <1>12, <1>13, <1>14, <1>15 DEF PreferencesNext

-----------------------------------------------------------------------------
(* What runs on chain. *)

JobType ==
  [kind : {"publish", "run"}, step : {"building", "signing", "submitted", "failed"},
   connected : BOOLEAN, account : Nat, signer : {"nobody", "wallet", "account"}, net : Networks]

OnChainTyped ==
  /\ wallet \in Networks
  /\ account \in Nat /\ stored \in Nat /\ generated \in Nat
  /\ creating \in Seq(Nat)
  /\ jobs \in Seq(JobType) /\ pending \in 0..Len(jobs)

\* The latest account that was made here, and not elsewhere since, is stored,
\* and is shown in the end.
Latest ==
  ~others => IF creating = <<>> THEN account = stored ELSE creating[Len(creating)] = stored

OnChainInv == OnChainTyped /\ SignedAsOffered /\ Latest

\* A page starts with the account that is stored.
LEMMA OnChainStart == OnChainInit => OnChainInv
<1> SUFFICES ASSUME OnChainInit PROVE OnChainInv
  OBVIOUS
<1>1. /\ wallet \in Networks /\ account \in Nat /\ stored \in Nat /\ generated \in Nat
      /\ account = stored
  BY DEF OnChainInit, Networks
<1>2. creating = <<>> /\ jobs = <<>> /\ pending = 0
  BY DEF OnChainInit
<1>3. OnChainTyped
  BY <1>1, <1>2 DEF OnChainTyped
<1>4. SignedAsOffered /\ Latest
  BY <1>1, <1>2 DEF SignedAsOffered, Latest
<1> QED
  BY <1>3, <1>4 DEF OnChainInv

\* Nothing happens to the clicks, or to the accounts.
LEMMA ClicksLast == OnChainInv /\ UNCHANGED clicks => jobs' \in Seq(JobType) /\ pending' \in 0..Len(jobs') /\ SignedAsOffered'
  BY DEF OnChainInv, OnChainTyped, SignedAsOffered, clicks

\* The accounts stay as they are.
LEMMA AccountsLast ==
  OnChainInv /\ UNCHANGED accounts =>
    /\ account' \in Nat /\ stored' \in Nat /\ generated' \in Nat /\ creating' \in Seq(Nat)
    /\ Latest'
  BY DEF OnChainInv, OnChainTyped, Latest, accounts

\* A click more: nothing is signed by it yet.
LEMMA NewClick ==
  ASSUME OnChainInv, NEW kind \in {"publish", "run"}, NEW step \in {"building", "signing", "failed"},
         jobs' = Append(jobs, Job(kind, step)), pending' \in {pending, Len(jobs) + 1}
  PROVE  jobs' \in Seq(JobType) /\ pending' \in 0..Len(jobs') /\ SignedAsOffered'
<1> DEFINE job == Job(kind, step)
<1>1. jobs \in Seq(JobType) /\ account \in Nat /\ pending \in 0..Len(jobs)
  BY DEF OnChainInv, OnChainTyped
<1>2. job \in JobType /\ job.step # "submitted"
  BY <1>1 DEF Job, JobType, Networks
<1> HIDE DEF job
<1>3. /\ jobs' \in Seq(JobType) /\ Len(jobs) \in Nat /\ Len(jobs') = Len(jobs) + 1
      /\ DOMAIN jobs = 1..Len(jobs) /\ DOMAIN jobs' = 1..(Len(jobs) + 1)
      /\ \A j \in 1..Len(jobs) : jobs'[j] = jobs[j]
      /\ jobs'[Len(jobs) + 1] = job
  <2>1. jobs' = Append(jobs, job)
    BY DEF job
  <2> QED
    BY <1>1, <1>2, <2>1, AppendProperties, LenProperties
<1>4. pending' \in 0..Len(jobs')
  BY <1>1, <1>3
<1>5. ASSUME NEW j \in DOMAIN jobs', jobs'[j].step = "submitted"
      PROVE  j \in DOMAIN jobs /\ jobs'[j] = jobs[j]
  <2>1. j \in 1..Len(jobs) \/ j = Len(jobs) + 1
    BY <1>3
  <2> QED
    BY <1>2, <1>3, <1>5, <2>1
<1>6. SignedAsOffered'
  BY <1>5 DEF OnChainInv, SignedAsOffered
<1> QED
  BY <1>3, <1>4, <1>6

\* A click goes on to its next step.
LEMMA NextStep ==
  ASSUME OnChainInv, NEW j \in DOMAIN jobs, NEW job \in JobType, jobs' = [jobs EXCEPT ![j] = job],
         pending' \in {0, pending},
         job.step = "submitted" =>
           /\ job.signer = IF job.connected THEN "wallet" ELSE "account"
           /\ job.signer = "account" => job.net = "devnet" /\ job.account # 0
  PROVE  jobs' \in Seq(JobType) /\ pending' \in 0..Len(jobs') /\ SignedAsOffered'
<1>1. jobs \in Seq(JobType) /\ pending \in 0..Len(jobs)
  BY DEF OnChainInv, OnChainTyped
<1>2. DOMAIN jobs = 1..Len(jobs) /\ Len(jobs) \in Nat
  BY <1>1, LenProperties
<1>3. /\ jobs' \in Seq(JobType) /\ Len(jobs') = Len(jobs)
      /\ \A i \in 1..Len(jobs) : jobs'[i] = IF i = j THEN job ELSE jobs[i]
  BY <1>1, <1>2, ExceptSeq
<1>4. DOMAIN jobs' = 1..Len(jobs)
  BY <1>3, LenProperties
<1>5. pending' \in 0..Len(jobs')
  BY <1>1, <1>2, <1>3
<1>6. SignedAsOffered'
  BY <1>2, <1>3, <1>4 DEF OnChainInv, SignedAsOffered
<1> QED
  BY <1>3, <1>5, <1>6

\* A reload forgets the clicks that were under way.
LEMMA Forgotten ==
  ASSUME OnChainInv, Reload
  PROVE  jobs' \in Seq(JobType) /\ pending' \in 0..Len(jobs') /\ SignedAsOffered'
<1> DEFINE next(job) == IF job.step \in {"building", "signing"} THEN [job EXCEPT !.step = "failed"] ELSE job
<1>1. jobs \in [1..Len(jobs) -> JobType] /\ Len(jobs) \in Nat /\ DOMAIN jobs = 1..Len(jobs)
  BY LenProperties DEF OnChainInv, OnChainTyped
<1>2. \A job \in JobType : next(job) \in JobType
  BY DEF JobType
<1>3. \A job : next(job).step = "submitted" => next(job) = job
  OBVIOUS
<1>4. jobs' = [j \in 1..Len(jobs) |-> next(jobs[j])] /\ pending' = 0
  BY <1>1 DEF Reload
<1> HIDE DEF next
<1>5. jobs' \in [1..Len(jobs) -> JobType]
  BY <1>1, <1>2, <1>4
<1>6. jobs' \in Seq(JobType) /\ Len(jobs') = Len(jobs) /\ DOMAIN jobs' = 1..Len(jobs)
  BY <1>1, <1>5
<1>7. \A j \in DOMAIN jobs' : jobs'[j].step = "submitted" => j \in DOMAIN jobs /\ jobs'[j] = jobs[j]
  BY <1>1, <1>3, <1>4, <1>6
<1>8. SignedAsOffered'
  BY <1>7 DEF OnChainInv, SignedAsOffered
<1> QED
  BY <1>1, <1>4, <1>6, <1>8

\* The wallet, the accounts and the clicks keep their invariant.
LEMMA OnChainStep == OnChainInv /\ [OnChainNext]_onchain => OnChainInv'
<1> SUFFICES ASSUME OnChainInv, [OnChainNext]_onchain PROVE OnChainInv'
  OBVIOUS
<1> DEFINE Clicks   == jobs' \in Seq(JobType) /\ pending' \in 0..Len(jobs') /\ SignedAsOffered'
<1> DEFINE Accounts == /\ account' \in Nat /\ stored' \in Nat /\ generated' \in Nat
                       /\ creating' \in Seq(Nat) /\ Latest'
<1>0. /\ wallet \in Networks /\ account \in Nat /\ stored \in Nat /\ generated \in Nat
      /\ creating \in Seq(Nat) /\ Latest
  BY DEF OnChainInv, OnChainTyped
<1>1. Clicks /\ Accounts /\ wallet' \in Networks => OnChainInv'
  BY DEF OnChainInv, OnChainTyped
<1>2. UNCHANGED clicks => Clicks
  BY ClicksLast
<1>3. UNCHANGED accounts => Accounts
  BY AccountsLast
<1> HIDE DEF Clicks
<1>4. CASE WalletChanges
  BY <1>1, <1>2, <1>3, <1>4 DEF WalletChanges
<1>5. CASE CreateDevnetAccount \/ ImportFails
  <2>1. UNCHANGED <<wallet, account, stored, generated, creating, others, clicks>>
    BY <1>5 DEF CreateDevnetAccount, ImportFails
  <2>2. Accounts
    BY <1>0, <2>1 DEF Latest
  <2> QED
    BY <1>0, <1>1, <1>2, <2>1, <2>2
<1>6. CASE Generate
  <2>1. /\ creating' = Append(creating, generated + 1) /\ generated' = generated + 1
        /\ stored' = generated + 1 /\ UNCHANGED <<wallet, account, clicks>>
    BY <1>6 DEF Generate, Save
  <2>2. /\ creating' \in Seq(Nat) /\ creating' # <<>> /\ Len(creating') = Len(creating) + 1
        /\ creating'[Len(creating) + 1] = generated + 1
    BY <1>0, <2>1, AppendProperties
  <2>3. creating'[Len(creating')] = stored'
    BY <2>1, <2>2
  <2>4. Accounts
    BY <1>0, <2>1, <2>2, <2>3 DEF Latest
  <2> QED
    BY <1>0, <1>1, <1>2, <2>1, <2>4
<1>7. CASE ShowAccount
  <2>1. /\ creating # <<>> /\ account' = Head(creating) /\ creating' = Tail(creating)
        /\ UNCHANGED <<wallet, stored, generated, others, clicks>>
    BY <1>7 DEF ShowAccount
  <2>2. /\ Head(creating) \in Nat /\ Tail(creating) \in Seq(Nat) /\ Len(Tail(creating)) = Len(creating) - 1
        /\ \A i \in 1..Len(Tail(creating)) : Tail(creating)[i] = creating[i + 1]
    BY <1>0, <2>1, HeadTailProperties
  <2>3. Len(creating) \in Nat /\ Len(Tail(creating)) \in Nat /\ Head(creating) = creating[1]
    BY <1>0, <2>1, <2>2, LenProperties
  <2>4. ~others => creating[Len(creating)] = stored
    BY <1>0, <2>1 DEF Latest
  <2>5. CASE creating' = <<>>
    <3>1. Len(creating) = 1
      <4>1. Len(Tail(creating)) = 0
        BY <2>1, <2>5, EmptySeq
      <4> DEFINE n == Len(creating)
      <4>2. n \in Nat /\ 0 = n - 1
        BY <2>2, <2>3, <4>1
      <4> HIDE DEF n
      <4>3. n = 1
        BY <4>2
      <4> QED
        BY <4>3 DEF n
    <3> QED
      BY <1>0, <1>1, <1>2, <2>1, <2>2, <2>3, <2>4, <2>5, <3>1 DEF Latest
  <2>6. CASE creating' # <<>>
    <3>1. Len(creating') # 0
      BY <2>1, <2>2, <2>6, EmptySeq
    <3>2. creating'[Len(creating')] = creating[Len(creating)]
      <4>1. Len(creating') \in 1..Len(Tail(creating)) /\ Len(creating') + 1 = Len(creating)
        BY <2>1, <2>2, <2>3, <3>1
      <4> QED
        BY <2>1, <2>2, <4>1
    <3> QED
      BY <1>0, <1>1, <1>2, <2>1, <2>2, <2>4, <2>6, <3>2 DEF Latest
  <2> QED
    BY <2>5, <2>6
<1>8. CASE OtherPageCreates
  <2>1. /\ generated' = generated + 1 /\ stored' = generated + 1 /\ others'
        /\ UNCHANGED <<wallet, account, creating, clicks>>
    BY <1>8 DEF OtherPageCreates
  <2>2. Accounts
    BY <1>0, <2>1 DEF Latest
  <2> QED
    BY <1>0, <1>1, <1>2, <2>1, <2>2
<1>9. CASE Reload
  <2>1. /\ wallet' \in Networks /\ account' = stored /\ creating' = <<>>
        /\ UNCHANGED <<stored, generated>>
    BY <1>0, <1>9 DEF Reload, Networks
  <2>2. creating' \in Seq(Nat)
    BY <2>1
  <2>3. Accounts
    BY <1>0, <2>1, <2>2 DEF Latest
  <2>4. Clicks
    BY <1>9, Forgotten DEF Clicks
  <2> QED
    BY <1>1, <2>1, <2>3, <2>4
<1>10. CASE Publish
  <2>1. PICK step \in {"building", "failed"} :
          jobs' = Append(jobs, Job("publish", step)) /\ pending' \in {pending, Len(jobs) + 1}
    BY <1>10 DEF Publish
  <2>2. Clicks
    BY <2>1, NewClick DEF Clicks
  <2> QED
    BY <1>0, <1>1, <1>3, <1>10, <2>2 DEF Publish
<1>11. CASE RunOnChain
  <2>1. jobs' = Append(jobs, Job("run", "signing")) /\ pending' \in {pending, Len(jobs) + 1}
    BY <1>11 DEF RunOnChain
  <2>2. Clicks
    BY <2>1, NewClick DEF Clicks
  <2> QED
    BY <1>0, <1>1, <1>3, <1>11, <2>2 DEF RunOnChain
<1>12. ASSUME NEW j \in DOMAIN jobs PROVE jobs[j] \in JobType
  BY <1>12, ElementOfSeq, LenProperties DEF OnChainInv, OnChainTyped
<1>13. CASE Built
  <2>1. PICK step \in {"signing", "failed"} : jobs' = [jobs EXCEPT ![pending].step = step]
    BY <1>13 DEF Built
  <2> DEFINE job == [jobs[pending] EXCEPT !.step = step]
  <2>2. pending \in DOMAIN jobs
    BY <1>13, LenProperties DEF Built, OnChainInv, OnChainTyped
  <2>3. job \in JobType /\ job.step # "submitted"
    BY <1>12, <2>1, <2>2 DEF JobType
  <2>4. jobs' = [jobs EXCEPT ![pending] = job] /\ pending' \in {0, pending}
    BY <1>13, <2>1 DEF Built
  <2> HIDE DEF job
  <2>5. Clicks
    BY <2>2, <2>3, <2>4, NextStep DEF Clicks
  <2> QED
    BY <1>0, <1>1, <1>3, <1>13, <2>5 DEF Built
<1>14. ASSUME NEW j \in DOMAIN jobs, SignFails(j) PROVE OnChainInv'
  <2> DEFINE job == [jobs[j] EXCEPT !.step = "failed"]
  <2>1. job \in JobType /\ job.step # "submitted"
    BY <1>12 DEF JobType
  <2>2. jobs' = [jobs EXCEPT ![j] = job] /\ pending' \in {0, pending}
    BY <1>14 DEF SignFails
  <2> HIDE DEF job
  <2>3. Clicks
    BY <2>1, <2>2, NextStep DEF Clicks
  <2> QED
    BY <1>0, <1>1, <1>3, <1>14, <2>3 DEF SignFails
<1>15. ASSUME NEW j \in DOMAIN jobs, Sign(j) PROVE OnChainInv'
  <2> DEFINE job == [jobs[j] EXCEPT
        !.step   = "submitted",
        !.signer = IF ByWallet(j) THEN "wallet" ELSE "account",
        !.net    = IF ByWallet(j) THEN wallet ELSE "devnet"]
  <2>1. /\ job \in JobType /\ job.connected = jobs[j].connected /\ job.account = jobs[j].account
        /\ job.signer = IF ByWallet(j) THEN "wallet" ELSE "account"
        /\ job.net = IF ByWallet(j) THEN wallet ELSE "devnet"
    BY <1>0, <1>12 DEF JobType, Networks
  <2>2. jobs' = [jobs EXCEPT ![j] = job] /\ pending' \in {0, pending}
    BY <1>15 DEF Sign
  <2>3. IF ByWallet(j) THEN Connected ELSE jobs[j].account # 0
    BY <1>15 DEF Sign
  <2> HIDE DEF job
  <2>4. /\ job.signer = IF job.connected THEN "wallet" ELSE "account"
        /\ job.signer = "account" => job.net = "devnet" /\ job.account # 0
    BY <2>1, <2>3 DEF ByWallet
  <2>5. Clicks
    BY <2>1, <2>2, <2>4, NextStep DEF Clicks
  <2> QED
    BY <1>0, <1>1, <1>3, <1>15, <2>5 DEF Sign
<1>16. CASE UNCHANGED onchain
  BY <1>0, <1>1, <1>2, <1>3, <1>16 DEF onchain
<1> QED
  BY <1>4, <1>5, <1>6, <1>7, <1>8, <1>9, <1>10, <1>11, <1>13, <1>14, <1>15, <1>16 DEF OnChainNext

-----------------------------------------------------------------------------
(* The types. *)

\* Preferences and menus stay in their sets.
LEMMA PreferencesTypes ==
  /\ PreferencesInit => PreferencesTypeOK
  /\ PreferencesTypeOK /\ [PreferencesNext]_preferences => PreferencesTypeOK'
<1> USE DEF PreferencesTypeOK
<1>1. PreferencesInit => PreferencesTypeOK
  BY DEF PreferencesInit, Places, Nowhere, Menus, Themes, Modes, Keys, ComputeTheme
<1> SUFFICES ASSUME PreferencesTypeOK, [PreferencesNext]_preferences PROVE PreferencesTypeOK'
  BY <1>1
<1>2. CASE \E p \in Places : Press(p)
  BY <1>2 DEF Press, themes, adapter
<1>3. CASE Click
  <2>1. press[2] \in Menus
    BY <1>3 DEF Click, Places
  <2>2. open' \subseteq Menus
    BY <1>3, <2>1 DEF Click
  <2>3. press' \in Places
    BY <1>3 DEF Click, Places
  <2> QED
    BY <1>3, <2>2, <2>3 DEF Click, themes, adapter
<1>4. CASE \E m \in Modes : SetThemeMode(m)
  BY <1>4 DEF SetThemeMode, Choose, adapter, Places, Modes, Themes, ComputeTheme
<1>5. CASE OsChanges
  BY <1>5 DEF OsChanges, menus, adapter
<1>6. CASE SyncSystemTheme
  BY <1>6 DEF SyncSystemTheme, menus, adapter, Modes, Themes, ComputeTheme
<1>7. CASE \E k \in Keys : SetKeybindingMode(k)
  BY <1>7 DEF SetKeybindingMode, Choose, themes, Places
<1>8. CASE EditorMounts
  BY <1>8 DEF EditorMounts, Adapter, menus, themes
<1>9. CASE EditorGoes \/ EditorComes \/ PaneGoes
  BY <1>9 DEF EditorGoes, EditorComes, PaneGoes, menus, themes
<1>10. CASE UNCHANGED preferences
  BY <1>10 DEF preferences, menus, themes, adapter
<1> QED
  BY <1>2, <1>3, <1>4, <1>5, <1>6, <1>7, <1>8, <1>9, <1>10 DEF PreferencesNext

\* The accounts that are stored, shown or about to be shown are generated ones,
\* and no more are generated than the bound has room for.
AccountsTyped ==
  /\ generated \in Nat /\ importing \in Nat /\ generated + importing <= MaxAccounts
  /\ account \in 0..generated /\ stored \in 0..generated
  /\ \A i \in DOMAIN creating : creating[i] \in 1..generated

LEMMA AccountsStart == OnChainInit => AccountsTyped
  BY OnChainBounds DEF OnChainInit, AccountsTyped

LEMMA AccountsStep == OnChainInv /\ AccountsTyped /\ [OnChainNext]_onchain => AccountsTyped'
<1> SUFFICES ASSUME OnChainInv, AccountsTyped, [OnChainNext]_onchain PROVE AccountsTyped'
  OBVIOUS
<1>1. UNCHANGED accounts => AccountsTyped'
  BY DEF AccountsTyped, accounts
<1>2. creating \in Seq(Nat) /\ Len(creating) \in Nat /\ DOMAIN creating = 1..Len(creating)
  BY LenProperties DEF OnChainInv, OnChainTyped
<1>3. generated \in Nat /\ importing \in Nat /\ MaxAccounts \in Nat
  BY OnChainBounds DEF AccountsTyped
<1>4. CASE CreateDevnetAccount
  BY <1>3, <1>4 DEF CreateDevnetAccount, AccountsTyped
<1>5. CASE Generate
  <2>1. /\ importing > 0 /\ importing' = importing - 1 /\ generated' = generated + 1
        /\ stored' = generated + 1 /\ account' = account
        /\ creating' = Append(creating, generated + 1)
    BY <1>5 DEF Generate, Save
  <2>2. \A i \in DOMAIN creating' : creating'[i] \in 1..generated'
    <3>1. generated + 1 \in Nat
      BY <1>3
    <3>2. /\ DOMAIN creating' = 1..(Len(creating) + 1)
          /\ \A i \in 1..Len(creating) : creating'[i] = creating[i]
          /\ creating'[Len(creating) + 1] = generated + 1
      BY <1>2, <2>1, <3>1, AppendProperties, LenProperties
    <3>3. \A i \in 1..Len(creating) : creating[i] \in 1..(generated + 1)
      BY <1>2, <1>3 DEF AccountsTyped
    <3>4. \A i \in 1..(Len(creating) + 1) : i \in 1..Len(creating) \/ i = Len(creating) + 1
      BY <1>2
    <3>5. generated + 1 \in 1..(generated + 1)
      BY <1>3
    <3> QED
      BY <2>1, <3>2, <3>3, <3>4, <3>5
  <2>3. account \in 0..(generated + 1) /\ generated + 1 \in 0..(generated + 1)
    BY <1>3 DEF AccountsTyped
  <2>4. /\ generated' \in Nat /\ importing' \in Nat /\ generated' + importing' <= MaxAccounts
    BY <1>3, <2>1 DEF AccountsTyped
  <2> QED
    BY <2>1, <2>2, <2>3, <2>4 DEF AccountsTyped
<1>6. CASE ImportFails
  BY <1>3, <1>6 DEF ImportFails, AccountsTyped
<1>7. CASE ShowAccount
  <2>1. creating # <<>> /\ account' = creating[1] /\ creating' = Tail(creating)
    BY <1>2, <1>7 DEF ShowAccount
  <2>2. Len(creating) >= 1 /\ 1 \in 1..Len(creating)
    BY <1>2, <2>1
  <2>3. \A i \in DOMAIN creating' : i + 1 \in DOMAIN creating /\ creating'[i] = creating[i + 1]
    BY <1>2, <2>1, <2>2
  <2>4. \A i \in DOMAIN creating' : creating'[i] \in 1..generated
    BY <2>3 DEF AccountsTyped
  <2>5. account' \in 0..generated
    BY <1>2, <1>3, <2>1, <2>2 DEF AccountsTyped
  <2> QED
    BY <1>7, <2>4, <2>5 DEF ShowAccount, AccountsTyped
<1>8. CASE OtherPageCreates
  <2>1. /\ importing + generated < MaxAccounts /\ generated' = generated + 1
        /\ stored' = generated + 1 /\ UNCHANGED <<account, importing, creating>>
    BY <1>8 DEF OtherPageCreates
  <2>2. \A i \in DOMAIN creating : creating[i] \in 1..(generated + 1)
    BY <1>3 DEF AccountsTyped
  <2>3. account \in 0..(generated + 1) /\ generated + 1 \in 0..(generated + 1)
    BY <1>3 DEF AccountsTyped
  <2>4. generated + 1 \in Nat /\ generated + 1 + importing <= MaxAccounts
    BY <1>3, <2>1
  <2> QED
    BY <2>1, <2>2, <2>3, <2>4 DEF AccountsTyped
<1>9. CASE Reload
  BY <1>3, <1>9 DEF Reload, AccountsTyped
<1>10. CASE WalletChanges \/ Publish \/ Built \/ RunOnChain \/ \E j \in DOMAIN jobs : Sign(j) \/ SignFails(j)
  BY <1>1, <1>10 DEF WalletChanges, Publish, Built, RunOnChain, Sign, SignFails
<1>11. CASE UNCHANGED onchain
  BY <1>1, <1>11 DEF onchain
<1> QED
  BY <1>4, <1>5, <1>6, <1>7, <1>8, <1>9, <1>10, <1>11 DEF OnChainNext

-----------------------------------------------------------------------------
(* The selection. *)

Known == (UNION {FullNames(Listed(w)) : w \in Workspaces}) \cup {Null}

\* Until the workspace is edited the functions on offer are its own, or none are.
FunctionsInv ==
  /\ FunctionsTypeOK
  /\ SelectionSound
  /\ ~edited => available \in {<<>>, Listed(files)}

LEMMA NoNames == FullNames(<<>>) = {}
BY DEF FullNames

LEMMA FunctionsStart == FunctionsInit => FunctionsInv
<1> SUFFICES ASSUME FunctionsInit PROVE FunctionsInv
  OBVIOUS
<1> USE DEF FunctionsInit
<1>1. FunctionsTypeOK
  <2>1. FullNames(available) = {}
    BY NoNames
  <2>2. selected \in FullNames(Listed(Default))
    BY FunctionType
  <2> QED
    BY <2>1, <2>2, DefaultsType DEF FunctionsTypeOK, MobileTabs, Mounted
<1>2. SelectionSound
  BY FunctionType DEF SelectionSound, ListCurrent, SelectionFresh, Mounted
<1> QED
  BY <1>1, <1>2 DEF FunctionsInv

LEMMA FunctionsStep == FunctionsInv /\ [FunctionsNext]_functions => FunctionsInv'
<1> SUFFICES ASSUME FunctionsInv, [FunctionsNext]_functions PROVE FunctionsInv'
  OBVIOUS
<1>1. /\ files \in Workspaces /\ FullNames(available) \subseteq Known /\ selected \in Known
      /\ wide \in BOOLEAN /\ tab \in MobileTabs /\ due \in BOOLEAN /\ edited \in BOOLEAN
      /\ due => Mounted
  BY DEF FunctionsInv, FunctionsTypeOK, Known
<1>2. ListCurrent /\ SelectionFresh
  BY DEF FunctionsInv, SelectionSound
<1>3. ~edited => available = <<>> \/ available = Listed(files)
  BY DEF FunctionsInv
<1>4. ASSUME files' \in Workspaces, FullNames(available') \subseteq Known, selected' \in Known,
             wide' \in BOOLEAN, tab' \in MobileTabs, due' \in BOOLEAN, edited' \in BOOLEAN,
             due' => Mounted', ListCurrent', SelectionFresh',
             ~edited' => available' = <<>> \/ available' = Listed(files')
      PROVE  FunctionsInv'
  BY <1>4 DEF FunctionsInv, FunctionsTypeOK, SelectionSound, Known
<1>5. CASE Edit
  <2>1. /\ files' \in Workspaces /\ due' = Mounted /\ edited' = TRUE
        /\ UNCHANGED <<available, selected, wide, tab>>
    BY <1>5 DEF Edit
  <2>2. Mounted' = Mounted /\ Mounted \in BOOLEAN
    BY <1>1, <2>1 DEF Mounted
  <2>3. ListCurrent' /\ SelectionFresh'
    BY <2>1, <2>2 DEF ListCurrent, SelectionFresh
  <2> QED
    BY <1>1, <1>4, <2>1, <2>2, <2>3
<1>6. CASE LoadWorkspace
  <2>1. /\ files' \in Workspaces /\ selected' = Null /\ available' = <<>> /\ due' = Mounted
        /\ edited' = FALSE /\ UNCHANGED <<wide, tab>>
    BY <1>6 DEF LoadWorkspace
  <2>2. Mounted' = Mounted /\ Mounted \in BOOLEAN
    BY <1>1, <2>1 DEF Mounted
  <2>3. ListCurrent' /\ SelectionFresh'
    BY <2>1, <2>2 DEF ListCurrent, SelectionFresh
  <2>4. FullNames(available') \subseteq Known /\ selected' \in Known
    BY <2>1, NoNames DEF Known
  <2> QED
    BY <1>1, <1>4, <2>1, <2>2, <2>3, <2>4
<1>7. CASE Select
  <2>1. /\ Mounted /\ selected' \in FullNames(available) \cup {Null} /\ due' = TRUE
        /\ UNCHANGED <<files, available, wide, tab, edited>>
    BY <1>7 DEF Select
  <2>2. selected' \in Known
    BY <1>1, <2>1 DEF Known
  <2>3. ListCurrent'
    BY <2>1 DEF ListCurrent
  <2>4. SelectionFresh'
    BY <1>3, <2>1, NoNames DEF SelectionFresh
  <2>5. Mounted' = Mounted
    BY <2>1 DEF Mounted
  <2> QED
    BY <1>1, <1>3, <1>4, <2>1, <2>2, <2>3, <2>4, <2>5
<1>8. CASE FindFunctions
  <2> DEFINE list == Listed(files)
             now  == AutoSelect(list)
  <2>1. /\ Mounted /\ available' = list /\ selected' = now /\ due' = (now # selected)
        /\ UNCHANGED <<files, wide, tab, edited>>
    BY <1>8 DEF FindFunctions
  <2>2. now \in {selected} \cup FullNames(list) /\ (FirstEntry(list) # 0 => now # Null)
    BY <1>1, AutoSelectIs
  <2>3. FullNames(list) \subseteq Known
    BY <1>1 DEF Known
  <2>4. Listed(files') = list
    BY <2>1
  <2> HIDE DEF list, now
  <2>5. ListCurrent'
    BY <2>1, <2>2, <2>4 DEF ListCurrent
  <2>6. SelectionFresh'
    BY <1>2, <2>1, <2>2, <2>4 DEF SelectionFresh, list
  <2>7. Mounted' = Mounted
    BY <2>1 DEF Mounted
  <2>8. FullNames(available') \subseteq Known /\ selected' \in Known
    BY <1>1, <2>1, <2>2, <2>3
  <2>9. available' = Listed(files')
    BY <2>1, <2>4
  <2> QED
    BY <1>1, <1>4, <2>1, <2>5, <2>6, <2>7, <2>8, <2>9
<1>9. CASE Resize
  <2>1. /\ wide' = ~wide /\ due' = (wide' \/ tab = "config")
        /\ UNCHANGED <<files, available, selected, tab, edited>>
    BY <1>9 DEF Resize
  <2>2. due' <=> Mounted'
    BY <2>1 DEF Mounted
  <2>3. ListCurrent' /\ SelectionFresh'
    BY <1>2, <2>1, <2>2 DEF ListCurrent, SelectionFresh
  <2> QED
    BY <1>1, <1>3, <1>4, <2>1, <2>2, <2>3
<1>10. CASE \E t \in MobileTabs : SwitchTab(t)
  <2>1. PICK t \in MobileTabs : SwitchTab(t)
    BY <1>10
  <2>2. /\ ~wide /\ tab' = t /\ due' = (t = "config")
        /\ UNCHANGED <<files, available, selected, wide, edited>>
    BY <2>1 DEF SwitchTab
  <2>3. due' <=> Mounted'
    BY <2>2 DEF Mounted
  <2>4. ListCurrent' /\ SelectionFresh'
    BY <1>2, <2>2, <2>3 DEF ListCurrent, SelectionFresh
  <2> QED
    BY <1>1, <1>3, <1>4, <2>2, <2>3, <2>4
<1>11. CASE UNCHANGED functions
  <2>1. ListCurrent' /\ SelectionFresh'
    BY <1>2, <1>11 DEF functions, ListCurrent, SelectionFresh, Mounted
  <2>2. Mounted' = Mounted
    BY <1>11 DEF functions, Mounted
  <2> QED
    BY <1>1, <1>3, <1>4, <1>11, <2>1, <2>2 DEF functions
<1> QED
  BY <1>5, <1>6, <1>7, <1>8, <1>9, <1>10, <1>11 DEF FunctionsNext

-----------------------------------------------------------------------------
\* Each part takes its own steps.
LEMMA PartsStep ==
  [Next]_page =>
    [PreferencesNext]_preferences /\ [OnChainNext]_onchain /\ [FunctionsNext]_functions
<1> SUFFICES ASSUME [Next]_page
             PROVE  [PreferencesNext]_preferences /\ [OnChainNext]_onchain
                      /\ [FunctionsNext]_functions
  OBVIOUS
<1>1. OnChainNext => UNCHANGED functions
  BY DEF OnChainNext, WalletChanges, CreateDevnetAccount, Generate, ImportFails, ShowAccount,
         OtherPageCreates, Reload, Publish, Built, RunOnChain, Sign, SignFails
<1> QED
  BY <1>1 DEF Next, page

\* The invariant of the page: its parts do not disturb one another.
THEOREM PageInvariant ==
  Spec => [](/\ PreferencesInv /\ PreferencesTypeOK
             /\ OnChainInv /\ AccountsTyped
             /\ FunctionsInv)
<1> DEFINE Inv == /\ PreferencesInv /\ PreferencesTypeOK
                  /\ OnChainInv /\ AccountsTyped
                  /\ FunctionsInv
<1>1. Init => Inv
  BY PreferencesStart, PreferencesTypes, OnChainStart, AccountsStart, FunctionsStart DEF Init
<1>2. Inv /\ [Next]_page => Inv'
  BY PartsStep, PreferencesStep, PreferencesTypes, OnChainStep, AccountsStep, FunctionsStep
<1> QED
  BY <1>1, <1>2, PTL DEF Spec

\* Every part stays in its types: accounts are generated ones and within the
\* bound, selections name functions of the workspaces, and an effect that is due
\* has a panel to run in.
THEOREM TypeCorrect == Spec => []TypeOK
<1>1. OnChainInv /\ AccountsTyped => OnChainTypeOK
  <2> SUFFICES ASSUME OnChainInv, AccountsTyped PROVE OnChainTypeOK
    OBVIOUS
  <2>1. \A j \in DOMAIN jobs : jobs[j] \in JobType
    BY LenProperties DEF OnChainInv, OnChainTyped
  <2>2. \A j \in DOMAIN jobs : jobs[j].step \in {"building", "signing", "submitted", "failed"}
    BY <2>1 DEF JobType
  <2> QED
    BY <2>2 DEF OnChainInv, OnChainTyped, AccountsTyped, OnChainTypeOK
<1>2. PreferencesTypeOK /\ OnChainInv /\ AccountsTyped /\ FunctionsInv => TypeOK
  BY <1>1 DEF TypeOK, FunctionsInv
<1> QED
  BY <1>2, PageInvariant, PTL

\* What the panel offers is current, and so is the selection: nothing of the
\* workspace before survives a loading, and Run has a function to send whenever
\* the files have an entry function.
THEOREM SelectionCorrect == Spec => []SelectionSound
<1>1. FunctionsInv => SelectionSound
  BY DEF FunctionsInv
<1> QED
  BY <1>1, PageInvariant, PTL

\* Menus, theme and storage agree with what the user did.
THEOREM PreferencesCorrect == Spec => []PreferencesSound
<1>1. PreferencesInv => PreferencesSound
  BY DEF PreferencesInv, PreferencesSound
<1> QED
  BY <1>1, PageInvariant, PTL

\* No vim adapter is left with default keys.
THEOREM DefaultWithoutVim == Spec => []NoVimInDefault
<1>1. PreferencesInv => NoVimInDefault
  BY DEF PreferencesInv
<1> QED
  BY <1>1, PageInvariant, PTL

\* A transaction is signed by whom its click named.
THEOREM SignerNamed == Spec => []SignedAsOffered
<1>1. OnChainInv => SignedAsOffered
  BY DEF OnChainInv
<1> QED
  BY <1>1, PageInvariant, PTL

\* The devnet account that is shown is the one that is stored.
THEOREM AccountStored == Spec => []ShownIsStored
<1>1. OnChainInv => ShownIsStored
  BY DEF OnChainInv, Latest, ShownIsStored
<1> QED
  BY <1>1, PageInvariant, PTL
=============================================================================
