---------------------------- MODULE ExplorerProofs ----------------------------
(***************************************************************************)
(* Proofs about the files and tabs of the explorer, for any names, paths   *)
(* and shared workspaces: the tabs stay those of files that are there, no  *)
(* renaming, dragging or moving of folders loses a file, and Move.toml is  *)
(* kept.                                                                   *)
(*                                                                         *)
(* What filter leaves of the tabs is computed by recursion; the induction  *)
(* is on the set of the numbers for which the claim holds.                 *)
(***************************************************************************)
EXTENDS Explorer, SequenceTheorems, FiniteSetTheorems, WellFoundedInduction, TLAPS

-----------------------------------------------------------------------------
(* Induction. *)

LEMMA LeastNumber ==
  ASSUME NEW T \in SUBSET Nat, T # {}
  PROVE  \E m \in T : \A n \in T : m <= n
<1> DEFINE R == OpToRel(<, Nat)
<1>1. IsWellFoundedOn(R, Nat)
  BY NatLessThanWellFounded
<1>2. PICK m \in T : \A n \in T : <<n, m>> \notin R
  <2> HIDE DEF R
  <2> QED
    BY <1>1, WFMin
<1>3. \A n \in T : ~(n < m)
  BY <1>2 DEF OpToRel
<1> QED
  BY <1>3

LEMMA Induction ==
  ASSUME NEW S, 0 \in S, \A n \in Nat : n \in S => n + 1 \in S
  PROVE  Nat \subseteq S
<1> SUFFICES ASSUME Nat \ S # {} PROVE FALSE
  OBVIOUS
<1>1. PICK m \in Nat \ S : \A n \in Nat \ S : m <= n
  BY LeastNumber
<1>2. m # 0 /\ m - 1 \in Nat /\ ~(m <= m - 1)
  OBVIOUS
<1>3. m - 1 \in S
  BY <1>1, <1>2
<1> QED
  BY <1>2, <1>3

-----------------------------------------------------------------------------
(* What a filter leaves. *)

\* The recursive function of Without exists, which a CHOOSE does not promise.
LEMMA Kept ==
  ASSUME NEW E, NEW tabs \in Seq(E), NEW gone
  PROVE  \E f : /\ f[0] = <<>>
                /\ \A n \in 1..Len(tabs) :
                     f[n] = IF tabs[n] \in gone THEN f[n - 1] ELSE Append(f[n - 1], tabs[n])
                /\ Without(tabs, gone) = f[Len(tabs)]
<1> DEFINE L == Len(tabs)
           Body(f, n) == IF n = 0 THEN <<>>
                         ELSE IF tabs[n] \in gone THEN f[n - 1] ELSE Append(f[n - 1], tabs[n])
           Has(k) == \E f : f = [n \in 0..k |-> Body(f, n)]
           S == {k \in Nat : Has(k)}
<1>1. 0 \in S
  <2>1. [n \in 0..0 |-> <<>>] = [n \in 0..0 |-> Body([m \in 0..0 |-> <<>>], n)]
    OBVIOUS
  <2> QED
    BY <2>1
<1>2. ASSUME NEW k \in Nat, k \in S PROVE k + 1 \in S
  <2>1. PICK f : f = [n \in 0..k |-> Body(f, n)]
    BY <1>2
  <2> DEFINE g == [n \in 0..(k + 1) |-> IF n <= k THEN f[n] ELSE Body(f, k + 1)]
  <2>2. ASSUME NEW n \in 0..(k + 1) PROVE g[n] = Body(g, n)
    <3>1. CASE n = 0
      BY <3>1, <2>1
    <3>2. CASE n # 0
      <4>1. n - 1 \in 0..k /\ n - 1 \in 0..(k + 1) /\ n - 1 <= k
        BY <3>2
      <4>2. g[n - 1] = f[n - 1]
        BY <4>1
      <4>3. Body(f, n) = Body(g, n)
        BY <4>2
      <4>4. g[n] = Body(f, n)
        <5>1. CASE n <= k
          <6>1. n \in 0..k
            BY <5>1
          <6> HIDE DEF Body
          <6> QED
            BY <5>1, <2>1, <6>1
        <5>2. CASE ~(n <= k)
          BY <5>2
        <5> QED
          BY <5>1, <5>2
      <4> QED
        BY <4>3, <4>4
    <3> QED
      BY <3>1, <3>2
  <2>3. g = [n \in 0..(k + 1) |-> Body(g, n)]
    BY <2>2
  <2>4. Has(k + 1)
    <3> HIDE DEF g, Body
    <3> QED
      BY <2>3, Zenon
  <2> HIDE DEF Has
  <2> QED
    BY <2>4
<1>3. L \in S
  <2> HIDE DEF S
  <2>1. Nat \subseteq S
    BY <1>1, <1>2, Induction
  <2> QED
    BY <2>1
<1> DEFINE kept == CHOOSE f : f = [n \in 0..L |-> Body(f, n)]
<1>4. kept = [n \in 0..L |-> Body(kept, n)]
  BY <1>3
<1>5. Without(tabs, gone) = kept[L]
  BY DEF Without
<1>6. L \in Nat
  OBVIOUS
<1> HIDE DEF kept
<1>7. kept[0] = <<>>
  BY <1>4, <1>6
<1>8. ASSUME NEW n \in 1..L
      PROVE  kept[n] = IF tabs[n] \in gone THEN kept[n - 1] ELSE Append(kept[n - 1], tabs[n])
  <2>1. n \in 0..L /\ n # 0
    BY <1>6
  <2> QED
    BY <1>4, <2>1
<1> QED
  BY <1>5, <1>7, <1>8

\* A filter leaves the other tabs, each as often as it was there, and of
\* distinct ones at most one fewer when it takes one tab.
LEMMA Filtered ==
  ASSUME NEW E, NEW tabs \in Seq(E), NEW gone
  PROVE  /\ Without(tabs, gone) \in Seq(E)
         /\ ToSet(Without(tabs, gone)) = ToSet(tabs) \ gone
         /\ IsInjective(tabs) => IsInjective(Without(tabs, gone))
         /\ \A p : IsInjective(tabs) /\ gone = {p} => Len(Without(tabs, gone)) >= Len(tabs) - 1
<1> DEFINE L == Len(tabs)
<1>1. PICK f : /\ f[0] = <<>>
               /\ \A n \in 1..L :
                    f[n] = IF tabs[n] \in gone THEN f[n - 1] ELSE Append(f[n - 1], tabs[n])
               /\ Without(tabs, gone) = f[L]
  BY Kept
<1>2. L \in Nat
  OBVIOUS
<1> DEFINE First(n) == {tabs[i] : i \in 1..n}
           Good(n) ==
             /\ f[n] \in Seq(E)
             /\ ToSet(f[n]) = First(n) \ gone
             /\ IsInjective(tabs) => IsInjective(f[n])
             /\ \A p : IsInjective(tabs) /\ gone = {p} =>
                  Len(f[n]) >= (IF p \in First(n) THEN n - 1 ELSE n)
           S == {n \in Nat : n \in 0..L => Good(n)}
<1>3. 0 \in S
  <2>1. f[0] \in Seq(E) /\ ToSet(f[0]) = {} /\ IsInjective(f[0]) /\ Len(f[0]) = 0
    BY <1>1 DEF ToSet, IsInjective
  <2> QED
    BY <2>1
<1>4. ASSUME NEW n \in Nat, n \in S PROVE n + 1 \in S
  <2> SUFFICES ASSUME n + 1 \in 0..L PROVE Good(n + 1)
    <3> HIDE DEF Good
    <3> QED
      OBVIOUS
  <2> DEFINE m == n + 1
             t == tabs[m]
  <2>1. n \in 0..L /\ m \in 0..L /\ m - 1 = n
    BY <1>2
  <2>2. /\ f[n] \in Seq(E)
        /\ ToSet(f[n]) = First(n) \ gone
        /\ IsInjective(tabs) => IsInjective(f[n])
        /\ \A p : IsInjective(tabs) /\ gone = {p} =>
             Len(f[n]) >= (IF p \in First(n) THEN n - 1 ELSE n)
    BY <1>4, <2>1
  <2>3. f[m] = IF t \in gone THEN f[n] ELSE Append(f[n], t)
    BY <1>1, <2>1
  <2>4. t \in E /\ First(m) = First(n) \cup {t}
    BY <1>2
  <2>5. IsInjective(tabs) => t \notin First(n)
    BY <1>2 DEF IsInjective
  <2> HIDE DEF First, m, t
  <2>6. CASE t \in gone
    <3>1. \A p : IsInjective(tabs) /\ gone = {p} =>
            Len(f[m]) >= (IF p \in First(m) THEN m - 1 ELSE m)
      BY <2>2, <2>3, <2>4, <2>5, <2>6 DEF m
    <3> QED
      BY <2>2, <2>3, <2>4, <2>6, <3>1 DEF m
  <2>7. CASE t \notin gone
    <3>1. f[m] = Append(f[n], t) /\ f[m] \in Seq(E) /\ Len(f[m]) = Len(f[n]) + 1
      BY <2>2, <2>3, <2>4, <2>7
    <3>2. \A i \in 1..Len(f[n]) : f[m][i] = f[n][i]
      BY <2>2, <3>1, <2>4
    <3>3. f[m][Len(f[n]) + 1] = t
      BY <2>2, <3>1, <2>4
    <3>4. ToSet(f[m]) = ToSet(f[n]) \cup {t}
      <4>1. DOMAIN f[m] = DOMAIN f[n] \cup {Len(f[n]) + 1} /\ DOMAIN f[n] = 1..Len(f[n])
        BY <2>2, <3>1
      <4> QED
        BY <3>2, <3>3, <4>1 DEF ToSet
    <3>5. ToSet(f[m]) = First(m) \ gone
      BY <2>2, <2>4, <2>7, <3>4
    <3>6. IsInjective(tabs) => IsInjective(f[m])
      <4> SUFFICES ASSUME IsInjective(tabs) PROVE IsInjective(f[m])
        OBVIOUS
      <4>1. t \notin ToSet(f[n]) /\ IsInjective(f[n])
        BY <2>2, <2>5
      <4>2. /\ DOMAIN f[m] = DOMAIN f[n] \cup {Len(f[n]) + 1}
            /\ DOMAIN f[n] = 1..Len(f[n]) /\ Len(f[n]) \in Nat
        BY <2>2, <3>1
      <4>3. \A i \in DOMAIN f[n] : f[m][i] # t
        BY <3>2, <4>1, <4>2 DEF ToSet
      <4> QED
        BY <3>2, <3>3, <4>1, <4>2, <4>3 DEF IsInjective
    <3>7. \A p : IsInjective(tabs) /\ gone = {p} =>
            Len(f[m]) >= (IF p \in First(m) THEN m - 1 ELSE m)
      <4>1. Len(f[n]) \in Nat
        BY <2>2
      <4> QED
        BY <2>2, <2>4, <2>7, <3>1, <4>1 DEF m
    <3> QED
      BY <3>1, <3>5, <3>6, <3>7 DEF m
  <2> QED
    BY <2>6, <2>7
<1>5. Good(L)
  <2> HIDE DEF Good
  <2>1. Nat \subseteq S
    <3> HIDE DEF S
    <3> QED
      BY <1>3, <1>4, Induction
  <2> QED
    BY <1>2, <2>1
<1>6. First(L) = ToSet(tabs)
  BY DEF ToSet
<1>7. L \in 0..L
  BY <1>2
<1>8. /\ f[L] \in Seq(E)
      /\ ToSet(f[L]) = First(L) \ gone
      /\ IsInjective(tabs) => IsInjective(f[L])
      /\ \A p : IsInjective(tabs) /\ gone = {p} =>
           Len(f[L]) >= (IF p \in First(L) THEN L - 1 ELSE L)
  BY <1>5, <1>7
<1> HIDE DEF First, Good, S
<1>9. \A p : IsInjective(tabs) /\ gone = {p} => Len(f[L]) >= L - 1
  <2> SUFFICES ASSUME NEW p, IsInjective(tabs), gone = {p} PROVE Len(f[L]) >= L - 1
    OBVIOUS
  <2>1. Len(f[L]) >= L - 1 \/ Len(f[L]) >= L
    BY <1>8
  <2>2. Len(f[L]) \in Nat
    BY <1>8
  <2> HIDE DEF L
  <2> QED
    BY <1>2, <2>1, <2>2
<1> QED
  BY <1>1, <1>6, <1>8, <1>9

-----------------------------------------------------------------------------
(* The actions of the store. *)

FilesOK(f) ==
  /\ f \in [DOMAIN f -> 1..MaxContents]
  /\ DOMAIN f \subseteq PathType
  /\ IsFiniteSet(DOMAIN f)

\* The tabs are those of files, each once, and one of them is active.
TabsOK(st) ==
  /\ ToSet(st.tabs) \subseteq DOMAIN st.files
  /\ IsInjective(st.tabs)
  /\ IF st.tabs = <<>> THEN st.active = Null ELSE st.active \in ToSet(st.tabs)

StoreOK(st) ==
  /\ st = [files |-> st.files, tabs |-> st.tabs, active |-> st.active]
  /\ FilesOK(st.files)
  /\ st.tabs \in Seq(PathType)
  /\ TabsOK(st)

NothingLost(f, g) == Cardinality(DOMAIN g) = Cardinality(DOMAIN f) /\ Range(g) = Range(f)

TomlKept(f, g) == Toml \in DOMAIN f => Toml \in DOMAIN g /\ g[Toml] = f[Toml]

LEMMA FirstTabOK ==
  ASSUME NEW tabs \in Seq(PathType), tabs # <<>>
  PROVE  FirstTab(tabs) \in ToSet(tabs)
<1>1. Head(tabs) = tabs[1] /\ 1 \in DOMAIN tabs
  OBVIOUS
<1> QED
  BY <1>1 DEF FirstTab, ToSet

LEMMA InTabs ==
  ASSUME NEW tabs \in Seq(PathType), NEW i \in 1..Len(tabs)
  PROVE  tabs[i] \in ToSet(tabs) /\ tabs # <<>>
BY DEF ToSet

LEMMA CreateOK ==
  ASSUME NEW st, StoreOK(st), NEW p \in PathType \ DOMAIN st.files, NEW c \in 1..MaxContents
  PROVE  StoreOK(CreateFile(st, p, c)) /\ TomlKept(st.files, CreateFile(st, p, c).files)
<1> DEFINE new == CreateFile(st, p, c)
<1>1. /\ new = [files |-> new.files, tabs |-> new.tabs, active |-> new.active]
      /\ new.files = [q \in DOMAIN st.files \cup {p} |-> IF q = p THEN c ELSE st.files[q]]
      /\ new.tabs = Append(st.tabs, p) /\ new.active = p
  BY DEF CreateFile
<1> HIDE DEF new
<1>2. FilesOK(new.files)
  <2>1. IsFiniteSet(DOMAIN st.files \cup {p})
    BY FS_AddElement DEF StoreOK, FilesOK
  <2> QED
    BY <1>1, <2>1 DEF StoreOK, FilesOK
<1>3. /\ new.tabs \in Seq(PathType) /\ Len(new.tabs) = Len(st.tabs) + 1
      /\ \A i \in 1..Len(st.tabs) : new.tabs[i] = st.tabs[i]
      /\ new.tabs[Len(st.tabs) + 1] = p
      /\ DOMAIN new.tabs = 1..(Len(st.tabs) + 1) /\ DOMAIN st.tabs = 1..Len(st.tabs)
      /\ Len(st.tabs) \in Nat
  BY <1>1 DEF StoreOK
<1>4. ToSet(new.tabs) = ToSet(st.tabs) \cup {p}
  <2>1. DOMAIN new.tabs = DOMAIN st.tabs \cup {Len(st.tabs) + 1}
    BY <1>3
  <2> QED
    BY <1>3, <2>1 DEF ToSet
<1>5. p \notin ToSet(st.tabs)
  BY DEF StoreOK, TabsOK
<1>6. IsInjective(new.tabs)
  <2>1. \A i \in 1..Len(st.tabs) : st.tabs[i] # p
    BY <1>3, <1>5 DEF ToSet
  <2> QED
    BY <1>3, <2>1 DEF StoreOK, TabsOK, IsInjective
<1>7. TabsOK(new)
  BY <1>1, <1>3, <1>4, <1>6 DEF StoreOK, TabsOK
<1>8. TomlKept(st.files, new.files)
  BY <1>1 DEF TomlKept
<1> QED
  BY <1>1, <1>2, <1>3, <1>7, <1>8 DEF StoreOK, new

\* Deleting files: the tabs of the others stay, and if the active one is gone
\* the first that is left becomes active.
LEMMA GoneOK ==
  ASSUME NEW st, StoreOK(st), NEW gone, NEW out, ToSet(st.tabs) \cap gone \subseteq out,
         out \subseteq gone,
         NEW new,
         new = [files  |-> [q \in DOMAIN st.files \ gone |-> st.files[q]],
                tabs   |-> Without(st.tabs, out),
                active |-> IF st.active \in gone THEN FirstTab(Without(st.tabs, out))
                           ELSE st.active],
         Null \notin gone
  PROVE  StoreOK(new)
<1>1. new = [files |-> new.files, tabs |-> new.tabs, active |-> new.active]
  OBVIOUS
<1>2. FilesOK(new.files)
  <2>1. IsFiniteSet(DOMAIN st.files \ gone)
    BY FS_Difference, FS_Subset DEF StoreOK, FilesOK
  <2> QED
    BY <2>1 DEF StoreOK, FilesOK
<1>3. /\ new.tabs \in Seq(PathType)
      /\ ToSet(new.tabs) = ToSet(st.tabs) \ out
      /\ IsInjective(new.tabs)
  BY Filtered DEF StoreOK, TabsOK
<1>4. ToSet(new.tabs) \subseteq DOMAIN new.files
  BY <1>3 DEF StoreOK, TabsOK
<1>5. IF new.tabs = <<>> THEN new.active = Null ELSE new.active \in ToSet(new.tabs)
  <2>1. CASE st.active \in gone
    BY <2>1, <1>3, FirstTabOK DEF FirstTab
  <2>2. CASE st.active \notin gone /\ st.tabs = <<>>
    <3>1. ToSet(st.tabs) = {}
      BY <2>2 DEF ToSet
    <3>2. new.tabs = <<>>
      <4> SUFFICES ASSUME new.tabs # <<>> PROVE FALSE
        OBVIOUS
      <4> QED
        BY <3>1, <1>3, FirstTabOK
    <3> QED
      BY <2>2, <3>2 DEF StoreOK, TabsOK
  <2>3. CASE st.active \notin gone /\ st.tabs # <<>>
    <3>1. st.active \in ToSet(new.tabs)
      BY <2>3, <1>3 DEF StoreOK, TabsOK
    <3>2. new.tabs # <<>>
      BY <3>1 DEF ToSet
    <3> QED
      BY <2>3, <3>1, <3>2
  <2> QED
    BY <2>1, <2>2, <2>3
<1> QED
  BY <1>1, <1>2, <1>3, <1>4, <1>5 DEF StoreOK, TabsOK

LEMMA DeleteOK ==
  ASSUME NEW st, StoreOK(st), NEW p \in PathType, p # Toml
  PROVE  StoreOK(DeleteFile(st, p)) /\ TomlKept(st.files, DeleteFile(st, p).files)
<1>1. StoreOK(DeleteFile(st, p))
  BY GoneOK DEF DeleteFile, PathType, Null
<1>2. TomlKept(st.files, DeleteFile(st, p).files)
  BY DEF DeleteFile, TomlKept
<1> QED
  BY <1>1, <1>2

LEMMA TomlNotUnder ==
  ASSUME NEW dir \in PathType
  PROVE  ~Under(dir, Toml) /\ ~Under(dir, Null)
<1>1. Len(dir) \in Nat \ {0}
  BY DEF PathType
<1> QED
  BY <1>1 DEF Under, Toml, Null

LEMMA DeleteFolderOK ==
  ASSUME NEW st, StoreOK(st), NEW dir \in PathType
  PROVE  StoreOK(DeleteFolder(st, dir)) /\ TomlKept(st.files, DeleteFolder(st, dir).files)
<1> DEFINE gone == Inside(st, dir)
           out  == {t \in ToSet(st.tabs) : Under(dir, t)}
<1>1. CASE gone = {}
  BY <1>1 DEF DeleteFolder, TomlKept
<1>2. CASE gone # {}
  <2>1. out \subseteq gone /\ ToSet(st.tabs) \cap gone \subseteq out
    BY DEF StoreOK, TabsOK, Inside
  <2>2. Null \notin gone /\ Toml \notin gone
    BY TomlNotUnder DEF Inside
  <2>3. Under(dir, st.active) <=> st.active \in gone
    <3>1. st.active \in DOMAIN st.files \/ st.active = Null
      BY DEF StoreOK, TabsOK
    <3> QED
      BY <3>1, TomlNotUnder DEF Inside
  <2>4. DeleteFolder(st, dir) =
          [files  |-> [q \in DOMAIN st.files \ gone |-> st.files[q]],
           tabs   |-> Without(st.tabs, out),
           active |-> IF st.active \in gone THEN FirstTab(Without(st.tabs, out))
                      ELSE st.active]
    BY <1>2, <2>3 DEF DeleteFolder
  <2>5. StoreOK(DeleteFolder(st, dir))
    <3> HIDE DEF gone, out
    <3> QED
      BY <2>1, <2>2, <2>4, GoneOK
  <2>6. TomlKept(st.files, DeleteFolder(st, dir).files)
    BY <2>2, <2>4 DEF TomlKept
  <2> QED
    BY <2>5, <2>6
<1> QED
  BY <1>1, <1>2

\* Moving files to paths of their own loses nothing, and their tabs go along.
LEMMA RelocateOK ==
  ASSUME NEW st, StoreOK(st), NEW moved \in SUBSET DOMAIN st.files,
         NEW to \in [moved -> PathType], IsInjective(to),
         Range(to) \cap (DOMAIN st.files \ moved) = {}
  PROVE  /\ StoreOK(Relocate(st, to))
         /\ NothingLost(st.files, Relocate(st, to).files)
         /\ DOMAIN Relocate(st, to).files = (DOMAIN st.files \ moved) \cup Range(to)
         /\ Toml \notin moved => TomlKept(st.files, Relocate(st, to).files)
<1> DEFINE targets   == Range(to)
           source(q) == CHOOSE p \in moved : to[p] = q
           map(p)    == IF p \in moved THEN to[p] ELSE p
           new       == Relocate(st, to)
<1>1. DOMAIN to = moved
  OBVIOUS
<1>2. /\ new = [files |-> new.files, tabs |-> new.tabs, active |-> new.active]
      /\ new.files = [q \in (DOMAIN st.files \ moved) \cup targets |->
                        IF q \in targets THEN st.files[source(q)] ELSE st.files[q]]
      /\ new.tabs = [i \in DOMAIN st.tabs |-> map(st.tabs[i])]
      /\ new.active = map(st.active)
  BY <1>1 DEF Relocate
<1>3. \A p \in moved : to[p] \in targets /\ source(to[p]) = p
  BY <1>1 DEF IsInjective, Range
<1>4. \A q \in targets : source(q) \in moved /\ to[source(q)] = q
  BY <1>1 DEF Range
<1>5. targets \subseteq PathType
  BY <1>1 DEF Range
<1>6. \A p, q \in DOMAIN st.files : map(p) = map(q) => p = q
  <2>1. \A p, q \in moved : to[p] = to[q] => p = q
    BY <1>1 DEF IsInjective
  <2>2. \A p \in moved, q \in DOMAIN st.files \ moved : to[p] # q
    BY <1>3
  <2> QED
    BY <2>1, <2>2
<1>7. \A p \in DOMAIN st.files : /\ map(p) \in DOMAIN new.files
                                 /\ new.files[map(p)] = st.files[p]
  BY <1>2, <1>3
<1>8. \A q \in DOMAIN new.files : \E p \in DOMAIN st.files : map(p) = q
  BY <1>2, <1>4
<1>9. DOMAIN new.files = (DOMAIN st.files \ moved) \cup targets
  BY <1>2
<1> HIDE DEF source, map, new, targets
<1>10. /\ Cardinality(DOMAIN new.files) = Cardinality(DOMAIN st.files)
       /\ IsFiniteSet(DOMAIN new.files)
  <2> DEFINE b == [p \in DOMAIN st.files |-> map(p)]
  <2>1. b \in Bijection(DOMAIN st.files, DOMAIN new.files)
    BY <1>6, <1>7, <1>8 DEF Bijection, Injection, Surjection, IsInjective
  <2>2. ExistsBijection(DOMAIN st.files, DOMAIN new.files)
    BY <2>1 DEF ExistsBijection
  <2> QED
    BY <2>2, FS_Bijection DEF StoreOK, FilesOK
<1>11. Range(new.files) = Range(st.files)
  <2>1. Range(st.files) \subseteq Range(new.files)
    BY <1>7 DEF Range
  <2>2. Range(new.files) \subseteq Range(st.files)
    BY <1>7, <1>8 DEF Range
  <2> QED
    BY <2>1, <2>2
<1>12. FilesOK(new.files)
  <2>1. \A q \in DOMAIN new.files : new.files[q] \in 1..MaxContents
    BY <1>7, <1>8 DEF StoreOK, FilesOK
  <2>2. DOMAIN new.files \subseteq PathType
    BY <1>5, <1>9 DEF StoreOK, FilesOK
  <2>3. new.files = [q \in DOMAIN new.files |-> new.files[q]]
    BY <1>2
  <2> QED
    BY <1>10, <2>1, <2>2, <2>3 DEF FilesOK
<1>13. \A i \in DOMAIN st.tabs : st.tabs[i] \in DOMAIN st.files
  BY DEF StoreOK, TabsOK, ToSet
<1>14. DOMAIN new.tabs = DOMAIN st.tabs /\ \A i \in DOMAIN st.tabs : new.tabs[i] = map(st.tabs[i])
  BY <1>2
<1>15. new.tabs \in Seq(PathType)
  <2>1. Len(st.tabs) \in Nat /\ DOMAIN st.tabs = 1..Len(st.tabs)
    BY DEF StoreOK
  <2>2. \A i \in 1..Len(st.tabs) : map(st.tabs[i]) \in PathType
    BY <2>1, <1>7, <1>12, <1>13 DEF FilesOK
  <2>3. new.tabs \in [1..Len(st.tabs) -> PathType]
    BY <1>2, <2>1, <2>2
  <2> QED
    BY <2>1, <2>3, SeqDef
<1>16. TabsOK(new)
  <2>1. ToSet(new.tabs) \subseteq DOMAIN new.files
    BY <1>7, <1>13, <1>14 DEF ToSet
  <2>2. IsInjective(new.tabs)
    BY <1>6, <1>13, <1>14 DEF StoreOK, TabsOK, IsInjective
  <2>3. CASE st.tabs = <<>>
    <3>1. new.tabs = <<>>
      <4>1. DOMAIN new.tabs = {}
        BY <2>3, <1>14
      <4>2. DOMAIN new.tabs = 1..Len(new.tabs) /\ Len(new.tabs) \in Nat
        BY <1>15
      <4>3. 1 \notin 1..Len(new.tabs)
        BY <4>1, <4>2
      <4>4. Len(new.tabs) = 0
        BY <4>2, <4>3
      <4> QED
        BY <4>4, <1>15
    <3>2. Null \notin moved
      BY DEF StoreOK, FilesOK, PathType, Null
    <3>3. new.active = Null
      BY <2>3, <3>2, <1>2 DEF StoreOK, TabsOK, map
    <3> QED
      BY <2>1, <2>2, <3>1, <3>3 DEF TabsOK
  <2>4. CASE st.tabs # <<>>
    <3>1. new.active \in ToSet(new.tabs)
      BY <2>4, <1>2, <1>14 DEF StoreOK, TabsOK, ToSet
    <3>2. new.tabs # <<>>
      BY <3>1 DEF ToSet
    <3> QED
      BY <2>1, <2>2, <3>1, <3>2 DEF TabsOK
  <2> QED
    BY <2>3, <2>4
<1>17. Toml \notin moved => TomlKept(st.files, new.files)
  BY <1>7 DEF TomlKept, map
<1> QED
  BY <1>2, <1>9, <1>10, <1>11, <1>12, <1>15, <1>16, <1>17
     DEF StoreOK, NothingLost, new, targets

LEMMA TabsChanged ==
  ASSUME NEW f, NEW t, NEW a, NEW u, NEW b
  PROVE  [[files |-> f, tabs |-> t, active |-> a] EXCEPT !.tabs = u, !.active = b]
           = [files |-> f, tabs |-> u, active |-> b]
<1> DEFINE r == [files |-> f, tabs |-> t, active |-> a]
           s == [r EXCEPT !.tabs = u]
           n == [r EXCEPT !.tabs = u, !.active = b]
<1>1. DOMAIN n = {"files", "tabs", "active"}
  BY Zenon
<1>2. n.files = f /\ n.tabs = u /\ n.active = b
  OBVIOUS
<1>3. n = [x \in {"files", "tabs", "active"} |-> n[x]]
  OBVIOUS
<1> HIDE DEF n
<1>4. n = [files |-> n.files, tabs |-> n.tabs, active |-> n.active]
  BY <1>3
<1> QED
  BY <1>2, <1>4 DEF n

LEMMA OpenTabOK ==
  ASSUME NEW st, StoreOK(st), NEW p \in DOMAIN st.files
  PROVE  StoreOK(OpenTab(st, p)) /\ OpenTab(st, p).files = st.files
<1> DEFINE new == OpenTab(st, p)
<1>1. /\ new = [files |-> new.files, tabs |-> new.tabs, active |-> new.active]
      /\ new.files = st.files /\ new.active = p
      /\ new.tabs = IF p \in ToSet(st.tabs) THEN st.tabs ELSE Append(st.tabs, p)
  <2>1. st = [files |-> st.files, tabs |-> st.tabs, active |-> st.active]
    BY DEF StoreOK
  <2>2. new = [files  |-> st.files,
               tabs   |-> IF p \in ToSet(st.tabs) THEN st.tabs ELSE Append(st.tabs, p),
               active |-> p]
    <3>1. new = [st EXCEPT !.tabs = IF p \in ToSet(st.tabs) THEN st.tabs
                                    ELSE Append(st.tabs, p), !.active = p]
      BY DEF OpenTab
    <3> QED
      BY <2>1, <3>1, TabsChanged
  <2> QED
    BY <2>2
<1> HIDE DEF new
<1>2. CASE p \in ToSet(st.tabs)
  <2>1. st.tabs # <<>>
    BY <1>2 DEF ToSet
  <2> QED
    BY <1>1, <1>2, <2>1 DEF StoreOK, TabsOK, new
<1>3. CASE p \notin ToSet(st.tabs)
  <2>1. p \in PathType
    BY DEF StoreOK, FilesOK
  <2>2. /\ new.tabs \in Seq(PathType) /\ Len(new.tabs) = Len(st.tabs) + 1
        /\ \A i \in 1..Len(st.tabs) : new.tabs[i] = st.tabs[i]
        /\ new.tabs[Len(st.tabs) + 1] = p
        /\ DOMAIN new.tabs = 1..(Len(st.tabs) + 1) /\ DOMAIN st.tabs = 1..Len(st.tabs)
        /\ Len(st.tabs) \in Nat
    BY <1>1, <1>3, <2>1 DEF StoreOK
  <2>3. ToSet(new.tabs) = ToSet(st.tabs) \cup {p}
    <3>1. DOMAIN new.tabs = DOMAIN st.tabs \cup {Len(st.tabs) + 1}
      BY <2>2
    <3> QED
      BY <2>2, <3>1 DEF ToSet
  <2>4. IsInjective(new.tabs)
    <3>1. \A i \in 1..Len(st.tabs) : st.tabs[i] # p
      BY <2>2, <1>3 DEF ToSet
    <3> QED
      BY <2>2, <3>1 DEF StoreOK, TabsOK, IsInjective
  <2>5. new.tabs # <<>>
    BY <2>2
  <2> QED
    BY <1>1, <2>2, <2>3, <2>4, <2>5 DEF StoreOK, TabsOK, new
<1> QED
  BY <1>2, <1>3

LEMMA ActivateOK ==
  ASSUME NEW st, StoreOK(st), NEW p \in ToSet(st.tabs)
  PROVE  /\ StoreOK([st EXCEPT !.active = p])
         /\ [st EXCEPT !.active = p].files = st.files
<1>1. st.tabs # <<>>
  BY DEF ToSet
<1>2. [st EXCEPT !.active = p] = [files |-> st.files, tabs |-> st.tabs, active |-> p]
  BY DEF StoreOK
<1> QED
  BY <1>1, <1>2 DEF StoreOK, TabsOK

LEMMA CloseTabOK ==
  ASSUME NEW st, StoreOK(st), NEW p \in ToSet(st.tabs)
  PROVE  StoreOK(CloseTab(st, p)) /\ CloseTab(st, p).files = st.files
<1> DEFINE idx  == CHOOSE i \in DOMAIN st.tabs : st.tabs[i] = p
           tabs == Without(st.tabs, {p})
           active == IF st.active # p THEN st.active
                     ELSE IF tabs = <<>> THEN Null
                     ELSE tabs[IF idx > 1 THEN idx - 1 ELSE 1]
           new  == CloseTab(st, p)
<1>1. new = [files |-> st.files, tabs |-> tabs, active |-> active]
  <2>1. st = [files |-> st.files, tabs |-> st.tabs, active |-> st.active]
    BY DEF StoreOK
  <2> QED
    <3>1. new = [st EXCEPT !.tabs = tabs, !.active = active]
      BY DEF CloseTab
    <3> HIDE DEF tabs, active
    <3> QED
      BY <2>1, <3>1, TabsChanged
<1>2. idx \in DOMAIN st.tabs
  BY DEF ToSet
<1>3. /\ tabs \in Seq(PathType)
      /\ ToSet(tabs) = ToSet(st.tabs) \ {p}
      /\ IsInjective(tabs)
      /\ Len(tabs) >= Len(st.tabs) - 1
  BY Filtered DEF StoreOK, TabsOK
<1>4. /\ DOMAIN st.tabs = 1..Len(st.tabs) /\ Len(st.tabs) \in Nat
  BY DEF StoreOK
<1> HIDE DEF idx, tabs, new
<1>5. IF tabs = <<>> THEN active = Null ELSE active \in ToSet(tabs)
  <2>1. CASE st.active # p
    <3>1. st.active \in ToSet(st.tabs)
      <4>1. st.tabs # <<>>
        BY DEF ToSet
      <4> QED
        BY <4>1 DEF StoreOK, TabsOK
    <3>2. st.active \in ToSet(tabs)
      BY <2>1, <3>1, <1>3
    <3>3. tabs # <<>>
      BY <3>2 DEF ToSet
    <3> QED
      BY <2>1, <3>2, <3>3
  <2>2. CASE st.active = p /\ tabs = <<>>
    BY <2>2
  <2>3. CASE st.active = p /\ tabs # <<>>
    <3> DEFINE i == IF idx > 1 THEN idx - 1 ELSE 1
    <3>1. Len(tabs) \in Nat \ {0}
      BY <2>3, <1>3, EmptySeq
    <3>2. i \in 1..Len(tabs)
      BY <3>1, <1>2, <1>3, <1>4
    <3>3. tabs[i] \in ToSet(tabs)
      BY <3>2, <1>3, InTabs
    <3>4. active = tabs[i]
      BY <2>3
    <3> QED
      BY <2>3, <3>3, <3>4
  <2> QED
    BY <2>1, <2>2, <2>3
<1> HIDE DEF active
<1> QED
  BY <1>1, <1>3, <1>5 DEF StoreOK, TabsOK, new

LEMMA RemoveAtIs ==
  ASSUME NEW E, NEW s \in Seq(E), NEW i \in 1..Len(s)
  PROVE  /\ RemoveAt(s, i) \in Seq(E)
         /\ Len(RemoveAt(s, i)) = Len(s) - 1
         /\ \A k \in 1..(Len(s) - 1) : RemoveAt(s, i)[k] = IF k < i THEN s[k] ELSE s[k + 1]
<1> DEFINE a == SubSeq(s, 1, i - 1)
           b == SubSeq(s, i + 1, Len(s))
           r == RemoveAt(s, i)
<1>1. Len(s) \in Nat /\ \A k \in 1..Len(s) : s[k] \in E
  OBVIOUS
<1>2. a \in Seq(E) /\ Len(a) = i - 1 /\ \A k \in 1..(i - 1) : a[k] = s[k]
  BY <1>1, SubSeqProperties
<1>3. b \in Seq(E) /\ Len(b) = Len(s) - i /\ \A k \in 1..(Len(s) - i) : b[k] = s[k + i]
  BY <1>1, SubSeqProperties
<1>4. r = a \o b
  BY DEF RemoveAt
<1> HIDE DEF a, b, r
<1>5. /\ r \in Seq(E) /\ Len(r) = Len(a) + Len(b)
      /\ \A k \in 1..(Len(a) + Len(b)) : r[k] = IF k <= Len(a) THEN a[k] ELSE b[k - Len(a)]
  BY <1>2, <1>3, <1>4, ConcatProperties
<1>6. ASSUME NEW k \in 1..(Len(s) - 1) PROVE r[k] = IF k < i THEN s[k] ELSE s[k + 1]
  <2>1. CASE k < i
    <3>1. k \in 1..(Len(a) + Len(b)) /\ k <= Len(a) /\ k \in 1..(i - 1)
      BY <2>1, <1>1, <1>2, <1>3
    <3> QED
      BY <2>1, <3>1, <1>2, <1>5
  <2>2. CASE ~(k < i)
    <3>1. k - (i - 1) \in 1..(Len(s) - i) /\ ~(k <= i - 1) /\ (k - (i - 1)) + i = k + 1
      BY <2>2, <1>1
    <3>2. r[k] = b[k - (i - 1)]
      <4>1. k \in 1..(Len(a) + Len(b)) /\ ~(k <= Len(a)) /\ Len(a) = i - 1
        BY <3>1, <1>1, <1>2, <1>3
      <4> QED
        BY <4>1, <1>5
    <3> QED
      BY <2>2, <3>1, <3>2, <1>3
  <2> QED
    BY <2>1, <2>2
<1> QED
  BY <1>1, <1>2, <1>3, <1>5, <1>6 DEF r

\* The elements of s, and e before the one at j.
Inserted(r, E, s, j, e) ==
  /\ r \in Seq(E)
  /\ Len(r) = Len(s) + 1
  /\ \A k \in 1..(Len(s) + 1) : r[k] = IF k < j THEN s[k] ELSE IF k = j THEN e ELSE s[k - 1]

LEMMA InsertAtIs ==
  ASSUME NEW E, NEW s \in Seq(E), NEW j \in 1..(Len(s) + 1), NEW e \in E
  PROVE  Inserted(InsertAt(s, j, e), E, s, j, e)
<1> DEFINE a == SubSeq(s, 1, j - 1)
           b == SubSeq(s, j, Len(s))
           c == a \o <<e>>
           r == InsertAt(s, j, e)
<1>1. Len(s) \in Nat /\ \A k \in 1..Len(s) : s[k] \in E
  OBVIOUS
<1>2. a \in Seq(E) /\ Len(a) = j - 1 /\ \A k \in 1..(j - 1) : a[k] = s[k]
  BY <1>1, SubSeqProperties
<1>3. b \in Seq(E) /\ Len(b) = Len(s) - j + 1 /\ \A k \in 1..(Len(s) - j + 1) : b[k] = s[j + k - 1]
  BY <1>1, SubSeqProperties
<1>4. r = c \o b
  BY DEF InsertAt
<1>5. <<e>> \in Seq(E) /\ Len(<<e>>) = 1 /\ <<e>>[1] = e
  OBVIOUS
<1>6. /\ c \in Seq(E) /\ Len(c) = Len(a) + 1
      /\ \A k \in 1..(Len(a) + 1) : c[k] = IF k <= Len(a) THEN a[k] ELSE <<e>>[k - Len(a)]
  <2> HIDE DEF a, b, r
  <2> QED
    BY <1>2, <1>5, ConcatProperties
<1> HIDE DEF a, b, c, r
<1>7. /\ r \in Seq(E) /\ Len(r) = Len(c) + Len(b)
      /\ \A k \in 1..(Len(c) + Len(b)) : r[k] = IF k <= Len(c) THEN c[k] ELSE b[k - Len(c)]
  BY <1>3, <1>4, <1>6, ConcatProperties
<1>8. ASSUME NEW k \in 1..(Len(s) + 1)
      PROVE  r[k] = IF k < j THEN s[k] ELSE IF k = j THEN e ELSE s[k - 1]
  <2>1. CASE k <= j
    <3>1. r[k] = c[k]
      BY <2>1, <1>1, <1>2, <1>3, <1>6, <1>7
    <3>2. CASE k < j
      BY <2>1, <3>1, <3>2, <1>1, <1>2, <1>6
    <3>3. CASE k = j
      <4>1. k - Len(a) = 1 /\ k \in 1..(Len(a) + 1) /\ ~(k <= Len(a)) /\ ~(k < j)
        BY <3>3, <1>2
      <4>2. c[k] = <<e>>[k - Len(a)]
        BY <4>1, <1>6
      <4> QED
        BY <3>1, <3>3, <4>1, <4>2, <1>5
    <3> QED
      BY <2>1, <3>2, <3>3
  <2>2. CASE ~(k <= j)
    <3>1. k - j \in 1..(Len(s) - j + 1) /\ j + (k - j) - 1 = k - 1
      BY <2>2, <1>1
    <3>2. r[k] = b[k - j]
      BY <2>2, <1>1, <1>2, <1>3, <1>6, <1>7
    <3> QED
      BY <2>2, <3>1, <3>2, <1>3
  <2> QED
    BY <2>1, <2>2
<1> QED
  BY <1>1, <1>2, <1>3, <1>6, <1>7, <1>8 DEF r, Inserted

\* An element that is taken out and put in elsewhere leaves a sequence of the
\* same elements.
LEMMA Moved ==
  ASSUME NEW E, NEW s \in Seq(E), NEW i \in 1..Len(s), NEW j \in 1..Len(s), NEW e \in E,
         s[i] = e,
         NEW r, r = InsertAt(RemoveAt(s, i), j, e)
  PROVE  r \in Seq(E) /\ ToSet(r) = ToSet(s) /\ (IsInjective(s) => IsInjective(r))
<1> DEFINE L == Len(s)
           rest == RemoveAt(s, i)
           \* where the element comes from that is at k now
           from(k) == IF k = j THEN i
                      ELSE LET m == IF k < j THEN k ELSE k - 1
                           IN IF m < i THEN m ELSE m + 1
<1>1. /\ rest \in Seq(E) /\ Len(rest) = L - 1
      /\ \A k \in 1..(L - 1) : rest[k] = IF k < i THEN s[k] ELSE s[k + 1]
  BY RemoveAtIs
<1>2. L \in Nat /\ DOMAIN s = 1..L
  OBVIOUS
<1> HIDE DEF rest
<1>3. /\ r \in Seq(E) /\ Len(r) = L
      /\ \A k \in 1..L : r[k] = IF k < j THEN rest[k] ELSE IF k = j THEN e ELSE rest[k - 1]
  <2>1. j \in 1..(Len(rest) + 1) /\ Len(rest) + 1 = L /\ r = InsertAt(rest, j, e)
    BY <1>1, <1>2 DEF rest
  <2>2. /\ r \in Seq(E) /\ Len(r) = Len(rest) + 1
        /\ \A k \in 1..(Len(rest) + 1) :
             r[k] = IF k < j THEN rest[k] ELSE IF k = j THEN e ELSE rest[k - 1]
    <3> HIDE DEF L
    <3>1. rest \in Seq(E) /\ j \in 1..(Len(rest) + 1)
      BY <1>1, <2>1
    <3>2. Inserted(InsertAt(rest, j, e), E, rest, j, e)
      BY <3>1, InsertAtIs, Zenon
    <3> QED
      BY <2>1, <3>2 DEF Inserted
  <2> HIDE DEF L
  <2> QED
    BY <2>1, <2>2
<1> HIDE DEF L
<1>4. i \in 1..L /\ j \in 1..L
  BY DEF L
<1>5. ASSUME NEW k \in 1..L PROVE from(k) \in 1..L /\ r[k] = s[from(k)]
  <2>1. CASE k = j
    BY <2>1, <1>3, <1>4
  <2>2. CASE k < j
    <3>1. k \in 1..(L - 1) /\ k # j
      BY <2>2, <1>2, <1>4
    <3>2. from(k) = IF k < i THEN k ELSE k + 1
      BY <2>2, <3>1
    <3>3. r[k] = rest[k]
      BY <2>2, <3>1, <1>3
    <3>4. rest[k] = IF k < i THEN s[k] ELSE s[k + 1]
      BY <3>1, <1>1
    <3> HIDE DEF from
    <3> QED
      BY <3>1, <3>2, <3>3, <3>4, <1>2, <1>4
  <2>3. CASE k > j
    <3>1. k - 1 \in 1..(L - 1) /\ k # j /\ ~(k < j) /\ (k - 1) + 1 = k
      BY <2>3, <1>2, <1>4
    <3>2. from(k) = IF k - 1 < i THEN k - 1 ELSE k
      BY <2>3, <3>1
    <3>3. r[k] = rest[k - 1]
      BY <2>3, <3>1, <1>3
    <3>4. rest[k - 1] = IF k - 1 < i THEN s[k - 1] ELSE s[k]
      BY <3>1, <1>1
    <3> HIDE DEF from
    <3> QED
      BY <3>1, <3>2, <3>3, <3>4, <1>2, <1>4
  <2> QED
    BY <2>1, <2>2, <2>3, <1>2, <1>4
<1>6. \A k, m \in 1..L : from(k) = from(m) => k = m
  BY <1>2, <1>4
<1>7. ASSUME NEW n \in 1..L PROVE \E k \in 1..L : from(k) = n
  <2> DEFINE m == IF n < i THEN n ELSE n - 1
             k == IF n = i THEN j ELSE IF m < j THEN m ELSE m + 1
  <2>1. k \in 1..L /\ from(k) = n
    BY <1>2, <1>4
  <2> HIDE DEF k, from
  <2> QED
    BY <2>1
<1> HIDE DEF from
<1>8. DOMAIN r = 1..L
  BY <1>3
<1>9. IsInjective(s) => IsInjective(r)
  BY <1>2, <1>5, <1>6, <1>8 DEF IsInjective
<1>10. ToSet(r) = ToSet(s)
  <2>1. ToSet(r) \subseteq ToSet(s)
    BY <1>2, <1>5, <1>8 DEF ToSet
  <2>2. ToSet(s) \subseteq ToSet(r)
    <3> SUFFICES ASSUME NEW n \in 1..L PROVE s[n] \in ToSet(r)
      BY <1>2 DEF ToSet
    <3>1. PICK k \in 1..L : from(k) = n
      BY <1>7
    <3> QED
      BY <3>1, <1>5, <1>8 DEF ToSet
  <2> QED
    BY <2>1, <2>2
<1> QED
  BY <1>3, <1>9, <1>10

\* A tab that is dragged onto another one takes its place: the order changes and
\* nothing else.
LEMMA MoveTabOK ==
  ASSUME NEW st, StoreOK(st), NEW p \in ToSet(st.tabs), NEW q \in ToSet(st.tabs)
  PROVE  StoreOK(MoveTab(st, p, q)) /\ MoveTab(st, p, q).files = st.files
<1> DEFINE i == CHOOSE k \in DOMAIN st.tabs : st.tabs[k] = p
           j == CHOOSE k \in DOMAIN st.tabs : st.tabs[k] = q
           tabs == InsertAt(RemoveAt(st.tabs, i), j, p)
           new == MoveTab(st, p, q)
<1>1. st = [files |-> st.files, tabs |-> st.tabs, active |-> st.active] /\ st.tabs \in Seq(PathType)
  BY DEF StoreOK
<1>2. new = [files |-> st.files, tabs |-> tabs, active |-> st.active]
  BY <1>1 DEF MoveTab
<1>3. i \in 1..Len(st.tabs) /\ j \in 1..Len(st.tabs) /\ st.tabs[i] = p
  BY <1>1 DEF ToSet
<1>4. p \in PathType
  BY <1>1, <1>3
<1> HIDE DEF i, j, new
<1>5. tabs \in Seq(PathType) /\ ToSet(tabs) = ToSet(st.tabs) /\ IsInjective(tabs)
  BY <1>1, <1>3, <1>4, Moved DEF StoreOK, TabsOK
<1> HIDE DEF tabs
<1>6. st.tabs # <<>> /\ p \in ToSet(tabs)
  <2>1. p \in ToSet(tabs)
    BY <1>5
  <2>2. st.tabs # <<>>
    BY DEF ToSet
  <2> QED
    BY <2>1, <2>2
<1>7. tabs # <<>>
  BY <1>6 DEF ToSet
<1> QED
  BY <1>2, <1>5, <1>6, <1>7 DEF StoreOK, TabsOK, new

\* The workspace that was shared, with contents of its own.
LEMMA LoadOK ==
  ASSUME NEW w \in Shares, NEW c \in Nat, c + Len(w) <= MaxContents
  PROVE  StoreOK(LoadWorkspace(w, c))
<1> DEFINE at(p) == CHOOSE i \in DOMAIN w : w[i] = p
           new   == LoadWorkspace(w, c)
<1>1. w \in Seq(PathType) /\ IsInjective(w) /\ Len(w) \in Nat /\ DOMAIN w = 1..Len(w)
  BY SharesType DEF PathType
<1>2. /\ new = [files |-> new.files, tabs |-> new.tabs, active |-> new.active]
      /\ new.files = [p \in ToSet(w) |-> c + at(p)]
      /\ new.tabs = w /\ new.active = FirstTab(w)
  BY DEF LoadWorkspace
<1>3. \A p \in ToSet(w) : at(p) \in 1..Len(w)
  BY <1>1 DEF ToSet
<1> HIDE DEF at, new
<1>4. FilesOK(new.files)
  <2>1. \A p \in ToSet(w) : c + at(p) \in 1..MaxContents
    BY <1>1, <1>3, BoundsType
  <2>2. ToSet(w) \subseteq PathType
    BY <1>1 DEF ToSet
  <2>3. IsFiniteSet(ToSet(w))
    <3>1. IsFiniteSet(1..Len(w))
      BY <1>1, FS_Interval
    <3>2. w \in Bijection(1..Len(w), ToSet(w))
      BY <1>1 DEF ToSet, Bijection, Injection, Surjection, IsInjective
    <3> QED
      BY <3>1, <3>2, FS_Bijection DEF ExistsBijection
  <2> QED
    BY <1>2, <2>1, <2>2, <2>3 DEF FilesOK
<1>5. TabsOK(new)
  <2>1. w # <<>> => FirstTab(w) \in ToSet(w)
    BY <1>1, FirstTabOK
  <2>2. w = <<>> => FirstTab(w) = Null
    BY DEF FirstTab
  <2> QED
    BY <1>1, <1>2, <2>1, <2>2 DEF TabsOK
<1> QED
  BY <1>1, <1>2, <1>4, <1>5 DEF StoreOK, new

-----------------------------------------------------------------------------
(* Paths. *)

\* The names that a folder has are those its paths begin with.
LEMMA UnderIs ==
  ASSUME NEW dir \in PathType, NEW p \in PathType
  PROVE  Under(dir, p) <=> Len(dir) < Len(p) /\ \A i \in 1..Len(dir) : p[i] = dir[i]
<1>1. Len(dir) \in Nat /\ Len(p) \in Nat /\ dir \in Seq(Names) /\ p \in Seq(Names)
  BY DEF PathType
<1> SUFFICES ASSUME Len(dir) < Len(p)
             PROVE  SubSeq(p, 1, Len(dir)) = dir <=> \A i \in 1..Len(dir) : p[i] = dir[i]
  BY <1>1 DEF Under
<1> DEFINE a == SubSeq(p, 1, Len(dir))
<1>2. \A i \in 1..Len(p) : p[i] \in Names
  BY <1>1
<1>3. a \in Seq(Names) /\ Len(a) = Len(dir) /\ \A i \in 1..Len(dir) : a[i] = p[i]
  BY <1>1, <1>2, SubSeqProperties
<1> HIDE DEF a
<1>4. a = dir <=> \A i \in 1..Len(dir) : p[i] = dir[i]
  BY <1>1, <1>3, SeqEqual
<1> QED
  BY <1>4 DEF a

LEMMA SwapIs ==
  ASSUME NEW old \in PathType, NEW new \in PathType, NEW p \in PathType, Under(old, p)
  PROVE  /\ Swap(p, old, new) \in PathType
         /\ Len(Swap(p, old, new)) = Len(new) + (Len(p) - Len(old))
         /\ \A i \in 1..Len(new) : Swap(p, old, new)[i] = new[i]
         /\ \A i \in 1..(Len(p) - Len(old)) : Swap(p, old, new)[Len(new) + i] = p[Len(old) + i]
         /\ Swap(p, old, new) # Toml
<1> DEFINE a == SubSeq(p, Len(old) + 1, Len(p))
           s == Swap(p, old, new)
<1>1. /\ Len(old) \in Nat \ {0} /\ Len(new) \in Nat \ {0} /\ Len(p) \in Nat
      /\ new \in Seq(Names) /\ p \in Seq(Names) /\ Len(old) < Len(p)
  BY DEF PathType, Under
<1>2. \A i \in 1..Len(p) : p[i] \in Names
  BY <1>1
<1>3. /\ a \in Seq(Names) /\ Len(a) = Len(p) - Len(old)
      /\ \A i \in 1..(Len(p) - Len(old)) : a[i] = p[Len(old) + i]
  BY <1>1, <1>2, SubSeqProperties
<1>4. s = new \o a
  BY DEF Swap
<1> HIDE DEF a, s
<1>5. /\ s \in Seq(Names) /\ Len(s) = Len(new) + Len(a)
      /\ \A i \in 1..(Len(new) + Len(a)) :
           s[i] = IF i <= Len(new) THEN new[i] ELSE a[i - Len(new)]
  BY <1>1, <1>3, <1>4, ConcatProperties
<1>6. ASSUME NEW i \in 1..Len(new) PROVE s[i] = new[i]
  <2>1. i \in 1..(Len(new) + Len(a)) /\ i <= Len(new)
    BY <1>1, <1>3
  <2> QED
    BY <2>1, <1>5
<1>7. ASSUME NEW i \in 1..(Len(p) - Len(old)) PROVE s[Len(new) + i] = p[Len(old) + i]
  <2>1. /\ Len(new) + i \in 1..(Len(new) + Len(a)) /\ ~(Len(new) + i <= Len(new))
        /\ (Len(new) + i) - Len(new) = i
    BY <1>1, <1>3
  <2> QED
    BY <2>1, <1>3, <1>5
<1>8. Len(s) > 1
  BY <1>1, <1>3, <1>5
<1>9. s # <<>> /\ s # Toml
  <2>1. s = <<>> => Len(s) = 0
    OBVIOUS
  <2>2. s = Toml => Len(s) = 1
    BY DEF Toml
  <2>3. Len(s) # 0 /\ Len(s) # 1
    BY <1>5, <1>8
  <2> QED
    BY <2>1, <2>2, <2>3
<1> QED
  BY <1>3, <1>5, <1>6, <1>7, <1>9 DEF s, PathType

\* No two paths under a folder become the same one.
LEMMA SwapInjective ==
  ASSUME NEW old \in PathType, NEW new \in PathType, NEW p \in PathType, NEW q \in PathType,
         Under(old, p), Under(old, q), Swap(p, old, new) = Swap(q, old, new)
  PROVE  p = q
<1>1. /\ Len(old) \in Nat /\ Len(new) \in Nat /\ Len(p) \in Nat /\ Len(q) \in Nat
      /\ p \in Seq(Names) /\ q \in Seq(Names)
  BY DEF PathType
<1> DEFINE s == Swap(p, old, new)
           t == Swap(q, old, new)
<1>2. /\ Len(s) = Len(new) + (Len(p) - Len(old))
      /\ \A i \in 1..(Len(p) - Len(old)) : s[Len(new) + i] = p[Len(old) + i]
  BY SwapIs
<1>3. /\ Len(t) = Len(new) + (Len(q) - Len(old))
      /\ \A i \in 1..(Len(q) - Len(old)) : t[Len(new) + i] = q[Len(old) + i]
  BY SwapIs
<1> HIDE DEF s, t
<1>4. s = t
  BY DEF s, t
<1>5. Len(p) = Len(q)
  BY <1>1, <1>2, <1>3, <1>4
<1>6. ASSUME NEW i \in 1..Len(p) PROVE p[i] = q[i]
  <2>1. CASE i <= Len(old)
    <3>1. i \in 1..Len(old)
      BY <2>1, <1>1
    <3> QED
      BY <3>1, UnderIs
  <2>2. CASE i > Len(old)
    <3>1. i - Len(old) \in 1..(Len(p) - Len(old)) /\ Len(old) + (i - Len(old)) = i
      BY <2>2, <1>1
    <3>2. s[Len(new) + (i - Len(old))] = p[i]
      BY <3>1, <1>2
    <3>3. t[Len(new) + (i - Len(old))] = q[i]
      BY <3>1, <1>3, <1>5
    <3> QED
      BY <3>2, <3>3, <1>4
  <2> QED
    BY <2>1, <2>2, <1>1
<1> QED
  BY <1>1, <1>5, <1>6, SeqEqual

\* Files that a move may take: every one is inside the folder and gets a path
\* of its own.
LEMMA MoveFolderOK ==
  ASSUME NEW st, StoreOK(st), NEW old \in PathType, NEW new \in PathType,
         \A p \in Inside(st, old) :
           Swap(p, old, new) \notin DOMAIN st.files \ Inside(st, old)
  PROVE  /\ StoreOK(MoveFolder(st, old, new))
         /\ NothingLost(st.files, MoveFolder(st, old, new).files)
         /\ TomlKept(st.files, MoveFolder(st, old, new).files)
         /\ DOMAIN MoveFolder(st, old, new).files =
              (DOMAIN st.files \ Inside(st, old))
                \cup {Swap(p, old, new) : p \in Inside(st, old)}
<1> DEFINE moved == Inside(st, old)
           to == [p \in moved |-> Swap(p, old, new)]
<1>1. moved \subseteq DOMAIN st.files /\ moved \subseteq PathType
  BY DEF Inside, StoreOK, FilesOK
<1>2. \A p \in moved : Under(old, p) /\ Swap(p, old, new) \in PathType
  BY <1>1, SwapIs DEF Inside
<1>3. to \in [moved -> PathType]
  BY <1>2
<1>4. IsInjective(to)
  BY <1>1, <1>2, SwapInjective DEF IsInjective
<1>5. Range(to) = {Swap(p, old, new) : p \in moved}
  BY DEF Range
<1>6. Range(to) \cap (DOMAIN st.files \ moved) = {}
  BY <1>5
<1>7. Toml \notin moved
  BY TomlNotUnder DEF Inside
<1>8. MoveFolder(st, old, new) = Relocate(st, to)
  BY DEF MoveFolder
<1> HIDE DEF to, moved
<1>9. /\ StoreOK(Relocate(st, to))
      /\ NothingLost(st.files, Relocate(st, to).files)
      /\ DOMAIN Relocate(st, to).files = (DOMAIN st.files \ moved) \cup Range(to)
      /\ TomlKept(st.files, Relocate(st, to).files)
  BY <1>1, <1>3, <1>4, <1>6, <1>7, RelocateOK
<1> QED
  BY <1>5, <1>8, <1>9 DEF moved

LEMMA RenameOK ==
  ASSUME NEW st, StoreOK(st), NEW old, old # Toml, NEW new \in PathType \ DOMAIN st.files
  PROVE  /\ StoreOK(RenameFile(st, old, new))
         /\ NothingLost(st.files, RenameFile(st, old, new).files)
         /\ TomlKept(st.files, RenameFile(st, old, new).files)
         /\ old \notin DOMAIN RenameFile(st, old, new).files \/ old = new
<1>1. CASE old \in DOMAIN st.files
  <2> DEFINE to == [p \in {old} |-> new]
  <2>1. to \in [{old} -> PathType] /\ IsInjective(to) /\ Range(to) = {new}
    BY DEF IsInjective, Range
  <2>2. RenameFile(st, old, new) = Relocate(st, to)
    BY <1>1 DEF RenameFile
  <2> HIDE DEF to
  <2>3. /\ StoreOK(Relocate(st, to))
        /\ NothingLost(st.files, Relocate(st, to).files)
        /\ DOMAIN Relocate(st, to).files = (DOMAIN st.files \ {old}) \cup Range(to)
        /\ TomlKept(st.files, Relocate(st, to).files)
    BY <1>1, <2>1, RelocateOK
  <2> QED
    BY <2>1, <2>2, <2>3
<1>2. CASE old \notin DOMAIN st.files
  BY <1>2 DEF RenameFile, NothingLost, TomlKept
<1> QED
  BY <1>1, <1>2

LEMMA FolderPaths ==
  ASSUME NEW st, StoreOK(st), NEW vs \in SUBSET PathType
  PROVE  Folders(st, vs) \subseteq PathType
<1>1. ASSUME NEW p \in PathType, NEW n \in 1..(Len(p) - 1) PROVE SubSeq(p, 1, n) \in PathType
  <2>1. p \in Seq(Names) /\ Len(p) \in Nat /\ \A i \in 1..n : p[i] \in Names
    BY DEF PathType
  <2>2. SubSeq(p, 1, n) \in Seq(Names) /\ Len(SubSeq(p, 1, n)) = n
    BY <2>1, SubSeqProperties
  <2>3. SubSeq(p, 1, n) # <<>>
    BY <2>1, <2>2
  <2> QED
    BY <2>2, <2>3 DEF PathType
<1>2. \A p \in PathType : Ancestors(p) \subseteq PathType
  BY <1>1 DEF Ancestors
<1>3. DOMAIN st.files \subseteq PathType
  BY DEF StoreOK, FilesOK
<1>4. (UNION {Ancestors(p) : p \in DOMAIN st.files}) \subseteq PathType
  BY <1>2, <1>3
<1>5. (UNION {Ancestors(d) \cup {d} : d \in vs}) \subseteq PathType
  BY <1>2
<1> QED
  BY <1>4, <1>5 DEF Folders

LEMMA VirtualPaths ==
  ASSUME NEW vs \in SUBSET PathType, NEW old \in PathType, NEW new \in PathType
  PROVE  MoveVirtual(vs, old, new) \subseteq PathType
<1> DEFINE inside == {d \in vs : d = old \/ Under(old, d)}
<1>1. Swap(old, old, new) \in PathType
  <2>1. /\ old \in Seq(Names) /\ new \in Seq(Names) /\ Len(new) \in Nat \ {0}
        /\ Len(old) \in Nat
    BY DEF PathType
  <2>2. SubSeq(old, Len(old) + 1, Len(old)) = <<>>
    BY <2>1, SubSeqEmpty
  <2>3. new \o <<>> = new
    BY <2>1, ConcatEmptySeq
  <2> QED
    BY <2>2, <2>3 DEF Swap
<1>2. \A d \in inside : Swap(d, old, new) \in PathType
  BY <1>1, SwapIs
<1> QED
  BY <1>2 DEF MoveVirtual

\* Where something that is dropped goes.
LEMMA DestinationIs ==
  ASSUME NEW target \in PathType \cup {Root}, NEW p \in PathType
  PROVE  /\ Destination(target, p) \in PathType
         /\ Len(Destination(target, p)) = Len(target) + 1
<1>1. target \in Seq(Names) /\ p \in Seq(Names) /\ Len(p) \in Nat \ {0} /\ Len(target) \in Nat
  <2>1. <<>> \in Seq(Names)
    OBVIOUS
  <2>2. target \in Seq(Names)
    BY <2>1 DEF PathType, Root
  <2> QED
    BY <2>2 DEF PathType
<1>2. Last(p) \in Names
  BY <1>1 DEF Last
<1>3. /\ Append(target, Last(p)) \in Seq(Names)
      /\ Len(Append(target, Last(p))) = Len(target) + 1
  BY <1>1, <1>2
<1>4. Append(target, Last(p)) # <<>>
  BY <1>1, <1>3
<1> QED
  BY <1>3, <1>4 DEF Destination, PathType

-----------------------------------------------------------------------------
(* The invariant. *)

\* A file that is edited or dragged is not Move.toml, though it may be gone: a
\* shared workspace arrives whatever the user is doing.
AskingOK ==
  /\ asking = [kind |-> asking.kind, path |-> asking.path]
  /\ asking.kind \in Kinds /\ asking.path \in Seq(Names)
  /\ asking.kind \in {"rename file", "confirm file", "drag file"} =>
       asking.path \in PathType \ {Toml}
  /\ asking.kind \in {"rename folder", "confirm folder", "drag folder"} =>
       asking.path \in PathType

RestOK ==
  /\ virtual \subseteq PathType
  /\ share \in {"loading", "over"}
  /\ contents \in 2..MaxContents

ExplorerInv == StoreOK(store) /\ AskingOK /\ RestOK

-----------------------------------------------------------------------------
(* Dropping. *)

\* A drop is seen by two handlers, and the second one acts on what the first
\* one left, though it judges by the files of the last rendering.
DropInput(now) ==
  /\ StoreOK(now.store) /\ now.virtual \subseteq PathType
  /\ NothingLost(store.files, now.store.files)
  /\ TomlKept(store.files, now.store.files)
  /\ now = [store |-> now.store, virtual |-> now.virtual]

LEMMA DropFileOK ==
  ASSUME ExplorerInv, asking.kind = "drag file", NEW target \in PathType \cup {Root},
         NEW now, DropInput(now),
         now.store = store \/ asking.path \notin DOMAIN now.store.files
  PROVE  /\ DropInput(DropFile(now, asking.path, target))
         /\ LET st == DropFile(now, asking.path, target).store
            IN st = store \/ asking.path \notin DOMAIN st.files
<1> DEFINE p == asking.path
           new == Destination(target, p)
           then == DropFile(now, p, target)
<1>1. p \in PathType \ {Toml}
  BY DEF ExplorerInv, AskingOK
<1>2. new \in PathType
  BY <1>1, DestinationIs
<1> HIDE DEF p, new
<1>3. CASE Guarded(p) \/ new = p \/ Taken(store, virtual, new)
  <2>1. then = now
    BY <1>3 DEF DropFile, new
  <2> QED
    BY <2>1 DEF then, p
<1>4. CASE ~(Guarded(p) \/ new = p \/ Taken(store, virtual, new))
  <2>1. then = [store |-> RenameFile(now.store, p, new), virtual |-> now.virtual]
    <3>1. then = [now EXCEPT !.store = RenameFile(@, p, new)]
      BY <1>4 DEF DropFile, new
    <3> QED
      BY <3>1 DEF DropInput
  <2> HIDE DEF then
  <2>2. CASE p \notin DOMAIN now.store.files
    <3>1. RenameFile(now.store, p, new) = now.store
      BY <2>2 DEF RenameFile
    <3>2. then = now
      BY <2>1, <3>1 DEF DropInput
    <3> QED
      BY <2>2, <3>2 DEF then, p
  <2>3. CASE p \in DOMAIN now.store.files
    <3>1. now.store = store /\ new \notin DOMAIN store.files
      BY <2>3, <1>4 DEF p, Taken
    <3> DEFINE st == RenameFile(store, p, new)
    <3>2. /\ StoreOK(st) /\ NothingLost(store.files, st.files) /\ TomlKept(store.files, st.files)
          /\ p \notin DOMAIN st.files
      BY <1>1, <1>2, <1>4, <3>1, RenameOK DEF ExplorerInv
    <3> HIDE DEF st
    <3>3. then = [store |-> st, virtual |-> now.virtual]
      BY <2>1, <3>1 DEF st
    <3>4. DropInput(then)
      BY <3>2, <3>3 DEF DropInput
    <3>5. then.store = st
      BY <3>3
    <3>6. DropInput(then) /\ (then.store = store \/ p \notin DOMAIN then.store.files)
      BY <3>2, <3>4, <3>5
    <3> QED
      BY <3>6 DEF then, p
  <2> QED
    BY <2>2, <2>3
<1> QED
  BY <1>3, <1>4

\* Where a folder is put is not inside it: its files get paths elsewhere, unless
\* one is under the new path already, which is then taken.
LEMMA MovedOut ==
  ASSUME NEW st, StoreOK(st), NEW vs, NEW dir \in PathType, NEW new \in PathType,
         new # dir, ~Under(dir, new), ~Taken(st, vs, new),
         NEW p \in Inside(st, dir)
  PROVE  ~Under(dir, Swap(p, dir, new))
<1> DEFINE s == Swap(p, dir, new)
<1>1. p \in PathType /\ Under(dir, p) /\ p \in DOMAIN st.files
  BY DEF Inside, StoreOK, FilesOK
<1>2. /\ s \in PathType /\ Len(s) = Len(new) + (Len(p) - Len(dir))
      /\ \A i \in 1..Len(new) : s[i] = new[i]
  BY <1>1, SwapIs
<1> HIDE DEF s
<1>3. /\ Len(dir) \in Nat \ {0} /\ Len(new) \in Nat \ {0} /\ Len(p) \in Nat
      /\ dir \in Seq(Names) /\ new \in Seq(Names) /\ p \in Seq(Names)
  BY <1>1 DEF PathType
<1>4. /\ Len(dir) < Len(p) /\ \A i \in 1..Len(dir) : p[i] = dir[i]
  BY <1>1, UnderIs
<1> SUFFICES ASSUME Under(dir, s) PROVE FALSE
  BY DEF s
<1>5. \A i \in 1..Len(dir) : s[i] = dir[i]
  BY <1>2, UnderIs
<1>6. CASE Len(dir) < Len(new)
  <2>1. ASSUME NEW i \in 1..Len(dir) PROVE new[i] = dir[i]
    <3>1. i \in 1..Len(new)
      BY <1>3, <1>6
    <3> QED
      BY <3>1, <1>2, <1>5
  <2> QED
    BY <2>1, <1>6, UnderIs
<1>7. CASE Len(dir) = Len(new)
  <2>1. \A i \in 1..Len(dir) : new[i] = dir[i]
    BY <1>2, <1>5, <1>7
  <2>2. new = dir
    BY <2>1, <1>3, <1>7, SeqEqual
  <2> QED
    BY <2>2
<1>8. CASE Len(dir) > Len(new)
  <2> DEFINE n == Len(new)
             a == SubSeq(p, 1, n)
  <2>1. n \in 1..(Len(p) - 1) /\ \A i \in 1..n : i \in 1..Len(dir) /\ i \in 1..Len(p)
    BY <1>3, <1>4, <1>8
  <2>2. \A i \in 1..n : p[i] = new[i] /\ p[i] \in Names
    BY <2>1, <1>2, <1>3, <1>4, <1>5
  <2>3. a \in Seq(Names) /\ Len(a) = n /\ \A i \in 1..n : a[i] = p[i]
    BY <2>1, <2>2, <1>3, SubSeqProperties
  <2>4. a = new
    <3> HIDE DEF a
    <3> QED
      BY <2>2, <2>3, <1>3, SeqEqual
  <2>5. new \in Ancestors(p)
    BY <2>1, <2>4 DEF Ancestors
  <2>6. new \in Folders(st, vs)
    BY <2>5, <1>1 DEF Folders
  <2> QED
    BY <2>6 DEF Taken
<1> QED
  BY <1>3, <1>6, <1>7, <1>8

LEMMA DropFolderOK ==
  ASSUME ExplorerInv, asking.kind = "drag folder", NEW target \in PathType \cup {Root},
         NEW now, DropInput(now),
         now.store = store \/ Inside(now.store, asking.path) = {}
  PROVE  /\ DropInput(DropFolder(now, asking.path, target))
         /\ LET st == DropFolder(now, asking.path, target).store
            IN st = store \/ Inside(st, asking.path) = {}
<1> DEFINE dir == asking.path
           new == Destination(target, dir)
           moving == Inside(store, dir)
           then == DropFolder(now, dir, target)
           refused == \/ target = dir \/ Under(dir, target) \/ ~FolderMoves(dir, new)
                      \/ \E p \in moving : Swap(p, dir, new) \in DOMAIN store.files \ moving
<1>1. dir \in PathType
  BY DEF ExplorerInv, AskingOK
<1>2. new \in PathType
  BY <1>1, DestinationIs
<1>3. then = IF refused THEN now
             ELSE [store   |-> IF moving = {} THEN now.store ELSE MoveFolder(now.store, dir, new),
                   virtual |-> MoveVirtual(now.virtual, dir, new)]
  BY DEF DropFolder
<1> HIDE DEF new, then
<1>4. CASE refused
  BY <1>3, <1>4 DEF then
<1>5. CASE ~refused
  <2>1. /\ new # dir /\ ~Taken(store, virtual, new) /\ ~Under(dir, new)
        /\ \A p \in moving : Swap(p, dir, new) \notin DOMAIN store.files \ moving
    BY <1>5 DEF FolderMoves
  <2> DEFINE st == IF moving = {} THEN now.store ELSE MoveFolder(now.store, dir, new)
             vs == MoveVirtual(now.virtual, dir, new)
  <2>2. then = [store |-> st, virtual |-> vs]
    BY <1>3, <1>5
  <2>3. vs \subseteq PathType
    BY <1>1, <1>2, VirtualPaths DEF DropInput
  <2>4. /\ StoreOK(st) /\ NothingLost(store.files, st.files) /\ TomlKept(store.files, st.files)
        /\ st = store \/ Inside(st, dir) = {}
    <3>1. CASE moving = {}
      BY <3>1 DEF DropInput
    <3>2. CASE moving # {}
      <4> DEFINE gone == Inside(now.store, dir)
                 moved == MoveFolder(now.store, dir, new)
      <4>1. \A p \in gone : Swap(p, dir, new) \notin DOMAIN now.store.files \ gone
        BY <2>1
      <4>2. /\ StoreOK(moved) /\ NothingLost(now.store.files, moved.files)
            /\ TomlKept(now.store.files, moved.files)
            /\ DOMAIN moved.files = (DOMAIN now.store.files \ gone)
                                      \cup {Swap(p, dir, new) : p \in gone}
        BY <1>1, <1>2, <4>1, MoveFolderOK DEF DropInput
      <4>3. \A p \in gone : ~Under(dir, Swap(p, dir, new))
        BY <1>1, <1>2, <2>1, MovedOut DEF ExplorerInv
      <4>4. Inside(moved, dir) = {}
        BY <4>2, <4>3 DEF Inside
      <4>5. st = moved
        BY <3>2
      <4> HIDE DEF moved, st
      <4>6. NothingLost(store.files, moved.files) /\ TomlKept(store.files, moved.files)
        BY <4>2 DEF DropInput, NothingLost, TomlKept
      <4> QED
        BY <4>2, <4>4, <4>5, <4>6
    <3> QED
      BY <3>1, <3>2
  <2> HIDE DEF st, vs
  <2>5. DropInput(then)
    BY <2>2, <2>3, <2>4 DEF DropInput
  <2>6. then.store = st
    BY <2>2
  <2>7. DropInput(then) /\ (then.store = store \/ Inside(then.store, dir) = {})
    BY <2>4, <2>5, <2>6
  <2> QED
    BY <2>7 DEF then
<1> QED
  BY <1>4, <1>5

-----------------------------------------------------------------------------
(* The steps. *)

LEMMA AnswerOK ==
  ASSUME NEW kind, Answer(kind)
  PROVE  AskingOK' /\ share' = share
BY EmptySeq DEF Answer, AskingOK, Idle, Kinds, Null

LEMMA DragOK ==
  ASSUME ExplorerInv, Drag
  PROVE  /\ ExplorerInv'
         /\ NothingLost(store.files, store'.files)
         /\ TomlKept(store.files, store'.files)
<1>1. PICK target \in Folders(store, virtual) \cup {Root} : Drop(target)
  BY DEF Drag
<1>2. target \in PathType \cup {Root}
  BY FolderPaths DEF ExplorerInv, RestOK
<1> DEFINE before == [store |-> store, virtual |-> virtual]
           row    == IF target = Root THEN before ELSE HandleDrop(before, target)
           after  == HandleDrop(row, Root)
<1>3. /\ asking.kind \in {"drag file", "drag folder"} /\ Answer(asking.kind)
      /\ store' = after.store /\ virtual' = after.virtual /\ contents' = contents
  BY <1>1 DEF Drop
<1>4. DropInput(before) /\ before.store = store
  BY DEF DropInput, ExplorerInv, RestOK, NothingLost, TomlKept
<1> HIDE DEF before
<1>5. DropInput(after)
  <2>1. CASE asking.kind = "drag file"
    <3> DEFINE p == asking.path
    <3>1. DropInput(row) /\ (row.store = store \/ p \notin DOMAIN row.store.files)
      BY <2>1, <1>2, <1>4, DropFileOK DEF HandleDrop
    <3> HIDE DEF row
    <3> QED
      BY <2>1, <3>1, DropFileOK DEF HandleDrop
  <2>2. CASE asking.kind = "drag folder"
    <3> DEFINE dir == asking.path
    <3>1. DropInput(row) /\ (row.store = store \/ Inside(row.store, dir) = {})
      BY <2>2, <1>2, <1>4, DropFolderOK DEF HandleDrop
    <3> HIDE DEF row
    <3> QED
      BY <2>2, <3>1, DropFolderOK DEF HandleDrop
  <2> QED
    BY <1>3, <2>1, <2>2
<1> HIDE DEF after
<1>6. StoreOK(store') /\ virtual' \subseteq PathType
  BY <1>3, <1>5 DEF DropInput
<1>7. AskingOK' /\ share' = share
  BY <1>3, AnswerOK
<1>8. ExplorerInv'
  BY <1>3, <1>6, <1>7 DEF ExplorerInv, RestOK
<1> QED
  BY <1>3, <1>5, <1>8 DEF DropInput

LEMMA RenamesOK ==
  ASSUME ExplorerInv, Rename
  PROVE  /\ ExplorerInv'
         /\ NothingLost(store.files, store'.files)
         /\ TomlKept(store.files, store'.files)
<1>1. PICK p \in Paths : CommitRenameFile(p) \/ CommitRenameFolder(p)
  BY DEF Rename
<1>2. p \in PathType
  BY PathsType DEF PathType
<1> DEFINE old == asking.path
<1>3. CASE CommitRenameFile(p)
  <2>1. /\ Answer("rename file") /\ asking.kind = "rename file"
        /\ store' = RenameFile(store, old, p) /\ p \notin DOMAIN store.files
        /\ virtual' = virtual /\ contents' = contents
    BY <1>3 DEF CommitRenameFile, Taken, Answer
  <2>2. old # Toml
    BY <2>1 DEF ExplorerInv, AskingOK
  <2> HIDE DEF old
  <2>3. /\ StoreOK(store') /\ NothingLost(store.files, store'.files)
        /\ TomlKept(store.files, store'.files)
    BY <1>2, <2>1, <2>2, RenameOK DEF ExplorerInv
  <2>4. AskingOK' /\ share' = share
    BY <2>1, AnswerOK
  <2> QED
    BY <2>1, <2>3, <2>4 DEF ExplorerInv, RestOK
<1>4. CASE CommitRenameFolder(p)
  <2>1. /\ Answer("rename folder") /\ asking.kind = "rename folder"
        /\ store' = MoveFolder(store, old, p)
        /\ virtual' = MoveVirtual(virtual, old, p)
        /\ \A q \in Inside(store, old) : Swap(q, old, p) \notin DOMAIN store.files
        /\ contents' = contents
    BY <1>4 DEF CommitRenameFolder, Answer
  <2>2. old \in PathType
    BY <2>1 DEF ExplorerInv, AskingOK
  <2> HIDE DEF old
  <2>3. /\ StoreOK(store') /\ NothingLost(store.files, store'.files)
        /\ TomlKept(store.files, store'.files)
    BY <1>2, <2>1, <2>2, MoveFolderOK DEF ExplorerInv
  <2>4. virtual' \subseteq PathType
    BY <1>2, <2>1, <2>2, VirtualPaths DEF ExplorerInv, RestOK
  <2>5. AskingOK' /\ share' = share
    BY <2>1, AnswerOK
  <2> QED
    BY <2>1, <2>3, <2>4, <2>5 DEF ExplorerInv, RestOK
<1> QED
  BY <1>1, <1>3, <1>4

LEMMA CreatesOK ==
  ASSUME ExplorerInv, Create
  PROVE  ExplorerInv' /\ TomlKept(store.files, store'.files)
<1>1. PICK p \in Paths : CommitCreateFile(p) \/ CommitCreateFolder(p)
  BY DEF Create
<1>2. p \in PathType
  BY PathsType DEF PathType
<1>3. CASE CommitCreateFile(p)
  <2>1. /\ Answer("create file") /\ p \notin DOMAIN store.files
        /\ contents < MaxContents /\ contents' = contents + 1
        /\ store' = CreateFile(store, p, contents + 1) /\ virtual' = virtual
    BY <1>3 DEF CommitCreateFile, Taken
  <2>2. contents + 1 \in 1..MaxContents /\ contents' \in 2..MaxContents
    <3>1. contents \in 2..MaxContents /\ MaxContents \in Nat
      BY BoundsType DEF ExplorerInv, RestOK
    <3>2. contents < MaxContents /\ contents' = contents + 1
      BY <2>1
    <3>3. contents + 1 \in 2..MaxContents /\ contents + 1 \in 1..MaxContents
      BY <3>1, <3>2
    <3> QED
      BY <3>2, <3>3
  <2>3. StoreOK(store') /\ TomlKept(store.files, store'.files)
    BY <1>2, <2>1, <2>2, CreateOK DEF ExplorerInv
  <2>4. AskingOK' /\ share' = share
    BY <2>1, AnswerOK
  <2> QED
    BY <2>1, <2>2, <2>3, <2>4 DEF ExplorerInv, RestOK
<1>4. CASE CommitCreateFolder(p)
  <2>1. /\ Answer("create folder") /\ virtual' = virtual \cup {p}
        /\ store' = store /\ contents' = contents
    BY <1>4 DEF CommitCreateFolder
  <2>2. AskingOK' /\ share' = share
    BY <2>1, AnswerOK
  <2> QED
    BY <1>2, <2>1, <2>2 DEF ExplorerInv, RestOK, TomlKept
<1> QED
  BY <1>1, <1>3, <1>4

LEMMA DeletionsOK ==
  ASSUME ExplorerInv, ConfirmDeleteFile \/ ConfirmDeleteFolder
  PROVE  ExplorerInv' /\ TomlKept(store.files, store'.files)
<1> DEFINE p == asking.path
<1>1. CASE ConfirmDeleteFile
  <2>1. /\ Answer("confirm file") /\ asking.kind = "confirm file"
        /\ store' = DeleteFile(store, p) /\ virtual' = virtual /\ contents' = contents
    BY <1>1 DEF ConfirmDeleteFile, Answer
  <2>2. p \in PathType /\ p # Toml
    BY <2>1 DEF ExplorerInv, AskingOK
  <2> HIDE DEF p
  <2>3. StoreOK(store') /\ TomlKept(store.files, store'.files)
    BY <2>1, <2>2, DeleteOK DEF ExplorerInv
  <2>4. AskingOK' /\ share' = share
    BY <2>1, AnswerOK
  <2> QED
    BY <2>1, <2>3, <2>4 DEF ExplorerInv, RestOK
<1>2. CASE ConfirmDeleteFolder
  <2>1. /\ Answer("confirm folder") /\ asking.kind = "confirm folder"
        /\ store' = DeleteFolder(store, p) /\ virtual' \subseteq virtual
        /\ contents' = contents
    BY <1>2 DEF ConfirmDeleteFolder, Answer
  <2>2. p \in PathType
    BY <2>1 DEF ExplorerInv, AskingOK
  <2> HIDE DEF p
  <2>3. StoreOK(store') /\ TomlKept(store.files, store'.files)
    BY <2>1, <2>2, DeleteFolderOK DEF ExplorerInv
  <2>4. AskingOK' /\ share' = share
    BY <2>1, AnswerOK
  <2> QED
    BY <2>1, <2>3, <2>4 DEF ExplorerInv, RestOK
<1> QED
  BY <1>1, <1>2

\* Asking, and the tabs.
LEMMA AsksOK ==
  ASSUME ExplorerInv, AskNew \/ AskFile \/ AskFolder \/ GiveUp
  PROVE  ExplorerInv' /\ store' = store
<1>1. CASE AskNew
  <2>1. PICK kind \in {"create file", "create folder"} : Ask(kind, Null)
    BY <1>1 DEF AskNew
  <2>2. Null \in Seq(Names)
    BY EmptySeq, Zenon DEF Null
  <2> QED
    BY <2>1, <2>2 DEF Ask, ExplorerInv, AskingOK, RestOK, Kinds
<1>2. CASE AskFile
  <2>1. PICK p \in DOMAIN store.files, kind \in {"rename file", "confirm file", "drag file"} :
          ~Guarded(p) /\ Ask(kind, p)
    BY <1>2 DEF AskFile
  <2>2. p \in PathType /\ p # Toml
    BY <2>1 DEF ExplorerInv, StoreOK, FilesOK, Guarded
  <2>3. p \in Seq(Names)
    BY <2>2 DEF PathType
  <2> QED
    BY <2>1, <2>2, <2>3 DEF Ask, ExplorerInv, AskingOK, RestOK, Kinds
<1>3. CASE AskFolder
  <2>1. PICK d \in Folders(store, virtual),
             kind \in {"rename folder", "confirm folder", "drag folder"} : Ask(kind, d)
    BY <1>3 DEF AskFolder
  <2>2. d \in PathType
    BY FolderPaths DEF ExplorerInv, RestOK
  <2>3. d \in Seq(Names)
    BY <2>2 DEF PathType
  <2> QED
    BY <2>1, <2>2, <2>3 DEF Ask, ExplorerInv, AskingOK, RestOK, Kinds
<1>4. CASE GiveUp
  BY <1>4, EmptySeq DEF GiveUp, Idle, ExplorerInv, AskingOK, RestOK, Kinds, Null
<1> QED
  BY <1>1, <1>2, <1>3, <1>4

LEMMA TabsClicked ==
  ASSUME ExplorerInv, ClickFile \/ ClickTab \/ ClickClose \/ DragTab
  PROVE  ExplorerInv' /\ TomlKept(store.files, store'.files)
<1>1. StoreOK(store)
  BY DEF ExplorerInv
<1>2. ASSUME NEW st, StoreOK(st), st.files = store.files, Click(st)
      PROVE  ExplorerInv' /\ TomlKept(store.files, store'.files)
  BY <1>2 DEF Click, ExplorerInv, AskingOK, RestOK, TomlKept
<1>3. CASE ClickFile
  BY <1>1, <1>2, <1>3, OpenTabOK DEF ClickFile
<1>4. CASE ClickTab
  BY <1>1, <1>2, <1>4, ActivateOK DEF ClickTab
<1>5. CASE ClickClose
  BY <1>1, <1>2, <1>5, CloseTabOK DEF ClickClose
<1>6. CASE DragTab
  BY <1>1, <1>2, <1>6, MoveTabOK DEF DragTab
<1> QED
  BY <1>3, <1>4, <1>5, <1>6

LEMMA TypeIs ==
  ASSUME ExplorerInv, Type
  PROVE  ExplorerInv' /\ (Toml \in DOMAIN store.files => Toml \in DOMAIN store'.files)
<1> DEFINE f == [store.files EXCEPT ![store.active] = contents + 1]
<1>1. store = [files |-> store.files, tabs |-> store.tabs, active |-> store.active]
  BY DEF ExplorerInv, StoreOK
<1>2. store' = [files |-> f, tabs |-> store.tabs, active |-> store.active]
  <2>1. store' = [store EXCEPT !.files = f]
    BY DEF Type
  <2> HIDE DEF f
  <2> QED
    BY <1>1, <2>1
<1>3. contents \in 2..MaxContents /\ MaxContents \in Nat
  BY BoundsType DEF ExplorerInv, RestOK
<1>4. contents' = contents + 1 /\ contents + 1 \in 1..MaxContents /\ contents + 1 \in 2..MaxContents
  <2>1. contents < MaxContents /\ contents' = contents + 1
    BY DEF Type
  <2> QED
    BY <1>3, <2>1
<1>5. DOMAIN f = DOMAIN store.files /\ f \in [DOMAIN store.files -> 1..MaxContents]
  BY <1>4 DEF ExplorerInv, StoreOK, FilesOK
<1> HIDE DEF f
<1>6. StoreOK(store')
  BY <1>2, <1>5 DEF ExplorerInv, StoreOK, FilesOK, TabsOK
<1>7. AskingOK' /\ RestOK'
  BY <1>4 DEF Type, ExplorerInv, AskingOK, RestOK
<1> QED
  BY <1>2, <1>5, <1>6, <1>7 DEF ExplorerInv

LEMMA SharesOK ==
  ASSUME ExplorerInv, LoadShare \/ LoadShareFails
  PROVE  ExplorerInv' /\ (~LoadShare => store' = store)
<1>1. CASE LoadShare
  <2>1. PICK w \in Shares : /\ contents + Len(w) <= MaxContents
                            /\ contents' = contents + Len(w)
                            /\ store' = LoadWorkspace(w, contents)
    BY <1>1 DEF LoadShare
  <2>2. contents \in 2..MaxContents /\ MaxContents \in Nat /\ Len(w) \in Nat
    BY BoundsType, SharesType DEF ExplorerInv, RestOK
  <2>3. contents \in Nat /\ contents + Len(w) \in 2..MaxContents
    BY <2>1, <2>2
  <2>4. StoreOK(store')
    BY <2>1, <2>3, LoadOK
  <2>5. share' = "over" /\ virtual' = virtual /\ asking' = asking
    BY <1>1 DEF LoadShare
  <2>6. contents' \in 2..MaxContents
    BY <2>1, <2>3
  <2> QED
    BY <1>1, <2>4, <2>5, <2>6 DEF ExplorerInv, AskingOK, RestOK
<1>2. CASE LoadShareFails
  BY <1>2 DEF LoadShareFails, ExplorerInv, AskingOK, RestOK
<1> QED
  BY <1>1, <1>2

LEMMA InitInv == Init => ExplorerInv
<1> SUFFICES ASSUME Init PROVE ExplorerInv
  OBVIOUS
<1>1. Main \in PathType /\ Toml \in PathType /\ Main # Toml
  <2>1. Len(Main) > 1 /\ Main \in Seq(Names) /\ Len(Toml) = 1 /\ Toml \in Seq(Names)
    BY MainType, NamesType DEF Toml
  <2>2. Toml # <<>> /\ Main # Toml
    BY <2>1 DEF Toml
  <2> QED
    BY <2>1, <2>2 DEF PathType
<1>2. MaxContents \in Nat /\ 1 \in 1..MaxContents /\ 2 \in 1..MaxContents /\ 2 \in 2..MaxContents
  BY BoundsType
<1>3. /\ store = [files |-> store.files, tabs |-> store.tabs, active |-> store.active]
      /\ store.files = [p \in {Toml, Main} |-> IF p = Toml THEN 1 ELSE 2]
      /\ store.tabs = <<Main, Toml>> /\ store.active = Main
  BY DEF Init
<1>4. FilesOK(store.files)
  <2>1. IsFiniteSet({Toml, Main})
    <3>1. IsFiniteSet({Toml}) /\ {Toml} \cup {Main} = {Toml, Main}
      BY FS_Singleton
    <3> QED
      BY <3>1, FS_AddElement
  <2> QED
    BY <1>1, <1>2, <1>3, <2>1 DEF FilesOK
<1>5. /\ store.tabs \in Seq(PathType) /\ ToSet(store.tabs) = {Toml, Main}
      /\ IsInjective(store.tabs) /\ store.tabs # <<>>
  <2>1. store.tabs \in Seq(PathType) /\ store.tabs # <<>>
    BY <1>1, <1>3
  <2>2. DOMAIN store.tabs = {1, 2} /\ store.tabs[1] = Main /\ store.tabs[2] = Toml
    BY <1>3
  <2> QED
    BY <1>1, <2>1, <2>2 DEF ToSet, IsInjective
<1>6. StoreOK(store)
  BY <1>3, <1>4, <1>5 DEF StoreOK, TabsOK
<1>7. AskingOK /\ RestOK
  BY <1>2, EmptySeq DEF Init, Idle, Null, AskingOK, RestOK, Kinds
<1> QED
  BY <1>6, <1>7 DEF ExplorerInv

LEMMA StepInv == ExplorerInv /\ [Next]_vars => ExplorerInv'
<1> SUFFICES ASSUME ExplorerInv, [Next]_vars PROVE ExplorerInv'
  OBVIOUS
<1>1. CASE UNCHANGED vars
  BY <1>1 DEF vars, ExplorerInv, AskingOK, RestOK
<1>2. CASE AskNew \/ AskFile \/ AskFolder \/ GiveUp
  BY <1>2, AsksOK
<1>3. CASE Create
  BY <1>3, CreatesOK
<1>4. CASE Rename
  BY <1>4, RenamesOK
<1>5. CASE Drag
  BY <1>5, DragOK
<1>6. CASE ConfirmDeleteFile \/ ConfirmDeleteFolder
  BY <1>6, DeletionsOK
<1>7. CASE ClickFile \/ ClickTab \/ ClickClose \/ DragTab
  BY <1>7, TabsClicked
<1>8. CASE Type
  BY <1>8, TypeIs
<1>9. CASE LoadShare \/ LoadShareFails
  BY <1>9, SharesOK
<1> QED
  BY <1>1, <1>2, <1>3, <1>4, <1>5, <1>6, <1>7, <1>8, <1>9 DEF Next

LEMMA Invariance == Spec => []ExplorerInv
<1>1. Init => ExplorerInv
  BY InitInv
<1>2. ExplorerInv /\ [Next]_vars => ExplorerInv'
  BY StepInv
<1> QED
  BY <1>1, <1>2, PTL DEF Spec

-----------------------------------------------------------------------------
(* The theorems. *)

\* The files have contents and paths as they should, and so have the tabs, the
\* virtual folders and what the user is asked.
THEOREM TypeCorrect == Spec => []TypeOK
<1>1. ExplorerInv => TypeOK
  BY DEF ExplorerInv, StoreOK, FilesOK, AskingOK, RestOK, TypeOK, TabsOK, PathType, Null
<1> QED
  BY <1>1, Invariance, PTL

\* The tabs of the editor are those of files that are there, each once, and one
\* of them is active unless there is none: through renaming, dragging and
\* deleting files and folders, and a shared workspace that arrives meanwhile.
THEOREM TabsStaySound == Spec => []TabsSound
<1>1. ExplorerInv => TabsSound
  BY DEF ExplorerInv, StoreOK, TabsOK, TabsSound
<1> QED
  BY <1>1, Invariance, PTL

\* No renaming and no drag, of a file or of a folder with all that is in it,
\* loses or overwrites a file, although a drop is handled twice.
THEOREM NothingIsLost == Spec => MovesLoseNothing
<1>1. ExplorerInv /\ [Next]_vars =>
        [Rename \/ Drag =>
           /\ Cardinality(DOMAIN store'.files) = Cardinality(DOMAIN store.files)
           /\ Range(store'.files) = Range(store.files)]_vars
  BY RenamesOK, DragOK DEF NothingLost
<1> QED
  BY <1>1, Invariance, PTL DEF Spec, MovesLoseNothing

\* Move.toml keeps its content through everything the explorer offers: only
\* typing in it, or a shared workspace, replaces it.
THEOREM MoveTomlStays == Spec => MoveTomlKept
<1>1. ExplorerInv /\ [Next]_vars =>
        [(Toml \in DOMAIN store.files /\ ~LoadShare) =>
           /\ Toml \in DOMAIN store'.files
           /\ store'.files[Toml] = store.files[Toml] \/ Type]_vars
  <2> SUFFICES ASSUME ExplorerInv, Next, Toml \in DOMAIN store.files, ~LoadShare
               PROVE  /\ Toml \in DOMAIN store'.files
                      /\ store'.files[Toml] = store.files[Toml] \/ Type
    OBVIOUS
  <2>1. CASE Type
    BY <2>1, TypeIs
  <2>2. CASE AskNew \/ AskFile \/ AskFolder \/ GiveUp
    BY <2>2, AsksOK
  <2>3. CASE LoadShareFails
    BY <2>3, SharesOK
  <2>4. CASE Create \/ Rename \/ Drag \/ ConfirmDeleteFile \/ ConfirmDeleteFolder
    BY <2>4, CreatesOK, RenamesOK, DragOK, DeletionsOK DEF TomlKept
  <2>5. CASE ClickFile \/ ClickTab \/ ClickClose \/ DragTab
    BY <2>5, TabsClicked DEF TomlKept
  <2> QED
    BY <2>1, <2>2, <2>3, <2>4, <2>5 DEF Next
<1> QED
  BY <1>1, Invariance, PTL DEF Spec, MoveTomlKept
=============================================================================
