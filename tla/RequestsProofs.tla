--------------------------- MODULE RequestsProofs ---------------------------
(***************************************************************************)
(* Proofs about what is typed, sent and answered, for any texts, limits    *)
(* and outputs: that no request is refused for a path the explorer made,   *)
(* that its files are written to places of their own, and that the errors  *)
(* of a command are all found.                                             *)
(***************************************************************************)
EXTENDS Diagnostics, SequenceTheorems, FiniteSetTheorems, WellFoundedInduction, TLAPS

-----------------------------------------------------------------------------
(* Numbers. *)

LEMMA LeastNumber ==
  ASSUME NEW T \in SUBSET Nat, T # {}
  PROVE  \E m \in T : \A n \in T : m <= n
<1> DEFINE R == OpToRel(<, Nat)
<1>1. IsWellFoundedOn(R, Nat)
  BY NatLessThanWellFounded
<1>2. PICK m \in T : \A n \in T : <<n, m>> \notin R
  <2> HIDE DEF R
  <2> QED
    BY <1>1, WFMin
<1>3. \A n \in T : ~(n < m)
  BY <1>2 DEF OpToRel
<1> QED
  BY <1>3

LEMMA Induction ==
  ASSUME NEW S, 0 \in S, \A n \in Nat : n \in S => n + 1 \in S
  PROVE  Nat \subseteq S
<1> SUFFICES ASSUME Nat \ S # {} PROVE FALSE
  OBVIOUS
<1>1. PICK m \in Nat \ S : \A n \in Nat \ S : m <= n
  BY LeastNumber
<1>2. m # 0 /\ m - 1 \in Nat /\ ~(m <= m - 1)
  OBVIOUS
<1>3. m - 1 \in S
  BY <1>1, <1>2
<1> QED
  BY <1>2, <1>3

LEMMA MinIs ==
  ASSUME NEW s \in SUBSET Nat, s # {}
  PROVE  Min(s) \in s /\ \A y \in s : Min(s) <= y
<1>1. \E x \in s : \A y \in s : x <= y
  BY LeastNumber
<1> QED
  BY <1>1 DEF Min

LEMMA MaxIs ==
  ASSUME NEW n \in Nat, NEW s \in SUBSET (1..n), s # {}
  PROVE  Max(s) \in s /\ \A y \in s : Max(s) >= y
<1> DEFINE above == {n - x : x \in s}
<1>1. above \subseteq Nat /\ above # {}
  <2>1. \A x \in s : x \in 1..n /\ n - x \in Nat
    OBVIOUS
  <2> QED
    BY <2>1
<1>2. PICK m \in above : \A k \in above : m <= k
  BY <1>1, LeastNumber
<1>3. PICK x \in s : m = n - x
  OBVIOUS
<1>4. ASSUME NEW y \in s PROVE x >= y
  <2>1. n - y \in above
    OBVIOUS
  <2>2. n - x <= n - y
    BY <1>2, <1>3, <2>1
  <2>3. x \in 1..n /\ y \in 1..n
    OBVIOUS
  <2> QED
    BY <2>2, <2>3
<1> QED
  BY <1>4 DEF Max

LEMMA MaxUpTo ==
  ASSUME NEW k \in Nat \ {0}
  PROVE  Max(1..k) = k /\ (1..k) \ {k} = 1..(k - 1)
<1>1. 1..k \in SUBSET (1..k) /\ k \in 1..k
  OBVIOUS
<1>2. Max(1..k) \in 1..k /\ \A y \in 1..k : Max(1..k) >= y
  BY <1>1, MaxIs
<1>3. Max(1..k) >= k
  BY <1>1, <1>2
<1> HIDE DEF Max
<1>4. Max(1..k) = k
  BY <1>2, <1>3
<1>5. (1..k) \ {k} = 1..(k - 1)
  OBVIOUS
<1> QED
  BY <1>4, <1>5

-----------------------------------------------------------------------------
(* Folds. *)

\* The function by which a fold goes through the places 1..n exists, if its
\* operation keeps to a set A: the values for sets of places up to k extend to
\* those up to k + 1.
Folding(f, A, base, n, Op) ==
  /\ f \in [SUBSET (1..n) -> A]
  /\ \A s \in SUBSET (1..n) : f[s] = IF s = {} THEN base ELSE Op[f[s \ {Max(s)}], Max(s)]

LEMMA FoldExists ==
  ASSUME NEW A, NEW base \in A, NEW n \in Nat, NEW Op \in [A \X (1..n) -> A]
  PROVE  \E f : Folding(f, A, base, n, Op)
<1> DEFINE Body(f, s) == IF s = {} THEN base ELSE Op[f[s \ {Max(s)}], Max(s)]
           Has(k) == \E f \in [SUBSET (1..k) -> A] : \A s \in SUBSET (1..k) : f[s] = Body(f, s)
           S == {k \in Nat : k <= n => Has(k)}
<1>1. 0 \in S
  <2>1. [s \in SUBSET (1..0) |-> base] \in [SUBSET (1..0) -> A]
    OBVIOUS
  <2>2. \A s \in SUBSET (1..0) : s = {}
    OBVIOUS
  <2> QED
    BY <2>1, <2>2
<1>2. ASSUME NEW k \in Nat, k \in S PROVE k + 1 \in S
  <2> SUFFICES ASSUME k + 1 <= n PROVE Has(k + 1)
    <3> HIDE DEF Has
    <3> QED
      OBVIOUS
  <2>0. Has(k)
    <3> HIDE DEF Has
    <3> QED
      BY <1>2
  <2>1. PICK f \in [SUBSET (1..k) -> A] : \A s \in SUBSET (1..k) : f[s] = Body(f, s)
    <3> HIDE DEF Body
    <3> QED
      BY <2>0
  <2> DEFINE g == [s \in SUBSET (1..(k + 1)) |->
                     IF k + 1 \in s THEN Op[f[s \ {k + 1}], k + 1] ELSE f[s]]
  <2>2. \A s \in SUBSET (1..(k + 1)) : s \ {k + 1} \in SUBSET (1..k)
    OBVIOUS
  <2>3. \A s \in SUBSET (1..(k + 1)) : k + 1 \notin s => s \in SUBSET (1..k)
    OBVIOUS
  <2>4. g \in [SUBSET (1..(k + 1)) -> A]
    <3>1. ASSUME NEW s \in SUBSET (1..(k + 1))
          PROVE  (IF k + 1 \in s THEN Op[f[s \ {k + 1}], k + 1] ELSE f[s]) \in A
      <4>1. f[s \ {k + 1}] \in A
        BY <2>2
      <4>2. k + 1 \in 1..n
        OBVIOUS
      <4>3. k + 1 \notin s => f[s] \in A
        BY <2>3
      <4> QED
        BY <4>1, <4>2, <4>3
    <3> QED
      BY <3>1
  <2>5. ASSUME NEW s \in SUBSET (1..k) PROVE s \in SUBSET (1..(k + 1)) /\ g[s] = f[s]
    <3>1. s \in SUBSET (1..(k + 1)) /\ k + 1 \notin s
      OBVIOUS
    <3> QED
      BY <3>1
  <2>6. ASSUME NEW s \in SUBSET (1..(k + 1)) PROVE g[s] = Body(g, s)
    <3>1. CASE k + 1 \in s
      <4>1. Max(s) = k + 1
        <5>1. s # {} /\ k + 1 \in Nat
          BY <3>1
        <5> HIDE DEF g
        <5>2. Max(s) \in s /\ \A y \in s : Max(s) >= y
          BY <5>1, MaxIs
        <5>3. Max(s) >= k + 1 /\ Max(s) \in 1..(k + 1)
          BY <3>1, <5>2
        <5> HIDE DEF Max
        <5> QED
          BY <5>3
      <4>2. g[s \ {k + 1}] = f[s \ {k + 1}]
        BY <2>2, <2>5
      <4>3. Body(g, s) = Op[g[s \ {k + 1}], k + 1]
        BY <3>1, <4>1
      <4>4. g[s] = Op[f[s \ {k + 1}], k + 1]
        BY <3>1
      <4> QED
        BY <4>2, <4>3, <4>4
    <3>2. CASE k + 1 \notin s
      <4>1. s \in SUBSET (1..k) /\ s \ {Max(s)} \in SUBSET (1..k)
        BY <2>3, <3>2
      <4>2. g[s] = f[s] /\ g[s \ {Max(s)}] = f[s \ {Max(s)}]
        BY <2>5, <4>1
      <4> HIDE DEF g
      <4>3. Body(g, s) = Body(f, s)
        BY <4>2
      <4> HIDE DEF Body
      <4> QED
        BY <2>1, <4>1, <4>2, <4>3
    <3> QED
      BY <3>1, <3>2
  <2> HIDE DEF g, Body
  <2> QED
    BY <2>4, <2>6
<1>3. Has(n)
  <2>1. Nat \subseteq S
    <3> HIDE DEF S
    <3> QED
      BY <1>1, <1>2, Induction
  <2> HIDE DEF Has
  <2> QED
    BY <2>1
<1> QED
  BY <1>3 DEF Folding

\* A function that goes through the places by such an operation takes one place
\* after the other.
Running(g, A, base, n, Op) ==
  /\ g \in [0..n -> A] /\ g[0] = base
  /\ \A k \in 1..n : g[k] = Op[g[k - 1], k]

Ran(f, A, base, n, Op) == \E g : Running(g, A, base, n, Op) /\ g[n] = f[1..n]

Following(f, A, base, n, Op) ==
  /\ f[{}] = base
  /\ \A s \in SUBSET (1..n) :
       s # {} /\ f[s \ {Max(s)}] \in A => f[s] = Op[f[s \ {Max(s)}], Max(s)]

LEMMA FoldRuns ==
  ASSUME NEW A, NEW base \in A, NEW n \in Nat, NEW Op \in [A \X (1..n) -> A],
         NEW f, Following(f, A, base, n, Op)
  PROVE  Ran(f, A, base, n, Op)
<1> DEFINE g == [k \in 0..n |-> f[1..k]]
           S == {k \in Nat : k <= n => f[1..k] \in A}
<1>1. 1..0 = {}
  OBVIOUS
<1>2. ASSUME NEW k \in 1..n, f[1..(k - 1)] \in A PROVE f[1..k] = Op[f[1..(k - 1)], k]
  <2>1. Max(1..k) = k /\ (1..k) \ {k} = 1..(k - 1)
    BY MaxUpTo
  <2>2. 1..k \in SUBSET (1..n) /\ 1..k # {}
    OBVIOUS
  <2> HIDE DEF Max
  <2> QED
    BY <1>2, <2>1, <2>2 DEF Following
<1>3. 0 \in S
  BY <1>1 DEF Following
<1>4. ASSUME NEW k \in Nat, k \in S PROVE k + 1 \in S
  <2> SUFFICES ASSUME k + 1 \in 1..n PROVE f[1..(k + 1)] \in A
    OBVIOUS
  <2>1. (k + 1) - 1 = k /\ f[1..k] \in A
    BY <1>4
  <2>2. f[1..(k + 1)] = Op[f[1..k], k + 1]
    BY <1>2, <2>1
  <2> QED
    BY <2>1, <2>2
<1>5. Nat \subseteq S
  <2> HIDE DEF S
  <2> QED
    BY <1>3, <1>4, Induction
<1>6. \A k \in 0..n : f[1..k] \in A
  BY <1>5
<1>7. g \in [0..n -> A] /\ g[0] = base /\ g[n] = f[1..n]
  <2>1. f[1..0] = base
    BY <1>1 DEF Following
  <2> QED
    BY <1>6, <2>1
<1>8. ASSUME NEW k \in 1..n PROVE g[k] = Op[g[k - 1], k]
  <2>1. k - 1 \in 0..n /\ k \in 0..n
    OBVIOUS
  <2> QED
    BY <1>2, <1>6, <2>1
<1> HIDE DEF g
<1> QED
  BY <1>7, <1>8 DEF Running, Ran

-----------------------------------------------------------------------------
(* The places of the files. *)

\* The strings.  The provers do not know that a literal is one, so those that
\* are of interest are named.
Pieces == STRING \cup {Slash, ".", "move", "toml", "Move", "sources", "main"}
Names  == Seq(Pieces)
Lists  == {names \in Seq(Names) : names # <<>>}

\* The two operations of Place.
Split(names, c) == IF c = Slash THEN Append(names, <<>>)
                   ELSE [names EXCEPT ![Len(names)] = Append(@, c)]
Enter(dir, name) == IF name \in {<<>>, <<".">>} THEN dir ELSE Append(dir, name)

Longer(new, names, c) ==
  /\ Len(new) = Len(names)
  /\ Last(new) = Append(Last(names), c)
  /\ \A i \in 1..(Len(names) - 1) : new[i] = names[i]

LEMMA SplitPiece ==
  ASSUME NEW names \in Lists, NEW c \in Pieces, c # Slash
  PROVE  Split(names, c) \in Lists /\ Longer(Split(names, c), names, c)
<1> DEFINE new == Append(names[Len(names)], c)
<1>1. names \in Seq(Names) /\ Len(names) \in Nat \ {0} /\ Len(names) \in 1..Len(names)
  BY DEF Lists
<1>2. names[Len(names)] \in Names /\ new \in Names
  BY <1>1, AppendProperties DEF Names
<1>3. Split(names, c) = [names EXCEPT ![Len(names)] = new]
  BY DEF Split
<1> HIDE DEF new
<1>4. /\ Split(names, c) \in Seq(Names) /\ Len(Split(names, c)) = Len(names)
      /\ Split(names, c)[Len(names)] = new
      /\ \A i \in 1..(Len(names) - 1) : Split(names, c)[i] = names[i]
  BY <1>1, <1>2, <1>3, ExceptSeq
<1>5. Split(names, c) # <<>>
  BY <1>1, <1>4
<1> QED
  BY <1>1, <1>4, <1>5 DEF Lists, Last, Longer, new

LEMMA SplitLists ==
  ASSUME NEW names \in Lists, NEW c \in Pieces
  PROVE  Split(names, c) \in Lists
<1>1. CASE c = Slash
  <2>1. <<>> \in Names /\ names \in Seq(Names)
    BY DEF Names, Lists
  <2> QED
    BY <1>1, <2>1, AppendProperties DEF Split, Lists
<1> QED
  BY <1>1, SplitPiece

LEMMA LastOfAppend ==
  ASSUME NEW A, NEW s \in Seq(A), NEW x \in A
  PROVE  Last(Append(s, x)) = x /\ Append(s, x) # <<>>
<1>1. Len(s) \in Nat /\ Len(Append(s, x)) = Len(s) + 1 /\ Append(s, x)[Len(s) + 1] = x
  BY AppendProperties
<1> QED
  BY <1>1 DEF Last

LEMMA LastOfSplit ==
  ASSUME NEW names \in Lists, NEW c \in Pieces
  PROVE  /\ Split(names, c) # <<<<>>>>
         /\ Last(Split(names, c)) = <<>> <=> c = Slash
<1>1. names \in Seq(Names) /\ Len(names) \in Nat \ {0} /\ Last(names) \in Names
  BY DEF Lists, Last
<1>2. <<>> \in Names
  BY DEF Names
<1>3. CASE c = Slash
  <2>1. Len(Append(names, <<>>)) = Len(names) + 1
    BY <1>1, <1>2, AppendProperties
  <2>2. Split(names, c) = Append(names, <<>>) /\ Last(Split(names, c)) = <<>>
    BY <1>1, <1>2, <1>3, LastOfAppend DEF Split
  <2>3. Len(<<<<>>>>) = 1
    OBVIOUS
  <2> QED
    BY <1>1, <1>3, <2>1, <2>2, <2>3
<1>4. CASE c # Slash
  <2>1. Last(Split(names, c)) = Append(Last(names), c)
    BY <1>4, SplitPiece DEF Longer
  <2>2. Append(Last(names), c) # <<>>
    BY <1>1, LastOfAppend DEF Names
  <2>3. Last(<<<<>>>>) = <<>>
    BY DEF Last
  <2> QED
    BY <1>4, <2>1, <2>2, <2>3
<1> QED
  BY <1>3, <1>4

LEMMA SplitRuns ==
  ASSUME NEW t \in Names
  PROVE  \E g \in [0..Len(t) -> Lists] :
           /\ g[0] = <<<<>>>>
           /\ \A k \in 1..Len(t) : g[k] = Split(g[k - 1], t[k])
           /\ FoldLeft(Split, <<<<>>>>, t) = g[Len(t)]
<1> DEFINE n == Len(t)
           Op == [p \in Lists \X (1..n) |-> Split(p[1], t[p[2]])]
<1>1. n \in Nat /\ DOMAIN t = 1..n /\ \A i \in 1..n : t[i] \in Pieces
  BY DEF Names
<1>2. <<<<>>>> \in Lists
  BY DEF Lists, Names
<1>3. Op \in [Lists \X (1..n) -> Lists]
  BY <1>1, SplitLists
<1>4. PICK f : Folding(f, Lists, <<<<>>>>, n, Op)
  <2> HIDE DEF Op, n
  <2> QED
    BY <1>1, <1>2, <1>3, FoldExists
<1> DEFINE Body(h, s) == IF s = {} THEN <<<<>>>> ELSE Split(h[s \ {Max(s)}], t[Max(s)])
<1>5. f = [s \in SUBSET (1..n) |-> Body(f, s)]
  <2>1. ASSUME NEW s \in SUBSET (1..n) PROVE f[s] = Body(f, s)
    <3>1. s # {} => Max(s) \in 1..n
      BY <1>1, MaxIs
    <3>2. f[s \ {Max(s)}] \in Lists
      BY <1>4 DEF Folding
    <3> QED
      BY <1>4, <3>1, <3>2 DEF Folding
  <2> HIDE DEF Body
  <2> QED
    BY <1>4, <2>1 DEF Folding
<1> DEFINE iter == CHOOSE h : h = [s \in SUBSET (1..n) |-> Body(h, s)]
<1>6. iter = [s \in SUBSET (1..n) |-> Body(iter, s)]
  <2> HIDE DEF Body
  <2> QED
    BY <1>5
<1>7. FoldLeft(Split, <<<<>>>>, t) = iter[1..n]
  BY <1>1 DEF FoldLeft, MapThenFoldSet
<1> HIDE DEF iter
<1>8. Ran(iter, Lists, <<<<>>>>, n, Op)
  <2>1. iter[{}] = <<<<>>>>
    BY <1>6
  <2>2. ASSUME NEW s \in SUBSET (1..n), s # {}, iter[s \ {Max(s)}] \in Lists
        PROVE  iter[s] = Op[iter[s \ {Max(s)}], Max(s)]
    <3>1. Max(s) \in 1..n
      BY <1>1, <2>2, MaxIs
    <3> QED
      BY <1>6, <2>2, <3>1
  <2>3. Following(iter, Lists, <<<<>>>>, n, Op)
    BY <2>1, <2>2 DEF Following
  <2> HIDE DEF n, Op
  <2> QED
    BY <1>1, <1>2, <1>3, <2>3, FoldRuns
<1>9. PICK g : Running(g, Lists, <<<<>>>>, n, Op) /\ g[n] = iter[1..n]
  BY <1>8 DEF Ran
<1>10. ASSUME NEW k \in 1..n PROVE g[k] = Split(g[k - 1], t[k])
  <2>1. k - 1 \in 0..n
    BY <1>1
  <2> QED
    BY <1>9, <2>1 DEF Running
<1> QED
  BY <1>7, <1>9, <1>10 DEF Running
\* What was split is known from its lists.
LEMMA SplitBack ==
  ASSUME NEW x \in Lists, NEW y \in Lists, NEW c \in Pieces, NEW d \in Pieces,
         Split(x, c) = Split(y, d)
  PROVE  x = y /\ c = d
<1>1. /\ x \in Seq(Names) /\ Len(x) \in Nat \ {0} /\ Last(x) \in Names
      /\ y \in Seq(Names) /\ Len(y) \in Nat \ {0} /\ Last(y) \in Names
  BY DEF Lists, Last
<1>2. c = Slash <=> d = Slash
  BY LastOfSplit
<1>3. CASE c = Slash
  <2>1. Append(x, <<>>) = Append(y, <<>>)
    BY <1>2, <1>3 DEF Split
  <2>2. <<>> \in Names
    BY DEF Names
  <2>3. x = y
    BY <1>1, <2>1, <2>2, AppendInjective
  <2> QED
    BY <1>2, <1>3, <2>3
<1>4. CASE c # Slash
  <2>1. Longer(Split(x, c), x, c) /\ Longer(Split(y, d), y, d)
    BY <1>2, <1>4, SplitPiece
  <2>2. Len(x) = Len(y) /\ Append(Last(x), c) = Append(Last(y), d)
    BY <2>1 DEF Longer
  <2>3. Last(x) = Last(y) /\ c = d
    BY <1>1, <2>2, AppendInjective DEF Names
  <2>4. \A i \in 1..(Len(x) - 1) : x[i] = y[i]
    BY <2>1, <2>2 DEF Longer
  <2>5. \A i \in 1..Len(x) : x[i] = y[i]
    BY <1>1, <2>2, <2>3, <2>4 DEF Last
  <2>6. x = y
    BY <1>1, <2>2, <2>5, SeqEqual
  <2> QED
    BY <2>3, <2>6
<1> QED
  BY <1>3, <1>4

LEMMA SplitInjective ==
  ASSUME NEW t \in Names, NEW u \in Names, FoldLeft(Split, <<<<>>>>, t) = FoldLeft(Split, <<<<>>>>, u)
  PROVE  t = u
<1> DEFINE n == Len(t)
           m == Len(u)
<1>1. /\ n \in Nat /\ \A i \in 1..n : t[i] \in Pieces
      /\ m \in Nat /\ \A i \in 1..m : u[i] \in Pieces
  BY DEF Names
<1>2. PICK g \in [0..n -> Lists] :
        /\ g[0] = <<<<>>>>
        /\ \A k \in 1..n : g[k] = Split(g[k - 1], t[k])
        /\ FoldLeft(Split, <<<<>>>>, t) = g[n]
  BY SplitRuns
<1>3. PICK h \in [0..m -> Lists] :
        /\ h[0] = <<<<>>>>
        /\ \A k \in 1..m : h[k] = Split(h[k - 1], u[k])
        /\ FoldLeft(Split, <<<<>>>>, u) = h[m]
  BY SplitRuns
<1> HIDE DEF n, m
<1> DEFINE Back(k, l) == g[k] = h[l] => k = l /\ \A i \in 1..k : t[i] = u[i]
           S == {k \in Nat : k <= n => \A l \in 0..m : Back(k, l)}
<1>5. ASSUME NEW l \in 1..m
      PROVE  l - 1 \in 0..m /\ h[l - 1] \in Lists /\ h[l] # <<<<>>>>
  <2>1. l - 1 \in 0..m
    BY <1>1
  <2>2. h[l] = Split(h[l - 1], u[l]) /\ h[l - 1] \in Lists /\ u[l] \in Pieces
    BY <1>1, <1>3, <2>1
  <2> QED
    BY <2>1, <2>2, LastOfSplit
<1>6. 0 \in S
  <2>1. ASSUME NEW l \in 0..m PROVE Back(0, l)
    <3>1. l # 0 => l \in 1..m
      BY <1>1
    <3> QED
      BY <1>2, <1>5, <3>1
  <2> HIDE DEF Back
  <2> QED
    BY <2>1
<1>7. ASSUME NEW k \in Nat, k \in S PROVE k + 1 \in S
  <2> SUFFICES ASSUME k + 1 \in 1..n, NEW l \in 0..m PROVE Back(k + 1, l)
    <3> HIDE DEF Back
    <3> QED
      BY <1>1
  <2>1. \A j \in 0..m : Back(k, j)
    <3> HIDE DEF Back
    <3> QED
      BY <1>1, <1>7
  <2>2. k \in 0..n /\ g[k] \in Lists /\ g[k + 1] = Split(g[k], t[k + 1])
    BY <1>1, <1>2
  <2>3. SUFFICES ASSUME g[k + 1] = h[l] PROVE k + 1 = l /\ \A i \in 1..(k + 1) : t[i] = u[i]
    OBVIOUS
  <2>4. l \in 1..m
    <3>1. g[k + 1] # <<<<>>>>
      BY <1>1, <2>2, LastOfSplit
    <3> QED
      BY <1>1, <1>3, <2>3, <3>1
  <2>5. h[l - 1] \in Lists /\ l - 1 \in 0..m /\ h[l] = Split(h[l - 1], u[l])
    BY <1>3, <1>5, <2>4
  <2>6. g[k] = h[l - 1] /\ t[k + 1] = u[l]
    <3>1. t[k + 1] \in Pieces /\ u[l] \in Pieces
      BY <1>1, <2>4
    <3>2. Split(g[k], t[k + 1]) = Split(h[l - 1], u[l])
      BY <2>2, <2>3, <2>5
    <3> QED
      BY <2>2, <2>5, <3>1, <3>2, SplitBack
  <2>7. k = l - 1 /\ \A i \in 1..k : t[i] = u[i]
    BY <2>1, <2>5, <2>6
  <2> QED
    BY <1>1, <2>4, <2>6, <2>7
<1>8. Nat \subseteq S
  <2> HIDE DEF S
  <2> QED
    BY <1>6, <1>7, Induction
<1>9. Back(n, m)
  <2> HIDE DEF Back
  <2> QED
    BY <1>1, <1>8
<1>10. n = m /\ \A i \in 1..n : t[i] = u[i]
  BY <1>2, <1>3, <1>9
<1> QED
  BY <1>10, SeqEqual DEF Names, n, m

\* A path the explorer makes: names between single slashes, none of which starts
\* with a dot or goes up.
Bad == {<<Slash, Slash>>, <<Slash, ".">>, <<".", ".">>}

Clean(t) ==
  /\ t \in Names /\ t # <<>>
  /\ t[1] \notin {Slash, "."} /\ t[Len(t)] # Slash
  /\ \A i \in 1..Len(t) : t[i] # "\\"
  /\ \A i \in 1..(Len(t) - 1) : <<t[i], t[i + 1]>> \notin Bad

Here == {<<>>, <<".">>}

\* The names of a clean path are all there is in its place.
LEMMA CleanNames ==
  ASSUME NEW t, Clean(t)
  PROVE  /\ FoldLeft(Split, <<<<>>>>, t) \in Seq(Names)
         /\ \A i \in 1..Len(FoldLeft(Split, <<<<>>>>, t)) :
              FoldLeft(Split, <<<<>>>>, t)[i] \notin Here
<1> DEFINE n == Len(t)
<1>1. t \in Names /\ n \in Nat \ {0} /\ \A i \in 1..n : t[i] \in Pieces
  BY DEF Names, Clean
<1>2. PICK g \in [0..n -> Lists] :
        /\ g[0] = <<<<>>>>
        /\ \A k \in 1..n : g[k] = Split(g[k - 1], t[k])
        /\ FoldLeft(Split, <<<<>>>>, t) = g[n]
  BY <1>1, SplitRuns
<1> DEFINE Closed(k) == \A i \in 1..(Len(g[k]) - 1) : g[k][i] \notin Here
           Fresh(k)  == k = 0 \/ t[k] = Slash
           Open(k)   == IF Fresh(k) THEN Last(g[k]) = <<>>
                        ELSE Last(g[k]) # <<>> /\ Last(g[k])[1] # "."
           S == {k \in Nat : k <= n => Closed(k) /\ Open(k)}
<1>3. 0 \in S
  <2>1. Len(g[0]) = 1 /\ Last(g[0]) = <<>>
    BY <1>2 DEF Last
  <2> QED
    BY <2>1
<1>4. ASSUME NEW k \in Nat, k \in S PROVE k + 1 \in S
  <2> SUFFICES ASSUME k + 1 \in 1..n PROVE Closed(k + 1) /\ Open(k + 1)
    <3> HIDE DEF Closed, Open
    <3> QED
      BY <1>1
  <2> DEFINE x == g[k]
             c == t[k + 1]
             new == g[k + 1]
  <2>1. k \in 0..n /\ x \in Lists /\ c \in Pieces /\ new = Split(x, c) /\ (k + 1) - 1 = k
    BY <1>1, <1>2
  <2>2. Closed(k) /\ Open(k)
    <3> HIDE DEF Closed, Open
    <3> QED
      BY <1>1, <1>4
  <2>3. x \in Seq(Names) /\ Len(x) \in Nat \ {0} /\ Last(x) \in Names /\ <<>> \in Names
    BY <2>1 DEF Lists, Last, Names
  <2>4. /\ k = 0 => c \notin {Slash, "."}
        /\ k # 0 => <<t[k], c>> \notin Bad
    BY <1>1 DEF Clean
  <2>5. CASE c = Slash
    <3>1. ~Fresh(k)
      BY <2>4, <2>5 DEF Bad
    <3>2. Last(x) \notin Here
      <4>1. <<".">>[1] = "."
        OBVIOUS
      <4> QED
        BY <2>2, <3>1, <4>1 DEF Here
    <3>3. new = Append(x, <<>>)
      BY <2>1, <2>5 DEF Split
    <3>4. /\ Len(new) = Len(x) + 1 /\ Last(new) = <<>>
          /\ \A i \in 1..Len(x) : new[i] = x[i]
      BY <2>3, <3>3, AppendProperties, LastOfAppend
    <3>5. Closed(k + 1)
      BY <2>2, <2>3, <3>2, <3>4 DEF Last
    <3>6. Open(k + 1)
      BY <2>5, <3>4
    <3> QED
      BY <3>5, <3>6
  <2>6. CASE c # Slash
    <3>1. Longer(new, x, c)
      BY <2>1, <2>6, SplitPiece
    <3>2. Closed(k + 1)
      BY <2>2, <2>3, <3>1 DEF Longer
    <3>3. ~Fresh(k + 1)
      BY <2>1, <2>6
    <3>4. Last(new) = Append(Last(x), c) /\ Last(new) # <<>>
      <4>1. Last(new) = Append(Last(x), c)
        BY <3>1 DEF Longer
      <4>2. Append(Last(x), c) # <<>>
        BY <2>1, <2>3, LastOfAppend DEF Names
      <4> QED
        BY <4>1, <4>2
    <3>5. Last(new)[1] # "."
      <4>1. CASE Fresh(k)
        <5>1. c # "."
          BY <2>4, <4>1 DEF Bad
        <5>2. Last(x) = <<>>
          BY <2>2, <4>1
        <5> QED
          BY <3>4, <5>1, <5>2
      <4>2. CASE ~Fresh(k)
        <5>1. Last(x) # <<>> /\ Last(x)[1] # "."
          BY <2>2, <4>2
        <5>2. Append(Last(x), c)[1] = Last(x)[1]
          BY <2>1, <2>3, <5>1, AppendProperties DEF Names
        <5> QED
          BY <3>4, <5>1, <5>2
      <4> QED
        BY <4>1, <4>2
    <3> QED
      BY <3>2, <3>3, <3>4, <3>5
  <2> QED
    BY <2>5, <2>6
<1>5. Nat \subseteq S
  <2> HIDE DEF S
  <2> QED
    BY <1>3, <1>4, Induction
<1>6. Closed(n) /\ Open(n)
  <2> HIDE DEF Closed, Open
  <2> QED
    BY <1>1, <1>5
<1>7. ~Fresh(n)
  BY <1>1 DEF Clean
<1>8. Last(g[n]) \notin Here
  <2>1. <<".">>[1] = "."
    OBVIOUS
  <2> QED
    BY <1>6, <1>7, <2>1 DEF Here
<1>9. g[n] \in Seq(Names) /\ Len(g[n]) \in Nat \ {0}
  BY <1>1, <1>2 DEF Lists
<1>10. \A i \in 1..Len(g[n]) : g[n][i] \notin Here
  BY <1>6, <1>8, <1>9 DEF Last
<1> QED
  BY <1>2, <1>9, <1>10

Routes == Seq(Names)

LEMMA EnterRuns ==
  ASSUME NEW names \in Seq(Names)
  PROVE  \E g \in [0..Len(names) -> Routes] :
           /\ g[0] = <<>>
           /\ \A k \in 1..Len(names) : g[k] = Enter(g[k - 1], names[k])
           /\ FoldLeft(Enter, <<>>, names) = g[Len(names)]
<1> DEFINE n == Len(names)
           Op == [p \in Routes \X (1..n) |-> Enter(p[1], names[p[2]])]
<1>1. n \in Nat /\ DOMAIN names = 1..n /\ \A i \in 1..n : names[i] \in Names
  OBVIOUS
<1>2. <<>> \in Routes
  BY DEF Routes
<1>3. Op \in [Routes \X (1..n) -> Routes]
  <2>1. ASSUME NEW dir \in Routes, NEW i \in 1..n PROVE Enter(dir, names[i]) \in Routes
    BY <1>1, AppendProperties DEF Enter, Routes
  <2> QED
    BY <2>1
<1>4. PICK f : Folding(f, Routes, <<>>, n, Op)
  <2> HIDE DEF Op, n
  <2> QED
    BY <1>1, <1>2, <1>3, FoldExists
<1> DEFINE Body(h, s) == IF s = {} THEN <<>> ELSE Enter(h[s \ {Max(s)}], names[Max(s)])
<1>5. f = [s \in SUBSET (1..n) |-> Body(f, s)]
  <2>1. ASSUME NEW s \in SUBSET (1..n) PROVE f[s] = Body(f, s)
    <3>1. s # {} => Max(s) \in 1..n
      BY <1>1, MaxIs
    <3>2. f[s \ {Max(s)}] \in Routes
      BY <1>4 DEF Folding
    <3> QED
      BY <1>4, <3>1, <3>2 DEF Folding
  <2> HIDE DEF Body
  <2> QED
    BY <1>4, <2>1 DEF Folding
<1> DEFINE iter == CHOOSE h : h = [s \in SUBSET (1..n) |-> Body(h, s)]
<1>6. iter = [s \in SUBSET (1..n) |-> Body(iter, s)]
  <2> HIDE DEF Body
  <2> QED
    BY <1>5
<1>7. FoldLeft(Enter, <<>>, names) = iter[1..n]
  BY <1>1 DEF FoldLeft, MapThenFoldSet
<1> HIDE DEF iter
<1>8. Ran(iter, Routes, <<>>, n, Op)
  <2>1. iter[{}] = <<>>
    BY <1>6
  <2>2. ASSUME NEW s \in SUBSET (1..n), s # {}, iter[s \ {Max(s)}] \in Routes
        PROVE  iter[s] = Op[iter[s \ {Max(s)}], Max(s)]
    <3>1. Max(s) \in 1..n
      BY <1>1, <2>2, MaxIs
    <3> QED
      BY <1>6, <2>2, <3>1
  <2>3. Following(iter, Routes, <<>>, n, Op)
    BY <2>1, <2>2 DEF Following
  <2> HIDE DEF n, Op
  <2> QED
    BY <1>1, <1>2, <1>3, <2>3, FoldRuns
<1>9. PICK g : Running(g, Routes, <<>>, n, Op) /\ g[n] = iter[1..n]
  BY <1>8 DEF Ran
<1>10. ASSUME NEW k \in 1..n PROVE g[k] = Enter(g[k - 1], names[k])
  <2>1. k - 1 \in 0..n
    BY <1>1
  <2> QED
    BY <1>9, <2>1 DEF Running
<1> QED
  BY <1>7, <1>9, <1>10 DEF Running

\* Entering names that are none of those leads to just these names.
LEMMA EnterAll ==
  ASSUME NEW names \in Seq(Names), \A i \in 1..Len(names) : names[i] \notin Here
  PROVE  FoldLeft(Enter, <<>>, names) = names
<1> DEFINE n == Len(names)
<1>1. n \in Nat /\ \A i \in 1..n : names[i] \in Names
  OBVIOUS
<1>2. PICK g \in [0..n -> Routes] :
        /\ g[0] = <<>>
        /\ \A k \in 1..n : g[k] = Enter(g[k - 1], names[k])
        /\ FoldLeft(Enter, <<>>, names) = g[n]
  BY EnterRuns
<1> DEFINE Upto(k) == Len(g[k]) = k /\ \A i \in 1..k : g[k][i] = names[i]
           S == {k \in Nat : k <= n => Upto(k)}
<1>3. 0 \in S
  <2>1. g[0] = <<>> /\ Len(<<>>) = 0
    BY <1>2
  <2> QED
    BY <2>1
<1>4. ASSUME NEW k \in Nat, k \in S PROVE k + 1 \in S
  <2> SUFFICES ASSUME k + 1 \in 1..n PROVE Upto(k + 1)
    BY <1>1
  <2>1. g[k + 1] = Enter(g[k], names[k + 1])
    BY <1>2
  <2>2. g[k + 1] = Append(g[k], names[k + 1]) /\ names[k + 1] \in Names
    <3>1. names[k + 1] \notin Here
      OBVIOUS
    <3> QED
      BY <1>1, <2>1, <3>1 DEF Enter, Here
  <2>3. Upto(k) /\ g[k] \in Routes
    BY <1>1, <1>2, <1>4
  <2>4. /\ Len(g[k + 1]) = Len(g[k]) + 1 /\ g[k + 1][Len(g[k]) + 1] = names[k + 1]
        /\ \A i \in 1..Len(g[k]) : g[k + 1][i] = g[k][i]
    BY <2>2, <2>3, AppendProperties DEF Routes
  <2> QED
    BY <2>2, <2>3, <2>4
<1>5. Nat \subseteq S
  <2> HIDE DEF S
  <2> QED
    BY <1>3, <1>4, Induction
<1>6. Upto(n) /\ g[n] \in Seq(Names)
  BY <1>1, <1>2, <1>5 DEF Routes
<1>7. g[n] = names
  BY <1>6, SeqEqual
<1> QED
  BY <1>2, <1>7

\* Files with different clean paths are written to different places.
LEMMA PlacesApart ==
  ASSUME NEW p, NEW q, Clean(p), Clean(q), Place(p) = Place(q)
  PROVE  p = q
<1>1. /\ Place(p) = FoldLeft(Enter, <<>>, FoldLeft(Split, <<<<>>>>, p))
      /\ Place(q) = FoldLeft(Enter, <<>>, FoldLeft(Split, <<<<>>>>, q))
  BY DEF Place, Split, Enter
<1>2. /\ Place(p) = FoldLeft(Split, <<<<>>>>, p)
      /\ Place(q) = FoldLeft(Split, <<<<>>>>, q)
  BY <1>1, CleanNames, EnterAll
<1> QED
  BY <1>2, SplitInjective DEF Clean

-----------------------------------------------------------------------------
(* The paths of the explorer. *)

LEMMA SlashIs ==
  /\ Slash \in Pieces /\ <<Slash>> \in Names
  /\ Len(<<Slash>>) = 1 /\ <<Slash>>[1] = Slash
  /\ Slash # "." /\ Slash # "move" /\ Slash # "\\"
<1>1. Slash \in Pieces
  BY DEF Pieces
<1>2. <<Slash>> \in Names /\ Len(<<Slash>>) = 1 /\ <<Slash>>[1] = Slash
  BY <1>1 DEF Names
<1>3. Slash # "." /\ Slash # "move"
  BY DEF Slash
<1>4. Slash # "\\"
  BY DEF Slash
<1> QED
  BY <1>1, <1>2, <1>3, <1>4

IsMove(t) == Len(t) > 1 /\ t[Len(t) - 1] = "." /\ t[Len(t)] = "move"

LEMMA AfterSlash ==
  ASSUME NEW p, Clean(p), NEW i \in 1..Len(p), p[i] = Slash
  PROVE  /\ Clean(SubSeq(p, i + 1, Len(p)))
         /\ IsMove(p) => IsMove(SubSeq(p, i + 1, Len(p)))
<1> DEFINE n == Len(p)
           r == SubSeq(p, i + 1, n)
<1>1. p \in Names /\ n \in Nat /\ i < n
  BY DEF Clean, Names
<1>2. /\ r \in Names /\ Len(r) = n - i
      /\ \A k \in 1..(n - i) : r[k] = p[i + k]
  BY <1>1, SubSeqProperties DEF Names
<1>3. p[i + 1] \notin {Slash, "."}
  <2>1. <<p[i], p[i + 1]>> \notin Bad
    BY <1>1 DEF Clean
  <2> QED
    BY <2>1 DEF Bad
<1>4. r[1] = p[i + 1] /\ r[Len(r)] = p[n] /\ r # <<>>
  <2>1. 1 \in 1..(n - i) /\ n - i \in 1..(n - i) /\ i + (n - i) = n
    BY <1>1
  <2>2. Len(<<>>) = 0
    OBVIOUS
  <2> HIDE DEF r
  <2>3. r[1] = p[i + 1] /\ r[n - i] = p[n]
    BY <1>2, <2>1
  <2> QED
    BY <1>1, <1>2, <2>2, <2>3
<1>5. ASSUME NEW k \in 1..Len(r) PROVE r[k] # "\\"
  BY <1>1, <1>2 DEF Clean
<1>6. ASSUME NEW k \in 1..(Len(r) - 1) PROVE <<r[k], r[k + 1]>> \notin Bad
  <2>1. r[k] = p[i + k] /\ r[k + 1] = p[i + k + 1]
    BY <1>1, <1>2
  <2>2. <<p[i + k], p[i + k + 1]>> \notin Bad
    BY <1>1, <1>2 DEF Clean
  <2> QED
    BY <2>1, <2>2
<1>7. Clean(r)
  BY <1>2, <1>3, <1>4, <1>5, <1>6 DEF Clean
<1>8. ASSUME IsMove(p) PROVE IsMove(r)
  <2>1. i # n - 1
    BY <1>8, SlashIs DEF IsMove
  <2>2. i + 1 # n - 1
    BY <1>3, <1>8 DEF IsMove
  <2>3. n - i - 1 \in 1..(n - i) /\ i + (n - i - 1) = n - 1 /\ n - i > 1
    BY <1>1, <2>1
  <2>4. Len(r) = n - i /\ r[n - i - 1] = p[n - 1] /\ r[Len(r)] = p[n]
    BY <1>2, <1>4, <2>3
  <2> HIDE DEF r
  <2> QED
    BY <1>8, <2>3, <2>4 DEF IsMove
<1> QED
  BY <1>7, <1>8

LEMMA BeforeSlash ==
  ASSUME NEW p, Clean(p), NEW i \in 1..Len(p), p[i] = Slash
  PROVE  Clean(SubSeq(p, 1, i - 1))
<1> DEFINE n == Len(p)
           r == SubSeq(p, 1, i - 1)
<1>1. p \in Names /\ n \in Nat /\ i > 1 /\ i - 1 \in 1..(n - 1)
  BY DEF Clean, Names
<1>2. /\ r \in Names /\ Len(r) = i - 1
      /\ \A k \in 1..(i - 1) : r[k] = p[k]
  BY <1>1, SubSeqProperties DEF Names
<1>3. p[i - 1] # Slash
  <2>1. <<p[i - 1], p[(i - 1) + 1]>> \notin Bad
    BY <1>1 DEF Clean
  <2> QED
    BY <2>1 DEF Bad
<1>4. r[1] = p[1] /\ r[Len(r)] = p[i - 1] /\ r # <<>>
  BY <1>1, <1>2
<1>5. ASSUME NEW k \in 1..Len(r) PROVE r[k] # "\\"
  BY <1>1, <1>2 DEF Clean
<1>6. ASSUME NEW k \in 1..(Len(r) - 1) PROVE <<r[k], r[k + 1]>> \notin Bad
  <2>1. r[k] = p[k] /\ r[k + 1] = p[k + 1]
    BY <1>1, <1>2
  <2> QED
    BY <1>1, <1>2, <2>1 DEF Clean
<1> QED
  BY <1>2, <1>3, <1>4, <1>5, <1>6 DEF Clean

LEMMA Joined ==
  ASSUME NEW a, NEW b, Clean(a), Clean(b)
  PROVE  /\ Clean(a \o <<Slash>> \o b)
         /\ IsMove(b) => IsMove(a \o <<Slash>> \o b)
<1> DEFINE n == Len(a)
           m == Len(b)
           t == a \o <<Slash>> \o b
<1>1. a \in Names /\ b \in Names /\ n \in Nat \ {0} /\ m \in Nat \ {0} /\ <<Slash>> \in Names
  BY SlashIs DEF Clean, Names
<1>2. /\ t \in Names /\ Len(t) = n + 1 + m
      /\ \A k \in 1..n : t[k] = a[k]
      /\ t[n + 1] = Slash
      /\ \A k \in 1..m : t[n + 1 + k] = b[k]
  <2> DEFINE u == a \o <<Slash>>
  <2>1. /\ u \in Names /\ Len(u) = n + 1 /\ u[n + 1] = Slash
        /\ \A k \in 1..n : u[k] = a[k]
    BY <1>1, ConcatProperties DEF Names
  <2>2. t = u \o b
    OBVIOUS
  <2> HIDE DEF u, t
  <2>3. /\ t \in Names /\ Len(t) = (n + 1) + m
        /\ \A k \in 1..(n + 1 + m) : t[k] = IF k <= n + 1 THEN u[k] ELSE b[k - (n + 1)]
    <3> HIDE DEF n, m
    <3>1. /\ u \o b \in Seq(Pieces) /\ Len(u \o b) = Len(u) + Len(b)
          /\ \A k \in 1..(Len(u) + Len(b)) :
               (u \o b)[k] = IF k <= Len(u) THEN u[k] ELSE b[k - Len(u)]
      BY <1>1, <2>1, ConcatProperties DEF Names
    <3> QED
      BY <2>1, <2>2, <3>1 DEF Names, m
  <2>4. ASSUME NEW k \in 1..m PROVE t[n + 1 + k] = b[k]
    <3>1. n + 1 + k \in 1..(n + 1 + m) /\ ~(n + 1 + k <= n + 1) /\ (n + 1 + k) - (n + 1) = k
      BY <1>1
    <3> QED
      BY <2>3, <3>1
  <2> QED
    BY <1>1, <2>1, <2>3, <2>4
<1> HIDE DEF t
<1>3. t[1] = a[1] /\ t[Len(t)] = b[m] /\ t # <<>>
  BY <1>1, <1>2
<1>4. ASSUME NEW k \in 1..Len(t) PROVE t[k] # "\\"
  <2>1. CASE k <= n
    BY <1>1, <1>2, <2>1 DEF Clean
  <2>2. CASE k = n + 1
    BY <1>2, <2>2 DEF Slash
  <2>3. CASE k > n + 1
    <3>1. k - (n + 1) \in 1..m /\ k = n + 1 + (k - (n + 1))
      BY <1>1, <1>2, <2>3
    <3>2. t[k] = b[k - (n + 1)]
      BY <1>2, <3>1
    <3> QED
      BY <3>1, <3>2 DEF Clean
  <2> QED
    BY <1>1, <2>1, <2>2, <2>3
<1>5. ASSUME NEW k \in 1..(Len(t) - 1) PROVE <<t[k], t[k + 1]>> \notin Bad
  <2>1. CASE k < n
    <3>1. k \in 1..(n - 1) /\ t[k] = a[k] /\ t[k + 1] = a[k + 1]
      BY <1>1, <1>2, <2>1
    <3> QED
      BY <3>1 DEF Clean
  <2>2. CASE k = n
    <3>1. t[k] = a[n] /\ t[k + 1] = Slash /\ a[n] # Slash
      BY <1>1, <1>2, <2>2 DEF Clean
    <3> QED
      BY <3>1 DEF Bad, Slash
  <2>3. CASE k = n + 1
    <3>1. t[k] = Slash /\ t[k + 1] = b[1] /\ b[1] \notin {Slash, "."}
      BY <1>1, <1>2, <2>3 DEF Clean
    <3> QED
      BY <3>1 DEF Bad, Slash
  <2>4. CASE k > n + 1
    <3> DEFINE j == k - (n + 1)
    <3>1. /\ j \in 1..(m - 1) /\ k = n + 1 + j /\ k + 1 = n + 1 + (j + 1)
          /\ j \in 1..m /\ j + 1 \in 1..m
      BY <1>1, <1>2, <2>4
    <3> HIDE DEF j
    <3>2. t[k] = b[j] /\ t[k + 1] = b[j + 1]
      BY <1>2, <3>1
    <3> QED
      BY <3>1, <3>2 DEF Clean
  <2> QED
    BY <1>1, <2>1, <2>2, <2>3, <2>4
<1>6. Clean(t)
  BY <1>2, <1>3, <1>4, <1>5 DEF Clean
<1>7. ASSUME IsMove(b) PROVE IsMove(t)
  <2>1. /\ m - 1 \in 1..m /\ Len(t) - 1 = n + 1 + (m - 1) /\ Len(t) > 1
        /\ b[m - 1] = "." /\ b[m] = "move"
    BY <1>1, <1>2, <1>7 DEF IsMove
  <2>2. t[Len(t) - 1] = b[m - 1]
    BY <1>2, <2>1
  <2> QED
    BY <1>3, <2>1, <2>2 DEF IsMove
<1> QED
  BY <1>6, <1>7 DEF t

LEMMA BaseNames ==
  ASSUME NEW p, Clean(p)
  PROVE  Clean(BaseName(p)) /\ (IsMove(p) => IsMove(BaseName(p)))
<1> DEFINE slashes == {i \in DOMAIN p : p[i] = Slash}
<1>1. CASE slashes = {}
  BY <1>1 DEF BaseName
<1>2. CASE slashes # {}
  <2>1. slashes \in SUBSET (1..Len(p)) /\ Len(p) \in Nat
    BY DEF Clean, Names
  <2>2. Max(slashes) \in slashes
    <3> HIDE DEF slashes
    <3> QED
      BY <1>2, <2>1, MaxIs
  <2>3. BaseName(p) = SubSeq(p, Max(slashes) + 1, Len(p))
    BY <1>2 DEF BaseName
  <2>4. Max(slashes) \in 1..Len(p) /\ p[Max(slashes)] = Slash
    BY <2>1, <2>2
  <2> QED
    BY <2>3, <2>4, AfterSlash
<1> QED
  BY <1>1, <1>2

LEMMA Destinations ==
  ASSUME NEW p, NEW dir, Clean(p), dir = <<>> \/ Clean(dir)
  PROVE  Clean(Destination(dir, p)) /\ (IsMove(p) => IsMove(Destination(dir, p)))
<1>1. CASE dir = <<>>
  BY <1>1, BaseNames DEF Destination
<1>2. CASE dir # <<>>
  BY <1>2, BaseNames, Joined DEF Destination
<1> QED
  BY <1>1, <1>2

\* What is in a folder keeps its path below the folder's new one.
LEMMA Swaps ==
  ASSUME NEW p, NEW old, NEW new, Clean(p), Clean(old), Clean(new), Under(old, p)
  PROVE  Clean(Swap(p, old, new)) /\ (IsMove(p) => IsMove(Swap(p, old, new)))
<1> DEFINE n == Len(p)
           k == Len(old)
           rest == SubSeq(p, k + 2, n)
<1>1. p \in Names /\ old \in Names /\ new \in Names /\ n \in Nat /\ k \in Nat
  BY DEF Clean, Names
<1>2. /\ Append(old, Slash) \in Names /\ Len(Append(old, Slash)) = k + 1
      /\ Append(old, Slash)[k + 1] = Slash
  BY <1>1, SlashIs, AppendProperties DEF Names
<1>3. k + 1 <= n /\ SubSeq(Append(old, Slash), 1, k + 1) = SubSeq(p, 1, k + 1)
  BY <1>2 DEF Under, IsStrictPrefix, IsPrefix
<1>4. p[k + 1] = Slash
  <2>1. /\ SubSeq(Append(old, Slash), 1, k + 1)[k + 1] = Append(old, Slash)[k + 1]
        /\ SubSeq(p, 1, k + 1)[k + 1] = p[k + 1]
    BY <1>1, <1>2, <1>3, SubSeqProperties DEF Names
  <2> QED
    BY <1>2, <1>3, <2>1
<1>5. k + 1 \in 1..n /\ (k + 1) + 1 = k + 2
  BY <1>1, <1>3
<1>6. Clean(rest) /\ (IsMove(p) => IsMove(rest))
  BY <1>4, <1>5, AfterSlash
<1>7. Swap(p, old, new) = new \o <<Slash>> \o rest
  <2>1. SubSeq(p, k + 1, n) = <<Slash>> \o rest
    <3>1. SubSeq(p, k + 1, n) = <<p[k + 1]>> \o SubSeq(p, (k + 1) + 1, n)
      BY <1>1, <1>5, SubSeqRecursiveFirst DEF Names
    <3> QED
      BY <1>4, <1>5, <3>1
  <2>2. rest \in Names /\ <<Slash>> \in Names
    BY <1>6, SlashIs DEF Clean
  <2> HIDE DEF rest
  <2>3. new \o (<<Slash>> \o rest) = (new \o <<Slash>>) \o rest
    BY <1>1, <2>2, ConcatAssociative DEF Names
  <2> QED
    BY <2>1, <2>3 DEF Swap
<1> QED
  BY <1>6, <1>7, Joined

LEMMA SwapsWhole ==
  ASSUME NEW old, NEW new, Clean(old), Clean(new)
  PROVE  Swap(old, old, new) = new
<1>1. old \in Names /\ new \in Names /\ Len(old) \in Nat
  BY DEF Clean, Names
<1>2. SubSeq(old, Len(old) + 1, Len(old)) = <<>>
  BY <1>1, SubSeqEmpty DEF Names
<1> QED
  BY <1>1, <1>2, ConcatEmptySeq DEF Swap, Names

-----------------------------------------------------------------------------
(* What is typed. *)

\* The operation of NormalizePath.
Single(t, c) == IF c = Slash /\ t # <<>> /\ Last(t) = Slash THEN t ELSE Append(t, c)

LEMMA SingleRuns ==
  ASSUME NEW t \in Names
  PROVE  \E g \in [0..Len(t) -> Names] :
           /\ g[0] = <<>>
           /\ \A k \in 1..Len(t) : g[k] = Single(g[k - 1], t[k])
           /\ FoldLeft(Single, <<>>, t) = g[Len(t)]
<1> DEFINE n == Len(t)
           Op == [p \in Names \X (1..n) |-> Single(p[1], t[p[2]])]
<1>1. n \in Nat /\ DOMAIN t = 1..n /\ \A i \in 1..n : t[i] \in Pieces
  BY DEF Names
<1>2. <<>> \in Names
  BY DEF Names
<1>3. Op \in [Names \X (1..n) -> Names]
  <2>1. ASSUME NEW u \in Names, NEW i \in 1..n PROVE Single(u, t[i]) \in Names
    BY <1>1, AppendProperties DEF Single, Names
  <2> QED
    BY <2>1
<1>4. PICK f : Folding(f, Names, <<>>, n, Op)
  <2> HIDE DEF Op, n
  <2> QED
    BY <1>1, <1>2, <1>3, FoldExists
<1> DEFINE Body(h, s) == IF s = {} THEN <<>> ELSE Single(h[s \ {Max(s)}], t[Max(s)])
<1>5. f = [s \in SUBSET (1..n) |-> Body(f, s)]
  <2>1. ASSUME NEW s \in SUBSET (1..n) PROVE f[s] = Body(f, s)
    <3>1. s # {} => Max(s) \in 1..n
      BY <1>1, MaxIs
    <3>2. f[s \ {Max(s)}] \in Names
      BY <1>4 DEF Folding
    <3> QED
      BY <1>4, <3>1, <3>2 DEF Folding
  <2> HIDE DEF Body
  <2> QED
    BY <1>4, <2>1 DEF Folding
<1> DEFINE iter == CHOOSE h : h = [s \in SUBSET (1..n) |-> Body(h, s)]
<1>6. iter = [s \in SUBSET (1..n) |-> Body(iter, s)]
  <2> HIDE DEF Body
  <2> QED
    BY <1>5
<1>7. FoldLeft(Single, <<>>, t) = iter[1..n]
  BY <1>1 DEF FoldLeft, MapThenFoldSet
<1> HIDE DEF iter
<1>8. Ran(iter, Names, <<>>, n, Op)
  <2>1. iter[{}] = <<>>
    BY <1>6
  <2>2. ASSUME NEW s \in SUBSET (1..n), s # {}, iter[s \ {Max(s)}] \in Names
        PROVE  iter[s] = Op[iter[s \ {Max(s)}], Max(s)]
    <3>1. Max(s) \in 1..n
      BY <1>1, <2>2, MaxIs
    <3> QED
      BY <1>6, <2>2, <3>1
  <2>3. Following(iter, Names, <<>>, n, Op)
    BY <2>1, <2>2 DEF Following
  <2> HIDE DEF n, Op
  <2> QED
    BY <1>1, <1>2, <1>3, <2>3, FoldRuns
<1>9. PICK g : Running(g, Names, <<>>, n, Op) /\ g[n] = iter[1..n]
  BY <1>8 DEF Ran
<1>10. ASSUME NEW k \in 1..n PROVE g[k] = Single(g[k - 1], t[k])
  <2>1. k - 1 \in 0..n
    BY <1>1
  <2> QED
    BY <1>9, <2>1 DEF Running
<1> QED
  BY <1>7, <1>9, <1>10 DEF Running

Smooth(t) ==
  /\ t \in Names
  /\ \A i \in 1..Len(t) : t[i] # "\\"
  /\ \A i \in 1..(Len(t) - 1) : <<t[i], t[i + 1]>> # <<Slash, Slash>>

LEMMA SingleSmooth ==
  ASSUME NEW t, Smooth(t), NEW c \in Pieces, c # "\\"
  PROVE  Smooth(Single(t, c))
<1>1. t \in Names /\ Len(t) \in Nat
  BY DEF Smooth, Names
<1>2. CASE c = Slash /\ t # <<>> /\ Last(t) = Slash
  BY <1>2 DEF Single
<1>3. CASE ~(c = Slash /\ t # <<>> /\ Last(t) = Slash)
  <2> DEFINE n == Len(t)
             u == Append(t, c)
  <2>1. /\ u \in Names /\ Len(u) = n + 1 /\ u[n + 1] = c
        /\ \A i \in 1..n : u[i] = t[i]
    BY <1>1, AppendProperties DEF Names
  <2> HIDE DEF u
  <2>2. ASSUME NEW i \in 1..Len(u) PROVE u[i] # "\\"
    <3>1. i \in 1..n \/ i = n + 1
      BY <1>1, <2>1
    <3> QED
      BY <2>1, <3>1 DEF Smooth
  <2>3. ASSUME NEW i \in 1..(Len(u) - 1) PROVE <<u[i], u[i + 1]>> # <<Slash, Slash>>
    <3>1. i \in 1..(n - 1) \/ i = n
      BY <1>1, <2>1
    <3>2. CASE i \in 1..(n - 1)
      <4>1. u[i] = t[i] /\ u[i + 1] = t[i + 1]
        BY <1>1, <2>1, <3>2
      <4> QED
        BY <3>2, <4>1 DEF Smooth
    <3>3. CASE i = n
      <4>1. u[i] = Last(t) /\ u[i + 1] = c /\ t # <<>>
        BY <1>1, <2>1, <3>3 DEF Last
      <4> QED
        BY <1>3, <4>1
    <3> QED
      BY <3>1, <3>2, <3>3
  <2>4. Single(t, c) = u
    BY <1>3 DEF Single, u
  <2> QED
    BY <2>1, <2>2, <2>3, <2>4 DEF Smooth
<1> QED
  BY <1>2, <1>3

LEMMA SinglesSmooth ==
  ASSUME NEW t \in Names, \A i \in 1..Len(t) : t[i] # "\\"
  PROVE  Smooth(FoldLeft(Single, <<>>, t))
<1> DEFINE n == Len(t)
<1>1. n \in Nat /\ \A i \in 1..n : t[i] \in Pieces
  BY DEF Names
<1>2. PICK g \in [0..n -> Names] :
        /\ g[0] = <<>>
        /\ \A k \in 1..n : g[k] = Single(g[k - 1], t[k])
        /\ FoldLeft(Single, <<>>, t) = g[n]
  BY SingleRuns
<1> DEFINE S == {k \in Nat : k <= n => Smooth(g[k])}
<1>3. 0 \in S
  <2>1. Smooth(<<>>)
    BY DEF Smooth, Names
  <2> QED
    BY <1>2, <2>1
<1>4. ASSUME NEW k \in Nat, k \in S PROVE k + 1 \in S
  <2> SUFFICES ASSUME k + 1 \in 1..n PROVE Smooth(g[k + 1])
    BY <1>1
  <2>1. Smooth(g[k]) /\ g[k + 1] = Single(g[k], t[k + 1])
    BY <1>1, <1>2, <1>4
  <2>2. t[k + 1] \in Pieces /\ t[k + 1] # "\\"
    BY <1>1
  <2> QED
    BY <2>1, <2>2, SingleSmooth
<1>5. Nat \subseteq S
  <2> HIDE DEF S
  <2> QED
    BY <1>3, <1>4, Induction
<1> QED
  BY <1>1, <1>2, <1>5

LEMMA TrimNames ==
  ASSUME NEW t \in Names
  PROVE  Trim(t) \in Names
<1> DEFINE solid == {i \in DOMAIN t : t[i] # " "}
<1>1. Len(t) \in Nat /\ DOMAIN t = 1..Len(t) /\ \A i \in 1..Len(t) : t[i] \in Pieces
  BY DEF Names
<1>2. CASE solid = {}
  <2>1. Trim(t) = <<>>
    BY <1>2 DEF Trim
  <2> QED
    BY <2>1 DEF Names
<1>3. CASE solid # {}
  <2>1. solid \subseteq 1..Len(t) /\ solid \subseteq Nat
    <3>1. solid \subseteq DOMAIN t
      OBVIOUS
    <3>2. DOMAIN t = 1..Len(t) /\ 1..Len(t) \subseteq Nat
      BY <1>1
    <3> HIDE DEF solid
    <3> QED
      BY <3>1, <3>2
  <2>2. Min(solid) \in solid /\ Max(solid) \in solid
    <3> HIDE DEF solid
    <3> QED
      BY <1>1, <1>3, <2>1, MinIs, MaxIs
  <2>3. Min(solid) \in 1..Len(t) /\ Max(solid) \in 1..Len(t)
    BY <2>1, <2>2
  <2>4. Trim(t) = SubSeq(t, Min(solid), Max(solid))
    BY <1>3 DEF Trim
  <2> HIDE DEF solid
  <2>5. \A i \in Min(solid)..Max(solid) : t[i] \in Pieces
    BY <1>1, <2>3
  <2>6. SubSeq(t, Min(solid), Max(solid)) \in Seq(Pieces)
    BY <2>3, <2>5, SubSeqProperties
  <2> QED
    BY <2>4, <2>6 DEF Names
<1> QED
  BY <1>2, <1>3

\* A text as it comes out of normalizePath.
Normal(t) == Smooth(t) /\ (t # <<>> => Last(t) # Slash)

LEMMA Normalized ==
  ASSUME NEW value \in Names
  PROVE  Normal(NormalizePath(value))
<1> DEFINE slashed == [i \in DOMAIN Trim(value) |->
                         IF Trim(value)[i] = "\\" THEN Slash ELSE Trim(value)[i]]
           single  == FoldLeft(Single, <<>>, slashed)
<1>1. NormalizePath(value) = IF single # <<>> /\ Last(single) = Slash THEN Front(single) ELSE single
  BY DEF NormalizePath, Single
<1>2. Trim(value) \in Names
  BY TrimNames
<1>3. slashed \in Names /\ \A i \in 1..Len(slashed) : slashed[i] # "\\"
  <2> DEFINE n == Len(Trim(value))
  <2>1. n \in Nat /\ DOMAIN Trim(value) = 1..n /\ \A i \in 1..n : Trim(value)[i] \in Pieces
    BY <1>2 DEF Names
  <2>2. slashed \in [1..n -> Pieces] /\ \A i \in 1..n : slashed[i] # "\\"
    BY <2>1, SlashIs
  <2> HIDE DEF slashed, n
  <2>3. slashed \in Seq(Pieces) /\ Len(slashed) = n
    BY <2>1, <2>2
  <2> QED
    BY <2>2, <2>3 DEF Names
<1>4. Smooth(single)
  <2> HIDE DEF slashed
  <2> QED
    BY <1>3, SinglesSmooth
<1> HIDE DEF single
<1>5. CASE single # <<>> /\ Last(single) = Slash
  <2> DEFINE n == Len(single)
             front == Front(single)
  <2>1. single \in Names /\ n \in Nat \ {0}
    BY <1>4, <1>5 DEF Smooth, Names
  <2>2. /\ front \in Names /\ Len(front) = n - 1
        /\ \A i \in 1..(n - 1) : front[i] = single[i]
    <3>1. \A i \in 1..(n - 1) : single[i] \in Pieces
      BY <2>1 DEF Names
    <3>2. /\ SubSeq(single, 1, n - 1) \in Seq(Pieces)
          /\ Len(SubSeq(single, 1, n - 1)) = IF 1 <= n - 1 THEN (n - 1) - 1 + 1 ELSE 0
          /\ \A i \in 1..((n - 1) - 1 + 1) : SubSeq(single, 1, n - 1)[i] = single[1 + i - 1]
      <4> HIDE DEF n
      <4> QED
        BY <2>1, <3>1, SubSeqProperties
    <3>3. /\ (n - 1) - 1 + 1 = n - 1
          /\ (IF 1 <= n - 1 THEN (n - 1) - 1 + 1 ELSE 0) = n - 1
          /\ \A i \in 1..(n - 1) : 1 + i - 1 = i
      <4> HIDE DEF n
      <4> QED
        BY <2>1
    <3>4. front = SubSeq(single, 1, n - 1)
      BY DEF Front
    <3> HIDE DEF front, n
    <3> QED
      BY <3>2, <3>3, <3>4 DEF Names
  <2> HIDE DEF front
  <2>3. Smooth(front)
    <3>1. ASSUME NEW i \in 1..Len(front) PROVE front[i] # "\\"
      BY <1>4, <2>1, <2>2 DEF Smooth
    <3>2. ASSUME NEW i \in 1..(Len(front) - 1) PROVE <<front[i], front[i + 1]>> # <<Slash, Slash>>
      <4>1. front[i] = single[i] /\ front[i + 1] = single[i + 1] /\ i \in 1..(n - 1)
        BY <2>1, <2>2
      <4> QED
        BY <1>4, <4>1 DEF Smooth
    <3> QED
      BY <2>2, <3>1, <3>2 DEF Smooth
  <2>4. ASSUME front # <<>> PROVE Last(front) # Slash
    <3>1. n - 1 \in 1..(n - 1) /\ Last(front) = single[n - 1]
      BY <2>1, <2>2, <2>4 DEF Names, Last
    <3>2. single[(n - 1) + 1] = Slash
      BY <1>5, <2>1 DEF Last
    <3>3. <<single[n - 1], single[(n - 1) + 1]>> # <<Slash, Slash>>
      BY <1>4, <3>1 DEF Smooth
    <3> QED
      BY <3>1, <3>2, <3>3
  <2> QED
    BY <1>1, <1>5, <2>3, <2>4 DEF Normal, front
<1>6. CASE ~(single # <<>> /\ Last(single) = Slash)
  BY <1>1, <1>4, <1>6 DEF Normal
<1> QED
  BY <1>5, <1>6

\* What both pages of rules take is clean.
LEMMA FolderPathClean ==
  ASSUME NEW t, Normal(t), FolderPath(t)
  PROVE  Clean(t)
<1> DEFINE n == Len(t)
<1>1. t \in Names /\ n \in Nat \ {0} /\ DOMAIN t = 1..n /\ t # <<>>
  BY DEF Normal, Smooth, FolderPath, Names
<1>2. t[1] # Slash /\ t[n] # Slash
  BY <1>1 DEF Normal, FolderPath, Last
<1>3. ASSUME NEW i \in 1..n, i = 1 \/ t[i - 1] = Slash PROVE t[i] # "."
  <2>1. i \notin HiddenAt(t)
    BY DEF FolderPath
  <2> QED
    BY <1>1, <1>3, <2>1 DEF HiddenAt, Opens
<1>4. ASSUME NEW i \in 1..(n - 1) PROVE <<t[i], t[i + 1]>> \notin Bad
  <2>1. i + 1 \in 1..n /\ (i + 1) - 1 = i /\ i + 1 # 1
    BY <1>1
  <2>2. ~(t[i] = "." /\ t[i + 1] = ".")
    <3>1. i + 1 \in DOMAIN t \ {1}
      BY <1>1, <2>1
    <3> QED
      BY <2>1, <3>1 DEF FolderPath, GoesUp
  <2>3. t[i] = Slash => t[i + 1] # "."
    BY <1>3, <2>1
  <2>4. <<t[i], t[i + 1]>> # <<Slash, Slash>>
    BY DEF Normal, Smooth
  <2> QED
    BY <2>2, <2>3, <2>4 DEF Bad
<1>5. t[1] # "."
  BY <1>1, <1>3
<1> QED
  BY <1>1, <1>2, <1>4, <1>5 DEF Clean, Normal, Smooth

MoveEnd == <<".", "move">>

LEMMA MoveSuffix ==
  ASSUME NEW t \in Names
  PROVE  IsSuffix(<<".", "move">>, t) <=> IsMove(t)
<1> DEFINE n == Len(t)
           r == Reverse(t)
           s == Reverse(MoveEnd)
<1>1. n \in Nat /\ DOMAIN t = 1..n
  BY DEF Names
<1>2. r \in Names /\ Len(r) = n /\ \A i \in 1..n : r[i] = t[(n - i) + 1]
  <2>1. \A i \in 1..n : t[(n - i) + 1] \in Pieces
    BY <1>1 DEF Names
  <2> QED
    BY <1>1, <2>1 DEF Reverse, Names
<1>3. s = <<"move", ".">>
  <2>1. Len(MoveEnd) = 2 /\ MoveEnd[1] = "." /\ MoveEnd[2] = "move"
    BY DEF MoveEnd
  <2>2. s \in [1..2 -> {".", "move"}] /\ s[1] = "move" /\ s[2] = "."
    BY <2>1 DEF Reverse
  <2> HIDE DEF s
  <2> QED
    BY <2>2
<1>4. Len(s) = 2 /\ SubSeq(s, 1, 2) = <<"move", ".">>
  <2>1. <<"move", ".">> \in Seq({"move", "."}) /\ Len(<<"move", ".">>) = 2
    OBVIOUS
  <2> QED
    BY <1>3, <2>1, SubSeqFull
<1>5. IsSuffix(<<".", "move">>, t) <=> Len(s) <= Len(r) /\ SubSeq(s, 1, Len(s)) = SubSeq(r, 1, Len(s))
  BY DEF IsSuffix, IsPrefix, MoveEnd
<1> HIDE DEF r, s
<1>6. ASSUME n >= 2 PROVE SubSeq(r, 1, 2) = <<t[n], t[n - 1]>>
  <2>1. r[1] = t[n] /\ r[2] = t[n - 1]
    BY <1>1, <1>2, <1>6
  <2> DEFINE two == SubSeq(r, 1, 2)
  <2>2. two \in Seq(Pieces) /\ Len(two) = 2 /\ two[1] = r[1] /\ two[2] = r[2]
    <3>1. r[1] \in Pieces /\ r[2] \in Pieces
      BY <1>1, <1>2, <1>6 DEF Names
    <3>2. \A i \in 1..2 : r[i] \in Pieces
      BY <3>1
    <3> QED
      BY <3>2, SubSeqProperties
  <2> HIDE DEF two
  <2>3. two \in [1..2 -> Pieces]
    BY <2>2
  <2>4. two = <<t[n], t[n - 1]>>
    BY <2>1, <2>2, <2>3
  <2> QED
    BY <2>4 DEF two
<1>7. CASE n < 2
  BY <1>1, <1>2, <1>4, <1>5, <1>7 DEF IsMove
<1>8. CASE n >= 2
  <2>1. IsSuffix(<<".", "move">>, t) <=> <<"move", ".">> = <<t[n], t[n - 1]>>
    BY <1>1, <1>2, <1>4, <1>5, <1>6, <1>8
  <2>2. IsMove(t) <=> t[n - 1] = "." /\ t[n] = "move"
    BY <1>1, <1>8 DEF IsMove
  <2> QED
    BY <2>1, <2>2
<1> QED
  BY <1>1, <1>7, <1>8

GoodFile(p) == Clean(p) /\ (p = Toml \/ IsMove(p))

LEMMA Unhidden ==
  ASSUME NEW t, Clean(t)
  PROVE  HiddenAt(t) = {} /\ ~GoesUp(t)
<1> DEFINE n == Len(t)
<1>1. n \in Nat /\ DOMAIN t = 1..n
  BY DEF Clean, Names
<1>2. ASSUME NEW i \in DOMAIN t \ {1}
      PROVE  /\ ~(t[i - 1] = Slash /\ t[i] = ".")
             /\ ~(t[i - 1] = "." /\ t[i] = ".")
  <2>1. i - 1 \in 1..(n - 1) /\ (i - 1) + 1 = i
    BY <1>1
  <2>2. <<t[i - 1], t[i]>> \notin Bad
    BY <2>1 DEF Clean
  <2> QED
    BY <2>2 DEF Bad
<1>3. ~GoesUp(t)
  BY <1>2 DEF GoesUp
<1>4. ASSUME NEW i \in HiddenAt(t) PROVE FALSE
  <2>1. i \in DOMAIN t /\ t[i] = "." /\ (i = 1 \/ t[i - 1] = Slash)
    BY DEF HiddenAt, Opens
  <2>2. CASE i = 1
    BY <2>1, <2>2 DEF Clean
  <2>3. CASE i # 1
    BY <1>2, <2>1, <2>3
  <2> QED
    BY <2>2, <2>3
<1> QED
  BY <1>3, <1>4

LEMMA ExtensionIs ==
  ASSUME NEW t, Clean(t), Len(t) > 1, t[Len(t) - 1] = ".", t[Len(t)] \notin {".", Slash}
  PROVE  Extension(t) = <<t[Len(t)]>>
<1> DEFINE n == Len(t)
           dots == {i \in DOMAIN t : t[i] = "." /\ ~Opens(t, i)}
<1>1. t \in Names /\ n \in Nat /\ DOMAIN t = 1..n /\ n - 1 \in 1..n /\ n \in 1..n
  BY DEF Clean, Names
<1>2. n - 1 \in dots
  <2>1. n - 1 \notin HiddenAt(t)
    BY Unhidden
  <2> QED
    BY <1>1, <2>1 DEF HiddenAt
<1>3. dots \subseteq 1..n
  <2>1. dots \subseteq DOMAIN t
    OBVIOUS
  <2> HIDE DEF dots
  <2> QED
    BY <1>1, <2>1
<1>4. Max(dots) \in dots /\ \A i \in dots : Max(dots) >= i
  <2> HIDE DEF dots, n
  <2> QED
    BY <1>1, <1>2, <1>3, MaxIs
<1>5. Max(dots) = n - 1
  <2>1. Max(dots) >= n - 1 /\ Max(dots) \in 1..n
    BY <1>2, <1>3, <1>4
  <2>2. t[Max(dots)] = "."
    BY <1>4
  <2>3. Max(dots) # n
    BY <2>2
  <2> HIDE DEF dots
  <2> QED
    BY <1>1, <2>1, <2>3
<1>6. ~ \E i \in (n - 1)..n : t[i] = Slash
  <2>1. \A i \in (n - 1)..n : i = n - 1 \/ i = n
    <3> HIDE DEF n
    <3> QED
      BY <1>1
  <2> QED
    BY <2>1, SlashIs
<1>7. Extension(t) = SubSeq(t, (n - 1) + 1, n)
  BY <1>2, <1>5, <1>6 DEF Extension
<1>8. SubSeq(t, n, n) = <<t[n]>>
  <2> DEFINE last == SubSeq(t, n, n)
  <2>1. t[n] \in Pieces /\ \A i \in n..n : t[i] \in Pieces
    BY <1>1 DEF Names
  <2>2. last \in Seq(Pieces) /\ Len(last) = 1 /\ last[1] = t[n]
    <3> HIDE DEF n
    <3> QED
      BY <1>1, <2>1, SubSeqProperties
  <2> HIDE DEF last
  <2>3. last \in [1..1 -> Pieces]
    BY <2>2
  <2>4. last = <<t[n]>>
    BY <2>2, <2>3
  <2> QED
    BY <2>4 DEF last
<1> QED
  BY <1>1, <1>7, <1>8

LEMMA TomlGood == GoodFile(Toml)
<1>1. /\ Toml \in Names /\ Len(Toml) = 3 /\ Toml # <<>>
      /\ Toml[1] = "Move" /\ Toml[2] = "." /\ Toml[3] = "toml"
  BY DEF Toml, Names, Pieces
<1>2. \A i \in 1..3 : i = 1 \/ i = 2 \/ i = 3
  OBVIOUS
<1>3. \A i \in 1..(3 - 1) : i = 1 \/ i = 2
  OBVIOUS
<1>4. <<Toml[1], Toml[1 + 1]>> \notin Bad /\ <<Toml[2], Toml[2 + 1]>> \notin Bad
  <2>1. Toml[1 + 1] = "." /\ Toml[2 + 1] = "toml"
    BY <1>1
  <2> HIDE DEF Toml
  <2> QED
    BY <1>1, <2>1 DEF Bad, Slash
<1> HIDE DEF Toml
<1>5. Clean(Toml)
  BY <1>1, <1>2, <1>3, <1>4 DEF Clean, Slash
<1> QED
  BY <1>5 DEF GoodFile

LEMMA MainGood == GoodFile(Main)
<1>1. /\ Main \in Names /\ Len(Main) = 5 /\ Main # <<>>
      /\ Main[1] = "sources" /\ Main[2] = Slash /\ Main[3] = "main" /\ Main[4] = "."
      /\ Main[5] = "move"
  BY DEF Main, Names, Pieces
<1>2. \A i \in 1..5 : i = 1 \/ i = 2 \/ i = 3 \/ i = 4 \/ i = 5
  OBVIOUS
<1>3. \A i \in 1..(5 - 1) : i = 1 \/ i = 2 \/ i = 3 \/ i = 4
  OBVIOUS
<1>4. /\ <<Main[1], Main[1 + 1]>> \notin Bad /\ <<Main[2], Main[2 + 1]>> \notin Bad
      /\ <<Main[3], Main[3 + 1]>> \notin Bad /\ <<Main[4], Main[4 + 1]>> \notin Bad
  BY <1>1 DEF Bad, Slash
<1> HIDE DEF Main
<1>5. Clean(Main)
  BY <1>1, <1>2, <1>3, <1>4 DEF Clean, Slash
<1>6. IsMove(Main)
  BY <1>1 DEF IsMove
<1> QED
  BY <1>5, <1>6 DEF GoodFile

\* The backend takes every path the page makes.
LEMMA GoodServed ==
  ASSUME NEW p, GoodFile(p)
  PROVE  ServedPath(p)
<1>1. Clean(p) /\ HiddenAt(p) = {} /\ ~GoesUp(p)
  BY Unhidden DEF GoodFile
<1>2. p[1] \notin {Slash, "\\"}
  <2>1. 1 \in 1..Len(p)
    BY <1>1 DEF Clean, Names
  <2> QED
    BY <1>1, <2>1 DEF Clean
<1>3. CASE IsMove(p)
  <2>1. Extension(p) = <<"move">>
    BY <1>1, <1>3, ExtensionIs, SlashIs DEF IsMove
  <2> QED
    BY <1>1, <1>2, <2>1 DEF ServedPath
<1>4. CASE p = Toml
  <2>1. Len(p) = 3 /\ p[2] = "." /\ p[3] = "toml" /\ 3 - 1 = 2
    BY <1>4 DEF Toml
  <2>2. Slash # "toml"
    BY DEF Slash
  <2>3. Len(p) > 1 /\ p[Len(p) - 1] = "." /\ p[Len(p)] \notin {".", Slash}
    BY <2>1, <2>2
  <2>4. Extension(p) = <<"toml">>
    BY <1>1, <2>1, <2>3, ExtensionIs
  <2> QED
    BY <1>1, <1>2, <2>4 DEF ServedPath
<1> QED
  BY <1>3, <1>4 DEF GoodFile

-----------------------------------------------------------------------------
(* The invariant of the files. *)

Sized(sizes) ==
  /\ IsFiniteSet(DOMAIN sizes)
  /\ \A p \in DOMAIN sizes : GoodFile(p) /\ sizes[p] \in 0..(MaxSize + 1)

WorkspaceInv ==
  /\ Sized(files)
  /\ \A d \in virtual : Clean(d)

LEMMA TextsNormal ==
  ASSUME NEW t \in Texts
  PROVE  Normal(t)
<1>1. PICK value \in Typed : t = NormalizePath(value)
  BY DEF Texts
<1>2. value \in Names
  BY TypedType DEF Names, Pieces
<1> QED
  BY <1>1, <1>2, Normalized

LEMMA FilePathGood ==
  ASSUME NEW t, Normal(t), FilePath(t)
  PROVE  GoodFile(t)
BY FolderPathClean, MoveSuffix DEF FilePath, GoodFile, Clean

LEMMA FoldersClean ==
  ASSUME WorkspaceInv, NEW d \in Folders
  PROVE  Clean(d)
<1>1. ASSUME NEW p, Clean(p), NEW q \in Parents(p) PROVE Clean(q)
  <2>1. PICK i \in DOMAIN p : p[i] = Slash /\ q = SubSeq(p, 1, i - 1)
    BY DEF Parents
  <2>2. i \in 1..Len(p)
    BY <1>1 DEF Clean, Names
  <2> QED
    BY <1>1, <2>1, <2>2, BeforeSlash
<1>2. \A p \in DOMAIN files : Clean(p)
  BY DEF WorkspaceInv, Sized, GoodFile
<1>3. \A p \in virtual : Clean(p)
  BY DEF WorkspaceInv
<1> QED
  BY <1>1, <1>2, <1>3 DEF Folders

LEMMA MovedSized ==
  ASSUME Sized(files), NEW to, DOMAIN to \subseteq DOMAIN files,
         \A p \in DOMAIN to : GoodFile(to[p])
  PROVE  Sized(Moved(to))
<1> DEFINE new == Moved(to)
           all == (DOMAIN files \ DOMAIN to) \cup Range(to)
<1>1. IsFiniteSet(all)
  <2>1. IsFiniteSet(DOMAIN files)
    BY DEF Sized
  <2>2. IsFiniteSet(DOMAIN to) /\ IsFiniteSet(DOMAIN files \ DOMAIN to)
    BY <2>1, FS_Subset
  <2>3. IsFiniteSet(Range(to))
    <3> DEFINE f == [p \in DOMAIN to |-> to[p]]
    <3>1. f \in Surjection(DOMAIN to, Range(to))
      BY DEF Surjection, Range
    <3> HIDE DEF f
    <3> QED
      BY <2>2, <3>1, FS_Surjection
  <2> QED
    BY <2>2, <2>3, FS_Union
<1>2. DOMAIN new = all
  BY DEF Moved
<1>3. ASSUME NEW q \in all PROVE GoodFile(q) /\ new[q] \in 0..(MaxSize + 1)
  <2>1. CASE q \in Range(to)
    <3> DEFINE p == CHOOSE x \in DOMAIN to : to[x] = q
    <3>1. p \in DOMAIN to /\ to[p] = q
      BY <2>1 DEF Range
    <3>2. new[q] = files[p]
      BY <2>1 DEF Moved
    <3> HIDE DEF p
    <3> QED
      BY <3>1, <3>2 DEF Sized
  <2>2. CASE q \notin Range(to)
    <3>1. q \in DOMAIN files /\ new[q] = files[q]
      BY <2>2 DEF Moved
    <3> QED
      BY <3>1 DEF Sized
  <2> QED
    BY <2>1, <2>2
<1> QED
  BY <1>1, <1>2, <1>3 DEF Sized

LEMMA MoveFileOK ==
  ASSUME WorkspaceInv, NEW p \in DOMAIN files, NEW new, GoodFile(new), MoveFile(p, new)
  PROVE  WorkspaceInv'
<1> DEFINE to == [q \in {p} |-> new]
<1>1. DOMAIN to \subseteq DOMAIN files /\ \A q \in DOMAIN to : GoodFile(to[q])
  OBVIOUS
<1>2. files' = Moved(to) /\ virtual' = virtual
  BY DEF MoveFile
<1>3. Sized(Moved(to))
  <2> HIDE DEF to
  <2> QED
    BY <1>1, MovedSized DEF WorkspaceInv
<1> QED
  BY <1>2, <1>3 DEF WorkspaceInv

LEMMA UnderSlash ==
  ASSUME NEW old, NEW p, Clean(old), Clean(p), Under(old, p)
  PROVE  \E i \in 1..Len(p) : p[i] = Slash
<1> DEFINE k == Len(old)
           n == Len(p)
<1>1. p \in Names /\ old \in Names /\ n \in Nat /\ k \in Nat
  BY DEF Clean, Names
<1>2. /\ Append(old, Slash) \in Names /\ Len(Append(old, Slash)) = k + 1
      /\ Append(old, Slash)[k + 1] = Slash
  BY <1>1, SlashIs, AppendProperties DEF Names
<1>3. k + 1 <= n /\ SubSeq(Append(old, Slash), 1, k + 1) = SubSeq(p, 1, k + 1)
  BY <1>2 DEF Under, IsStrictPrefix, IsPrefix
<1>4. p[k + 1] = Slash
  <2>1. /\ SubSeq(Append(old, Slash), 1, k + 1)[k + 1] = Append(old, Slash)[k + 1]
        /\ SubSeq(p, 1, k + 1)[k + 1] = p[k + 1]
    BY <1>1, <1>2, <1>3, SubSeqProperties DEF Names
  <2> QED
    BY <1>2, <1>3, <2>1
<1> QED
  BY <1>1, <1>3, <1>4

LEMMA MoveFolderOK ==
  ASSUME WorkspaceInv, NEW old, NEW new, Clean(old), Clean(new), MoveFolder(old, new)
  PROVE  WorkspaceInv'
<1> DEFINE inside  == {p \in DOMAIN files : Under(old, p)}
           folders == {d \in virtual : d = old \/ Under(old, d)}
           to      == [p \in inside |-> Swap(p, old, new)]
<1>1. /\ files' = Moved(to)
      /\ virtual' = (virtual \ folders) \cup
                    (IF folders = {} THEN {new} ELSE {Swap(d, old, new) : d \in folders})
  BY DEF MoveFolder
<1>2. ASSUME NEW p \in inside PROVE GoodFile(Swap(p, old, new))
  <2>1. GoodFile(p) /\ Under(old, p)
    BY DEF WorkspaceInv, Sized
  <2>2. p # Toml
    <3>1. PICK i \in 1..Len(p) : p[i] = Slash
      BY <2>1, UnderSlash DEF GoodFile
    <3>2. /\ Len(Toml) = 3 /\ \A j \in 1..3 : j = 1 \/ j = 2 \/ j = 3
          /\ Toml[1] # Slash /\ Toml[2] # Slash /\ Toml[3] # Slash
      BY DEF Toml, Slash
    <3> QED
      BY <3>1, <3>2
  <2> QED
    BY <2>1, <2>2, Swaps DEF GoodFile
<1>3. Sized(Moved(to))
  <2>1. DOMAIN to \subseteq DOMAIN files /\ \A p \in DOMAIN to : GoodFile(to[p])
    BY <1>2
  <2> HIDE DEF to
  <2> QED
    BY <2>1, MovedSized DEF WorkspaceInv
<1>4. ASSUME NEW d \in folders PROVE Clean(Swap(d, old, new))
  <2>1. Clean(d) /\ (d = old \/ Under(old, d))
    BY DEF WorkspaceInv
  <2>2. CASE d = old
    BY <2>2, SwapsWhole
  <2>3. CASE Under(old, d)
    BY <2>1, <2>3, Swaps
  <2> QED
    BY <2>1, <2>2, <2>3
<1> HIDE DEF to
<1>5. \A d \in virtual' : Clean(d)
  BY <1>1, <1>4 DEF WorkspaceInv
<1> QED
  BY <1>1, <1>3, <1>5 DEF WorkspaceInv

LEMMA CreateFileOK ==
  ASSUME WorkspaceInv, NEW t, Normal(t), CreateFile(t)
  PROVE  WorkspaceInv'
<1> DEFINE new == [q \in DOMAIN files \cup {t} |-> IF q = t THEN 0 ELSE files[q]]
<1>1. files' = new /\ virtual' = virtual /\ GoodFile(t)
  BY FilePathGood DEF CreateFile
<1>2. IsFiniteSet(DOMAIN new)
  BY FS_AddElement DEF WorkspaceInv, Sized
<1>3. ASSUME NEW q \in DOMAIN new PROVE GoodFile(q) /\ new[q] \in 0..(MaxSize + 1)
  <2>1. 0 \in 0..(MaxSize + 1)
    BY LimitsType
  <2> QED
    BY <1>1, <2>1 DEF WorkspaceInv, Sized
<1>4. Sized(new)
  <2> HIDE DEF new
  <2> QED
    BY <1>2, <1>3 DEF Sized
<1> QED
  BY <1>1, <1>4 DEF WorkspaceInv

LEMMA TypeOfSize ==
  ASSUME WorkspaceInv, NEW p \in DOMAIN files, Type(p)
  PROVE  WorkspaceInv'
<1>1. PICK size \in 0..(MaxSize + 1) : files' = [files EXCEPT ![p] = size] /\ virtual' = virtual
  BY DEF Type
<1>2. /\ DOMAIN files' = DOMAIN files
      /\ \A q \in DOMAIN files : files'[q] = IF q = p THEN size ELSE files[q]
  BY <1>1
<1> QED
  BY <1>1, <1>2 DEF WorkspaceInv, Sized

LEMMA ExploreOK ==
  ASSUME WorkspaceInv, Explore
  PROVE  WorkspaceInv' /\ UNCHANGED request
<1>1. CASE \E t \in Texts :
             \/ CreateFile(t) \/ CreateFolder(t)
             \/ \E p \in DOMAIN files : RenameFile(p, t)
             \/ \E d \in Folders : RenameFolder(d, t)
  <2>1. PICK t \in Texts : \/ CreateFile(t) \/ CreateFolder(t)
                           \/ \E p \in DOMAIN files : RenameFile(p, t)
                           \/ \E d \in Folders : RenameFolder(d, t)
    BY <1>1
  <2>2. Normal(t)
    BY TextsNormal
  <2>3. CASE CreateFile(t)
    BY <2>2, <2>3, CreateFileOK DEF CreateFile
  <2>4. CASE CreateFolder(t)
    <3>1. Clean(t) /\ files' = files /\ virtual' = virtual \cup {t} /\ UNCHANGED request
      BY <2>2, <2>4, FolderPathClean DEF CreateFolder
    <3> QED
      BY <3>1 DEF WorkspaceInv
  <2>5. CASE \E p \in DOMAIN files : RenameFile(p, t)
    BY <2>2, <2>5, FilePathGood, MoveFileOK DEF RenameFile, MoveFile
  <2>6. CASE \E d \in Folders : RenameFolder(d, t)
    BY <2>2, <2>6, FolderPathClean, FoldersClean, MoveFolderOK DEF RenameFolder, MoveFolder
  <2> QED
    BY <2>1, <2>3, <2>4, <2>5, <2>6
<1>2. CASE \E dir \in Folders \cup {<<>>} :
             \/ \E p \in DOMAIN files : DropFile(p, dir)
             \/ \E d \in Folders : DropFolder(d, dir)
  <2>1. PICK dir \in Folders \cup {<<>>} : \/ \E p \in DOMAIN files : DropFile(p, dir)
                                           \/ \E d \in Folders : DropFolder(d, dir)
    BY <1>2
  <2>2. dir = <<>> \/ Clean(dir)
    BY FoldersClean
  <2>3. CASE \E p \in DOMAIN files : DropFile(p, dir)
    <3>1. PICK p \in DOMAIN files : MoveFile(p, Destination(dir, p))
      BY <2>3 DEF DropFile
    <3>2. Clean(p) /\ IsMove(p)
      BY <3>1 DEF MoveFile, WorkspaceInv, Sized, GoodFile
    <3>3. GoodFile(Destination(dir, p))
      BY <2>2, <3>2, Destinations DEF GoodFile
    <3> QED
      BY <3>1, <3>3, MoveFileOK DEF MoveFile
  <2>4. CASE \E d \in Folders : DropFolder(d, dir)
    <3>1. PICK d \in Folders : MoveFolder(d, Destination(dir, d))
      BY <2>4 DEF DropFolder
    <3>2. Clean(d)
      BY FoldersClean
    <3>3. Clean(Destination(dir, d))
      BY <2>2, <3>2, Destinations
    <3> QED
      BY <3>1, <3>2, <3>3, MoveFolderOK DEF MoveFolder
  <2> QED
    BY <2>1, <2>3, <2>4
<1>3. CASE \E p \in DOMAIN files : Type(p)
  BY <1>3, TypeOfSize DEF Type
<1> QED
  BY <1>1, <1>2, <1>3 DEF Explore

-----------------------------------------------------------------------------
(* The requests. *)

Verdicts == {"none", "count", "size", "path", "manifest", "address", "entry", "valid", "done"}

RequestInv ==
  /\ Sized(sent)
  /\ verdict \in Verdicts \ {"path"}

LEMMA NoFilesSized == Sized(NoFiles)
<1>1. DOMAIN NoFiles = {}
  BY DEF NoFiles
<1> QED
  BY <1>1, FS_EmptySet DEF Sized

LEMMA SubmitOK ==
  ASSUME WorkspaceInv, RequestInv, Submit
  PROVE  WorkspaceInv' /\ RequestInv' /\ verdict' # "done"
<1>1. UNCHANGED workspace /\ sent' = files /\ Sized(files)
  BY DEF Submit, WorkspaceInv
<1>2. ASSUME NEW p \in DOMAIN files PROVE ServedPath(p)
  BY <1>1, GoodServed DEF Sized
<1>3. ValidateFiles(files) \in {"count", "size", "valid"}
  BY <1>2 DEF ValidateFiles
<1>4. \A r \in BOOLEAN, m \in Manifests, a \in Addresses, e \in Entries :
        Validate(files, r, m, a, e) \in {"manifest", "address", "entry", "valid"}
  BY DEF Validate
<1>5. verdict' \in Verdicts \ {"path", "done"}
  BY <1>3, <1>4 DEF Submit, Verdicts
<1> QED
  BY <1>1, <1>5 DEF RequestInv, WorkspaceInv, workspace

-----------------------------------------------------------------------------
(* The places of the errors. *)

OutputsOK == verdict \in {"valid", "done"} => stdout \in Seq(Line) /\ stderr \in Seq(Line)

\* The lines of the output that say where a diagnostic of one of the ways is.
Hit(output, ways, i) ==
  i < Len(output) /\ output[i] \in Openings(ways) /\ output[i + 1] \in Places

Hits(output, ways) == {output[i + 1] : i \in {j \in 1..Len(output) : Hit(output, ways, j)}}

Note(output, ways, places, i) ==
  IF Hit(output, ways, i) THEN Append(places, output[i + 1]) ELSE places

LEMMA NotesRun ==
  ASSUME NEW output \in Seq(Line), NEW ways
  PROVE  \E g \in [0..Len(output) -> Seq(Places)] :
           /\ g[0] = <<>>
           /\ \A k \in 1..Len(output) : g[k] = Note(output, ways, g[k - 1], k)
           /\ Found(output, ways) = g[Len(output)]
<1> DEFINE n == Len(output)
           A == Seq(Places)
           at == [i \in DOMAIN output |-> i]
           add(places, i) == Note(output, ways, places, i)
           Op == [p \in A \X (1..n) |-> add(p[1], p[2])]
<1>1. n \in Nat /\ DOMAIN output = 1..n /\ DOMAIN at = 1..n /\ \A i \in 1..n : at[i] = i
  OBVIOUS
<1>2. <<>> \in A
  OBVIOUS
<1>3. Op \in [A \X (1..n) -> A]
  <2>1. ASSUME NEW places \in A, NEW i \in 1..n PROVE add(places, i) \in A
    BY <1>1, AppendProperties DEF Note, Hit
  <2> HIDE DEF A, add
  <2> QED
    BY <2>1
<1> HIDE DEF add, A
<1>4. PICK f : Folding(f, A, <<>>, n, Op)
  <2> HIDE DEF Op, n
  <2> QED
    BY <1>1, <1>2, <1>3, FoldExists
<1> DEFINE Body(h, s) == IF s = {} THEN <<>> ELSE add(h[s \ {Max(s)}], at[Max(s)])
<1>5. f = [s \in SUBSET (1..n) |-> Body(f, s)]
  <2>1. ASSUME NEW s \in SUBSET (1..n) PROVE f[s] = Body(f, s)
    <3>1. s # {} => Max(s) \in 1..n
      BY <1>1, MaxIs
    <3>2. f[s \ {Max(s)}] \in A
      BY <1>4 DEF Folding
    <3> QED
      BY <1>1, <1>4, <3>1, <3>2 DEF Folding
  <2> HIDE DEF Body
  <2> QED
    BY <1>4, <2>1 DEF Folding
<1> DEFINE iter == CHOOSE h : h = [s \in SUBSET (1..n) |-> Body(h, s)]
<1>6. iter = [s \in SUBSET (1..n) |-> Body(iter, s)]
  <2> HIDE DEF Body
  <2> QED
    BY <1>5
<1>7. Found(output, ways) = iter[1..n]
  BY <1>1 DEF Found, FoldLeftDomain, FoldLeft, MapThenFoldSet, add, Note, Hit
<1> HIDE DEF iter
<1>8. Ran(iter, A, <<>>, n, Op)
  <2>1. iter[{}] = <<>>
    BY <1>6
  <2>2. ASSUME NEW s \in SUBSET (1..n), s # {}, iter[s \ {Max(s)}] \in A
        PROVE  iter[s] = Op[iter[s \ {Max(s)}], Max(s)]
    <3>1. Max(s) \in 1..n
      BY <1>1, <2>2, MaxIs
    <3> QED
      BY <1>1, <1>6, <2>2, <3>1
  <2>3. Following(iter, A, <<>>, n, Op)
    BY <2>1, <2>2 DEF Following
  <2> HIDE DEF n, Op
  <2> QED
    BY <1>1, <1>2, <1>3, <2>3, FoldRuns
<1>9. PICK g : Running(g, A, <<>>, n, Op) /\ g[n] = iter[1..n]
  BY <1>8 DEF Ran
<1>10. ASSUME NEW k \in 1..n PROVE g[k] = add(g[k - 1], k)
  <2>1. k - 1 \in 0..n
    BY <1>1
  <2> QED
    BY <1>9, <2>1 DEF Running
<1> HIDE DEF Op
<1> QED
  BY <1>7, <1>9, <1>10 DEF Running, A, add

\* parse_errors finds these lines and no others.
LEMMA FoundHits ==
  ASSUME NEW output \in Seq(Line), NEW ways
  PROVE  Found(output, ways) \in Seq(Places) /\ ToSet(Found(output, ways)) = Hits(output, ways)
<1> DEFINE n == Len(output)
<1>1. n \in Nat
  OBVIOUS
<1>2. PICK g \in [0..n -> Seq(Places)] :
        /\ g[0] = <<>>
        /\ \A k \in 1..n : g[k] = Note(output, ways, g[k - 1], k)
        /\ Found(output, ways) = g[n]
  BY NotesRun
<1> DEFINE Upto(k) == {output[i + 1] : i \in {j \in 1..k : Hit(output, ways, j)}}
           S == {k \in Nat : k <= n => ToSet(g[k]) = Upto(k)}
<1>3. 0 \in S
  <2>1. g[0] = <<>> /\ DOMAIN <<>> = {} /\ 1..0 = {}
    BY <1>2
  <2> QED
    BY <2>1 DEF ToSet
<1>4. ASSUME NEW k \in Nat, k \in S PROVE k + 1 \in S
  <2> SUFFICES ASSUME k + 1 \in 1..n PROVE ToSet(g[k + 1]) = Upto(k + 1)
    BY <1>1
  <2>1. (k + 1) - 1 = k /\ k \in 0..n /\ g[k] \in Seq(Places) /\ ToSet(g[k]) = Upto(k)
    <3> HIDE DEF Upto, n
    <3>1. k \in 0..n
      BY <1>1
    <3> QED
      BY <1>2, <1>4, <3>1
  <2>2. g[k + 1] = Note(output, ways, g[k], k + 1)
    BY <1>2, <2>1
  <2>3. \A i : i \in 1..(k + 1) <=> i \in 1..k \/ i = k + 1
    BY <2>1
  <2>4. CASE Hit(output, ways, k + 1)
    <3> DEFINE next == output[(k + 1) + 1]
    <3>1. g[k + 1] = Append(g[k], next) /\ next \in Places
      BY <2>2, <2>4 DEF Note, Hit
    <3>2. ToSet(g[k + 1]) = ToSet(g[k]) \cup {next}
      <4> DEFINE m == Len(g[k])
      <4> HIDE DEF next
      <4>1. m \in Nat /\ DOMAIN g[k] = 1..m
        BY <2>1
      <4>2. /\ DOMAIN g[k + 1] = 1..(m + 1) /\ g[k + 1][m + 1] = next
            /\ \A i \in 1..m : g[k + 1][i] = g[k][i]
        BY <2>1, <3>1, AppendProperties
      <4>3. \A i : i \in 1..(m + 1) <=> i \in 1..m \/ i = m + 1
        BY <4>1
      <4> HIDE DEF m
      <4> QED
        BY <4>1, <4>2, <4>3 DEF ToSet
    <3>3. Upto(k + 1) = Upto(k) \cup {next}
      BY <2>3, <2>4
    <3> QED
      BY <2>1, <3>2, <3>3
  <2>5. CASE ~Hit(output, ways, k + 1)
    <3>1. g[k + 1] = g[k]
      BY <2>2, <2>5 DEF Note
    <3>2. Upto(k + 1) = Upto(k)
      BY <2>3, <2>5
    <3> QED
      BY <2>1, <3>1, <3>2
  <2> QED
    BY <2>4, <2>5
<1>5. Nat \subseteq S
  <2> HIDE DEF S
  <2> QED
    BY <1>3, <1>4, Induction
<1>6. ToSet(g[n]) = Upto(n) /\ g[n] \in Seq(Places)
  <2> HIDE DEF Upto, n
  <2>1. n \in S /\ n \in 0..n
    BY <1>1, <1>5
  <2> QED
    BY <1>2, <2>1
<1> QED
  BY <1>2, <1>6 DEF Hits

\* The errors come one after the other: those with a code first, as base, and
\* then what the other pattern finds, unless its place is known.
Spots     == [file : DOMAIN sent, line : 1..MaxLine]
Mistakes  == [where : Spots, severity : {"error"}, coded : BOOLEAN]
Reported  == Seq(Mistakes)

Add(found, report) == IF Known(found, report) THEN found ELSE Append(found, report)

LEMMA AddType ==
  ASSUME NEW found \in Reported, NEW report \in Mistakes
  PROVE  Add(found, report) \in Reported
BY AppendProperties DEF Add, Reported

LEMMA AddsRun ==
  ASSUME NEW base \in Reported, NEW reports \in Reported
  PROVE  \E g \in [0..Len(reports) -> Reported] :
           /\ g[0] = base
           /\ \A k \in 1..Len(reports) : g[k] = Add(g[k - 1], reports[k])
           /\ FoldLeft(Add, base, reports) = g[Len(reports)]
<1> DEFINE n == Len(reports)
           Op == [p \in Reported \X (1..n) |-> Add(p[1], reports[p[2]])]
<1>1. n \in Nat /\ DOMAIN reports = 1..n /\ \A i \in 1..n : reports[i] \in Mistakes
  BY DEF Reported
<1>2. Op \in [Reported \X (1..n) -> Reported]
  <2>1. ASSUME NEW found \in Reported, NEW i \in 1..n PROVE Add(found, reports[i]) \in Reported
    BY <1>1, AddType
  <2> QED
    BY <2>1
<1>3. PICK f : Folding(f, Reported, base, n, Op)
  <2> HIDE DEF Op, n
  <2> QED
    BY <1>1, <1>2, FoldExists
<1> DEFINE Body(h, s) == IF s = {} THEN base ELSE Add(h[s \ {Max(s)}], reports[Max(s)])
<1>4. f = [s \in SUBSET (1..n) |-> Body(f, s)]
  <2>1. ASSUME NEW s \in SUBSET (1..n) PROVE f[s] = Body(f, s)
    <3>1. s # {} => Max(s) \in 1..n
      BY <1>1, MaxIs
    <3>2. f[s \ {Max(s)}] \in Reported
      BY <1>3 DEF Folding
    <3> QED
      BY <1>3, <3>1, <3>2 DEF Folding
  <2> HIDE DEF Body
  <2> QED
    BY <1>3, <2>1 DEF Folding
<1> DEFINE iter == CHOOSE h : h = [s \in SUBSET (1..n) |-> Body(h, s)]
<1>5. iter = [s \in SUBSET (1..n) |-> Body(iter, s)]
  <2> HIDE DEF Body
  <2> QED
    BY <1>4
<1>6. FoldLeft(Add, base, reports) = iter[1..n]
  BY <1>1 DEF FoldLeft, MapThenFoldSet
<1> HIDE DEF iter
<1>7. Ran(iter, Reported, base, n, Op)
  <2>1. iter[{}] = base
    BY <1>5
  <2>2. ASSUME NEW s \in SUBSET (1..n), s # {}, iter[s \ {Max(s)}] \in Reported
        PROVE  iter[s] = Op[iter[s \ {Max(s)}], Max(s)]
    <3>1. Max(s) \in 1..n
      BY <1>1, <2>2, MaxIs
    <3> QED
      BY <1>5, <2>2, <3>1
  <2>3. Following(iter, Reported, base, n, Op)
    BY <2>1, <2>2 DEF Following
  <2> HIDE DEF n, Op
  <2> QED
    BY <1>1, <1>2, <2>3, FoldRuns
<1>8. PICK g : Running(g, Reported, base, n, Op) /\ g[n] = iter[1..n]
  BY <1>7 DEF Ran
<1>9. ASSUME NEW k \in 1..n PROVE g[k] = Add(g[k - 1], reports[k])
  <2>1. k - 1 \in 0..n
    BY <1>1
  <2> QED
    BY <1>8, <2>1 DEF Running
<1> QED
  BY <1>6, <1>8, <1>9 DEF Running

\* The found errors start with base, have all places of the first k reports, and
\* no place twice but those that base has twice.
Gathered(found, base, reports, k) ==
  /\ found \in Reported /\ Len(base) <= Len(found)
  /\ \A i \in 1..Len(base) : found[i] = base[i]
  /\ \A j \in 1..k : \E i \in 1..Len(found) : found[i].where = reports[j].where
  /\ \A i, j \in 1..Len(found) :
       found[i].where = found[j].where /\ i # j => i <= Len(base) /\ j <= Len(base)

LEMMA AddGathers ==
  ASSUME NEW base \in Reported, NEW reports \in Reported, NEW k \in Nat,
         k + 1 \in 1..Len(reports), NEW found, Gathered(found, base, reports, k)
  PROVE  Gathered(Add(found, reports[k + 1]), base, reports, k + 1)
<1> DEFINE report == reports[k + 1]
           new    == Add(found, report)
           b      == Len(base)
           m      == Len(found)
<1>1. /\ b \in Nat /\ m \in Nat /\ DOMAIN found = 1..m /\ found \in Reported /\ b <= m
      /\ report \in Mistakes
  BY DEF Gathered, Reported
<1>2. \A j : j \in 1..(k + 1) <=> j \in 1..k \/ j = k + 1
  OBVIOUS
<1>3. CASE Known(found, report)
  <2>1. new = found
    BY <1>3 DEF Add
  <2>2. \E i \in 1..m : found[i].where = report.where
    BY <1>1, <1>3 DEF Known
  <2>3. \A j \in 1..(k + 1) : \E i \in 1..m : found[i].where = reports[j].where
    BY <1>2, <2>2 DEF Gathered
  <2> QED
    BY <2>1, <2>3 DEF Gathered
<1>4. CASE ~Known(found, report)
  <2>1. new = Append(found, report)
    BY <1>4 DEF Add
  <2>2. \A i \in 1..m : found[i].where # report.where
    BY <1>1, <1>4 DEF Known
  <2>3. /\ new \in Reported /\ Len(new) = m + 1 /\ new[m + 1] = report
        /\ \A i \in 1..m : new[i] = found[i]
    BY <1>1, <2>1, AppendProperties DEF Reported
  <2> HIDE DEF new
  <2>4. \A i : i \in 1..(m + 1) <=> i \in 1..m \/ i = m + 1
    BY <1>1
  <2>5. \A i \in 1..b : new[i] = base[i]
    BY <1>1, <2>3 DEF Gathered
  <2>6. \A j \in 1..(k + 1) : \E i \in 1..(m + 1) : new[i].where = reports[j].where
    <3>1. ASSUME NEW j \in 1..k PROVE \E i \in 1..(m + 1) : new[i].where = reports[j].where
      <4>1. PICK i \in 1..m : found[i].where = reports[j].where
        BY DEF Gathered
      <4> QED
        BY <2>3, <2>4, <4>1
    <3>2. new[m + 1].where = reports[k + 1].where /\ m + 1 \in 1..(m + 1)
      BY <2>3, <2>4
    <3> QED
      BY <1>2, <3>1, <3>2
  <2>7. ASSUME NEW i \in 1..(m + 1), NEW j \in 1..(m + 1), new[i].where = new[j].where, i # j
        PROVE  i <= b /\ j <= b
    <3>1. i \in 1..m /\ j \in 1..m
      BY <2>2, <2>3, <2>4, <2>7
    <3> QED
      BY <2>3, <2>7, <3>1 DEF Gathered
  <2>8. Gathered(new, base, reports, k + 1)
    <3> HIDE DEF report
    <3>1. b <= m + 1
      BY <1>1
    <3> QED
      BY <2>3, <2>5, <2>6, <2>7, <3>1 DEF Gathered
  <2> QED
    BY <2>8 DEF new
<1> QED
  BY <1>3, <1>4

LEMMA AddsGather ==
  ASSUME NEW base \in Reported, NEW reports \in Reported
  PROVE  Gathered(FoldLeft(Add, base, reports), base, reports, Len(reports))
<1> DEFINE n == Len(reports)
<1>1. n \in Nat
  BY DEF Reported
<1>2. PICK g \in [0..n -> Reported] :
        /\ g[0] = base
        /\ \A k \in 1..n : g[k] = Add(g[k - 1], reports[k])
        /\ FoldLeft(Add, base, reports) = g[n]
  BY AddsRun
<1> DEFINE S == {k \in Nat : k <= n => Gathered(g[k], base, reports, k)}
<1>3. 0 \in S
  <2>1. g[0] = base /\ 1..0 = {} /\ Len(base) \in Nat
    BY <1>2 DEF Reported
  <2>2. Gathered(base, base, reports, 0)
    BY <2>1 DEF Gathered
  <2> QED
    BY <2>1, <2>2
<1>4. ASSUME NEW k \in Nat, k \in S PROVE k + 1 \in S
  <2> SUFFICES ASSUME k + 1 \in 1..n PROVE Gathered(g[k + 1], base, reports, k + 1)
    BY <1>1
  <2>1. (k + 1) - 1 = k /\ Gathered(g[k], base, reports, k)
    BY <1>1, <1>4
  <2>2. g[k + 1] = Add(g[k], reports[k + 1])
    BY <1>2, <2>1
  <2> QED
    BY <2>1, <2>2, AddGathers
<1>5. Nat \subseteq S
  <2> HIDE DEF S
  <2> QED
    BY <1>3, <1>4, Induction
<1> QED
  BY <1>1, <1>2, <1>5

LEMMA ReportsType ==
  ASSUME NEW places \in Seq(Places), NEW severity, NEW coded \in BOOLEAN
  PROVE  /\ DOMAIN Reports(places, severity, coded) = 1..Len(places)
         /\ \A k \in 1..Len(places) :
              /\ Reports(places, severity, coded)[k] =
                   [where |-> Where(places[k]), severity |-> severity, coded |-> coded]
              /\ Where(places[k]) \in Spots
         /\ Reports(places, severity, coded) \in
              Seq([where : Spots, severity : {severity}, coded : BOOLEAN])
         /\ Len(Reports(places, severity, coded)) = Len(places)
<1> DEFINE n == Len(places)
           reports == Reports(places, severity, coded)
<1>1. n \in Nat /\ DOMAIN places = 1..n /\ \A k \in 1..n : places[k] \in Places
  OBVIOUS
<1>2. ASSUME NEW place \in Places PROVE Where(place) \in Spots
  <2>1. place.file \in DOMAIN sent /\ place.line \in Nat \ {0} /\ MaxLine \in Nat \ {0}
    BY LinesType DEF Places
  <2>2. (IF place.line > MaxLine THEN 1 ELSE place.line) \in 1..MaxLine
    BY <2>1
  <2> QED
    BY <2>1, <2>2 DEF Where, Spots
<1>3. reports = [k \in 1..n |-> [where |-> Where(places[k]), severity |-> severity, coded |-> coded]]
  BY <1>1 DEF Reports
<1>4. \A k \in 1..n : reports[k] \in [where : Spots, severity : {severity}, coded : BOOLEAN]
  BY <1>1, <1>2, <1>3
<1>5. reports \in Seq([where : Spots, severity : {severity}, coded : BOOLEAN]) /\ Len(reports) = n
  <2>1. DOMAIN reports = 1..n
    BY <1>3
  <2> HIDE DEF reports
  <2> QED
    BY <1>1, <1>3, <1>4, <2>1
<1> QED
  BY <1>1, <1>2, <1>3, <1>5

\* What is right of the errors shown for an output.
Complete(shown, output) ==
  \A p \in Hits(output, Coded \cup Simple) :
    \E i \in DOMAIN shown : shown[i].severity = "error" /\ shown[i].where = Where(p)

Distinct(shown) ==
  \A i, j \in DOMAIN shown :
    /\ shown[i].severity = "error" /\ shown[j].severity = "error"
    /\ shown[i].where = shown[j].where /\ i # j
    => shown[i].coded /\ shown[j].coded

PlacesTyped(shown) ==
  \A i \in DOMAIN shown : shown[i].where \in Spots /\ shown[i].severity \in {"error", "warning"}

ErrorsInv ==
  IF verdict = "done" THEN PlacesTyped(errors) /\ Distinct(errors) /\
                           Complete(errors, stdout) /\ Complete(errors, stderr)
  ELSE errors = <<>>

LEMMA HitsOfConcat ==
  ASSUME NEW out \in Seq(Line), NEW err \in Seq(Line), NEW ways
  PROVE  Hits(out, ways) \cup Hits(err, ways) \subseteq Hits(out \o err, ways)
<1> DEFINE n == Len(out)
           m == Len(err)
           all == out \o err
<1>1. /\ n \in Nat /\ m \in Nat /\ all \in Seq(Line) /\ Len(all) = n + m
      /\ \A i \in 1..(n + m) : all[i] = IF i <= n THEN out[i] ELSE err[i - n]
  BY ConcatProperties
<1> HIDE DEF all
<1>2. ASSUME NEW i \in 1..n, Hit(out, ways, i) PROVE out[i + 1] \in Hits(all, ways)
  <2>1. i < n /\ i \in 1..(n + m) /\ i + 1 \in 1..(n + m) /\ i <= n /\ i + 1 <= n /\ i < n + m
    BY <1>1, <1>2 DEF Hit
  <2>2. all[i] = out[i] /\ all[i + 1] = out[i + 1]
    BY <1>1, <2>1
  <2> QED
    BY <1>1, <1>2, <2>1, <2>2 DEF Hit, Hits
<1>3. ASSUME NEW i \in 1..m, Hit(err, ways, i) PROVE err[i + 1] \in Hits(all, ways)
  <2>1. /\ i < m /\ n + i \in 1..(n + m) /\ (n + i) + 1 \in 1..(n + m)
        /\ ~(n + i <= n) /\ ~((n + i) + 1 <= n) /\ n + i < n + m
        /\ (n + i) - n = i /\ ((n + i) + 1) - n = i + 1
    BY <1>1, <1>3 DEF Hit
  <2>2. all[n + i] = err[i] /\ all[(n + i) + 1] = err[i + 1]
    BY <1>1, <2>1
  <2> QED
    BY <1>1, <1>3, <2>1, <2>2 DEF Hit, Hits
<1>4. Hits(out, ways) \cup Hits(err, ways) \subseteq Hits(all, ways)
  BY <1>2, <1>3 DEF Hits
<1> QED
  BY <1>4 DEF all

LEMMA HitsOfWays ==
  ASSUME NEW output
  PROVE  Hits(output, Coded \cup Simple) \subseteq Hits(output, Coded) \cup Hits(output, Simple)
<1>1. Openings(Coded \cup Simple) = Openings(Coded) \cup Openings(Simple)
  BY DEF Openings
<1>2. ASSUME NEW i, Hit(output, Coded \cup Simple, i)
      PROVE  Hit(output, Coded, i) \/ Hit(output, Simple, i)
  BY <1>1, <1>2 DEF Hit
<1> QED
  BY <1>2 DEF Hits

Shown(output) ==
  /\ PlacesTyped(ParseErrors(output)) /\ Distinct(ParseErrors(output))
  /\ Complete(ParseErrors(output), output)

LEMMA ParseErrorsShows ==
  ASSUME NEW output \in Seq(Line)
  PROVE  Shown(output)
<1> DEFINE coded    == Found(output, Coded)
           simple   == Found(output, Simple)
           warned   == Found(output, Warnings)
           base     == Reports(coded, "error", TRUE)
           reports  == Reports(simple, "error", FALSE)
           warnings == Reports(warned, "warning", TRUE)
           found    == FoldLeft(Add, base, reports)
           Cautions == [where : Spots, severity : {"warning"}, coded : BOOLEAN]
           shown    == ParseErrors(output)
<1>1. /\ coded \in Seq(Places) /\ ToSet(coded) = Hits(output, Coded)
      /\ simple \in Seq(Places) /\ ToSet(simple) = Hits(output, Simple)
      /\ warned \in Seq(Places)
  BY FoundHits
<1>2. shown = found \o warnings
  BY DEF ParseErrors, Add
<1> HIDE DEF coded, simple, warned
<1>3. base \in Reported /\ reports \in Reported /\ warnings \in Seq(Cautions)
  <2> HIDE DEF base, reports, warnings
  <2> QED
    BY <1>1, ReportsType DEF Reported, Mistakes, base, reports, warnings
<1>4. /\ Len(base) = Len(coded) /\ Len(reports) = Len(simple)
      /\ \A k \in 1..Len(coded) : base[k].where = Where(coded[k]) /\ base[k].coded
      /\ \A k \in 1..Len(simple) : reports[k].where = Where(simple[k])
  <2>1. /\ Len(base) = Len(coded)
        /\ \A k \in 1..Len(coded) :
             base[k] = [where |-> Where(coded[k]), severity |-> "error", coded |-> TRUE]
    BY <1>1, ReportsType
  <2>2. /\ Len(reports) = Len(simple)
        /\ \A k \in 1..Len(simple) :
             reports[k] = [where |-> Where(simple[k]), severity |-> "error", coded |-> FALSE]
    BY <1>1, ReportsType
  <2> HIDE DEF base, reports
  <2>3. ASSUME NEW k \in 1..Len(coded) PROVE base[k].where = Where(coded[k]) /\ base[k].coded
    <3>1. base[k] = [where |-> Where(coded[k]), severity |-> "error", coded |-> TRUE]
      BY <2>1
    <3>2. base[k].coded = TRUE
      BY <3>1
    <3>3. base[k].where = Where(coded[k])
      BY <3>1
    <3> QED
      BY <3>2, <3>3, Zenon
  <2>4. ASSUME NEW k \in 1..Len(simple) PROVE reports[k].where = Where(simple[k])
    <3>1. reports[k] = [where |-> Where(simple[k]), severity |-> "error", coded |-> FALSE]
      BY <2>2
    <3> QED
      BY <3>1
  <2> QED
    BY <2>1, <2>2, <2>3, <2>4, Zenon
<1> HIDE DEF base, reports, warnings
<1>5. Gathered(found, base, reports, Len(reports))
  BY <1>3, AddsGather
<1> HIDE DEF found, shown
<1> DEFINE m == Len(found)
           w == Len(warnings)
           R == [where : Spots, severity : {"error", "warning"}, coded : BOOLEAN]
<1>6. /\ m \in Nat /\ w \in Nat /\ Len(base) \in Nat
      /\ \A i \in 1..m : found[i] \in Mistakes
      /\ \A i \in 1..w : warnings[i] \in Cautions
  <2>1. found \in Seq(Mistakes) /\ base \in Seq(Mistakes)
    BY <1>3, <1>5 DEF Gathered, Reported
  <2> HIDE DEF Cautions
  <2> QED
    BY <1>3, <2>1, LenProperties, ElementOfSeq
<1>7. /\ DOMAIN shown = 1..(m + w)
      /\ \A i \in 1..(m + w) : shown[i] = IF i <= m THEN found[i] ELSE warnings[i - m]
  <2>1. found \in Seq(R) /\ warnings \in Seq(R)
    <3>1. found \in Seq(Mistakes) /\ Mistakes \subseteq R /\ Cautions \subseteq R
      BY <1>5 DEF Gathered, Reported, Mistakes
    <3> HIDE DEF R, Cautions
    <3> QED
      BY <1>3, <3>1, SeqMonotonic
  <2> HIDE DEF R
  <2> QED
    BY <1>2, <2>1, ConcatProperties
<1>8. ASSUME NEW i \in 1..(m + w)
      PROVE  /\ shown[i].where \in Spots /\ shown[i].severity \in {"error", "warning"}
             /\ shown[i].severity = "error" => i \in 1..m /\ shown[i] = found[i]
  <2>1. CASE i <= m
    <3>1. i \in 1..m /\ shown[i] = found[i]
      BY <1>6, <1>7, <2>1
    <3> QED
      BY <1>6, <3>1 DEF Mistakes
  <2>2. CASE ~(i <= m)
    <3>1. i - m \in 1..w /\ shown[i] = warnings[i - m]
      BY <1>6, <1>7, <2>2
    <3>2. shown[i] \in Cautions
      BY <1>6, <3>1
    <3> QED
      BY <3>2
  <2> QED
    BY <2>1, <2>2
<1>9. PlacesTyped(shown)
  BY <1>7, <1>8 DEF PlacesTyped
<1>10. Distinct(shown)
  <2>1. ASSUME NEW i \in 1..(m + w), NEW j \in 1..(m + w),
               shown[i].severity = "error", shown[j].severity = "error",
               shown[i].where = shown[j].where, i # j
        PROVE  shown[i].coded /\ shown[j].coded
    <3>1. i \in 1..m /\ j \in 1..m /\ shown[i] = found[i] /\ shown[j] = found[j]
      BY <1>8, <2>1
    <3>2. i <= Len(base) /\ j <= Len(base)
      BY <1>5, <2>1, <3>1 DEF Gathered
    <3>3. i \in 1..Len(base) /\ j \in 1..Len(base)
      BY <1>6, <3>1, <3>2
    <3>4. found[i] = base[i] /\ found[j] = base[j]
      BY <1>5, <3>3 DEF Gathered
    <3> QED
      BY <1>4, <3>1, <3>3, <3>4
  <2> QED
    BY <1>7, <2>1 DEF Distinct
<1>11. Complete(shown, output)
  <2>1. ASSUME NEW i \in 1..m
        PROVE  i \in 1..(m + w) /\ shown[i] = found[i] /\ shown[i].severity = "error"
    <3>1. i \in 1..(m + w) /\ i <= m
      BY <1>6
    <3> QED
      BY <1>6, <1>7, <3>1 DEF Mistakes
  <2>2. ASSUME NEW p \in Hits(output, Coded) PROVE \E i \in 1..m : found[i].where = Where(p)
    <3>1. PICK k \in DOMAIN coded : coded[k] = p
      BY <1>1 DEF ToSet
    <3>2. k \in 1..Len(coded) /\ Len(base) <= m
      BY <1>1, <1>5 DEF Gathered
    <3>3. k \in 1..m /\ found[k] = base[k]
      BY <1>4, <1>5, <1>6, <3>2 DEF Gathered
    <3> QED
      BY <1>4, <3>1, <3>2, <3>3
  <2>3. ASSUME NEW p \in Hits(output, Simple) PROVE \E i \in 1..m : found[i].where = Where(p)
    <3>1. PICK k \in DOMAIN simple : simple[k] = p
      BY <1>1 DEF ToSet
    <3>2. k \in 1..Len(simple) /\ k \in 1..Len(reports)
      BY <1>1, <1>4
    <3>3. PICK i \in 1..m : found[i].where = reports[k].where
      BY <1>5, <3>2 DEF Gathered
    <3> QED
      BY <1>4, <3>1, <3>2, <3>3
  <2>4. ASSUME NEW p \in Hits(output, Coded \cup Simple)
        PROVE  \E i \in 1..(m + w) : shown[i].severity = "error" /\ shown[i].where = Where(p)
    <3>1. PICK i \in 1..m : found[i].where = Where(p)
      BY <2>2, <2>3, HitsOfWays
    <3> QED
      BY <2>1, <3>1
  <2> QED
    BY <1>7, <2>4 DEF Complete
<1> QED
  BY <1>9, <1>10, <1>11 DEF Shown, shown

-----------------------------------------------------------------------------
(* The inductive invariant. *)

RequestsInv == WorkspaceInv /\ RequestInv /\ OutputsOK /\ ErrorsInv

LEMMA InitInv == Init => RequestsInv
<1> SUFFICES ASSUME Init PROVE RequestsInv
  OBVIOUS
<1>1. /\ files = [p \in {Toml, Main} |-> 1] /\ virtual = {} /\ sent = NoFiles /\ verdict = "none"
      /\ errors = <<>>
  BY DEF Init, RequestsInit
<1>2. Sized(files)
  <2>1. IsFiniteSet({Toml, Main})
    <3>1. IsFiniteSet({Toml}) /\ {Toml, Main} = {Toml} \cup {Main}
      BY FS_Singleton
    <3> QED
      BY <3>1, FS_AddElement
  <2>2. 1 \in 0..(MaxSize + 1)
    BY LimitsType
  <2> QED
    BY <1>1, <2>1, <2>2, TomlGood, MainGood DEF Sized
<1>3. RequestInv
  BY <1>1, NoFilesSized DEF RequestInv, Verdicts
<1> QED
  BY <1>1, <1>2, <1>3 DEF RequestsInv, WorkspaceInv, OutputsOK, ErrorsInv

\* What is right of the errors stays right as long as the request and what was
\* printed stay.
LEMMA RightStays ==
  ASSUME NEW shown, PlacesTyped(shown), Distinct(shown),
         Complete(shown, stdout), Complete(shown, stderr),
         errors' = shown, sent' = sent, stdout' = stdout, stderr' = stderr, verdict' = "done"
  PROVE  ErrorsInv'
<1>1. Spots' = Spots
  BY DEF Spots
<1>2. /\ Hits(stdout, Coded \cup Simple)' = Hits(stdout, Coded \cup Simple)
      /\ Hits(stderr, Coded \cup Simple)' = Hits(stderr, Coded \cup Simple)
  BY DEF Hits, Hit, Places
<1>3. PlacesTyped(errors)'
  BY <1>1 DEF PlacesTyped
<1>4. Distinct(errors)'
  <2>1. Distinct(errors')
    BY Zenon
  <2> QED
    BY <2>1, Zenon DEF Distinct
<1>5. Complete(errors, stdout)' /\ Complete(errors, stderr)'
  BY <1>2 DEF Complete
<1> QED
  BY <1>3, <1>4, <1>5 DEF ErrorsInv

\* Nothing the invariant says of a command changes while these stay.
LEMMA DiagnosticsStay ==
  ASSUME OutputsOK, ErrorsInv, UNCHANGED <<request, diagnostics>>
  PROVE  OutputsOK' /\ ErrorsInv'
<1>1. /\ sent' = sent /\ verdict' = verdict /\ stdout' = stdout /\ stderr' = stderr
      /\ errors' = errors
  BY DEF request, diagnostics
<1>2. Line' = Line
  BY <1>1 DEF Line, Places
<1>3. OutputsOK'
  BY <1>1, <1>2 DEF OutputsOK
<1>4. ErrorsInv'
  <2>1. CASE verdict = "done"
    BY <1>1, <2>1, RightStays DEF ErrorsInv
  <2>2. CASE verdict # "done"
    BY <1>1, <2>2 DEF ErrorsInv
  <2> QED
    BY <2>1, <2>2
<1> QED
  BY <1>3, <1>4

LEMMA ClickInv ==
  ASSUME RequestsInv, Click
  PROVE  RequestsInv'
<1>1. WorkspaceInv' /\ RequestInv' /\ verdict' # "done"
  BY SubmitOK DEF RequestsInv, Click
<1>2. stdout' = <<>> /\ stderr' = <<>> /\ errors' = <<>>
  BY DEF Click
<1>3. OutputsOK' /\ ErrorsInv'
  <2>1. <<>> \in Seq(Line')
    OBVIOUS
  <2> QED
    BY <1>1, <1>2, <2>1 DEF OutputsOK, ErrorsInv
<1> QED
  BY <1>1, <1>3 DEF RequestsInv

LEMMA RefusedInv ==
  ASSUME RequestsInv, Refused, UNCHANGED diagnostics
  PROVE  RequestsInv'
<1>1. /\ verdict # "done" /\ verdict' = "none" /\ sent' = NoFiles /\ UNCHANGED workspace
      /\ errors' = errors
  BY DEF Refused, diagnostics
<1>2. WorkspaceInv'
  BY <1>1 DEF RequestsInv, WorkspaceInv, workspace
<1>3. RequestInv'
  BY <1>1, NoFilesSized DEF RequestInv, Verdicts
<1>4. OutputsOK' /\ ErrorsInv'
  BY <1>1 DEF RequestsInv, OutputsOK, ErrorsInv
<1> QED
  BY <1>2, <1>3, <1>4 DEF RequestsInv

LEMMA PrintInv ==
  ASSUME RequestsInv, PrintLine
  PROVE  RequestsInv'
<1>1. /\ verdict = "valid" /\ verdict' = verdict /\ sent' = sent /\ errors' = errors
      /\ UNCHANGED <<workspace, request>>
  BY DEF PrintLine, request
<1>2. WorkspaceInv' /\ RequestInv'
  BY <1>1 DEF RequestsInv, WorkspaceInv, workspace, RequestInv
<1>3. Line' = Line
  BY <1>1 DEF Line, Places
<1>4. stdout \in Seq(Line) /\ stderr \in Seq(Line)
  BY <1>1 DEF RequestsInv, OutputsOK
<1>5. stdout' \in Seq(Line) /\ stderr' \in Seq(Line)
  <2>1. PICK line \in Line :
          \/ stdout' = Append(stdout, line) /\ UNCHANGED stderr
          \/ stderr' = Append(stderr, line) /\ UNCHANGED stdout
    BY DEF PrintLine
  <2> HIDE DEF Line
  <2>2. CASE stdout' = Append(stdout, line) /\ UNCHANGED stderr
    BY <1>4, <2>2, AppendProperties
  <2>3. CASE stderr' = Append(stderr, line) /\ UNCHANGED stdout
    BY <1>4, <2>3, AppendProperties
  <2> QED
    BY <2>1, <2>2, <2>3
<1>6. OutputsOK' /\ ErrorsInv'
  BY <1>1, <1>3, <1>5 DEF RequestsInv, OutputsOK, ErrorsInv
<1> QED
  BY <1>2, <1>6 DEF RequestsInv

LEMMA DoneInv ==
  ASSUME RequestsInv, Done
  PROVE  RequestsInv'
<1>1. /\ verdict = "valid" /\ verdict' = "done" /\ sent' = sent /\ UNCHANGED workspace
      /\ stdout' = stdout /\ stderr' = stderr /\ errors' = ParseErrors(stdout \o stderr)
  BY DEF Done
<1>2. WorkspaceInv' /\ RequestInv'
  BY <1>1 DEF RequestsInv, WorkspaceInv, workspace, RequestInv, Verdicts
<1>3. stdout \in Seq(Line) /\ stderr \in Seq(Line) /\ Line' = Line
  BY <1>1 DEF RequestsInv, OutputsOK, Line, Places
<1>4. OutputsOK'
  BY <1>1, <1>3 DEF OutputsOK
<1>5. stdout \o stderr \in Seq(Line)
  BY <1>3, ConcatProperties
<1> DEFINE shown == ParseErrors(stdout \o stderr)
<1>6. PlacesTyped(shown) /\ Distinct(shown) /\ Complete(shown, stdout \o stderr)
  BY <1>5, ParseErrorsShows DEF Shown
<1>7. Complete(shown, stdout) /\ Complete(shown, stderr)
  <2>1. Hits(stdout, Coded \cup Simple) \cup Hits(stderr, Coded \cup Simple) \subseteq
          Hits(stdout \o stderr, Coded \cup Simple)
    BY <1>3, HitsOfConcat
  <2> HIDE DEF shown
  <2> QED
    BY <1>6, <2>1 DEF Complete
<1> HIDE DEF shown
<1>8. errors' = shown
  BY <1>1 DEF shown
<1>9. ErrorsInv'
  BY <1>1, <1>6, <1>7, <1>8, RightStays
<1> QED
  BY <1>2, <1>4, <1>9 DEF RequestsInv

LEMMA FailedInv ==
  ASSUME RequestsInv, Failed
  PROVE  RequestsInv'
<1>1. /\ verdict = "valid" /\ verdict' = "none" /\ sent' = NoFiles /\ UNCHANGED workspace
      /\ errors' = errors
  BY DEF Failed, diagnostics
<1>2. WorkspaceInv'
  BY <1>1 DEF RequestsInv, WorkspaceInv, workspace
<1>3. RequestInv'
  BY <1>1, NoFilesSized DEF RequestInv, Verdicts
<1>4. OutputsOK' /\ ErrorsInv'
  BY <1>1 DEF RequestsInv, OutputsOK, ErrorsInv
<1> QED
  BY <1>2, <1>3, <1>4 DEF RequestsInv

LEMMA StepInv ==
  ASSUME RequestsInv, [Next]_<<workspace, request, diagnostics>>
  PROVE  RequestsInv'
<1>1. CASE Explore /\ UNCHANGED diagnostics
  <2>1. WorkspaceInv' /\ UNCHANGED request
    BY <1>1, ExploreOK DEF RequestsInv
  <2>2. RequestInv'
    BY <2>1 DEF RequestsInv, RequestInv, request
  <2> QED
    BY <1>1, <2>1, <2>2, DiagnosticsStay DEF RequestsInv
<1>2. CASE Refused /\ UNCHANGED diagnostics
  BY <1>2, RefusedInv
<1>3. CASE Click
  BY <1>3, ClickInv
<1>4. CASE PrintLine
  BY <1>4, PrintInv
<1>5. CASE Done
  BY <1>5, DoneInv
<1>6. CASE Failed
  BY <1>6, FailedInv
<1>7. CASE UNCHANGED <<workspace, request, diagnostics>>
  <2>1. WorkspaceInv' /\ RequestInv'
    BY <1>7 DEF RequestsInv, WorkspaceInv, RequestInv, workspace, request
  <2> QED
    BY <1>7, <2>1, DiagnosticsStay DEF RequestsInv
<1> QED
  BY <1>1, <1>2, <1>3, <1>4, <1>5, <1>6, <1>7 DEF Next

LEMMA Invariant == Spec => []RequestsInv
<1>1. RequestsInv /\ [Next]_<<workspace, request, diagnostics>> => RequestsInv'
  BY StepInv
<1> QED
  BY InitInv, <1>1, PTL DEF Spec

-----------------------------------------------------------------------------
(* What the invariant says. *)

\* Whatever is typed, dragged and printed: the explorer has no path but Move.toml
\* that validateFilePath would refuse, except where it makes one start with a
\* drive, Validator gives one of its answers, and an error that is shown is at
\* a line of a file of the request.
THEOREM TypeCorrect == Spec => []TypeOK
<1>1. ASSUME RequestsInv PROVE TypeOK
  <2>1. Sized(files)
    BY <1>1 DEF RequestsInv, WorkspaceInv
  <2>2. ASSUME NEW p \in DOMAIN files PROVE FilePath(p) \/ p = Toml \/ p[1] \in Drives
    <3>1. Clean(p) /\ (p = Toml \/ IsMove(p))
      BY <2>1 DEF Sized, GoodFile
    <3>2. CASE IsMove(p) /\ p[1] \notin Drives
      <4>1. IsSuffix(<<".", "move">>, p)
        BY <3>1, <3>2, MoveSuffix DEF Clean
      <4>2. p # <<"Move", ".", "toml">>
        <5>1. p[Len(p)] = "move"
          BY <3>2 DEF IsMove
        <5>2. Len(<<"Move", ".", "toml">>) = 3 /\ <<"Move", ".", "toml">>[3] = "toml"
          OBVIOUS
        <5> QED
          BY <5>1, <5>2
      <4>3. FolderPath(p)
        BY <3>1, <3>2, Unhidden DEF Clean, FolderPath
      <4> QED
        BY <4>1, <4>2, <4>3 DEF FilePath
    <3> QED
      BY <3>1, <3>2
  <2>3. \A p \in DOMAIN files : files[p] \in 0..(MaxSize + 1)
    BY <2>1 DEF Sized
  <2>4. verdict \in Verdicts
    BY <1>1 DEF RequestsInv, RequestInv
  <2>5. PlacesTyped(errors)
    BY <1>1 DEF RequestsInv, ErrorsInv, PlacesTyped
  <2> QED
    BY <2>2, <2>3, <2>4, <2>5 DEF TypeOK, RequestsTypeOK, Verdicts, PlacesTyped, Spots
<1> QED
  BY <1>1, Invariant, PTL

\* No request the page makes is refused for one of its paths, and no two of its
\* files are written to the same place of the workspace.
THEOREM PathsCorrect == Spec => []PathsAgree
<1>1. ASSUME RequestsInv PROVE PathsAgree
  <2>1. verdict # "path" /\ Sized(sent)
    BY <1>1 DEF RequestsInv, RequestInv
  <2>2. ASSUME NEW p \in DOMAIN sent, NEW q \in DOMAIN sent, Place(p) = Place(q) PROVE p = q
    BY <2>1, <2>2, PlacesApart DEF Sized, GoodFile
  <2> QED
    BY <2>1, <2>2 DEF PathsAgree
<1> QED
  BY <1>1, Invariant, PTL

\* When a command is done, no place that one of its streams names is missing
\* among the errors, and none is there twice that has no code.
THEOREM ErrorsCorrect == Spec => []ErrorsPlaced
<1>1. ASSUME RequestsInv PROVE ErrorsPlaced
  <2> SUFFICES ASSUME verdict = "done"
               PROVE  LET shown == {i \in DOMAIN errors : errors[i].severity = "error"} IN
                        /\ \A output \in {stdout, stderr} :
                             {Where(p) : p \in ToSet(Found(output, Coded \cup Simple))} \subseteq
                               {errors[i].where : i \in shown}
                        /\ \A i, j \in shown : errors[i].where = errors[j].where /\ i # j
                             => errors[i].coded /\ errors[j].coded
    BY DEF ErrorsPlaced
  <2> DEFINE shown == {i \in DOMAIN errors : errors[i].severity = "error"}
  <2>1. /\ stdout \in Seq(Line) /\ stderr \in Seq(Line)
        /\ Distinct(errors) /\ Complete(errors, stdout) /\ Complete(errors, stderr)
    BY <1>1 DEF RequestsInv, OutputsOK, ErrorsInv
  <2>2. ASSUME NEW output \in {stdout, stderr}, NEW p \in ToSet(Found(output, Coded \cup Simple))
        PROVE  \E i \in shown : errors[i].where = Where(p)
    <3>1. output \in Seq(Line) /\ Complete(errors, output)
      BY <2>1
    <3>2. p \in Hits(output, Coded \cup Simple)
      BY <3>1, FoundHits
    <3> QED
      BY <3>1, <3>2 DEF Complete
  <2>3. ASSUME NEW i \in shown, NEW j \in shown, errors[i].where = errors[j].where, i # j
        PROVE  errors[i].coded /\ errors[j].coded
    BY <2>1, <2>3 DEF Distinct
  <2> QED
    BY <2>2, <2>3
<1> QED
  BY <1>1, Invariant, PTL

=============================================================================
