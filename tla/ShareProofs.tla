---------------------------- MODULE ShareProofs -----------------------------
(***************************************************************************)
(* Proofs about sharing, for any pages, workspaces, tokens and calls: one  *)
(* click makes at most one gist, and a link opens the files of the moment  *)
(* Share was clicked if their paths are flat.                              *)
(***************************************************************************)
EXTENDS Share, SequenceTheorems, TLAPS

EditorType == [files : Files, book : Books]
CallType   == [page : Pages, kind : {"share", "load"}, sent : EditorType, id : Nat,
               step : Steps, token : Nat]
GistType   == [files : Files, book : Books, by : Nat]

StateTyped ==
  /\ editor \in [Pages -> EditorType] /\ cookie \in [Pages -> Nat]
  /\ issued \in 0..MaxTokens /\ expired \in 0..issued
  /\ calls \in Seq(CallType) /\ gists \in Seq(GistType)

\* What bounds the numbers.
Bounded ==
  /\ \A p \in Pages : cookie[p] <= issued
  /\ \A c \in DOMAIN calls : calls[c].token <= issued
  /\ Len(calls) <= MaxCalls

\* A gist holds what its call sent, and that call arrives nowhere any more.
GistsKnown ==
  \A g \in DOMAIN gists :
    /\ gists[g].by \in DOMAIN calls
    /\ calls[gists[g].by].step \in {"answered", "done", "failed"}
    /\ gists[g].files \in Stored(calls[gists[g].by].sent.files)
    /\ gists[g].book = calls[gists[g].by].sent.book

LinksKnown == \A c \in Opened : calls[c].id \in DOMAIN gists

ShareInv == StateTyped /\ Bounded /\ GistsKnown /\ LinksKnown /\ OneGistPerShare

-----------------------------------------------------------------------------
(* Names and files. *)

\* Workspaces are files, and files have paths and contents.
LEMMA FilesFacts ==
  /\ Workspaces \subseteq Files
  /\ \A w \in Files : /\ DOMAIN w \in SUBSET Seq(Tokens) /\ w = [path \in DOMAIN w |-> w[path]]
                      /\ \A path \in DOMAIN w : w[path] \in Contents
<1>1. ASSUME NEW w \in Workspaces PROVE w \in Files
  <2>1. DOMAIN w \in SUBSET Seq(Tokens) /\ w = [path \in DOMAIN w |-> w[path]]
    BY WorkspacesType
  <2>2. \A path \in DOMAIN w : w[path] \in Contents
    BY DEF Contents
  <2>3. w \in [DOMAIN w -> Contents]
    BY <2>1, <2>2
  <2> QED
    BY <2>1, <2>3 DEF Files
<1>2. ASSUME NEW w \in Files
      PROVE  /\ DOMAIN w \in SUBSET Seq(Tokens) /\ w = [path \in DOMAIN w |-> w[path]]
             /\ \A path \in DOMAIN w : w[path] \in Contents
  <2>1. PICK paths \in SUBSET Seq(Tokens) : w \in [paths -> Contents]
    BY DEF Files
  <2> QED
    BY <2>1
<1> QED
  BY <1>1, <1>2

\* A function from paths to contents is files.
LEMMA IsFiles ==
  ASSUME NEW paths \in SUBSET Seq(Tokens), NEW w \in [paths -> Contents]
  PROVE  w \in Files
  BY DEF Files

\* The name of a file in a gist is a sequence of the length of its path.
LEMMA NameType ==
  ASSUME NEW path \in Seq(Tokens)
  PROVE  /\ Encode(path) \in Seq(Tokens) /\ Len(Encode(path)) = Len(path)
         /\ \A i \in 1..Len(path) : Encode(path)[i] = IF path[i] = "/" THEN "_" ELSE path[i]
<1> DEFINE char(x) == IF x = "/" THEN "_" ELSE x
<1>1. path \in [1..Len(path) -> Tokens] /\ Len(path) \in Nat /\ DOMAIN path = 1..Len(path)
  BY LenProperties
<1>2. \A x \in Tokens : char(x) \in Tokens
  BY TokensType
<1>3. Encode(path) = [i \in 1..Len(path) |-> char(path[i])]
  BY <1>1 DEF Encode
<1> HIDE DEF char
<1>4. Encode(path) \in [1..Len(path) -> Tokens]
  BY <1>1, <1>2, <1>3
<1>5. Encode(path) \in Seq(Tokens) /\ Len(Encode(path)) = Len(path)
  BY <1>1, <1>4
<1>6. \A i \in 1..Len(path) : Encode(path)[i] = char(path[i])
  BY <1>3
<1> QED
  BY <1>5, <1>6 DEF char

\* The path made of a name is one.
LEMMA PathType ==
  ASSUME NEW name \in Seq(Tokens)
  PROVE  Decode(name) \in Seq(Tokens)
<1>1. CASE Len(name) > 1 /\ name[1] = "sources" /\ name[2] = "_"
  <2>1. Decode(name) = [name EXCEPT ![2] = "/"]
    BY <1>1 DEF Decode
  <2>2. Len(name) \in Nat
    BY LenProperties
  <2>20. Len(name) > 1
    BY <1>1, Zenon
  <2>3. 2 \in 1..Len(name)
    BY <2>20, <2>2
  <2>4. "/" \in Tokens
    BY TokensType
  <2>5. [name EXCEPT ![2] = "/"] \in Seq(Tokens)
    BY <2>3, <2>4, ExceptSeq
  <2> QED
    BY <2>1, <2>5
<1> QED
  BY <1>1 DEF Decode

\* A flat path survives.
LEMMA FlatPath ==
  ASSUME NEW path \in Seq(Tokens), Flat(path)
  PROVE  Decode(Encode(path)) = path
<1>0. Len(path) \in Nat /\ DOMAIN path = 1..Len(path)
  BY LenProperties
<1> DEFINE name == Encode(path)
<1>00. /\ name \in Seq(Tokens) /\ Len(name) = Len(path)
       /\ \A i \in 1..Len(path) : name[i] = IF path[i] = "/" THEN "_" ELSE path[i]
  BY NameType
<1> HIDE DEF name
<1>1. CASE Len(path) > 1 /\ path[1] = "sources" /\ path[2] = "/"
  <2>1. \A i \in 3..Len(path) : path[i] # "/"
    <3>1. \A i \in DOMAIN SubSeq(path, 3, Len(path)) : SubSeq(path, 3, Len(path))[i] # "/"
      BY <1>1 DEF Flat
    <3>2. \A i \in 3..Len(path) : /\ i - 2 \in DOMAIN SubSeq(path, 3, Len(path))
                                  /\ SubSeq(path, 3, Len(path))[i - 2] = path[i]
      BY <1>0
    <3> QED
      BY <3>1, <3>2
  <2>2. 1 \in 1..Len(path) /\ 2 \in 1..Len(path)
    BY <1>0, <1>1
  <2>3. name[1] = "sources" /\ name[2] = "_"
    BY <1>00, <1>1, <2>2
  <2>4. Decode(name) = [name EXCEPT ![2] = "/"]
    BY <1>00, <1>1, <2>3 DEF Decode
  <2>5. 2 \in 1..Len(name)
    BY <1>00, <2>2
  <2>50. "/" \in Tokens
    BY TokensType
  <2>51. name \in Seq(Tokens)
    BY <1>00
  <2>52. /\ [name EXCEPT ![2] = "/"] \in Seq(Tokens)
         /\ Len([name EXCEPT ![2] = "/"]) = Len(name)
         /\ \A j \in 1..Len(name) : [name EXCEPT ![2] = "/"][j] = IF j = 2 THEN "/" ELSE name[j]
    BY <2>5, <2>50, <2>51, ExceptSeq
  <2>6. /\ Decode(name) \in Seq(Tokens) /\ Len(Decode(name)) = Len(path)
        /\ \A j \in 1..Len(path) : Decode(name)[j] = IF j = 2 THEN "/" ELSE name[j]
    BY <1>00, <2>4, <2>52
  <2>7. \A j \in 1..Len(path) : j = 1 \/ j = 2 \/ j \in 3..Len(path)
    BY <1>0
  <2>8. \A j \in 1..Len(path) : j # 2 => name[j] = path[j]
    BY <1>00, <1>1, <2>1, <2>2, <2>3, <2>7
  <2>9. \A j \in 1..Len(path) : Decode(name)[j] = path[j]
    BY <1>1, <2>6, <2>8
  <2>10. Decode(name) = path
    BY <2>6, <2>9, SeqEqual
  <2> QED
    BY <2>10 DEF name
<1>2. CASE ~(Len(path) > 1 /\ path[1] = "sources" /\ path[2] = "/")
  <2>1. \A i \in 1..Len(path) : path[i] # "/"
    BY <1>0, <1>2 DEF Flat
  <2>2. \A i \in 1..Len(path) : name[i] = path[i]
    BY <1>00, <2>1
  <2>3. name = path
    BY <1>00, <2>2, SeqEqual
  <2>4. ~(Len(path) > 1 /\ path[1] = "sources" /\ path[2] = "_")
    BY DEF Flat
  <2>5. Decode(path) = path
    BY <2>4 DEF Decode
  <2> QED
    BY <2>3, <2>5 DEF name
<1> QED
  BY <1>1, <1>2

\* What is stored and loaded again is files.
LEMMA StoredFiles ==
  ASSUME NEW w \in Files, NEW g \in Stored(w)
  PROVE  g \in Files
<1> DEFINE names == {Encode(p) : p \in DOMAIN w}
<1>1. names \in SUBSET Seq(Tokens)
  BY FilesFacts, NameType
<1>2. {w[p] : p \in DOMAIN w} \subseteq Contents
  BY FilesFacts
<1>3. g \in [names -> Contents]
  BY <1>2 DEF Stored
<1> QED
  BY <1>1, <1>3, IsFiles

\* What is loaded of it as well.
LEMMA LoadedFiles ==
  ASSUME NEW g \in Files
  PROVE  Loaded(g) \in Files
<1> DEFINE paths == {Decode(n) : n \in DOMAIN g}
<1>1. paths \in SUBSET Seq(Tokens)
  BY FilesFacts, PathType
<1>2. \A p \in paths : g[CHOOSE n \in DOMAIN g : Decode(n) = p] \in Contents
  BY FilesFacts
<1>3. Loaded(g) \in [paths -> Contents]
  BY <1>2 DEF Loaded
<1> QED
  BY <1>1, <1>3, IsFiles

\* Files with flat paths come back as they were.
LEMMA FlatFiles ==
  ASSUME NEW w \in Files, NEW g \in Stored(w), \A path \in DOMAIN w : Flat(path)
  PROVE  Loaded(g) = w
<1> DEFINE names == {Encode(p) : p \in DOMAIN w}
<1>1. \A p \in DOMAIN w : Decode(Encode(p)) = p
  BY FilesFacts, FlatPath
<1>2. DOMAIN g = names /\ \A n \in names : \E p \in DOMAIN w : Encode(p) = n /\ g[n] = w[p]
  BY DEF Stored
<1>3. {Decode(n) : n \in DOMAIN g} = DOMAIN w
  BY <1>1, <1>2
<1>4. ASSUME NEW p \in DOMAIN w
      PROVE  g[CHOOSE n \in DOMAIN g : Decode(n) = p] = w[p]
  <2>1. Encode(p) \in DOMAIN g /\ Decode(Encode(p)) = p
    BY <1>1, <1>2
  <2>2. PICK n \in DOMAIN g : n = (CHOOSE m \in DOMAIN g : Decode(m) = p) /\ Decode(n) = p
    BY <2>1
  <2>3. PICK q \in DOMAIN w : Encode(q) = n /\ g[n] = w[q]
    BY <1>2
  <2>4. q = p
    BY <1>1, <2>2, <2>3
  <2> QED
    BY <2>2, <2>3, <2>4
<1>5. w = [p \in DOMAIN w |-> w[p]]
  BY FilesFacts
<1> QED
  BY <1>3, <1>4, <1>5 DEF Loaded
-----------------------------------------------------------------------------
(* The invariant. *)

\* Steps after which a call does not arrive any more.
Over == {"answered", "done", "failed"}

\* What the editors start with, and what a call to load sends, is of its type.
LEMMA StartTypes ==
  /\ [files |-> Default, book |-> NoBook] \in EditorType
  /\ Nothing \in EditorType
  /\ Editors \subseteq EditorType
<1>1. Default \in Files /\ NoBook \in Books /\ Workspaces \subseteq Files
  BY WorkspacesType, BooksType, FilesFacts
<1>2. <<>> \in Files
  <2>1. <<>> \in [{} -> Contents]
    OBVIOUS
  <2> QED
    BY <2>1, IsFiles
<1> QED
  BY <1>1, <1>2 DEF EditorType, Nothing, Editors

\* There are no calls and no gists at first.
LEMMA InitInv == Init => ShareInv
<1> SUFFICES ASSUME Init PROVE ShareInv
  OBVIOUS
<1> USE DEF Init
<1>1. editor \in [Pages -> EditorType]
  BY StartTypes
<1>2. cookie \in [Pages -> Nat] /\ issued \in 0..MaxTokens /\ expired \in 0..issued
  BY BoundsType
<1>3. calls \in Seq(CallType) /\ gists \in Seq(GistType)
  OBVIOUS
<1>4. DOMAIN calls = {} /\ DOMAIN gists = {} /\ Len(calls) = 0
  OBVIOUS
<1>5. Bounded
  BY <1>4, BoundsType DEF Bounded
<1>6. GistsKnown /\ LinksKnown /\ OneGistPerShare
  BY <1>4 DEF GistsKnown, LinksKnown, OneGistPerShare, Opened
<1> QED
  BY <1>1, <1>2, <1>3, <1>5, <1>6 DEF ShareInv, StateTyped

\* A call goes on: the others stay as they are.
LEMMA CallChanged ==
  ASSUME calls \in Seq(CallType), NEW c \in DOMAIN calls, NEW call \in CallType,
         calls' = [calls EXCEPT ![c] = call]
  PROVE  /\ calls' \in Seq(CallType) /\ DOMAIN calls' = DOMAIN calls /\ Len(calls') = Len(calls)
         /\ \A d \in DOMAIN calls : calls'[d] = IF d = c THEN call ELSE calls[d]
<1>1. DOMAIN calls = 1..Len(calls)
  BY LenProperties
<1>2. /\ calls' \in Seq(CallType) /\ Len(calls') = Len(calls)
      /\ \A d \in 1..Len(calls) : calls'[d] = IF d = c THEN call ELSE calls[d]
  BY <1>1, ExceptSeq
<1>3. DOMAIN calls' = 1..Len(calls')
  BY <1>2, LenProperties
<1> QED
  BY <1>1, <1>2, <1>3

\* As long as calls keep what they sent and do not arrive again, what is known
\* of the gists stays so.
LEMMA GistsLast ==
  ASSUME GistsKnown, OneGistPerShare, gists' = gists, DOMAIN calls \subseteq DOMAIN calls',
         \A d \in DOMAIN calls : /\ calls'[d].sent = calls[d].sent
                                 /\ calls[d].step \in Over => calls'[d].step \in Over
  PROVE  GistsKnown' /\ OneGistPerShare'
<1>1. OneGistPerShare'
  BY DEF OneGistPerShare
<1>2. ASSUME NEW g \in DOMAIN gists'
      PROVE  /\ gists'[g].by \in DOMAIN calls'
             /\ calls'[gists'[g].by].step \in {"answered", "done", "failed"}
             /\ gists'[g].files \in Stored(calls'[gists'[g].by].sent.files)
             /\ gists'[g].book = calls'[gists'[g].by].sent.book
  <2>1. /\ gists[g].by \in DOMAIN calls
        /\ calls[gists[g].by].step \in Over
        /\ gists[g].files \in Stored(calls[gists[g].by].sent.files)
        /\ gists[g].book = calls[gists[g].by].sent.book
    BY DEF GistsKnown, Over
  <2> QED
    BY <2>1 DEF Over
<1> QED
  BY <1>1, <1>2 DEF GistsKnown

\* The steps that neither share nor load a gist.
LEMMA CallStep ==
  ASSUME ShareInv, NEW c \in DOMAIN calls, NEW call \in CallType,
         calls' = [calls EXCEPT ![c] = call], gists' = gists,
         issued' \in Nat, issued <= issued', call.token <= issued',
         call.sent = calls[c].sent, call.kind = calls[c].kind, call.id = calls[c].id,
         calls[c].step \in Over => call.step \in Over,
         call.kind = "load" /\ call.step \in {"answered", "done"} => call.id \in DOMAIN gists
  PROVE  /\ calls' \in Seq(CallType) /\ Len(calls') <= MaxCalls
         /\ \A d \in DOMAIN calls' : calls'[d].token <= issued'
         /\ GistsKnown' /\ OneGistPerShare' /\ LinksKnown'
<1>0. calls \in Seq(CallType) /\ issued \in Nat
  BY DEF ShareInv, StateTyped
<1>1. /\ calls' \in Seq(CallType) /\ DOMAIN calls' = DOMAIN calls /\ Len(calls') = Len(calls)
      /\ \A d \in DOMAIN calls : calls'[d] = IF d = c THEN call ELSE calls[d]
  BY <1>0, CallChanged
<1>2. Len(calls') <= MaxCalls
  BY <1>1 DEF ShareInv, Bounded
<1>3. ASSUME NEW d \in DOMAIN calls' PROVE calls'[d].token <= issued'
  <2>1. calls[d] \in CallType
    BY <1>0, <1>1, ElementOfSeq, LenProperties
  <2>2. calls[d].token \in Nat /\ calls[d].token <= issued
    BY <1>1, <2>1 DEF CallType, ShareInv, Bounded
  <2>3. calls'[d] = call \/ calls'[d] = calls[d]
    BY <1>1
  <2> QED
    BY <1>0, <2>2, <2>3
<1>4. \A d \in DOMAIN calls : /\ calls'[d].sent = calls[d].sent
                              /\ calls[d].step \in Over => calls'[d].step \in Over
  BY <1>1
<1>5. GistsKnown' /\ OneGistPerShare'
  BY <1>1, <1>4, GistsLast DEF ShareInv
<1>6. LinksKnown'
  BY <1>1 DEF ShareInv, LinksKnown, Opened
<1> QED
  BY <1>1, <1>2, <1>3, <1>5, <1>6

\* A share becomes a gist: it is the first of its call.
LEMMA GistStep ==
  ASSUME ShareInv, NEW c \in DOMAIN calls, NEW call \in CallType, NEW g \in Stored(calls[c].sent.files),
         calls' = [calls EXCEPT ![c] = call],
         gists' = Append(gists, [files |-> g, book |-> calls[c].sent.book, by |-> c]),
         issued' = issued, call.token = calls[c].token, call.sent = calls[c].sent,
         calls[c].kind = "share", call.kind = "share", calls[c].step \notin Over, call.step \in Over
  PROVE  /\ calls' \in Seq(CallType) /\ Len(calls') <= MaxCalls /\ gists' \in Seq(GistType)
         /\ \A d \in DOMAIN calls' : calls'[d].token <= issued'
         /\ GistsKnown' /\ OneGistPerShare' /\ LinksKnown'
<1> DEFINE gist == [files |-> g, book |-> calls[c].sent.book, by |-> c]
<1>0. calls \in Seq(CallType) /\ gists \in Seq(GistType)
  BY DEF ShareInv, StateTyped
<1>1. /\ calls' \in Seq(CallType) /\ DOMAIN calls' = DOMAIN calls /\ Len(calls') = Len(calls)
      /\ \A d \in DOMAIN calls : calls'[d] = IF d = c THEN call ELSE calls[d]
  BY <1>0, CallChanged
<1>2. Len(calls') <= MaxCalls
  BY <1>1 DEF ShareInv, Bounded
<1>3. \A d \in DOMAIN calls' : calls'[d].token <= issued'
  BY <1>1 DEF ShareInv, Bounded
<1>4. gist \in GistType
  <2>1. calls[c] \in CallType /\ c \in Nat
    BY <1>0, ElementOfSeq, LenProperties
  <2>2. calls[c].sent.files \in Files /\ calls[c].sent.book \in Books
    BY <2>1 DEF CallType, EditorType
  <2>3. g \in Files
    BY <2>2, StoredFiles
  <2> QED
    BY <2>1, <2>2, <2>3 DEF GistType
<1>5. gist.files = g /\ gist.book = calls[c].sent.book /\ gist.by = c
  OBVIOUS
<1> HIDE DEF gist
<1>6. /\ gists' \in Seq(GistType) /\ DOMAIN gists = 1..Len(gists) /\ Len(gists) \in Nat
      /\ DOMAIN gists' = 1..(Len(gists) + 1)
      /\ \A i \in 1..Len(gists) : gists'[i] = gists[i]
      /\ gists'[Len(gists) + 1] = gist
  <2>1. gists' = Append(gists, gist)
    BY DEF gist
  <2> QED
    BY <1>0, <1>4, <2>1, AppendProperties, LenProperties
<1>7. \A i \in DOMAIN gists' :
        \/ i \in DOMAIN gists /\ gists'[i] = gists[i]
        \/ i = Len(gists) + 1 /\ gists'[i] = gist
  <2>1. Len(gists) \in Nat
    BY <1>6
  <2>2. \A i \in 1..(Len(gists) + 1) : i \in 1..Len(gists) \/ i = Len(gists) + 1
    BY <2>1
  <2>3. ASSUME NEW i \in DOMAIN gists'
        PROVE  \/ i \in DOMAIN gists /\ gists'[i] = gists[i]
               \/ i = Len(gists) + 1 /\ gists'[i] = gist
    <3>1. i \in 1..Len(gists) \/ i = Len(gists) + 1
      BY <1>6, <2>2
    <3> QED
      BY <1>6, <3>1
  <2> QED
    BY <2>3
<1>8. \A i \in DOMAIN gists : gists[i].by # c
  BY DEF ShareInv, GistsKnown, Over
<1>9. OneGistPerShare'
  BY <1>5, <1>7, <1>8 DEF ShareInv, OneGistPerShare
<1>10. GistsKnown'
  <2>1. ASSUME NEW i \in DOMAIN gists
        PROVE  /\ gists[i].by \in DOMAIN calls'
               /\ calls'[gists[i].by].step \in {"answered", "done", "failed"}
               /\ gists[i].files \in Stored(calls'[gists[i].by].sent.files)
               /\ gists[i].book = calls'[gists[i].by].sent.book
    <3>1. /\ gists[i].by \in DOMAIN calls
          /\ calls[gists[i].by].step \in {"answered", "done", "failed"}
          /\ gists[i].files \in Stored(calls[gists[i].by].sent.files)
          /\ gists[i].book = calls[gists[i].by].sent.book
      BY DEF ShareInv, GistsKnown
    <3>2. calls'[gists[i].by] = calls[gists[i].by]
      BY <1>1, <1>8, <3>1
    <3> QED
      BY <1>1, <3>1, <3>2
  <2>2. /\ gist.by \in DOMAIN calls' /\ calls'[gist.by].step \in {"answered", "done", "failed"}
        /\ gist.files \in Stored(calls'[gist.by].sent.files)
        /\ gist.book = calls'[gist.by].sent.book
    BY <1>1, <1>5 DEF Over
  <2> QED
    BY <1>7, <2>1, <2>2 DEF GistsKnown
<1>11. LinksKnown'
  <2>1. ASSUME NEW d \in Opened' PROVE calls'[d].id \in DOMAIN gists
    <3>1. d \in DOMAIN calls /\ d # c
      BY <1>1 DEF Opened
    <3>2. calls'[d] = calls[d]
      BY <1>1, <3>1
    <3> QED
      BY <3>1, <3>2 DEF ShareInv, LinksKnown, Opened
  <2>2. DOMAIN gists \subseteq DOMAIN gists'
    BY <1>6
  <2> QED
    BY <2>1, <2>2 DEF LinksKnown
<1> QED
  BY <1>1, <1>2, <1>3, <1>6, <1>9, <1>10, <1>11
\* A call that only goes on to its next step.
LEMMA BecomesStep ==
  ASSUME ShareInv, NEW c \in DOMAIN calls, NEW s \in Steps, Becomes(c, s),
         gists' = gists, issued' = issued, calls[c].step \notin Over \/ s \in Over,
         calls[c].kind = "load" /\ s \in {"answered", "done"} => calls[c].id \in DOMAIN gists
  PROVE  /\ calls' \in Seq(CallType) /\ Len(calls') <= MaxCalls
         /\ \A d \in DOMAIN calls' : calls'[d].token <= issued'
         /\ GistsKnown' /\ OneGistPerShare' /\ LinksKnown'
<1> DEFINE call == [calls[c] EXCEPT !.step = s]
<1>1. calls \in Seq(CallType) /\ issued \in Nat
  BY BoundsType DEF ShareInv, StateTyped
<1>2. calls[c] \in CallType
  BY <1>1, ElementOfSeq, LenProperties
<1>3. /\ call \in CallType /\ call.step = s /\ call.token = calls[c].token
      /\ call.sent = calls[c].sent /\ call.kind = calls[c].kind /\ call.id = calls[c].id
  BY <1>2 DEF CallType
<1>4. calls' = [calls EXCEPT ![c] = call]
  BY DEF Becomes
<1>5. call.token <= issued' /\ issued <= issued' /\ issued' \in Nat
  BY <1>1, <1>3 DEF ShareInv, Bounded
<1> HIDE DEF call
<1> QED
  BY <1>3, <1>4, <1>5, CallStep

\* A new call has sent what its page has, or nothing, and waits for its answer.
LEMMA NewCall ==
  ASSUME ShareInv, NEW p \in Pages, NEW kind \in {"share", "load"}, NEW sent \in EditorType,
         NEW id \in Nat, Call(p, kind, sent, id)
  PROVE  ShareInv'
<1> DEFINE call == [page |-> p, kind |-> kind, sent |-> sent, id |-> id,
                    step |-> "fetch", token |-> cookie[p]]
<1>1. /\ calls \in Seq(CallType) /\ Len(calls) < MaxCalls
      /\ UNCHANGED <<editor, cookie, issued, expired, gists>>
  BY DEF ShareInv, StateTyped, Call
<1>2. cookie[p] \in Nat /\ cookie[p] <= issued
  BY DEF ShareInv, StateTyped, Bounded
<1>3. call \in CallType /\ call.step = "fetch" /\ call.token = cookie[p]
  BY <1>2 DEF CallType, Steps
<1>30. calls' = Append(calls, call)
  BY DEF Call
<1> HIDE DEF call
<1>4. /\ calls' \in Seq(CallType) /\ Len(calls) \in Nat /\ Len(calls') = Len(calls) + 1
      /\ DOMAIN calls = 1..Len(calls) /\ DOMAIN calls' = 1..(Len(calls) + 1)
      /\ \A d \in 1..Len(calls) : calls'[d] = calls[d]
      /\ calls'[Len(calls) + 1] = call
  BY <1>1, <1>3, <1>30, AppendProperties, LenProperties
<1>5. DOMAIN calls \subseteq DOMAIN calls' /\ \A d \in DOMAIN calls : calls'[d] = calls[d]
  BY <1>4
<1>6. \A d \in DOMAIN calls' : (d \in DOMAIN calls /\ calls'[d] = calls[d]) \/ calls'[d] = call
  <2>1. \A d \in 1..(Len(calls) + 1) : d \in 1..Len(calls) \/ d = Len(calls) + 1
    BY <1>4
  <2> QED
    BY <1>4, <2>1, Zenon
<1>7. GistsKnown' /\ OneGistPerShare'
  BY <1>1, <1>5, GistsLast DEF ShareInv
<1>8. LinksKnown'
  <2>1. ASSUME NEW d \in Opened' PROVE calls'[d].id \in DOMAIN gists
    <3>1. d \in DOMAIN calls /\ calls'[d] = calls[d]
      BY <1>3, <1>6 DEF Opened
    <3> QED
      BY <3>1 DEF ShareInv, LinksKnown, Opened
  <2> QED
    BY <1>1, <2>1 DEF LinksKnown
<1>9. StateTyped'
  BY <1>1, <1>4 DEF ShareInv, StateTyped
<1>10. Bounded'
  <2>1. \A d \in DOMAIN calls' : calls'[d].token <= issued
    BY <1>2, <1>3, <1>6 DEF ShareInv, Bounded
  <2>2. Len(calls') <= MaxCalls
    BY <1>1, <1>4, BoundsType
  <2> QED
    BY <1>1, <2>1, <2>2 DEF ShareInv, Bounded
<1> QED
  BY <1>7, <1>8, <1>9, <1>10 DEF ShareInv

\* Steps of the pages and of the cookies that change no call.
LEMMA QuietStep ==
  ASSUME ShareInv, calls' = calls, gists' = gists,
         editor' \in [Pages -> EditorType], cookie' \in [Pages -> Nat],
         issued' \in 0..MaxTokens, expired' \in 0..issued', issued <= issued',
         \A p \in Pages : cookie'[p] <= issued'
  PROVE  ShareInv'
<1>1. GistsKnown' /\ LinksKnown' /\ OneGistPerShare'
  BY DEF ShareInv, GistsKnown, LinksKnown, OneGistPerShare, Opened
<1>2. StateTyped'
  BY DEF ShareInv, StateTyped
<1>3. ASSUME NEW d \in DOMAIN calls PROVE calls[d].token <= issued'
  <2>1. calls[d] \in CallType
    BY ElementOfSeq, LenProperties DEF ShareInv, StateTyped
  <2>2. calls[d].token \in Nat /\ calls[d].token <= issued
    BY <2>1 DEF CallType, ShareInv, Bounded
  <2> QED
    BY <2>2, BoundsType DEF ShareInv, StateTyped
<1>4. Bounded'
  BY <1>3 DEF ShareInv, Bounded
<1> QED
  BY <1>1, <1>2, <1>4 DEF ShareInv

\* A new cookie has the number of tokens issued.
LEMMA IssueStep ==
  ASSUME ShareInv, NEW p \in Pages, Issue(p)
  PROVE  /\ cookie' \in [Pages -> Nat] /\ issued' \in 0..MaxTokens /\ issued <= issued'
         /\ \A q \in Pages : cookie'[q] <= issued'
<1>1. cookie \in [Pages -> Nat] /\ issued \in 0..MaxTokens /\ \A q \in Pages : cookie[q] <= issued
  BY DEF ShareInv, StateTyped, Bounded
<1>2. CASE issued < MaxTokens /\ issued' = issued + 1 /\ cookie' = [cookie EXCEPT ![p] = issued + 1]
  BY <1>1, <1>2, BoundsType
<1>3. CASE UNCHANGED <<issued, cookie>>
  BY <1>1, <1>3, BoundsType
<1> QED
  BY <1>2, <1>3 DEF Issue
\* What a step of a call changes besides the calls and the gists.
LEMMA CallTyped ==
  ASSUME ShareInv, calls' \in Seq(CallType), gists' \in Seq(GistType), Len(calls') <= MaxCalls,
         \A d \in DOMAIN calls' : calls'[d].token <= issued',
         GistsKnown', OneGistPerShare', LinksKnown',
         editor' \in [Pages -> EditorType], cookie' \in [Pages -> Nat],
         issued' \in 0..MaxTokens, issued <= issued', expired' = expired,
         \A p \in Pages : cookie'[p] <= issued'
  PROVE  ShareInv'
<1>1. expired' \in 0..issued'
  BY BoundsType DEF ShareInv, StateTyped
<1> QED
  BY <1>1 DEF ShareInv, StateTyped, Bounded

\* Every step of a call keeps the invariant.
LEMMA StepOfCall ==
  ASSUME ShareInv, NEW c \in DOMAIN calls, Step(c) \/ FetchThrows(c)
  PROVE  ShareInv'
<1>0. /\ calls[c] \in CallType /\ calls[c].page \in Pages /\ gists \in Seq(GistType)
      /\ editor \in [Pages -> EditorType] /\ cookie \in [Pages -> Nat]
      /\ issued \in 0..MaxTokens /\ \A p \in Pages : cookie[p] <= issued
  <2>1. calls[c] \in CallType
    BY ElementOfSeq, LenProperties DEF ShareInv, StateTyped
  <2>2. calls[c].page \in Pages
    BY <2>1 DEF CallType
  <2> QED
    BY <2>1, <2>2 DEF ShareInv, StateTyped, Bounded
<1>1. ASSUME NEW s \in Steps, Becomes(c, s), UNCHANGED <<cookie, issued, expired, gists>>,
             editor' \in [Pages -> EditorType], calls[c].step \notin Over \/ s \in Over,
             calls[c].kind = "load" /\ s \in {"answered", "done"} => calls[c].id \in DOMAIN gists
      PROVE  ShareInv'
  <2>1. /\ calls' \in Seq(CallType) /\ Len(calls') <= MaxCalls
        /\ \A d \in DOMAIN calls' : calls'[d].token <= issued'
        /\ GistsKnown' /\ OneGistPerShare' /\ LinksKnown'
    BY <1>1, BecomesStep
  <2> QED
    BY <1>0, <1>1, <2>1, BoundsType, CallTyped
<1>2. ASSUME NEW g \in Stored(calls[c].sent.files), NEW call \in CallType,
             calls' = [calls EXCEPT ![c] = call],
             gists' = Append(gists, [files |-> g, book |-> calls[c].sent.book, by |-> c]),
             call.token = calls[c].token, call.sent = calls[c].sent,
             calls[c].kind = "share", call.kind = "share", Arrives(c), call.step \in Over,
             UNCHANGED <<editor, cookie, issued, expired>>
      PROVE  ShareInv'
  <2>1. calls[c].step \notin Over
    BY <1>2 DEF Arrives, Over
  <2>2. /\ calls' \in Seq(CallType) /\ Len(calls') <= MaxCalls /\ gists' \in Seq(GistType)
        /\ \A d \in DOMAIN calls' : calls'[d].token <= issued'
        /\ GistsKnown' /\ OneGistPerShare' /\ LinksKnown'
    BY <1>2, <2>1, GistStep
  <2> QED
    BY <1>0, <1>2, <2>2, BoundsType, CallTyped
<1>3. CASE Retry(c)
  <2> DEFINE token == cookie'[calls[c].page]
  <2> DEFINE call == [calls[c] EXCEPT !.step = "refetch", !.token = token]
  <2>1. /\ cookie' \in [Pages -> Nat] /\ issued' \in 0..MaxTokens /\ issued <= issued'
        /\ \A q \in Pages : cookie'[q] <= issued'
    BY <1>0, <1>3, IssueStep DEF Retry
  <2>2. token \in Nat /\ token <= issued'
    BY <1>0, <2>1
  <2>3. calls' = [calls EXCEPT ![c] = call] /\ UNCHANGED <<editor, expired, gists>>
    BY <1>3 DEF Retry
  <2>4. calls[c].step \notin Over
    BY <1>3 DEF Retry, Over
  <2> HIDE DEF token
  <2>5. /\ call \in CallType /\ call.step = "refetch" /\ call.token = token
        /\ call.sent = calls[c].sent /\ call.kind = calls[c].kind /\ call.id = calls[c].id
    BY <1>0, <2>2 DEF CallType, Steps
  <2> HIDE DEF call
  <2>6. issued' \in Nat /\ call.token <= issued'
    BY <2>1, <2>2, <2>5, BoundsType
  <2>7. call.step \notin {"answered", "done"}
    BY <2>5
  <2>8. /\ calls' \in Seq(CallType) /\ Len(calls') <= MaxCalls
        /\ \A d \in DOMAIN calls' : calls'[d].token <= issued'
        /\ GistsKnown' /\ OneGistPerShare' /\ LinksKnown'
    BY <2>1, <2>3, <2>4, <2>5, <2>6, <2>7, CallStep
  <2> QED
    BY <1>0, <2>1, <2>3, <2>8, CallTyped
<1>4. CASE RefusedAgain(c) \/ FetchThrows(c)
  <2>1. Becomes(c, "failed") /\ UNCHANGED <<editor, cookie, issued, expired, gists>>
    BY <1>4 DEF RefusedAgain, FetchThrows
  <2> QED
    BY <1>0, <1>1, <2>1 DEF Steps, Over
<1>5. CASE FinishShare(c)
  <2>1. Becomes(c, "done") /\ UNCHANGED <<editor, cookie, issued, expired, gists>> /\ calls[c].kind # "load"
    BY <1>5 DEF FinishShare
  <2> QED
    BY <1>0, <1>1, <2>1 DEF Steps, Over
<1>6. CASE FinishLoad(c)
  <2>1. calls[c].kind = "load" /\ calls[c].step = "answered" /\ Becomes(c, "done")
    BY <1>6 DEF FinishLoad
  <2>2. c \in Opened
    BY <2>1 DEF Opened
  <2>3. calls[c].id \in DOMAIN gists
    BY <2>2 DEF ShareInv, LinksKnown
  <2>4. gists[calls[c].id] \in GistType
    BY <1>0, <2>3, ElementOfSeq, LenProperties
  <2>5. Loaded(gists[calls[c].id].files) \in Files /\ gists[calls[c].id].book \in Books
    BY <2>4, LoadedFiles DEF GistType
  <2>6. editor' \in [Pages -> EditorType]
    BY <1>0, <1>6, <2>5 DEF FinishLoad, EditorType
  <2>7. UNCHANGED <<cookie, issued, expired, gists>>
    BY <1>6 DEF FinishLoad
  <2> QED
    BY <1>1, <2>1, <2>3, <2>6, <2>7 DEF Steps, Over
<1>7. CASE Reject(c)
  <2>1. PICK s \in {"refused", "refused again"} : Becomes(c, s)
    BY <1>7 DEF Reject
  <2>2. calls[c].step \notin Over /\ UNCHANGED <<editor, cookie, issued, expired, gists>>
    BY <1>7 DEF Reject, Arrives, Over
  <2> QED
    BY <1>0, <1>1, <2>1, <2>2 DEF Steps
<1>8. CASE CreateShare(c)
  <2> DEFINE call == [calls[c] EXCEPT !.step = "answered", !.id = Len(gists) + 1]
  <2>1. PICK g \in Stored(calls[c].sent.files) :
          gists' = Append(gists, [files |-> g, book |-> calls[c].sent.book, by |-> c])
    BY <1>8 DEF CreateShare
  <2>2. /\ calls' = [calls EXCEPT ![c] = call] /\ calls[c].kind = "share" /\ Arrives(c)
        /\ UNCHANGED <<editor, cookie, issued, expired>>
    BY <1>8 DEF CreateShare
  <2>3. Len(gists) + 1 \in Nat
    BY <1>0, LenProperties
  <2>4. /\ call \in CallType /\ call.step = "answered" /\ call.token = calls[c].token
        /\ call.sent = calls[c].sent /\ call.kind = calls[c].kind
    BY <1>0, <2>3 DEF CallType, Steps
  <2> HIDE DEF call
  <2> QED
    BY <1>2, <2>1, <2>2, <2>4 DEF Over
<1>9. CASE LoadShare(c)
  <2>1. /\ Becomes(c, "answered") /\ calls[c].id \in DOMAIN gists /\ calls[c].step \notin Over
        /\ UNCHANGED <<editor, cookie, issued, expired, gists>>
    BY <1>9 DEF LoadShare, Arrives, Over
  <2> QED
    BY <1>0, <1>1, <2>1 DEF Steps
<1>10. CASE AnswerError(c)
  <2>1. Becomes(c, "failed") /\ Arrives(c) /\ UNCHANGED <<editor, cookie, issued, expired>>
    BY <1>10 DEF AnswerError
  <2>2. CASE UNCHANGED gists
    BY <1>0, <1>1, <2>1, <2>2 DEF Steps, Over
  <2>3. CASE calls[c].kind = "share" /\ \E g \in Stored(calls[c].sent.files) :
               gists' = Append(gists, [files |-> g, book |-> calls[c].sent.book, by |-> c])
    <3> DEFINE call == [calls[c] EXCEPT !.step = "failed"]
    <3>1. PICK g \in Stored(calls[c].sent.files) :
            gists' = Append(gists, [files |-> g, book |-> calls[c].sent.book, by |-> c])
      BY <2>3
    <3>2. calls' = [calls EXCEPT ![c] = call]
      BY <2>1 DEF Becomes
    <3>3. /\ call \in CallType /\ call.step = "failed" /\ call.token = calls[c].token
          /\ call.sent = calls[c].sent /\ call.kind = calls[c].kind
      BY <1>0 DEF CallType, Steps
    <3> HIDE DEF call
    <3> QED
      BY <1>2, <2>1, <2>3, <3>1, <3>2, <3>3 DEF Over
  <2> QED
    BY <1>10, <2>2, <2>3 DEF AnswerError
<1> QED
  BY <1>3, <1>4, <1>5, <1>6, <1>7, <1>8, <1>9, <1>10 DEF Step

\* Every step keeps the invariant.
LEMMA NextInv == ShareInv /\ [Next]_vars => ShareInv'
<1> SUFFICES ASSUME ShareInv, [Next]_vars PROVE ShareInv'
  OBVIOUS
<1>0. /\ editor \in [Pages -> EditorType] /\ cookie \in [Pages -> Nat]
      /\ issued \in 0..MaxTokens /\ expired \in 0..issued /\ \A p \in Pages : cookie[p] <= issued
  BY DEF ShareInv, StateTyped, Bounded
<1>1. CASE Expire
  <2>1. expired' \in 0..issued' /\ issued' = issued /\ issued <= issued'
    BY <1>0, <1>1, BoundsType DEF Expire
  <2>2. UNCHANGED <<editor, cookie, calls, gists>>
    BY <1>1 DEF Expire
  <2> QED
    BY <1>0, <2>1, <2>2, QuietStep
<1>2. ASSUME NEW p \in Pages, Edit(p) PROVE ShareInv'
  <2>1. editor' \in [Pages -> EditorType]
    BY <1>0, <1>2, StartTypes DEF Edit
  <2>2. UNCHANGED <<cookie, issued, expired, calls, gists>> /\ issued <= issued'
    BY <1>0, <1>2, BoundsType DEF Edit
  <2> QED
    BY <1>0, <2>1, <2>2, QuietStep
<1>3. ASSUME NEW p \in Pages, EnsureAuth(p) PROVE ShareInv'
  <2>1. /\ cookie' \in [Pages -> Nat] /\ issued' \in 0..MaxTokens /\ issued <= issued'
        /\ \A q \in Pages : cookie'[q] <= issued'
    BY <1>3, IssueStep DEF EnsureAuth
  <2>2. UNCHANGED <<editor, expired, calls, gists>>
    BY <1>3 DEF EnsureAuth
  <2>3. expired' \in 0..issued'
    BY <1>0, <2>1, <2>2, BoundsType
  <2> QED
    BY <1>0, <2>1, <2>2, <2>3, QuietStep
<1>4. ASSUME NEW p \in Pages, ClickShare(p) PROVE ShareInv'
  <2>1. editor[p] \in EditorType
    BY <1>0
  <2> QED
    BY <1>4, <2>1, NewCall DEF ClickShare
<1>5. ASSUME NEW p \in Pages, OpenLink(p) PROVE ShareInv'
  <2>1. Len(gists) \in Nat
    BY LenProperties DEF ShareInv, StateTyped
  <2>2. PICK id \in 1..(Len(gists) + 1) : Call(p, "load", Nothing, id)
    BY <1>5 DEF OpenLink
  <2>3. id \in Nat
    BY <2>1, <2>2
  <2> QED
    BY <2>2, <2>3, NewCall, StartTypes
<1>6. ASSUME NEW c \in DOMAIN calls, Step(c) \/ FetchThrows(c) PROVE ShareInv'
  BY <1>6, StepOfCall
<1>7. CASE UNCHANGED vars
  <2>1. UNCHANGED <<editor, cookie, issued, expired, calls, gists>> /\ issued <= issued'
    BY <1>0, <1>7, BoundsType DEF vars
  <2> QED
    BY <1>0, <2>1, QuietStep
<1> QED
  BY <1>1, <1>2, <1>3, <1>4, <1>5, <1>6, <1>7 DEF Next

-----------------------------------------------------------------------------
\* The invariant of sharing: a gist is what its call sent, and a call that has
\* its answer knows a gist that is there.
THEOREM ShareInvariant == Spec => []ShareInv
  BY InitInv, NextInv, PTL DEF Spec

\* The state of the pages, of the calls and of GitHub has its type.
THEOREM TypeCorrect == Spec => []TypeOK
<1>1. ShareInv => TypeOK
  <2> SUFFICES ASSUME ShareInv PROVE TypeOK
    OBVIOUS
  <2>1. \A p \in Pages : editor[p].book \in Books
    BY DEF ShareInv, StateTyped, EditorType
  <2>2. cookie \in [Pages -> 0..MaxTokens]
    BY BoundsType DEF ShareInv, StateTyped, Bounded
  <2>3. ASSUME NEW c \in DOMAIN calls
        PROVE  calls[c].step \in Steps /\ calls[c].token \in 0..issued
    <3>1. calls[c] \in CallType
      BY ElementOfSeq, LenProperties DEF ShareInv, StateTyped
    <3>2. calls[c].step \in Steps /\ calls[c].token \in Nat
      BY <3>1 DEF CallType
    <3> QED
      BY <3>2, BoundsType DEF ShareInv, StateTyped, Bounded
  <2> QED
    BY <2>1, <2>2, <2>3 DEF TypeOK, ShareInv, StateTyped, Bounded, GistsKnown
<1> QED
  BY <1>1, ShareInvariant, PTL

\* The retry after a 401 never shares twice.
THEOREM SharedOnce == Spec => []OneGistPerShare
<1>1. ShareInv => OneGistPerShare
  BY DEF ShareInv
<1> QED
  BY <1>1, ShareInvariant, PTL

\* A link opens the files and the addresses of the moment Share was clicked, if
\* their paths are flat.
THEOREM FlatCorrect == Spec => []FlatExact
<1>1. ShareInv => FlatExact
  <2> SUFFICES ASSUME ShareInv, NEW c \in Opened, \A path \in DOMAIN Shared(c).files : Flat(path)
               PROVE  Loaded(Gist(c).files) = Shared(c).files /\ Gist(c).book = Shared(c).book
    BY DEF FlatExact
  <2>1. calls[c].id \in DOMAIN gists
    BY DEF ShareInv, LinksKnown
  <2>2. /\ Gist(c).by \in DOMAIN calls /\ Gist(c).files \in Stored(Shared(c).files)
        /\ Gist(c).book = Shared(c).book
    BY <2>1 DEF Gist, Shared, ShareInv, GistsKnown
  <2>3. calls[Gist(c).by] \in CallType
    BY <2>2, ElementOfSeq, LenProperties DEF ShareInv, StateTyped
  <2>4. Shared(c).files \in Files
    BY <2>3 DEF Shared, CallType, EditorType
  <2> QED
    BY <2>2, <2>4, FlatFiles
<1> QED
  BY <1>1, ShareInvariant, PTL
=============================================================================
