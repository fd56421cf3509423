------------------------------- MODULE Share -------------------------------
(***************************************************************************)
(* Sharing a workspace and opening a shared one: the calls of the pages    *)
(* with their one retry after a 401, the cookie that authorises them, the  *)
(* backend's two handlers and the gists they write and read.               *)
(*                                                                         *)
(* A path is the sequence of its tokens, the separators "/" and "_" among  *)
(* them: <<"sources", "/", "my", "_", "coin.move">>.  A token is not split *)
(* any further, so "sources" is a prefix of no other.                      *)
(***************************************************************************)
EXTENDS Naturals, Sequences, FiniteSets

CONSTANTS
  Tokens,      \* what paths are made of
  Pages,       \* browsers with the page open
  Workspaces,  \* what a user may have in the editor: functions from paths to
               \* contents
  Default,     \* the workspace of createDefaultFiles
  Books,       \* named addresses
  NoBook,      \* {}, which is what a page without any has
  MaxFiles,    \* Config::max_files
  MaxTokens,   \* bound: auth cookies issued
  MaxCalls     \* bound: calls of the pages

\* What files are: functions from paths to what users have written.
Contents == UNION {{w[path] : path \in DOMAIN w} : w \in Workspaces}
Files    == UNION {[paths -> Contents] : paths \in SUBSET Seq(Tokens)}

ASSUME TokensType == {"sources", "/", "_"} \subseteq Tokens
ASSUME WorkspacesType ==
  /\ Default \in Workspaces
  /\ \A w \in Workspaces : /\ IsFiniteSet(DOMAIN w) /\ DOMAIN w \subseteq Seq(Tokens)
                          /\ w = [path \in DOMAIN w |-> w[path]]
ASSUME BooksType      == NoBook \in Books
ASSUME BoundsType     == MaxFiles \in Nat /\ MaxTokens \in Nat /\ MaxCalls \in Nat

VARIABLES
  editor,    \* files and named addresses in the store of each page
  cookie,    \* mp_auth of each page: the number of a token, 0 for none
  issued,    \* tokens issued
  expired,   \* tokens 1 to expired have expired
  calls,     \* the calls so far, each with what it sent and what it got
  gists      \* the gists on GitHub

vars == <<editor, cookie, issued, expired, calls, gists>>

Editors == [files : Workspaces, book : Books]
Nothing == [files |-> <<>>, book |-> NoBook]

Init ==
  /\ editor = [p \in Pages |-> [files |-> Default, book |-> NoBook]]
  /\ cookie = [p \in Pages |-> 0]
  /\ issued = 0 /\ expired = 0
  /\ calls = <<>> /\ gists = <<>>

-----------------------------------------------------------------------------
(* File names in a gist. *)

\* path.replace('/', "_")
Encode(path) == [i \in DOMAIN path |-> IF path[i] = "/" THEN "_" ELSE path[i]]

\* Mutant: every underscore becomes a slash again.
DecodeAll(name) == [i \in DOMAIN name |-> IF name[i] = "_" THEN "/" ELSE name[i]]

\* Only a leading sources_ becomes sources/ again.
Decode(name) ==
  IF Len(name) > 1 /\ name[1] = "sources" /\ name[2] = "_"
  THEN [name EXCEPT ![2] = "/"] ELSE name

\* Of the files with the same name the last one stays, and which one is the
\* last depends on the order in which the user created them.
Stored(files) ==
  LET names == {Encode(p) : p \in DOMAIN files} IN
  {g \in [names -> {files[p] : p \in DOMAIN files}] :
     \A n \in names : \E p \in DOMAIN files : Encode(p) = n /\ g[n] = files[p]}

Loaded(named) ==
  [p \in {Decode(n) : n \in DOMAIN named} |->
     named[CHOOSE n \in DOMAIN named : Decode(n) = p]]

-----------------------------------------------------------------------------
(* The pages. *)

Edit(p) ==
  /\ \E e \in Editors : e # editor[p] /\ editor' = [editor EXCEPT ![p] = e]
  /\ UNCHANGED <<cookie, issued, expired, calls, gists>>

\* POST /api/auth/issue, outside the backend: a new cookie, or an answer
\* without one, which the page does not look at.
Issue(p) ==
  \/ /\ issued < MaxTokens
     /\ issued' = issued + 1
     /\ cookie' = [cookie EXCEPT ![p] = issued + 1]
  \/ UNCHANGED <<issued, cookie>>

\* ensureAuth, when the page is mounted; nobody waits for it.
EnsureAuth(p) ==
  /\ cookie[p] = 0
  /\ issued < MaxTokens
  /\ Issue(p)
  /\ UNCHANGED <<editor, expired, calls, gists>>

\* Tokens are short-lived.
Expire ==
  /\ expired < issued
  /\ expired' = expired + 1
  /\ UNCHANGED <<editor, cookie, issued, calls, gists>>

Call(p, kind, sent, id) ==
  /\ Len(calls) < MaxCalls
  /\ calls' = Append(calls, [page |-> p, kind |-> kind, sent |-> sent, id |-> id,
                             step |-> "fetch", token |-> cookie[p]])
  /\ UNCHANGED <<editor, cookie, issued, expired, gists>>

\* handleShare takes the files as they are now, for the retry as well.
ClickShare(p) == Call(p, "share", editor[p], 0)

\* loadShare, for the id in the address the page was opened with: that of a
\* gist, or of none.
OpenLink(p) == \E id \in 1..(Len(gists) + 1) : Call(p, "load", Nothing, id)

Becomes(c, step) == calls' = [calls EXCEPT ![c].step = step]

\* Mutant: as long as the answer is 401 the call is repeated.
RetryForEver(c) ==
  /\ calls[c].step \in {"refused", "refused again"}
  /\ Issue(calls[c].page)
  /\ calls' = [calls EXCEPT ![c].step = "refetch", ![c].token = cookie'[calls[c].page]]
  /\ UNCHANGED <<editor, expired, gists>>

\* After a 401 the page asks for a cookie and sends the same request again.
Retry(c) ==
  /\ calls[c].step = "refused"
  /\ Issue(calls[c].page)
  /\ calls' = [calls EXCEPT ![c].step = "refetch", ![c].token = cookie'[calls[c].page]]
  /\ UNCHANGED <<editor, expired, gists>>

\* A second 401 is an error like any other.
RefusedAgain(c) ==
  /\ calls[c].step = "refused again"
  /\ Becomes(c, "failed")
  /\ UNCHANGED <<editor, cookie, issued, expired, gists>>

\* The request or its answer is lost: fetch throws, and a toast says so.  The
\* backend may have served the request.
FetchThrows(c) ==
  /\ calls[c].step \in {"fetch", "refused", "refetch", "answered"}
  /\ Becomes(c, "failed")
  /\ UNCHANGED <<editor, cookie, issued, expired, gists>>

\* The link goes to the address bar and the clipboard.
FinishShare(c) ==
  /\ calls[c].step = "answered"
  /\ calls[c].kind = "share"
  /\ Becomes(c, "done")
  /\ UNCHANGED <<editor, cookie, issued, expired, gists>>

\* The workspace is replaced, whatever is in the editor by now.
FinishLoad(c) ==
  /\ calls[c].step = "answered"
  /\ calls[c].kind = "load"
  /\ Becomes(c, "done")
  /\ editor' = [editor EXCEPT ![calls[c].page] =
                  [files |-> Loaded(gists[calls[c].id].files), book |-> gists[calls[c].id].book]]
  /\ UNCHANGED <<cookie, issued, expired, gists>>

-----------------------------------------------------------------------------
(* The backend. *)

Arrives(c)    == calls[c].step \in {"fetch", "refetch"}
Authorised(c) == calls[c].token > expired

\* Mutant: the second refusal has a step of its own, which nobody handles.
RejectForbidden(c) ==
  /\ Arrives(c)
  /\ ~Authorised(c)
  /\ Becomes(c, IF calls[c].step = "fetch" THEN "refused" ELSE "forbidden")
  /\ UNCHANGED <<editor, cookie, issued, expired, gists>>

Reject(c) ==
  /\ Arrives(c)
  /\ ~Authorised(c)
  /\ Becomes(c, IF calls[c].step = "fetch" THEN "refused" ELSE "refused again")
  /\ UNCHANGED <<editor, cookie, issued, expired, gists>>

\* create_share: the number of files, then the gist.
CreateShare(c) ==
  /\ Arrives(c)
  /\ Authorised(c)
  /\ calls[c].kind = "share"
  /\ Cardinality(DOMAIN calls[c].sent.files) \in 1..MaxFiles
  /\ \E g \in Stored(calls[c].sent.files) :
       gists' = Append(gists, [files |-> g, book |-> calls[c].sent.book, by |-> c])
  /\ calls' = [calls EXCEPT ![c].step = "answered", ![c].id = Len(gists) + 1]
  /\ UNCHANGED <<editor, cookie, issued, expired>>

LoadShare(c) ==
  /\ Arrives(c)
  /\ Authorised(c)
  /\ calls[c].kind = "load"
  /\ calls[c].id \in DOMAIN gists
  /\ Becomes(c, "answered")
  /\ UNCHANGED <<editor, cookie, issued, expired, gists>>

\* Mutant: an answer that failed is treated like a 401.
AnswerErrorRetried(c) ==
  /\ Arrives(c)
  /\ Authorised(c)
  /\ Becomes(c, IF calls[c].step = "fetch" THEN "refused" ELSE "failed")
  /\ \/ UNCHANGED gists
     \/ \E g \in Stored(calls[c].sent.files) :
          gists' = Append(gists, [files |-> g, book |-> calls[c].sent.book, by |-> c])
  /\ UNCHANGED <<editor, cookie, issued, expired>>

\* Invalid, not found, or GitHub failed - or answered what cannot be read, and
\* then a gist is there that nobody knows of.
AnswerError(c) ==
  /\ Arrives(c)
  /\ Authorised(c)
  /\ Becomes(c, "failed")
  /\ \/ UNCHANGED gists
     \/ /\ calls[c].kind = "share"
        /\ Cardinality(DOMAIN calls[c].sent.files) \in 1..MaxFiles
        /\ \E g \in Stored(calls[c].sent.files) :
             gists' = Append(gists, [files |-> g, book |-> calls[c].sent.book, by |-> c])
  /\ UNCHANGED <<editor, cookie, issued, expired>>

-----------------------------------------------------------------------------
Step(c) ==
  \/ Retry(c) \/ RefusedAgain(c) \/ FinishShare(c) \/ FinishLoad(c)
  \/ Reject(c) \/ CreateShare(c) \/ LoadShare(c) \/ AnswerError(c)

Next ==
  \/ Expire
  \/ \E p \in Pages : Edit(p) \/ EnsureAuth(p) \/ ClickShare(p) \/ OpenLink(p)
  \/ \E c \in DOMAIN calls : Step(c) \/ FetchThrows(c)

Spec == Init /\ [][Next]_vars

\* The backend answers, and the page goes on with the answer.
FairSpec == Spec /\ \A c \in 1..MaxCalls : WF_vars(c \in DOMAIN calls /\ Step(c))
-----------------------------------------------------------------------------
Steps == {"fetch", "refused", "refetch", "refused again", "answered", "done", "failed"}

TypeOK ==
  /\ \A p \in Pages : editor[p].book \in Books
  /\ cookie \in [Pages -> 0..MaxTokens]
  /\ issued \in 0..MaxTokens /\ expired \in 0..issued
  /\ Len(calls) <= MaxCalls
  /\ \A c \in DOMAIN calls : calls[c].step \in Steps /\ calls[c].token \in 0..issued
  /\ \A g \in DOMAIN gists : gists[g].by \in DOMAIN calls

\* The paths that survive: directly in sources, or at the top without looking
\* like one that is.
Flat(path) ==
  LET file == IF Len(path) > 1 /\ path[1] = "sources" /\ path[2] = "/"
              THEN SubSeq(path, 3, Len(path)) ELSE path
  IN /\ \A i \in DOMAIN file : file[i] # "/"
     /\ ~(Len(path) > 1 /\ path[1] = "sources" /\ path[2] = "_")

\* What the call c that opens a link has put, or is about to put, into the
\* editor, and what was in the editor when that link was shared.
Gist(c)   == gists[calls[c].id]
Shared(c) == calls[Gist(c).by].sent

Opened == {c \in DOMAIN calls : calls[c].kind = "load" /\ calls[c].step \in {"answered", "done"}}

\* docs/specification.md:61, "Permalink loads the exact code, named addresses,
\* and selected function": with such paths a link opens the files and addresses
\* of the moment Share was clicked, whatever was edited, retried or shared since.
FlatExact ==
  \A c \in Opened :
    (\A path \in DOMAIN Shared(c).files : Flat(path)) =>
      Loaded(Gist(c).files) = Shared(c).files /\ Gist(c).book = Shared(c).book

\* The retry never shares twice: one click, at most one gist.
OneGistPerShare == \A g, h \in DOMAIN gists : gists[g].by = gists[h].by => g = h

\* Every call ends, in a workspace, a link or a toast: the retry is one retry.
CallsEnd ==
  \A c \in 1..MaxCalls :
    c \in DOMAIN calls ~> c \in DOMAIN calls /\ calls[c].step \in {"done", "failed"}
=============================================================================
