------------------------------ MODULE OnChain ------------------------------
(***************************************************************************)
(* Publish and "Run (Devnet)" of the run menu: a click takes along what    *)
(* was rendered (whether a wallet is connected, and the devnet account),   *)
(* Publish awaits the backend's payload, and then the wallet or the        *)
(* account signs.  Meanwhile the wallet connects, leaves or changes its    *)
(* network.  The devnet account is kept in localStorage, which other pages *)
(* of the browser share.                                                   *)
(***************************************************************************)
EXTENDS EntryFunctions

CONSTANTS
  MaxClicks,   \* bound: clicks on Publish and Run (Devnet)
  MaxAccounts  \* bound: devnet accounts, which are numbered

ASSUME OnChainBounds == MaxClicks \in Nat /\ MaxAccounts \in Nat \ {0}

VARIABLES
  wallet,    \* the network of the connected wallet: "devnet" or "other", or
             \* "none" without one
  account,   \* devnetAccount, the state of Header (0 for none)
  stored,    \* the account in localStorage
  generated, \* accounts generated so far
  importing, \* calls of createDevnetAccount that wait for the SDK
  creating,  \* accounts stored, but not yet shown by the call that made them
  others,    \* history: another page stored an account since this one looked
  jobs,      \* the clicks, with what each took along and how far it is
  pending    \* pendingRef of useWebSocket: the job whose payload is awaited

accounts == <<account, stored, generated, importing, creating, others>>
clicks   == <<jobs, pending>>
onchain  == <<wallet, accounts, clicks>>

Networks == {"none", "devnet", "other"}

OnChainInit ==
  /\ wallet = "none"
  /\ generated \in 0..1 /\ stored = generated /\ account = stored
  /\ importing = 0 /\ creating = <<>> /\ others = FALSE
  /\ jobs = <<>> /\ pending = 0

-----------------------------------------------------------------------------
(* The wallet, the devnet account, and other pages. *)

\* connect, disconnect, or something the user does in the wallet itself.
WalletChanges ==
  /\ wallet' \in Networks \ {wallet}
  /\ UNCHANGED <<accounts, clicks, functions>>

\* The button is there while no account is shown, a second time before the
\* first call is through as well.
CreateDevnetAccount ==
  /\ account = 0
  /\ importing + generated < MaxAccounts
  /\ importing' = importing + 1
  /\ UNCHANGED <<wallet, account, stored, generated, creating, others, clicks, functions>>

\* Mutant: an account that is there is kept.
SaveFirst(n) == IF stored = 0 THEN n ELSE stored

Save(n) == n

\* The SDK is there: a new account is generated and stored.
Generate ==
  /\ importing > 0
  /\ importing' = importing - 1
  /\ generated' = generated + 1
  /\ creating' = Append(creating, generated + 1)
  /\ stored' = Save(generated + 1)
  /\ others' = FALSE
  /\ UNCHANGED <<wallet, account, clicks, functions>>

\* Nobody catches what import throws.
ImportFails ==
  /\ importing > 0
  /\ importing' = importing - 1
  /\ UNCHANGED <<wallet, account, stored, generated, creating, others, clicks, functions>>

\* The call returns, and Header shows its account.
ShowAccount ==
  /\ creating # <<>>
  /\ account' = Head(creating)
  /\ creating' = Tail(creating)
  /\ UNCHANGED <<wallet, stored, generated, importing, others, clicks, functions>>

OtherPageCreates ==
  /\ importing + generated < MaxAccounts
  /\ generated' = generated + 1
  /\ stored' = generated + 1
  /\ others' = TRUE
  /\ UNCHANGED <<wallet, account, importing, creating, clicks, functions>>

\* The page is loaded anew: calls are forgotten, the account is read, and
\* autoConnect may bring back the wallet.
Reload ==
  /\ wallet' \in {"none", wallet}
  /\ account' = stored
  /\ importing' = 0 /\ creating' = <<>> /\ others' = FALSE
  /\ jobs' = [j \in DOMAIN jobs |->
                IF jobs[j].step \in {"building", "signing"} THEN [jobs[j] EXCEPT !.step = "failed"]
                ELSE jobs[j]]
  /\ pending' = 0
  /\ UNCHANGED <<stored, generated, functions>>

-----------------------------------------------------------------------------
(* The clicks. *)

Job(kind, step) ==
  [kind |-> kind, step |-> step, connected |-> wallet # "none", account |-> account,
   signer |-> "nobody", net |-> "none"]

Connected  == wallet # "none"
CanPublish == wallet = "devnet" \/ (~Connected /\ account # 0)
CanRun     == (Connected \/ account # 0) /\ selected # Null

\* executeWithResult turns it away while another one waits ("Another command is
\* already in progress"), and if the socket is not open.
Publish ==
  /\ CanPublish /\ Len(jobs) < MaxClicks
  /\ \/ /\ pending = 0
        /\ jobs' = Append(jobs, Job("publish", "building"))
        /\ pending' = Len(jobs) + 1
     \/ /\ jobs' = Append(jobs, Job("publish", "failed"))
        /\ UNCHANGED pending
  /\ UNCHANGED <<wallet, accounts, functions>>

\* The promise is settled: a Done with a payload, or one without, or Failed.  A
\* socket that dies before leaves it pending.
Built ==
  /\ pending # 0
  /\ \E step \in {"signing", "failed"} : jobs' = [jobs EXCEPT ![pending].step = step]
  /\ pending' = 0
  /\ UNCHANGED <<wallet, accounts, functions>>

RunOnChain ==
  /\ CanRun /\ Len(jobs) < MaxClicks
  /\ jobs' = Append(jobs, Job("run", "signing"))
  /\ UNCHANGED <<wallet, accounts, pending, functions>>

\* Mutant: the wallet is looked at when the transaction is signed.
ByWalletNow(j) == Connected

\* What was connected when the button was clicked.
ByWallet(j) == jobs[j].connected

\* The wallet signs, on the network it has by now, or the account of the click,
\* always on devnet.
Sign(j) ==
  /\ jobs[j].step = "signing"
  /\ IF ByWallet(j) THEN Connected ELSE jobs[j].account # 0
  /\ jobs' = [jobs EXCEPT
       ![j].step   = "submitted",
       ![j].signer = IF ByWallet(j) THEN "wallet" ELSE "account",
       ![j].net    = IF ByWallet(j) THEN wallet ELSE "devnet"]
  /\ UNCHANGED <<wallet, accounts, pending, functions>>

\* The wallet or its user refuses, or the devnet does; a toast says so.
SignFails(j) ==
  /\ jobs[j].step = "signing"
  /\ jobs' = [jobs EXCEPT ![j].step = "failed"]
  /\ UNCHANGED <<wallet, accounts, pending, functions>>

OnChainNext ==
  \/ WalletChanges \/ CreateDevnetAccount \/ Generate \/ ImportFails \/ ShowAccount \/ OtherPageCreates \/ Reload
  \/ Publish \/ Built \/ RunOnChain
  \/ \E j \in DOMAIN jobs : Sign(j) \/ SignFails(j)
-----------------------------------------------------------------------------
OnChainTypeOK ==
  /\ wallet \in Networks
  /\ {account, stored} \subseteq 0..generated /\ generated + importing <= MaxAccounts
  /\ \A i \in DOMAIN creating : creating[i] \in 1..generated
  /\ pending \in 0..Len(jobs)
  /\ \A j \in DOMAIN jobs : jobs[j].step \in {"building", "signing", "submitted", "failed"}

\* A transaction is signed by whom the button named when it was clicked, and
\* only if the wallet was there then: one that connects while the payload is
\* built does not sign what was to be published by the devnet account.
SignedAsOffered ==
  \A j \in DOMAIN jobs : jobs[j].step = "submitted" =>
    /\ jobs[j].signer = IF jobs[j].connected THEN "wallet" ELSE "account"
    /\ jobs[j].signer = "account" => jobs[j].net = "devnet" /\ jobs[j].account # 0

\* The account that is shown, and receives funds, is the one that would be
\* there after a reload, unless another page has stored its own: two clicks
\* on Create leave both at the same account.
ShownIsStored ==
  creating = <<>> /\ ~others => account = stored
=============================================================================
