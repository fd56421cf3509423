------------------------------- MODULE MCPage -------------------------------
(* Three workspaces: the initial one; one where an entry function, of two,   *)
(* has another name and a test comes first; and one without any entry.       *)
EXTENDS Page

File(module, entries, tests) ==
  [move |-> TRUE, module |-> module, entries |-> entries, tests |-> tests]

Toml == [move |-> FALSE, module |-> "", entries |-> <<>>, tests |-> <<>>]
Main == "playground::main"
Coin == "playground::coin"

MCDefault    == <<Toml, File(Main, <<"hello">>, <<"test_hello">>)>>
MCWorkspaces == {MCDefault,
                 <<File(Coin, <<>>, <<"test_coin">>), File(Main, <<"hi", "bye">>, <<>>)>>,
                 <<Toml, File("", <<"hello">>, <<>>)>>}
MCFunction   == <<Main, "hello">>

\* The parts have little in common: while one is explored the others are where
\* they started, but for the function that is selected.
OnChainIdle == jobs = <<>> /\ importing = 0 /\ creating = <<>> /\ wallet = "none" /\ ~others
PanelOpened == files = Default /\ wide /\ tab = "editor" /\ ~edited
PanelFirst  == PanelOpened /\ available = <<>> /\ selected = DefaultFunction
Untouched   == /\ open = {} /\ press = Nowhere /\ editor = "loading" /\ ~handle
               /\ saved = [mode |-> "none", keys |-> "none"] /\ os = "dark"

Apart ==
  \/ OnChainIdle /\ PanelFirst
  \/ OnChainIdle /\ Untouched
  \/ PanelOpened /\ Untouched
=============================================================================
