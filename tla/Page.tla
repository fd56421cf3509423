-------------------------------- MODULE Page --------------------------------
(***************************************************************************)
(* The header and the configuration panel of one page: what runs on chain  *)
(* with the function selected in the panel, beside the menus and the       *)
(* preferences.                                                            *)
(***************************************************************************)
EXTENDS OnChain, Preferences

page == <<functions, onchain, preferences>>

Init == FunctionsInit /\ OnChainInit /\ PreferencesInit

Next ==
  \/ FunctionsNext   /\ UNCHANGED <<onchain, preferences>>
  \/ OnChainNext     /\ UNCHANGED preferences
  \/ PreferencesNext /\ UNCHANGED <<functions, onchain>>

Spec == Init /\ [][Next]_page

TypeOK == FunctionsTypeOK /\ OnChainTypeOK /\ PreferencesTypeOK
=============================================================================
