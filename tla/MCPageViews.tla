---------------------------- MODULE MCPageViews ----------------------------
(***************************************************************************)
(* Instances of DetailPanel and SettingsPanels for TLC, two models of what *)
(* the page opens side by side: part says which one a behaviour is about,  *)
(* the other one stays as it began.                                        *)
(***************************************************************************)
EXTENDS DetailPanel, SettingsPanels

VARIABLE part

\* The layout is that of the panel's part alone.
Init == /\ part \in {"panel", "settings"}
        /\ PanelInit /\ SettingsInit
        /\ part = "settings" => ~ narrow

Next == /\ UNCHANGED part
        /\ \/ part = "panel" /\ PanelNext /\ UNCHANGED settingsVars
           \/ part = "settings" /\ SettingsNext /\ UNCHANGED panelVars

Spec == Init /\ [][Next]_<<part, panelVars, settingsVars>>

\* Settings that stay as they began have nothing to be fair to.
FairSpec == Spec /\ SettingsFairness
=============================================================================
