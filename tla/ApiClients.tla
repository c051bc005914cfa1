----------------------------- MODULE ApiClients ------------------------------
(***************************************************************************)
(* The clients that read from the server over many requests: the pager     *)
(* through captured webhooks, the pager through reviews, the reader of one *)
(* review, the commands of the CLI that gate and that resolve presets, the *)
(* operator who triages in the dashboard and the one who browses in it.    *)
(* They share nothing (the commands see what the server answers as any     *)
(* reply), so a behaviour follows one of them.                             *)
(***************************************************************************)
EXTENDS DeliveryListing, ReviewListing, ReviewReads, PresetCommands, TriageDesk, ReviewBrowser

VARIABLE client \* who is followed

vars == <<deliveryVars, reviewVars, readVars, commandVars, presetVars, deskVars, browserVars, client>>

Init ==
    /\ DeliveryInit /\ ReviewInit /\ ReadInit /\ CommandInit /\ PresetInit /\ DeskInit
    /\ BrowserInit
    /\ client \in {"deliveries", "reviews", "reads", "commands", "presets", "desk", "browser"}

Next ==
    \/ /\ client = "deliveries" /\ DeliveryNext
       /\ UNCHANGED <<reviewVars, readVars, commandVars, presetVars, deskVars, browserVars, client>>
    \/ /\ client = "reviews" /\ ReviewNext
       /\ UNCHANGED <<deliveryVars, readVars, commandVars, presetVars, deskVars, browserVars, client>>
    \/ /\ client = "reads" /\ ReadsNext
       /\ UNCHANGED <<deliveryVars, reviewVars, commandVars, presetVars, deskVars, browserVars, client>>
    \/ /\ client = "commands" /\ CommandNext
       /\ UNCHANGED <<deliveryVars, reviewVars, readVars, presetVars, deskVars, browserVars, client>>
    \/ /\ client = "presets" /\ PresetNext
       /\ UNCHANGED <<deliveryVars, reviewVars, readVars, commandVars, deskVars, browserVars, client>>
    \/ /\ client = "desk" /\ DeskNext
       /\ UNCHANGED <<deliveryVars, reviewVars, readVars, commandVars, presetVars, browserVars, client>>
    \/ /\ client = "browser" /\ BrowserNext
       /\ UNCHANGED <<deliveryVars, reviewVars, readVars, commandVars, presetVars, deskVars, client>>

Spec == Init /\ [][Next]_vars

\* Every variable of the seven has its type, and the store of deliveries keeps to
\* its capacity.
TypeOK == DeliveryTypes /\ ReviewTypes /\ ReadTypes /\ CommandTypes /\ PresetTypes /\ DeskTypes /\ BrowserTypes

\* What the dashboard shows, tells and promises is so, for the operator who triages
\* (TriageDesk) and for the one who browses (ReviewBrowser).
DashboardIsTrue == DeskIsTrue /\ BrowserIsTrue
=============================================================================
