----------------------------- MODULE BootListAbs -----------------------------
(***************************************************************************)
(* What the deployment code promises about the list of bootable            *)
(* deployments: the list changes in one step, and a power loss leaves      *)
(* either the list of before the last change or the list of after it.      *)
(***************************************************************************)
VARIABLES
    list,       \* what the boot loader would offer now
    fallback    \* what it could offer after a power loss

vars == <<list, fallback>>

Init == fallback = {list}

(* The list is switched; the one it replaces must have been on disk.       *)
Switch ==
    /\ fallback = {list}
    /\ fallback' = {list, list'}

Flush ==
    /\ fallback' = {list}
    /\ UNCHANGED list

PowerLoss ==
    /\ list' \in fallback
    /\ fallback' = {list'}

Next == Switch \/ Flush \/ PowerLoss

Spec == Init /\ [][Next]_vars
=============================================================================
