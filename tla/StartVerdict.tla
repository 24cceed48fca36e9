---------------------------- MODULE StartVerdict ----------------------------
(***************************************************************************)
(* What watching a container start promises to the deployment that waits   *)
(* for it: at most one verdict, and none without a reason for it.          *)
(***************************************************************************)

CONSTANTS
    Good,   \* reasons to call a start successful
    Bad     \* reasons to call it failed

VARIABLES
    seen,       \* the reasons there are so far
    outcome     \* "open", then "success" or "failure"

vars == <<seen, outcome>>

TypeOK == seen \subseteq Good \cup Bad /\ outcome \in {"open", "success", "failure"}

Init == seen = {} /\ outcome = "open"

Justified(verdict, reasons) ==
    \/ verdict = "success" /\ reasons \cap Good # {}
    \/ verdict = "failure" /\ reasons \cap Bad # {}

\* Things go on happening after the verdict, but it stands.
Next ==
    /\ seen' \in SUBSET (Good \cup Bad)
    /\ seen \subseteq seen'
    /\ \/ outcome' = outcome
       \/ outcome = "open" /\ outcome' \in {"success", "failure"} /\ Justified(outcome', seen')

Spec == Init /\ [][Next]_vars
=============================================================================
