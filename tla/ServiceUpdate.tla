--------------------------- MODULE ServiceUpdate ---------------------------
(***************************************************************************)
(* What deploying a service promises, whatever fails, to those who use the *)
(* service: there is one container they reach by the service's name, and   *)
(* at most one put aside for it.  A new one takes the name only when the   *)
(* old one is aside; the old one is given up only when the new one was     *)
(* accepted; what a failed update puts back is what it had put aside; and  *)
(* "deployed" and "not changed" are said only of what is configured.       *)
(***************************************************************************)

CONSTANTS
    Options,    \* what a container is created with
    None        \* no container

VARIABLES
    wanted,     \* what is configured
    current,    \* what the container with the service's name was created with
    aside,      \* the same of the container put aside in its favour
    phase,
    outcome

vars == <<wanted, current, aside, phase, outcome>>

Init ==
    /\ wanted \in Options
    /\ current = None /\ aside = None
    /\ phase = "idle" /\ outcome = "none"

Goto(next) == phase' = next /\ UNCHANGED outcome
End(result) == phase' = "done" /\ outcome' = result

Begin ==
    /\ phase = "idle"
    /\ (phase' = "preparing" /\ outcome' = "none") \/ End("failed")
    /\ UNCHANGED <<wanted, current, aside>>

NotChanged ==
    /\ phase = "preparing" /\ current = wanted
    /\ End("notChanged")
    /\ UNCHANGED <<wanted, current, aside>>

\* Nothing is put aside for a service that had no container.
PutAside ==
    /\ phase = "preparing"
    /\ aside' = current /\ current' = None
    /\ Goto("trying")
    /\ UNCHANGED wanted

Launch ==
    /\ phase = "trying" /\ current = None
    /\ current' = wanted
    /\ UNCHANGED <<wanted, aside, phase, outcome>>

Accept ==
    /\ phase = "trying" /\ current = wanted
    /\ Goto("accepted")
    /\ UNCHANGED <<wanted, current, aside>>

\* A step that fails may have had its effect all the same.
Undo ==
    /\ \/ phase = "preparing" /\ current' \in {current, None}
       \/ phase = "trying" /\ current' \in {current} \cup (IF current = None THEN {wanted} ELSE {})
    /\ Goto("undoing")
    /\ UNCHANGED <<wanted, aside>>

Discard ==
    /\ phase = "undoing"
    /\ current' = None
    /\ Goto("undoing") \/ End("failed")
    /\ UNCHANGED <<wanted, aside>>

Restore ==
    /\ phase = "undoing" /\ current = None /\ aside # None
    /\ current' = aside /\ aside' = None
    /\ Goto("undoing") \/ End("failed")
    /\ UNCHANGED wanted

\* The only step, but for the end of the process, that gives up what is aside.
Drop ==
    /\ phase = "accepted"
    /\ aside' = None
    /\ Goto("accepted") \/ End("failed")
    /\ UNCHANGED <<wanted, current>>

Deployed ==
    /\ phase = "accepted" /\ current = wanted /\ aside = None
    /\ End("deployed")
    /\ UNCHANGED <<wanted, current, aside>>

GiveUp ==
    /\ phase \notin {"idle", "done"}
    /\ End("failed")
    /\ UNCHANGED <<wanted, current, aside>>

\* A process that ends or is killed remembers nothing of what it put aside.
Leave ==
    /\ phase # "idle"
    /\ phase' = "idle" /\ outcome' = (IF phase = "done" THEN outcome ELSE "failed")
    /\ aside' = None
    /\ UNCHANGED <<wanted, current>>

\* Between two deployments everything may change.
Others ==
    /\ phase = "idle"
    /\ wanted' \in Options /\ current' \in Options \cup {None}
    /\ UNCHANGED <<aside, phase, outcome>>

Next ==
    \/ Begin \/ NotChanged \/ PutAside \/ Launch \/ Accept \/ Undo \/ Discard
    \/ Restore \/ Drop \/ Deployed \/ GiveUp \/ Leave \/ Others

Spec == Init /\ [][Next]_vars
=============================================================================
