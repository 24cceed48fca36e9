------------------------------ MODULE DependsOn ------------------------------
(***************************************************************************)
(* The order in which the services of ci.yaml are deployed: the loop at    *)
(* the end of CI.Initialize and Service.processDependsOn, of go-micro-ci-  *)
(* common (vendored).  The recursion is a stack of calls: the chain the    *)
(* code keeps, with the loop index of each call beside it.                 *)
(*                                                                         *)
(* The list of unprocessed services starts in the order of Go's iteration  *)
(* over maps, which is any order, third services first.  Always taking its *)
(* head is then the same as taking any third service while there is one.   *)
(***************************************************************************)
EXTENDS Naturals, Sequences

CONSTANTS
    Services,       \* the services ci.yaml defines
    ThirdServices,  \* those of them that are third services
    Names,          \* what a dependsOn may name, defined or not
    Lists           \* what a dependsOn may be

ASSUME DependsOnAssumption ==
    /\ ThirdServices \subseteq Services
    /\ Lists \subseteq Seq(Names)

VARIABLES
    dependsOn,      \* Service.DependsOn
    unprocessed,
    processed,      \* sequencedServiceNames, when it is finished
    chain,          \* the calls in progress
    status

vars == <<dependsOn, unprocessed, processed, chain, status>>

Call == [service: Services, index: Nat \ {0}]

Elements(s) == {s[i] : i \in DOMAIN s}

TypeOK ==
    /\ dependsOn \in [Services -> Lists]
    /\ unprocessed \subseteq Services
    /\ processed \in Seq(Services)
    /\ chain \in Seq(Call)
    /\ status \in {"working", "finished", "circular", "notFound"}

Init ==
    /\ dependsOn \in [Services -> Lists]
    /\ unprocessed = Services
    /\ processed = <<>> /\ chain = <<>>
    /\ status = "working"

-----------------------------------------------------------------------------

\* (mutant: a processed service stays in the list)
StillUnprocessed(y) ==
    /\ unprocessed' = unprocessed
    /\ processed' = Append(processed, y)

\* What is not in the list of unprocessed services is not processed (again).
SetProcessed(y) ==
    /\ unprocessed' = unprocessed \ {y}
    /\ processed' = IF y \in unprocessed THEN Append(processed, y) ELSE processed

\* (mutant: the comparison is the wrong way round)
OtherInChain(y) == \E k \in DOMAIN chain : chain[k].service # y

InChain(y) == \E k \in DOMAIN chain : chain[k].service = y

NewCall(y) == [service |-> y, index |-> 1]

\* processDependsOn(y), up to the first round of its loop.
Enter(y) ==
    \/ /\ Len(dependsOn[y]) = 0
       /\ SetProcessed(y)
       /\ UNCHANGED <<chain, status>>
    \/ /\ Len(dependsOn[y]) > 0 /\ InChain(y)
       /\ status' = "circular"
       /\ UNCHANGED <<chain, unprocessed, processed>>
    \/ /\ Len(dependsOn[y]) > 0 /\ ~InChain(y)
       /\ chain' = Append(chain, NewCall(y))
       /\ UNCHANGED <<unprocessed, processed, status>>

\* The loop of Initialize.
Pick ==
    /\ status = "working" /\ chain = <<>>
    /\ \E y \in unprocessed :
          /\ unprocessed \cap ThirdServices # {} => y \in ThirdServices
          /\ Enter(y)
    /\ UNCHANGED dependsOn

\* (mutant: the loop ends as soon as no call is in progress)
FinishEarly ==
    /\ status = "working" /\ chain = <<>>
    /\ status' = "finished"
    /\ UNCHANGED <<dependsOn, unprocessed, processed, chain>>

Finish ==
    /\ status = "working" /\ chain = <<>> /\ unprocessed = {}
    /\ status' = "finished"
    /\ UNCHANGED <<dependsOn, unprocessed, processed, chain>>

Top == chain[Len(chain)]

\* (mutant: only the first dependency is looked at)
FirstDependency == SubSeq(dependsOn[Top.service], 1, 1)

Dependencies == dependsOn[Top.service]

\* One dependency of the innermost call.  The round that called for it ends when
\* it finds the dependency processed.
Depend ==
    /\ status = "working" /\ chain # <<>>
    /\ Top.index <= Len(Dependencies)
    /\ LET d == Dependencies[Top.index]
       IN  \/ /\ d \in Elements(processed)
              /\ chain' = [chain EXCEPT ![Len(chain)].index = @ + 1]
              /\ UNCHANGED <<unprocessed, processed, status>>
           \/ /\ d \notin Elements(processed) /\ d \notin unprocessed
              /\ status' = "notFound"
              /\ UNCHANGED <<chain, unprocessed, processed>>
           \/ /\ d \notin Elements(processed) /\ d \in unprocessed
              /\ Enter(d)
    /\ UNCHANGED dependsOn

\* The innermost call has seen all its dependencies.
ProcessTop ==
    /\ status = "working" /\ chain # <<>>
    /\ Top.index > Len(Dependencies)
    /\ SetProcessed(Top.service)
    /\ chain' = SubSeq(chain, 1, Len(chain) - 1)
    /\ UNCHANGED <<dependsOn, status>>

Next == Pick \/ Finish \/ Depend \/ ProcessTop

Spec == Init /\ [][Next]_vars

-----------------------------------------------------------------------------
(* Properties *)

\* Whatever comes in the sequence comes after everything it depends on: deploy
\* (main.go), which goes through the sequence, finds the dependencies deployed.
TopologicalOrder ==
    \A i \in DOMAIN processed : \A d \in Elements(dependsOn[processed[i]]) :
        \E j \in 1..(i - 1) : processed[j] = d

\* Every service is in the sequence or waits for it, and none is there twice.
EachOnce ==
    /\ unprocessed = Services \ Elements(processed)
    /\ \A i, j \in DOMAIN processed : processed[i] = processed[j] => i = j

\* Every member has a dependency in the set: one of them depends on itself.
Circular(set) == set # {} /\ \A s \in set : Elements(dependsOn[s]) \cap set # {}

\* ci.yaml is refused only for what is wrong with it: a circle that exists, a
\* name that does not.  What is in progress is never mistaken for either.
RefusedForAReason ==
    /\ status = "circular" => \E set \in SUBSET Services : Circular(set)
    /\ status = "notFound" => \E s \in Services : ~(Elements(dependsOn[s]) \subseteq Services)

InProgress == {chain[k].service : k \in DOMAIN chain}

\* The ways in which a step may bring the ordering nearer to its end, the first
\* of them before the second, the second before the third: a service is processed,
\* one more of those left has its call in progress, the innermost call comes to
\* its next dependency.
Nearer ==
    \/ unprocessed' \subseteq unprocessed /\ unprocessed' # unprocessed
    \/ /\ unprocessed' = unprocessed
       /\ InProgress \subseteq InProgress' /\ InProgress' # InProgress
       /\ InProgress' \subseteq unprocessed
    \/ /\ UNCHANGED <<unprocessed, InProgress, dependsOn>>
       /\ chain # <<>> /\ Len(chain') = Len(chain)
       /\ Top'.service = Top.service
       /\ Top.index < Top'.index /\ Top'.index <= Len(Dependencies) + 1
=============================================================================
