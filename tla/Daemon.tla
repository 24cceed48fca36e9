------------------------------- MODULE Daemon -------------------------------
(***************************************************************************)
(* One run of the daemon after the other: the chain of calls in main.go,   *)
(* with the ordering of ci.yaml's services (DependsOn), the docker network *)
(* (docker/utils.go) and the loop that deploys the third services.  Of a   *)
(* deployment only the outcome matters here; Deployment says how it comes  *)
(* about.                                                                  *)
(*                                                                         *)
(* A run that ends, whatever its exit code, is followed by another one.    *)
(***************************************************************************)
EXTENDS Naturals, Sequences, FiniteSets

CONSTANTS
    Services,       \* the services ci.yaml defines
    ThirdServices,  \* those of them that are third services
    Names,          \* what a dependsOn may name, defined or not
    Lists,          \* what a dependsOn may be
    ContainerName,  \* GetContainerName: "<CI's name>-<service's name>"
    MaxFaults       \* bound on failed calls, crashes and removed networks

ASSUME DaemonAssumption ==
    /\ ThirdServices \subseteq Services
    /\ Lists \subseteq Seq(Names)
    /\ \A s, r \in Services : ContainerName[s] = ContainerName[r] => s = r
    /\ MaxFaults \in Nat

VARIABLES
    dependsOn, unprocessed, processed, chain, status,   \* of DependsOn
    variables,  \* whether ci.yaml has any
    phase,      \* the call of the chain that comes next
    index,      \* of the loop in deploy
    handled,    \* containers this run dealt with, and the service in each
    up,         \* services whose container runs
    networks,   \* the driver of each network whose name has networkMode in it
    exitCode,   \* of the last run
    faults

loaded == <<variables, dependsOn, unprocessed, processed, chain, status>>
vars == <<loaded, phase, index, handled, up, networks, exitCode, faults>>

Order == INSTANCE DependsOn

\* The network of that very name, and one whose name contains it.
NetworkNames == {"own", "similar"}
Drivers == {"bridge", "other"}
NoNetwork == "none"

TypeOK ==
    /\ Order!TypeOK /\ variables \in BOOLEAN
    /\ phase \in {"down", "directories", "initialize", "version", "network", "deploy",
                  "run", "serving"}
    /\ index \in 1..(Cardinality(Services) + 1)
    /\ handled \subseteq Services \X Services
    /\ up \subseteq Services
    /\ networks \in [NetworkNames -> Drivers \cup {NoNetwork}]
    /\ exitCode \in 0..2
    /\ faults \in 0..MaxFaults

Init ==
    /\ Order!Init /\ variables \in BOOLEAN
    /\ phase = "down" /\ index = 1
    /\ handled = {} /\ up = {}
    /\ networks \in [NetworkNames -> Drivers \cup {NoNetwork}]
    /\ exitCode = 0 /\ faults = 0

-----------------------------------------------------------------------------

Fault == faults < MaxFaults /\ faults' = faults + 1

\* (mutant: the exit code is one too high)
ExitNext(code) == phase' = "down" /\ exitCode' = code + 1

Exit(code) == phase' = "down" /\ exitCode' = code

\* A call of the chain: it leads to the next one, or its error ends the run.
Call(from, to) ==
    /\ phase = from
    /\ \/ phase' = to /\ UNCHANGED <<exitCode, faults>>
       \/ Fault /\ Exit(2)

Boot ==
    /\ phase = "down"
    /\ phase' = "directories"
    /\ unprocessed' = Services /\ processed' = <<>> /\ chain' = <<>> /\ status' = "working"
    /\ index' = 1 /\ handled' = {} /\ exitCode' = 0
    /\ UNCHANGED <<variables, dependsOn, up, networks, faults>>

EnsureCIDirectories ==
    /\ Call("directories", "initialize")
    /\ UNCHANGED <<loaded, index, handled, up, networks>>

\* OpenCI puts the services in order, but a file without variables it leaves as
\* it was parsed: it is not validated, and no service is in the sequence.
InitializeCI ==
    /\ phase = "initialize" /\ variables /\ Order!Next
    /\ UNCHANGED <<variables, phase, index, handled, up, networks, exitCode, faults>>

\* (mutant: what OpenCI says of ci.yaml is not looked at)
AcceptAnything == phase' = "version" /\ UNCHANGED exitCode

OpenCIResult ==
    IF status \in {"circular", "notFound"} THEN Exit(2) ELSE phase' = "version" /\ UNCHANGED exitCode

OpenCIReturns ==
    /\ phase = "initialize"
    /\ \/ (variables => status # "working") /\ OpenCIResult /\ UNCHANGED faults
       \/ Fault /\ Exit(2)
    /\ UNCHANGED <<loaded, index, handled, up, networks>>

CheckDockerVersion ==
    /\ Call("version", "network")
    /\ UNCHANGED <<loaded, index, handled, up, networks>>

\* NetworkList filters for names that contain the one asked for.
Listed == {n \in NetworkNames : networks[n] # NoNetwork}

\* The first one listed is taken for the network, whatever its name.
NetworkExists ==
    /\ \E n \in Listed :
          IF networks[n] = "bridge" THEN phase' = "deploy" /\ UNCHANGED exitCode ELSE Exit(2)
    /\ UNCHANGED networks

\* (mutant: the network is not created)
AnnounceNetwork == Listed = {} /\ Exit(1) /\ UNCHANGED networks

\* ErrNetworkCreated: the daemon has to be started again inside the network.
CreateNetwork ==
    /\ Listed = {}
    /\ networks' = [networks EXCEPT !["own"] = "bridge"]
    /\ Exit(1)

EnsureDockerNetwork ==
    /\ phase = "network"
    /\ \/ (NetworkExists \/ CreateNetwork) /\ UNCHANGED faults
       \/ Fault /\ Exit(2) /\ UNCHANGED networks
    /\ UNCHANGED <<loaded, index, handled, up>>

\* A name is looked up as a service's first, and only then as a container's.
GetService(name) ==
    IF name \in Services THEN name ELSE CHOOSE s \in Services : ContainerName[s] = name

\* (mutant: the loop goes on after a deployment that failed)
LogAndContinue == index' = index + 1 /\ UNCHANGED <<phase, exitCode>>

DeployFails == UNCHANGED index /\ Exit(2)

\* A container that runs may be found unchanged, one that does not or that
\* changed is replaced, and needs the network for that.  A deployment that
\* fails may cost the service the container it had, or leave the new one running.
Deploy(s) ==
    \/ /\ s \in up \/ networks["own"] # NoNetwork
       /\ up' = up \cup {s}
       /\ handled' = handled \cup {<<s, GetService(ContainerName[s])>>}
       /\ index' = index + 1
       /\ UNCHANGED <<phase, exitCode, faults>>
    \/ /\ (networks["own"] = NoNetwork /\ UNCHANGED faults) \/ Fault
       /\ up' \in {up, up \ {s}} \cup (IF networks["own"] = NoNetwork THEN {} ELSE {up \cup {s}})
       /\ DeployFails
       /\ UNCHANGED handled

\* (mutant: deploy goes through the sequence from its end)
Backwards == processed[Len(processed) + 1 - index]

Current == processed[index]

DeployNext ==
    /\ phase = "deploy" /\ index <= Len(processed)
    /\ IF GetService(ContainerName[Current]) \in ThirdServices
       THEN Deploy(Current)
       ELSE index' = index + 1 /\ UNCHANGED <<phase, handled, up, exitCode, faults>>
    /\ UNCHANGED <<loaded, networks>>

DeployReturns ==
    /\ phase = "deploy" /\ index > Len(processed)
    /\ phase' = "run"
    /\ UNCHANGED <<loaded, index, handled, up, networks, exitCode, faults>>

Run ==
    /\ Call("run", "serving")
    /\ UNCHANGED <<loaded, index, handled, up, networks>>

Startup ==
    \/ Boot \/ EnsureCIDirectories \/ InitializeCI \/ OpenCIReturns \/ CheckDockerVersion
    \/ EnsureDockerNetwork \/ DeployNext \/ DeployReturns \/ Run

\* Serving ends with a signal (exit code 0) or an error; anything can be killed.
Stop ==
    /\ phase # "down" /\ Fault
    /\ \E code \in IF phase = "serving" THEN {0, 2} ELSE {2} : Exit(code)
    /\ UNCHANGED <<loaded, index, handled, up, networks>>

ContainerExits ==
    /\ \E s \in up : up' = up \ {s}
    /\ UNCHANGED <<loaded, phase, index, handled, networks, exitCode, faults>>

\* The engine refuses to remove a network that containers use.
NetworkRemoved ==
    /\ networks["own"] # NoNetwork /\ up = {} /\ Fault
    /\ networks' = [networks EXCEPT !["own"] = NoNetwork]
    /\ UNCHANGED <<loaded, phase, index, handled, up, exitCode>>

Next == Startup \/ Stop \/ ContainerExits \/ NetworkRemoved

Spec == Init /\ [][Next]_vars /\ WF_vars(Startup)

-----------------------------------------------------------------------------
(* Properties *)

\* The service whose name is no other service's container's name.
Unambiguous(s) == ContainerName[s] \notin Services

Handled == {s \in Services : <<s, s>> \in handled}

\* A third service is deployed only when every third service it depends on was
\* dealt with before it in the same run, in whatever order Go's maps gave the
\* services to CI.Initialize this time (deploy, processDependsOn).
InOrder ==
    [][\A s \in Handled' \ Handled :
         \A d \in Order!Elements(dependsOn[s]) \cap ThirdServices :
            Unambiguous(d) => d \in Handled]_vars

Dealt == \A s \in ThirdServices : Unambiguous(s) => s \in Handled

\* The daemon registers and serves only after this very run put the services in
\* order and dealt with every third one, if ci.yaml has variables.
ServesAll ==
    variables /\ phase \in {"run", "serving"} => status = "finished" /\ Dealt

\* Once nothing more goes wrong, a daemon that is started again whenever it
\* exits gets to serve, if ci.yaml is accepted, the network has the expected
\* driver or is not there yet, and no other network has a name with it inside.
Serves ==
    [](networks["similar"] = NoNetwork /\ networks["own"] # "other" =>
         <>(phase = "serving" \/ status \in {"circular", "notFound"}))

-----------------------------------------------------------------------------
(* What the repository says of the program, and the program does not do *)

\* README.md:43, "third services are deployed automatically": whatever ci.yaml
\* has in it, a daemon that serves has deployed them.
DeploysThirdServices == phase = "serving" => Dealt
=============================================================================
