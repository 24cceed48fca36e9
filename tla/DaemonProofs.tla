----------------------------- MODULE DaemonProofs -----------------------------
(***************************************************************************)
(* Proofs about Daemon, for any services, any dependencies, any names of   *)
(* containers and any number of faults.  They rest on those about the      *)
(* ordering (DependsOnProofs), whose invariant is part of DInv: the loop   *)
(* in deploy has dealt with what comes before its index.                   *)
(***************************************************************************)
EXTENDS Daemon, TLAPS, FiniteSetTheorems

Ordering == INSTANCE DependsOnProofs

\* What the loop owes a service it has come by.
DealtWith(s) == s \in ThirdServices /\ Unambiguous(s) => s \in Handled

Sequenced ==
    /\ Ordering!OrderInv
    /\ ~variables => processed = <<>>
    /\ phase \in {"version", "network", "deploy", "run", "serving"} /\ variables =>
          status = "finished"

Looping ==
    /\ index \in Nat \ {0}
    /\ phase \in {"directories", "initialize", "version", "network"} => index = 1
    /\ phase = "deploy" =>
          \A j \in DOMAIN processed : j < index => DealtWith(processed[j])
    /\ phase \in {"run", "serving"} => \A j \in DOMAIN processed : DealtWith(processed[j])

DInv == Sequenced /\ Looping

-----------------------------------------------------------------------------
(* Lemmas *)

\* The two instances of DependsOn are the same.
LEMMA SameOrder ==
    /\ Order!Next <=> Ordering!Next
    /\ Order!Init <=> Ordering!Init
BY DEF Order!Next, Order!Pick, Order!Finish, Order!Depend, Order!ProcessTop, Order!Enter,
       Order!SetProcessed, Order!NewCall, Order!InChain, Order!Top, Order!Dependencies,
       Order!Elements, Order!Init,
       Ordering!Next, Ordering!Pick, Ordering!Finish, Ordering!Depend, Ordering!ProcessTop,
       Ordering!Enter, Ordering!SetProcessed, Ordering!NewCall, Ordering!InChain,
       Ordering!Top, Ordering!Dependencies, Ordering!Elements, Ordering!Init

\* A service whose container's name is no service's is found under that name.
LEMMA Found ==
    ASSUME NEW s \in Services, Unambiguous(s)
    PROVE  GetService(ContainerName[s]) = s
BY DaemonAssumption DEF GetService, Unambiguous

\* A step that leaves the services, their order and what was handled alone, and
\* goes no further than the next call of the chain, or ends the run.
LEMMA CallKeeps ==
    ASSUME DInv, UNCHANGED <<loaded, index, handled>>,
           \/ phase' = phase \/ phase' = "down"
           \/ phase = "directories" /\ phase' = "initialize"
           \/ phase = "initialize" /\ phase' = "version" /\ (variables => status = "finished")
           \/ phase = "version" /\ phase' = "network"
           \/ phase = "network" /\ phase' = "deploy"
           \/ phase = "run" /\ phase' = "serving"
    PROVE  DInv'
PROOF
  <1>1. /\ UNCHANGED <<variables, dependsOn, unprocessed, processed, chain, status>>
        /\ UNCHANGED <<index, handled>>
    BY DEF loaded
  <1>2. Ordering!OrderInv'
    BY <1>1 DEF DInv, Sequenced, Ordering!OrderInv, Ordering!TypeOK, Ordering!EachOnce,
                Ordering!TopologicalOrder, Ordering!ChainOK, Ordering!RefusedForAReason,
                Ordering!Circular
  <1>3. Sequenced'
    BY <1>1, <1>2 DEF DInv, Sequenced
  <1>4. \A s : DealtWith(s)' = DealtWith(s)
    BY <1>1 DEF DealtWith, Handled
  <1>5. DOMAIN processed \subseteq Nat \ {0}
    BY DEF DInv, Sequenced, Ordering!OrderInv, Ordering!TypeOK
  <1>6. phase = "network" => \A j \in DOMAIN processed : ~(j < index)
    BY <1>5 DEF DInv, Looping
  <1>7. Looping'
    BY <1>1, <1>4, <1>6 DEF DInv, Looping
  <1> QED BY <1>3, <1>7 DEF DInv

\* A new run of the daemon starts with nothing in order and nothing handled.
LEMMA BootKeeps ==
    ASSUME DInv, Boot
    PROVE  DInv'
PROOF
  <1>1. /\ phase' = "directories" /\ index' = 1 /\ dependsOn' = dependsOn
        /\ unprocessed' = Services /\ processed' = <<>> /\ chain' = <<>> /\ status' = "working"
    BY DEF Boot
  <1>2. dependsOn \in [Services -> Lists]
    BY DEF DInv, Sequenced, Ordering!OrderInv, Ordering!TypeOK
  <1>3. Ordering!OrderInv'
    BY <1>1, <1>2 DEF Ordering!OrderInv, Ordering!TypeOK, Ordering!EachOnce,
                Ordering!TopologicalOrder, Ordering!ChainOK, Ordering!RefusedForAReason,
                Ordering!Elements
  <1> QED BY <1>1, <1>3 DEF DInv, Sequenced, Looping

\* A step of CI.Initialize.
LEMMA InitializeKeeps ==
    ASSUME DInv, InitializeCI
    PROVE  DInv'
PROOF
  <1>1. /\ phase = "initialize" /\ phase' = phase /\ index' = index
        /\ variables /\ variables' = variables /\ Order!Next
    BY DEF InitializeCI
  <1>2. Ordering!OrderInv'
    BY <1>1, SameOrder, Ordering!OrderStep, DaemonAssumption DEF DInv, Sequenced
  <1> QED BY <1>1, <1>2 DEF DInv, Sequenced, Looping

\* One round of the loop in deploy.
LEMMA DeployKeeps ==
    ASSUME DInv, DeployNext
    PROVE  DInv'
PROOF
  <1>1. /\ phase = "deploy" /\ index <= Len(processed) /\ index \in Nat \ {0}
        /\ UNCHANGED <<variables, dependsOn, unprocessed, processed, chain, status>>
        /\ processed \in Seq(Services)
    BY DEF DeployNext, loaded, DInv, Looping, Sequenced, Ordering!OrderInv, Ordering!TypeOK
  <1>2. Ordering!OrderInv'
    BY <1>1 DEF DInv, Sequenced, Ordering!OrderInv, Ordering!TypeOK, Ordering!EachOnce,
                Ordering!TopologicalOrder, Ordering!ChainOK, Ordering!RefusedForAReason,
                Ordering!Circular
  <1>3. ASSUME phase' \in {"deploy", "down"} PROVE Sequenced'
    BY <1>1, <1>2, <1>3 DEF DInv, Sequenced
  <1>4. Current \in Services /\ Current = processed[index]
    BY <1>1 DEF Current
  <1>5. CASE /\ index' = index + 1 /\ phase' = phase /\ handled \subseteq handled'
             /\ \A s \in Services : s = Current => DealtWith(s)'
    <2>1. \A s \in Services : DealtWith(s) => DealtWith(s)'
      BY <1>5 DEF DealtWith, Handled
    <2>2. ASSUME NEW j \in DOMAIN processed, j < index'
          PROVE  \A s \in Services : s = processed[j] => DealtWith(s)'
      <3>1. CASE j < index
        BY <1>1, <2>1, <3>1 DEF DInv, Looping
      <3>2. CASE j = index
        BY <1>4, <1>5, <3>2
      <3>3. j \in Nat /\ j < index + 1
        BY <1>1, <1>5, <2>2
      <3> QED BY <1>1, <3>1, <3>2, <3>3
    <2>3. \A j \in DOMAIN processed : j < index' => DealtWith(processed[j])'
      BY <1>1, <2>2
    <2>4. Looping'
      BY <1>1, <1>5, <2>3 DEF DInv, Looping
    <2> QED BY <1>1, <1>3, <1>5, <2>4 DEF DInv
  <1>6. CASE index' = index /\ phase' = "down"
    BY <1>1, <1>3, <1>6 DEF DInv, Looping
  <1>7. CASE GetService(ContainerName[Current]) \notin ThirdServices
    <2>1. index' = index + 1 /\ phase' = phase /\ handled' = handled
      BY <1>7 DEF DeployNext
    <2>2. ASSUME NEW s \in Services, s = Current PROVE DealtWith(s)'
      BY <1>7, <2>2, Found DEF DealtWith, Unambiguous
    <2> QED BY <1>5, <2>1, <2>2
  <1>8. CASE Deploy(Current)
    <2>1. CASE index' = index + 1
      <3>1. /\ handled' = handled \cup {<<Current, GetService(ContainerName[Current])>>}
            /\ phase' = phase
        BY <1>1, <1>8, <2>1 DEF Deploy, DeployFails
      <3>2. ASSUME NEW s \in Services, s = Current, Unambiguous(s) PROVE s \in Handled'
        <4>1. <<s, s>> \in handled'
          BY <3>1, <3>2, Found
        <4> QED BY <4>1 DEF Handled
      <3>3. \A s \in Services : s = Current => DealtWith(s)'
        BY <3>2 DEF DealtWith, Unambiguous
      <3> QED BY <1>5, <2>1, <3>1, <3>3
    <2>2. CASE index' # index + 1
      <3>1. DeployFails
        BY <1>8, <2>2 DEF Deploy
      <3> QED BY <1>6, <3>1 DEF DeployFails, Exit
    <2> QED BY <2>1, <2>2
  <1> QED BY <1>7, <1>8 DEF DeployNext

\* The loop in deploy is over.
LEMMA DeployReturnsKeeps ==
    ASSUME DInv, DeployReturns
    PROVE  DInv'
PROOF
  <1>1. /\ phase = "deploy" /\ index > Len(processed) /\ phase' = "run"
        /\ UNCHANGED <<loaded, index, handled>>
        /\ processed \in Seq(Services) /\ index \in Nat \ {0}
    BY DEF DeployReturns, DInv, Looping, Sequenced, Ordering!OrderInv, Ordering!TypeOK
  <1>2. UNCHANGED <<variables, dependsOn, unprocessed, processed, chain, status>>
    BY <1>1 DEF loaded
  <1>3. Ordering!OrderInv'
    BY <1>2 DEF DInv, Sequenced, Ordering!OrderInv, Ordering!TypeOK, Ordering!EachOnce,
                Ordering!TopologicalOrder, Ordering!ChainOK, Ordering!RefusedForAReason,
                Ordering!Circular
  <1>4. Sequenced'
    BY <1>1, <1>2, <1>3 DEF DInv, Sequenced
  <1>5. \A s : DealtWith(s)' = DealtWith(s)
    BY <1>1 DEF DealtWith, Handled
  <1>6. \A j \in DOMAIN processed : j < index
    BY <1>1
  <1>7. Looping'
    BY <1>1, <1>2, <1>5, <1>6 DEF DInv, Looping
  <1> QED BY <1>4, <1>7 DEF DInv

-----------------------------------------------------------------------------
(* The inductive invariant and the theorems *)

LEMMA Inductive ==
    /\ Init => DInv
    /\ DInv /\ [Next]_vars => DInv'
PROOF
  <1>1. ASSUME Init PROVE DInv
    <2>1. /\ Ordering!Init /\ phase = "down" /\ index = 1
      BY <1>1, SameOrder DEF Init
    <2>2. Ordering!OrderInv /\ processed = <<>>
      BY <2>1, Ordering!OrderStart, DaemonAssumption DEF Ordering!Init
    <2> QED BY <2>1, <2>2 DEF DInv, Sequenced, Looping
  <1>2. ASSUME DInv, Next PROVE DInv'
    <2>1. CASE Boot
      BY <1>2, <2>1, BootKeeps
    <2>2. CASE EnsureCIDirectories
      BY <1>2, <2>2, CallKeeps DEF EnsureCIDirectories, Call, Exit
    <2>3. CASE InitializeCI
      BY <1>2, <2>3, InitializeKeeps
    <2>4. CASE OpenCIReturns
      <3>1. UNCHANGED <<loaded, index, handled>> /\ phase = "initialize"
        BY <2>4 DEF OpenCIReturns
      <3>2. status \in {"working", "finished", "circular", "notFound"}
        BY <1>2 DEF DInv, Sequenced, Ordering!OrderInv, Ordering!TypeOK
      <3>3. \/ phase' = "down"
            \/ phase' = "version" /\ (variables => status = "finished")
        BY <2>4, <3>2 DEF OpenCIReturns, OpenCIResult, Exit
      <3> QED BY <1>2, <3>1, <3>3, CallKeeps
    <2>5. CASE CheckDockerVersion
      BY <1>2, <2>5, CallKeeps DEF CheckDockerVersion, Call, Exit
    <2>6. CASE EnsureDockerNetwork
      <3>1. /\ UNCHANGED <<loaded, index, handled>> /\ phase = "network"
            /\ phase' \in {"deploy", "down"}
        BY <2>6 DEF EnsureDockerNetwork, NetworkExists, CreateNetwork, Exit
      <3> QED BY <1>2, <3>1, CallKeeps
    <2>7. CASE DeployNext
      BY <1>2, <2>7, DeployKeeps
    <2>8. CASE DeployReturns
      BY <1>2, <2>8, DeployReturnsKeeps
    <2>9. CASE Run
      BY <1>2, <2>9, CallKeeps DEF Run, Call, Exit
    <2>10. CASE Stop
      BY <1>2, <2>10, CallKeeps DEF Stop, Exit
    <2>11. CASE ContainerExits \/ NetworkRemoved
      BY <1>2, <2>11, CallKeeps DEF ContainerExits, NetworkRemoved
    <2> QED BY <1>2, <2>1, <2>2, <2>3, <2>4, <2>5, <2>6, <2>7, <2>8, <2>9, <2>10, <2>11
            DEF Next, Startup
  <1>3. ASSUME DInv, UNCHANGED vars PROVE DInv'
    BY <1>3, CallKeeps DEF vars
  <1> QED BY <1>1, <1>2, <1>3

\* A daemon that serves has put the services in order and dealt with every third
\* one, in the very run that serves (main.go).
THEOREM ServesWhatItDeployed == Spec => []ServesAll
PROOF
  <1>1. ASSUME DInv, variables, phase \in {"run", "serving"}
        PROVE  status = "finished" /\ Dealt
    <2>1. status = "finished" /\ unprocessed = {} /\ processed \in Seq(Services)
      BY <1>1 DEF DInv, Sequenced, Ordering!OrderInv, Ordering!TypeOK
    <2>2. ASSUME NEW s \in ThirdServices, Unambiguous(s) PROVE s \in Handled
      <3>1. s \in Ordering!Elements(processed)
        BY <1>1, <2>1, DaemonAssumption
           DEF DInv, Sequenced, Ordering!OrderInv, Ordering!EachOnce
      <3>2. PICK j \in DOMAIN processed : processed[j] = s
        BY <3>1 DEF Ordering!Elements
      <3> QED BY <1>1, <2>2, <3>2 DEF DInv, Looping, DealtWith
    <2> QED BY <2>1, <2>2 DEF Dealt
  <1>2. DInv => ServesAll
    BY <1>1 DEF ServesAll
  <1> QED BY <1>2, Inductive, PTL DEF Spec

\* A third service is deployed after the third services it depends on, in the
\* same run (deploy, processDependsOn).
THEOREM DeploysInOrder == Spec => InOrder
PROOF
  <1> DEFINE Step == \A s \in Handled' \ Handled :
                        \A d \in Order!Elements(dependsOn[s]) \cap ThirdServices :
                            Unambiguous(d) => d \in Handled
  <1>1. ASSUME DInv, Next PROVE Step
    <2> SUFFICES ASSUME NEW s \in Handled' \ Handled,
                        NEW d \in Order!Elements(dependsOn[s]) \cap ThirdServices,
                        Unambiguous(d)
                 PROVE  d \in Handled
      OBVIOUS
    <2>1. handled' # handled /\ handled' # {}
      BY DEF Handled
    <2>2. DeployNext
      BY <1>1, <2>1 DEF Next, Startup, Boot, EnsureCIDirectories, InitializeCI, OpenCIReturns,
                        CheckDockerVersion, EnsureDockerNetwork, DeployReturns, Run, Stop,
                        ContainerExits, NetworkRemoved
    <2>3. handled' = handled \cup {<<Current, GetService(ContainerName[Current])>>}
      BY <2>1, <2>2 DEF DeployNext, Deploy
    <2>4. s = Current
      BY <2>3 DEF Handled
    <2>5. /\ phase = "deploy" /\ index \in 1..Len(processed) /\ processed \in Seq(Services)
      BY <1>1, <2>2 DEF DeployNext, DInv, Looping, Sequenced, Ordering!OrderInv, Ordering!TypeOK
    <2>6. d \in Ordering!Elements(dependsOn[processed[index]])
      BY <2>4 DEF Current, Order!Elements, Ordering!Elements
    <2>7. PICK j \in 1..(index - 1) : processed[j] = d
      <3>1. Ordering!TopologicalOrder
        BY <1>1 DEF DInv, Sequenced, Ordering!OrderInv
      <3>2. index \in DOMAIN processed
        BY <2>5
      <3> QED BY <2>6, <3>1, <3>2 DEF Ordering!TopologicalOrder
    <2>8. j \in DOMAIN processed /\ j < index
      BY <2>5, <2>7
    <2> QED BY <1>1, <2>5, <2>7, <2>8 DEF DInv, Looping, DealtWith
  <1>2. DInv /\ [Next]_vars => [Step]_vars
    BY <1>1
  <1> QED BY <1>2, Inductive, PTL DEF Spec, InOrder

\* A sequence without repetition is no longer than there are services.
LEMMA SequenceFits ==
    ASSUME DInv, IsFiniteSet(Services)
    PROVE  Len(processed) <= Cardinality(Services)
PROOF
  <1>1. processed \in Seq(Services) /\ Len(processed) \in Nat
    BY DEF DInv, Sequenced, Ordering!OrderInv, Ordering!TypeOK
  <1>2. \A i, j \in 1..Len(processed) : processed[i] = processed[j] => i = j
    BY <1>1 DEF DInv, Sequenced, Ordering!OrderInv, Ordering!EachOnce
  <1>3. IsFiniteSet(1..Len(processed)) /\ Cardinality(1..Len(processed)) = Len(processed)
    <2> DEFINE n == Len(processed)
    <2>1. n \in Nat
      BY <1>1
    <2> HIDE DEF n
    <2>2. IsFiniteSet(1..n) /\ Cardinality(1..n) = IF 1 > n THEN 0 ELSE n - 1 + 1
      BY <2>1, FS_Interval
    <2>3. IsFiniteSet(1..n) /\ Cardinality(1..n) = n
      BY <2>1, <2>2
    <2> QED BY <2>3 DEF n
  <1>4. processed \in [1..Len(processed) -> Services]
    BY <1>1
  <1>5. Cardinality(Services) \in Nat
    BY FS_CardinalityType
  <1> QED BY <1>1, <1>2, <1>3, <1>4, <1>5, FS_PigeonHole

\* The types, whatever the step.
LEMMA TypesKept ==
    ASSUME DInv, DInv', TypeOK, Next, IsFiniteSet(Services)
    PROVE  TypeOK'
PROOF
  <1> USE DEF Fault, Exit
  <1>1. Order!TypeOK'
    BY DEF DInv, Sequenced, Ordering!OrderInv, Ordering!TypeOK, Ordering!Call,
           Order!TypeOK, Order!Call
  <1>2. Cardinality(Services) \in Nat /\ MaxFaults \in Nat
    BY FS_CardinalityType, DaemonAssumption
  <1>3. (faults' = faults \/ Fault) => faults' \in 0..MaxFaults
    BY <1>2 DEF TypeOK
  <1>4. CASE Boot
    BY <1>1, <1>2, <1>4 DEF Boot, TypeOK
  <1>5. CASE EnsureCIDirectories \/ CheckDockerVersion \/ Run
    BY <1>1, <1>3, <1>5 DEF EnsureCIDirectories, CheckDockerVersion, Run, Call, TypeOK, loaded
  <1>6. CASE InitializeCI
    BY <1>1, <1>6 DEF InitializeCI, TypeOK
  <1>7. CASE OpenCIReturns
    BY <1>1, <1>3, <1>7 DEF OpenCIReturns, OpenCIResult, TypeOK, loaded
  <1>8. CASE EnsureDockerNetwork
    <2>1. networks' \in [NetworkNames -> Drivers \cup {NoNetwork}]
      BY <1>8 DEF EnsureDockerNetwork, NetworkExists, CreateNetwork, TypeOK, Drivers
    <2>2. exitCode' \in 0..2 /\ phase' \in {"deploy", "down"}
      BY <1>8 DEF EnsureDockerNetwork, NetworkExists, CreateNetwork, TypeOK
    <2> QED BY <1>1, <1>3, <1>8, <2>1, <2>2 DEF EnsureDockerNetwork, TypeOK, loaded
  <1>9. CASE DeployNext
    <2>1. index' \in 1..(Cardinality(Services) + 1)
      <3>1. /\ index \in Nat \ {0} /\ index <= Len(processed) /\ index' \in {index, index + 1}
            /\ Len(processed) \in Nat
        BY <1>9 DEF DeployNext, Deploy, DeployFails, DInv, Looping, Sequenced,
                    Ordering!OrderInv, Ordering!TypeOK
      <3> QED BY <1>2, <3>1, SequenceFits
    <2>2. Current \in Services
      BY <1>9 DEF DeployNext, Current, DInv, Looping, Sequenced, Ordering!OrderInv, Ordering!TypeOK
    <2>3. /\ handled' \subseteq Services \X Services /\ up' \subseteq Services
          /\ exitCode' \in 0..2 /\ faults' \in 0..MaxFaults /\ phase' \in {"deploy", "down"}
      <3>1. CASE GetService(ContainerName[Current]) \in ThirdServices
        <4>1. GetService(ContainerName[Current]) \in Services
          BY <3>1, DaemonAssumption
        <4>2. Deploy(Current)
          BY <1>9, <3>1 DEF DeployNext
        <4>3. /\ handled' \subseteq handled \cup {<<Current, GetService(ContainerName[Current])>>}
              /\ up' \subseteq up \cup {Current}
              /\ phase' \in {phase, "down"} /\ exitCode' \in {exitCode, 2}
              /\ faults' = faults \/ Fault
          BY <4>2 DEF Deploy, DeployFails
        <4> QED BY <1>3, <1>9, <2>2, <4>1, <4>3 DEF TypeOK, DeployNext
      <3>2. CASE GetService(ContainerName[Current]) \notin ThirdServices
        BY <1>3, <1>9, <3>2 DEF TypeOK, DeployNext
      <3> QED BY <3>1, <3>2
    <2> QED BY <1>1, <1>9, <2>1, <2>3 DEF DeployNext, TypeOK, loaded
  <1>10. CASE DeployReturns
    BY <1>1, <1>10 DEF DeployReturns, TypeOK, loaded
  <1>11. CASE Stop
    BY <1>1, <1>3, <1>11 DEF Stop, TypeOK, loaded
  <1>12. CASE ContainerExits
    BY <1>1, <1>12 DEF ContainerExits, TypeOK, loaded
  <1>13. CASE NetworkRemoved
    BY <1>1, <1>3, <1>13 DEF NetworkRemoved, TypeOK, loaded
  <1> QED BY <1>4, <1>5, <1>6, <1>7, <1>8, <1>9, <1>10, <1>11, <1>12, <1>13 DEF Next, Startup

\* Every variable keeps its type; in particular deploy's index never leaves the
\* sequence by more than one.
THEOREM DaemonTypeCorrect == ASSUME IsFiniteSet(Services) PROVE Spec => []TypeOK
PROOF
  <1>1. Init => TypeOK
    <2> SUFFICES ASSUME Init PROVE TypeOK
      OBVIOUS
    <2>1. Cardinality(Services) \in Nat /\ MaxFaults \in Nat
      BY FS_CardinalityType, DaemonAssumption
    <2>2. Order!TypeOK
      BY DEF Init, Order!Init, Order!TypeOK
    <2> QED BY <2>1, <2>2 DEF Init, TypeOK
  <1>2. DInv /\ DInv' /\ TypeOK /\ [Next]_vars => TypeOK'
    <2>1. ASSUME TypeOK, UNCHANGED vars PROVE TypeOK'
      BY <2>1 DEF vars, loaded, TypeOK, Order!TypeOK
    <2> QED BY <2>1, TypesKept
  <1>3. Spec => []DInv
    BY Inductive, PTL DEF Spec
  <1> QED BY <1>1, <1>2, <1>3, PTL DEF Spec
=============================================================================
