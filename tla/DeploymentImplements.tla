------------------------ MODULE DeploymentImplements ------------------------
(***************************************************************************)
(* Deployment implements ServiceUpdate, for every set of ids, names and    *)
(* values and every bound on the faults, as long as others leave the       *)
(* engine alone while a deployment runs.                                   *)
(***************************************************************************)
EXTENDS DeploymentPromises

-----------------------------------------------------------------------------
(* The abstract state of an engine *)

CurrentOf(eng) ==
    LET id == IdOf(eng, ServiceName) IN IF id = NoId THEN NoId ELSE eng[id].options

AsideOf(eng, id) ==
    IF Present(eng, id) /\ eng[id].name # ServiceName THEN eng[id].options ELSE NoId

LEMMA AbstractValues ==
    ASSUME NEW eng \in EngineType, Unique(eng)
    PROVE  /\ \A id \in Ids : Present(eng, id) /\ eng[id].name = ServiceName =>
                 CurrentOf(eng) = eng[id].options
           /\ NameFree(eng, ServiceName) <=> CurrentOf(eng) = NoId
           /\ CurrentOf(eng) \in Options \cup {NoId}
           /\ \A id \in Ids : Present(eng, id) => eng[id].options \in Options
  <1>1. \A id \in Ids : Present(eng, id) => eng[id].options \in Options
    BY DEF EngineType, Present, Container
  <1>2. ASSUME NEW id \in Ids, Present(eng, id), eng[id].name = ServiceName
        PROVE  CurrentOf(eng) = eng[id].options
    BY <1>2, IdOfIsTheHolder, EngineAssumption DEF CurrentOf
  <1>3. NameFree(eng, ServiceName) => CurrentOf(eng) = NoId
    BY IdOfIsTheHolder DEF CurrentOf
  <1>4. ~NameFree(eng, ServiceName) => CurrentOf(eng) \in Options
    <2> SUFFICES ASSUME ~NameFree(eng, ServiceName) PROVE CurrentOf(eng) \in Options
      OBVIOUS
    <2>1. PICK id \in Ids : Present(eng, id) /\ eng[id].name = ServiceName
      BY DEF NameFree, Holders
    <2>2. QED
      BY <2>1, <1>1, <1>2
  <1>5. QED
    BY <1>1, <1>2, <1>3, <1>4, DeploymentAssumption

\* Starting and stopping containers changes nothing of it.
LEMMA AlikeIsTheSame ==
    ASSUME NEW eng, NEW eng2, Unique(eng), Alike(eng, eng2)
    PROVE  CurrentOf(eng2) = CurrentOf(eng) /\ \A id : AsideOf(eng2, id) = AsideOf(eng, id)
  <1>1. IdOf(eng2, ServiceName) = IdOf(eng, ServiceName)
    BY AlikeKeeps
  <1>2. \A id : AsideOf(eng2, id) = AsideOf(eng, id)
    BY DEF Alike, AsideOf, Present
  <1>3. IdOf(eng, ServiceName) = NoId \/ IdOf(eng, ServiceName) \in Ids
    BY IdOfFinds
  <1>4. IdOf(eng, ServiceName) # NoId => Present(eng, IdOf(eng, ServiceName))
    BY IdOfFinds
  <1>5. QED
    BY <1>1, <1>2, <1>3, <1>4 DEF Alike, CurrentOf

-----------------------------------------------------------------------------
(* Every step is one of ServiceUpdate's, or none *)

\* The abstract phase of each phase.
LEMMA PhaseIs ==
    /\ pc \in {"idle", "done"} => Phase = pc
    /\ pc \in {"checkExists", "checkInspect", "ensureImage", "pullImage", "exists",
              "inspect", "stop", "rename"} => Phase = "preparing"
    /\ pc \in Trial => Phase = "trying"
    /\ pc \in Rollback => Phase = "undoing"
    /\ pc \in Dispose \cup {"save"} => Phase = "accepted"
  BY DEF Phase, Trial, Rollback, Dispose

LEMMA ImplementsInit == Init => Update!Init
  <1> SUFFICES ASSUME Init PROVE Update!Init
    OBVIOUS
  <1>1. \A id : ~Present(engine, id)
    BY DEF Init, Present
  <1>2. Current = NoId
    BY <1>1 DEF Current, IdOf, Holders
  <1>3. Aside = NoId /\ Phase = "idle"
    BY <1>1, PhaseIs DEF Aside, Init
  <1>4. QED
    BY <1>2, <1>3 DEF Init, Update!Init, Config

LEMMA ImplementsNext ==
    PInv /\ PInv' /\ Undisturbed /\ [Next]_vars => [Update!Next]_(Update!vars)
  <1> SUFFICES ASSUME PInv, PInv', Undisturbed, [Next]_vars
               PROVE  [Update!Next]_(Update!vars)
    OBVIOUS
  <1> USE DEF Answered, Refused, Goto, Return, OnError, stored, memory
  <1>1. /\ engine \in EngineType /\ engine' \in EngineType
        /\ Unique(engine) /\ Unique(engine')
        /\ config \in Config /\ config' \in Config
        /\ \A id : Present(engine, id) => id \in Ids
        /\ NoId \notin Ids /\ NoId \notin Options /\ ServiceName \notin BackupNames
        /\ \A eng : ~Present(eng, NoId)
    BY EngineAssumption, DeploymentAssumption DEF PInv, IInv, TypeOK, Present
  <1>2. /\ Current = CurrentOf(engine) /\ Current' = CurrentOf(engine')
        /\ Aside = AsideOf(engine, original) /\ Aside' = AsideOf(engine', original')
    BY DEF Current, CurrentOf, Aside, AsideOf
  <1>3. /\ Current \in Options \cup {NoId} /\ Current' \in Options \cup {NoId}
        /\ \A id : Serves(id) => Current = engine[id].options
        /\ \A id : Serves(id)' => Current' = engine'[id].options
        /\ NameFree(engine, ServiceName) <=> Current = NoId
        /\ NameFree(engine', ServiceName) <=> Current' = NoId
        /\ \A id \in Ids : Present(engine, id) => engine[id].options \in Options
    BY <1>1, <1>2, AbstractValues DEF Serves, Present
  <1>4. /\ pc' \in {"idle", "done"} => Phase' = pc'
        /\ pc' \in {"checkExists", "checkInspect", "ensureImage", "pullImage", "exists",
                   "inspect", "stop", "rename"} => Phase' = "preparing"
        /\ pc' \in Trial => Phase' = "trying"
        /\ pc' \in Rollback => Phase' = "undoing"
        /\ pc' \in Dispose \cup {"save"} => Phase' = "accepted"
    BY DEF Phase, Trial, Rollback, Dispose
  <1>5. /\ pc \in {"idle", "done"} => Phase = pc
        /\ pc \in {"checkExists", "checkInspect", "ensureImage", "pullImage", "exists",
                   "inspect", "stop", "rename"} => Phase = "preparing" /\ original = NoId
        /\ pc \in Trial => Phase = "trying"
        /\ pc \in Rollback => Phase = "undoing"
        /\ pc \in Dispose \cup {"save"} => Phase = "accepted"
        /\ pc = "idle" => original = NoId
    BY PhaseIs DEF PInv, IInv, Apart
  \* A container that is started or stopped is what it was.
  <1>6. Alike(engine, engine') /\ original' = original => Current' = Current /\ Aside' = Aside
    BY <1>1, <1>2, AlikeIsTheSame
  <1>7. /\ engine' = engine => Alike(engine, engine')
        /\ \A id \in Ids : Present(engine, id) =>
              Alike(engine, Stopped(engine, id)) /\ Alike(engine, Started(engine, id))
    BY <1>1, StopAndStartAreAlike DEF Alike
  <1>8. (original = NoId => Aside = NoId) /\ (original' = NoId => Aside' = NoId)
    BY <1>1, <1>2 DEF AsideOf
  \* What neither changes the abstract values nor ends the deployment is hidden.
  <1>9. ASSUME UNCHANGED <<config, Current, Aside, Phase, result>>
        PROVE  UNCHANGED Update!vars
    BY <1>9 DEF Update!vars
  \* What only ends it is a failure, at any time.
  <1>10. ASSUME UNCHANGED <<config, Current, Aside>>, Phase \notin {"idle", "done"},
                pc' = "done", result' = "failed"
         PROVE  Update!GiveUp
    BY <1>10, <1>4 DEF Update!GiveUp, Update!End
  <1>11. CASE Begin
    BY <1>11, <1>4, <1>5, <1>6, <1>7 DEF Begin, Update!Next, Update!Begin, Update!End
  <1>12. CASE CheckExists \/ EnsureImage \/ PullImage
    <2>1. /\ UNCHANGED <<config, Current, Aside>>
          /\ Phase = "preparing"
          /\ \/ Phase' = "preparing" /\ UNCHANGED result
             \/ pc' = "done" /\ result' = "failed"
      BY <1>12, <1>4, <1>5, <1>6, <1>7 DEF CheckExists, EnsureImage, PullImage, PullBreaks, ListAgain
    <2>2. QED
      BY <2>1, <1>9, <1>10 DEF Update!Next
  <1>13. CASE CheckInspect
    <2>1. UNCHANGED <<config, Current, Aside>> /\ Phase = "preparing"
      BY <1>13, <1>5, <1>6, <1>7 DEF CheckInspect
    <2>2. Current = config.options
      BY <1>13, <1>3 DEF CheckInspect, PInv, KnowsOwn, ManifestFaithful, Serves, UpToDateFile, Equals
    <2>3. \/ Phase' = "preparing" /\ UNCHANGED result
          \/ pc' = "done" /\ result' \in {"failed", "notChanged"}
      BY <1>13, <1>4 DEF CheckInspect
    <2>4. pc' = "done" /\ result' = "notChanged" => Update!NotChanged
      BY <2>1, <2>2, <1>4 DEF Update!NotChanged, Update!End
    <2>5. QED
      BY <2>1, <2>3, <2>4, <1>9, <1>10 DEF Update!Next
  <1>14. CASE Exists
    <2>1. UNCHANGED <<config, Current, Aside, result>> /\ Phase = "preparing" /\ Aside = NoId
      BY <1>14, <1>5, <1>6, <1>7, <1>8 DEF Exists
    <2>2. \/ Phase' = "preparing"
          \/ Phase' = "trying" /\ Current = NoId
          \/ Phase' = "undoing"
      BY <1>14, <1>1, <1>3, <1>4, IdOfIsTheHolder DEF Exists, Trial, Rollback, EnsureID
    <2>3. QED
      BY <2>1, <2>2, <1>9 DEF Update!Next, Update!PutAside, Update!Undo, Update!Goto
  <1>15. CASE Inspect \/ StopOriginal
    <2>1. /\ UNCHANGED <<config, Current, Aside, result>>
          /\ Phase = "preparing" /\ Phase' \in {"preparing", "undoing"}
      BY <1>15, <1>1, <1>4, <1>5, <1>6, <1>7 DEF Inspect, StopOriginal, StopIfRunning, Rollback
    <2>2. QED
      BY <2>1, <1>9 DEF Update!Next, Update!Undo, Update!Goto
  <1>16. CASE RenameOriginal
    <2>1. Serves(own) /\ own \in Ids /\ Phase = "preparing" /\ Aside = NoId
      BY <1>16, <1>1, <1>5, <1>8 DEF RenameOriginal, PInv, KnowsOwn, Serves
    <2>2. UNCHANGED <<config, result>>
      BY <1>16 DEF RenameOriginal
    <2>3. PICK name \in BackupNames :
             \/ /\ engine' = Renamed(engine, own, name)
                /\ original' = own /\ pc' = "create"
             \/ /\ engine' \in {engine, Renamed(engine, own, name)}
                /\ original' = original /\ pc' = "purge"
      BY <1>16 DEF RenameOriginal, HandOver
    <2>4. ASSUME engine' = Renamed(engine, own, name)
          PROVE  Current' = NoId /\ AsideOf(engine', own) = Current
      <3>1. /\ Present(engine', own) /\ engine'[own].name = name
            /\ engine'[own].options = engine[own].options
            /\ \A other \in Ids : other # own => engine'[other] = engine[other]
        BY <2>1, <2>4, <1>1, EngineResults DEF Serves, Names
      <3>2. NameFree(engine', ServiceName)
        BY <3>1, <2>1, <1>1 DEF NameFree, Holders, Serves, Unique, Present
      <3>3. QED
        BY <3>1, <3>2, <2>1, <1>1, <1>3 DEF AsideOf
    <2>5. CASE original' = own
      <3>1. Current' = NoId /\ Aside' = Current /\ Phase' = "trying"
        BY <2>1, <2>3, <2>4, <2>5, <1>1, <1>2, <1>4, <1>5, <1>16 DEF Trial, RenameOriginal
      <3>2. QED
        BY <3>1, <2>1, <2>2 DEF Update!Next, Update!PutAside, Update!Goto
    <2>6. CASE original' = original
      <3>1. original = NoId /\ pc' = "purge"
        BY <2>1, <2>3, <2>6, <1>1, <1>5, <1>16 DEF RenameOriginal
      <3>2. Current' \in {Current, NoId} /\ Aside' = Aside /\ Phase' = "undoing"
        BY <3>1, <2>1, <2>3, <2>4, <2>6, <1>4, <1>6, <1>7, <1>8 DEF Rollback
      <3>3. QED
        BY <3>2, <2>1, <2>2 DEF Update!Next, Update!Undo, Update!Goto
    <2>7. QED
      BY <2>3, <2>5, <2>6
  <1>17. CASE EnsureContainer
    <2>1. /\ EnsureID = NoId /\ Current = NoId /\ Phase = "trying"
          /\ UNCHANGED <<config, original, result>>
      BY <1>17, <1>1, <1>3, <1>5, IdOfIsTheHolder
         DEF EnsureContainer, PInv, KnowsOwn, EnsureID, Trial
    <2>2. PICK id \in Fresh :
             /\ engine' \in {engine, Created(engine, id, NewContainer)}
             /\ pc' = "attach" => engine' = Created(engine, id, NewContainer)
             /\ pc' \in {"attach", "purge"}
      BY <1>17, <2>1 DEF EnsureContainer
    <2>3. id \in Ids /\ id # original /\ NewContainer \in Container
      BY <1>1, EngineAssumption DEF Fresh, NewContainer, Container, Names, Config
    <2>4. CASE engine' = engine
      <3>1. UNCHANGED <<Current, Aside>> /\ Phase' = "undoing"
        BY <2>1, <2>2, <2>3, <2>4, <1>1, <1>4, <1>6, <1>7, EngineResults DEF Rollback, Fresh
      <3>2. QED
        BY <3>1, <2>1 DEF Update!Next, Update!Undo, Update!Goto
    <2>5. CASE engine' = Created(engine, id, NewContainer)
      <3>1. /\ engine'[id] = NewContainer /\ Present(engine', id)
            /\ \A other \in Ids : other # id => engine'[other] = engine[other]
        BY <2>3, <2>5, <1>1, EngineResults
      <3>2. Current' = config.options
        BY <3>1, <2>3, <1>1, <1>2, AbstractValues DEF NewContainer
      <3>3. Aside' = Aside
        BY <3>1, <2>1, <2>3, <1>2 DEF AsideOf, Present
      <3>4. Phase' = "trying" \/ Phase' = "undoing"
        BY <2>2, <1>4 DEF Trial, Rollback
      <3>5. QED
        BY <3>2, <3>3, <3>4, <2>1 DEF Update!Next, Update!Launch, Update!Undo, Update!Goto
    <2>6. QED
      BY <2>2, <2>4, <2>5
  <1>18. CASE Attach \/ Start \/ Verdict
    <2>1. UNCHANGED <<config, Current, Aside, result>> /\ Phase = "trying"
      BY <1>18, <1>1, <1>5, <1>6, <1>7
         DEF Attach, Start, EnsureContainerRunning, StartFails, Verdict, Trial
    <2>2. Current = config.options
      BY <1>18, <1>3 DEF Attach, Start, Verdict, PInv, KnowsOwn, Launched, AsConfigured, Serves
    <2>3. Phase' \in {"trying", "undoing", "accepted"}
      BY <1>18, <1>4 DEF Attach, Start, Verdict, AfterRun, Trial, Rollback, Dispose
    <2>4. QED
      BY <2>1, <2>2, <2>3, <1>9 DEF Update!Next, Update!Accept, Update!Undo, Update!Goto
  <1>19. CASE PurgeExists \/ PurgeStop \/ RecoverStart
    <2>1. UNCHANGED <<config, Current, Aside>> /\ Phase = "undoing"
      BY <1>19, <1>1, <1>5, <1>6, <1>7
         DEF PurgeExists, PurgeStop, StopIfRunning, RecoverStart, EnsureContainerRunning,
             StartFails, Rollback
    <2>2. \/ Phase' = "undoing" /\ UNCHANGED result
          \/ pc' = "done" /\ result' = "failed"
      BY <1>19, <1>4 DEF PurgeExists, PurgeStop, RecoverStart, Rollback
    <2>3. QED
      BY <2>1, <2>2, <1>9, <1>10 DEF Update!Next
  <1>20. CASE PurgeRemove
    <2>1. /\ UNCHANGED <<config, original>> /\ Phase = "undoing"
          /\ engine' = engine \/ (purging \in Ids /\ engine' = Removed(engine, purging))
      BY <1>20, <1>1, <1>5 DEF PurgeRemove, Rollback
    <2>2. \/ Phase' = "undoing" /\ UNCHANGED result
          \/ Phase' = "done" /\ pc' = "done" /\ result' = "failed"
      BY <1>20, <1>4 DEF PurgeRemove, AfterPurge, Rollback
    <2>3. original # NoId => purging # original
      BY <1>20 DEF PurgeRemove, PInv, IInv, Apart, Held, Rollback
    <2>4. CASE engine' = engine
      BY <2>1, <2>2, <2>4, <1>6, <1>7, <1>9, <1>10 DEF Update!Next
    <2>5. CASE purging \in Ids /\ engine' = Removed(engine, purging)
      <3>1. /\ ~Present(engine', purging)
            /\ \A other \in Ids : other # purging => engine'[other] = engine[other]
        BY <2>5, <1>1, EngineResults
      <3>2. Aside' = Aside
        BY <3>1, <2>1, <2>3, <1>1, <1>2 DEF AsideOf, Present
      <3>3. Current' \in {Current, NoId}
        <4>1. CASE NameFree(engine', ServiceName)
          BY <4>1, <1>3
        <4>2. CASE ~NameFree(engine', ServiceName)
          <5>1. PICK id \in Ids : Present(engine', id) /\ engine'[id].name = ServiceName
            BY <4>2 DEF NameFree, Holders
          <5>2. Serves(id)' /\ Serves(id) /\ engine'[id] = engine[id]
            BY <5>1, <3>1 DEF Serves, Present
          <5>3. QED
            BY <5>2, <1>3
        <4>3. QED
          BY <4>1, <4>2
      <3>4. QED
        BY <3>2, <3>3, <2>1, <2>2, <1>9, <1>10
           DEF Update!Next, Update!Discard, Update!Goto, Update!End
    <2>6. QED
      BY <2>1, <2>4, <2>5
  <1>21. CASE RecoverRename
    <2>1. UNCHANGED <<config, original>> /\ Phase = "undoing"
      BY <1>21, <1>5 DEF RecoverRename, Rollback
    <2>2. \/ Phase' = "undoing" /\ UNCHANGED result
          \/ Phase' = "done" /\ pc' = "done" /\ result' = "failed"
      BY <1>21, <1>4 DEF RecoverRename, Rollback
    <2>3. CASE engine' = engine
      BY <2>1, <2>2, <2>3, <1>6, <1>7, <1>9, <1>10 DEF Update!Next
    <2>4. CASE /\ Present(engine, original) /\ NameFree(engine, ServiceName)
               /\ engine' = Renamed(engine, original, ServiceName)
      <3>1. original \in Ids /\ engine[original].name # ServiceName
        BY <2>4, <1>1 DEF NameFree, Holders
      <3>2. /\ Present(engine', original) /\ engine'[original].name = ServiceName
            /\ engine'[original].options = engine[original].options
        BY <3>1, <2>4, <1>1, EngineResults DEF Names
      <3>3. Current = NoId /\ Aside = engine[original].options /\ Aside # NoId
        BY <3>1, <2>4, <1>1, <1>2, <1>3 DEF AsideOf
      <3>4. Current' = Aside /\ Aside' = NoId
        BY <3>1, <3>2, <3>3, <2>1, <1>1, <1>2, AbstractValues DEF AsideOf
      <3>5. QED
        BY <3>3, <3>4, <2>1, <2>2 DEF Update!Next, Update!Restore, Update!Goto, Update!End
    <2>5. QED
      BY <1>21, <2>3, <2>4 DEF RecoverRename
  <1>22. CASE DisposeStop
    <2>1. UNCHANGED <<config, Current, Aside>> /\ Phase = "accepted"
      BY <1>22, <1>1, <1>5, <1>6, <1>7 DEF DisposeStop, StopIfRunning, Dispose
    <2>2. \/ Phase' = "accepted" /\ UNCHANGED result
          \/ pc' = "done" /\ result' = "failed"
      BY <1>22, <1>4 DEF DisposeStop, Dispose
    <2>3. QED
      BY <2>1, <2>2, <1>9, <1>10 DEF Update!Next
  <1>23. CASE DisposeRemove
    <2>1. UNCHANGED <<config, original>> /\ Phase = "accepted"
      BY <1>23, <1>5 DEF DisposeRemove, Dispose
    <2>2. \/ Phase' = "accepted" /\ UNCHANGED result
          \/ Phase' = "done" /\ pc' = "done" /\ result' = "failed"
      BY <1>23, <1>4 DEF DisposeRemove, Dispose
    <2>3. CASE engine' = engine
      BY <2>1, <2>2, <2>3, <1>6, <1>7, <1>9, <1>10 DEF Update!Next
    <2>4. CASE Present(engine, original) /\ engine' = Removed(engine, original)
      <3>1. Serves(own) /\ own \in Ids /\ own # original
        BY <1>23, <2>4, <1>1
           DEF DisposeRemove, PInv, KnowsOwn, KnowsOriginal, Launched, Dispose, Serves
      <3>2. ~Present(engine', original) /\ engine'[own] = engine[own]
        BY <3>1, <2>4, <1>1, EngineResults
      <3>3. Aside' = NoId
        BY <3>2, <2>1, <1>2 DEF AsideOf
      <3>4. Current' = Current
        BY <3>1, <3>2, <1>1, <1>2, AbstractValues DEF Serves, Present
      <3>5. QED
        BY <3>3, <3>4, <2>1, <2>2 DEF Update!Next, Update!Drop, Update!Goto, Update!End
    <2>5. QED
      BY <1>23, <2>3, <2>4 DEF DisposeRemove
  <1>24. CASE Save
    <2>1. UNCHANGED <<config, Current, Aside>> /\ Phase = "accepted"
      BY <1>24, <1>5, <1>6, <1>7 DEF Save
    <2>2. Current = config.options /\ Aside = NoId
      BY <1>24, <1>2, <1>3
         DEF Save, PInv, KnowsOwn, KnowsOriginal, Launched, AsConfigured, AsideOf
    <2>3. Phase' = "done" /\ pc' = "done" /\ result' \in {"failed", "deployed"}
      BY <1>24, <1>4 DEF Save
    <2>4. QED
      BY <2>1, <2>2, <2>3, <1>10 DEF Update!Next, Update!Deployed, Update!End
  <1>25. CASE Finish \/ Crash
    <2>1. /\ UNCHANGED <<config, Current>> /\ Aside' = NoId /\ Phase' = "idle" /\ Phase # "idle"
          /\ result' = IF Phase = "done" THEN result ELSE "failed"
      <3>1. CASE Finish
        BY <3>1, <1>1, <1>2, <1>4, <1>5, <1>7, <1>8, AlikeIsTheSame DEF Finish, Forget
      <3>2. CASE Crash
        <4>1. Phase \notin {"idle", "done"}
          BY <3>2, <1>5 DEF Crash, PInv, IInv, TypeOK, Phases
        <4>2. QED
          BY <3>2, <4>1, <1>1, <1>2, <1>4, <1>7, <1>8, AlikeIsTheSame DEF Crash, Forget
      <3>3. QED
        BY <1>25, <3>1, <3>2
    <2>2. QED
      BY <2>1 DEF Update!Next, Update!Leave
  <1>26. CASE ContainerExits
    <2>1. PICK id \in Ids : Present(engine, id) /\ engine' = Stopped(engine, id)
      BY <1>26 DEF ContainerExits, Running
    <2>2. UNCHANGED <<config, Current, Aside, result>> /\ pc' = pc
      BY <1>26, <2>1, <1>6, <1>7 DEF ContainerExits
    <2>3. QED
      BY <2>2, <1>9 DEF Phase
  <1>27. CASE EditConfig \/ Meddle
    <2>1. pc = "idle" /\ UNCHANGED <<pc, original, result>>
      BY <1>27, DeploymentAssumption DEF EditConfig, Meddle, Undisturbed
    <2>2. Phase = "idle" /\ Phase' = "idle" /\ UNCHANGED <<Aside, result>>
      BY <2>1, <1>4, <1>5, <1>8
    <2>3. QED
      BY <2>2, <1>1, <1>3 DEF Config, Update!Next, Update!Others
  <1>28. CASE UNCHANGED vars
    BY <1>28, <1>6, <1>7, <1>9 DEF vars, Phase
  <1>29. QED
    BY <1>11, <1>12, <1>13, <1>14, <1>15, <1>16, <1>17, <1>18, <1>19, <1>20, <1>21, <1>22,
       <1>23, <1>24, <1>25, <1>26, <1>27, <1>28 DEF Next, Daemon

\* Whatever fails, and whenever the daemon is killed, a deployment keeps what
\* ServiceUpdate promises to those who use the service: the old container is
\* given up only when the new one was accepted, and nothing else is put back.
THEOREM ImplementsServiceUpdate == ASSUME Undisturbed PROVE Spec => Implements
  <1>1. Spec => []PInv
    BY PInvHolds
  <1>2. []PInv /\ [][Next]_vars => [][Update!Next]_(Update!vars)
    <2>1. PInv /\ PInv' /\ [Next]_vars => [Update!Next]_(Update!vars)
      BY ImplementsNext
    <2>2. QED
      BY <2>1, PTL
  <1>3. QED
    BY <1>1, <1>2, ImplementsInit, PTL DEF Spec, Implements, Update!Spec
=============================================================================
