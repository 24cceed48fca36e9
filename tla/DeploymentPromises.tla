------------------------- MODULE DeploymentPromises -------------------------
(***************************************************************************)
(* What a deployment that others do not disturb promises, for every set of *)
(* ids, names and values and for every bound on the faults: the daemon is  *)
(* never wrong about which container is the service's, the manifest tells  *)
(* the truth, and Deployment implements ServiceUpdate.                     *)
(***************************************************************************)
EXTENDS DeploymentProofs, FiniteSetTheorems

-----------------------------------------------------------------------------
(* Names *)

Serves(id) == Present(engine, id) /\ engine[id].name = ServiceName

\* No two containers have the same name.
Unique(eng) ==
    \A a, b \in Ids :
        Present(eng, a) /\ Present(eng, b) /\ eng[a].name = eng[b].name => a = b

\* The two engines have the same containers, and those they have differ at most
\* in whether they run.
Alike(eng, eng2) ==
    \A id \in Ids :
        /\ Present(eng, id) <=> Present(eng2, id)
        /\ Present(eng, id) =>
              /\ eng2[id].name = eng[id].name
              /\ eng2[id].options = eng[id].options
              /\ eng2[id].image = eng[id].image

LEMMA AlikeKeeps ==
    ASSUME NEW eng, NEW eng2, Unique(eng), Alike(eng, eng2)
    PROVE  /\ Unique(eng2)
           /\ \A name : IdOf(eng2, name) = IdOf(eng, name)
           /\ \A name : NameFree(eng2, name) <=> NameFree(eng, name)
  <1>1. \A name : Holders(eng2, name) = Holders(eng, name)
    BY DEF Alike, Holders
  <1>2. Unique(eng2)
    BY DEF Alike, Unique
  <1>3. ASSUME NEW name PROVE IdOf(eng2, name) = IdOf(eng, name)
    <2>1. CASE Holders(eng, name) = {}
      BY <2>1, <1>1 DEF IdOf
    <2>2. CASE Holders(eng, name) # {}
      <3>1. IdOf(eng, name) \in Holders(eng, name) /\ IdOf(eng2, name) \in Holders(eng2, name)
        BY <2>2, <1>1 DEF IdOf
      <3>2. QED
        BY <3>1, <1>1 DEF Unique, Holders
    <2>3. QED
      BY <2>1, <2>2
  <1>4. QED
    BY <1>1, <1>2, <1>3 DEF NameFree

LEMMA StopAndStartAreAlike ==
    ASSUME NEW eng \in EngineType, NEW id \in Ids, Present(eng, id)
    PROVE  Alike(eng, Stopped(eng, id)) /\ Alike(eng, Started(eng, id))
  <1>1. eng[id] \in Container
    BY DEF EngineType, Present
  <1>2. QED
    BY <1>1, EngineAssumption DEF EngineType, Alike, Present, Stopped, Started, Container

\* What the engine's other operations do to the container they are about.
LEMMA EngineResults ==
    ASSUME NEW eng \in EngineType, NEW id \in Ids
    PROVE  /\ \A c \in Container : Created(eng, id, c)[id] = c /\ Present(Created(eng, id, c), id)
           /\ ~Present(Removed(eng, id), id)
           /\ \A name \in Names : Present(eng, id) =>
                 /\ Present(Renamed(eng, id, name), id)
                 /\ Renamed(eng, id, name)[id].name = name
                 /\ Renamed(eng, id, name)[id].options = eng[id].options
                 /\ Renamed(eng, id, name)[id].image = eng[id].image
           /\ \A other \in Ids : other # id =>
                 /\ Removed(eng, id)[other] = eng[other]
                 /\ \A name : Renamed(eng, id, name)[other] = eng[other]
                 /\ \A c : Created(eng, id, c)[other] = eng[other]
  <1>1. Present(eng, id) => eng[id] \in Container
    BY DEF EngineType, Present
  <1>2. QED
    BY <1>1, EngineAssumption DEF EngineType, Present, Created, Removed, Renamed, Container

\* A name that is given must be free, so it goes on having one holder at most.
LEMMA UniqueKept ==
    ASSUME NEW eng \in EngineType, NEW id \in Ids, Unique(eng)
    PROVE  /\ Unique(Removed(eng, id))
           /\ \A name \in Names : Present(eng, id) /\ NameFree(eng, name) =>
                                    Unique(Renamed(eng, id, name))
           /\ \A c \in Container : NameFree(eng, c.name) => Unique(Created(eng, id, c))
  <1> USE EngineResults DEF Unique
  <1>1. Unique(Removed(eng, id))
    BY DEF Present
  <1>2. ASSUME NEW name \in Names, Present(eng, id), NameFree(eng, name)
        PROVE  Unique(Renamed(eng, id, name))
    BY <1>2 DEF NameFree, Holders, Present
  <1>3. ASSUME NEW c \in Container, NameFree(eng, c.name)
        PROVE  Unique(Created(eng, id, c))
    BY <1>3 DEF NameFree, Holders, Present
  <1>4. QED
    BY <1>1, <1>2, <1>3

\* IdOf finds the container that has the name, and nothing if none has it.
LEMMA IdOfIsTheHolder ==
    ASSUME NEW eng, Unique(eng), NEW name
    PROVE  /\ \A id \in Ids : Present(eng, id) /\ eng[id].name = name => IdOf(eng, name) = id
           /\ NameFree(eng, name) <=> IdOf(eng, name) = NoId
  <1>1. \A id \in Ids : Present(eng, id) /\ eng[id].name = name => Holders(eng, name) = {id}
    BY DEF Unique, Holders
  <1>2. Holders(eng, name) # {} => IdOf(eng, name) \in Holders(eng, name)
    BY DEF IdOf
  <1>3. Holders(eng, name) # {} => IdOf(eng, name) # NoId
    BY <1>2, EngineAssumption DEF Holders
  <1>4. QED
    BY <1>1, <1>2, <1>3 DEF IdOf, NameFree

\* Whatever others do, a name has one holder at most: the daemon gives a name
\* only to a container it creates or renames, and the engine refuses a used one.
LEMMA UniqueNext == TypeOK /\ Unique(engine) /\ [Next]_vars => Unique(engine')
  <1> SUFFICES ASSUME TypeOK, Unique(engine), [Next]_vars PROVE Unique(engine')
    OBVIOUS
  <1> USE DEF Answered, Refused
  <1>1. /\ engine \in EngineType
        /\ \A id : Present(engine, id) => id \in Ids
        /\ Fresh \subseteq Ids
    BY DEF TypeOK, Present, Fresh
  <1>2. /\ \A id \in Ids : Unique(Removed(engine, id))
        /\ \A id \in Ids : Present(engine, id) => Unique(Stopped(engine, id))
        /\ \A id \in Ids : Present(engine, id) => Unique(Started(engine, id))
    BY <1>1, UniqueKept, StopAndStartAreAlike, AlikeKeeps
  <1>3. /\ \A id \in Ids, name \in Names :
              Present(engine, id) /\ NameFree(engine, name) => Unique(Renamed(engine, id, name))
        /\ \A id \in Ids, c \in Container : NameFree(engine, c.name) => Unique(Created(engine, id, c))
    BY <1>1, UniqueKept
  <1>4. CASE engine' = engine
    BY <1>4
  <1>5. CASE StopOriginal \/ PurgeStop \/ DisposeStop
    BY <1>5, <1>1, <1>2 DEF StopOriginal, PurgeStop, DisposeStop, StopIfRunning
  <1>6. CASE Start \/ RecoverStart
    BY <1>6, <1>1, <1>2 DEF Start, RecoverStart, EnsureContainerRunning, StartFails
  <1>7. CASE PurgeRemove \/ DisposeRemove
    BY <1>7, <1>1, <1>2 DEF PurgeRemove, DisposeRemove
  <1>8. CASE RenameOriginal \/ RecoverRename
    BY <1>8, <1>1, <1>3 DEF RenameOriginal, RecoverRename, Names
  <1>9. CASE EnsureContainer
    <2>1. NewContainer \in Container /\ NewContainer.name = ServiceName
      BY EngineAssumption DEF NewContainer, Container, Names, Config, TypeOK
    <2>2. QED
      BY <1>9, <1>1, <1>3, <2>1 DEF EnsureContainer
  <1>10. CASE ContainerExits
    <2>1. PICK id \in Ids : Running(engine, id) /\ engine' = Stopped(engine, id)
      BY <1>10 DEF ContainerExits
    <2>2. QED
      BY <2>1, <1>2 DEF Running
  <1>11. CASE Meddle
    <2>1. \A options \in Options, image \in Images :
             LET c == [name |-> ServiceName, running |-> TRUE, options |-> options,
                       mounts |-> NoMounts, image |-> image]
             IN  c \in Container /\ c.name = ServiceName
      BY EngineAssumption DEF Container, Names
    <2>2. CASE \E id \in Ids : Present(engine, id)
                            /\ engine' \in {Started(engine, id), Removed(engine, id)}
      BY <2>2, <1>2
    <2>3. CASE \E id \in Ids, c \in Container :
                  NameFree(engine, c.name) /\ engine' = Created(engine, id, c)
      BY <2>3, <1>3
    <2>4. CASE UNCHANGED engine
      BY <2>4, <1>4
    <2>5. QED
      BY <1>11, <1>1, <2>1, <2>2, <2>3, <2>4 DEF Meddle
  <1>12. CASE Begin \/ CheckExists \/ CheckInspect \/ EnsureImage \/ PullImage \/ Exists
               \/ Inspect \/ Attach \/ Verdict \/ PurgeExists \/ Save \/ Finish \/ Crash
               \/ EditConfig
    BY <1>12, <1>4 DEF Begin, CheckExists, CheckInspect, EnsureImage, PullImage, PullBreaks, Exists,
                       Inspect, Attach, Verdict, PurgeExists, Save, Finish, Crash, EditConfig
  <1>13. QED
    BY <1>4, <1>5, <1>6, <1>7, <1>8, <1>9, <1>10, <1>11, <1>12 DEF Next, Daemon, vars

-----------------------------------------------------------------------------
(* What the daemon knows, as long as others do not disturb it *)

AsConfigured(id) == engine[id].options = config.options /\ engine[id].image = config.image

Launched == {"attach", "start", "verdict", "save"} \cup Dispose

\* The id the daemon believes to be the service's is, before and after run put
\* the original aside; what it created, or found, is what is configured.
KnowsOwn ==
    /\ pc \in {"idle", "checkExists"} => own = NoId
    /\ pc = "checkInspect" => Serves(own) /\ UpToDateFile /\ own = manifest.id
    /\ pc \in {"ensureImage", "pullImage", "exists"} => own = NoId \/ Serves(own)
    /\ pc \in {"inspect", "stop", "rename"} => Serves(own)
    /\ pc = "create" => own = NoId /\ NameFree(engine, ServiceName)
    /\ pc \in Launched => Serves(own) /\ AsConfigured(own)

\* What was put aside keeps its backup name until it is disposed of or restored.
KnowsOriginal ==
    /\ pc \in Dispose \cup {"recoverRename"} => original # NoId
    /\ pc \in Dispose /\ Present(engine, original) => engine[original].name \in BackupNames
    /\ pc = "save" => ~Present(engine, original)

StartsIdle ==
    /\ pc \in {"attach", "start"} => ~Running(engine, own)
    /\ pc = "recoverStart" => ~Running(engine, original)

SavedWhatRuns ==
    pc = "done" /\ result = "deployed" =>
        /\ Serves(own) /\ AsConfigured(own)
        /\ manifest = [id |-> own, options |-> config.options, mounts |-> config.mounts,
                       image |-> config.image]
        /\ ~Present(engine, original)

PInv ==
    /\ IInv
    /\ Unique(engine)
    /\ Undisturbed => KnowsOwn /\ KnowsOriginal /\ StartsIdle /\ ImageAtHand
                        /\ ManifestFaithful /\ SavedWhatRuns

LEMMA PInvInit == Init => PInv
  <1> SUFFICES ASSUME Init PROVE PInv
    OBVIOUS
  <1>1. \A id : ~Present(engine, id)
    BY DEF Init, Present
  <1>2. QED
    BY <1>1, IInvInit, ManifestAssumption
       DEF Init, PInv, Unique, KnowsOwn, KnowsOriginal, StartsIdle, ImageAtHand,
           ManifestFaithful, SavedWhatRuns, Launched, Dispose

LEMMA PInvNext == PInv /\ [Next]_vars => PInv'
  <1> DEFINE Known == KnowsOwn /\ KnowsOriginal /\ StartsIdle /\ ImageAtHand
                        /\ ManifestFaithful /\ SavedWhatRuns
  <1> SUFFICES ASSUME IInv, Unique(engine), Known, Undisturbed, [Next]_vars, IInv', Unique(engine')
               PROVE  Known'
    BY IInvNext, UniqueNext DEF PInv, IInv, Undisturbed
  <1> USE DEF KnowsOwn, KnowsOriginal, StartsIdle, ImageAtHand, ManifestFaithful, SavedWhatRuns,
              AsConfigured, Launched, Trial, Rollback, Dispose, stored, memory,
              Answered, Refused, Goto, Return, OnError
  <1>1. /\ engine \in EngineType /\ own \in Ids \cup {NoId} /\ original \in Ids \cup {NoId}
        /\ config \in Config /\ NoId \notin Ids /\ ServiceName \notin BackupNames
        /\ \A id : Present(engine, id) => id \in Ids
        /\ ~Present(engine, NoId) /\ ~Present(engine', NoId)
        /\ NoManifest \notin Manifest /\ Torn \notin Manifest /\ Corrupt \notin Manifest
        /\ \A m \in Manifest : m.id \in Ids
    BY EngineAssumption, ManifestAssumption DEF IInv, TypeOK, Present, Manifest
  \* What has the service's name, and what the manifest says of it, survives
  \* that containers are started or stopped.
  <1>2. ASSUME Alike(engine, engine')
        PROVE  /\ \A id : Serves(id)' <=> Serves(id)
               /\ \A id : Present(engine', id) <=> Present(engine, id)
               /\ \A id : Present(engine, id) => /\ engine'[id].name = engine[id].name
                                                /\ engine'[id].options = engine[id].options
                                                /\ engine'[id].image = engine[id].image
               /\ NameFree(engine', ServiceName) <=> NameFree(engine, ServiceName)
    BY <1>2, AlikeKeeps, <1>1 DEF Alike, Serves, Present
  <1>3. engine' = engine => /\ Alike(engine, engine')
                            /\ \A id : Running(engine', id) <=> Running(engine, id)
    BY DEF Alike
  <1>4. \A id \in Ids : Present(engine, id) =>
          Alike(engine, Stopped(engine, id)) /\ Alike(engine, Started(engine, id))
    BY <1>1, StopAndStartAreAlike
  <1>5. \A id : Serves(id) => Present(engine, id) /\ id \in Ids /\ engine[id].name = ServiceName
    BY DEF Serves, Present
  <1>6. CASE Begin
    BY <1>6 DEF Begin, Serves
  <1>7. CASE CheckExists
    <2>1. EnsureID = NoId \/ Serves(EnsureID)
      BY <1>7, IdOfFinds DEF CheckExists, EnsureID, Serves
    <2>2. QED
      BY <1>7, <2>1, <1>1, <1>3, <1>2 DEF CheckExists, UpToDateFile, Equals
  <1>8. CASE CheckInspect
    BY <1>8, <1>1, <1>2, <1>3 DEF CheckInspect
  <1>9. CASE EnsureImage
    BY <1>9, <1>1, <1>2, <1>3 DEF EnsureImage
  <1>10. CASE PullImage
    BY <1>10, <1>1, <1>2, <1>3 DEF PullImage, PullBreaks, ListAgain
  <1>11. CASE Exists
    <2>1. /\ EnsureID = NoId \/ Serves(EnsureID)
          /\ EnsureID = NoId => own = NoId /\ NameFree(engine, ServiceName)
      BY <1>11, <1>1, <1>5, IdOfFinds, IdOfIsTheHolder DEF Exists, EnsureID, Serves
    <2>2. QED
      BY <1>11, <2>1, <1>1, <1>2, <1>3 DEF Exists
  <1>12. CASE Inspect
    BY <1>12, <1>1, <1>2, <1>3, <1>5 DEF Inspect
  <1>13. CASE StopOriginal
    BY <1>13, <1>1, <1>2, <1>3, <1>4, <1>5 DEF StopOriginal, StopIfRunning
  <1>14. CASE RenameOriginal
    <2>1. own \in Ids /\ Present(engine, own) /\ engine[own].name = ServiceName
      BY <1>14, <1>5 DEF RenameOriginal
    <2>2. PICK name \in BackupNames :
             /\ engine' \in {engine, Renamed(engine, own, name)}
             /\ pc' = "create" => engine' = Renamed(engine, own, name) /\ own' = NoId
             /\ pc' \in {"create", "purge"}
      BY <1>14, <2>1 DEF RenameOriginal, HandOver
    <2>3. NameFree(engine', ServiceName) \/ pc' # "create"
      BY <2>1, <2>2, EngineResults, <1>1 DEF NameFree, Holders, Unique, Present, Names
    <2>4. \A id : Present(engine', id) => /\ Present(engine, id)
                                         /\ engine'[id].options = engine[id].options
                                         /\ engine'[id].image = engine[id].image
      BY <2>1, <2>2, EngineResults, <1>1 DEF Present, Names
    <2>5. UNCHANGED <<manifest, config, images>>
      BY <1>14 DEF RenameOriginal
    <2>6. ManifestFaithful'
      BY <2>4, <2>5
    <2>7. QED
      BY <1>14, <2>2, <2>3, <2>5, <2>6 DEF RenameOriginal
  <1>15. CASE EnsureContainer
    <2>1. EnsureID = NoId /\ NameFree(engine, ServiceName)
      BY <1>15, IdOfIsTheHolder DEF EnsureContainer, EnsureID
    <2>2. PICK id \in Fresh :
             /\ engine' \in {engine, Created(engine, id, NewContainer)}
             /\ pc' = "attach" => /\ engine' = Created(engine, id, NewContainer)
                                 /\ own' = id
             /\ pc' \in {"attach", "purge"}
      BY <1>15, <2>1 DEF EnsureContainer
    <2>3. id \in Ids /\ (manifest \in Manifest => manifest.id # id) /\ NewContainer \in Container
      BY EngineAssumption DEF Fresh, Recorded, NewContainer, Container, Names, Config, IInv, TypeOK
    <2>4. UNCHANGED <<manifest, config, images>>
      BY <1>15 DEF EnsureContainer
    <2>5. /\ Created(engine, id, NewContainer)[id] = NewContainer
          /\ Present(Created(engine, id, NewContainer), id)
          /\ \A other \in Ids : other # id =>
                Created(engine, id, NewContainer)[other] = engine[other]
      BY <2>3, <1>1, EngineResults
    <2>6. ManifestFaithful'
      BY <2>2, <2>3, <2>4, <2>5, <1>1 DEF Present
    <2>7. pc' = "attach" => (Serves(own) /\ AsConfigured(own) /\ ~Running(engine, own))'
      BY <2>2, <2>4, <2>5 DEF Serves, Running, NewContainer
    <2>8. QED
      BY <2>2, <2>4, <2>6, <2>7
  <1>16. CASE Attach
    BY <1>16, <1>1, <1>2, <1>3, <1>5 DEF Attach
  <1>17. CASE Start
    BY <1>17, <1>1, <1>2, <1>3, <1>4, <1>5 DEF Start, EnsureContainerRunning, StartFails
  <1>18. CASE Verdict
    BY <1>18, <1>1, <1>2, <1>3 DEF Verdict, AfterRun, IInv, Apart, Held
  <1>19. CASE PurgeExists
    BY <1>19, <1>1, <1>2, <1>3 DEF PurgeExists
  <1>20. CASE PurgeStop
    BY <1>20, <1>1, <1>2, <1>3, <1>4 DEF PurgeStop, StopIfRunning
  <1>21. CASE PurgeRemove
    <2>1. \A id : Present(engine', id) => Present(engine, id) /\ engine'[id] = engine[id]
      BY <1>21, <1>1, EngineResults DEF PurgeRemove, Present
    <2>2. QED
      BY <1>21, <2>1 DEF PurgeRemove, AfterPurge
  <1>22. CASE RecoverRename
    <2>1. \/ engine' = engine
          \/ Present(engine, original) /\ engine' = Renamed(engine, original, ServiceName)
      BY <1>22 DEF RecoverRename
    <2>2. \A id : Present(engine', id) => /\ Present(engine, id)
                                         /\ engine'[id].options = engine[id].options
                                         /\ engine'[id].image = engine[id].image
      BY <2>1, EngineResults, <1>1 DEF Present, Names
    <2>3. ~Running(engine', original)
      BY <1>22, <2>1, EngineFrame, <1>1 DEF IInv, Quiet, RecoverRename, Names, Running
    <2>4. QED
      BY <1>22, <2>2, <2>3 DEF RecoverRename
  <1>23. CASE RecoverStart
    BY <1>23, <1>1, <1>2, <1>3, <1>4 DEF RecoverStart, EnsureContainerRunning, StartFails
  <1>24. CASE DisposeStop
    BY <1>24, <1>1, <1>2, <1>3, <1>4, <1>5 DEF DisposeStop, StopIfRunning
  <1>25. CASE DisposeRemove
    <2>1. Serves(own) /\ AsConfigured(own) /\ own # original
      BY <1>25, <1>1, <1>5 DEF DisposeRemove
    <2>2. /\ \A id : Present(engine', id) => Present(engine, id) /\ engine'[id] = engine[id]
          /\ \A id : Present(engine, id) /\ id # original => Present(engine', id)
      BY <1>25, <1>1, EngineResults DEF DisposeRemove, Present
    <2>3. pc' = "save" => ~Present(engine', original)
      BY <1>25, <1>1, EngineResults DEF DisposeRemove
    <2>4. /\ UNCHANGED <<manifest, config, images, own, original>>
          /\ pc' = "save" \/ (pc' = "done" /\ result' = "failed")
      BY <1>25 DEF DisposeRemove
    <2>5. Present(engine', own) /\ engine'[own] = engine[own]
      BY <2>1, <2>2, <1>5
    <2>6. Serves(own)' /\ AsConfigured(own)'
      BY <2>1, <2>4, <2>5 DEF Serves
    <2>7. ManifestFaithful'
      BY <2>2, <2>4
    <2>8. QED
      BY <2>3, <2>4, <2>6, <2>7
  <1>26. CASE Save
    BY <1>26, <1>1, <1>2, <1>3, <1>5 DEF Save, CutShort, NewManifest
  <1>27. CASE Finish
    BY <1>27, <1>1, <1>2, <1>3 DEF Finish, Forget
  <1>28. CASE Crash
    BY <1>28, <1>1, <1>2, <1>3, <1>5 DEF Crash, CutShort, NewManifest, Forget
  <1>29. CASE ContainerExits
    <2>1. PICK id \in Ids : Present(engine, id) /\ engine' = Stopped(engine, id)
      BY <1>29 DEF ContainerExits, Running
    <2>2. Alike(engine, engine')
      BY <2>1, <1>4
    <2>3. \A other : Running(engine', other) => Running(engine, other)
      BY <2>1, <2>2, <1>1, <1>2, EngineFrame DEF Running
    <2>4. UNCHANGED <<manifest, config, images, pc, own, original, result>>
      BY <1>29 DEF ContainerExits
    <2>5. KnowsOwn' /\ SavedWhatRuns'
      BY <1>2, <1>5, <2>2, <2>4 DEF UpToDateFile, Equals
    <2>6. KnowsOriginal' /\ ManifestFaithful'
      BY <1>2, <2>2, <2>4
    <2>7. QED
      BY <2>3, <2>4, <2>5, <2>6
  <1>30. CASE EditConfig
    BY <1>30, <1>1, <1>2, <1>3 DEF EditConfig
  <1>31. CASE Meddle
    <2>1. pc = "idle" /\ UNCHANGED <<manifest, config, pc, own>>
      BY <1>31, DeploymentAssumption DEF Meddle, Undisturbed
    <2>2. ASSUME manifest \in Manifest, Present(engine', manifest.id)
          PROVE  /\ Present(engine, manifest.id)
                 /\ engine'[manifest.id].options = engine[manifest.id].options
                 /\ engine'[manifest.id].image = engine[manifest.id].image
      <3>1. manifest.id \in Ids /\ manifest.id \notin Fresh
        BY <2>2, <1>1 DEF Fresh, Recorded
      <3>2. CASE \E id \in Ids : Present(engine, id) /\ engine' = Started(engine, id)
        BY <3>2, <2>2, <1>2, <1>4
      <3>3. CASE \E id \in Ids : engine' = Removed(engine, id)
        BY <3>3, <3>1, <2>2, <1>1, EngineResults DEF Present
      <3>4. CASE \E id \in Ids : id # manifest.id /\ \E c : engine' = Created(engine, id, c)
        BY <3>4, <3>1, <2>2, <1>1, EngineResults DEF Present
      <3>5. CASE UNCHANGED engine
        BY <3>5, <2>2
      <3>6. QED
        BY <1>31, <3>1, <3>2, <3>3, <3>4, <3>5 DEF Meddle, Fresh
    <2>3. QED
      BY <2>1, <2>2
  <1>32. CASE UNCHANGED vars
    BY <1>32, <1>1, <1>2, <1>3 DEF vars, UpToDateFile, Equals
  <1>33. QED
    BY <1>6, <1>7, <1>8, <1>9, <1>10, <1>11, <1>12, <1>13, <1>14, <1>15, <1>16, <1>17,
       <1>18, <1>19, <1>20, <1>21, <1>22, <1>23, <1>24, <1>25, <1>26, <1>27,
       <1>28, <1>29, <1>30, <1>31, <1>32 DEF Next, Daemon

LEMMA PInvHolds == Spec => []PInv
  BY PInvInit, PInvNext, PTL DEF Spec

\* What the daemon starts does not run, so EnsureContainerRunning, which calls
\* itself for as long as it does, ends.
THEOREM StartsAreStopped == ASSUME Undisturbed PROVE Spec => []StartsStopped
  <1>1. PInv => StartsStopped
    BY DEF PInv, StartsIdle, StartsStopped
  <1>2. QED
    BY <1>1, PInvHolds, PTL

\* A service is touched only with the image it is to be created from at hand.
THEOREM ImageIsAtHand == ASSUME Undisturbed PROVE Spec => []ImageAtHand
  <1>1. PInv => ImageAtHand
    BY DEF PInv
  <1>2. QED
    BY <1>1, PInvHolds, PTL

\* The manifest tells what its container was created from, however often the
\* daemon was killed while it wrote it.
THEOREM ManifestIsFaithful == ASSUME Undisturbed PROVE Spec => []ManifestFaithful
  <1>1. PInv => ManifestFaithful
    BY DEF PInv
  <1>2. QED
    BY <1>1, PInvHolds, PTL

\* A deployment that succeeds leaves what is configured under the service's
\* name, and says so in the manifest.
THEOREM DeployedIsConsistent == ASSUME Undisturbed PROVE Spec => []DeployedConsistent
  <1>1. PInv => DeployedConsistent
    <2> SUFFICES ASSUME PInv, pc = "done", result = "deployed"
                 PROVE  DeployedConsistent
      BY DEF DeployedConsistent
    <2>1. Serves(own) /\ SavedWhatRuns /\ Unique(engine)
      BY DEF PInv, SavedWhatRuns
    <2>2. own = IdOf(engine, ServiceName)
      BY <2>1, IdOfIsTheHolder DEF Serves, Present
    <2>3. QED
      BY <2>1, <2>2 DEF DeployedConsistent, SavedWhatRuns, AsConfigured
  <1>2. QED
    BY <1>1, PInvHolds, PTL

\* "not changed" is said only of a container that runs what is configured.
THEOREM NotChangedIsSound == ASSUME Undisturbed PROVE Spec => NotChangedSound
  <1>1. PInv /\ [Next]_vars =>
          [pc # "done" /\ pc' = "done" /\ result' = "notChanged" =>
             LET id == IdOf(engine, ServiceName)
             IN  Running(engine, id) /\ engine[id].options = config.options]_vars
    <2> SUFFICES ASSUME PInv, [Next]_vars, pc # "done", pc' = "done", result' = "notChanged"
                 PROVE  LET id == IdOf(engine, ServiceName)
                        IN  Running(engine, id) /\ engine[id].options = config.options
      OBVIOUS
    <2> USE DEF Goto, Return, OnError
    <2>1. CheckInspect
      <3>1. ~(Begin \/ CheckExists \/ EnsureImage \/ PullImage \/ Exists \/ Inspect)
        BY DEF Begin, CheckExists, EnsureImage, PullImage, PullBreaks, ListAgain, Exists, Inspect
      <3>2. ~(StopOriginal \/ RenameOriginal \/ EnsureContainer \/ Attach \/ Start \/ Verdict)
        BY DEF StopOriginal, RenameOriginal, EnsureContainer, Attach, Start, Verdict, AfterRun
      <3>3. ~(PurgeExists \/ PurgeStop \/ PurgeRemove \/ RecoverRename \/ RecoverStart)
        BY DEF PurgeExists, PurgeStop, PurgeRemove, AfterPurge, RecoverRename, RecoverStart
      <3>4. ~(DisposeStop \/ DisposeRemove \/ Save \/ Finish \/ Crash)
        BY DEF DisposeStop, DisposeRemove, Save, Finish, Crash
      <3>5. ~(ContainerExits \/ EditConfig \/ Meddle \/ UNCHANGED vars)
        BY DEF ContainerExits, EditConfig, Meddle, vars
      <3>6. QED
        BY <3>1, <3>2, <3>3, <3>4, <3>5 DEF Next, Daemon
    <2>2. Serves(own) /\ UpToDateFile /\ own = manifest.id /\ Running(engine, own)
      BY <2>1 DEF CheckInspect, PInv, KnowsOwn
    <2>3. engine[own].options = config.options
      BY <2>2 DEF PInv, ManifestFaithful, UpToDateFile, Equals, Running
    <2>4. own = IdOf(engine, ServiceName)
      BY <2>2, IdOfIsTheHolder DEF PInv, Serves, Present
    <2>5. QED
      BY <2>2, <2>3, <2>4
  <1>2. QED
    BY <1>1, PInvHolds, PTL DEF Spec, NotChangedSound

-----------------------------------------------------------------------------
(* Failures *)

\* The original is there when it is disposed of, and when it is started again.
StillThere == pc \in Dispose \cup {"recoverStart"} => Present(engine, original)

LEMMA StillThereNext ==
    ASSUME Undisturbed, PInv, StillThere, [Next]_vars
    PROVE  StillThere'
  <1> USE DEF Dispose, Answered, Refused, Goto, Return, OnError
  <1>1. /\ engine \in EngineType /\ \A id : Present(engine, id) => id \in Ids
        /\ original # NoId /\ pc \in {"verdict", "recoverRename"} => Present(engine, original)
        /\ pc \in Dispose \cup {"recoverRename"} => original # NoId
    BY DEF PInv, IInv, TypeOK, Kept, Held, Trial, Rollback, KnowsOriginal, Present
  <1>2. CASE Verdict \/ RecoverRename \/ DisposeStop
    <2>1. pc' \in Dispose \cup {"recoverStart"} => Present(engine, original)
      BY <1>1, <1>2 DEF Verdict, AfterRun, RecoverRename, DisposeStop
    <2>2. \/ engine' = engine
          \/ Present(engine, original)
               /\ engine' \in {Renamed(engine, original, ServiceName), Stopped(engine, original)}
      BY <1>1, <1>2 DEF Verdict, RecoverRename, DisposeStop, StopIfRunning
    <2>3. Present(engine, original) => Present(engine', original)
      BY <1>1, <2>2, EngineFrame, EngineResults DEF Names
    <2>4. original' = original
      BY <1>2 DEF Verdict, RecoverRename, DisposeStop, memory
    <2>5. QED
      BY <2>1, <2>3, <2>4 DEF StillThere
  <1>3. CASE ContainerExits
    <2>1. PICK id \in Ids : Present(engine, id) /\ engine' = Stopped(engine, id)
      BY <1>3 DEF ContainerExits, Running
    <2>2. Present(engine, original) => Present(engine', original)
      BY <1>1, <2>1, EngineFrame
    <2>3. QED
      BY <1>3, <2>2 DEF ContainerExits, memory, StillThere
  <1>4. CASE Meddle \/ EditConfig
    BY <1>4, DeploymentAssumption DEF Meddle, EditConfig, Undisturbed, StillThere
  <1>5. CASE UNCHANGED vars
    BY <1>5 DEF vars, memory, StillThere
  <1>6. CASE \/ Begin \/ CheckExists \/ CheckInspect \/ EnsureImage \/ PullImage \/ Exists
             \/ Inspect \/ StopOriginal \/ RenameOriginal \/ EnsureContainer \/ Attach \/ Start
             \/ PurgeExists \/ PurgeStop \/ PurgeRemove \/ RecoverStart
             \/ DisposeRemove \/ Save \/ Finish \/ Crash
    BY <1>6 DEF Begin, CheckExists, CheckInspect, EnsureImage, PullImage, PullBreaks, ListAgain,
         Exists, Inspect, StopOriginal, RenameOriginal, EnsureContainer, Attach, Start, PurgeExists,
         PurgeStop, PurgeRemove, AfterPurge, RecoverStart, DisposeRemove, Save, Finish, Crash,
         StillThere
  <1>7. QED
    BY <1>2, <1>3, <1>4, <1>5, <1>6 DEF Next, Daemon

LEMMA StillThereHolds == ASSUME Undisturbed PROVE Spec => []StillThere
  <1>1. Init => StillThere
    BY DEF Init, StillThere, Dispose
  <1>2. QED
    BY <1>1, StillThereNext, PInvHolds, PTL DEF Spec

\* The engine can do all that a deployment asks of it: it fails, or turns back,
\* only in a step that is a mishap, whatever earlier mishaps left behind.
THEOREM OnlyMishapsFail == ASSUME Undisturbed PROVE Spec => FailsByMishapOnly
  <1> DEFINE Fails == pc' \in Rollback \/ (pc' = "done" /\ result' = "failed")
  <1>1. PInv /\ StillThere /\ [Next]_vars =>
          [(pc \notin Rollback \cup {"idle", "done"} /\ Fails) => faults' > faults]_vars
    <2> SUFFICES ASSUME PInv, StillThere, [Next]_vars, pc \notin Rollback \cup {"idle", "done"}, Fails
                 PROVE  faults' > faults
      OBVIOUS
    <2> USE DEF Rollback, Answered, Refused, Goto, Return, OnError, Fault
    <2>1. /\ KnowsOwn /\ KnowsOriginal /\ StartsIdle /\ ImageAtHand /\ Kept
          /\ faults \in Nat /\ NoId \notin Ids /\ \A id : Present(engine, id) => id \in Ids
      BY EngineAssumption, DeploymentAssumption DEF PInv, IInv, TypeOK, Present
    <2>2. CASE CheckExists \/ EnsureImage \/ PullImage \/ Exists \/ Verdict
      BY <2>1, <2>2 DEF CheckExists, EnsureImage, PullImage, PullBreaks, ListAgain, Exists, Verdict,
                        AfterRun
    <2>3. CASE CheckInspect \/ Inspect \/ StopOriginal \/ RenameOriginal
      <3>1. Present(engine, own)
        BY <2>1, <2>3 DEF KnowsOwn, Serves, CheckInspect, Inspect, StopOriginal, RenameOriginal
      <3>2. QED
        BY <2>1, <2>3, <3>1 DEF CheckInspect, Inspect, StopOriginal, RenameOriginal, HandOver
    <2>4. CASE EnsureContainer
      <3>1. EnsureID = NoId /\ NameFree(engine, ServiceName) /\ config.image \in images
        BY <2>1, <2>4 DEF EnsureContainer, KnowsOwn, ImageAtHand, EnsureID, IdOf, NameFree
      <3>2. QED
        BY <2>1, <2>4, <3>1 DEF EnsureContainer
    <2>5. CASE Attach \/ Start \/ Save
      <3>1. Present(engine, own)
        BY <2>1, <2>5 DEF KnowsOwn, Launched, Serves, Attach, Start, Save
      <3>2. QED
        BY <2>1, <2>5, <3>1 DEF Attach, Start, Save, EnsureContainerRunning, StartFails
    <2>6. CASE DisposeStop \/ DisposeRemove
      <3>1. Present(engine, original)
        BY <2>6 DEF StillThere, Dispose, DisposeStop, DisposeRemove
      <3>2. QED
        BY <2>1, <2>6, <3>1 DEF DisposeStop, DisposeRemove
    <2>7. ~(Begin \/ PurgeExists \/ PurgeStop \/ PurgeRemove \/ RecoverRename \/ RecoverStart)
      BY DEF Begin, PurgeExists, PurgeStop, PurgeRemove, RecoverRename, RecoverStart
    <2>8. ~(Finish \/ Crash \/ ContainerExits \/ EditConfig \/ Meddle \/ UNCHANGED vars)
      BY DEF Finish, Crash, ContainerExits, EditConfig, Meddle, vars
    <2>9. QED
      BY <2>2, <2>3, <2>4, <2>5, <2>6, <2>7, <2>8 DEF Next, Daemon
  <1>2. QED
    BY <1>1, PInvHolds, StillThereHolds, PTL DEF Spec, FailsByMishapOnly

-----------------------------------------------------------------------------
(* Backups *)

Backups == {id \in Ids : Backup(id)}

Purging == {"purge", "purgeStop", "purgeRemove"}

\* The rollback has nothing to go back to, or has gone back, or is over: from
\* here on no backup is in use.
NoneInUse == pc \in {"recoverStart", "done"} \/ (pc \in Purging /\ purging = NoId)

\* A rollback goes wrong only by a mishap: what it purges is there and has the
\* service's name, and once it is purged the name is free for the original.
Accounted ==
    /\ IsFiniteSet(Backups)
    /\ Cardinality(Backups \ {original}) <= faults
    /\ NoneInUse => Cardinality(Backups) <= faults
    /\ original # NoId /\ pc \in Purging /\ purging # NoId =>
          Serves(purging) /\ (pc # "purgeRemove" => own = purging)
    /\ pc = "recoverRename" => NameFree(engine, ServiceName)

\* A set that has at most one element more than a finite one.
LEMMA AtMostOneMore ==
    ASSUME NEW S, IsFiniteSet(S), NEW T, NEW x, T \subseteq S \cup {x}
    PROVE  /\ IsFiniteSet(T)
           /\ Cardinality(S) \in Nat /\ Cardinality(T) \in Nat
           /\ Cardinality(T) <= Cardinality(S) + 1
           /\ T \subseteq S => Cardinality(T) <= Cardinality(S)
  <1>1. /\ IsFiniteSet(S \cup {x})
        /\ Cardinality(S \cup {x}) \in {Cardinality(S), Cardinality(S) + 1}
        /\ Cardinality(S) \in Nat
    BY FS_AddElement, FS_CardinalityType
  <1>2. IsFiniteSet(T) /\ Cardinality(T) <= Cardinality(S \cup {x})
    BY <1>1, FS_Subset
  <1>3. T \subseteq S => Cardinality(T) <= Cardinality(S)
    BY FS_Subset
  <1>4. Cardinality(T) \in Nat
    BY <1>2, FS_CardinalityType
  <1>5. QED
    BY <1>1, <1>2, <1>3, <1>4

\* There are no backups yet.
LEMMA AccountedInit == Init => Accounted
  <1> SUFFICES ASSUME Init PROVE Accounted
    OBVIOUS
  <1>1. Backups = {} /\ Backups \ {original} = {}
    BY DEF Init, Backups, Backup, Present
  <1>2. QED
    BY <1>1, FS_EmptySet DEF Init, Accounted, NoneInUse, Purging

\* A backup more is left behind only by a step that is a mishap.
LEMMA AccountedNext ==
    ASSUME Undisturbed, PInv, PInv', Accounted, [Next]_vars
    PROVE  Accounted'
  <1> USE DEF Purging, Trial, Rollback, Dispose, stored, memory,
              Answered, Refused, Goto, Return, OnError, Fault
  <1>1. /\ engine \in EngineType /\ own \in Ids \cup {NoId} /\ original \in Ids \cup {NoId}
        /\ purging \in Ids \cup {NoId} /\ faults \in Nat /\ faults' \in Nat
        /\ NoId \notin Ids /\ ServiceName \notin BackupNames
        /\ \A id : Present(engine, id) => id \in Ids
        /\ Backups \subseteq Ids
    BY EngineAssumption, DeploymentAssumption DEF PInv, IInv, TypeOK, Present, Backups
  <1>2. ASSUME Alike(engine, engine')
        PROVE  /\ Backups' = Backups
               /\ \A id : Serves(id)' <=> Serves(id)
               /\ NameFree(engine', ServiceName) <=> NameFree(engine, ServiceName)
    <2>1. NameFree(engine', ServiceName) <=> NameFree(engine, ServiceName)
      BY <1>2, AlikeKeeps DEF PInv
    <2>2. \A id \in Ids : Backup(id)' <=> Backup(id)
      BY <1>2 DEF Alike, Backup
    <2>3. \A id : Serves(id)' <=> Serves(id)
      BY <1>2 DEF Alike, Serves, Present
    <2>4. QED
      BY <2>1, <2>2, <2>3 DEF Backups
  <1>3. Alike(engine, engine)
    BY DEF Alike
  <1>4. \A id : Present(engine, id) =>
          Alike(engine, Stopped(engine, id)) /\ Alike(engine, Started(engine, id))
    BY <1>1, StopAndStartAreAlike
  \* How the two counts can change.
  <1>5. /\ Backups' \subseteq Backups => IsFiniteSet(Backups')
        /\ Backups' \subseteq Backups /\ original' = original /\ faults <= faults' =>
              Cardinality(Backups' \ {original'}) <= faults'
        /\ Backups' \subseteq Backups /\ faults' = faults + 1 =>
              Cardinality(Backups') <= faults'
        /\ Backups' \subseteq Backups /\ NoneInUse /\ faults <= faults' =>
              Cardinality(Backups') <= faults'
        /\ Backups' \subseteq Backups \ {original} /\ faults <= faults' =>
              Cardinality(Backups') <= faults'
    <2>1. IsFiniteSet(Backups) /\ IsFiniteSet(Backups \ {original})
      BY FS_Subset DEF Accounted
    <2>2. Backups' \subseteq Backups => IsFiniteSet(Backups')
      BY <2>1, FS_Subset
    <2>3. \A T : T \subseteq (Backups \ {original}) \cup {original} =>
             /\ Cardinality(T) \in Nat
             /\ Cardinality(T) <= Cardinality(Backups \ {original}) + 1
             /\ T \subseteq Backups \ {original} =>
                   Cardinality(T) <= Cardinality(Backups \ {original})
      BY <2>1, AtMostOneMore
    <2>4. Cardinality(Backups) \in Nat /\ Cardinality(Backups \ {original}) \in Nat
      BY <2>1, FS_CardinalityType
    <2>5. Backups' \subseteq Backups => Cardinality(Backups') <= Cardinality(Backups)
      BY <2>1, FS_Subset
    <2>6. Backups' \subseteq Backups =>
             /\ Cardinality(Backups') \in Nat
             /\ Cardinality(Backups') <= Cardinality(Backups \ {original}) + 1
      <3>1. Backups \subseteq (Backups \ {original}) \cup {original}
        OBVIOUS
      <3>2. QED
        BY <2>3, <3>1
    <2>7. Backups' \subseteq Backups /\ original' = original =>
             /\ Cardinality(Backups' \ {original'}) \in Nat
             /\ Cardinality(Backups' \ {original'}) <= Cardinality(Backups \ {original})
      <3>1. Backups' \subseteq Backups /\ original' = original =>
               Backups' \ {original'} \subseteq Backups \ {original}
        OBVIOUS
      <3>2. QED
        BY <2>3, <3>1
    <2>8. Backups' \subseteq Backups \ {original} =>
             /\ Cardinality(Backups') \in Nat
             /\ Cardinality(Backups') <= Cardinality(Backups \ {original})
      BY <2>3
    <2>9. QED
      BY <2>2, <2>4, <2>5, <2>6, <2>7, <2>8, <1>1 DEF Accounted
  <1>6. IsFiniteSet(Backups') =>
           /\ Cardinality(Backups') \in Nat
           /\ \A x : /\ Cardinality(Backups' \ {x}) \in Nat
                     /\ Cardinality(Backups' \ {x}) <= Cardinality(Backups')
    BY FS_CardinalityType, FS_Subset
  \* It is enough that no backup appears and either the original stays what it
  \* is, or the backups are accounted for without it.
  <1> DEFINE Rest ==
        /\ original' # NoId /\ pc' \in Purging /\ purging' # NoId =>
              Serves(purging)' /\ (pc' # "purgeRemove" => own' = purging')
        /\ pc' = "recoverRename" => NameFree(engine', ServiceName)
  <1>7. ASSUME Backups' \subseteq Backups, Cardinality(Backups') <= faults', Rest
        PROVE  Accounted'
    <2>1. IsFiniteSet(Backups')
      BY <1>5, <1>7
    <2>2. Cardinality(Backups' \ {original'}) <= faults'
      BY <2>1, <1>1, <1>6, <1>7
    <2>3. QED
      BY <2>1, <2>2, <1>7 DEF Accounted
  <1>8. ASSUME Backups' \subseteq Backups, original' = original, faults <= faults', Rest,
               NoneInUse' => (NoneInUse \/ original = NoId \/ ~Backup(original)
                                \/ faults' = faults + 1)
        PROVE  Accounted'
    <2>1. original = NoId \/ ~Backup(original) => Backups \subseteq Backups \ {original}
      BY <1>1 DEF Backups
    <2>2. NoneInUse' => Cardinality(Backups') <= faults'
      BY <1>5, <1>8, <2>1
    <2>3. QED
      BY <2>2, <1>5, <1>8 DEF Accounted
  <1>9. \A id : Serves(id) => /\ Present(engine, id) /\ id \in Ids /\ ~Backup(id)
                              /\ engine[id].name = ServiceName
    BY <1>1 DEF Serves, Backup
  <1>10. CASE Begin
    BY <1>10, <1>1, <1>2, <1>3, <1>8 DEF Begin, NoneInUse, PInv, IInv, Apart
  <1>11. CASE CheckExists
    BY <1>11, <1>1, <1>2, <1>3, <1>8 DEF CheckExists, NoneInUse, PInv, IInv, Apart
  <1>12. CASE CheckInspect
    BY <1>12, <1>1, <1>2, <1>3, <1>8 DEF CheckInspect, NoneInUse, PInv, IInv, Apart
  <1>13. CASE EnsureImage
    BY <1>13, <1>1, <1>2, <1>3, <1>8 DEF EnsureImage, NoneInUse, PInv, IInv, Apart
  <1>14. CASE PullImage
    BY <1>14, <1>1, <1>2, <1>3, <1>8
       DEF PullImage, PullBreaks, ListAgain, NoneInUse, PInv, IInv, Apart
  <1>15. CASE Exists
    BY <1>15, <1>1, <1>2, <1>3, <1>8 DEF Exists, NoneInUse, PInv, IInv, Apart
  <1>16. CASE Inspect
    BY <1>16, <1>1, <1>2, <1>3, <1>8 DEF Inspect, NoneInUse, PInv, IInv, Apart
  <1>17. CASE StopOriginal
    BY <1>17, <1>1, <1>2, <1>3, <1>4, <1>8
       DEF StopOriginal, StopIfRunning, NoneInUse, PInv, IInv, Apart
  <1>18. CASE RenameOriginal
    <2>1. Serves(own) /\ original = NoId
      BY <1>18 DEF RenameOriginal, PInv, KnowsOwn, IInv, Apart
    <2>2. PICK name \in BackupNames :
             \/ engine' = engine
             \/ engine' = Renamed(engine, own, name)
      BY <1>18 DEF RenameOriginal
    <2>3. \A id \in Ids : id # own => (Backup(id)' <=> Backup(id))
      BY <2>1, <2>2, <1>1, <1>9, EngineResults DEF Backup, Present
    <2>4. Backups \ {original} = Backups
      BY <2>1, <1>1
    <2>5. Backups' \subseteq Backups \cup {own}
      BY <2>3 DEF Backups
    <2>6. /\ IsFiniteSet(Backups) /\ IsFiniteSet(Backups')
          /\ Cardinality(Backups) <= faults
          /\ Cardinality(Backups) \in Nat /\ Cardinality(Backups') \in Nat
          /\ Cardinality(Backups') <= Cardinality(Backups) + 1
      BY <2>4, <2>5, AtMostOneMore DEF Accounted
    <2>7. CASE original' = own
      <3>1. Backups' \ {own} \subseteq Backups
        BY <2>5
      <3>2. /\ Cardinality(Backups' \ {own}) \in Nat
            /\ Cardinality(Backups' \ {own}) <= Cardinality(Backups)
        BY <3>1, <2>6, FS_Subset, FS_CardinalityType
      <3>3. pc' = "create" /\ faults' = faults
        BY <1>18, <2>1, <2>7, <1>1, <1>9 DEF RenameOriginal, HandOver
      <3>4. QED
        BY <3>2, <3>3, <2>6, <2>7, <1>1 DEF Accounted, NoneInUse
    <2>8. CASE original' # own
      <3>1. pc' = "purge" /\ purging' # NoId /\ original' = NoId
        BY <1>18, <2>1, <2>8, <1>1, <1>9 DEF RenameOriginal, HandOver
      <3>2. faults' = faults + 1
        BY <1>18, <2>1, <2>8, <1>1, <1>9 DEF RenameOriginal, HandOver
      <3>3. Backups' \ {original'} = Backups'
        BY <3>1, <1>1 DEF Backups
      <3>4. QED
        BY <3>1, <3>2, <3>3, <2>6, <1>1 DEF Accounted, NoneInUse
    <2>9. QED
      BY <2>7, <2>8
  <1>19. CASE EnsureContainer
    <2>1. EnsureID = NoId /\ own = NoId /\ NameFree(engine, ServiceName) /\ config.image \in images
      BY <1>19, IdOfIsTheHolder DEF EnsureContainer, EnsureID, PInv, KnowsOwn, ImageAtHand
    <2>2. PICK id \in Fresh :
             \/ /\ engine' = Created(engine, id, NewContainer) /\ own' = id
                /\ pc' = "attach" /\ UNCHANGED <<original, faults>>
             \/ /\ engine' \in {engine, Created(engine, id, NewContainer)}
                /\ pc' = "purge" /\ purging' = NoId
                /\ faults' = faults + 1 /\ UNCHANGED original
      BY <1>19, <2>1 DEF EnsureContainer
    <2>3. id \in Ids /\ NewContainer \in Container /\ NewContainer.name = ServiceName
      BY EngineAssumption DEF Fresh, NewContainer, Container, Names, Config, PInv, IInv, TypeOK
    <2>4. \A other \in Ids : Backup(other)' => Backup(other)
      BY <2>2, <2>3, <1>1, EngineResults DEF Backup, Present
    <2>5. Backups' \subseteq Backups
      BY <2>4 DEF Backups
    <2>6. QED
      BY <2>2, <2>5, <1>1, <1>8 DEF NoneInUse
  <1>20. CASE Attach
    BY <1>20, <1>1, <1>2, <1>3, <1>8, <1>9 DEF Attach, NoneInUse, PInv, KnowsOwn, Launched
  <1>21. CASE Start
    BY <1>21, <1>1, <1>2, <1>3, <1>4, <1>8, <1>9
       DEF Start, EnsureContainerRunning, StartFails, NoneInUse, PInv, KnowsOwn, Launched
  <1>22. CASE Verdict
    BY <1>22, <1>1, <1>2, <1>3, <1>8, <1>9
       DEF Verdict, AfterRun, NoneInUse, PInv, KnowsOwn, Launched
  <1>23. CASE PurgeExists
    <2>1. own # NoId => EnsureID = own
      BY DEF EnsureID
    <2>2. QED
      BY <1>23, <2>1, <1>1, <1>2, <1>3, <1>8 DEF PurgeExists, NoneInUse, Accounted
  <1>24. CASE PurgeStop
    BY <1>24, <1>1, <1>2, <1>3, <1>4, <1>8, <1>9
       DEF PurgeStop, StopIfRunning, NoneInUse, Accounted
  <1>25. CASE PurgeRemove
    <2>1. \A id : Present(engine', id) => Present(engine, id) /\ engine'[id] = engine[id]
      BY <1>25, <1>1, EngineResults DEF PurgeRemove, Present
    <2>2. Backups' \subseteq Backups
      BY <2>1 DEF Backups, Backup
    <2>3. pc' = "recoverRename" => NameFree(engine', ServiceName)
      <3> SUFFICES ASSUME pc' = "recoverRename" PROVE NameFree(engine', ServiceName)
        OBVIOUS
      <3>1. purging # NoId /\ original # NoId /\ engine' = Removed(engine, purging)
        BY <1>25 DEF PurgeRemove, AfterPurge
      <3>2. Serves(purging)
        BY <1>25, <3>1 DEF PurgeRemove, Accounted
      <3>3. ~Present(engine', purging)
        BY <3>1, <1>1, EngineResults
      <3>4. \A id \in Ids : Serves(id) => id = purging
        BY <3>2, <1>9 DEF PInv, Unique
      <3>5. \A id \in Ids : ~(Present(engine', id) /\ engine'[id].name = ServiceName)
        BY <2>1, <3>3, <3>4 DEF Serves
      <3>6. QED
        BY <3>5 DEF NameFree, Holders
    <2>4. QED
      BY <1>25, <2>2, <2>3, <1>1, <1>8, <1>9 DEF PurgeRemove, AfterPurge, NoneInUse, Accounted
  <1>26. CASE RecoverRename
    <2>1. original # NoId /\ Present(engine, original) /\ NameFree(engine, ServiceName)
      BY <1>26 DEF RecoverRename, PInv, KnowsOriginal, IInv, Kept, Held, Accounted, Undisturbed
    <2>2. \/ engine' = Renamed(engine, original, ServiceName) /\ faults' = faults
          \/ /\ engine' \in {engine, Renamed(engine, original, ServiceName)}
             /\ faults' = faults + 1
      BY <1>26, <2>1 DEF RecoverRename
    <2>3. UNCHANGED <<original, own, purging>> /\ pc' \in {"recoverStart", "done"}
      BY <1>26 DEF RecoverRename
    <2>4. CASE engine' = Renamed(engine, original, ServiceName)
      <3>1. /\ Renamed(engine, original, ServiceName)[original].name = ServiceName
            /\ \A other \in Ids : other # original =>
                  Renamed(engine, original, ServiceName)[other] = engine[other]
        BY <2>1, <1>1, EngineResults DEF Names
      <3>2. \A id \in Ids : Backup(id)' => Backup(id) /\ id # original
        BY <2>4, <3>1, <1>1 DEF Backup, Present
      <3>3. Backups' \subseteq Backups \ {original}
        BY <3>2 DEF Backups
      <3>4. Cardinality(Backups') <= faults'
        BY <2>2, <3>3, <1>1, <1>5
      <3>5. QED
        BY <2>3, <3>3, <3>4, <1>7
    <2>5. CASE engine' = engine /\ faults' = faults + 1
      BY <2>3, <2>5, <1>2, <1>3, <1>5, <1>7
    <2>6. QED
      BY <2>2, <2>4, <2>5
  <1>27. CASE RecoverStart
    BY <1>27, <1>1, <1>2, <1>3, <1>4, <1>8
       DEF RecoverStart, EnsureContainerRunning, StartFails, NoneInUse
  <1>28. CASE DisposeStop
    BY <1>28, <1>1, <1>2, <1>3, <1>4, <1>8 DEF DisposeStop, StopIfRunning, NoneInUse, Backup
  <1>29. CASE DisposeRemove
    <2>1. \A id : Present(engine', id) => Present(engine, id) /\ engine'[id] = engine[id]
      BY <1>29, <1>1, EngineResults DEF DisposeRemove, Present
    <2>2. Backups' \subseteq Backups
      BY <2>1 DEF Backups, Backup
    <2>3. QED
      BY <1>29, <2>2, <1>1, <1>8 DEF DisposeRemove, NoneInUse, Backup
  <1>30. CASE Save
    BY <1>30, <1>1, <1>2, <1>3, <1>8 DEF Save, NoneInUse, Backup, PInv, KnowsOriginal
  <1>31. CASE Finish
    <2>1. Cardinality(Backups') <= faults'
      BY <1>31, <1>2, <1>3 DEF Finish, Accounted, NoneInUse
    <2>2. QED
      BY <1>31, <2>1, <1>2, <1>3, <1>7 DEF Finish, Forget
  <1>32. CASE Crash
    <2>1. engine' = engine /\ faults' = faults + 1 /\ pc' = "idle" /\ original' = NoId
      BY <1>32 DEF Crash, Forget
    <2>2. Backups' = Backups
      BY <2>1, <1>2, <1>3
    <2>3. Cardinality(Backups') <= faults'
      BY <2>1, <2>2, <1>5
    <2>4. QED
      BY <2>1, <2>2, <2>3, <1>7
  <1>33. CASE ContainerExits
    BY <1>33, <1>1, <1>2, <1>4, <1>8
       DEF ContainerExits, Running, NoneInUse, Accounted
  <1>34. CASE EditConfig
    BY <1>34, <1>1, <1>2, <1>3, <1>8 DEF EditConfig, NoneInUse
  <1>35. CASE Meddle
    <2>1. pc = "idle" /\ UNCHANGED <<pc, own, original, purging, faults>>
      BY <1>35, DeploymentAssumption DEF Meddle, Undisturbed
    <2>2. Backups' \subseteq Backups
      <3>1. CASE \E id \in Ids : Present(engine, id) /\ engine' = Started(engine, id)
        BY <3>1, <1>2, <1>4
      <3>2. CASE \E id \in Ids : engine' = Removed(engine, id)
        BY <3>2, <1>1, EngineResults DEF Backups, Backup, Present
      <3>3. CASE \E id \in Ids, c \in Container :
                    c.name = ServiceName /\ engine' = Created(engine, id, c)
        BY <3>3, <1>1, EngineResults DEF Backups, Backup, Present
      <3>4. CASE UNCHANGED engine
        BY <3>4, <1>2, <1>3
      <3>5. \A options \in Options, image \in Images :
               LET c == [name |-> ServiceName, running |-> TRUE, options |-> options,
                         mounts |-> NoMounts, image |-> image]
               IN  c \in Container /\ c.name = ServiceName
        BY EngineAssumption DEF Container, Names
      <3>6. QED
        BY <1>35, <3>1, <3>2, <3>3, <3>4, <3>5 DEF Meddle, Fresh
    <2>3. QED
      BY <2>1, <2>2, <1>1, <1>8 DEF NoneInUse
  <1>36. CASE UNCHANGED vars
    BY <1>36, <1>1, <1>2, <1>3, <1>8 DEF vars, NoneInUse, Accounted
  <1>37. QED
    BY <1>10, <1>11, <1>12, <1>13, <1>14, <1>15, <1>16, <1>17, <1>18, <1>19, <1>20,
       <1>21, <1>22, <1>23, <1>24, <1>25, <1>26, <1>27, <1>28, <1>29, <1>30, <1>31,
       <1>32, <1>33, <1>34, <1>35, <1>36 DEF Next, Daemon

LEMMA AccountsHold == ASSUME Undisturbed PROVE Spec => []Accounted
  <1>1. PInv /\ PInv' /\ Accounted /\ [Next]_vars => Accounted'
    BY AccountedNext
  <1>2. QED
    BY <1>1, AccountedInit, PInvHolds, PTL DEF Spec

\* Every backup but the one in use was left behind by a mishap of its own, over
\* any number of deployments and restarts.
THEOREM BackupsAreAccountedFor == ASSUME Undisturbed PROVE Spec => []BackupsAccountedFor
  <1>1. Accounted => BackupsAccountedFor
    BY DEF Accounted, Backups, BackupsAccountedFor
  <1>2. QED
    BY <1>1, AccountsHold, PTL

\* A rollback with something to purge fails by mishaps of its own only, and then
\* gives the service its name and its container back, and starts it if it ran.
THEOREM RollbackSucceeds == ASSUME Undisturbed PROVE Spec => RollbackWorks
  <1> DEFINE Ends ==
        /\ pc \in Rollback /\ pc' \in {"recoverStart", "done"} \ {pc} /\ faults' = faults
        /\ purging # NoId /\ original # NoId
  <1>1. PInv /\ PInv' /\ Accounted /\ StillThere /\ [Next]_vars =>
          [Ends => (IF pc = "recoverStart" THEN Running(engine', original)
                                           ELSE original = IdOf(engine', ServiceName))]_vars
    <2> SUFFICES ASSUME PInv, PInv', Accounted, StillThere, [Next]_vars, Ends
                 PROVE  IF pc = "recoverStart" THEN Running(engine', original)
                                               ELSE original = IdOf(engine', ServiceName)
      OBVIOUS
    <2> USE DEF Rollback, Answered, Refused, Goto, Return, Fault
    <2>1. /\ engine \in EngineType /\ faults \in Nat
          /\ \A id : Present(engine, id) => id \in Ids
      BY DeploymentAssumption DEF PInv, IInv, TypeOK, Present
    <2>2. pc \in Purging => Serves(purging) /\ (pc # "purgeRemove" => own = purging)
      BY DEF Accounted
    <2>3. ~(PurgeExists \/ PurgeStop \/ PurgeRemove)
      <3>1. ~PurgeExists
        BY <2>1, <2>2 DEF PurgeExists, Purging, EnsureID
      <3>2. ~PurgeStop
        BY <2>1, <2>2 DEF PurgeStop, Purging, Serves
      <3>3. ~PurgeRemove
        BY <2>1, <2>2 DEF PurgeRemove, AfterPurge, Purging, Serves
      <3>4. QED
        BY <3>1, <3>2, <3>3
    <2>4. CASE RecoverRename
      <3>1. Present(engine, original) /\ NameFree(engine, ServiceName)
        BY <2>4 DEF RecoverRename, PInv, IInv, Kept, Held, Trial, Accounted
      <3>2. engine' = Renamed(engine, original, ServiceName)
        BY <2>1, <2>4, <3>1 DEF RecoverRename
      <3>3. Present(engine', original) /\ engine'[original].name = ServiceName
        BY <2>1, <3>1, <3>2, EngineResults DEF Names
      <3>4. QED
        BY <2>1, <2>4, <3>1, <3>3, IdOfIsTheHolder DEF PInv, RecoverRename
    <2>5. CASE RecoverStart
      <3>1. Present(engine, original)
        BY <2>5 DEF RecoverStart, StillThere
      <3>2. engine' = Started(engine, original)
        BY <2>1, <2>5, <3>1 DEF RecoverStart, EnsureContainerRunning, StartFails
      <3>3. QED
        BY <2>1, <2>5, <3>1, <3>2, EngineFrame DEF RecoverStart
    <2>6. ~(Begin \/ CheckExists \/ CheckInspect \/ EnsureImage \/ PullImage \/ Exists \/ Inspect)
      BY DEF Begin, CheckExists, CheckInspect, EnsureImage, PullImage, Exists, Inspect
    <2>7. ~(StopOriginal \/ RenameOriginal \/ EnsureContainer \/ Attach \/ Start \/ Verdict)
      BY DEF StopOriginal, RenameOriginal, EnsureContainer, Attach, Start, Verdict
    <2>8. ~(DisposeStop \/ DisposeRemove \/ Save \/ Finish \/ Crash)
      BY DEF DisposeStop, DisposeRemove, Save, Finish, Crash
    <2>9. ~(ContainerExits \/ EditConfig \/ Meddle \/ UNCHANGED vars)
      BY DEF ContainerExits, EditConfig, Meddle, vars
    <2>10. QED
      BY <2>3, <2>4, <2>5, <2>6, <2>7, <2>8, <2>9 DEF Next, Daemon
  <1>2. QED
    BY <1>1, PInvHolds, AccountsHold, StillThereHolds, PTL DEF Spec, RollbackWorks

-----------------------------------------------------------------------------
(* One container at a time *)

\* A rollback takes a mishap.  It starts a container that still has its backup
\* name only after a second one, and nothing else runs under such a name.
Tame ==
    /\ pc \in Rollback => faults >= 1
    /\ pc = "recoverStart" => faults >= 2 \/ Serves(original)
    /\ \A id \in Ids : Running(engine, id) => faults >= 2 \/ Serves(id)

LEMMA TameInit == Init => Tame
  BY DEF Init, Tame, Rollback, Running, Present

\* The only starts are that of a container just created and that of the original
\* once it was renamed back, which fails only by a mishap.
LEMMA TameNext ==
    ASSUME Operator = "never", PInv, PInv', Accounted, Tame, [Next]_vars
    PROVE  Tame'
  <1> USE DEF Rollback, Dispose, stored, memory,
              Answered, Refused, Goto, Return, OnError, Fault
  <1>1. /\ engine \in EngineType /\ own \in Ids \cup {NoId} /\ original \in Ids \cup {NoId}
        /\ purging \in Ids \cup {NoId} /\ faults \in Nat /\ faults' \in Nat
        /\ NoId \notin Ids
        /\ \A id : Present(engine, id) => id \in Ids
    BY EngineAssumption, DeploymentAssumption DEF PInv, IInv, TypeOK, Present
  <1>2. Undisturbed
    BY DEF Undisturbed
  <1>3. ASSUME Alike(engine, engine')
        PROVE  \A id : Serves(id)' <=> Serves(id)
    BY <1>3 DEF Alike, Serves, Present
  <1>4. Alike(engine, engine)
    BY DEF Alike
  <1>5. \A id : Present(engine, id) =>
          /\ Alike(engine, Stopped(engine, id)) /\ Alike(engine, Started(engine, id))
          /\ \A other \in Ids :
                /\ Running(Stopped(engine, id), other) => Running(engine, other)
                /\ Running(Started(engine, id), other) => other = id \/ Running(engine, other)
    BY <1>1, StopAndStartAreAlike, EngineFrame
  \* A step that starts nothing and renames nothing.
  <1>6. ASSUME \A id \in Ids : Running(engine', id) => Running(engine, id) /\ (Serves(id) => Serves(id)'),
               faults <= faults', pc' \in Rollback => faults' >= 1,
               pc' # "recoverStart" \/ UNCHANGED <<engine, pc, original>>
        PROVE  Tame'
    BY <1>1, <1>3, <1>4, <1>6 DEF Tame
  <1>7. /\ pc \in {"inspect", "stop", "rename", "attach", "start"} => Present(engine, own)
        /\ pc = "create" =>
              own = NoId /\ NameFree(engine, ServiceName) /\ config.image \in images
    BY <1>2 DEF PInv, KnowsOwn, ImageAtHand, Launched, Serves
  <1>8. CASE \/ Begin \/ CheckExists \/ CheckInspect \/ EnsureImage \/ PullImage
             \/ Exists \/ Inspect \/ Attach \/ Verdict \/ Save \/ Finish \/ Crash
             \/ EditConfig
    <2>1. UNCHANGED engine
      BY <1>8 DEF Begin, CheckExists, CheckInspect, EnsureImage, PullImage, PullBreaks, Exists,
            Inspect, Attach, Verdict, Save, Finish, Crash, EditConfig
    <2>2. faults <= faults' /\ (pc' \in Rollback => faults' >= 1) /\ pc' # "recoverStart"
      BY <1>8, <1>1, <1>7 DEF Begin, CheckExists, CheckInspect, EnsureImage, PullImage,
            PullBreaks, ListAgain, Exists, Inspect, Attach, Verdict, AfterRun, Save, Finish,
            Crash, EditConfig
    <2>3. QED
      BY <2>1, <2>2, <1>3, <1>4, <1>6
  <1>9. CASE StopOriginal \/ PurgeStop \/ DisposeStop
    <2>1. \/ engine' = engine
          \/ \E id : Present(engine, id) /\ engine' = Stopped(engine, id)
      BY <1>9 DEF StopOriginal, PurgeStop, DisposeStop, StopIfRunning
    <2>2. \A id \in Ids : Running(engine', id) => Running(engine, id) /\ (Serves(id) => Serves(id)')
      BY <2>1, <1>3, <1>4, <1>5
    <2>3. faults <= faults' /\ (pc' \in Rollback => faults' >= 1) /\ pc' # "recoverStart"
      BY <1>9, <1>1, <1>7 DEF StopOriginal, PurgeStop, DisposeStop, Tame
    <2>4. QED
      BY <2>2, <2>3, <1>6
  <1>10. CASE PurgeExists
    <2>1. UNCHANGED engine /\ faults <= faults' /\ pc' # "recoverStart"
            /\ (pc' \in Rollback => faults' >= 1)
      BY <1>10, <1>1 DEF PurgeExists, Tame
    <2>2. QED
      BY <2>1, <1>3, <1>4, <1>6
  <1>11. CASE PurgeRemove \/ DisposeRemove
    <2>1. \A id \in Ids : Present(engine', id) => engine'[id] = engine[id]
      BY <1>11, <1>1, EngineResults DEF PurgeRemove, DisposeRemove, Present
    <2>2. \A id \in Ids : Running(engine', id) => Running(engine, id) /\ (Serves(id) => Serves(id)')
      <3>1. \A id \in Ids : Present(engine', id) => engine[id] # Absent
        BY <2>1 DEF Present
      <3>2. QED
        BY <2>1, <3>1 DEF Running, Serves, Present
    <2>3. faults <= faults' /\ (pc' \in Rollback => faults' >= 1) /\ pc' # "recoverStart"
      BY <1>11, <1>1 DEF PurgeRemove, DisposeRemove, AfterPurge, Tame
    <2>4. QED
      BY <2>2, <2>3, <1>6
  <1>12. CASE RenameOriginal
    <2>1. own \in Ids /\ Present(engine, own) /\ ~Running(engine, own)
      BY <1>12, <1>1, <1>2, <1>7 DEF RenameOriginal, PInv, IInv, Quiet
    <2>2. PICK name \in Names : engine' = engine \/ engine' = Renamed(engine, own, name)
      BY <1>12 DEF RenameOriginal, Names
    <2>3. \A id \in Ids : Running(engine', id) => id # own /\ Running(engine, id)
      BY <2>1, <2>2, <1>1, EngineFrame
    <2>4. \A id \in Ids : id # own /\ Serves(id) => Serves(id)'
      BY <2>1, <2>2, <1>1, EngineResults DEF Serves, Present
    <2>5. faults <= faults' /\ (pc' \in Rollback => faults' >= 1) /\ pc' # "recoverStart"
      BY <1>12, <2>1, <1>1 DEF RenameOriginal
    <2>6. QED
      BY <2>3, <2>4, <2>5, <1>6
  <1>13. CASE EnsureContainer
    <2>1. EnsureID = NoId
      BY <1>13, <1>7 DEF EnsureContainer, EnsureID, IdOf, NameFree
    <2>2. PICK id \in Fresh : engine' = engine \/ engine' = Created(engine, id, NewContainer)
      BY <1>13, <2>1 DEF EnsureContainer
    <2>3. /\ id \in Ids /\ ~Present(engine, id) /\ NewContainer \in Container
          /\ ~NewContainer.running
      BY EngineAssumption DEF Fresh, NewContainer, Container, Names, Config, PInv, IInv, TypeOK
    <2>4. \A other \in Ids : Running(engine', other) =>
             Running(engine, other) /\ (Serves(other) => Serves(other)')
      BY <2>2, <2>3, <1>1, EngineResults DEF Running, Serves, Present
    <2>5. faults <= faults' /\ (pc' \in Rollback => faults' >= 1) /\ pc' # "recoverStart"
      BY <1>13, <2>1, <1>1, <1>7 DEF EnsureContainer
    <2>6. QED
      BY <2>4, <2>5, <1>6
  <1>14. CASE Start
    <2>1. Serves(own) /\ Present(engine, own)
      BY <1>14, <1>2, <1>7 DEF Start, PInv, KnowsOwn, Launched
    <2>2. engine' = engine \/ engine' = Started(engine, own)
      BY <1>14 DEF Start, EnsureContainerRunning, StartFails
    <2>3. /\ \A id \in Ids : Running(engine', id) => id = own \/ Running(engine, id)
          /\ \A id : Serves(id)' <=> Serves(id)
      BY <2>1, <2>2, <1>3, <1>4, <1>5
    <2>4. faults <= faults' /\ (pc' \in Rollback => faults' >= 1) /\ pc' # "recoverStart"
      BY <1>14, <2>1, <1>1 DEF Start, EnsureContainerRunning, StartFails
    <2>5. QED
      BY <2>1, <2>3, <2>4, <1>1 DEF Tame
  <1>15. CASE RecoverRename
    <2>1. /\ original \in Ids /\ Present(engine, original) /\ NameFree(engine, ServiceName)
          /\ ~Running(engine, original) /\ faults >= 1
      BY <1>15, <1>1, <1>2 DEF RecoverRename, PInv, KnowsOriginal, IInv, Kept, Quiet, Held,
                               Accounted, Undisturbed, Tame
    <2>2. \/ engine' = Renamed(engine, original, ServiceName) /\ faults' = faults
          \/ /\ engine' \in {engine, Renamed(engine, original, ServiceName)}
             /\ faults' = faults + 1
      BY <1>15, <2>1 DEF RecoverRename
    <2>3. \A id \in Ids : Running(engine', id) => id # original /\ Running(engine, id)
      BY <2>1, <2>2, <1>1, EngineFrame DEF Names
    <2>4. \A id \in Ids : id # original /\ Serves(id) => Serves(id)'
      BY <2>1, <2>2, <1>1, EngineResults DEF Serves, Present
    <2>5. engine' = Renamed(engine, original, ServiceName) => Serves(original)'
      BY <1>15, <2>1, <1>1, EngineResults DEF RecoverRename, Serves, Names
    <2>6. QED
      BY <2>1, <2>2, <2>3, <2>4, <2>5, <1>1 DEF Tame
  <1>16. CASE RecoverStart
    <2>1. engine' = engine \/ (Present(engine, original) /\ engine' = Started(engine, original))
      BY <1>16 DEF RecoverStart, EnsureContainerRunning, StartFails
    <2>2. /\ \A id \in Ids : Running(engine', id) => id = original \/ Running(engine, id)
          /\ \A id : Serves(id)' <=> Serves(id)
      BY <2>1, <1>3, <1>4, <1>5
    <2>3. faults <= faults' /\ pc' = "done"
      BY <1>16, <1>1 DEF RecoverStart, EnsureContainerRunning, StartFails
    <2>4. QED
      BY <1>16, <2>2, <2>3, <1>1 DEF Tame, RecoverStart
  <1>17. CASE ContainerExits
    <2>1. PICK id \in Ids : Present(engine, id) /\ engine' = Stopped(engine, id)
      BY <1>17 DEF ContainerExits, Running
    <2>2. /\ \A other \in Ids : Running(engine', other) => Running(engine, other)
          /\ \A other : Serves(other)' <=> Serves(other)
      BY <2>1, <1>3, <1>5
    <2>3. QED
      BY <1>17, <2>2, <1>1 DEF ContainerExits, Tame, Serves
  <1>18. CASE UNCHANGED vars
    BY <1>18, <1>3, <1>4 DEF vars, Tame
  <1>19. ~Meddle
    BY DEF Meddle
  <1>20. QED
    BY <1>8, <1>9, <1>10, <1>11, <1>12, <1>13, <1>14, <1>15, <1>16, <1>17, <1>18, <1>19
       DEF Next, Daemon

\* With nobody else at the engine, fewer than two mishaps never leave two
\* containers of the service running, over any number of deployments.
THEOREM OneInstance == ASSUME Operator = "never" PROVE Spec => []SingleInstance
  <1>1. Undisturbed
    BY DEF Undisturbed
  <1>2. Spec => []Accounted
    BY <1>1, AccountsHold
  <1>3. PInv /\ PInv' /\ Accounted /\ Tame /\ [Next]_vars => Tame'
    BY TameNext
  <1>4. Spec => []Tame
    BY <1>2, <1>3, TameInit, PInvHolds, PTL DEF Spec
  <1>5. PInv /\ Tame => SingleInstance
    <2> SUFFICES ASSUME PInv, Tame, faults < 2
                 PROVE  Cardinality({id \in Ids : Running(engine, id)}) <= 1
      BY DEF SingleInstance
    <2> DEFINE Up == {id \in Ids : Running(engine, id)}
    <2>1. \A a, b \in Up : a = b
      <3>1. faults \in Nat
        BY DeploymentAssumption DEF PInv, IInv, TypeOK
      <3>2. \A id \in Up : Serves(id)
        BY <3>1 DEF Tame
      <3>3. QED
        BY <3>2 DEF PInv, Unique, Serves
    <2>2. CASE Up = {}
      BY <2>2, FS_EmptySet
    <2>3. CASE Up # {}
      <3>1. PICK id \in Up : TRUE
        BY <2>3
      <3>2. Up = {id}
        BY <2>1, <3>1
      <3>3. Cardinality({id}) = 1
        BY FS_Singleton
      <3>4. QED
        BY <3>2, <3>3
    <2>4. QED
      BY <2>2, <2>3
  <1>6. QED
    BY <1>4, <1>5, PInvHolds, PTL

=============================================================================
