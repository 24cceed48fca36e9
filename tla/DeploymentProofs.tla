-------------------------- MODULE DeploymentProofs --------------------------
(***************************************************************************)
(* What holds of Deployment for every set of ids, names and values, for    *)
(* every bound on the faults, and whatever Operator is unless said so.     *)
(***************************************************************************)
EXTENDS Deployment, TLAPS

-----------------------------------------------------------------------------
(* The engine *)

\* What the operators of Engine do to the one container they are about, and
\* that they leave every other one alone.
LEMMA EngineEffects ==
    ASSUME NEW eng \in EngineType, NEW id \in Ids
    PROVE  /\ Present(eng, id) => Stopped(eng, id) \in EngineType
           /\ Present(eng, id) => Started(eng, id) \in EngineType
           /\ \A name \in Names : Present(eng, id) => Renamed(eng, id, name) \in EngineType
           /\ Removed(eng, id) \in EngineType
           /\ \A c \in Container : Created(eng, id, c) \in EngineType
  <1>1. Present(eng, id) => eng[id] \in Container
    BY DEF EngineType, Present
  <1>2. Present(eng, id) => Stopped(eng, id) \in EngineType
    BY <1>1 DEF EngineType, Stopped, Container
  <1>3. Present(eng, id) => Started(eng, id) \in EngineType
    BY <1>1 DEF EngineType, Started, Container
  <1>4. \A name \in Names : Present(eng, id) => Renamed(eng, id, name) \in EngineType
    BY <1>1 DEF EngineType, Renamed, Container
  <1>5. Removed(eng, id) \in EngineType
    BY DEF EngineType, Removed
  <1>6. \A c \in Container : Created(eng, id, c) \in EngineType
    BY DEF EngineType, Created
  <1>7. QED
    BY <1>2, <1>3, <1>4, <1>5, <1>6

\* IdOf finds a container with the name, or NoId when there is none.
LEMMA IdOfFinds ==
    ASSUME NEW eng, NEW name
    PROVE  /\ IdOf(eng, name) \in Ids \cup {NoId}
           /\ IdOf(eng, name) # NoId => /\ Present(eng, IdOf(eng, name))
                                        /\ eng[IdOf(eng, name)].name = name
  <1>1. CASE Holders(eng, name) = {}
    BY <1>1 DEF IdOf
  <1>2. CASE Holders(eng, name) # {}
    <2>1. IdOf(eng, name) \in Holders(eng, name)
      BY <1>2 DEF IdOf
    <2>2. QED
      BY <2>1 DEF Holders
  <1>3. QED
    BY <1>1, <1>2

LEMMA EnsureIDType == TypeOK => EnsureID \in Ids \cup {NoId}
  BY IdOfFinds DEF EnsureID, TypeOK

-----------------------------------------------------------------------------
(* Type correctness *)

LEMMA PhasesAre ==
    /\ "idle" \in Phases /\ "checkExists" \in Phases /\ "checkInspect" \in Phases
    /\ "ensureImage" \in Phases /\ "pullImage" \in Phases /\ "exists" \in Phases /\ "inspect" \in Phases
    /\ "stop" \in Phases /\ "rename" \in Phases /\ "save" \in Phases /\ "done" \in Phases
    /\ "create" \in Phases /\ "attach" \in Phases /\ "start" \in Phases /\ "verdict" \in Phases
    /\ "purge" \in Phases /\ "purgeStop" \in Phases /\ "purgeRemove" \in Phases
    /\ "recoverRename" \in Phases /\ "recoverStart" \in Phases
    /\ "disposeStop" \in Phases /\ "disposeRemove" \in Phases
  BY DEF Phases, Trial, Rollback, Dispose

\* Initially no container exists and nothing was deployed.
LEMMA TypeInit == Init => TypeOK
  <1> SUFFICES ASSUME Init PROVE TypeOK
    OBVIOUS
  <1> USE DEF Init
  <1>1. engine \in EngineType
    BY DEF EngineType
  <1>2. /\ manifest \in Manifest \cup {NoManifest, Torn, Corrupt} /\ config \in Config
        /\ images \subseteq Images
    OBVIOUS
  <1>3. pc \in Phases /\ result \in {"none", "deployed", "notChanged", "failed"}
    BY PhasesAre
  <1>4. faults \in 0..MaxFaults
    BY DeploymentAssumption
  <1>5. /\ own \in Ids \cup {NoId} /\ original \in Ids \cup {NoId}
        /\ purging \in Ids \cup {NoId} /\ prior \in Ids \cup {NoId}
        /\ originalRunning \in BOOLEAN
    OBVIOUS
  <1>6. QED
    BY <1>1, <1>2, <1>3, <1>4, <1>5 DEF TypeOK

LEMMA TypeNext == TypeOK /\ [Next]_vars => TypeOK'
  <1> SUFFICES ASSUME TypeOK, [Next]_vars PROVE TypeOK'
    OBVIOUS
  <1> USE DEF TypeOK, stored, memory, Answered, Refused, Goto, Return, OnError
  <1>0. /\ \A id \in Ids : Present(engine, id) =>
               /\ Stopped(engine, id) \in EngineType
               /\ Started(engine, id) \in EngineType
               /\ \A name \in Names : Renamed(engine, id, name) \in EngineType
        /\ \A id \in Ids : Removed(engine, id) \in EngineType
        /\ \A id \in Ids, c \in Container : Created(engine, id, c) \in EngineType
    BY EngineEffects
  <1>1. IdOf(engine, ServiceName) \in Ids \cup {NoId} /\ EnsureID \in Ids \cup {NoId}
    BY IdOfFinds, EnsureIDType
  <1>2. \A id \in Ids : Present(engine, id) =>
           /\ engine[id] \in Container
           /\ engine[id].running \in BOOLEAN
           /\ engine[id].image \in Images
    BY DEF EngineType, Container, Present
  <1>3. Present(engine, own) => NewManifest \in Manifest
    BY <1>2 DEF NewManifest, Manifest, Config, Present
  <1>4. Fault => faults' \in 0..MaxFaults
    BY DeploymentAssumption DEF Fault
  <1>5. \A id : Present(engine, id) => id \in Ids
    BY DEF Present
  <1>6. CASE Begin
    BY <1>6, <1>1, <1>4, PhasesAre DEF Begin
  <1>7. CASE CheckExists
    BY <1>7, <1>1, <1>4, PhasesAre DEF CheckExists
  <1>8. CASE CheckInspect
    BY <1>8, <1>4, PhasesAre DEF CheckInspect
  <1>9. CASE EnsureImage
    BY <1>9, <1>4, PhasesAre DEF EnsureImage
  <1>10. CASE PullImage
    <2>1. Pulled \subseteq Images
      BY DEF Pulled, Config
    <2>2. QED
      BY <1>10, <2>1, <1>4, PhasesAre DEF PullImage, PullBreaks, ListAgain
  <1>11. CASE Exists
    BY <1>11, <1>1, <1>4, PhasesAre DEF Exists
  <1>12. CASE Inspect
    BY <1>12, <1>2, <1>4, <1>5, PhasesAre DEF Inspect
  <1>13. CASE StopOriginal
    BY <1>13, <1>0, <1>4, <1>5, PhasesAre DEF StopOriginal, StopIfRunning
  <1>14. CASE RenameOriginal
    BY <1>14, <1>0, <1>4, <1>5, PhasesAre DEF RenameOriginal, HandOver, Names
  <1>15. CASE EnsureContainer
    <2>1. NewContainer \in Container
      BY EngineAssumption DEF NewContainer, Container, Names, Config
    <2>2. QED
      BY <1>15, <1>0, <1>1, <1>4, <2>1, PhasesAre DEF EnsureContainer, Fresh
  <1>16. CASE Attach
    BY <1>16, <1>4, PhasesAre DEF Attach
  <1>17. CASE Start
    BY <1>17, <1>0, <1>4, <1>5, PhasesAre DEF Start, EnsureContainerRunning, StartFails
  <1>18. CASE Verdict
    BY <1>18, <1>4, PhasesAre DEF Verdict, AfterRun
  <1>19. CASE PurgeExists
    BY <1>19, <1>1, <1>4, PhasesAre DEF PurgeExists
  <1>20. CASE PurgeStop
    BY <1>20, <1>0, <1>4, <1>5, PhasesAre DEF PurgeStop, StopIfRunning
  <1>21. CASE PurgeRemove
    BY <1>21, <1>0, <1>4, <1>5, PhasesAre DEF PurgeRemove, AfterPurge
  <1>22. CASE RecoverRename
    BY <1>22, <1>0, <1>4, <1>5, PhasesAre DEF RecoverRename, Names
  <1>23. CASE RecoverStart
    BY <1>23, <1>0, <1>4, <1>5, PhasesAre DEF RecoverStart, EnsureContainerRunning, StartFails
  <1>24. CASE DisposeStop
    BY <1>24, <1>0, <1>4, <1>5, PhasesAre DEF DisposeStop, StopIfRunning
  <1>25. CASE DisposeRemove
    BY <1>25, <1>0, <1>4, <1>5, PhasesAre DEF DisposeRemove
  <1>26. CASE Save
    BY <1>26, <1>3, <1>4, PhasesAre DEF Save, CutShort
  <1>27. CASE Finish
    BY <1>27, PhasesAre DEF Finish, Forget
  <1>28. CASE Crash
    BY <1>28, <1>3, <1>4, PhasesAre DEF Crash, CutShort, Forget
  <1>29. CASE ContainerExits
    BY <1>29, <1>0 DEF ContainerExits, Running
  <1>30. CASE EditConfig
    BY <1>30 DEF EditConfig
  <1>31. CASE Meddle
    <2>1. \A options \in Options, image \in Images :
             [name |-> ServiceName, running |-> TRUE, options |-> options,
              mounts |-> NoMounts, image |-> image] \in Container
      BY EngineAssumption DEF Container, Names
    <2>2. QED
      BY <1>31, <1>0, <2>1 DEF Meddle, Fresh
  <1>32. CASE UNCHANGED vars
    BY <1>32 DEF vars
  <1>33. QED
    BY <1>6, <1>7, <1>8, <1>9, <1>10, <1>11, <1>12, <1>13, <1>14, <1>15, <1>16, <1>17,
       <1>18, <1>19, <1>20, <1>21, <1>22, <1>23, <1>24, <1>25, <1>26, <1>27,
       <1>28, <1>29, <1>30, <1>31, <1>32 DEF Next, Daemon

\* Every variable keeps its type, in particular the ids the daemon holds are ids
\* the engine gave it, and the manifest is one of the four things it can be.
THEOREM TypeCorrect == Spec => []TypeOK
  BY TypeInit, TypeNext, PTL DEF Spec

-----------------------------------------------------------------------------
(* The original is kept *)

Held == Trial \cup (Rollback \ {"recoverStart"})

\* d.originalContainer is set by StopAndRename and not before; from then on the
\* daemon's own container is another one, so is the one it purges, and the name
\* of the original is not the one the others are looked up by.
Apart ==
    /\ pc \in {"idle", "checkExists", "checkInspect", "ensureImage",
              "pullImage", "exists", "inspect", "stop", "rename"} => original = NoId
    /\ original # NoId /\ pc \in Held =>
          /\ own # original
          /\ pc \in Rollback => purging # original
          /\ Present(engine, original) => engine[original].name \in BackupNames

\* With nobody else at the engine during a deployment, the original is there.
Kept == original # NoId /\ pc \in Held => Present(engine, original)

\* With nobody else at the engine during a deployment, the original stays
\* stopped until it is recovered, and then no other container is in use.
Quiet ==
    /\ pc = "rename" => ~Running(engine, own)
    /\ original # NoId /\ pc \notin {"recoverStart", "done"} => ~Running(engine, original)
    /\ pc \in {"purgeRemove", "recoverRename", "recoverStart"} => own = NoId
    /\ pc = "done" => own = NoId \/ original = NoId \/ ~Running(engine, original)

Undisturbed == Operator # "anytime"

IInv == TypeOK /\ Apart /\ (Undisturbed => Kept /\ Quiet)

\* What the engine's operations leave alone: every other container, and the name
\* of a container that is stopped or started.
LEMMA EngineFrame ==
    ASSUME NEW eng \in EngineType, NEW id \in Ids, NEW other \in Ids
    PROVE  /\ Present(eng, id) =>
                 /\ Present(Stopped(eng, id), other) <=> Present(eng, other)
                 /\ Stopped(eng, id)[other].name = eng[other].name
                 /\ Running(Stopped(eng, id), other) <=> (other # id /\ Running(eng, other))
                 /\ Present(Started(eng, id), other) <=> Present(eng, other)
                 /\ Started(eng, id)[other].name = eng[other].name
                 /\ Running(Started(eng, id), other) <=> (other = id \/ Running(eng, other))
                 /\ \A name \in Names :
                       /\ Present(Renamed(eng, id, name), other) <=> Present(eng, other)
                       /\ Renamed(eng, id, name)[id].name = name
                       /\ Running(Renamed(eng, id, name), other) <=> Running(eng, other)
           /\ other # id =>
                 /\ Removed(eng, id)[other] = eng[other]
                 /\ \A name : Renamed(eng, id, name)[other] = eng[other]
                 /\ \A c : Created(eng, id, c)[other] = eng[other]
  <1>1. /\ Present(eng, id) => eng[id] \in Container
        /\ Present(eng, other) => eng[other] \in Container
    BY DEF EngineType, Present
  <1>2. Present(eng, id) =>
                 /\ Present(Stopped(eng, id), other) <=> Present(eng, other)
                 /\ Stopped(eng, id)[other].name = eng[other].name
                 /\ Running(Stopped(eng, id), other) <=> (other # id /\ Running(eng, other))
    BY <1>1, EngineAssumption DEF EngineType, Stopped, Present, Running, Container
  <1>3. Present(eng, id) =>
                 /\ Present(Started(eng, id), other) <=> Present(eng, other)
                 /\ Started(eng, id)[other].name = eng[other].name
                 /\ Running(Started(eng, id), other) <=> (other = id \/ Running(eng, other))
    BY <1>1, EngineAssumption DEF EngineType, Started, Present, Running, Container
  <1>4. ASSUME Present(eng, id), NEW name \in Names
        PROVE  /\ Present(Renamed(eng, id, name), other) <=> Present(eng, other)
               /\ Renamed(eng, id, name)[id].name = name
               /\ Running(Renamed(eng, id, name), other) <=> Running(eng, other)
    BY <1>1, <1>4, EngineAssumption DEF EngineType, Renamed, Present, Running, Container
  <1>5. other # id =>
                 /\ Removed(eng, id)[other] = eng[other]
                 /\ \A name : Renamed(eng, id, name)[other] = eng[other]
                 /\ \A c : Created(eng, id, c)[other] = eng[other]
    BY DEF EngineType, Removed, Renamed, Created
  <1>6. QED
    BY <1>2, <1>3, <1>4, <1>5

LEMMA IInvInit == Init => IInv
  BY TypeInit DEF Init, IInv, Apart, Kept, Quiet, Held, Trial, Rollback

LEMMA IInvNext == IInv /\ [Next]_vars => IInv'
  <1> SUFFICES ASSUME IInv, [Next]_vars
               PROVE  Apart' /\ (Undisturbed => Kept' /\ Quiet')
    BY TypeNext DEF IInv, Undisturbed
  <1> USE DEF IInv, Apart, Kept, Quiet, Held, Undisturbed, Trial, Rollback, Dispose,
              stored, memory, Answered, Refused, Goto, Return, OnError
  <1>0. engine \in EngineType /\ own \in Ids \cup {NoId} /\ original \in Ids \cup {NoId}
    BY DEF TypeOK
  <1>1. \A id, other \in Ids : Present(engine, id) =>
          /\ Present(Stopped(engine, id), other) <=> Present(engine, other)
          /\ Stopped(engine, id)[other].name = engine[other].name
          /\ Running(Stopped(engine, id), other) <=> (other # id /\ Running(engine, other))
          /\ Present(Started(engine, id), other) <=> Present(engine, other)
          /\ Started(engine, id)[other].name = engine[other].name
          /\ Running(Started(engine, id), other) <=> (other = id \/ Running(engine, other))
          /\ \A name \in Names :
                /\ Present(Renamed(engine, id, name), other) <=> Present(engine, other)
                /\ Renamed(engine, id, name)[id].name = name
                /\ Running(Renamed(engine, id, name), other) <=> Running(engine, other)
    BY <1>0, EngineFrame
  <1>2. \A id, other \in Ids : other # id =>
          /\ Removed(engine, id)[other] = engine[other]
          /\ \A c : Created(engine, id, c)[other] = engine[other]
    BY <1>0, EngineFrame
  <1>3. /\ EnsureID \in Ids \cup {NoId}
        /\ EnsureID # NoId /\ own = NoId =>
              Present(engine, EnsureID) /\ engine[EnsureID].name \notin BackupNames
        /\ own # NoId => EnsureID = own
    BY <1>0, IdOfFinds, EngineAssumption DEF EnsureID
  <1>4. /\ own \in Ids \cup {NoId} /\ original \in Ids \cup {NoId} /\ NoId \notin Ids
        /\ \A id : Present(engine, id) => id \in Ids
        /\ \A id : Running(engine, id) => Present(engine, id)
        /\ \A eng : ~Present(eng, NoId) /\ ~Running(eng, NoId)
        /\ \A id \in Ids : ~Present(Removed(engine, id), id) /\ ~Running(Removed(engine, id), id)
    BY <1>0, EngineAssumption DEF Present, Running, Removed, EngineType
  <1>5. \A id, other \in Ids : other # id =>
          /\ Present(Removed(engine, id), other) <=> Present(engine, other)
          /\ Running(Removed(engine, id), other) <=> Running(engine, other)
          /\ \A c : /\ Present(Created(engine, id, c), other) <=> Present(engine, other)
                    /\ Running(Created(engine, id, c), other) <=> Running(engine, other)
    BY <1>2 DEF Present, Running
  <1>6. CASE Begin
    BY <1>6 DEF Begin
  <1>7. CASE CheckExists
    BY <1>7 DEF CheckExists
  <1>8. CASE CheckInspect
    BY <1>8 DEF CheckInspect
  <1>9. CASE EnsureImage
    BY <1>9 DEF EnsureImage
  <1>10. CASE PullImage
    BY <1>10 DEF PullImage, PullBreaks, ListAgain
  <1>11. CASE Exists
    BY <1>11 DEF Exists
  <1>12. CASE Inspect
    BY <1>12 DEF Inspect
  <1>13. CASE StopOriginal
    BY <1>13, <1>1, <1>4 DEF StopOriginal, StopIfRunning
  <1>14. CASE RenameOriginal
    BY <1>14, <1>1, <1>4 DEF RenameOriginal, HandOver, Names
  <1>15. CASE EnsureContainer
    BY <1>15, <1>2, <1>3, <1>4, <1>5 DEF EnsureContainer, Fresh
  <1>16. CASE Attach
    BY <1>16 DEF Attach
  <1>17. CASE Start
    BY <1>17, <1>1, <1>4 DEF Start, EnsureContainerRunning, StartFails
  <1>18. CASE Verdict
    BY <1>18 DEF Verdict, AfterRun
  <1>19. CASE PurgeExists
    BY <1>19, <1>3 DEF PurgeExists
  <1>20. CASE PurgeStop
    BY <1>20, <1>1, <1>4 DEF PurgeStop, StopIfRunning
  <1>21. CASE PurgeRemove
    BY <1>21, <1>2, <1>4, <1>5 DEF PurgeRemove, AfterPurge
  <1>22. CASE RecoverRename
    BY <1>22, <1>1, <1>4 DEF RecoverRename, Names
  <1>23. CASE RecoverStart
    BY <1>23 DEF RecoverStart, EnsureContainerRunning, StartFails
  <1>24. CASE DisposeStop
    BY <1>24, <1>1, <1>4 DEF DisposeStop, StopIfRunning
  <1>25. CASE DisposeRemove
    BY <1>25, <1>4 DEF DisposeRemove
  <1>26. CASE Save
    BY <1>26 DEF Save
  <1>27. CASE Finish
    BY <1>27 DEF Finish, Forget
  <1>28. CASE Crash
    BY <1>28 DEF Crash, Forget
  <1>29. CASE ContainerExits
    BY <1>29, <1>1, <1>4 DEF ContainerExits
  <1>30. CASE EditConfig
    BY <1>30 DEF EditConfig
  <1>31. CASE Meddle
    <2>1. UNCHANGED <<pc, own, original, purging>>
      BY <1>31 DEF Meddle
    <2>2. Undisturbed => pc = "idle" /\ original = NoId
      BY <1>31, DeploymentAssumption DEF Meddle
    <2>3. Undisturbed => Kept' /\ Quiet'
      BY <2>1, <2>2
    <2>4. ASSUME original # NoId, pc \in Held, Present(engine, original)'
          PROVE  (engine[original].name \in BackupNames)'
      <3>1. CASE \E id \in Ids : /\ Present(engine, id)
                               /\ engine' \in {Started(engine, id), Removed(engine, id)}
        BY <3>1, <2>1, <2>4, <1>1, <1>2, <1>4, <1>5
      <3>2. CASE \E id \in Fresh : \E c : engine' = Created(engine, id, c)
        BY <3>2, <2>1, <2>4, <1>2, <1>4, <1>5 DEF Fresh
      <3>3. CASE UNCHANGED engine
        BY <3>3, <2>1, <2>4
      <3>4. QED
        BY <1>31, <3>1, <3>2, <3>3 DEF Meddle
    <2>5. QED
      BY <2>1, <2>3, <2>4
  <1>32. CASE UNCHANGED vars
    BY <1>32 DEF vars
  <1>33. QED
    BY <1>6, <1>7, <1>8, <1>9, <1>10, <1>11, <1>12, <1>13, <1>14, <1>15, <1>16,
       <1>17, <1>18, <1>19, <1>20, <1>21, <1>22, <1>23, <1>24, <1>25, <1>26,
       <1>27, <1>28, <1>29, <1>30, <1>31, <1>32 DEF Next, Daemon

LEMMA IInvHolds == Spec => []IInv
  BY IInvInit, IInvNext, PTL DEF Spec

\* As long as others leave the engine alone while a deployment runs, there is
\* something to go back to whenever the trial of a new container fails: the
\* container it replaces was put aside and nothing the daemon does removes it.
THEOREM OriginalIsKept == ASSUME Undisturbed PROVE Spec => []OriginalKept
  <1>1. IInv => OriginalKept
    BY DEF IInv, Apart, Kept, Held, OriginalKept, Backup
  <1>2. QED
    BY <1>1, IInvHolds, PTL

\* Under the same condition the old and the new container never run together.
THEOREM NeverOverlap == ASSUME Undisturbed PROVE Spec => []NoOverlap
  <1>1. IInv => NoOverlap
    BY DEF IInv, Quiet, NoOverlap
  <1>2. QED
    BY <1>1, IInvHolds, PTL

\* The daemon itself removes the original only after the verdict, whatever
\* anybody else does to the engine at any time.
THEOREM OriginalRemovedByDisposeOnly == Spec => OriginalRemovedLast
  <1>1. IInv /\ [Next]_vars =>
          [pc' # pc /\ pc # "disposeRemove" /\ original # NoId =>
             (Present(engine, original) => Present(engine', original))]_vars
    <2> SUFFICES ASSUME IInv, [Next]_vars, pc' # pc, pc # "disposeRemove",
                        original # NoId, Present(engine, original)
                 PROVE  Present(engine', original)
      BY DEF vars
    <2> USE DEF Answered, Refused
    <2>1. /\ engine \in EngineType /\ original \in Ids
          /\ \A id : Present(engine, id) => id \in Ids
      BY DEF IInv, TypeOK, Present
    <2>2. \A id \in Ids : Present(engine, id) =>
            /\ Present(Stopped(engine, id), original)
            /\ Present(Started(engine, id), original)
            /\ \A name \in Names : Present(Renamed(engine, id, name), original)
      BY <2>1, EngineFrame
    <2>3. \A id \in Ids : id # original =>
            /\ Present(Removed(engine, id), original)
            /\ \A c : Present(Created(engine, id, c), original)
      BY <2>1, EngineFrame DEF Present
    <2>4. CASE engine' = engine
      BY <2>4
    <2>5. CASE StopOriginal \/ PurgeStop \/ DisposeStop
      BY <2>5, <2>1, <2>2 DEF StopOriginal, PurgeStop, DisposeStop, StopIfRunning
    <2>6. CASE Start \/ RecoverStart
      BY <2>6, <2>1, <2>2 DEF Start, RecoverStart, EnsureContainerRunning, StartFails
    <2>7. CASE RenameOriginal \/ RecoverRename
      BY <2>7, <2>1, <2>2 DEF RenameOriginal, RecoverRename, Names
    <2>8. CASE EnsureContainer
      BY <2>8, <2>3 DEF EnsureContainer, Fresh
    <2>9. CASE PurgeRemove
      <3>1. purging # original
        BY <2>9 DEF PurgeRemove, IInv, Apart, Held, Rollback
      <3>2. QED
        BY <2>9, <3>1, <2>1, <2>3 DEF PurgeRemove
    <2>10. CASE Begin \/ CheckExists \/ CheckInspect \/ EnsureImage \/ PullImage \/ Exists
                \/ Inspect \/ Attach \/ Verdict \/ PurgeExists \/ Save \/ Finish \/ Crash
      BY <2>10, <2>4 DEF Begin, CheckExists, CheckInspect, EnsureImage, PullImage, PullBreaks,
                         Exists, Inspect, Attach, Verdict, PurgeExists, Save, Finish, Crash
    <2>11. QED
      BY <2>5, <2>6, <2>7, <2>8, <2>9, <2>10
         DEF Next, Daemon, DisposeRemove, ContainerExits, EditConfig, Meddle, vars
  <1>2. QED
    BY <1>1, IInvHolds, PTL DEF Spec, OriginalRemovedLast
=============================================================================
