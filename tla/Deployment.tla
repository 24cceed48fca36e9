----------------------------- MODULE Deployment -----------------------------
(***************************************************************************)
(* Deploying one service: ci/deployments/deployment.go together with the   *)
(* operations of docker/container.go it calls.                             *)
(*                                                                         *)
(* One action stands for one request to the engine, or for one access to   *)
(* the manifest file, with everything the code does before the next one.   *)
(* An inspection that only guards an idempotent stop, and one that only    *)
(* guards a start, are merged with it.                                     *)
(*                                                                         *)
(* The process may be killed between any two steps and started again, a    *)
(* request may fail before or after it took effect, the container may exit *)
(* at any time, and somebody else may use the engine.                      *)
(***************************************************************************)
EXTENDS Engine, Naturals

CONSTANTS
    NoManifest,     \* .ci/deployments/<service> does not exist
    Torn,           \* it was cut short, and what is left is not what was saved
    Corrupt,        \* it was cut short, and what is left is not YAML
    Elsewhere,      \* images with a ref that is not listed under their name
    Operator,       \* when others use the engine: "never", "idle" or "anytime"
    MaxFaults       \* bound on crashes, failed requests and rejected starts

ASSUME DeploymentAssumption ==
    /\ MaxFaults \in Nat
    /\ Operator \in {"never", "idle", "anytime"}
    /\ Elsewhere \subseteq Images
    /\ NoId \notin Options

Config == [options: Options, mounts: MountSets, image: Images]

\* The fields of yaml.Deployment the code reads back.
Manifest == [id: Ids, options: Options, mounts: MountSets, image: Images]

ASSUME ManifestAssumption ==
    NoManifest \notin Manifest /\ Torn \notin Manifest /\ Corrupt \notin Manifest

VARIABLES
    engine,             \* the containers
    manifest,           \* the file .ci/deployments/<service>
    config,             \* the service as ci.yaml describes it
    images,             \* the images the engine holds
    pc,                 \* the next request
    own,                \* *d.container.id
    original,           \* the id in d.originalContainer
    originalRunning,    \* originalContainerRunning
    purging,            \* containerID in Purge
    result,             \* what Deploy returned
    faults,             \* mishaps so far
    prior               \* who had the service's name when Deploy began (history)

stored == <<manifest, config, images>>
memory == <<own, original, originalRunning, purging>>
vars == <<engine, stored, pc, memory, result, faults, prior>>

Trial == {"create", "attach", "start", "verdict"}
Rollback == {"purge", "purgeStop", "purgeRemove", "recoverRename", "recoverStart"}
Dispose == {"disposeStop", "disposeRemove"}
Phases == {"idle", "checkExists", "checkInspect", "ensureImage", "pullImage",
           "exists", "inspect", "stop", "rename", "save", "done"} \cup Trial \cup Rollback \cup Dispose

TypeOK ==
    /\ engine \in EngineType
    /\ manifest \in Manifest \cup {NoManifest, Torn, Corrupt}
    /\ config \in Config
    /\ images \subseteq Images
    /\ pc \in Phases
    /\ own \in Ids \cup {NoId}
    /\ original \in Ids \cup {NoId}
    /\ originalRunning \in BOOLEAN
    /\ purging \in Ids \cup {NoId}
    /\ result \in {"none", "deployed", "notChanged", "failed"}
    /\ faults \in 0..MaxFaults
    /\ prior \in Ids \cup {NoId}

Recorded == IF manifest \in Manifest THEN manifest.id ELSE NoId

\* Engines never reuse an id.  The model does, once nothing refers to it.
Fresh == {id \in Ids : ~Present(engine, id)}
             \ {Recorded, own, original, purging, prior}

Init ==
    /\ engine = [id \in Ids |-> Absent]
    /\ manifest = NoManifest
    /\ config \in Config
    /\ images \in SUBSET Images
    /\ pc = "idle"
    /\ own = NoId /\ original = NoId /\ purging = NoId /\ prior = NoId
    /\ originalRunning = FALSE
    /\ result = "none"
    /\ faults = 0

-----------------------------------------------------------------------------
(* Requests and outcomes *)

Fault == faults < MaxFaults /\ faults' = faults + 1

\* A request that is answered: it was legal, and it took effect.
Answered(legal, effect) == legal /\ engine' = effect /\ UNCHANGED faults

\* A request that returns an error: it was not legal, or the connection broke,
\* before the engine acted or after.
Refused(legal, effect) ==
    \/ ~legal /\ UNCHANGED <<engine, faults>>
    \/ legal /\ Fault /\ engine' \in {engine, effect}

Goto(phase) == pc' = phase /\ UNCHANGED result
Return(outcome) == pc' = "done" /\ result' = outcome

\* (mutant: purge is given d.originalContainer)
PurgeOriginal == Goto("purge") /\ purging' = original

\* OnError of run: Purge remembers the id it finds in the container it is given.
OnError == Goto("purge") /\ purging' = own

\* A cached id is believed without asking again; without one, the name is
\* looked up.
EnsureID == IF own = NoId THEN IdOf(engine, ServiceName) ELSE own

-----------------------------------------------------------------------------
(* FromService and checkExists *)

\* The process starts, and reads the manifest.
Begin ==
    /\ pc = "idle"
    /\ Fresh # {}
    /\ \E name \in BackupNames : NameFree(engine, name)
    /\ \/ manifest # Corrupt /\ pc' = "checkExists" /\ result' = "none" /\ UNCHANGED faults
       \/ manifest = Corrupt /\ Return("failed") /\ UNCHANGED faults
       \/ Fault /\ Return("failed")
    /\ prior' = IdOf(engine, ServiceName)
    /\ UNCHANGED <<engine, stored, memory>>

\* (mutant: the args, environment and ports are not compared)
EqualMounts == manifest.mounts = config.mounts

\* yaml.Deployment.Equals: the image is not compared.
Equals == manifest.options = config.options /\ manifest.mounts = config.mounts

UpToDateFile == manifest \in Manifest /\ Equals

\* Only a manifest that matches makes checkExists ask the engine.
CheckExists ==
    /\ pc = "checkExists"
    /\ \/ ~UpToDateFile /\ Goto("ensureImage") /\ UNCHANGED <<own, faults>>
       \/ /\ UpToDateFile
          /\ own' = EnsureID
          /\ Goto(IF own' = manifest.id THEN "checkInspect" ELSE "ensureImage")
          /\ UNCHANGED faults
       \/ UpToDateFile /\ Fault /\ Return("failed") /\ UNCHANGED own
    /\ UNCHANGED <<engine, stored, original, originalRunning, purging, prior>>

CheckInspect ==
    /\ pc = "checkInspect"
    /\ \/ /\ Present(engine, own)
          /\ IF engine[own].image = manifest.image /\ Running(engine, own)
             THEN Return("notChanged")
             ELSE Goto("ensureImage")
          /\ UNCHANGED <<engine, faults>>
       \/ Refused(Present(engine, own), engine) /\ Return("failed")
    /\ UNCHANGED <<stored, memory, prior>>

\* EnsureImage lists the images that have the configured name.
EnsureImage ==
    /\ pc = "ensureImage"
    /\ \/ Goto(IF config.image \in images THEN "exists" ELSE "pullImage") /\ UNCHANGED faults
       \/ Fault /\ Return("failed")
    /\ UNCHANGED <<engine, stored, memory, prior>>

\* (mutant: the messages are not read, and the engine gives up the pull)
NothingPulled == {}

\* What a pull adds under the configured name: nothing, if the ref has another.
Pulled == {config.image} \ Elsewhere

\* (mutant: what was pulled is not looked for)
TakeForGranted == Goto("exists")

\* EnsureImage calls itself, and lists again.
ListAgain == Goto("ensureImage")

\* The engine reports the pull message by message: one of them is an error, or
\* one cannot be read.
PullBreaks == images' \in {images, images \cup Pulled} /\ Fault /\ Return("failed")

\* A pull that fails ends the deployment with nothing touched.
PullImage ==
    /\ pc = "pullImage"
    /\ \/ images' = images \cup Pulled /\ ListAgain /\ UNCHANGED faults
       \/ PullBreaks
    /\ UNCHANGED <<engine, manifest, config, memory, prior>>

-----------------------------------------------------------------------------
(* run: put the original aside, then try the new container *)

Exists ==
    /\ pc = "exists"
    /\ \/ /\ own' = EnsureID
          /\ Goto(IF own' = NoId THEN "create" ELSE "inspect")
          /\ UNCHANGED <<purging, faults>>
       \/ own = NoId /\ Fault /\ OnError /\ UNCHANGED own
    /\ UNCHANGED <<engine, stored, original, originalRunning, prior>>

Inspect ==
    /\ pc = "inspect"
    /\ \/ /\ Answered(Present(engine, own), engine)
          /\ originalRunning' = engine[own].running
          /\ Goto("stop") /\ UNCHANGED purging
       \/ /\ Refused(Present(engine, own), engine)
          /\ OnError /\ UNCHANGED originalRunning
    /\ UNCHANGED <<stored, own, original, prior>>

\* (mutant: the container is renamed or removed without being stopped)
LeaveRunning(id) == engine

StopIfRunning(id) == Stopped(engine, id)

StopOriginal ==
    /\ pc = "stop"
    /\ \/ Answered(Present(engine, own), StopIfRunning(own)) /\ Goto("rename") /\ UNCHANGED purging
       \/ Refused(Present(engine, own), StopIfRunning(own)) /\ OnError
    /\ UNCHANGED <<stored, own, original, originalRunning, prior>>

\* (mutant: StopAndRename does not forget the id it cached)
KeepCachedID == original' = own /\ own' = own

HandOver == original' = own /\ own' = NoId

\* Only a rename that is answered hands the container over to originalContainer.
RenameOriginal ==
    /\ pc = "rename"
    /\ \E name \in {n \in BackupNames : NameFree(engine, n)} :
         \/ /\ Answered(Present(engine, own), Renamed(engine, own, name))
            /\ HandOver
            /\ Goto("create") /\ UNCHANGED purging
         \/ /\ Refused(Present(engine, own), Renamed(engine, own, name))
            /\ OnError /\ UNCHANGED <<own, original>>
    /\ UNCHANGED <<stored, originalRunning, prior>>

\* (mutant: the container is created from what the manifest says)
StaleContainer ==
    [name |-> ServiceName, running |-> FALSE, mounts |-> NoMounts, image |-> config.image,
     options |-> IF manifest \in Manifest THEN manifest.options ELSE config.options]

\* getRunningConfigs: SetMounts is never called, so nothing is mounted.
NewContainer == [name |-> ServiceName, running |-> FALSE, options |-> config.options,
                 mounts |-> NoMounts, image |-> config.image]

\* A container that has the name already is taken as it is.
EnsureContainer ==
    /\ pc = "create"
    /\ \/ /\ EnsureID # NoId
          /\ own' = EnsureID
          /\ Goto("attach") /\ UNCHANGED <<engine, purging, faults>>
       \/ /\ EnsureID = NoId
          /\ \E id \in Fresh :
               LET legal == NameFree(engine, ServiceName) /\ config.image \in images
                   effect == Created(engine, id, NewContainer)
               IN  \/ Answered(legal, effect) /\ own' = id /\ Goto("attach") /\ UNCHANGED purging
                   \/ Refused(legal, effect) /\ OnError /\ UNCHANGED own
    /\ UNCHANGED <<stored, original, originalRunning, prior>>

\* Attach and WaitExitOrRemoved.
Attach ==
    /\ pc = "attach"
    /\ \/ Answered(Present(engine, own), engine) /\ Goto("start") /\ UNCHANGED purging
       \/ Refused(Present(engine, own), engine) /\ OnError
    /\ UNCHANGED <<stored, own, original, originalRunning, prior>>

\* EnsureContainerRunning calls itself for as long as the container runs already.
EnsureContainerRunning(id) ==
    Answered(Present(engine, id) /\ ~Running(engine, id), Started(engine, id))

StartFails(id) ==
    /\ ~Running(engine, id)
    /\ Refused(Present(engine, id), Started(engine, id))

Start ==
    /\ pc = "start"
    /\ \/ EnsureContainerRunning(own) /\ Goto("verdict") /\ UNCHANGED purging
       \/ StartFails(own) /\ OnError
    /\ UNCHANGED <<stored, own, original, originalRunning, prior>>

\* (mutant: the container that was replaced is not removed)
SaveAtOnce == "save"

\* The argument of Then(d.purge, d.originalContainer) is read when run has
\* returned, which Go leaves open and its compiler does.
AfterRun == IF original = NoId THEN "save" ELSE "disposeStop"

\* What the assertions make of the container's output, or of its exit.
Verdict ==
    /\ pc = "verdict"
    /\ \/ Goto(AfterRun) /\ UNCHANGED <<purging, faults>>
       \/ Fault /\ OnError
    /\ UNCHANGED <<engine, stored, own, original, originalRunning, prior>>

-----------------------------------------------------------------------------
(* run's OnError: purge(d.container), then recover(d.originalContainer) *)

\* Without an id Purge looks the name up.  Not finding it is no error, and then
\* the id it remembered is nil: the panic ends the rollback.
PurgeExists ==
    /\ pc = "purge"
    /\ \/ EnsureID # NoId /\ own' = EnsureID /\ Goto("purgeStop") /\ UNCHANGED faults
       \/ EnsureID = NoId /\ Return("failed") /\ UNCHANGED <<own, faults>>
       \/ own = NoId /\ Fault /\ Return("failed") /\ UNCHANGED own
    /\ UNCHANGED <<engine, stored, original, originalRunning, purging, prior>>

\* StopAndRename into the name it has.  A purge that fails skips recover.
PurgeStop ==
    /\ pc = "purgeStop"
    /\ \/ /\ Answered(Present(engine, own), StopIfRunning(own))
          /\ own' = NoId
          /\ Goto("purgeRemove")
       \/ /\ Refused(Present(engine, own), StopIfRunning(own))
          /\ Return("failed") /\ UNCHANGED own
    /\ UNCHANGED <<stored, original, originalRunning, purging, prior>>

\* (mutant: the failed container is cleared away, and that is all)
NoRecover == Return("failed")

AfterPurge == IF original = NoId THEN Return("failed") ELSE Goto("recoverRename")

PurgeRemove ==
    /\ pc = "purgeRemove"
    /\ \/ purging = NoId /\ Return("failed") /\ UNCHANGED <<engine, faults>>
       \/ /\ purging # NoId
          /\ Answered(Present(engine, purging), Removed(engine, purging))
          /\ AfterPurge
       \/ /\ purging # NoId
          /\ Refused(Present(engine, purging), Removed(engine, purging))
          /\ Return("failed")
    /\ UNCHANGED <<stored, memory, prior>>

\* The error of the rename is logged and forgotten.
RecoverRename ==
    /\ pc = "recoverRename"
    /\ LET legal == Present(engine, original) /\ NameFree(engine, ServiceName)
           effect == Renamed(engine, original, ServiceName)
       IN  Answered(legal, effect) \/ Refused(legal, effect)
    /\ IF originalRunning THEN Goto("recoverStart") ELSE Return("failed")
    /\ UNCHANGED <<stored, memory, prior>>

RecoverStart ==
    /\ pc = "recoverStart"
    /\ EnsureContainerRunning(original) \/ StartFails(original)
    /\ Return("failed")
    /\ UNCHANGED <<stored, memory, prior>>

-----------------------------------------------------------------------------
(* Deploy, after run: purge(d.originalContainer), then save *)

DisposeStop ==
    /\ pc = "disposeStop"
    /\ \/ Answered(Present(engine, original), StopIfRunning(original)) /\ Goto("disposeRemove")
       \/ Refused(Present(engine, original), StopIfRunning(original)) /\ Return("failed")
    /\ UNCHANGED <<stored, memory, prior>>

DisposeRemove ==
    /\ pc = "disposeRemove"
    /\ \/ Answered(Present(engine, original), Removed(engine, original)) /\ Goto("save")
       \/ Refused(Present(engine, original), Removed(engine, original)) /\ Return("failed")
    /\ UNCHANGED <<stored, memory, prior>>

\* (mutant: the id saved is the one the service had before the update)
SavePriorID == [id |-> prior, options |-> config.options, mounts |-> config.mounts,
                image |-> engine[own].image]

NewManifest == [id |-> own, options |-> config.options, mounts |-> config.mounts,
                image |-> engine[own].image]

\* ioutil.WriteFile truncates the file, then writes it: not one atomic step.
CutShort == IF Present(engine, own)
            THEN {manifest, Torn, Corrupt, NewManifest}
            ELSE {manifest}

Save ==
    /\ pc = "save"
    /\ \/ Present(engine, own) /\ manifest' = NewManifest /\ Return("deployed") /\ UNCHANGED faults
       \/ ~Present(engine, own) /\ Return("failed") /\ UNCHANGED <<manifest, faults>>
       \/ Fault /\ manifest' \in CutShort /\ Return("failed")
    /\ UNCHANGED <<engine, config, images, memory, prior>>

Forget == own' = NoId /\ original' = NoId /\ purging' = NoId /\ originalRunning' = FALSE

\* The process ends.
Finish ==
    /\ pc = "done"
    /\ pc' = "idle"
    /\ Forget
    /\ UNCHANGED <<engine, stored, result, faults, prior>>

Daemon ==
    \/ CheckExists \/ CheckInspect \/ EnsureImage \/ PullImage
    \/ Exists \/ Inspect \/ StopOriginal \/ RenameOriginal
    \/ EnsureContainer \/ Attach \/ Start \/ Verdict
    \/ PurgeExists \/ PurgeStop \/ PurgeRemove \/ RecoverRename \/ RecoverStart
    \/ DisposeStop \/ DisposeRemove \/ Save \/ Finish

-----------------------------------------------------------------------------
(* Everything else that happens *)

Crash ==
    /\ pc \notin {"idle", "done"}
    /\ Fault
    /\ pc' = "idle" /\ result' = "failed"
    /\ Forget
    /\ manifest' \in IF pc = "save" THEN CutShort ELSE {manifest}
    /\ UNCHANGED <<engine, config, images, prior>>

ContainerExits ==
    /\ \E id \in Ids : Running(engine, id) /\ engine' = Stopped(engine, id)
    /\ UNCHANGED <<stored, pc, memory, result, faults, prior>>

EditConfig ==
    /\ pc = "idle"
    /\ config' \in Config \ {config}
    /\ UNCHANGED <<engine, manifest, images, pc, memory, result, faults, prior>>

\* docker start, rm, run --name and rmi, by hand or by another tool.  The engine
\* keeps an image as long as a container was created from it.
Meddle ==
    /\ Operator # "never"
    /\ Operator = "idle" => pc = "idle"
    /\ \/ \E id \in Ids :
            /\ Present(engine, id)
            /\ engine' \in {Started(engine, id), Removed(engine, id)}
            /\ UNCHANGED images
       \/ \E id \in Fresh, options \in Options, image \in Images :
            /\ NameFree(engine, ServiceName)
            /\ Fresh # {id}
            /\ engine' = Created(engine, id,
                   [name |-> ServiceName, running |-> TRUE, options |-> options,
                    mounts |-> NoMounts, image |-> image])
            /\ images' = images \cup {image}
       \/ \E image \in images :
            /\ \A id \in Ids : Present(engine, id) => engine[id].image # image
            /\ images' = images \ {image}
            /\ UNCHANGED engine
    /\ UNCHANGED <<manifest, config, pc, memory, result, faults, prior>>

Next == Begin \/ Daemon \/ Crash \/ ContainerExits \/ EditConfig \/ Meddle

\* Once it runs, the daemon goes on: every request is answered some time, and a
\* started container is judged some time (StartWatch says when that is so).
Spec == Init /\ [][Next]_vars /\ WF_vars(Daemon)

-----------------------------------------------------------------------------
(* Properties *)

Backup(id) == Present(engine, id) /\ engine[id].name \in BackupNames

\* While a new container is tried, and while a failed one is cleared away, the
\* container it replaces is still there under its backup name: there is
\* something to go back to (StopAndRename, purge, recover).
OriginalKept ==
    original # NoId /\ pc \in Trial \cup (Rollback \ {"recoverStart"}) => Backup(original)

\* The new container and the one it replaces never run at the same time: they
\* would fight for the published ports (StopAndRename before EnsureContainer).
NoOverlap ==
    own # NoId /\ original # NoId => ~(Running(engine, own) /\ Running(engine, original))

\* With nobody else at the engine, it takes two mishaps before two containers
\* of the service run: a single failure never leaves the old and the new
\* version serving together, not even across restarts of the daemon.
SingleInstance ==
    faults < 2 => Cardinality({id \in Ids : Running(engine, id)}) <= 1

\* Every backup that is not the one in use was left behind by a mishap of its
\* own: a deployment that meets none leaves none.
BackupsAccountedFor ==
    Cardinality({id \in Ids : Backup(id)} \ {original}) <= faults

\* A manifest tells what its container was created from, as long as that
\* container exists: checkExists relies on it (save, checkExists).
ManifestFaithful ==
    manifest \in Manifest /\ Present(engine, manifest.id) =>
        /\ engine[manifest.id].options = manifest.options
        /\ engine[manifest.id].image = manifest.image

\* When Deploy succeeds, the container that has the service's name was created
\* from the configuration, the manifest says so, and the one it replaced is gone.
DeployedConsistent ==
    pc = "done" /\ result = "deployed" =>
        /\ own = IdOf(engine, ServiceName)
        /\ engine[own].options = config.options /\ engine[own].image = config.image
        /\ manifest = [id |-> own, options |-> config.options, mounts |-> config.mounts,
                       image |-> config.image]
        /\ original # NoId => ~Present(engine, original)

\* DeploymentNotChangedErr is only returned when the service's container runs
\* with the args, environment and ports of the configuration, whatever happened
\* to the engine and to ci.yaml since the manifest was written.
NotChangedSound ==
    [][pc # "done" /\ pc' = "done" /\ result' = "notChanged" =>
         LET id == IdOf(engine, ServiceName)
         IN  Running(engine, id) /\ engine[id].options = config.options]_vars

\* What is started does not run: on a container that runs already
\* EnsureContainerRunning would call itself without end (container.go:390).
StartsStopped ==
    /\ pc = "start" => ~Running(engine, own)
    /\ pc = "recoverStart" => ~Running(engine, original)

\* The service is only touched, and its container only created, with the image
\* at hand: a pull that did not bring it costs nothing (ensureImage before run).
ImageAtHand ==
    pc \in {"exists", "inspect", "stop", "rename", "create"} => config.image \in images

\* A deployment never stumbles over what it or an earlier one did: from
\* checkExists to save the engine can do all that is asked of it, and only a
\* mishap makes the deployment fail or turn back (Deploy, run).
FailsByMishapOnly ==
    [][(/\ pc \notin Rollback \cup {"idle", "done"}
        /\ pc' \in Rollback \/ (pc' = "done" /\ result' = "failed"))
            => faults' > faults]_vars

\* Nor does a rollback with something to purge: each request of it fails by a
\* mishap of its own or takes effect, up to the original running again under
\* the service's name (purge, recover).
RollbackWorks ==
    [][(/\ pc \in Rollback /\ pc' \in {"recoverStart", "done"} \ {pc} /\ faults' = faults
        /\ purging # NoId /\ original # NoId)
            => (IF pc = "recoverStart" THEN Running(engine', original)
                                       ELSE original = IdOf(engine', ServiceName))]_vars

\* What a deployment is to those who use the service (ServiceUpdate): what the
\* container with the service's name was created with, the same of the one put
\* aside for it, and how far the deployment is.
Current ==
    LET id == IdOf(engine, ServiceName)
    IN  IF id = NoId THEN NoId ELSE engine[id].options

Aside ==
    IF Present(engine, original) /\ engine[original].name # ServiceName
    THEN engine[original].options
    ELSE NoId

Phase ==
    CASE pc \in {"idle", "done"} -> pc
      [] pc \in Trial -> "trying"
      [] pc \in Rollback -> "undoing"
      [] pc \in Dispose \cup {"save"} -> "accepted"
      [] OTHER -> "preparing"

Update == INSTANCE ServiceUpdate
              WITH None <- NoId, wanted <- config.options, current <- Current,
                   aside <- Aside, phase <- Phase, outcome <- result

\* As long as others leave the engine alone while a deployment runs, it keeps
\* those promises, whatever fails.
Implements == Update!Spec

\* Whatever others do to the engine meanwhile, the daemon removes the container
\* it put aside only after the new one was judged good.
OriginalRemovedLast ==
    [][pc' # pc /\ pc # "disposeRemove" /\ original # NoId =>
         (Present(engine, original) => Present(engine', original))]_vars

\* Once nothing more goes wrong, a rollback that has something to purge gives
\* the service's name back to the container that had it (OnError, recover).
RollbackRestores ==
    (pc = "purge" /\ purging # NoId /\ original # NoId /\ faults = MaxFaults) ~>
        (pc = "done" /\ original = IdOf(engine, ServiceName))

\* The images listed under their name when their ref is pulled are pulled once:
\* EnsureImage, which calls itself after a pull, does not do so for ever.
ImageSettles ==
    (pc = "ensureImage" /\ config.image \notin Elsewhere) ~>
        (pc \notin {"ensureImage", "pullImage"})

\* Mishaps do not wedge the service: a daemon that is started again and again
\* deploys it, or finds it deployed, again and again, unless the manifest it
\* left is unreadable.
Converges ==
    []<>(pc = "checkExists") => []<>(result \in {"deployed", "notChanged"})

-----------------------------------------------------------------------------
(* What the repository says of the program, and the program does not do *)

\* README.md:5, "before a container is started, scan whether its configuration
\* changed": a deployment reported as unchanged runs the configured image.
ImageDeployed ==
    [][pc # "done" /\ pc' = "done" /\ result' = "notChanged" =>
         engine[IdOf(engine, ServiceName)].image = config.image]_vars

\* README.md:6, "after the start, the corresponding configuration is saved in
\* the file": the file describes the container, its mounts included.
MountsDeployed ==
    pc = "done" /\ result = "deployed" => engine[own].mounts = manifest.mounts

\* deployment.go:125 and :251, "rolling update" and "recover starting": after a
\* deployment that failed, a service that had a container still has one.
ServiceSurvivesFailure ==
    pc = "done" /\ result = "failed" /\ prior # NoId => ~NameFree(engine, ServiceName)
=============================================================================
