# Verification of go-micro-ci-daemon

TLA+ models of the daemon that reads a `ci.yaml`, deploys its *third services* as docker
containers one after the other, and then serves an RPC interface; the runs in which TLC checks
them; and proofs that their most important properties hold for every value of the constants.

`deployment.go`, `container.go`, ... are the files under `src/ci/deployments` and `src/docker`;
`common` is `src/vendor/github.com/alydnh/go-micro-ci-common`, the project's own library.

## 1. The system

| Part | Code | State | Operations | Hard behaviour | Model |
|---|---|---|---|---|---|
| daemon startup | `main.go` | the call of the chain that comes next, the loop index | `main`, `ensureCIDirectories`, `initializeCI`, `checkDockerVersion`, `ensureDockerNetwork`, `deploy`, `run` | a failure anywhere ends the run with an exit code, and the next run starts from what is left | `Daemon` |
| docker network | `utils.go:25` | the engine's networks | `EnsureNetworkMode` | the filter matches partial names; creating it ends the run | `Daemon` |
| ci.yaml | `common/yaml/ci.go:135`, `service.go` | two maps of services, a snapshot of each that has a base service | `Initialize`, `Service.Initialize`, `Clone`, `ApplyBaseService` | the loops over Go maps change the services they look at | `CIConfig` |
| dependency ordering | `common/yaml/depends_on.go`, `ci.go:231` | unprocessed, processed, the chain of calls | `processDependsOn` and the loop around it | cycles, duplicates, unknown names | `DependsOn`, in `CIConfig` and `Daemon` |
| service deployment | `deployment.go` | the container, the original container, the manifest | `FromService`, `Deploy` = `checkExists`, `ensureImage`, `run`, `purge`, `save`; `recover` | rollback after any failing step, crashes, somebody else at the engine | `Deployment` |
| container client | `container.go` | one cached id per `Container` | `EnsureID`, `EnsureContainer`, `EnsureContainerRunning`, `Rename`, `StopAndRename`, `Purge`, `Attach`, `WaitExitOrRemoved` | a cached id is believed without asking | `Deployment`, `Engine`, `StartWatch` |
| docker engine | external | containers by id, names unique | create, start, stop, rename, remove, inspect, list | requests that fail before or after they took effect | `Engine` |
| start watch | `deployment.go:145-214`, `container.go:474-675`, `streams.go` | two unbuffered channels, an error channel, a context, a line counter | `Attach`, `holdHijackedConnection`, `StdCopy`, `ConditionWriter.Write`, `WaitExitOrRemoved` | four goroutines, a deadline, keywords, events and exits that race | `StartWatch`, `StartVerdict` |
| manifest | `common/yaml/deployment.go` | `.ci/deployments/<service>` | `ReadDeployment`, `Equals`, `SaveToFile` | not written atomically; read against an engine that changed | in `Deployment` |
| call chain | `common/logs/logrus_scope.go` | the last error | `Call`, `Then`, `Handle`, `OnError` | panics become errors in `Call` and `Then` | in the control of `Deployment` and `Daemon` |
| stream demultiplexer | `utils.go:94` | a buffer that grows, how much of it is in use | `StdCopy` | frames that straddle reads, EOF with data, a frame larger than the buffer | `StdCopy`, `FrameStream`; frame by frame in `StartWatch` |
| environment, credentials | `ci/types.go` | none | `GetServiceEnvironments`, `GetCredential` | precedence; what they dereference | no (section 5) |
| image pull | `container.go:269`, `json_message.go` | the engine's images | `EnsureImage` | list, pull, list again, recursively; failures inside a stream that began well | in `Deployment` |
| the rest | `in.go`, `out.go`, `tty.go`, `registry.go`, `ci/service.go`, `proto/`, `image/build`, `deployments/deployment.go`, `types/` | | | | no: terminal modes, option values, one constant handler, generated or unused code |

How they interact: `main` opens `ci.yaml` (which puts the services in order), makes sure of the
network, and calls `FromService(name).Deploy()` for each third service in turn. A deployment
talks to the engine through one or two `Container` objects, and inside `run` it starts the
goroutines of the start watch, whose only result is a verdict: container good, or error. The
manifest is the only state that outlives a run, apart from what the engine holds.

What makes each part correct: a *deployment* never loses the container it replaces before the
new one is good, never lets both run, reports "not changed" only when that is true, writes a
manifest that is true, and recovers from mishaps when it is run again. The *start watch* gives
one verdict with a reason for it, always, and promptly. The *demultiplexer* delivers whole frames
in order however the connection is cut into reads. *ci.yaml* is accepted or refused for what it
says, not for the order of a map, and services inherit what they do not say. The *ordering* is
topological and complete, or refuses with a reason. The *daemon* deploys in that order, serves only after
everything was deployed, and does get to serve.

## 2. The modules

`Engine` (operators, no variables) — what docker's API does to the containers. An engine is a
function from ids to a container's record (name, running, and what it was created from:
options, mounts, image) or `Absent`. `IdOf` is `Container.EnsureID` without a cached id.

`Deployment` (EXTENDS `Engine`) — one service, deployed again and again.
`pc` is the next request; each action is one request to the engine, or one access to the
manifest, with all the code up to the next one. `own` is `*d.container.id`, `original` the id of
`d.originalContainer`, `purging` the local of `Purge`. Requests follow `Answered` (legal, took
effect) or `Refused` (illegal, or the connection broke before or after the effect).

| phase | code |
|---|---|
| `idle` → `checkExists` | `FromService` reads the manifest |
| `checkExists`, `checkInspect` | `checkExists`; its two inspections of one container are one step |
| `ensureImage`, `pullImage` | `ensureImage`, `Container.EnsureImage` and its call of itself |
| `exists`, `inspect`, `stop`, `rename` | `run` up to `StopAndRename` |
| `create`, `attach`, `start`, `verdict` | the rest of `run` |
| `purge`, `purgeStop`, `purgeRemove`, `recoverRename`, `recoverStart` | `OnError` of `run` |
| `disposeStop`, `disposeRemove`, `save` | the tail of `Deploy` |

Two points of the code that are easy to get wrong are in the model: the original container has
no `originalContainer` until `StopAndRename` returned, so an earlier failure purges the original
itself (`OnError`); and `Purge` remembers the id *before* `StopAndRename`, so without a cached
id it dereferences nil and the panic ends the rollback (`PurgeRemove`). The argument
`d.originalContainer` of `Deploy`'s second `purge` is read after `run` returned, which is what
the gc compiler does with `a.f().g(x.y)`; the language leaves it open.

The engine's `images` are those it lists under the configured name. A pull adds the image, unless
its ref is one that is not listed under that name (`Elsewhere`), and then `EnsureImage` pulls
again, for ever. A pull may break in the middle, with the image there or not (`PullBreaks`).

`ServiceUpdate` — what a deployment promises to those who use the service, in five variables: what
is configured, what the container with the service's name was created with, the same of the one
put aside, the phase, the outcome. There is one container to reach at most, a new one takes the
name only when the old one is aside, the old one is given up only after the new one was accepted,
what a rollback puts back is what was put aside, and "deployed" and "not changed" are said of
what is configured. `Deployment` implements it as long as others leave the engine alone while a
deployment runs (`Implements`, with `Current`, `Aside` and `Phase` computed from the engine and
`pc`). What is put aside is remembered by the process alone, so a crash gives it up (`Leave`).

`StartWatch` — main (`run`), hold, copier and waiter, the container that writes frames of lines
on two streams, and the clock. An unbuffered channel is a step of sender and receiver together.
Of a line only the keywords in it matter (`success`, `fail`); a frame may end in part of a line.
`seen` is history: the reasons for a verdict there are. `StartVerdict` is the abstract
specification — at most one verdict, and none without a reason — and `StartWatch` is shown to
implement it with `seen` and `outcome` as they are (`Refines`).

The container's events are asked for before it is started (`Subscribed`), and those of the past
are not sent: that order is why `OutputEndsRun` holds.

`StdCopy` — the two read loops, the header, the growth of the buffer, the write and the move of
what is left, on a wire of cells. The header is three parts that may be of any length: the stream
in the first cell, padding, the size in the last two. A read takes any number of cells that fit,
none included, and EOF may come with the last of them. `FrameStream` is the abstract
specification: a prefix of the frames on the wire, whole and in order. `StdCopy` implements it with
`next` as `received - nr`, the cells of the wire it is done with (`Delivers`). `StartWatch` relies
on this when it takes a frame at a time.

`DependsOn` — the recursion of `processDependsOn` as an explicit stack of calls, below the loop
of `Initialize`.

`CIConfig` (EXTENDS `DependsOn`) — all of `CI.Initialize`: credentials, the third services and
their base services, the other services and theirs, then the ordering. Each loop over a map takes
its services in any order (`todo`). A field holds the service whose entry gave it its value, so
that one can see where it comes from; `env` stands for every field that is inherited when it is
empty (tags, build, args, env, mounts, ports, data sources), `valid` for the checks of single
fields, and `clash` for a name that is in both maps. `unprocessed` is full from the start, since
nothing reads it before the loops that fill it have ended. `ApplyBaseService` leaves a service
without the `disableCommonEnv` and the image of its own entry, which `InheritsUnlessSet` states as
the code does it.

`Daemon` (INSTANCEs `DependsOn`) — runs of the daemon, one after the other. It composes the
ordering with the network and the deploy loop. A deployment is its outcome only: the service is
up, or the run ends with exit code 2, and then the service may have lost its container, or has the
new one running although removing the old one, `save` or a purge failed. That these are the
outcomes is read off `Deployment`, not proved.

`DeploymentProofs`, `DeploymentPromises`, `DeploymentImplements`, `StartWatchProofs`,
`StdCopyProofs`, `DependsOnProofs`, `CIConfigProofs` and `DaemonProofs` hold the theorems.
`MCDeployment`, `MCStartWatch`, `MCStdCopy`, `MCCIConfig` and `MCDaemon` hold the values of the
constants for TLC.

Definitions marked `(mutant: ...)` are faulty variants of the definition below them; each
property is known to fail when its variant takes the place of the definition.

## 3. What TLC checks

| run | instance | shows |
|---|---|---|
| `deployment_safety` | 4 ids, 2 backup names, 2 configurations, an image that is listed and one that is not, 3 mishaps, others act between deployments | `Implements`, `OriginalKept`, `NoOverlap`, `BackupsAccountedFor`, `ManifestFaithful`, `DeployedConsistent`, `NotChangedSound`, `StartsStopped`, `ImageAtHand`, `FailsByMishapOnly`, `RollbackWorks` |
| `deployment_meddle` | 1 mishap, others act between any two requests | `OriginalRemovedLast` |
| `deployment_live` | nobody else, 3 backup names, 2 mishaps, no symmetry | `SingleInstance`, `RollbackRestores`, `Converges`, `ImageSettles` |
| `watch` | 2 frames out of 8, 2 lines allowed, with and without a deadline | `FirstMatchDecides`, `Refines`, `RunIsAnswered`, `VerdictReached`, `ResultEndsRun`, `OutputEndsRun` |
| `stdcopy` | up to 3 frames of 6 kinds, cut anywhere, a buffer of 6 cells | `Delivers`, `NothingLost`, `RoomToRead`, `Terminates` |
| `initialize` | 4 services, 2 of them third; base services of either kind; dependsOn of up to 2 of 4 names | `OneVerdict`, `InheritsUnlessSet`, `EveryServiceHasAnImage`, `TopologicalOrder`, `EachOnce`, `RefusedForAReason`, `Advances`, `Decides` |
| `daemon` | 3 services, dependsOn of up to 1 of 4 names, 2 mishaps, one name clash | `InOrder`, `ServesAll`, `Serves` |

The type invariants are checked in `deployment_safety`, `stdcopy` and `daemon`; those of
`StartWatch` and `CIConfig` are only proved, and so are `DepthBounded` and `EveryTurnCounts`, which
are defined where they are proved.

Where the code does not do what the repository says, a run shows it:

| run | what the code does | what is said |
|---|---|---|
| `deployment_survives` | a failure while inspecting, stopping or renaming the original purges the original; a failure to create the new one skips `recover` | `deployment.go:125` "rolling update", `:251` "recover starting" |
| `deployment_image` | an image that changed in `ci.yaml` is "not changed" | `README.md:5` |
| `deployment_mounts` | mounts are recorded in the manifest and never given to the container | `README.md:6` |
| `watch_blocks` | with timeout `0s`, `run` waits for the connection although the waiter has the result | `container.go:575` "must always send an exit code or the caller will block" |
| `daemon_variables` | a `ci.yaml` without variables is not initialised, and nothing is deployed | `README.md:43` |

### Bounds

*Mishaps* (`MaxFaults`: crashes, failed requests, rejected starts, removed networks). Two are
what it takes to fail during the recovery from a failure; three let that happen across two
restarts. *Ids*: a deployment refers to four containers at most (recorded, own, original,
somebody else's); an id is given again only when nothing refers to it, and Begin waits for a free
one. *Backup names*: two, so that a second update can leave a backup beside the one
a mishap left, which is one more than `BackupsAccountedFor` allows, and three where restarts
follow; a name in use is not given again (two updates within a second fail in the code, and here
in `Refused`). *Configurations*: two, for one must differ from
the manifest; the values are compared only for equality. *Frames*: two let the copier report,
go on and report again, and let a line be cut; the line limit of two is reached by them.
*Wires*: frames that are empty, full, larger than the first buffer, of the daemon and of no known
stream; three of them give one that is cut by the end of a read, with another behind it. Cells
count to five and sizes have two digits, so that the larger frame needs both. *Services*: two of
each map can be each other's base in every way; three in a chain of dependencies give cycles of
one, two and three, and shared dependencies; the definitions of `MCCIConfig` vary base services
and dependencies in turn, not all at once. In `daemon`, three give a third service between others. Symmetry (ids, backup names) is used in safety runs only: no definition orders
them, and `IdOf` chooses among one.

`StartWatch`, `StdCopy` and `CIConfig` end, and so does a `Daemon` that serves; their runs do not ask for
deadlock freedom. `Deployment` never stops and its passing runs check that.

### Fairness

`Deployment`: `WF(Daemon)` — a process that runs sends its next request, and each one is answered
or fails some time; a started container is judged some time, which is what `VerdictReached` of
`StartWatch` shows when there is a timeout (the default is ten seconds). Starting the daemon is
not fair: `Converges` asks for convergence only if it is started again and again. Nothing others
do is fair. `StartWatch`: each goroutine that can take a step does, a channel hand-over included,
and the docker client ends the events with their context. The container, the engine and the
clock owe nothing; that deadlines come is a premise of `VerdictReached`, and `ResultEndsRun` does
without it. `StdCopy`: the connection goes on delivering until it ends; a read that brings nothing
though there is room does not count. `CIConfig`: a sequential loop goes on. `ImageSettles` needs
no more than `WF(Daemon)` for an image that is listed under its name; for one that is not, the
code does pull for ever. `Daemon`: the process goes on, and is started
again when it ended, as by a restart policy; that is the deployment's premise, not the code's.

## 4. What is proved

For all values of the constants, from the assumptions named in the modules (what the constants
are, that names and ids differ from the values that stand for none, that frames and wires are
made of what they are made of). "Undisturbed" is `Operator # "anytime"`: nobody else uses the
engine while a deployment runs.

| module | theorem | states | under |
|---|---|---|---|
| `DeploymentProofs` | `TypeCorrect` | `TypeOK` | |
| | `OriginalIsKept`, `NeverOverlap` | `OriginalKept`, `NoOverlap` | undisturbed |
| | `OriginalRemovedByDisposeOnly` | `OriginalRemovedLast` | whatever others do |
| `DeploymentPromises` | `StartsAreStopped`, `ImageIsAtHand`, `ManifestIsFaithful`, `DeployedIsConsistent`, `NotChangedIsSound`, `BackupsAreAccountedFor` | `StartsStopped`, `ImageAtHand`, `ManifestFaithful`, `DeployedConsistent`, `NotChangedSound`, `BackupsAccountedFor` | undisturbed |
| | `OnlyMishapsFail`, `RollbackSucceeds` | `FailsByMishapOnly`, `RollbackWorks` | undisturbed |
| | `OneInstance` | `SingleInstance` | `Operator = "never"` |
| `DeploymentImplements` | `ImplementsServiceUpdate` | `Implements` | undisturbed |
| `StartWatchProofs` | `TypeCorrect`, `RefinesStartVerdict`, `FirstMatchIsReported`, `NobodyWaitsInACircle` | `TypeOK`, `Refines`, `FirstMatchDecides`, `RunIsAnswered` | |
| `StdCopyProofs` | `TypeCorrect`, `ThereIsRoom`, `NothingIsLost`, `DeliversFrames`, `TurnsCount` | `TypeOK`, `RoomToRead`, `NothingLost`, `Delivers`, `EveryTurnCounts` | |
| `DependsOnProofs` | `OrderHolds` | `TopologicalOrder`, `EachOnce`, `RefusedForAReason` of `DependsOn!Spec` | |
| | `DepthIsBounded` | `DepthBounded` of `DependsOn!Spec` | `Services` is finite |
| `CIConfigProofs` | `CITypeCorrect`, `SequenceIsInOrder`, `RefusalsHaveReasons`, `OneVerdictHolds`, `Inheritance`, `ImagesAreThere` | `CITypeOK`, the same three and `OneVerdict`, `InheritsUnlessSet`, `EveryServiceHasAnImage` of `CISpec` | |
| | `EveryStepAdvances` | `Advances` | |
| | `RecursionIsBounded` | `DepthBounded` of `CISpec` | `Services` is finite |
| `DaemonProofs` | `ServesWhatItDeployed`, `DeploysInOrder` | `ServesAll`, `InOrder` | |
| | `DaemonTypeCorrect` | `TypeOK` | `Services` is finite |

None of the properties is inductive. The invariants:

*`IInv` of `DeploymentProofs`.*

- `Apart`: there is no `originalContainer` before the rename; from then on `own` and `purging`
  never name the original, and if it is there it has a backup name, so that looking up the
  service's name never finds it — what clearing the cached id in `StopAndRename` is for. This
  does not depend on others, and is why `OriginalRemovedLast` holds under any interference: the
  daemon removes only `purging`, which is not the original, and the original itself in the phase
  after the verdict.
- `Kept` (undisturbed): while the new container is tried or cleared away the original is there.
  With `Apart` this is `OriginalKept`.
- `Quiet` (undisturbed): what is about to be renamed does not run, the original does not run until
  it is recovered, and when that happens no other container is in use, whence `NoOverlap`.

Each action has its step, with one sub-step per conjunct it can disturb; `EngineEffects` and
`EngineFrame` say once what the engine's operators change and leave alone.

*`PInv` of `DeploymentPromises`* adds that names are unique in the engine, whatever anybody does,
and, undisturbed, that the daemon is never wrong about what it has cached: in each phase `own` is
the container with the service's name, or none (`KnowsOwn`), from its creation on as configured,
and the original keeps its backup name until it is disposed of or restored (`KnowsOriginal`). This
is what makes the cached id of `Container.EnsureID` harmless, and from it follows what is saved
and reported. `DeploymentImplements` maps each action to a step of `ServiceUpdate` with the same
invariant: starting and stopping are stutters (`AlikeIsTheSame`).

*`Accounted` of `DeploymentPromises`* counts. Besides the bound itself it needs that a rollback
only goes wrong by another mishap: what it purges is there and has the service's name, so that
purging it makes the name free and the rename back legal (with `Kept`); and that once no backup is
in use (`NoneInUse`) even the original is counted. The set of backups is finite because each step
adds one at most, so `Ids` need not be. *`Tame`* adds, when nobody else uses the engine at all,
that a rollback takes one mishap and a container that runs under a backup name two; since a name
has one holder, `SingleInstance` follows.

*`StillThere` of `DeploymentPromises`* adds to `PInv` that the original is there until it is disposed
of or started again. With what `PInv` says of `own`, every request is sent to a container that is
there, so none is refused for what an earlier step, of this deployment or of one before a crash,
left behind (`OnlyMishapsFail`); a backup name in use (a second update within a second) counts as
a mishap there. A rollback is only as sure as what it is given: with nothing to purge (`purging = NoId`, a failure before or in the creation) the code
panics and the original stays aside, which `deployment_survives` shows and `RollbackWorks` leaves
out by its premise; with something to purge, `RollbackSucceeds` rests on `PInv` and `Kept`.

*`IInv` of `StartWatchProofs`*: everything on its way to `run` has its reason in `seen` — what the
writers have in hand was written, the message in the copier's hand, the event that waits, the
error in `errCh`, the exit code in the waiter's; as long as the waiter waits its context ends for
the deadline or a start that failed; and the outcome is open until `run` returns. *`MatchInv`*
says that as long as nothing was reported no line that was copied has a keyword, and that each
writer has in hand what its stream's unfinished line has of keywords (`Pending`); that frames are
only added keeps what was said of the earlier ones (`WrittenStays`). *`AnswerInv`* is about who waits
for whom: the events are asked for before the start and somebody was sent to fill `errCh`
(`Ordered`), the waiter's report or a failed start ended the context (`ContextEnded`), and an end
of the output without an error, wherever the news of it has come to, is the container's, whose
event is there by then, or the context's (`EndExplained`). `RunIsAnswered` follows at once; it
does not speak of a start without a timeout that the waiter knows the result of, where run does
wait in a circle (`watch_blocks`).

*`IInv` of `StdCopyProofs`*: the buffer begins with the cells of the wire that come next
(`Aligned`), and between header and write the frame's size is what its header says and fits, with
a cell to spare (`Parsed`). From this follows that what is written is the frame on the wire, and
that each turn leaves less to do: `Rest` counts the cells to read and to deliver, and a frame makes
way for more cells than the header that is parsed next counts for.

*`OrderInv` of `DependsOnProofs`*: each call in the chain was made for the dependency its caller
is at, and every dependency a caller has passed is in the sequence already (`ChainOK`). `CIConfig`
and `Daemon` keep it as it is. *`SimpleChain`* adds that the calls in progress are for different
services, none of them processed: the chain maps into the list of unprocessed services without
meeting itself, so it is no longer than that list (`FS_PigeonHole`), and a call that returns takes
a service off the list, so that each step is nearer to the end in the order of `Nearer`, which asks of the
calls in progress that they are for services still on the list, for that is what makes it end. The test
of `SetProcessed` for a service that is not in the list never fails.

*`IInv` of `CIConfigProofs`*: each service is as written, as `Service.Initialize` leaves it, or as
`ApplyBaseService` does, and each of the three is a function of what was written and of nothing
else (`Resolution`). That is why the order of the maps makes no difference, although a base
service may be initialized before or after and is never changed by the loop over base services:
it has none itself. That a set of services none of which can come first is what a refusal means
(`WellFormed`) rests on the least position in the sequence (`NatLessThanWellFounded`, `WFMin`).

*`DInv` of `DaemonProofs`*: with `OrderInv`, the loop in `deploy` has dealt with what is before its
index; that the sequence has no repetition bounds it by the number of services (`SequenceFits`).

Every invariant and every safety property of a passing run is proved, `DependsOn`'s types as part
of `OrderInv`. Only model-checked: all liveness, which the prover cannot treat. What is proved of it
are safety halves: that every step gets nearer to the end (`Advances` for `Decides`,
`EveryTurnCounts` and `RoomToRead` for `Terminates`), that what is waited for can come
(`RunIsAnswered` for `ResultEndsRun`, `OutputEndsRun` and `VerdictReached`), that steps succeed unless
there is a mishap (`OnlyMishapsFail` for `Converges`, `RollbackSucceeds` for `RollbackRestores`).
That a step is taken at all, which needs ENABLED and fairness, stays with TLC; so do `ImageSettles`
and `Serves`.

## 5. Not modelled

Text: the YAML of `ci.yaml`, its template and the checks of single fields, the format of the
manifest, names as characters (the backup name is a member of a set), the display of pull
progress, logging. The values of bytes and of lines (in `StartWatch`, keywords only). Reading
standard input, and terminals: `run` attaches without one. Windows. `BuildImage` and what it uses,
and `src/deployments`, have no caller. A keyword that is in no part of a line but in the joined
line counts where it ends. The number of bytes `StdCopy` returns, which its caller ignores: its
comment says "`written` will hold the total number of bytes written" (`utils.go:93`), and with an
error it is 0.

`GetServiceEnvironments`, `GetServiceImageRef` and `GetCredential` (`ci/types.go`,
`credential.go`) are a few lines each that decide nothing a later step depends on; their results
are `Options`, and whether a pull succeeds. Two slips in them are text or one dereference and no
matter of states: `Match` forgets that it stripped `http://` (`credential.go:33`), and a `ci.yaml`
without `registry` makes `FromService` panic (`types.go:48`), though `registry.go:25` provides for
one. A third service may depend on a service that is not one: it is in the sequence, and `deploy`
(`main.go:99`) passes it by; `InOrder` speaks of third services only. The registry, the
version service and the generated code keep no state of the daemon's.

The chain of calls (`logrus_scope.go`) has no module: what `Call`, `Then`, `Handle` and `OnError` do
with an error or a panic is in the guards of the actions that follow it.

`EnsureContainerRunning` on a running container calls itself for ever; the model has it as a step
that is not enabled, and `StartsStopped` shows that it is never called on one, unless others start
the container in between.

## 6. How the modules depend on each other

```
Engine <- Deployment <- DeploymentProofs <- DeploymentPromises <- DeploymentImplements
              |-> ServiceUpdate
StartWatch <- StartWatchProofs            StdCopy <- StdCopyProofs
    |-> StartVerdict                          |-> FrameStream
DependsOn <- DependsOnProofs <- CIConfigProofs (with CIConfig)
    |                 ^
    |                 |-- DaemonProofs (INSTANCE, with Daemon)
    |<- CIConfig (EXTENDS)    |<- Daemon (INSTANCE)
```

`<-` is EXTENDS, `|->` an INSTANCE with a refinement mapping. What would come next: the outcomes of
`Daemon`'s `Deploy` derived from `ServiceUpdate`, so that the two are composed by their abstract
specification.
