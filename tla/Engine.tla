------------------------------- MODULE Engine -------------------------------
(***************************************************************************)
(* The containers a docker engine holds, as far as docker/container.go     *)
(* sees and changes them through the engine's HTTP interface.  The engine  *)
(* itself is not part of the repository: these operators say what the      *)
(* calls the daemon makes do to it.                                        *)
(*                                                                         *)
(* An engine is a function from container ids to the container's record,   *)
(* or to Absent.  Only what the daemon's decisions depend on is kept:      *)
(* the name, whether it runs, and the three things it was created from.    *)
(***************************************************************************)
EXTENDS FiniteSets

CONSTANTS
    Ids,            \* container ids
    ServiceName,    \* the name the service's container must have
    BackupNames,    \* "<ServiceName>-<yyyymmddhhmmss>", given while updating
    Options,        \* args, environment and ports together: what Equals compares
    MountSets,      \* volume bindings
    NoMounts,       \* the empty volume binding
    Images,         \* an image name together with the image id it resolves to
    Absent,         \* no such container
    NoId            \* a nil id

Names == {ServiceName} \cup BackupNames

Container == [name: Names, running: BOOLEAN,
              options: Options, mounts: MountSets, image: Images]

ASSUME EngineAssumption ==
    /\ ServiceName \notin BackupNames
    /\ NoMounts \in MountSets
    /\ Absent \notin Container
    /\ NoId \notin Ids

EngineType == [Ids -> Container \cup {Absent}]

Present(eng, id) == id \in Ids /\ eng[id] # Absent

Running(eng, id) == Present(eng, id) /\ eng[id].running

Holders(eng, name) == {id \in Ids : Present(eng, id) /\ eng[id].name = name}

\* The engine refuses to create or rename a container into a name in use.
NameFree(eng, name) == Holders(eng, name) = {}

\* (mutant: stopped containers are not listed)
RunningIdOf(eng, name) ==
    LET found == {id \in Holders(eng, name) : eng[id].running}
    IN  IF found = {} THEN NoId ELSE CHOOSE id \in found : TRUE

\* Container.EnsureID without a cached id.  The engine's name filter returns
\* every container whose name contains the wanted one - a backup's name does -
\* and the daemon keeps the one whose name is exactly it.
IdOf(eng, name) ==
    IF Holders(eng, name) = {} THEN NoId ELSE CHOOSE id \in Holders(eng, name) : TRUE

\* Stop and start are idempotent in the engine (304 Not Modified).
Stopped(eng, id) == [eng EXCEPT ![id].running = FALSE]
Started(eng, id) == [eng EXCEPT ![id].running = TRUE]
Renamed(eng, id, name) == [eng EXCEPT ![id].name = name]
Removed(eng, id) == [eng EXCEPT ![id] = Absent]
Created(eng, id, container) == [eng EXCEPT ![id] = container]
=============================================================================
