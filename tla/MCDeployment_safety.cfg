CONSTANTS
    i1 = i1  i2 = i2  i3 = i3  i4 = i4  b1 = b1  b2 = b2  b3 = b3
    Ids = {i1, i2, i3, i4}
    BackupNames = {b1, b2}
    ServiceName = service
    Options = {old, new}
    NoMounts = nomounts
    MountSets = {nomounts}
    Images = {image, other}
    Absent = Absent
    NoId = NoId
    NoManifest = NoManifest
    Torn = Torn
    Corrupt = Corrupt
    Elsewhere = {other}
    Operator = "idle"
    MaxFaults = 3
SPECIFICATION Spec
SYMMETRY Symmetry
INVARIANTS TypeOK OriginalKept NoOverlap BackupsAccountedFor ManifestFaithful DeployedConsistent StartsStopped ImageAtHand
PROPERTIES NotChangedSound Implements FailsByMishapOnly RollbackWorks
