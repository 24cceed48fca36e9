CONSTANTS
    i1 = i1  i2 = i2  i3 = i3  i4 = i4  b1 = b1  b2 = b2  b3 = b3
    Ids = {i1, i2, i3}
    BackupNames = {b1, b2}
    ServiceName = service
    Options = {old}
    NoMounts = nomounts
    MountSets = {nomounts, data}
    Images = {image}
    Absent = Absent
    NoId = NoId
    NoManifest = NoManifest
    Torn = Torn
    Corrupt = Corrupt
    Elsewhere = {}
    Operator = "never"
    MaxFaults = 0
SPECIFICATION Spec
SYMMETRY Symmetry
INVARIANT MountsDeployed
