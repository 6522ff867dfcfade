SPECIFICATION Spec
CONSTANTS
    delivered = delivered
    newer = newer
    rebuilt = rebuilt
    unsigned = unsigned
    undescribed = undescribed
    web1 = web1
    web2 = web2
    Uploaders = {web1, web2}
    FileCount = 2
    Packages = {delivered, newer, rebuilt, unsigned, undescribed}
    VersionOf <- MCVersionOf
    Unsigned = {unsigned}
    Undescribed = {undescribed}
    FirstPackage = delivered
    None = None
    Torn = Torn
    MaxUploads = 2
    MaxCrashes = 2
SYMMETRY Symmetry
CHECK_DEADLOCK FALSE
INVARIANT InstallerTypeOK
INVARIANT LinkedIsWhole
INVARIANT MissingOnlyInBetween
INVARIANT CleanWhenIdle
PROPERTY SuccessIsComplete
