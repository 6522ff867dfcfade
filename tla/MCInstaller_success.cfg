SPECIFICATION Spec
CONSTANTS
    delivered = delivered
    newer = newer
    rebuilt = rebuilt
    unsigned = unsigned
    undescribed = undescribed
    web1 = web1
    web2 = web2
    Uploaders = {web1, web2}
    FileCount = 2
    Packages = {delivered, newer, rebuilt, unsigned, undescribed}
    VersionOf <- MCVersionOf
    Unsigned = {unsigned}
    Undescribed = {undescribed}
    FirstPackage = delivered
    None = None
    Torn = Torn
    MaxUploads = 1
    MaxCrashes = 0
CHECK_DEADLOCK FALSE
PROPERTY SuccessMeansInstalled
