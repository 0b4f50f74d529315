SPECIFICATION MCSpec
CONSTANTS
    Requests = {r1, r2}
    Reports = {x1, x2, p3}
    Links = {l1}
    MaxDownloads = 2
    Designs = {x1, x2}
    Keep = 1
    MaxRevisions = 2
    MaxVersions = 3
    MaxModels = 1
    Models = {x1, x2}
    Thumbnails = {}
    RestoreDays = 1
    None = None
SYMMETRY Symmetry
INVARIANTS LadderStepwise RevisionsChain ExportsKept
    CanonicalStored
PROPERTY SharingPromiseSpec
CHECK_DEADLOCK FALSE
