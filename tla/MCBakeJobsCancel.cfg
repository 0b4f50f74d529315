SPECIFICATION Spec
CONSTANTS
    p1 = p1
    p2 = p2
    j1 = j1
    j2 = j2
    r1 = r1
    r2 = r2
    Projects = {p1}
    Jobs = {j1}
    ProjectOf <- OneProjectOneJob
    Requests = {r1, r2}
    MaxClaims = 1
    MaxModels = 1
    MaxExports = 1
    None = None
SYMMETRY SameRequests
PROPERTY CompletedStays
CHECK_DEADLOCK FALSE
