SPECIFICATION Spec
CONSTANTS
    i1 = i1
    i2 = i2
    s1 = s1
    f1 = f1
    r1 = r1
    r2 = r2
    None = None
    Invoices = {i1}
    Scans = {s1}
    Calls = {f1}
    Requests = {r1, r2}
    Limits = {0, 1, 2}
    MaxPerCycle = 2
    Validity = 1
    MaxCycle = 2
    MaxTime = 1
SYMMETRY Interchangeable
INVARIANT ChargedOnce
