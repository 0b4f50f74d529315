SPECIFICATION Spec
CONSTANTS
    i1 = i1
    i2 = i2
    r1 = r1
    r2 = r2
    None = None
    Invoices <- TwoInvoices
    Requests <- TwoRequests
    Cycle = 2
    Grace = 1
    MaxTier = 1
    MaxTime = 4
    MaxReceipts = 4
SYMMETRY Interchangeable
PROPERTY PlanDelivered
