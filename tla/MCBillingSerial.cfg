SPECIFICATION Spec
CONSTANTS
    i1 = i1
    i2 = i2
    r1 = r1
    r2 = r2
    None = None
    Invoices <- TwoInvoices
    Requests <- OneRequest
    Cycle = 2
    Grace = 1
    MaxTier = 2
    MaxTime = 4
    MaxReceipts = 2
SYMMETRY Interchangeable
INVARIANT RefundBounded
INVARIANT RefundEndsPlan
INVARIANT GraceAfterExpiry
PROPERTY TransactionMoves
PROPERTY PlanDelivered
