SPECIFICATION Spec
CONSTANTS
    h1 = h1
    h2 = h2
    h3 = h3
    b1 = b1
    b2 = b2
    p1 = p1
    p2 = p2
    None = None
    Handlers <- TwoHandlers
    Bills <- OneBill
    Payments <- TwoPayments
    MaxAmount = 1
    Charges <- Two
    Discounts <- ZeroToOne
    Ops <- WritingOps
SYMMETRY Symmetry
INVARIANTS
    TypeOK
    LedgerExact
    BalanceExact
    TotalExact
    StatusExact
PROPERTY AcceptedWithinDue
