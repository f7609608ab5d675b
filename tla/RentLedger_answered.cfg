SPECIFICATION FairSpec
CONSTANTS
    h1 = h1
    h2 = h2
    h3 = h3
    b1 = b1
    b2 = b2
    p1 = p1
    p2 = p2
    None = None
    Handlers <- ThreeHandlers
    Bills <- OneBill
    Payments <- TwoPayments
    MaxAmount = 1
    Charges <- Two
    Discounts <- Zero
    Ops <- PaymentOps
PROPERTY RequestsEnd
