SPECIFICATION Spec
CONSTANTS
    h1 = h1
    h2 = h2
    a1 = a1
    a2 = a2
    u1 = u1
    u2 = u2
    t1 = t1
    t2 = t2
    None = None
    Handlers <- TwoHandlers
    Agreements <- TwoAgreements
    Units <- TwoUnits
    Tenants <- OneTenant
    OpeningStatuses <- Vacant
    HandStatuses <- ByHand
    Past <- NoStatus
    Targets <- ToEnded
    UnitFields <- TwoUnits
    TenantFields <- Keep
    Ops <- Moving
SYMMETRY Symmetry
INVARIANTS LeasesExclusive OccupancyExact
