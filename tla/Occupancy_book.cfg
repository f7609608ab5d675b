SPECIFICATION ApartSpec
CONSTANTS
    h1 = h1
    h2 = h2
    a1 = a1
    a2 = a2
    u1 = u1
    u2 = u2
    t1 = t1
    t2 = t2
    None = None
    Handlers <- TwoHandlers
    Agreements <- TwoAgreements
    Units <- TwoUnits
    Tenants <- TwoTenants
    OpeningStatuses <- VacantOrOccupied
    HandStatuses <- ByHand
    Past <- NoStatus
    Targets <- ToEnded
    UnitFields <- AnyUnit
    TenantFields <- AnyTenant
    Ops <- AllOps
SYMMETRY Symmetry
INVARIANT NoOverlap
PROPERTY ImplementsLeaseBook
