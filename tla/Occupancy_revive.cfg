SPECIFICATION Spec
CONSTANTS
    h1 = h1
    h2 = h2
    a1 = a1
    a2 = a2
    u1 = u1
    u2 = u2
    t1 = t1
    t2 = t2
    None = None
    Handlers <- OneHandler
    Agreements <- TwoAgreements
    Units <- OneUnit
    Tenants <- TwoTenants
    OpeningStatuses <- Vacant
    HandStatuses <- NoStatus
    Past <- NoStatus
    Targets <- ToRevived
    UnitFields <- Keep
    TenantFields <- Keep
    Ops <- Letting
INVARIANT NoOverlap
