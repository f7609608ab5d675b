----------------------------- MODULE Occupancy ------------------------------
(***************************************************************************)
(* Rental agreements, the units they let and the tenants they are let to:  *)
(* RentalAgreementsService.create, update and end, the writes of a unit's  *)
(* status and the removals in UnitsService and TenantsService.             *)
(*                                                                         *)
(* A request checks that units and tenants exist and are free in separate  *)
(* queries, then writes in a transaction (READ COMMITTED).  A row written  *)
(* by an open transaction is locked: other writers of it wait, readers see *)
(* the committed version.  One action is one query or one committed write. *)
(*                                                                         *)
(* `missed', `doubtful' and `drifted' are history variables: no guard      *)
(* reads them.                                                             *)
(***************************************************************************)
EXTENDS Naturals, FiniteSets

CONSTANTS
    Handlers,         \* requests that may be running at the same time
    Agreements,       \* ids of RentalAgreement rows, the bound on agreements made
    Units,            \* ids of Unit rows
    Tenants,          \* ids of Tenant rows
    OpeningStatuses,  \* statuses units are created with
    Past,             \* statuses of agreements from before the model starts
    HandStatuses,     \* statuses PATCH /units/:id gives
    Targets,          \* statuses PATCH /rental-agreements/:id gives; None leaves it
    UnitFields,       \* units it gives; None leaves the agreement where it is
    TenantFields,     \* tenants it gives; None leaves it with its tenant
    Ops,              \* kinds of request in the workload
    None              \* no row, field absent from a request

AgreementStatus == {"ACTIVE", "ENDED", "CANCELLED"}
UnitStatus == {"VACANT", "OCCUPIED", "MAINTENANCE", "INACTIVE"}
AllOps == {"create", "update", "end", "setUnit", "removeUnit", "removeTenant"}

ASSUME StatusAssumption ==
    /\ OpeningStatuses \subseteq UnitStatus
    /\ Past \subseteq AgreementStatus \ {"ACTIVE"}
    /\ HandStatuses \subseteq UnitStatus
    /\ Targets \subseteq AgreementStatus \cup {None}
ASSUME FieldsAssumption ==
    /\ UnitFields \subseteq Units \cup {None}
    /\ TenantFields \subseteq Tenants \cup {None}
ASSUME OpsAssumption == Ops \subseteq AllOps
ASSUME NoneAssumption ==
    None \notin Agreements \cup Units \cup Tenants
                  \cup AgreementStatus \cup UnitStatus \cup AllOps

VARIABLES
    agreement,  \* agreement[a]: the committed RentalAgreement row
    unit,       \* unit[u]: the committed status of the Unit row
    removed,    \* units and tenants whose deletedAt is set
    pc,         \* pc[h]: where handler h stands
    req,        \* req[h]: the request of h and what it has read
    missed,     \* missed[h]: facets committed by others since h looked at them
    doubtful,   \* doubtful[a]: sides on which a became active unverified
    drifted     \* units whose status was last written against their leases

vars == <<agreement, unit, removed, pc, req, missed, doubtful, drifted>>

-----------------------------------------------------------------------------
(* Rows and requests.                                                      *)

Row == [tenant : Tenants \cup {None}, unit : Units \cup {None},
        status : AgreementStatus \cup {"ABSENT"}]

NoRow == [tenant |-> None, unit |-> None, status |-> "ABSENT"]

(* The queries before the writes, in the order of the code.                *)
CreateOrder == <<"unitExists", "unitFree", "tenantExists", "tenantFree",
                 "tenantStillFree", "unitStillFree">>
UpdateOrder == <<"tenantExists", "tenantFree", "unitExists", "unitFree">>

UnitChecks == {"unitFree", "unitStillFree"}
TenantChecks == {"tenantFree", "tenantStillFree"}
Checks == UnitChecks \cup TenantChecks \cup {"unitExists", "tenantExists"}

(* unit, tenant and status are those the request names; old is the row     *)
(* findOne read; todo the queries left; vacate what the scan decided.      *)
Request == [op : AllOps \cup {None}, agr : Agreements \cup {None},
            unit : Units \cup {None}, tenant : Tenants \cup {None},
            status : AgreementStatus \cup UnitStatus \cup {None},
            old : Row, todo : SUBSET Checks, vacate : BOOLEAN]

NoRequest == [op |-> None, agr |-> None, unit |-> None, tenant |-> None,
              status |-> None, old |-> NoRow, todo |-> {}, vacate |-> FALSE]

PCs == {"idle", "checking", "marked", "placed", "decided"}

Sides == {"unit", "tenant"}
Facets == Sides \cup {"place", "state", "scan"}

ActiveOn(row, u) == row.status = "ACTIVE" /\ row.unit = u

Leased(u) == \E a \in Agreements : ActiveOn(agreement[a], u)

(* No ACTIVE agreement, a left out, on the unit or for the tenant.         *)
UnitFree(u, a) == \A x \in Agreements \ {a} : ~ActiveOn(agreement[x], u)

TenantFree(t, a) ==
    \A x \in Agreements \ {a} :
        ~(agreement[x].status = "ACTIVE" /\ agreement[x].tenant = t)

-----------------------------------------------------------------------------
(* What an update is about to do, from its fields and the row it read.     *)

TargetStatus(r) == IF r.status = None THEN r.old.status ELSE r.status

NewUnit(r) == IF r.unit = None THEN r.old.unit ELSE r.unit

ChecksUnit(r) == r.unit \notin {None, r.old.unit} /\ TargetStatus(r) = "ACTIVE"

ChecksTenant(r) == r.tenant \notin {None, r.old.tenant} /\ TargetStatus(r) = "ACTIVE"

WritesUnits(r) == r.unit # None \/ r.status # None

Occupies(r) == WritesUnits(r) /\ TargetStatus(r) = "ACTIVE"

(* Variants of a definition that carry a plausible mistake stand before it; *)
(* no specification uses them.                                             *)
ScansOnlyEnding(r) == WritesUnits(r) /\ TargetStatus(r) # "ACTIVE"

Scans(r) ==
    /\ WritesUnits(r)
    /\ NewUnit(r) # r.old.unit \/ TargetStatus(r) # "ACTIVE"

If(cond, S) == IF cond THEN S ELSE {}

UpdateChecksNoTenant(r) ==
    If(r.tenant \notin {None, r.old.tenant}, {"tenantExists"})
      \cup If(r.unit \notin {None, r.old.unit}, {"unitExists"})
      \cup If(ChecksUnit(r), {"unitFree"})

UpdateChecksNoUnit(r) ==
    If(r.tenant \notin {None, r.old.tenant}, {"tenantExists"})
      \cup If(ChecksTenant(r), {"tenantFree"})
      \cup If(r.unit \notin {None, r.old.unit}, {"unitExists"})

UpdateChecksNoExistence(r) ==
    If(ChecksTenant(r), {"tenantFree"}) \cup If(ChecksUnit(r), {"unitFree"})

UpdateChecks(r) ==
    If(r.tenant \notin {None, r.old.tenant}, {"tenantExists"})
      \cup If(ChecksTenant(r), {"tenantFree"})
      \cup If(r.unit \notin {None, r.old.unit}, {"unitExists"})
      \cup If(ChecksUnit(r), {"unitFree"})

-----------------------------------------------------------------------------
(* Locks, answers, and the history of a commit.                            *)

HoldsAgreement(g, a) == pc[g] \in {"marked", "placed", "decided"} /\ req[g].agr = a

HoldsUnit(g, u) ==
    /\ pc[g] \in {"placed", "decided"}
    /\ Occupies(req[g])
    /\ NewUnit(req[g]) = u

UnitUnlocked(h, u) == \A g \in Handlers \ {h} : ~HoldsUnit(g, u)

Respond(h) ==
    /\ pc' = [pc EXCEPT ![h] = "idle"]
    /\ req' = [req EXCEPT ![h] = NoRequest]

Forget(h) == missed' = [missed EXCEPT ![h] = {}]

(* What request g, which works on another agreement or on the same one,    *)
(* misses of a row that was `was' and becomes `row', as far as its writes  *)
(* depend on it.                                                           *)
MissedBeside(g, was, row) ==
    LET r == req[g] IN
    If(ChecksUnit(r) /\ ActiveOn(row, r.unit), {"unit"})
      \cup If(ChecksTenant(r) /\ row.status = "ACTIVE" /\ row.tenant = r.tenant, {"tenant"})
      \cup If(pc[g] = "decided" /\ ActiveOn(row, r.old.unit) # ActiveOn(was, r.old.unit),
              {"scan"})

MissedSame(g, was, row) ==
    LET r == req[g] IN
    If(WritesUnits(r) /\ row.unit # was.unit, {"place"})
      \cup If(WritesUnits(r) /\ r.status = None /\ row.status # was.status, {"state"})

Publish(h, a, row) ==
    missed' = [g \in Handlers |->
                 IF g = h THEN {}
                 ELSE IF req[g].agr = a
                      THEN missed[g] \cup MissedSame(g, agreement[a], row)
                      ELSE missed[g] \cup MissedBeside(g, agreement[a], row)]

(* Agreement a is written as `row' by h.  A side on which it becomes       *)
(* active is doubtful when the code did not query that side, or when the   *)
(* answer has been overtaken.                                              *)
Doubt(h, a, row) ==
    LET was == agreement[a]
        onUnit == IF ActiveOn(was, row.unit) THEN "unit" \in doubtful[a]
                  ELSE ChecksUnit(req[h]) => "unit" \in missed[h]
        onTenant == IF was.status = "ACTIVE" /\ was.tenant = row.tenant
                    THEN "tenant" \in doubtful[a]
                    ELSE ChecksTenant(req[h]) => "tenant" \in missed[h]
    IN  doubtful' = [doubtful EXCEPT ![a] =
          IF row.status = "ACTIVE"
          THEN If(onUnit, {"unit"}) \cup If(onTenant, {"tenant"})
          ELSE {}]

Drift(broken, rewritten) == drifted' = (drifted \ rewritten) \cup broken

-----------------------------------------------------------------------------
(* Units come from UnitsService.create with any status.  Agreements come   *)
(* from the requests below; all of them do when `Past' is empty, and       *)
(* otherwise the leases of earlier times are over.                         *)

Init ==
    /\ agreement \in [Agreements -> IF Past = {} THEN {NoRow}
                      ELSE [tenant : Tenants, unit : Units, status : Past]]
    /\ unit \in [Units -> OpeningStatuses]
    /\ removed = {}
    /\ pc = [h \in Handlers |-> "idle"]
    /\ req = [h \in Handlers |-> NoRequest]
    /\ missed = [h \in Handlers |-> {}]
    /\ doubtful = [a \in Agreements |-> {}]
    /\ drifted = {u \in Units : unit[u] = "OCCUPIED"}

-----------------------------------------------------------------------------
(* The beginning of a request.                                             *)

Begin(h, r) ==
    /\ r.op \in Ops
    /\ pc[h] = "idle"
    /\ pc' = [pc EXCEPT ![h] = "checking"]
    /\ req' = [req EXCEPT ![h] = r]
    /\ Forget(h)
    /\ UNCHANGED <<agreement, unit, removed, doubtful, drifted>>

(* POST /rental-agreements.                                                *)
CreateBegin(h, a, u, t) ==
    /\ agreement[a] = NoRow
    /\ \A g \in Handlers : req[g].agr # a
    /\ Begin(h, [op |-> "create", agr |-> a, unit |-> u, tenant |-> t,
                 status |-> "ACTIVE", old |-> NoRow, todo |-> Checks,
                 vacate |-> FALSE])

AmendRequest(op, a, u, t, s, todo) ==
    [op |-> op, agr |-> a, unit |-> u, tenant |-> t, status |-> s,
     old |-> agreement[a], todo |-> todo, vacate |-> FALSE]

(* PATCH /rental-agreements/:id: findOne, whose row decides which queries  *)
(* the rest of the handler makes.                                          *)
UpdateBegin(h, a, u, t, s) ==
    /\ agreement[a] # NoRow
    /\ Begin(h, AmendRequest("update", a, u, t, s,
                             UpdateChecks(AmendRequest("update", a, u, t, s, {}))))

(* PATCH /rental-agreements/:id/end: findOne; what follows is the          *)
(* transaction of an update to ENDED, statement for statement.             *)
EndBegin(h, a) ==
    /\ agreement[a] # NoRow
    /\ Begin(h, AmendRequest("end", a, None, None, "ENDED", {}))

(* PATCH and DELETE of a unit, DELETE of a tenant: findOne.                *)
HandRequest(op, u, t, s) ==
    [op |-> op, agr |-> None, unit |-> u, tenant |-> t, status |-> s,
     old |-> NoRow, todo |-> {}, vacate |-> FALSE]

UnitBegin(h, op, u, s) ==
    /\ u \notin removed
    /\ Begin(h, HandRequest(op, u, None, s))

RemoveTenantBegin(h, t) ==
    /\ t \notin removed
    /\ Begin(h, HandRequest("removeTenant", None, t, None))

-----------------------------------------------------------------------------
(* The queries of create and update.                                       *)

NextCheck(r, c) ==
    LET order == IF r.op = "create" THEN CreateOrder ELSE UpdateOrder IN
    \E i \in DOMAIN order :
        /\ order[i] = c
        /\ c \in r.todo
        /\ \A j \in 1..(i - 1) : order[j] \notin r.todo

Passes(r, c) ==
    CASE c = "unitExists" -> r.unit \notin removed
      [] c = "tenantExists" -> r.tenant \notin removed
      [] c \in UnitChecks -> UnitFree(r.unit, r.agr)
      [] c \in TenantChecks -> TenantFree(r.tenant, r.agr)

Check(h, c) ==
    /\ pc[h] = "checking"
    /\ NextCheck(req[h], c)
    /\ Passes(req[h], c)
    /\ req' = [req EXCEPT ![h].todo = @ \ {c}]
    /\ missed' = [missed EXCEPT ![h] = @ \ (If(c \in UnitChecks, {"unit"})
                                              \cup If(c \in TenantChecks, {"tenant"}))]
    /\ UNCHANGED <<agreement, unit, removed, pc, doubtful, drifted>>

Reject(h, c) ==
    /\ pc[h] = "checking"
    /\ NextCheck(req[h], c)
    /\ ~Passes(req[h], c)
    /\ Respond(h)
    /\ Forget(h)
    /\ UNCHANGED <<agreement, unit, removed, doubtful, drifted>>

Ready(h, op) == pc[h] = "checking" /\ req[h].todo = {} /\ req[h].op = op

-----------------------------------------------------------------------------
(* The writes of create: the new row, and the unit OCCUPIED.               *)

CreateCommit(h) ==
    LET r == req[h]
        row == [tenant |-> r.tenant, unit |-> r.unit, status |-> "ACTIVE"]
    IN
    /\ Ready(h, "create")
    /\ UnitUnlocked(h, r.unit)
    /\ agreement' = [agreement EXCEPT ![r.agr] = row]
    /\ unit' = [unit EXCEPT ![r.unit] = "OCCUPIED"]
    /\ Respond(h)
    /\ Publish(h, r.agr, row)
    /\ Doubt(h, r.agr, row)
    /\ Drift({}, {r.unit})
    /\ UNCHANGED removed

-----------------------------------------------------------------------------
(* The transaction of update and end.                                      *)

Advance(h, place) ==
    /\ pc' = [pc EXCEPT ![h] = place]
    /\ UNCHANGED <<agreement, unit, removed, doubtful, drifted>>

(* UPDATE of the agreement, which locks its row.                           *)
LockAgreement(h) ==
    /\ Ready(h, "update") \/ Ready(h, "end")
    /\ \A g \in Handlers \ {h} : ~HoldsAgreement(g, req[h].agr)
    /\ Advance(h, "marked")
    /\ UNCHANGED <<req, missed>>

(* UPDATE of the unit let to OCCUPIED, which locks its row.                *)
OccupyUnit(h) ==
    /\ pc[h] = "marked"
    /\ Occupies(req[h])
    /\ UnitUnlocked(h, NewUnit(req[h]))
    /\ Advance(h, "placed")
    /\ UNCHANGED <<req, missed>>

ScanAnyAgreement(h) ==
    LET r == req[h] IN
    /\ pc[h] = IF Occupies(r) THEN "placed" ELSE "marked"
    /\ Scans(r)
    /\ req' = [req EXCEPT ![h].vacate =
                 \A x \in Agreements \ {r.agr} : agreement[x].unit # r.old.unit]
    /\ missed' = [missed EXCEPT ![h] = @ \ {"scan"}]
    /\ Advance(h, "decided")

(* Is another ACTIVE agreement on the unit that findOne found it on?       *)
ScanOldUnit(h) ==
    LET r == req[h] IN
    /\ pc[h] = IF Occupies(r) THEN "placed" ELSE "marked"
    /\ Scans(r)
    /\ req' = [req EXCEPT ![h].vacate = UnitFree(r.old.unit, r.agr)]
    /\ missed' = [missed EXCEPT ![h] = @ \ {"scan"}]
    /\ Advance(h, "decided")

AmendedAbsentIsNone(r, row) ==
    [tenant |-> IF r.tenant = None THEN row.tenant ELSE r.tenant,
     unit   |-> IF r.unit = None THEN row.unit ELSE r.unit,
     status |-> r.status]

(* Only the fields present in the request are written to the row as it is. *)
Amended(r, row) ==
    [tenant |-> IF r.tenant = None THEN row.tenant ELSE r.tenant,
     unit   |-> IF r.unit = None THEN row.unit ELSE r.unit,
     status |-> IF r.status = None THEN row.status ELSE r.status]

AmendCommit(h) ==
    LET r == req[h]
        was == agreement[r.agr]
        row == Amended(r, was)
    IN
    /\ pc[h] = IF Scans(r) THEN "decided" ELSE IF Occupies(r) THEN "placed" ELSE "marked"
    /\ r.vacate => UnitUnlocked(h, r.old.unit)
    /\ agreement' = [agreement EXCEPT ![r.agr] = row]
    /\ unit' = [u \in Units |->
                  IF Occupies(r) /\ u = NewUnit(r) THEN "OCCUPIED"
                  ELSE IF r.vacate /\ u = r.old.unit THEN "VACANT"
                  ELSE unit[u]]
    /\ Respond(h)
    /\ Publish(h, r.agr, row)
    /\ Doubt(h, r.agr, row)
    /\ Drift(If("place" \in missed[h], {was.unit, r.old.unit, NewUnit(r)})
               \cup If("state" \in missed[h], {r.old.unit, NewUnit(r)})
               \cup If("scan" \in missed[h], {r.old.unit}),
             If(Occupies(r), {NewUnit(r)}) \cup If(r.vacate, {r.old.unit}))
    /\ UNCHANGED removed

-----------------------------------------------------------------------------
(* UnitsService.update and remove, TenantsService.remove.                  *)

(* The status given by hand drifts if it contradicts the unit's leases.    *)
WriteUnit(h, u, s) ==
    /\ UnitUnlocked(h, u)
    /\ unit' = [unit EXCEPT ![u] = s]
    /\ Respond(h)
    /\ Forget(h)
    /\ Drift(If((s = "OCCUPIED") # Leased(u), {u}), {u})
    /\ UNCHANGED <<agreement, doubtful>>

SetUnitCommit(h) ==
    /\ Ready(h, "setUnit")
    /\ WriteUnit(h, req[h].unit, req[h].status)
    /\ UNCHANGED removed

RemoveUnitCommit(h) ==
    /\ Ready(h, "removeUnit")
    /\ WriteUnit(h, req[h].unit, "INACTIVE")
    /\ removed' = removed \cup {req[h].unit}

RemoveTenantCommit(h) ==
    /\ Ready(h, "removeTenant")
    /\ removed' = removed \cup {req[h].tenant}
    /\ Respond(h)
    /\ Forget(h)
    /\ UNCHANGED <<agreement, unit, doubtful, drifted>>

(* The process dies or the connection drops: a transaction rolls back.     *)
Fail(h) ==
    /\ pc[h] # "idle"
    /\ Respond(h)
    /\ Forget(h)
    /\ UNCHANGED <<agreement, unit, removed, doubtful, drifted>>

-----------------------------------------------------------------------------

Start(h) ==
    \/ \E a \in Agreements, u \in Units, t \in Tenants : CreateBegin(h, a, u, t)
    \/ \E a \in Agreements, u \in UnitFields, t \in TenantFields, s \in Targets :
          UpdateBegin(h, a, u, t, s)
    \/ \E a \in Agreements : EndBegin(h, a)
    \/ \E u \in Units, s \in HandStatuses : UnitBegin(h, "setUnit", u, s)
    \/ \E u \in Units : UnitBegin(h, "removeUnit", u, None)
    \/ \E t \in Tenants : RemoveTenantBegin(h, t)

Continue(h) ==
    \/ \E c \in Checks : Check(h, c) \/ Reject(h, c)
    \/ CreateCommit(h)
    \/ LockAgreement(h)
    \/ OccupyUnit(h)
    \/ ScanOldUnit(h)
    \/ AmendCommit(h)
    \/ SetUnitCommit(h)
    \/ RemoveUnitCommit(h)
    \/ RemoveTenantCommit(h)

Next == \E h \in Handlers : Start(h) \/ Continue(h) \/ Fail(h)

Spec == Init /\ [][Next]_vars

(* The statement that h would make next waits for a row locked by another. *)
AwaitsAgreement(h) ==
    /\ Ready(h, "update") \/ Ready(h, "end")
    /\ \E g \in Handlers \ {h} : HoldsAgreement(g, req[h].agr)

AwaitsUnit(h) ==
    \/ Ready(h, "create") /\ ~UnitUnlocked(h, req[h].unit)
    \/ pc[h] = "marked" /\ Occupies(req[h]) /\ ~UnitUnlocked(h, NewUnit(req[h]))
    \/ pc[h] = "decided" /\ req[h].vacate /\ ~UnitUnlocked(h, req[h].old.unit)

TimeOutOnAgreement(h) ==
    /\ AwaitsAgreement(h)
    /\ Fail(h)

(* A transaction waiting too long is rolled back: by PostgreSQL when the   *)
(* waits form a cycle, by Prisma's timeout of interactive transactions     *)
(* otherwise.                                                              *)
TimeOut(h) ==
    /\ AwaitsAgreement(h) \/ AwaitsUnit(h)
    /\ Fail(h)

(* An awaited query is answered; the waiters of a row are served in turn,  *)
(* hence strong fairness; a transaction does not wait for ever.  Nothing   *)
(* makes a client send a request.                                          *)
FairSpec ==
    /\ Spec
    /\ \A h \in Handlers : SF_vars(Continue(h)) /\ WF_vars(TimeOut(h))

(* What a request concerns: the agreement, unit and tenant it names, and   *)
(* those of the agreement it amends.  A status given to a unit by hand     *)
(* concerns nobody's lease.  Apart, requests that run at the same time     *)
(* concern nothing in common.                                              *)
Concerns(h) ==
    LET r == req[h] IN
    IF r.op = "setUnit" THEN {}
    ELSE {r.agr, r.unit, r.tenant, r.old.unit, r.old.tenant} \ {None}

Apart == \A g, h \in Handlers : g # h => Concerns(g) \cap Concerns(h) = {}

ApartSpec == Init /\ [][Next /\ Apart']_vars

-----------------------------------------------------------------------------
(* Properties.                                                             *)

(* Every variable has its type.                                            *)
TypeOK ==
    /\ agreement \in [Agreements -> Row]
    /\ unit \in [Units -> UnitStatus]
    /\ removed \subseteq Units \cup Tenants
    /\ pc \in [Handlers -> PCs]
    /\ req \in [Handlers -> Request]
    /\ missed \in [Handlers -> SUBSET Facets]
    /\ doubtful \in [Agreements -> SUBSET Sides]
    /\ drifted \subseteq Units

(* No unit is let twice and no tenant rents twice at the same time, except *)
(* by an agreement that became active without the query for it (an update  *)
(* that re-activates an agreement where it is) or beside another commit    *)
(* that the query could not see (write skew under READ COMMITTED).         *)
LeasesExclusive ==
    \A a, b \in Agreements :
        /\ a # b
        /\ agreement[a].status = "ACTIVE"
        /\ agreement[b].status = "ACTIVE"
        =>
        /\ agreement[a].unit = agreement[b].unit
             => "unit" \in doubtful[a] \cup doubtful[b]
        /\ agreement[a].tenant = agreement[b].tenant
             => "tenant" \in doubtful[a] \cup doubtful[b]

(* A unit is OCCUPIED exactly when it has an ACTIVE agreement, through any  *)
(* history of signing, moving, re-activating and ending, and also with two *)
(* agreements on one unit; unless it was last set by hand against its      *)
(* leases, or by a transaction whose agreement was moved or re-decided, or *)
(* whose look at the unit's other agreements was overtaken, before it wrote.*)
OccupancyExact ==
    \A u \in Units : u \notin drifted => (unit[u] = "OCCUPIED" <=> Leased(u))

(* Every request ends, although two updates that move agreements into each *)
(* other's units wait for each other's rows.                               *)
RequestsEnd == \A h \in Handlers : pc[h] # "idle" ~> pc[h] = "idle"

(* "overlap prevention" (README.md:36), for which create asks "Re-verify   *)
(* inside transaction to prevent concurrent race condition"                *)
(* (rental-agreements.service.ts:65): one ACTIVE agreement per unit and    *)
(* per tenant.                                                             *)
NoOverlap ==
    \A a, b \in Agreements :
        /\ a # b
        /\ agreement[a].status = "ACTIVE"
        /\ agreement[b].status = "ACTIVE"
        => /\ agreement[a].unit # agreement[b].unit
           /\ agreement[a].tenant # agreement[b].tenant

-----------------------------------------------------------------------------
(* The inductive invariant behind these properties (OccupancyProofs): what *)
(* a request knows until another commit overtakes it.                      *)

RowsOK ==
    \A a \in Agreements :
        \/ agreement[a] = NoRow
        \/ /\ agreement[a].unit \in Units
           /\ agreement[a].tenant \in Tenants
           /\ agreement[a].status \in AgreementStatus

CreateOK(h) ==
    LET r == req[h] IN
    /\ pc[h] = "checking"
    /\ r.agr \in Agreements /\ r.unit \in Units /\ r.tenant \in Tenants
    /\ r.status = "ACTIVE" /\ r.old = NoRow /\ ~r.vacate
    /\ agreement[r.agr] = NoRow
    /\ \A g \in Handlers \ {h} : req[g].agr # r.agr

AmendOK(h) ==
    LET r == req[h] IN
    /\ r.agr \in Agreements
    /\ agreement[r.agr] # NoRow
    /\ r.old.unit \in Units /\ r.old.tenant \in Tenants
    /\ r.status \in AgreementStatus \cup {None}
    /\ r.vacate => pc[h] = "decided"
    /\ pc[h] \in {"marked", "placed", "decided"} => r.todo = {}

ByHandOK(h) ==
    LET r == req[h] IN
    /\ pc[h] = "checking"
    /\ r.agr = None /\ r.old = NoRow
    /\ r.op # "removeTenant" => r.unit \in Units
    /\ r.op = "removeTenant" => r.tenant \in Tenants
    /\ IF r.op = "setUnit" THEN r.status \in UnitStatus ELSE r.status = None

RequestOK(h) ==
    IF pc[h] = "idle" THEN req[h] = NoRequest
    ELSE /\ req[h].op # None
         /\ req[h].op = "create" => CreateOK(h)
         /\ req[h].op \in {"update", "end"} => AmendOK(h)
         /\ req[h].op \in {"setUnit", "removeUnit", "removeTenant"} => ByHandOK(h)

(* Once its queries have passed, the unit and the tenant are still free.   *)
KnownFree(h) ==
    LET r == req[h] IN
    /\ ChecksUnit(r) /\ r.todo \cap UnitChecks = {} /\ "unit" \notin missed[h]
         => UnitFree(r.unit, r.agr)
    /\ ChecksTenant(r) /\ r.todo \cap TenantChecks = {} /\ "tenant" \notin missed[h]
         => TenantFree(r.tenant, r.agr)

(* The row that findOne read is the row, the scan is what it would be now. *)
KnownRow(h) ==
    LET r == req[h] IN
    r.op \in {"update", "end"} =>
      /\ WritesUnits(r) /\ "place" \notin missed[h]
           => agreement[r.agr].unit = r.old.unit
      /\ WritesUnits(r) /\ r.status = None /\ "state" \notin missed[h]
           => agreement[r.agr].status = r.old.status
      /\ pc[h] = "decided" /\ "scan" \notin missed[h]
           => r.vacate = UnitFree(r.old.unit, r.agr)

OccupancyInv ==
    /\ TypeOK
    /\ RowsOK
    /\ \A h \in Handlers : RequestOK(h) /\ KnownFree(h) /\ KnownRow(h)
    /\ LeasesExclusive
    /\ OccupancyExact

-----------------------------------------------------------------------------
(* The rows as the book of LeaseBook shows them.                           *)

Holder(u) ==
    IF Leased(u)
    THEN agreement[CHOOSE a \in Agreements : ActiveOn(agreement[a], u)].tenant
    ELSE None

Leases == INSTANCE LeaseBook WITH
    holder <- [u \in Units |-> Holder(u)],
    gone <- removed

(* As long as requests keep apart (ApartSpec), and agreements are          *)
(* re-activated by no update, all queries and commits add up to signing,   *)
(* moving and ending leases in a book where a unit has one tenant and a    *)
(* tenant one unit.                                                        *)
ImplementsLeaseBook == Leases!BookSpec

=============================================================================
