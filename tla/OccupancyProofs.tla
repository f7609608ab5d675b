-------------------------- MODULE OccupancyProofs ---------------------------
(***************************************************************************)
(* Proofs about Occupancy for every number of handlers, agreements, units  *)
(* and tenants: OccupancyInv is inductive, so what the module says of      *)
(* overlapping leases and of unit statuses always holds.                   *)
(***************************************************************************)
EXTENDS Occupancy, TLAPS

USE NoneAssumption, StatusAssumption, OpsAssumption, FieldsAssumption

-----------------------------------------------------------------------------
(* Steps that only read.                                                   *)

(* A request of a kind stands and knows as that kind may.                  *)
LEMMA KindOK ==
    ASSUME OccupancyInv, NEW g \in Handlers
    PROVE  /\ req[g].op = "create" => CreateOK(g)
           /\ req[g].op \in {"update", "end"} => AmendOK(g)
           /\ req[g].op \in {"setUnit", "removeUnit", "removeTenant"} => ByHandOK(g)
           /\ pc[g] = "idle" => req[g] = NoRequest
           /\ req[g].op = None => req[g] = NoRequest
<1>1. RequestOK(g)
  BY DEF OccupancyInv
<1>2. NoRequest.op \notin AllOps
  BY DEF NoRequest
<1>3. CASE pc[g] = "idle"
  BY <1>1, <1>2, <1>3 DEF RequestOK, AllOps
<1>4. CASE pc[g] # "idle"
  BY <1>1, <1>4 DEF RequestOK
<1> QED
  BY <1>3, <1>4

(* Rows that stay and a request that does not move keep what is known.     *)
LEMMA Untouched ==
    ASSUME OccupancyInv, NEW g \in Handlers,
           UNCHANGED agreement,
           pc'[g] = pc[g], req'[g] = req[g], missed'[g] = missed[g],
           \A x \in Handlers \ {g} :
               req[g].op = "create" => req'[x].agr # req[g].agr
    PROVE  RequestOK(g)' /\ KnownFree(g)' /\ KnownRow(g)'
<1>1. RequestOK(g)'
  BY DEF OccupancyInv, RequestOK, CreateOK, AmendOK, ByHandOK
<1>2. KnownFree(g)'
  BY DEF OccupancyInv, KnownFree, UnitFree, TenantFree
<1>3. KnownRow(g)'
  BY DEF OccupancyInv, KnownRow, UnitFree
<1> QED
  BY <1>1, <1>2, <1>3

(* A step that commits nothing preserves the invariant if the request that *)
(* moves still makes sense and knows what it claims to know.               *)
LEMMA ReadStep ==
    ASSUME OccupancyInv,
           NEW h \in Handlers, NEW place \in PCs, NEW r \in Request,
           NEW m \in SUBSET Facets,
           UNCHANGED <<agreement, unit, removed, doubtful, drifted>>,
           pc' = [pc EXCEPT ![h] = place],
           req' = [req EXCEPT ![h] = r],
           missed' = [missed EXCEPT ![h] = m],
           \A g \in Handlers \ {h} : req[g].op = "create" => req[g].agr # r.agr,
           RequestOK(h)', KnownFree(h)', KnownRow(h)'
    PROVE  OccupancyInv'
<1>1. TypeOK'
  BY DEF OccupancyInv, TypeOK
<1>2. RowsOK'
  BY DEF OccupancyInv, RowsOK
<1>3. ASSUME NEW g \in Handlers, g # h
      PROVE  RequestOK(g)' /\ KnownFree(g)' /\ KnownRow(g)'
  <2>1. pc'[g] = pc[g] /\ req'[g] = req[g] /\ missed'[g] = missed[g]
    BY <1>3 DEF OccupancyInv, TypeOK
  <2>2. ASSUME NEW x \in Handlers \ {g}, req[g].op = "create"
        PROVE  req'[x].agr # req[g].agr
    <3>1. CreateOK(g)
      BY <2>2, KindOK
    <3>2. CASE x = h
      BY <1>3, <2>2, <3>2 DEF OccupancyInv, TypeOK
    <3>3. CASE x # h
      BY <3>1, <3>3 DEF OccupancyInv, TypeOK, CreateOK
    <3> QED
      BY <3>2, <3>3
  <2> QED
    BY <2>1, <2>2, Untouched
<1>4. LeasesExclusive' /\ OccupancyExact'
  BY DEF OccupancyInv, LeasesExclusive, OccupancyExact, Leased, ActiveOn
<1> QED
  BY <1>1, <1>2, <1>3, <1>4 DEF OccupancyInv

(* An answered or failed request leaves nothing behind.                    *)
LEMMA ForgottenOK ==
    ASSUME NEW h \in Handlers,
           pc'[h] = "idle", req'[h] = NoRequest, missed'[h] = {}
    PROVE  RequestOK(h)' /\ KnownFree(h)' /\ KnownRow(h)'
<1>1. RequestOK(h)'
  BY DEF RequestOK
<1>2. KnownFree(h)'
  BY DEF KnownFree, ChecksUnit, ChecksTenant, NoRequest, TargetStatus, NoRow
<1>3. KnownRow(h)'
  BY DEF KnownRow, NoRequest, AllOps
<1> QED
  BY <1>1, <1>2, <1>3

(* NoRequest and the place "idle" are of their types.                      *)
LEMMA NothingTyped ==
    NoRequest \in Request /\ "idle" \in PCs /\ {} \in SUBSET Facets /\ NoRow \in Row
BY DEF NoRequest, Request, PCs, NoRow, Row

(* A request refused or failed commits nothing.                            *)
LEMMA RespondStep ==
    ASSUME OccupancyInv, NEW h \in Handlers, Respond(h), Forget(h),
           UNCHANGED <<agreement, unit, removed, doubtful, drifted>>
    PROVE  OccupancyInv'
<1>1. pc'[h] = "idle" /\ req'[h] = NoRequest /\ missed'[h] = {}
  BY DEF Respond, Forget, OccupancyInv, TypeOK
<1>2. \A g \in Handlers \ {h} : req[g].op = "create" => req[g].agr # NoRequest.agr
  BY KindOK DEF CreateOK, NoRequest
<1> QED
  BY <1>1, <1>2, ForgottenOK, NothingTyped, ReadStep DEF Respond, Forget

-----------------------------------------------------------------------------
(* The beginning of a request.                                             *)

(* A request that begins has read nothing another commit has replaced.     *)
LEMMA BeginStep ==
    ASSUME OccupancyInv, NEW h \in Handlers, NEW r \in Request, Begin(h, r),
           \A g \in Handlers \ {h} : req[g].op = "create" => req[g].agr # r.agr,
           pc'[h] = "checking" /\ req'[h] = r /\ missed'[h] = {}
             => RequestOK(h)' /\ KnownFree(h)' /\ KnownRow(h)'
    PROVE  OccupancyInv'
<1>1. pc'[h] = "checking" /\ req'[h] = r /\ missed'[h] = {}
  BY DEF Begin, Forget, OccupancyInv, TypeOK
<1>2. "checking" \in PCs /\ {} \in SUBSET Facets
  BY DEF PCs
<1> QED
  BY <1>1, <1>2, ReadStep DEF Begin, Forget

(* A create knows nothing before its queries.                              *)
LEMMA CreateBeginStep ==
    ASSUME OccupancyInv, NEW h \in Handlers, NEW a \in Agreements,
           NEW u \in Units, NEW t \in Tenants, CreateBegin(h, a, u, t)
    PROVE  OccupancyInv'
<1> DEFINE r == [op |-> "create", agr |-> a, unit |-> u, tenant |-> t,
                 status |-> "ACTIVE", old |-> NoRow, todo |-> Checks,
                 vacate |-> FALSE]
<1>1. Begin(h, r)
  BY DEF CreateBegin
<1>2. r \in Request
  BY NothingTyped DEF Request, AllOps, AgreementStatus
<1>3. ASSUME pc'[h] = "checking", req'[h] = r, missed'[h] = {}
      PROVE  RequestOK(h)' /\ KnownFree(h)' /\ KnownRow(h)'
  <2>1. \A g \in Handlers \ {h} : req'[g].agr # a
    BY <1>1 DEF Begin, CreateBegin, OccupancyInv, TypeOK
  <2>2. CreateOK(h)'
    BY <1>1, <1>3, <2>1 DEF Begin, CreateBegin, CreateOK
  <2>3. RequestOK(h)'
    BY <1>3, <2>2 DEF RequestOK, AllOps
  <2>4. KnownFree(h)'
    BY <1>3 DEF KnownFree, Checks, UnitChecks, TenantChecks
  <2>5. KnownRow(h)'
    BY <1>3 DEF KnownRow
  <2> QED
    BY <2>3, <2>4, <2>5
<1> QED
  BY <1>1, <1>2, <1>3, BeginStep DEF CreateBegin

(* An update remembers the row as it is, and has a query ahead for every   *)
(* side on which the code will check it.                                   *)
LEMMA UpdateBeginStep ==
    ASSUME OccupancyInv, NEW h \in Handlers, NEW a \in Agreements,
           NEW u \in UnitFields, NEW t \in TenantFields, NEW s \in Targets,
           UpdateBegin(h, a, u, t, s)
    PROVE  OccupancyInv'
<1> DEFINE r0 == AmendRequest("update", a, u, t, s, {})
           r == AmendRequest("update", a, u, t, s, UpdateChecks(r0))
<1>1. Begin(h, r)
  BY DEF UpdateBegin
<1>2. UpdateChecks(r0) \in SUBSET Checks
  BY DEF UpdateChecks, If, Checks, UnitChecks, TenantChecks
<1>3. agreement[a] \in Row /\ agreement[a] # NoRow
  BY DEF UpdateBegin, OccupancyInv, TypeOK
<1>4. /\ r = [op |-> "update", agr |-> a, unit |-> u, tenant |-> t, status |-> s,
              old |-> agreement[a], todo |-> UpdateChecks(r0), vacate |-> FALSE]
      /\ r0 = [op |-> "update", agr |-> a, unit |-> u, tenant |-> t, status |-> s,
               old |-> agreement[a], todo |-> {}, vacate |-> FALSE]
  BY DEF AmendRequest
<1> HIDE DEF r, r0
<1>5. r \in Request
  BY <1>2, <1>3, <1>4 DEF Request, AllOps
<1>6. ASSUME pc'[h] = "checking", req'[h] = r, missed'[h] = {}
      PROVE  RequestOK(h)' /\ KnownFree(h)' /\ KnownRow(h)'
  <2>1. agreement' = agreement
    BY <1>1 DEF Begin
  <2>2. AmendOK(h)'
    BY <1>3, <1>4, <1>6, <2>1 DEF AmendOK, OccupancyInv, RowsOK
  <2>3. RequestOK(h)'
    BY <1>4, <1>6, <2>2 DEF RequestOK, AllOps
  <2>4. /\ ChecksUnit(r) <=> ChecksUnit(r0)
        /\ ChecksTenant(r) <=> ChecksTenant(r0)
    BY <1>4 DEF ChecksUnit, ChecksTenant, TargetStatus
  <2>5. KnownFree(h)'
    <3>1. /\ ChecksUnit(r) => "unitFree" \in UpdateChecks(r0)
          /\ ChecksTenant(r) => "tenantFree" \in UpdateChecks(r0)
      BY <2>4 DEF UpdateChecks, If
    <3>2. req'[h] = r /\ r.todo = UpdateChecks(r0)
      <4>1. r.todo = UpdateChecks(r0)
        BY DEF r, AmendRequest
      <4> QED
        BY <1>6, <4>1
    <3> QED
      BY <3>1, <3>2 DEF KnownFree, UnitChecks, TenantChecks
  <2>6. KnownRow(h)'
    BY <1>4, <1>6, <2>1 DEF KnownRow
  <2> QED
    BY <2>3, <2>5, <2>6
<1>7. ASSUME NEW g \in Handlers \ {h}, req[g].op = "create"
      PROVE  req[g].agr # r.agr
  BY <1>3, <1>4, <1>7, KindOK DEF CreateOK
<1> QED
  BY <1>1, <1>5, <1>6, <1>7, BeginStep

(* Likewise an end, which makes no queries.                                *)
LEMMA EndBeginStep ==
    ASSUME OccupancyInv, NEW h \in Handlers, NEW a \in Agreements, EndBegin(h, a)
    PROVE  OccupancyInv'
<1> DEFINE r == [op |-> "end", agr |-> a, unit |-> None, tenant |-> None,
                 status |-> "ENDED", old |-> agreement[a], todo |-> {},
                 vacate |-> FALSE]
<1>1. Begin(h, r)
  BY DEF EndBegin, AmendRequest
<1>2. agreement[a] \in Row /\ agreement[a] # NoRow
  BY DEF EndBegin, OccupancyInv, TypeOK
<1>3. r \in Request
  BY <1>2 DEF Request, AllOps, AgreementStatus
<1>4. ASSUME pc'[h] = "checking", req'[h] = r, missed'[h] = {}
      PROVE  RequestOK(h)' /\ KnownFree(h)' /\ KnownRow(h)'
  <2>1. agreement' = agreement
    BY <1>1 DEF Begin
  <2>2. AmendOK(h)'
    BY <1>2, <1>4, <2>1 DEF AmendOK, OccupancyInv, RowsOK, AgreementStatus
  <2>3. RequestOK(h)'
    BY <1>4, <2>2 DEF RequestOK, AllOps
  <2>4. KnownFree(h)'
    BY <1>4 DEF KnownFree, ChecksUnit, ChecksTenant
  <2>5. KnownRow(h)'
    BY <1>4, <2>1 DEF KnownRow
  <2> QED
    BY <2>3, <2>4, <2>5
<1>5. ASSUME NEW g \in Handlers \ {h}, req[g].op = "create"
      PROVE  req[g].agr # r.agr
  BY <1>2, <1>5, KindOK DEF CreateOK
<1> QED
  BY <1>1, <1>3, <1>4, <1>5, BeginStep

(* Requests about units and tenants name no agreement.                     *)
LEMMA ByHandBeginStep ==
    ASSUME OccupancyInv, NEW h \in Handlers,
           NEW op \in {"setUnit", "removeUnit", "removeTenant"},
           NEW u \in Units \cup {None}, NEW t \in Tenants \cup {None},
           NEW s \in UnitStatus \cup {None},
           IF op = "setUnit" THEN s \in UnitStatus ELSE s = None,
           IF op = "removeTenant" THEN t \in Tenants ELSE u \in Units,
           Begin(h, HandRequest(op, u, t, s))
    PROVE  OccupancyInv'
<1> DEFINE r == HandRequest(op, u, t, s)
<1>1. r = [op |-> op, agr |-> None, unit |-> u, tenant |-> t, status |-> s,
           old |-> NoRow, todo |-> {}, vacate |-> FALSE]
  BY DEF HandRequest
<1>0. Begin(h, r)
  OBVIOUS
<1> HIDE DEF r
<1>2. r \in Request
  BY <1>1, NothingTyped DEF Request, AllOps
<1>3. ASSUME pc'[h] = "checking", req'[h] = r, missed'[h] = {}
      PROVE  RequestOK(h)' /\ KnownFree(h)' /\ KnownRow(h)'
  <2>1. ByHandOK(h)'
    BY <1>1, <1>3 DEF ByHandOK
  <2>2. RequestOK(h)'
    BY <1>1, <1>3, <2>1 DEF RequestOK, AllOps
  <2>3. KnownFree(h)'
    BY <1>1, <1>3 DEF KnownFree, ChecksUnit, ChecksTenant, TargetStatus, NoRow, UnitStatus
  <2>4. KnownRow(h)'
    BY <1>1, <1>3 DEF KnownRow
  <2> QED
    BY <2>2, <2>3, <2>4
<1>4. ASSUME NEW g \in Handlers \ {h}, req[g].op = "create"
      PROVE  req[g].agr # r.agr
  BY <1>1, <1>4, KindOK DEF CreateOK
<1> QED
  BY <1>0, <1>2, <1>3, <1>4, BeginStep

-----------------------------------------------------------------------------
(* Queries and row locks.                                                  *)

(* A query that passes makes known what it looked for.                     *)
LEMMA CheckStep ==
    ASSUME OccupancyInv, NEW h \in Handlers, NEW c \in Checks, Check(h, c)
    PROVE  OccupancyInv'
<1> DEFINE r == [req[h] EXCEPT !.todo = @ \ {c}]
           m == missed[h] \ (If(c \in UnitChecks, {"unit"})
                                \cup If(c \in TenantChecks, {"tenant"}))
<1>1. req[h] \in Request /\ missed[h] \in SUBSET Facets /\ pc[h] = "checking"
  BY DEF Check, OccupancyInv, TypeOK
<1>2. r \in Request /\ m \in SUBSET Facets /\ "checking" \in PCs
  BY <1>1 DEF Request, PCs
<1>3. /\ r.op = req[h].op /\ r.agr = req[h].agr /\ r.unit = req[h].unit
      /\ r.tenant = req[h].tenant /\ r.status = req[h].status
      /\ r.old = req[h].old /\ r.vacate = req[h].vacate
      /\ r.todo = req[h].todo \ {c}
  BY <1>1 DEF Request
<1> HIDE DEF r
<1>4. /\ pc' = [pc EXCEPT ![h] = "checking"] /\ pc'[h] = "checking"
      /\ req' = [req EXCEPT ![h] = r] /\ req'[h] = r
      /\ missed' = [missed EXCEPT ![h] = m] /\ missed'[h] = m
      /\ UNCHANGED <<agreement, unit, removed, doubtful, drifted>>
  BY <1>1 DEF Check, OccupancyInv, TypeOK, r
<1>5. \A g \in Handlers \ {h} : req[g].op = "create" => req[g].agr # r.agr
  BY <1>3, KindOK DEF CreateOK
<1>6. RequestOK(h)'
  <2>1. r.op # None /\ RequestOK(h)
    BY <1>1, <1>3 DEF RequestOK, OccupancyInv
  <2>2. ASSUME r.op = "create" PROVE CreateOK(h)'
    <3>1. CreateOK(h)
      BY <1>3, <2>2, KindOK
    <3> QED
      BY <1>3, <1>4, <3>1 DEF CreateOK, OccupancyInv, TypeOK
  <2>3. ASSUME r.op \in {"update", "end"} PROVE AmendOK(h)'
    <3>1. AmendOK(h)
      BY <1>3, <2>3, KindOK
    <3> QED
      BY <1>1, <1>3, <1>4, <3>1 DEF AmendOK
  <2>4. ASSUME r.op \in {"setUnit", "removeUnit", "removeTenant"} PROVE ByHandOK(h)'
    <3>1. ByHandOK(h)
      BY <1>3, <2>4, KindOK
    <3> QED
      BY <1>3, <1>4, <3>1 DEF ByHandOK
  <2> QED
    BY <1>4, <2>1, <2>2, <2>3, <2>4 DEF RequestOK
<1>7. KnownFree(h)'
  <2>1. KnownFree(h)
    BY DEF OccupancyInv
  <2>2. /\ c \in UnitChecks => UnitFree(r.unit, r.agr)
        /\ c \in TenantChecks => TenantFree(r.tenant, r.agr)
    BY <1>3 DEF Check, Passes, UnitChecks, TenantChecks
  <2>3. /\ c \notin UnitChecks => r.todo \cap UnitChecks = req[h].todo \cap UnitChecks
        /\ c \notin TenantChecks => r.todo \cap TenantChecks = req[h].todo \cap TenantChecks
        /\ c \notin UnitChecks => ("unit" \in m <=> "unit" \in missed[h])
        /\ c \notin TenantChecks => ("tenant" \in m <=> "tenant" \in missed[h])
    BY <1>3 DEF If
  <2>4. /\ ChecksUnit(r) <=> ChecksUnit(req[h])
        /\ ChecksTenant(r) <=> ChecksTenant(req[h])
    BY <1>3 DEF ChecksUnit, ChecksTenant, TargetStatus
  <2>5. /\ ChecksUnit(r) /\ r.todo \cap UnitChecks = {} /\ "unit" \notin m
             => UnitFree(r.unit, r.agr)
        /\ ChecksTenant(r) /\ r.todo \cap TenantChecks = {} /\ "tenant" \notin m
             => TenantFree(r.tenant, r.agr)
    BY <1>3, <2>1, <2>2, <2>3, <2>4 DEF KnownFree
  <2> QED
    BY <1>4, <2>5 DEF KnownFree, UnitFree, TenantFree
<1>8. KnownRow(h)'
  <2>1. KnownRow(h)
    BY DEF OccupancyInv
  <2>2. /\ "place" \in m <=> "place" \in missed[h]
        /\ "state" \in m <=> "state" \in missed[h]
    BY DEF If
  <2>3. WritesUnits(r) <=> WritesUnits(req[h])
    BY <1>3 DEF WritesUnits
  <2> QED
    BY <1>3, <1>4, <2>1, <2>2, <2>3 DEF KnownRow
<1> HIDE DEF m
<1> QED
  BY <1>2, <1>4, <1>5, <1>6, <1>7, <1>8, ReadStep

(* A lock is taken, the request keeps all it knows.                        *)
LEMMA AdvanceStep ==
    ASSUME OccupancyInv, NEW h \in Handlers, NEW place \in {"marked", "placed"},
           Advance(h, place), UNCHANGED <<req, missed>>,
           req[h].op \in {"update", "end"}, req[h].todo = {}, ~req[h].vacate
    PROVE  OccupancyInv'
<1>1. /\ pc'[h] = place /\ place \in PCs
      /\ req[h] \in Request /\ missed[h] \in SUBSET Facets
      /\ pc' = [pc EXCEPT ![h] = place]
      /\ req' = [req EXCEPT ![h] = req[h]]
      /\ missed' = [missed EXCEPT ![h] = missed[h]]
      /\ UNCHANGED <<agreement, unit, removed, doubtful, drifted>>
  BY DEF Advance, PCs, OccupancyInv, TypeOK
<1>2. RequestOK(h)'
  <2>1. AmendOK(h)
    BY KindOK
  <2>2. AmendOK(h)'
    BY <1>1, <2>1 DEF AmendOK
  <2> QED
    BY <1>1, <2>2 DEF RequestOK, AllOps
<1>3. KnownFree(h)'
  BY <1>1 DEF OccupancyInv, KnownFree, UnitFree, TenantFree
<1>4. KnownRow(h)'
  BY <1>1 DEF OccupancyInv, KnownRow
<1>5. \A g \in Handlers \ {h} : req[g].op = "create" => req[g].agr # req[h].agr
  BY KindOK DEF CreateOK
<1> QED
  BY <1>1, <1>2, <1>3, <1>4, <1>5, ReadStep

(* The scan makes known whether the unit is free.                          *)
LEMMA ScanStep ==
    ASSUME OccupancyInv, NEW h \in Handlers, ScanOldUnit(h)
    PROVE  OccupancyInv'
<1> DEFINE free == UnitFree(req[h].old.unit, req[h].agr)
           r == [req[h] EXCEPT !.vacate = free]
           m == missed[h] \ {"scan"}
<1>1. req[h] \in Request /\ missed[h] \in SUBSET Facets /\ pc[h] \in {"marked", "placed"}
  BY DEF ScanOldUnit, OccupancyInv, TypeOK
<1>2. free \in BOOLEAN
  BY DEF UnitFree
<1>3. r \in Request /\ m \in SUBSET Facets /\ "decided" \in PCs
  BY <1>1, <1>2 DEF Request, PCs
<1>4. /\ r.op = req[h].op /\ r.agr = req[h].agr /\ r.unit = req[h].unit
      /\ r.tenant = req[h].tenant /\ r.status = req[h].status
      /\ r.old = req[h].old /\ r.todo = req[h].todo
      /\ r.vacate = free
  BY <1>1 DEF Request
<1>5. /\ pc' = [pc EXCEPT ![h] = "decided"] /\ pc'[h] = "decided"
      /\ req' = [req EXCEPT ![h] = r] /\ req'[h] = r
      /\ missed' = [missed EXCEPT ![h] = m] /\ missed'[h] = m
      /\ UNCHANGED <<agreement, unit, removed, doubtful, drifted>>
  BY <1>1 DEF ScanOldUnit, Advance, OccupancyInv, TypeOK
<1> HIDE DEF r
<1>6. \A g \in Handlers \ {h} : req[g].op = "create" => req[g].agr # r.agr
  BY <1>4, KindOK DEF CreateOK
<1>7. req[h].op \in {"update", "end"} /\ AmendOK(h)
  <2>1. RequestOK(h)
    BY DEF OccupancyInv
  <2>2. req[h].op \in {"update", "end"}
    BY <1>1, <2>1 DEF RequestOK, CreateOK, ByHandOK, Request, AllOps
  <2> QED
    BY <2>2, KindOK
<1>8. RequestOK(h)'
  <2>1. AmendOK(h)'
    BY <1>1, <1>4, <1>5, <1>7 DEF AmendOK
  <2> QED
    BY <1>4, <1>5, <1>7, <2>1 DEF RequestOK, AllOps
<1>9. KnownFree(h)'
  <2>1. KnownFree(h)
    BY DEF OccupancyInv
  <2>2. "unit" \in m <=> "unit" \in missed[h]
    OBVIOUS
  <2>3. "tenant" \in m <=> "tenant" \in missed[h]
    OBVIOUS
  <2> QED
    BY <1>4, <1>5, <2>1, <2>2, <2>3
    DEF KnownFree, UnitFree, TenantFree, ChecksUnit, ChecksTenant, TargetStatus
<1>10. KnownRow(h)'
  <2>1. KnownRow(h)
    BY DEF OccupancyInv
  <2>2. /\ "place" \in m <=> "place" \in missed[h]
        /\ "state" \in m <=> "state" \in missed[h]
    OBVIOUS
  <2>3. /\ req'[h].op = req[h].op /\ req'[h].agr = req[h].agr
        /\ req'[h].unit = req[h].unit /\ req'[h].status = req[h].status
        /\ req'[h].old = req[h].old /\ req'[h].vacate = free
        /\ agreement' = agreement
    BY <1>4, <1>5
  <2>4. free <=> \A x \in Agreements \ {req[h].agr} :
                   ~ActiveOn(agreement[x], req[h].old.unit)
    BY DEF UnitFree
  <2> HIDE DEF free
  <2>5. UnitFree(req[h].old.unit, req[h].agr)' <=> free
    BY <2>3, <2>4 DEF UnitFree
  <2>6. (req[h].vacate = UnitFree(req[h].old.unit, req[h].agr))'
    <3>1. (req[h].vacate)' = free
      BY <2>3
    <3>2. UnitFree(req[h].old.unit, req[h].agr)' \in BOOLEAN
      BY DEF UnitFree
    <3> QED
      BY <1>2, <2>5, <3>1, <3>2
  <2>7. WritesUnits(req[h])' <=> WritesUnits(req[h])
    BY <2>3 DEF WritesUnits
  <2> QED
    BY <1>5, <2>1, <2>2, <2>3, <2>6, <2>7 DEF KnownRow
<1> HIDE DEF m
<1> QED
  BY <1>3, <1>5, <1>6, <1>8, <1>9, <1>10, ReadStep

-----------------------------------------------------------------------------
(* Commits of an agreement.                                                *)

(* What another request stands on and knows survives the commit, because   *)
(* what it no longer knows is marked as missed.                            *)
LEMMA OthersAfterCommit ==
    ASSUME OccupancyInv, NEW h \in Handlers, NEW a \in Agreements, NEW row \in Row,
           row # NoRow, agreement' = [agreement EXCEPT ![a] = row],
           Respond(h), Publish(h, a, row), NEW g \in Handlers \ {h},
           req[g].op = "create" => req[g].agr # a
    PROVE  RequestOK(g)' /\ KnownFree(g)' /\ KnownRow(g)'
<1> DEFINE was == agreement[a]
<1>1. /\ pc'[g] = pc[g] /\ req'[g] = req[g]
      /\ missed'[g] = IF req[g].agr = a
                      THEN missed[g] \cup MissedSame(g, was, row)
                      ELSE missed[g] \cup MissedBeside(g, was, row)
  BY DEF Respond, Publish, OccupancyInv, TypeOK
<1>2. agreement'[a] = row /\ \A x \in Agreements \ {a} : agreement'[x] = agreement[x]
  BY DEF OccupancyInv, TypeOK
<1> HIDE DEF was
<1>3. RequestOK(g) /\ KnownFree(g) /\ KnownRow(g)
  BY DEF OccupancyInv
<1>4. RequestOK(g)'
  <2>1. ASSUME CreateOK(g), req[g].op = "create" PROVE CreateOK(g)'
    <3>1. \A x \in Handlers \ {g} : req'[x].agr # req[g].agr
      BY <2>1 DEF CreateOK, Respond, NoRequest, OccupancyInv, TypeOK
    <3> QED
      BY <1>1, <1>2, <2>1, <3>1 DEF CreateOK
  <2>2. ASSUME AmendOK(g) PROVE AmendOK(g)'
    BY <1>1, <1>2, <2>2 DEF AmendOK
  <2>3. ASSUME ByHandOK(g) PROVE ByHandOK(g)'
    BY <1>1, <2>3 DEF ByHandOK
  <2> QED
    BY <1>1, <1>3, <2>1, <2>2, <2>3 DEF RequestOK
<1>5. KnownFree(g)'
  <2>1. ASSUME ChecksUnit(req[g]), req[g].todo \cap UnitChecks = {},
               "unit" \notin missed'[g],
               NEW x \in Agreements \ {req[g].agr}
        PROVE  ~ActiveOn(agreement'[x], req[g].unit)
    <3>1. UnitFree(req[g].unit, req[g].agr)
      BY <1>1, <1>3, <2>1 DEF KnownFree
    <3>2. CASE x = a
      BY <1>1, <1>2, <2>1, <3>2 DEF MissedBeside, If
    <3>3. CASE x # a
      BY <1>2, <3>1, <3>3 DEF UnitFree
    <3> QED
      BY <3>2, <3>3
  <2>2. ASSUME ChecksTenant(req[g]), req[g].todo \cap TenantChecks = {},
               "tenant" \notin missed'[g],
               NEW x \in Agreements \ {req[g].agr}
        PROVE  ~(agreement'[x].status = "ACTIVE" /\ agreement'[x].tenant = req[g].tenant)
    <3>1. TenantFree(req[g].tenant, req[g].agr)
      BY <1>1, <1>3, <2>2 DEF KnownFree
    <3>2. CASE x = a
      BY <1>1, <1>2, <2>2, <3>2 DEF MissedBeside, If
    <3>3. CASE x # a
      BY <1>2, <3>1, <3>3 DEF TenantFree
    <3> QED
      BY <3>2, <3>3
  <2>3. ChecksUnit(req[g])' /\ req'[g].todo \cap UnitChecks = {} /\ "unit" \notin missed'[g]
          => UnitFree(req[g].unit, req[g].agr)'
    BY <1>1, <2>1 DEF UnitFree, ChecksUnit, TargetStatus
  <2>4. ChecksTenant(req[g])' /\ req'[g].todo \cap TenantChecks = {}
             /\ "tenant" \notin missed'[g]
          => TenantFree(req[g].tenant, req[g].agr)'
    BY <1>1, <2>2 DEF TenantFree, ChecksTenant, TargetStatus
  <2> QED
    BY <2>3, <2>4 DEF KnownFree
<1>6. KnownRow(g)'
  <2> SUFFICES ASSUME req[g].op \in {"update", "end"}
               PROVE  KnownRow(g)'
    BY <1>1 DEF KnownRow
  <2>1. req[g].agr \in Agreements
    BY KindOK DEF AmendOK
  <2>2. WritesUnits(req[g]) /\ "place" \notin missed'[g]
          => agreement'[req[g].agr].unit = req[g].old.unit
    BY <1>1, <1>2, <1>3, <2>1 DEF KnownRow, MissedSame, If, was
  <2>3. WritesUnits(req[g]) /\ req[g].status = None /\ "state" \notin missed'[g]
          => agreement'[req[g].agr].status = req[g].old.status
    BY <1>1, <1>2, <1>3, <2>1 DEF KnownRow, MissedSame, If, was
  <2>4. ASSUME pc[g] = "decided", "scan" \notin missed'[g]
        PROVE  (req[g].vacate = UnitFree(req[g].old.unit, req[g].agr))'
    <3>1. req[g].vacate = UnitFree(req[g].old.unit, req[g].agr)
      BY <1>1, <1>3, <2>4 DEF KnownRow
    <3>2. \A x \in Agreements \ {req[g].agr} :
             ActiveOn(agreement'[x], req[g].old.unit) <=> ActiveOn(agreement[x], req[g].old.unit)
      <4>1. CASE req[g].agr = a
        BY <1>2, <4>1
      <4>2. CASE req[g].agr # a
        <5>1. ActiveOn(row, req[g].old.unit) = ActiveOn(was, req[g].old.unit)
          BY <1>1, <2>4, <4>2 DEF MissedBeside, If
        <5> QED
          BY <1>2, <5>1 DEF was
      <4> QED
        BY <4>1, <4>2
    <3>3. UnitFree(req[g].old.unit, req[g].agr)' <=> UnitFree(req[g].old.unit, req[g].agr)
      BY <1>1, <3>2 DEF UnitFree
    <3>4. /\ UnitFree(req[g].old.unit, req[g].agr) \in BOOLEAN
          /\ UnitFree(req[g].old.unit, req[g].agr)' \in BOOLEAN
      BY DEF UnitFree
    <3> QED
      BY <1>1, <3>1, <3>3, <3>4
  <2>5. WritesUnits(req[g])' <=> WritesUnits(req[g])
    BY <1>1 DEF WritesUnits
  <2> QED
    BY <1>1, <2>2, <2>3, <2>4, <2>5 DEF KnownRow
<1> QED
  BY <1>4, <1>5, <1>6

(* Exclusiveness survives a commit whose unit and tenant are known free or *)
(* doubtful.                                                               *)
LEMMA ExclusiveAfterCommit ==
    ASSUME OccupancyInv, NEW h \in Handlers, NEW a \in Agreements, NEW row \in Row,
           agreement' = [agreement EXCEPT ![a] = row], Doubt(h, a, row),
           ChecksUnit(req[h]) /\ "unit" \notin missed[h] => UnitFree(row.unit, a),
           ChecksTenant(req[h]) /\ "tenant" \notin missed[h] => TenantFree(row.tenant, a)
    PROVE  LeasesExclusive'
<1>1. agreement'[a] = row /\ \A x \in Agreements \ {a} : agreement'[x] = agreement[x]
  BY DEF OccupancyInv, TypeOK
<1>2. \A x \in Agreements \ {a} : doubtful'[x] = doubtful[x]
  BY DEF Doubt, OccupancyInv, TypeOK
<1>3. ASSUME NEW x \in Agreements \ {a}, row.status = "ACTIVE",
             agreement[x].status = "ACTIVE", row.unit = agreement[x].unit
      PROVE  "unit" \in doubtful'[a] \cup doubtful'[x]
  <2>1. /\ ActiveOn(agreement[a], row.unit) /\ "unit" \in doubtful[a] => "unit" \in doubtful'[a]
        /\ ~ActiveOn(agreement[a], row.unit) /\ (ChecksUnit(req[h]) => "unit" \in missed[h])
             => "unit" \in doubtful'[a]
    BY <1>3 DEF Doubt, If, OccupancyInv, TypeOK
  <2>2. CASE ActiveOn(agreement[a], row.unit)
    <3>1. "unit" \in doubtful[a] \cup doubtful[x]
      BY <1>3, <2>2 DEF OccupancyInv, LeasesExclusive, ActiveOn
    <3> QED
      BY <1>2, <2>1, <2>2, <3>1
  <2>3. CASE ~ActiveOn(agreement[a], row.unit)
    BY <1>3, <2>1, <2>3 DEF UnitFree, ActiveOn
  <2> QED
    BY <2>2, <2>3
<1>4. ASSUME NEW x \in Agreements \ {a}, row.status = "ACTIVE",
             agreement[x].status = "ACTIVE", row.tenant = agreement[x].tenant
      PROVE  "tenant" \in doubtful'[a] \cup doubtful'[x]
  <2> DEFINE rents == agreement[a].status = "ACTIVE" /\ agreement[a].tenant = row.tenant
  <2>1. /\ rents /\ "tenant" \in doubtful[a] => "tenant" \in doubtful'[a]
        /\ ~rents /\ (ChecksTenant(req[h]) => "tenant" \in missed[h])
             => "tenant" \in doubtful'[a]
    BY <1>4 DEF Doubt, If, OccupancyInv, TypeOK
  <2>2. CASE rents
    <3>1. "tenant" \in doubtful[a] \cup doubtful[x]
      BY <1>4, <2>2 DEF OccupancyInv, LeasesExclusive
    <3> QED
      BY <1>2, <2>1, <2>2, <3>1
  <2>3. CASE ~rents
    BY <1>4, <2>1, <2>3 DEF TenantFree
  <2> QED
    BY <2>2, <2>3
<1>5. ASSUME NEW x \in Agreements, NEW y \in Agreements, x # a, y # a, x # y,
             agreement'[x].status = "ACTIVE", agreement'[y].status = "ACTIVE"
      PROVE  /\ agreement'[x].unit = agreement'[y].unit
                  => "unit" \in doubtful'[x] \cup doubtful'[y]
             /\ agreement'[x].tenant = agreement'[y].tenant
                  => "tenant" \in doubtful'[x] \cup doubtful'[y]
  BY <1>1, <1>2, <1>5 DEF OccupancyInv, LeasesExclusive
<1> QED
  BY <1>1, <1>3, <1>4, <1>5 DEF LeasesExclusive

(* The commit of an agreement preserves the invariant if it leaves the     *)
(* units exact.                                                            *)
LEMMA CommitStep ==
    ASSUME OccupancyInv, NEW h \in Handlers, NEW a \in Agreements, NEW row \in Row,
           row.unit \in Units, row.tenant \in Tenants, row.status \in AgreementStatus,
           agreement' = [agreement EXCEPT ![a] = row],
           Respond(h), Publish(h, a, row), Doubt(h, a, row), UNCHANGED removed,
           unit' \in [Units -> UnitStatus], drifted' \subseteq Units,
           \A g \in Handlers \ {h} : req[g].op = "create" => req[g].agr # a,
           ChecksUnit(req[h]) /\ "unit" \notin missed[h] => UnitFree(row.unit, a),
           ChecksTenant(req[h]) /\ "tenant" \notin missed[h] => TenantFree(row.tenant, a),
           OccupancyExact'
    PROVE  OccupancyInv'
<1>1. pc'[h] = "idle" /\ req'[h] = NoRequest /\ missed'[h] = {}
  BY DEF Respond, Publish, OccupancyInv, TypeOK
<1>2. row # NoRow
  BY DEF NoRow
<1>3. TypeOK'
  <2>1. agreement' \in [Agreements -> Row] /\ removed' \subseteq Units \cup Tenants
    BY DEF OccupancyInv, TypeOK
  <2>2. pc' \in [Handlers -> PCs] /\ req' \in [Handlers -> Request]
    BY NothingTyped DEF Respond, OccupancyInv, TypeOK
  <2>3. missed' \in [Handlers -> SUBSET Facets]
    <3>1. ASSUME NEW g \in Handlers, NEW was
          PROVE  /\ MissedSame(g, was, row) \in SUBSET Facets
                 /\ MissedBeside(g, was, row) \in SUBSET Facets
      BY DEF MissedSame, MissedBeside, If, Facets, Sides
    <3> HIDE DEF MissedSame, MissedBeside
    <3>2. missed \in [Handlers -> SUBSET Facets]
      BY DEF OccupancyInv, TypeOK
    <3> QED
      BY <3>1, <3>2 DEF Publish
  <2>4. doubtful' \in [Agreements -> SUBSET Sides]
    <3>1. doubtful \in [Agreements -> SUBSET Sides]
      BY DEF OccupancyInv, TypeOK
    <3>2. \A p, q \in BOOLEAN :
             If(p, {"unit"}) \cup If(q, {"tenant"}) \in SUBSET Sides
      BY DEF If, Sides
    <3> QED
      BY <3>1, <3>2 DEF Doubt, If, Sides
  <2> QED
    BY <2>1, <2>2, <2>3, <2>4 DEF TypeOK
<1>4. RowsOK'
  BY DEF OccupancyInv, TypeOK, RowsOK
<1>5. \A g \in Handlers : RequestOK(g)' /\ KnownFree(g)' /\ KnownRow(g)'
  BY <1>1, <1>2, ForgottenOK, OthersAfterCommit
<1>6. LeasesExclusive'
  BY ExclusiveAfterCommit
<1> QED
  BY <1>3, <1>4, <1>5, <1>6 DEF OccupancyInv


(* Signing: the queries have passed, the unit is written OCCUPIED.         *)
LEMMA CreateCommitStep ==
    ASSUME OccupancyInv, NEW h \in Handlers, CreateCommit(h)
    PROVE  OccupancyInv'
<1> DEFINE r == req[h]
           row == [tenant |-> r.tenant, unit |-> r.unit, status |-> "ACTIVE"]
<1>1. CreateOK(h) /\ r.todo = {}
  BY KindOK DEF CreateCommit, Ready
<1>2. /\ r.agr \in Agreements /\ r.unit \in Units /\ r.tenant \in Tenants
      /\ r.status = "ACTIVE" /\ r.old = NoRow
      /\ agreement[r.agr] = NoRow
      /\ \A g \in Handlers \ {h} : req[g].agr # r.agr
  BY <1>1 DEF CreateOK
<1>3. /\ row \in Row /\ row.unit = r.unit /\ row.tenant = r.tenant
      /\ row.status = "ACTIVE"
  BY <1>2 DEF Row, AgreementStatus
<1>4. /\ agreement' = [agreement EXCEPT ![r.agr] = row]
      /\ unit' = [unit EXCEPT ![r.unit] = "OCCUPIED"]
      /\ Respond(h) /\ Publish(h, r.agr, row) /\ Doubt(h, r.agr, row)
      /\ drifted' = drifted \ {r.unit} /\ UNCHANGED removed
  BY DEF CreateCommit, Drift
<1>5. KnownFree(h)
  BY DEF OccupancyInv
<1> HIDE DEF r, row
<1>6. unit' \in [Units -> UnitStatus] /\ drifted' \subseteq Units
  BY <1>2, <1>4 DEF OccupancyInv, TypeOK, UnitStatus
<1>7. /\ ChecksUnit(req[h]) /\ "unit" \notin missed[h] => UnitFree(row.unit, r.agr)
      /\ ChecksTenant(req[h]) /\ "tenant" \notin missed[h] => TenantFree(row.tenant, r.agr)
  BY <1>1, <1>3, <1>5 DEF KnownFree, r
<1>8. OccupancyExact'
  <2> SUFFICES ASSUME NEW u \in Units, u \notin drifted'
               PROVE  unit'[u] = "OCCUPIED" <=> Leased(u)'
    BY DEF OccupancyExact
  <2>1. /\ agreement'[r.agr] = row
        /\ \A x \in Agreements \ {r.agr} : agreement'[x] = agreement[x]
    BY <1>2, <1>4 DEF OccupancyInv, TypeOK
  <2>2. CASE u = r.unit
    BY <1>2, <1>3, <1>4, <2>1, <2>2 DEF Leased, ActiveOn, OccupancyInv, TypeOK
  <2>3. CASE u # r.unit
    <3>1. Leased(u)' <=> Leased(u)
      BY <1>2, <1>3, <2>1, <2>3 DEF Leased, ActiveOn, NoRow
    <3> QED
      BY <1>2, <1>4, <2>3, <3>1 DEF OccupancyExact, OccupancyInv, TypeOK
  <2> QED
    BY <2>2, <2>3
<1>9. row.unit \in Units /\ row.tenant \in Tenants /\ row.status \in AgreementStatus
  BY <1>2, <1>3 DEF AgreementStatus
<1> QED
  BY <1>2, <1>3, <1>4, <1>6, <1>7, <1>8, <1>9, CommitStep

(* What holds of an amendment that commits.                                *)
LEMMA AmendFacts ==
    ASSUME OccupancyInv, NEW h \in Handlers, AmendCommit(h)
    PROVE  /\ req[h].op \in {"update", "end"}
           /\ AmendOK(h)
           /\ req[h].todo = {}
           /\ req[h].vacate => Scans(req[h])
           /\ Scans(req[h]) => pc[h] = "decided"
           /\ NewUnit(req[h]) \in Units
           /\ TargetStatus(req[h]) \in AgreementStatus \cup {"ABSENT"}
<1>1. pc[h] \in {"marked", "placed", "decided"}
  BY DEF AmendCommit
<1>2. RequestOK(h) /\ req[h] \in Request
  BY DEF OccupancyInv, TypeOK
<1>3. req[h].op \in {"update", "end"}
  BY <1>1, <1>2 DEF RequestOK, CreateOK, ByHandOK, Request, AllOps
<1>4. AmendOK(h)
  BY <1>3, KindOK
<1>5. Scans(req[h]) => pc[h] = "decided"
  BY DEF AmendCommit
<1>6. req[h].vacate => Scans(req[h])
  BY <1>4 DEF AmendCommit, AmendOK
<1>7. NewUnit(req[h]) \in Units
  BY <1>2, <1>4 DEF NewUnit, AmendOK, Request
<1>8. TargetStatus(req[h]) \in AgreementStatus \cup {"ABSENT"}
  BY <1>2, <1>4 DEF TargetStatus, AmendOK, Request, Row
<1> QED
  BY <1>1, <1>3, <1>4, <1>5, <1>6, <1>7, <1>8 DEF AmendOK

(* The unit of an amended agreement, and the one it leaves, are exact      *)
(* unless another commit overtook what the amendment had read.             *)
LEMMA AmendExact ==
    ASSUME OccupancyInv, NEW h \in Handlers, AmendCommit(h)
    PROVE  OccupancyExact'
<1> DEFINE r == req[h]
           was == agreement[r.agr]
           row == Amended(r, was)
           o == r.old.unit
           n == NewUnit(r)
<1>1. /\ r.op \in {"update", "end"} /\ r.agr \in Agreements /\ was # NoRow
      /\ o \in Units /\ n \in Units
      /\ r.vacate => Scans(r)
      /\ Scans(r) => pc[h] = "decided"
      /\ r.vacate \in BOOLEAN
  BY AmendFacts DEF AmendOK, OccupancyInv, TypeOK, Request
<1>2. /\ row.unit = IF r.unit = None THEN was.unit ELSE r.unit
      /\ row.status = IF r.status = None THEN was.status ELSE r.status
  BY DEF Amended
<1>3. /\ agreement' = [agreement EXCEPT ![r.agr] = row]
      /\ unit' = [u \in Units |->
                    IF Occupies(r) /\ u = n THEN "OCCUPIED"
                    ELSE IF r.vacate /\ u = o THEN "VACANT" ELSE unit[u]]
  BY DEF AmendCommit
<1>4. drifted' = (drifted \ (If(Occupies(r), {n}) \cup If(r.vacate, {o})))
                   \cup If("place" \in missed[h], {was.unit, o, n})
                   \cup If("state" \in missed[h], {o, n})
                   \cup If("scan" \in missed[h], {o})
  BY DEF AmendCommit, Drift
<1>5. /\ WritesUnits(r) /\ "place" \notin missed[h] => was.unit = o
      /\ WritesUnits(r) /\ r.status = None /\ "state" \notin missed[h]
           => was.status = r.old.status
      /\ pc[h] = "decided" /\ "scan" \notin missed[h] => r.vacate = UnitFree(o, r.agr)
  BY <1>1 DEF OccupancyInv, KnownRow
<1>6. n = IF r.unit = None THEN o ELSE r.unit
  BY DEF NewUnit
<1> HIDE DEF r, was, row, o, n
<1>7. /\ agreement'[r.agr] = row
      /\ \A x \in Agreements \ {r.agr} : agreement'[x] = agreement[x]
  BY <1>1, <1>3 DEF OccupancyInv, TypeOK
<1> SUFFICES ASSUME NEW u \in Units, u \notin drifted'
             PROVE  unit'[u] = "OCCUPIED" <=> Leased(u)'
  BY DEF OccupancyExact
<1>8. /\ u \notin drifted \/ (Occupies(r) /\ u = n) \/ (r.vacate /\ u = o)
      /\ "place" \in missed[h] => u \notin {was.unit, o, n}
      /\ "state" \in missed[h] => u \notin {o, n}
      /\ "scan" \in missed[h] => u # o
  BY <1>4 DEF If
<1>9. u \notin drifted => (unit[u] = "OCCUPIED" <=> Leased(u))
  BY DEF OccupancyInv, OccupancyExact
<1>10. unit'[u] = IF Occupies(r) /\ u = n THEN "OCCUPIED"
                  ELSE IF r.vacate /\ u = o THEN "VACANT" ELSE unit[u]
  BY <1>3
<1>11. (ActiveOn(row, u) <=> ActiveOn(was, u)) => (Leased(u)' <=> Leased(u))
  BY <1>1, <1>7 DEF Leased, was
<1>12. CASE ~WritesUnits(r)
  <2>1. ~Occupies(r) /\ ~r.vacate /\ row.unit = was.unit /\ row.status = was.status
    BY <1>1, <1>2, <1>12 DEF Occupies, Scans, WritesUnits
  <2> QED
    BY <1>8, <1>9, <1>10, <1>11, <2>1 DEF ActiveOn
<1>13. CASE WritesUnits(r) /\ u \notin {was.unit, o, n}
  <2>1. row.unit # u
    BY <1>2, <1>6, <1>13
  <2> QED
    BY <1>8, <1>9, <1>10, <1>11, <1>13, <2>1 DEF ActiveOn
<1>14. CASE WritesUnits(r) /\ u \in {was.unit, o, n}
  <2>1. "place" \notin missed[h] /\ was.unit = o /\ row.unit = n /\ u \in {o, n}
    BY <1>2, <1>5, <1>6, <1>8, <1>14
  <2>2. row.status = TargetStatus(r)
    BY <1>2, <1>5, <1>8, <1>14, <2>1 DEF TargetStatus
  <2>3. CASE Occupies(r) /\ u = n
    BY <1>1, <1>7, <1>10, <2>1, <2>2, <2>3 DEF Leased, ActiveOn, Occupies
  <2>4. ASSUME u = o, Scans(r), ~ActiveOn(row, u), ~(Occupies(r) /\ u = n)
        PROVE  unit'[u] = "OCCUPIED" <=> Leased(u)'
    <3>1. r.vacate <=> UnitFree(u, r.agr)
      BY <1>1, <1>5, <1>8, <2>4
    <3>2. Leased(u)' <=> ~UnitFree(u, r.agr)
      BY <1>1, <1>7, <2>4 DEF Leased, UnitFree
    <3>3. CASE r.vacate
      BY <1>10, <2>4, <3>1, <3>2, <3>3
    <3>4. CASE ~r.vacate
      <4>1. Leased(u)
        BY <3>1, <3>4 DEF Leased, UnitFree
      <4> QED
        BY <1>8, <1>9, <1>10, <2>4, <3>1, <3>2, <3>4, <4>1
    <3> QED
      BY <3>3, <3>4
  <2>5. CASE u # n
    <3>1. u = o /\ Scans(r) /\ ~ActiveOn(row, u)
      BY <1>14, <2>1, <2>5 DEF Scans, ActiveOn, n, o
    <3> QED
      BY <2>4, <2>5, <3>1
  <2>6. CASE u = n /\ ~Occupies(r)
    <3>1. Scans(r) /\ ~ActiveOn(row, u)
      BY <1>14, <2>2, <2>6 DEF Scans, ActiveOn, Occupies
    <3>2. CASE u = o
      BY <2>4, <2>6, <3>1, <3>2
    <3>3. CASE u # o
      <4>1. ~ActiveOn(was, u)
        BY <2>1, <3>3 DEF ActiveOn
      <4> QED
        BY <1>8, <1>9, <1>10, <1>11, <2>6, <3>1, <3>3, <4>1
    <3> QED
      BY <3>2, <3>3
  <2> QED
    BY <2>3, <2>5, <2>6
<1> QED
  BY <1>12, <1>13, <1>14

(* Moving, handing over, ending and re-activating an agreement.            *)
LEMMA AmendCommitStep ==
    ASSUME OccupancyInv, NEW h \in Handlers, AmendCommit(h)
    PROVE  OccupancyInv'
<1> DEFINE r == req[h]
           was == agreement[r.agr]
           row == Amended(r, was)
<1>1. /\ r.op \in {"update", "end"} /\ AmendOK(h) /\ r.todo = {}
      /\ r.agr \in Agreements /\ was # NoRow
      /\ r.old.unit \in Units /\ NewUnit(r) \in Units
      /\ r.status \in AgreementStatus \cup {None}
      /\ r \in Request
  BY AmendFacts DEF AmendOK, OccupancyInv, TypeOK
<1>2. /\ was.unit \in Units /\ was.tenant \in Tenants /\ was.status \in AgreementStatus
  BY <1>1 DEF OccupancyInv, RowsOK
<1>3. /\ agreement' = [agreement EXCEPT ![r.agr] = row]
      /\ unit' = [u \in Units |->
                    IF Occupies(r) /\ u = NewUnit(r) THEN "OCCUPIED"
                    ELSE IF r.vacate /\ u = r.old.unit THEN "VACANT" ELSE unit[u]]
      /\ Respond(h) /\ Publish(h, r.agr, row) /\ Doubt(h, r.agr, row)
      /\ UNCHANGED removed
  BY DEF AmendCommit
<1>4. drifted' \subseteq Units
  BY <1>1, <1>2 DEF AmendCommit, Drift, If, OccupancyInv, TypeOK
<1>5. KnownFree(h)
  BY DEF OccupancyInv
<1>6. row = [tenant |-> IF r.tenant = None THEN was.tenant ELSE r.tenant,
             unit   |-> IF r.unit = None THEN was.unit ELSE r.unit,
             status |-> IF r.status = None THEN was.status ELSE r.status]
  BY DEF Amended
<1> HIDE DEF row
<1>7. /\ row.unit = IF r.unit = None THEN was.unit ELSE r.unit
      /\ row.tenant = IF r.tenant = None THEN was.tenant ELSE r.tenant
      /\ row.status = IF r.status = None THEN was.status ELSE r.status
  BY <1>6
<1>8. r.unit \in Units \cup {None} /\ r.tenant \in Tenants \cup {None}
  BY <1>1 DEF Request
<1>9. /\ row.unit \in Units /\ row.tenant \in Tenants /\ row.status \in AgreementStatus
      /\ row \in Row
  BY <1>1, <1>2, <1>6, <1>7, <1>8 DEF Row
<1>10. unit' \in [Units -> UnitStatus]
  BY <1>3 DEF OccupancyInv, TypeOK, UnitStatus
<1>11. /\ ChecksUnit(req[h]) /\ "unit" \notin missed[h] => UnitFree(row.unit, r.agr)
       /\ ChecksTenant(req[h]) /\ "tenant" \notin missed[h] => TenantFree(row.tenant, r.agr)
  <2>1. /\ ChecksUnit(r) => row.unit = r.unit
        /\ ChecksTenant(r) => row.tenant = r.tenant
    BY <1>7 DEF ChecksUnit, ChecksTenant
  <2> QED
    BY <1>1, <1>5, <2>1 DEF KnownFree
<1>12. \A g \in Handlers \ {h} : req[g].op = "create" => req[g].agr # r.agr
  BY <1>1, KindOK DEF CreateOK
<1>13. OccupancyExact'
  BY AmendExact
<1> HIDE DEF r, was
<1> QED
  BY <1>1, <1>3, <1>4, <1>9, <1>10, <1>11, <1>12, <1>13, CommitStep DEF r

-----------------------------------------------------------------------------
(* Units and tenants written or removed by hand.                           *)

(* A unit's status given by hand is exact or marked.                       *)
LEMMA WriteUnitStep ==
    ASSUME OccupancyInv, NEW h \in Handlers, NEW u \in Units, NEW s \in UnitStatus,
           WriteUnit(h, u, s), removed' \subseteq Units \cup Tenants
    PROVE  OccupancyInv'
<1>1. pc'[h] = "idle" /\ req'[h] = NoRequest /\ missed'[h] = {}
  BY DEF WriteUnit, Respond, Forget, OccupancyInv, TypeOK
<1>2. /\ unit' = [unit EXCEPT ![u] = s] /\ agreement' = agreement /\ doubtful' = doubtful
      /\ drifted' = (drifted \ {u}) \cup If((s = "OCCUPIED") # Leased(u), {u})
  BY DEF WriteUnit, Drift
<1>3. TypeOK'
  <2>1. /\ pc' \in [Handlers -> PCs] /\ req' \in [Handlers -> Request]
        /\ missed' \in [Handlers -> SUBSET Facets]
    BY NothingTyped DEF WriteUnit, Respond, Forget, OccupancyInv, TypeOK
  <2>2. drifted' \subseteq Units /\ unit' \in [Units -> UnitStatus]
    BY <1>2 DEF If, OccupancyInv, TypeOK
  <2> QED
    BY <1>2, <2>1, <2>2 DEF OccupancyInv, TypeOK
<1>4. RowsOK' /\ LeasesExclusive'
  BY <1>2 DEF OccupancyInv, RowsOK, LeasesExclusive
<1>5. ASSUME NEW g \in Handlers PROVE RequestOK(g)' /\ KnownFree(g)' /\ KnownRow(g)'
  <2>1. CASE g = h
    BY <1>1, <2>1, ForgottenOK
  <2>2. CASE g # h
    <3>1. pc'[g] = pc[g] /\ req'[g] = req[g] /\ missed'[g] = missed[g]
      BY <2>2 DEF WriteUnit, Respond, Forget, OccupancyInv, TypeOK
    <3>2. ASSUME req[g].op = "create", NEW x \in Handlers \ {g}
          PROVE  req'[x].agr # req[g].agr
      BY <3>2, KindOK DEF CreateOK, WriteUnit, Respond, NoRequest, OccupancyInv, TypeOK
    <3> QED
      BY <1>2, <3>1, <3>2, Untouched
  <2> QED
    BY <2>1, <2>2
<1>6. OccupancyExact'
  <2> SUFFICES ASSUME NEW v \in Units, v \notin drifted'
               PROVE  unit'[v] = "OCCUPIED" <=> Leased(v)'
    BY DEF OccupancyExact
  <2>1. Leased(v)' <=> Leased(v)
    BY <1>2 DEF Leased
  <2>2. CASE v = u
    <3>1. (s = "OCCUPIED") = Leased(u)
      BY <1>2, <2>2 DEF If
    <3> QED
      BY <1>2, <2>1, <2>2, <3>1 DEF OccupancyInv, TypeOK
  <2>3. CASE v # u
    BY <1>2, <2>1, <2>3 DEF OccupancyInv, OccupancyExact, TypeOK
  <2> QED
    BY <2>2, <2>3
<1> QED
  BY <1>3, <1>4, <1>5, <1>6 DEF OccupancyInv

(* A removed tenant has no row that a status or a lease depends on.        *)
LEMMA RemoveTenantStep ==
    ASSUME OccupancyInv, NEW h \in Handlers, RemoveTenantCommit(h)
    PROVE  OccupancyInv'
<1>1. pc'[h] = "idle" /\ req'[h] = NoRequest /\ missed'[h] = {}
  BY DEF RemoveTenantCommit, Respond, Forget, OccupancyInv, TypeOK
<1>2. req[h].tenant \in Tenants
  BY KindOK DEF RemoveTenantCommit, Ready, ByHandOK
<1>3. TypeOK'
  BY <1>2, NothingTyped
  DEF RemoveTenantCommit, Respond, Forget, OccupancyInv, TypeOK
<1>4. RowsOK' /\ LeasesExclusive' /\ OccupancyExact'
  BY DEF RemoveTenantCommit, OccupancyInv, RowsOK, LeasesExclusive, OccupancyExact, Leased
<1>5. ASSUME NEW g \in Handlers PROVE RequestOK(g)' /\ KnownFree(g)' /\ KnownRow(g)'
  <2>1. CASE g = h
    BY <1>1, <2>1, ForgottenOK
  <2>2. CASE g # h
    <3>1. pc'[g] = pc[g] /\ req'[g] = req[g] /\ missed'[g] = missed[g]
      BY <2>2 DEF RemoveTenantCommit, Respond, Forget, OccupancyInv, TypeOK
    <3>2. ASSUME req[g].op = "create", NEW x \in Handlers \ {g}
          PROVE  req'[x].agr # req[g].agr
      BY <3>2, KindOK
      DEF CreateOK, RemoveTenantCommit, Respond, NoRequest, OccupancyInv, TypeOK
    <3> QED
      BY <3>1, <3>2, Untouched DEF RemoveTenantCommit
  <2> QED
    BY <2>1, <2>2
<1> QED
  BY <1>3, <1>4, <1>5 DEF OccupancyInv

-----------------------------------------------------------------------------
(* The specification.                                                      *)

(* The initial states: no request, no lease.                               *)
LEMMA InitOK == Init => OccupancyInv
<1> SUFFICES ASSUME Init PROVE OccupancyInv
  OBVIOUS
<1>1. ASSUME NEW a \in Agreements
      PROVE  /\ agreement[a] \in Row
             /\ agreement[a].status # "ACTIVE"
             /\ agreement[a] = NoRow
                \/ /\ agreement[a].unit \in Units
                   /\ agreement[a].tenant \in Tenants
                   /\ agreement[a].status \in AgreementStatus
  <2>1. CASE Past = {}
    BY <2>1, NothingTyped DEF Init, NoRow
  <2>2. CASE Past # {}
    <3>1. agreement[a] \in [tenant : Tenants, unit : Units, status : Past]
      BY <2>2 DEF Init
    <3> QED
      BY <3>1 DEF Row
  <2> QED
    BY <2>1, <2>2
<1>2. TypeOK
  BY <1>1, NothingTyped DEF Init, TypeOK
<1>3. RowsOK
  BY <1>1 DEF RowsOK
<1>4. ASSUME NEW h \in Handlers PROVE RequestOK(h) /\ KnownFree(h) /\ KnownRow(h)
  <2>1. pc[h] = "idle" /\ req[h] = NoRequest
    BY DEF Init
  <2> QED
    BY <2>1 DEF RequestOK, KnownFree, KnownRow, ChecksUnit, ChecksTenant,
                NoRequest, TargetStatus, NoRow, AllOps
<1>5. LeasesExclusive /\ OccupancyExact
  BY <1>1 DEF Init, LeasesExclusive, OccupancyExact, Leased, ActiveOn
<1> QED
  BY <1>2, <1>3, <1>4, <1>5 DEF OccupancyInv

(* Every step preserves the invariant.                                     *)
LEMMA NextOK == OccupancyInv /\ [Next]_vars => OccupancyInv'
<1> SUFFICES ASSUME OccupancyInv, [Next]_vars PROVE OccupancyInv'
  OBVIOUS
<1>1. CASE UNCHANGED vars
  <2>1. ASSUME NEW g \in Handlers PROVE RequestOK(g)' /\ KnownFree(g)' /\ KnownRow(g)'
    <3>1. req[g].op = "create" => CreateOK(g)
      BY KindOK
    <3> QED
      BY <1>1, <3>1, Untouched DEF vars, CreateOK
  <2>2. TypeOK' /\ RowsOK' /\ LeasesExclusive' /\ OccupancyExact'
    BY <1>1 DEF vars, OccupancyInv, TypeOK, RowsOK, LeasesExclusive, OccupancyExact, Leased
  <2> QED
    BY <2>1, <2>2 DEF OccupancyInv
<1>2. ASSUME NEW h \in Handlers, Start(h) PROVE OccupancyInv'
  <2>1. ASSUME NEW a \in Agreements, NEW u \in Units, NEW t \in Tenants,
               CreateBegin(h, a, u, t)
        PROVE  OccupancyInv'
    BY <2>1, CreateBeginStep
  <2>2. ASSUME NEW a \in Agreements, NEW u \in UnitFields, NEW t \in TenantFields,
               NEW s \in Targets, UpdateBegin(h, a, u, t, s)
        PROVE  OccupancyInv'
    BY <2>2, UpdateBeginStep
  <2>3. ASSUME NEW a \in Agreements, EndBegin(h, a) PROVE OccupancyInv'
    BY <2>3, EndBeginStep
  <2>4. ASSUME NEW u \in Units, NEW s \in HandStatuses, UnitBegin(h, "setUnit", u, s)
        PROVE  OccupancyInv'
    BY <2>4, ByHandBeginStep DEF UnitBegin
  <2>5. ASSUME NEW u \in Units, UnitBegin(h, "removeUnit", u, None) PROVE OccupancyInv'
    BY <2>5, ByHandBeginStep DEF UnitBegin
  <2>6. ASSUME NEW t \in Tenants, RemoveTenantBegin(h, t) PROVE OccupancyInv'
    BY <2>6, ByHandBeginStep DEF RemoveTenantBegin
  <2> QED
    BY <1>2, <2>1, <2>2, <2>3, <2>4, <2>5, <2>6 DEF Start
<1>3. ASSUME NEW h \in Handlers, Continue(h) PROVE OccupancyInv'
  <2>1. ASSUME NEW c \in Checks, Check(h, c) PROVE OccupancyInv'
    BY <2>1, CheckStep
  <2>2. ASSUME NEW c \in Checks, Reject(h, c) PROVE OccupancyInv'
    BY <2>2, RespondStep DEF Reject
  <2>3. CASE CreateCommit(h)
    BY <2>3, CreateCommitStep
  <2>4. CASE LockAgreement(h)
    <3>1. req[h].op \in {"update", "end"} /\ req[h].todo = {} /\ pc[h] = "checking"
      BY <2>4 DEF LockAgreement, Ready
    <3>2. AmendOK(h)
      BY <3>1, KindOK
    <3>3. ~req[h].vacate
      BY <3>1, <3>2 DEF AmendOK
    <3> QED
      BY <2>4, <3>1, <3>3, AdvanceStep DEF LockAgreement
  <2>5. CASE OccupyUnit(h)
    <3>1. pc[h] = "marked" /\ RequestOK(h) /\ req[h] \in Request
      BY <2>5 DEF OccupyUnit, OccupancyInv, TypeOK
    <3>2. req[h].op \in {"update", "end"}
      BY <3>1 DEF RequestOK, CreateOK, ByHandOK, Request, AllOps
    <3>3. AmendOK(h)
      BY <3>2, KindOK
    <3>4. ~req[h].vacate /\ req[h].todo = {}
      BY <3>1, <3>3 DEF AmendOK
    <3> QED
      BY <2>5, <3>2, <3>4, AdvanceStep DEF OccupyUnit
  <2>6. CASE ScanOldUnit(h)
    BY <2>6, ScanStep
  <2>7. CASE AmendCommit(h)
    BY <2>7, AmendCommitStep
  <2>8. CASE SetUnitCommit(h)
    <3>1. req[h].unit \in Units /\ req[h].status \in UnitStatus
      BY <2>8, KindOK DEF SetUnitCommit, Ready, ByHandOK
    <3>2. removed' \subseteq Units \cup Tenants
      BY <2>8 DEF SetUnitCommit, OccupancyInv, TypeOK
    <3> QED
      BY <2>8, <3>1, <3>2, WriteUnitStep DEF SetUnitCommit
  <2>9. CASE RemoveUnitCommit(h)
    <3>1. req[h].unit \in Units
      BY <2>9, KindOK DEF RemoveUnitCommit, Ready, ByHandOK
    <3>2. removed' \subseteq Units \cup Tenants
      BY <2>9, <3>1 DEF RemoveUnitCommit, OccupancyInv, TypeOK
    <3> QED
      BY <2>9, <3>1, <3>2, WriteUnitStep DEF RemoveUnitCommit, UnitStatus
  <2>10. CASE RemoveTenantCommit(h)
    BY <2>10, RemoveTenantStep
  <2> QED
    BY <1>3, <2>1, <2>2, <2>3, <2>4, <2>5, <2>6, <2>7, <2>8, <2>9, <2>10 DEF Continue
<1>4. ASSUME NEW h \in Handlers, Fail(h) PROVE OccupancyInv'
  BY <1>4, RespondStep DEF Fail
<1> QED
  BY <1>1, <1>2, <1>3, <1>4 DEF Next

(* The invariant holds in every reachable state, for every number of       *)
(* requests running at once, agreements, units and tenants.                *)
THEOREM OccupancyInvariant == Spec => []OccupancyInv
  BY InitOK, NextOK, PTL DEF Spec

(* Every variable keeps its type, whatever requests run.                   *)
THEOREM TypesHold == Spec => []TypeOK
<1>1. OccupancyInv => TypeOK
  BY DEF OccupancyInv
<1> QED
  BY <1>1, OccupancyInvariant, PTL

(* The checks of create and update keep leases apart, on units and         *)
(* tenants, except where no query was made or another commit overtook it.  *)
THEOREM LeasesStayExclusive == Spec => []LeasesExclusive
<1>1. OccupancyInv => LeasesExclusive
  BY DEF OccupancyInv
<1> QED
  BY <1>1, OccupancyInvariant, PTL

(* The writes of a unit's status keep it OCCUPIED exactly while it is let, *)
(* except where it was set by hand or a transaction was overtaken.         *)
THEOREM OccupancyStaysExact == Spec => []OccupancyExact
<1>1. OccupancyInv => OccupancyExact
  BY DEF OccupancyInv
<1> QED
  BY <1>1, OccupancyInvariant, PTL

=============================================================================
