-------------------------- MODULE LeaseBookProofs --------------------------
(***************************************************************************)
(* When requests that run at the same time concern nothing in common, and  *)
(* no update gives an agreement the status ACTIVE, the services implement  *)
(* the book of LeaseBook, for every set of handlers, agreements, units and *)
(* tenants, whatever requests fail half-way.                               *)
(*                                                                         *)
(* Apart, a request misses nothing, so what it has found out still stands  *)
(* when it commits (Quiet).  Every agreement then becomes active on sides  *)
(* that were queried, no agreement is doubtful, and the tenant of a unit's *)
(* one ACTIVE agreement is its holder (HolderIs).                          *)
(***************************************************************************)
EXTENDS OccupancyProofs

USE NoneAssumption, StatusAssumption

(* Requests come one after another.                                        *)
Alone == \A g, h \in Handlers : g = h

(* No update gives the status ACTIVE.                                      *)
NeverRevived == "ACTIVE" \notin Targets

(* What a request has found out still stands: the row findOne read, and    *)
(* that the unit and the tenant it newly names are not removed.            *)
Standing(h) ==
    LET r == req[h] IN
    /\ r.op \in {"update", "end"} => r.status # "ACTIVE" /\ r.old = agreement[r.agr]
    /\ r.op \in {"create", "update", "end"} =>
         /\ r.unit \notin {None, r.old.unit} /\ "unitExists" \notin r.todo
              => r.unit \notin removed
         /\ r.tenant \notin {None, r.old.tenant} /\ "tenantExists" \notin r.todo
              => r.tenant \notin removed

Quiet ==
    /\ \A h \in Handlers : missed[h] = {} /\ Standing(h)
    /\ \A a \in Agreements : doubtful[a] = {}

-----------------------------------------------------------------------------
(* Apart, a request misses nothing and leaves no doubt.                    *)

(* An idle handler has found out nothing.                                  *)
LEMMA IdleStanding ==
    ASSUME NEW h \in Handlers, req[h] = NoRequest
    PROVE  Standing(h)
<1>0. NoRequest.op \notin AllOps
  BY DEF NoRequest
<1>1. req[h].op \notin AllOps
  BY <1>0
<1> QED
  BY <1>1 DEF Standing, AllOps

(* At the start there is nothing to miss.                                  *)
LEMMA InitQuiet == Init => Quiet
  BY IdleStanding DEF Init, Quiet

(* The requests beside a step of h that leaves the rows alone.             *)
OthersKept(h) ==
    /\ UNCHANGED <<agreement, removed>>
    /\ \A g \in Handlers \ {h} : req'[g] = req[g] /\ missed'[g] = missed[g]

(* A step that leaves the rows alone keeps what the requests have found    *)
(* out.                                                                    *)
LEMMA QuietRead ==
    ASSUME Quiet, NEW h \in Handlers, OthersKept(h),
           doubtful' = doubtful, missed'[h] = {}, Standing(h)'
    PROVE  Quiet'
<1>1. ASSUME NEW g \in Handlers \ {h} PROVE missed'[g] = {} /\ Standing(g)'
  BY DEF OthersKept, Quiet, Standing
<1> QED
  BY <1>1 DEF Quiet

(* A request that ends without a doubt leaves it to the others.            *)
LEMMA QuietEnd ==
    ASSUME OccupancyInv, NEW h \in Handlers, Respond(h), missed'[h] = {},
           \A g \in Handlers \ {h} : missed'[g] = {} /\ Standing(g)',
           \A a \in Agreements : doubtful'[a] = {}
    PROVE  Quiet'
<1>2. req'[h] = NoRequest
  BY DEF Respond, OccupancyInv, TypeOK
<1>3. Standing(h)'
  <2>0. NoRequest.op \notin AllOps
    BY DEF NoRequest
  <2>1. req'[h].op \notin AllOps
    BY <1>2, <2>0
  <2> QED
    BY <2>1 DEF Standing, AllOps
<1> QED
  BY <1>3 DEF Quiet

(* A request that ends without a write leaves nothing to miss.             *)
LEMMA QuietReply ==
    ASSUME OccupancyInv, Quiet, NEW h \in Handlers, Respond(h), Forget(h),
           UNCHANGED <<agreement, removed, doubtful>>
    PROVE  Quiet'
<1>1. /\ missed'[h] = {}
      /\ \A g \in Handlers \ {h} : req'[g] = req[g] /\ missed'[g] = missed[g]
  BY DEF Respond, Forget, OccupancyInv, TypeOK
<1>2. ASSUME NEW g \in Handlers \ {h} PROVE missed'[g] = {} /\ Standing(g)'
  BY <1>1 DEF Quiet, Standing
<1> QED
  BY <1>1, <1>2, QuietEnd DEF Quiet

(* What a request concerns, field by field.                                *)
LEMMA ConcernsFields ==
    ASSUME NEW g \in Handlers, NEW x, x # None, req[g].op # "setUnit",
           x \in {req[g].agr, req[g].unit, req[g].tenant, req[g].old.unit,
                  req[g].old.tenant}
    PROVE  x \in Concerns(g)
  BY DEF Concerns

(* A commit on rows that concern no other request is missed by none.       *)
LEMMA MissNothing ==
    ASSUME OccupancyInv, Quiet, Apart, NEW h \in Handlers, NEW g \in Handlers \ {h},
           req[h].op \in {"create", "update", "end"},
           NEW a \in Agreements, a = req[h].agr, NEW row,
           agreement' = [agreement EXCEPT ![a] = row],
           Respond(h), Publish(h, a, row), UNCHANGED removed,
           row.unit \in Concerns(h), row.tenant \in Concerns(h),
           agreement[a].unit \in Concerns(h) \cup {None}
    PROVE  missed'[g] = {} /\ Standing(g)'
<1> DEFINE r == req[g]
           was == agreement[a]
<1>1. Concerns(g) \cap Concerns(h) = {}
  BY DEF Apart
<1>2. a \in Concerns(h)
  <2>1. a # None /\ req[h].op # "setUnit"
    OBVIOUS
  <2> QED
    BY <2>1, ConcernsFields
<1>3. r.agr # a
  <2>1. r.agr = a => r.op # "setUnit"
    BY KindOK DEF ByHandOK
  <2> QED
    BY <1>1, <1>2, <2>1, ConcernsFields
<1>4. ASSUME ChecksUnit(r) \/ ChecksTenant(r)
      PROVE  r.op # "setUnit"
  <2>1. r.op = "setUnit" => r.status \in UnitStatus
    BY KindOK DEF ByHandOK
  <2>2. None \notin UnitStatus /\ "ACTIVE" \notin UnitStatus
    BY DEF UnitStatus
  <2> QED
    BY <1>4, <2>1, <2>2 DEF ChecksUnit, ChecksTenant, TargetStatus
<1>5. ChecksUnit(r) => row.unit # r.unit
  BY <1>1, <1>4, ConcernsFields DEF ChecksUnit
<1>6. ChecksTenant(r) => row.tenant # r.tenant
  BY <1>1, <1>4, ConcernsFields DEF ChecksTenant
<1>7. pc[g] = "decided" => row.unit # r.old.unit /\ was.unit # r.old.unit
  <2> SUFFICES ASSUME pc[g] = "decided"
               PROVE  row.unit # r.old.unit /\ was.unit # r.old.unit
    OBVIOUS
  <2>1. r.op \in {"update", "end"} /\ AmendOK(g)
    BY KindOK DEF OccupancyInv, RequestOK, TypeOK, Request, AllOps, CreateOK, ByHandOK
  <2>2. r.old.unit \in Units /\ r.old.unit # None
    BY <2>1 DEF AmendOK
  <2>3. r.old.unit \in Concerns(g)
    BY <2>1, <2>2, ConcernsFields
  <2> QED
    BY <1>1, <2>2, <2>3
<1>8. MissedBeside(g, was, row) = {}
  BY <1>5, <1>6, <1>7 DEF MissedBeside, ActiveOn, If
<1>9. missed'[g] = {}
  BY <1>3, <1>8 DEF Publish, Quiet, OccupancyInv, TypeOK
<1>10. req'[g] = r /\ removed' = removed
  BY DEF Respond, OccupancyInv, TypeOK
<1>11. r.op \in {"update", "end"} => agreement'[r.agr] = agreement[r.agr]
  BY <1>3, KindOK DEF AmendOK, OccupancyInv, TypeOK
<1>12. Standing(g)'
  BY <1>10, <1>11 DEF Quiet, Standing
<1> QED
  BY <1>9, <1>12

(* The removal of what concerns no other request is missed by none.        *)
LEMMA RemovalUnseen ==
    ASSUME OccupancyInv, Quiet, Apart, NEW h \in Handlers, NEW g \in Handlers \ {h},
           NEW x \in Concerns(h), Respond(h), Forget(h),
           UNCHANGED agreement, removed' = removed \cup {x}
    PROVE  missed'[g] = {} /\ Standing(g)'
<1> DEFINE r == req[g]
<1>1. x \notin Concerns(g)
  BY DEF Apart
<1>2. r.op \in {"create", "update", "end"} =>
        /\ r.unit # None => r.unit # x
        /\ r.tenant # None => r.tenant # x
  BY <1>1, ConcernsFields
<1>3. req'[g] = r /\ missed'[g] = missed[g]
  BY DEF Respond, Forget, OccupancyInv, TypeOK
<1> QED
  BY <1>2, <1>3 DEF Quiet, Standing

(* A request begins with the row it has read and every query it needs      *)
(* ahead of it.                                                            *)
LEMMA QuietBegin ==
    ASSUME OccupancyInv, Quiet, NEW h \in Handlers, NEW r, Begin(h, r),
           r.op \in {"update", "end"} => r.status # "ACTIVE" /\ r.old = agreement[r.agr],
           r.op \in {"create", "update", "end"} =>
             /\ r.unit \notin {None, r.old.unit} => "unitExists" \in r.todo
             /\ r.tenant \notin {None, r.old.tenant} => "tenantExists" \in r.todo
    PROVE  Quiet'
<1>1. /\ req'[h] = r /\ missed'[h] = {} /\ doubtful' = doubtful
      /\ agreement' = agreement /\ OthersKept(h)
  BY DEF Begin, Forget, OthersKept, OccupancyInv, TypeOK
<1>2. Standing(h)'
  BY <1>1 DEF Standing
<1> QED
  BY <1>1, <1>2, QuietRead

(* Every kind of request begins so.                                        *)
LEMMA QuietStart ==
    ASSUME OccupancyInv, Quiet, NeverRevived, NEW h \in Handlers, Start(h)
    PROVE  Quiet'
<1>1. ASSUME NEW a \in Agreements, NEW u \in Units, NEW t \in Tenants,
             CreateBegin(h, a, u, t)
      PROVE  Quiet'
  BY <1>1, QuietBegin DEF CreateBegin, Checks
<1>2. ASSUME NEW a \in Agreements, NEW u \in UnitFields, NEW t \in TenantFields,
             NEW s \in Targets, UpdateBegin(h, a, u, t, s)
      PROVE  Quiet'
  <2> DEFINE todo == UpdateChecks(AmendRequest("update", a, u, t, s, {}))
             r == AmendRequest("update", a, u, t, s, todo)
  <2>1. Begin(h, r)
    BY <1>2 DEF UpdateBegin
  <2>2. /\ r.op = "update" /\ r.agr = a /\ r.unit = u /\ r.tenant = t /\ r.status = s
        /\ r.old = agreement[a] /\ r.todo = todo
    BY DEF AmendRequest
  <2>3. /\ u \notin {None, agreement[a].unit} => "unitExists" \in todo
        /\ t \notin {None, agreement[a].tenant} => "tenantExists" \in todo
    BY DEF AmendRequest, UpdateChecks, If
  <2>4. s # "ACTIVE"
    BY DEF NeverRevived
  <2> HIDE DEF todo, r
  <2> QED
    BY <2>1, <2>2, <2>3, <2>4, QuietBegin
<1>3. ASSUME NEW a \in Agreements, EndBegin(h, a)
      PROVE  Quiet'
  BY <1>3, QuietBegin DEF EndBegin, AmendRequest
<1>4. ASSUME NEW op \in {"setUnit", "removeUnit", "removeTenant"}, NEW u, NEW t, NEW s,
             Begin(h, HandRequest(op, u, t, s))
      PROVE  Quiet'
  BY <1>4, QuietBegin DEF HandRequest
<1> QED
  BY <1>1, <1>2, <1>3, <1>4 DEF Start, UnitBegin, RemoveTenantBegin

(* A query that passes is an answer that stands.                           *)
LEMMA QuietCheck ==
    ASSUME OccupancyInv, Quiet, NEW h \in Handlers, NEW c \in Checks, Check(h, c)
    PROVE  Quiet'
<1> DEFINE r == req[h]
<1>1. /\ missed'[h] = {} /\ doubtful' = doubtful
      /\ agreement' = agreement /\ removed' = removed /\ OthersKept(h)
  BY DEF Check, OthersKept, Quiet, OccupancyInv, TypeOK
<1>2. /\ req'[h].op = r.op /\ req'[h].agr = r.agr /\ req'[h].unit = r.unit
      /\ req'[h].tenant = r.tenant /\ req'[h].status = r.status /\ req'[h].old = r.old
      /\ req'[h].todo = r.todo \ {c}
  BY DEF Check, OccupancyInv, TypeOK, Request
<1>3. /\ c = "unitExists" => r.unit \notin removed
      /\ c = "tenantExists" => r.tenant \notin removed
  <2>1. Passes(r, c)
    BY DEF Check
  <2>2. c = "unitExists" => r.unit \notin removed
    BY <2>1 DEF Passes, UnitChecks, TenantChecks
  <2>3. c = "tenantExists" => r.tenant \notin removed
    BY <2>1 DEF Passes, UnitChecks, TenantChecks
  <2> QED
    BY <2>2, <2>3
<1>4. Standing(h)'
  BY <1>1, <1>2, <1>3 DEF Quiet, Standing
<1> QED
  BY <1>1, <1>4, QuietRead

(* A commit is in doubt on no side that the code has queried.              *)
LEMMA DoubtNone ==
    ASSUME OccupancyInv, Quiet, NEW h \in Handlers, NEW a \in Agreements, NEW row,
           Doubt(h, a, row),
           row.status = "ACTIVE" /\ ~ActiveOn(agreement[a], row.unit)
             => ChecksUnit(req[h]),
           row.status = "ACTIVE"
             /\ ~(agreement[a].status = "ACTIVE" /\ agreement[a].tenant = row.tenant)
             => ChecksTenant(req[h])
    PROVE  \A x \in Agreements : doubtful'[x] = {}
  BY DEF Doubt, Quiet, If, OccupancyInv, TypeOK

(* What holds of a creation that commits: it has made every query.         *)
LEMMA CreateFacts ==
    ASSUME OccupancyInv, NEW h \in Handlers, CreateCommit(h)
    PROVE  /\ CreateOK(h)
           /\ req[h].todo = {} /\ req[h].op = "create"
           /\ ChecksUnit(req[h]) /\ ChecksTenant(req[h])
<1>1. CreateOK(h) /\ req[h].todo = {} /\ req[h].op = "create"
  BY KindOK DEF CreateCommit, Ready
<1>0. None # "ACTIVE" /\ None \notin Units /\ None \notin Tenants
  BY DEF AgreementStatus
<1>2. TargetStatus(req[h]) = "ACTIVE"
  BY <1>0, <1>1 DEF CreateOK, TargetStatus
<1>3. /\ req[h].old.unit = None /\ req[h].unit # None
      /\ req[h].old.tenant = None /\ req[h].tenant # None
  <2>1. NoRow.unit = None /\ NoRow.tenant = None
    BY DEF NoRow
  <2> QED
    BY <1>0, <1>1, <2>1 DEF CreateOK
<1> QED
  BY <1>1, <1>2, <1>3 DEF ChecksUnit, ChecksTenant

(* An amendment that leaves its agreement active found it active, and has  *)
(* asked for the unit and the tenant that are new to it.                   *)
LEMMA AmendAlone ==
    ASSUME OccupancyInv, Quiet, NEW h \in Handlers, AmendCommit(h),
           NEW was, was = agreement[req[h].agr], NEW row, row = Amended(req[h], was)
    PROVE  /\ was.unit \in Units /\ was.tenant \in Tenants
           /\ row.unit \in Units /\ row.tenant \in Tenants
           /\ row.status = "ACTIVE" => was.status = "ACTIVE"
           /\ row.status = "ACTIVE" /\ row.unit # was.unit =>
                ChecksUnit(req[h]) /\ req[h].unit = row.unit
           /\ row.status = "ACTIVE" /\ row.tenant # was.tenant =>
                ChecksTenant(req[h]) /\ req[h].tenant = row.tenant
<1> DEFINE r == req[h]
<1>1. r.op \in {"update", "end"} /\ AmendOK(h) /\ r \in Request
  BY AmendFacts DEF OccupancyInv, TypeOK
<1>2. r.old = was /\ r.status # "ACTIVE"
  BY <1>1 DEF Quiet, Standing
<1>3. was.unit \in Units /\ was.tenant \in Tenants
  BY <1>1, <1>2 DEF AmendOK
<1>4. /\ r.unit \in Units \cup {None} /\ r.tenant \in Tenants \cup {None}
  BY <1>1 DEF Request
<1>5. /\ row.tenant = IF r.tenant = None THEN was.tenant ELSE r.tenant
      /\ row.unit = IF r.unit = None THEN was.unit ELSE r.unit
      /\ row.status = IF r.status = None THEN was.status ELSE r.status
  BY DEF Amended
<1>6. row.status = "ACTIVE" => r.status = None /\ was.status = "ACTIVE"
  BY <1>2, <1>5
<1> QED
  BY <1>2, <1>3, <1>4, <1>5, <1>6 DEF ChecksUnit, ChecksTenant, TargetStatus

(* The commits of create, update and end.                                  *)
LEMMA QuietCreate ==
    ASSUME OccupancyInv, Quiet, Apart, NEW h \in Handlers, CreateCommit(h)
    PROVE  Quiet'
<1> DEFINE r == req[h]
           row == [tenant |-> r.tenant, unit |-> r.unit, status |-> "ACTIVE"]
<1>1. CreateOK(h) /\ r.op = "create" /\ ChecksUnit(r) /\ ChecksTenant(r)
  BY CreateFacts
<1>2. \A x \in Agreements : doubtful'[x] = {}
  BY <1>1, DoubtNone DEF CreateCommit, CreateOK
<1>3. missed'[h] = {}
  BY DEF CreateCommit, Publish
<1>4. /\ r.agr \in Agreements /\ agreement[r.agr].unit = None
      /\ r.unit \in Units /\ r.tenant \in Tenants
  BY <1>1 DEF CreateOK, NoRow
<1>5. row.unit = r.unit /\ row.tenant = r.tenant
  OBVIOUS
<1>6. r.unit \in Concerns(h) /\ r.tenant \in Concerns(h)
  BY <1>1, <1>4, ConcernsFields
<1>7. /\ agreement' = [agreement EXCEPT ![r.agr] = row]
      /\ Respond(h) /\ Publish(h, r.agr, row) /\ removed' = removed
  BY DEF CreateCommit
<1> HIDE DEF row
<1>8. ASSUME NEW g \in Handlers \ {h} PROVE missed'[g] = {} /\ Standing(g)'
  <2>1. PICK a \in Agreements : a = r.agr
    BY <1>4
  <2> QED
    BY <1>1, <1>4, <1>5, <1>6, <1>7, <2>1, MissNothing
<1> QED
  BY <1>2, <1>3, <1>7, <1>8, QuietEnd

LEMMA QuietAmend ==
    ASSUME OccupancyInv, Quiet, Apart, NEW h \in Handlers, AmendCommit(h)
    PROVE  Quiet'
<1> DEFINE r == req[h]
           was == agreement[r.agr]
           row == Amended(r, was)
<1>1. /\ row.status = "ACTIVE" => was.status = "ACTIVE"
      /\ row.status = "ACTIVE" /\ row.unit # was.unit => ChecksUnit(r)
      /\ row.status = "ACTIVE" /\ row.tenant # was.tenant => ChecksTenant(r)
      /\ was.unit \in Units /\ row.unit \in Units /\ row.tenant \in Tenants
  BY AmendAlone
<1>2. r.op \in {"update", "end"} /\ r.agr \in Agreements /\ r.old = was
  BY AmendFacts DEF AmendOK, Quiet, Standing
<1>3. /\ agreement' = [agreement EXCEPT ![r.agr] = row]
      /\ Respond(h) /\ Publish(h, r.agr, row) /\ Doubt(h, r.agr, row)
      /\ removed' = removed
  BY DEF AmendCommit
<1>4. /\ row.unit \in {r.unit, r.old.unit}
      /\ row.tenant \in {r.tenant, r.old.tenant}
  BY <1>2 DEF Amended
<1> HIDE DEF row
<1>5. \A x \in Agreements : doubtful'[x] = {}
  BY <1>1, <1>2, <1>3, DoubtNone DEF ActiveOn
<1>6. missed'[h] = {}
  BY <1>3 DEF Publish
<1>7. /\ row.unit \in Concerns(h) /\ row.tenant \in Concerns(h)
      /\ was.unit \in Concerns(h)
  <2>1. row.unit # None /\ row.tenant # None /\ was.unit # None /\ r.op # "setUnit"
    BY <1>1, <1>2
  <2> QED
    BY <1>2, <1>4, <2>1, ConcernsFields
<1>8. ASSUME NEW g \in Handlers \ {h} PROVE missed'[g] = {} /\ Standing(g)'
  <2>1. PICK a \in Agreements : a = r.agr
    BY <1>2
  <2> QED
    BY <1>2, <1>3, <1>7, <2>1, MissNothing
<1> QED
  BY <1>3, <1>5, <1>6, <1>8, QuietEnd

(* The removal of a unit or a tenant.                                      *)
LEMMA QuietRemove ==
    ASSUME OccupancyInv, Quiet, Apart, NEW h \in Handlers,
           NEW x \in Concerns(h), Respond(h), Forget(h),
           UNCHANGED <<agreement, doubtful>>, removed' = removed \cup {x}
    PROVE  Quiet'
<1>1. missed'[h] = {}
  BY DEF Forget, OccupancyInv, TypeOK
<1>2. ASSUME NEW g \in Handlers \ {h} PROVE missed'[g] = {} /\ Standing(g)'
  BY <1>2, RemovalUnseen
<1> QED
  BY <1>1, <1>2, QuietEnd DEF Quiet

(* The later steps find the rows as the request read them.                 *)
LEMMA QuietContinue ==
    ASSUME OccupancyInv, Quiet, Apart, NEW h \in Handlers, Continue(h)
    PROVE  Quiet'
<1>1. ASSUME NEW c \in Checks, Check(h, c) PROVE Quiet'
  BY <1>1, QuietCheck
<1>2. ASSUME NEW c \in Checks, Reject(h, c) PROVE Quiet'
  BY <1>2, QuietReply DEF Reject
<1>4. CASE LockAgreement(h) \/ OccupyUnit(h)
  <2>1. UNCHANGED <<agreement, removed, doubtful, req, missed>>
    BY <1>4 DEF LockAgreement, OccupyUnit, Advance
  <2> QED
    BY <2>1 DEF Quiet, Standing
<1>5. CASE ScanOldUnit(h)
  <2>1. /\ UNCHANGED <<agreement, removed, doubtful>> /\ missed'[h] = {}
        /\ OthersKept(h)
    BY <1>5 DEF ScanOldUnit, OthersKept, Advance, Quiet, OccupancyInv, TypeOK
  <2>2. /\ req'[h].op = req[h].op /\ req'[h].agr = req[h].agr
        /\ req'[h].unit = req[h].unit /\ req'[h].tenant = req[h].tenant
        /\ req'[h].status = req[h].status /\ req'[h].old = req[h].old
        /\ req'[h].todo = req[h].todo
    BY <1>5 DEF ScanOldUnit, OccupancyInv, TypeOK, Request
  <2>3. Standing(h)'
    BY <2>1, <2>2 DEF Quiet, Standing
  <2> QED
    BY <2>1, <2>3, QuietRead
<1>7. CASE SetUnitCommit(h)
  BY <1>7, QuietReply DEF SetUnitCommit, WriteUnit
<1>8. CASE RemoveUnitCommit(h)
  <2>1. req[h].unit \in Units /\ req[h].op = "removeUnit"
    BY <1>8, KindOK DEF RemoveUnitCommit, Ready, ByHandOK
  <2>2. PICK x \in Concerns(h) : x = req[h].unit
    <3>1. req[h].unit # None
      BY <2>1
    <3> QED
      BY <2>1, <3>1, ConcernsFields
  <2> QED
    BY <1>8, <2>2, QuietRemove DEF RemoveUnitCommit, WriteUnit
<1>9. CASE RemoveTenantCommit(h)
  <2>1. req[h].tenant \in Tenants /\ req[h].op = "removeTenant"
    BY <1>9, KindOK DEF RemoveTenantCommit, Ready, ByHandOK
  <2>2. PICK x \in Concerns(h) : x = req[h].tenant
    <3>1. req[h].tenant # None
      BY <2>1
    <3> QED
      BY <2>1, <3>1, ConcernsFields
  <2> QED
    BY <1>9, <2>2, QuietRemove DEF RemoveTenantCommit
<1> QED
  BY <1>1, <1>2, <1>4, <1>5, <1>7, <1>8, <1>9, QuietCreate, QuietAmend DEF Continue

(* So does every step, failures included.                                  *)
LEMMA QuietStep ==
    ASSUME OccupancyInv, Quiet, Apart, NeverRevived, [Next]_vars
    PROVE  Quiet'
<1>1. ASSUME NEW h \in Handlers, Fail(h) PROVE Quiet'
  BY <1>1, QuietReply DEF Fail
<1>2. CASE UNCHANGED vars
  BY <1>2 DEF vars, Quiet, Standing
<1> QED
  BY <1>1, <1>2, QuietStart, QuietContinue DEF Next

-----------------------------------------------------------------------------
(* Who holds a unit.                                                       *)

(* Quiet, one ACTIVE agreement lets a unit, and its tenant is the holder.  *)
LEMMA HolderIs ==
    ASSUME OccupancyInv, Quiet, NEW a \in Agreements, NEW u, ActiveOn(agreement[a], u)
    PROVE  Holder(u) = agreement[a].tenant
<1> DEFINE b == CHOOSE x \in Agreements : ActiveOn(agreement[x], u)
<1>1. b \in Agreements /\ ActiveOn(agreement[b], u)
  OBVIOUS
<1>2. Holder(u) = agreement[b].tenant
  BY DEF Holder, Leased
<1> HIDE DEF b
<1>3. a = b
  BY <1>1 DEF OccupancyInv, LeasesExclusive, ActiveOn, Quiet
<1> QED
  BY <1>2, <1>3

(* The same after a step.                                                  *)
LEMMA HolderIsNext ==
    ASSUME OccupancyInv', Quiet', NEW a \in Agreements, NEW u, ActiveOn(agreement'[a], u)
    PROVE  Holder(u)' = agreement'[a].tenant
<1> DEFINE b == CHOOSE x \in Agreements : ActiveOn(agreement'[x], u)
<1>1. b \in Agreements /\ ActiveOn(agreement'[b], u)
  OBVIOUS
<1>2. Holder(u)' = agreement'[b].tenant
  BY DEF Holder, Leased, ActiveOn
<1> HIDE DEF b
<1>3. a = b
  BY <1>1 DEF OccupancyInv, LeasesExclusive, ActiveOn, Quiet
<1> QED
  BY <1>2, <1>3

(* A commit that does not touch the leases of a unit leaves its holder.    *)
LEMMA HolderKept ==
    ASSUME OccupancyInv, OccupancyInv', Quiet, Quiet', NEW a \in Agreements, NEW u,
           \A x \in Agreements \ {a} : agreement'[x] = agreement[x],
           ~ActiveOn(agreement[a], u), ~ActiveOn(agreement'[a], u)
    PROVE  Holder(u)' = Holder(u)
<1>1. \A x \in Agreements : ActiveOn(agreement[x], u) <=> ActiveOn(agreement'[x], u)
  OBVIOUS
<1>2. CASE \E x \in Agreements : ActiveOn(agreement[x], u)
  <2>1. PICK x \in Agreements : ActiveOn(agreement[x], u)
    BY <1>2
  <2>2. x # a /\ agreement'[x] = agreement[x] /\ ActiveOn(agreement'[x], u)
    BY <2>1
  <2>3. Holder(u) = agreement[x].tenant
    BY <2>1, HolderIs
  <2>4. Holder(u)' = agreement'[x].tenant
    BY <2>2, HolderIsNext
  <2> QED
    BY <2>2, <2>3, <2>4
<1>3. CASE ~\E x \in Agreements : ActiveOn(agreement[x], u)
  <2>1. Holder(u) = None
    BY <1>3 DEF Holder, Leased
  <2>2. ~Leased(u)'
    BY <1>1, <1>3 DEF Leased, ActiveOn
  <2>3. Holder(u)' = None
    BY <2>2 DEF Holder
  <2> QED
    BY <2>1, <2>3
<1> QED
  BY <1>2, <1>3

(* A unit that has left its one agreement has no holder.                   *)
LEMMA HolderLeft ==
    ASSUME OccupancyInv, Quiet, NEW a \in Agreements, NEW u,
           \A x \in Agreements \ {a} : agreement'[x] = agreement[x],
           ActiveOn(agreement[a], u), ~ActiveOn(agreement'[a], u)
    PROVE  Holder(u)' = None
<1>1. ASSUME NEW x \in Agreements \ {a} PROVE ~ActiveOn(agreement'[x], u)
  BY DEF OccupancyInv, LeasesExclusive, ActiveOn, Quiet
<1>2. ~Leased(u)'
  BY <1>1 DEF Leased, ActiveOn
<1> QED
  BY <1>2 DEF Holder

(* A tenant without an ACTIVE agreement, a left out, holds no unit that a  *)
(* does not let to somebody else.                                          *)
LEMMA HoldsNothing ==
    ASSUME OccupancyInv, Quiet, NEW a \in Agreements, NEW t \in Tenants,
           TenantFree(t, a),
           ~(agreement[a].status = "ACTIVE" /\ agreement[a].tenant = t)
    PROVE  Leases!Homeless(t)
<1>1. ASSUME NEW u \in Units PROVE Holder(u) # t
  <2>1. CASE \E x \in Agreements : ActiveOn(agreement[x], u)
    <3>1. PICK x \in Agreements : ActiveOn(agreement[x], u)
      BY <2>1
    <3>2. Holder(u) = agreement[x].tenant
      BY <3>1, HolderIs
    <3>3. agreement[x].tenant # t
      BY <3>1 DEF TenantFree, ActiveOn
    <3> QED
      BY <3>2, <3>3
  <2>2. CASE ~\E x \in Agreements : ActiveOn(agreement[x], u)
    <3>1. Holder(u) = None
      BY <2>2 DEF Holder, Leased
    <3> QED
      BY <3>1
  <2> QED
    BY <2>1, <2>2
<1> QED
  BY <1>1 DEF Leases!Homeless

-----------------------------------------------------------------------------
(* Commits as operations of the book.                                      *)

Book == [u \in Units |-> Holder(u)]

(* A committed creation signs a lease of a free unit to a homeless tenant. *)
LEMMA CreateSigns ==
    ASSUME OccupancyInv, OccupancyInv', Quiet, Quiet', NEW h \in Handlers,
           CreateCommit(h), NEW u, NEW t, req[h].unit = u, req[h].tenant = t
    PROVE  u \in Units /\ t \in Tenants /\ Leases!Sign(u, t)
<1> DEFINE a == req[h].agr
<1>1. /\ CreateOK(h) /\ req[h].todo = {} /\ req[h].op = "create"
      /\ ChecksUnit(req[h]) /\ ChecksTenant(req[h])
  BY CreateFacts
<1>2. /\ a \in Agreements /\ u \in Units /\ t \in Tenants
      /\ agreement[a].status # "ACTIVE"
  BY <1>1 DEF CreateOK, NoRow
<1>3. UnitFree(u, a) /\ TenantFree(t, a)
  BY <1>1 DEF OccupancyInv, KnownFree, Quiet
<1>4. u \notin removed /\ t \notin removed
  BY <1>1 DEF Quiet, Standing, ChecksUnit, ChecksTenant
<1>5. Holder(u) = None
  BY <1>2, <1>3 DEF Holder, Leased, UnitFree, ActiveOn
<1>6. Leases!Homeless(t)
  BY <1>2, <1>3, HoldsNothing
<1>7. /\ \A x \in Agreements \ {a} : agreement'[x] = agreement[x]
      /\ agreement'[a] = [tenant |-> t, unit |-> u, status |-> "ACTIVE"]
      /\ removed' = removed
  BY <1>2 DEF CreateCommit, OccupancyInv, TypeOK
<1>8. Holder(u)' = t
  BY <1>2, <1>7, HolderIsNext DEF ActiveOn
<1>9. \A w \in Units \ {u} : Holder(w)' = Holder(w)
  BY <1>2, <1>7, HolderKept DEF ActiveOn
<1>10. Book' = [Book EXCEPT ![u] = t]
  BY <1>2, <1>8, <1>9 DEF Book
<1> QED
  BY <1>2, <1>4, <1>5, <1>6, <1>7, <1>10 DEF Leases!Sign, Book

(* What a commit does to the one row it writes.                            *)
LEMMA AmendWrites ==
    ASSUME OccupancyInv, NEW h \in Handlers, AmendCommit(h),
           NEW a, a = req[h].agr
    PROVE  /\ a \in Agreements
           /\ agreement'[a] = Amended(req[h], agreement[a])
           /\ \A x \in Agreements \ {a} : agreement'[x] = agreement[x]
           /\ removed' = removed
  BY AmendFacts DEF AmendCommit, AmendOK, OccupancyInv, TypeOK

(* What an amendment newly names was not removed when it asked.            *)
LEMMA NamedExists ==
    ASSUME OccupancyInv, Quiet, NEW h \in Handlers, AmendCommit(h)
    PROVE  /\ ChecksUnit(req[h]) => req[h].unit \notin removed
           /\ ChecksTenant(req[h]) => req[h].tenant \notin removed
<1>1. req[h].todo = {} /\ req[h].op \in {"update", "end"} /\ AmendOK(h)
  BY AmendFacts
<1> QED
  BY <1>1 DEF Quiet, Standing, ChecksUnit, ChecksTenant

(* An amendment that leaves its agreement active changes one lease.        *)
LEMMA AmendChanges ==
    ASSUME OccupancyInv, OccupancyInv', Quiet, Quiet', NEW h \in Handlers,
           AmendCommit(h), NEW a, a = req[h].agr,
           agreement'[a].status = "ACTIVE",
           NEW u, u = agreement[a].unit,
           NEW v, v = agreement'[a].unit, NEW t, t = agreement'[a].tenant
    PROVE  u \in Units /\ v \in Units /\ t \in Tenants /\ Leases!Change(u, v, t)
<1>1. /\ a \in Agreements
      /\ agreement'[a] = Amended(req[h], agreement[a])
      /\ \A x \in Agreements \ {a} : agreement'[x] = agreement[x]
      /\ removed' = removed
  BY AmendWrites
<1>2. /\ u \in Units /\ agreement[a].tenant \in Tenants
      /\ v \in Units /\ t \in Tenants
      /\ agreement[a].status = "ACTIVE"
      /\ v # u => ChecksUnit(req[h]) /\ req[h].unit = v
      /\ t # agreement[a].tenant => ChecksTenant(req[h]) /\ req[h].tenant = t
  BY <1>1, AmendAlone
<1>3. req[h].todo = {} /\ req[h].op \in {"update", "end"}
  BY AmendFacts
<1>4. Holder(u) = agreement[a].tenant
  BY <1>1, <1>2, HolderIs DEF ActiveOn
<1>5. ASSUME v # u
      PROVE  Holder(v) = None /\ v \notin removed
  <2>1. UnitFree(v, a)
    BY <1>2, <1>3, <1>5 DEF OccupancyInv, KnownFree, Quiet
  <2>2. ~Leased(v)
    BY <1>1, <1>5, <2>1 DEF Leased, UnitFree, ActiveOn
  <2>3. v \notin removed
    BY <1>2, <1>3, <1>5, NamedExists
  <2> QED
    BY <2>2, <2>3 DEF Holder
<1>6. ASSUME t # Holder(u)
      PROVE  Leases!Homeless(t) /\ t \notin removed
  <2>1. TenantFree(t, a)
    BY <1>2, <1>3, <1>4, <1>6 DEF OccupancyInv, KnownFree, Quiet
  <2>2. Leases!Homeless(t)
    BY <1>1, <1>2, <1>4, <1>6, <2>1, HoldsNothing
  <2>3. t \notin removed
    BY <1>2, <1>3, <1>4, <1>6, NamedExists
  <2> QED
    BY <2>2, <2>3
<1>7. Holder(v)' = t
  BY <1>1, HolderIsNext DEF ActiveOn
<1>8. v # u => Holder(u)' = None
  BY <1>1, <1>2, HolderLeft DEF ActiveOn
<1>9. \A w \in Units \ {u, v} : Holder(w)' = Holder(w)
  BY <1>1, HolderKept DEF ActiveOn
<1>10. Book' = [Book EXCEPT ![u] = None, ![v] = t]
  BY <1>2, <1>7, <1>8, <1>9 DEF Book
<1>11. Book[u] = Holder(u) /\ Book[v] = Holder(v)
  BY <1>2 DEF Book
<1>12. Book[u] # None
  BY <1>2, <1>4, <1>11
<1>13. v # u => Book[v] = None /\ v \notin removed
  BY <1>5, <1>11
<1>14. t # Book[u] => Leases!Homeless(t) /\ t \notin removed
  BY <1>6, <1>11
<1> QED
  BY <1>1, <1>2, <1>10, <1>12, <1>13, <1>14 DEF Leases!Change, Book

(* One that makes it inactive ends one lease.                              *)
LEMMA AmendLeaves ==
    ASSUME OccupancyInv, OccupancyInv', Quiet, Quiet', NEW h \in Handlers,
           AmendCommit(h), NEW a, a = req[h].agr,
           agreement[a].status = "ACTIVE", agreement'[a].status # "ACTIVE",
           NEW u, u = agreement[a].unit
    PROVE  u \in Units /\ Leases!Leave(u)
<1>1. /\ a \in Agreements
      /\ agreement'[a] = Amended(req[h], agreement[a])
      /\ \A x \in Agreements \ {a} : agreement'[x] = agreement[x]
      /\ removed' = removed
  BY AmendWrites
<1>2. u \in Units
  BY AmendAlone
<1>3. Holder(u)' = None
  BY <1>1, HolderLeft DEF ActiveOn
<1>4. \A w \in Units \ {u} : Holder(w)' = Holder(w)
  BY <1>1, HolderKept DEF ActiveOn
<1>5. Book' = [Book EXCEPT ![u] = None]
  BY <1>2, <1>3, <1>4 DEF Book
<1> QED
  BY <1>1, <1>2, <1>5 DEF Leases!Leave, Book

(* One of an inactive agreement is not in the book.                        *)
LEMMA AmendUnseen ==
    ASSUME OccupancyInv, OccupancyInv', Quiet, Quiet', NEW h \in Handlers,
           AmendCommit(h), NEW a, a = req[h].agr,
           agreement[a].status # "ACTIVE", agreement'[a].status # "ACTIVE"
    PROVE  UNCHANGED Leases!bookVars
<1>1. /\ a \in Agreements
      /\ \A x \in Agreements \ {a} : agreement'[x] = agreement[x]
      /\ removed' = removed
  BY AmendWrites
<1>2. \A w \in Units : Holder(w)' = Holder(w)
  BY <1>1, HolderKept DEF ActiveOn
<1> QED
  BY <1>1, <1>2 DEF Leases!bookVars

(* Nothing but the commits of agreements moves a holder.                   *)
LEMMA HoldersUnseen ==
    ASSUME agreement' = agreement
    PROVE  Book' = Book
<1>1. \A u \in Units : Holder(u)' = Holder(u)
  BY DEF Holder, Leased, ActiveOn
<1> QED
  BY <1>1 DEF Book

(* Every step of the services is an operation of the book or none.         *)
LEMMA StepOperates ==
    ASSUME OccupancyInv, OccupancyInv', Quiet, Quiet', [Next]_vars
    PROVE  [Leases!Operate]_(Leases!bookVars)
<1>1. ASSUME NEW h \in Handlers, CreateCommit(h)
      PROVE  Leases!Operate
  <2>1. PICK u, t : req[h].unit = u /\ req[h].tenant = t
    OBVIOUS
  <2>2. u \in Units /\ t \in Tenants /\ Leases!Sign(u, t)
    BY <1>1, <2>1, CreateSigns
  <2> QED
    BY <2>2 DEF Leases!Operate
<1>2. ASSUME NEW h \in Handlers, AmendCommit(h)
      PROVE  [Leases!Operate]_(Leases!bookVars)
  <2>1. PICK a, u, v, t : /\ a = req[h].agr /\ u = agreement[a].unit
                          /\ v = agreement'[a].unit /\ t = agreement'[a].tenant
    OBVIOUS
  <2>2. CASE agreement'[a].status = "ACTIVE"
    <3>1. u \in Units /\ v \in Units /\ t \in Tenants /\ Leases!Change(u, v, t)
      BY <1>2, <2>1, <2>2, AmendChanges
    <3> QED
      BY <3>1 DEF Leases!Operate
  <2>3. CASE agreement[a].status = "ACTIVE" /\ agreement'[a].status # "ACTIVE"
    <3>1. u \in Units /\ Leases!Leave(u)
      BY <1>2, <2>1, <2>3, AmendLeaves
    <3> QED
      BY <3>1 DEF Leases!Operate
  <2>4. CASE agreement[a].status # "ACTIVE" /\ agreement'[a].status # "ACTIVE"
    BY <1>2, <2>1, <2>4, AmendUnseen
  <2> QED
    BY <2>2, <2>3, <2>4
<1>3. ASSUME agreement' = agreement, NEW x \in Units \cup Tenants,
             removed' = removed \cup {x}
      PROVE  Leases!Operate
  <2>1. Book' = Book
    BY <1>3, HoldersUnseen
  <2>2. Leases!Remove(x)
    BY <1>3, <2>1 DEF Leases!Remove, Book
  <2> QED
    BY <2>2 DEF Leases!Operate
<1>4. ASSUME NEW h \in Handlers, RemoveUnitCommit(h)
      PROVE  Leases!Operate
  <2>1. req[h].unit \in Units
    BY <1>4, KindOK DEF RemoveUnitCommit, Ready, ByHandOK
  <2>2. PICK x \in Units \cup Tenants : req[h].unit = x
    BY <2>1
  <2>3. agreement' = agreement /\ removed' = removed \cup {x}
    BY <1>4, <2>2 DEF RemoveUnitCommit, WriteUnit
  <2> QED
    BY <1>3, <2>3
<1>5. ASSUME NEW h \in Handlers, RemoveTenantCommit(h)
      PROVE  Leases!Operate
  <2>1. req[h].tenant \in Tenants
    BY <1>5, KindOK DEF RemoveTenantCommit, Ready, ByHandOK
  <2>2. PICK x \in Units \cup Tenants : req[h].tenant = x
    BY <2>1
  <2>3. agreement' = agreement /\ removed' = removed \cup {x}
    BY <1>5, <2>2 DEF RemoveTenantCommit
  <2> QED
    BY <1>3, <2>3
<1>6. ASSUME UNCHANGED <<agreement, removed>>
      PROVE  UNCHANGED Leases!bookVars
  <2>1. Book' = Book
    BY <1>6, HoldersUnseen
  <2> QED
    BY <1>6, <2>1 DEF Leases!bookVars, Book
<1>7. ASSUME NEW h \in Handlers, Start(h)
      PROVE  UNCHANGED <<agreement, removed>>
  BY <1>7 DEF Start, CreateBegin, UpdateBegin, EndBegin, UnitBegin, RemoveTenantBegin, Begin
<1>8. ASSUME NEW h \in Handlers,
             \/ \E c \in Checks : Check(h, c) \/ Reject(h, c)
             \/ LockAgreement(h) \/ OccupyUnit(h) \/ ScanOldUnit(h)
             \/ SetUnitCommit(h) \/ Fail(h)
      PROVE  UNCHANGED <<agreement, removed>>
  BY <1>8 DEF Check, Reject, LockAgreement, OccupyUnit, ScanOldUnit, Advance,
              SetUnitCommit, WriteUnit, Fail
<1> QED
  BY <1>1, <1>2, <1>4, <1>5, <1>6, <1>7, <1>8 DEF Next, Continue, vars

(* Before any lease, the book is empty.                                    *)
LEMMA InitOpens == Init => Leases!Open
<1> SUFFICES ASSUME Init PROVE Leases!Open
  OBVIOUS
<1>1. \A a \in Agreements : agreement[a].status # "ACTIVE"
  BY DEF Init, NoRow
<1>2. \A u \in Units : Holder(u) = None
  BY <1>1 DEF Holder, Leased, ActiveOn
<1> QED
  BY <1>2 DEF Leases!Open, Init

(* Requests that keep apart are requests.                                  *)
LEMMA ApartRefines == ApartSpec => Spec /\ []Apart
<1>1. Init => Apart
  <2> SUFFICES ASSUME Init, NEW h \in Handlers PROVE Concerns(h) = {}
    BY DEF Apart
  <2>1. req[h] = NoRequest
    BY DEF Init
  <2> QED
    BY <2>1 DEF Concerns, NoRequest, NoRow
<1>2. Apart /\ [Next /\ Apart']_vars => Apart' /\ [Next]_vars
  BY DEF vars, Apart, Concerns
<1> QED
  BY <1>1, <1>2, PTL DEF ApartSpec, Spec

(* Requests that keep apart, and revive nothing, stay quiet.               *)
LEMMA ApartQuiet ==
  ASSUME NeverRevived
  PROVE  ApartSpec => [](OccupancyInv /\ Quiet)
<1>1. Spec => []OccupancyInv
  BY OccupancyInvariant
<1>2. Init => Quiet
  BY InitQuiet
<1>3. OccupancyInv /\ Quiet /\ Apart /\ [Next]_vars => Quiet'
  BY QuietStep
<1> QED
  BY <1>1, <1>2, <1>3, ApartRefines, PTL DEF Spec

(* For every set of handlers, agreements, units and tenants: as long as no *)
(* two requests concern the same agreement, unit or tenant at the same     *)
(* time, and no update gives the status ACTIVE, the queries and commits of *)
(* the services (rental-agreements.service.ts, removals in                 *)
(* units.service.ts and tenants.service.ts) add up to signing, moving and  *)
(* ending leases in a book where a unit has one tenant and a tenant one    *)
(* unit, and where nothing removed is let or moved to.                     *)
THEOREM ApartImplementsLeaseBook ==
  ASSUME NeverRevived
  PROVE  ApartSpec => ImplementsLeaseBook
<1>1. Init => Leases!Open
  BY InitOpens
<1>2. OccupancyInv /\ OccupancyInv' /\ Quiet /\ Quiet' /\ [Next]_vars
        => [Leases!Operate]_(Leases!bookVars)
  BY StepOperates
<1> QED
  BY <1>1, <1>2, ApartRefines, ApartQuiet, PTL
     DEF Spec, ImplementsLeaseBook, Leases!BookSpec

(* The overlap prevention that concurrent requests and re-activation break *)
(* is kept by requests that keep apart: one ACTIVE agreement per unit and  *)
(* per tenant (the comment at rental-agreements.service.ts:65).            *)
THEOREM ApartNoOverlap ==
  ASSUME NeverRevived
  PROVE  ApartSpec => []NoOverlap
<1>1. OccupancyInv /\ Quiet => NoOverlap
  BY DEF OccupancyInv, LeasesExclusive, Quiet, NoOverlap
<1> QED
  BY <1>1, ApartQuiet, PTL

(* Requests that come one after another keep apart.                        *)
THEOREM AloneImplementsLeaseBook ==
  ASSUME Alone, NeverRevived
  PROVE  Spec => ImplementsLeaseBook
<1>1. Apart'
  BY DEF Alone, Apart
<1>2. [Next]_vars => [Next /\ Apart']_vars
  BY <1>1
<1>3. Spec => ApartSpec
  BY <1>2, PTL DEF Spec, ApartSpec
<1> QED
  BY <1>3, ApartImplementsLeaseBook, PTL

=============================================================================
