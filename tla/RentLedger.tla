----------------------------- MODULE RentLedger -----------------------------
(***************************************************************************)
(* The money side of barivara-api: monthly bills (MonthlyRent rows), the   *)
(* payments recorded against them, and the requests of                     *)
(* src/payments/payments.service.ts and                                    *)
(* src/monthly-rents/monthly-rents.service.ts that read and write both.    *)
(*                                                                         *)
(* The API keeps no state of its own.  Every request is an async handler   *)
(* that alternates reads and writes of PostgreSQL, so the state is the     *)
(* COMMITTED rows plus what each running handler remembers of what it      *)
(* read.  prisma.$transaction is called without an isolation level: the    *)
(* database default, READ COMMITTED, lets a handler write figures computed *)
(* from a row that another handler has changed since.  One action is one   *)
(* read or one committed write; a transaction's writes appear together.    *)
(*                                                                         *)
(* `missed' and `tainted' are history variables: no guard reads them.      *)
(***************************************************************************)
EXTENDS Naturals, FiniteSets

CONSTANTS
    Handlers,    \* requests that may be running at the same time
    Bills,       \* ids of MonthlyRent rows
    Payments,    \* ids of Payment rows; its size bounds the payments ever made
    MaxAmount,   \* largest single payment, in paisa
    Charges,     \* values of rent + serviceFee + parkingFee + extraCharge + lateFee
    Discounts,   \* values of discount
    Ops,         \* kinds of request in the workload
    None         \* no bill, no payment, field absent from a request

AllOps == {"create", "reverse", "view", "recalculate", "update"}

ASSUME HandlersAssumption == IsFiniteSet(Handlers)
ASSUME PaymentsAssumption == IsFiniteSet(Payments)
ASSUME AmountAssumption == MaxAmount \in Nat
ASSUME ChargesAssumption == Charges \subseteq Nat /\ Discounts \subseteq Nat
ASSUME OpsAssumption == Ops \subseteq AllOps
ASSUME NoneAssumption == None \notin Bills \cup Payments \cup Nat \cup AllOps

VARIABLES
    bill,      \* bill[b]: the committed MonthlyRent row
    payment,   \* payment[p]: the committed Payment row
    late,      \* late[b]: the due date of b has passed
    pc,        \* pc[h]: where handler h stands
    req,       \* req[h]: the request of h and the figures it will write from
    missed,    \* missed[h]: facets of its bill committed by others since h read them
    tainted    \* tainted[b]: facets of b last written from a figure that was stale

vars == <<bill, payment, late, pc, req, missed, tainted>>

-----------------------------------------------------------------------------
(* Pure arithmetic of decimal.util.ts and rent-calculation.util.ts.        *)

(* Variants of a definition that carry a plausible mistake are named after  *)
(* it; no specification uses them.                                         *)
ClampedMinusUnclamped(x, y) == x - y

ClampedMinus(x, y) == IF y >= x THEN 0 ELSE x - y

CalculateRentTotal(charge, discount) == ClampedMinus(charge, discount)

CalculateRemaining(total, paid) == ClampedMinus(total, paid)

CalculateStatus(total, paid, overdue) ==
    IF paid >= total THEN "PAID"
    ELSE IF overdue THEN "OVERDUE"
    ELSE IF paid > 0 THEN "PARTIAL"
    ELSE "PENDING"

-----------------------------------------------------------------------------
(* Rows and requests.                                                      *)

RentStatus == {"PENDING", "PARTIAL", "PAID", "OVERDUE", "CANCELLED"}

MonthlyRent == [charge : Nat, discount : Nat, total : Nat, paid : Nat,
                remaining : Nat, status : RentStatus]

NoPayment == [bill |-> None, amount |-> 0, status |-> "ABSENT"]

Payment == [bill : Bills \cup {None}, amount : 0..MaxAmount,
            status : {"ABSENT", "COMPLETED", "REVERSED"}]

PCs == {"idle", "checked", "marked", "summed", "lazy", "ready"}

(* total, paid and late are what the handler will compute from: the figures *)
(* of the row it read, the sum it aggregated, or the total it has merged.  *)
Request == [op : AllOps \cup {None}, bill : Bills \cup {None},
            pay : Payments \cup {None}, amount : 0..MaxAmount,
            total : Nat, paid : Nat, late : BOOLEAN,
            newCharge : Charges \cup {None}, newDiscount : Discounts \cup {None}]

NoRequest == [op |-> None, bill |-> None, pay |-> None, amount |-> 0,
              total |-> 0, paid |-> 0, late |-> FALSE,
              newCharge |-> None, newDiscount |-> None]

Facets == {"paid", "total"}
TaintKinds == {"ledger", "balance", "total", "status"}

(* One element for every paisa of the COMPLETED payments of b, those in    *)
(* `except' left out: its size is what SUM(amount) returns.                *)
Paisa(b, except) ==
    {pk \in Payments \X (1..MaxAmount) :
        /\ pk[1] \notin except
        /\ payment[pk[1]].bill = b
        /\ payment[pk[1]].status = "COMPLETED"
        /\ pk[2] <= payment[pk[1]].amount}

Collected(b) == Cardinality(Paisa(b, {}))

CollectedExceptByDecrement(b, p) == ClampedMinus(bill[b].paid, payment[p].amount)

CollectedExceptNothing(b, p) == Collected(b)

CollectedExcept(b, p) == Cardinality(Paisa(b, {p}))

-----------------------------------------------------------------------------
(* What one commit on bill b by handler h does to the history variables.   *)

Publish(h, b, facets) ==
    missed' = [g \in Handlers |->
                 IF g = h THEN {}
                 ELSE IF req[g].bill = b THEN missed[g] \cup facets
                 ELSE missed[g]]

Taint(b, broken, rewritten) ==
    tainted' = [tainted EXCEPT ![b] = (@ \ rewritten) \cup broken]

If(cond, S) == IF cond THEN S ELSE {}

Respond(h) ==
    /\ pc' = [pc EXCEPT ![h] = "idle"]
    /\ req' = [req EXCEPT ![h] = NoRequest]

Forget(h) == missed' = [missed EXCEPT ![h] = {}]

-----------------------------------------------------------------------------
(* A bill enters the ledger unpaid, from MonthlyRentsService.generate or   *)
(* .create (status calculated) or from an agreement's first bill (status   *)
(* PENDING whatever its total).                                            *)

Totals == {CalculateRentTotal(c, d) : c \in Charges, d \in Discounts}

NewBill(row, overdue) ==
    /\ row.charge \in Charges
    /\ row.discount \in Discounts
    /\ row.total = CalculateRentTotal(row.charge, row.discount)
    /\ row.paid = 0
    /\ row.remaining = row.total
    /\ row.status \in {CalculateStatus(row.total, 0, overdue), "PENDING"}

StatusMatches(row, overdue) ==
    \E seenLate \in {FALSE, overdue} :
        row.status = CalculateStatus(row.total, row.paid, seenLate)

Init ==
    /\ late \in [Bills -> BOOLEAN]
    /\ bill \in [Bills -> [charge : Charges, discount : Discounts,
                           total : Totals, paid : {0}, remaining : Totals,
                           status : RentStatus]]
    /\ \A b \in Bills : NewBill(bill[b], late[b])
    /\ payment = [p \in Payments |-> NoPayment]
    /\ pc = [h \in Handlers |-> "idle"]
    /\ req = [h \in Handlers |-> NoRequest]
    /\ missed = [h \in Handlers |-> {}]
    /\ tainted = [b \in Bills |-> If(~StatusMatches(bill[b], late[b]), {"status"})]

-----------------------------------------------------------------------------
(* POST /payments: PaymentsService.create.                                 *)

(* The pool of payment ids is the bound on the number of payments.         *)
FreeId(p) ==
    /\ payment[p] = NoPayment
    /\ \A g \in Handlers : req[g].pay # p

Payable(row, amount) ==
    /\ row.status # "CANCELLED"
    /\ amount <= row.remaining

(* Outer read and checks.  paidLate: the payment date given (or now) is    *)
(* after the due date; a date on a later day than today is refused.        *)
CreateCheck(h, b, p, amount, paidLate) ==
    /\ "create" \in Ops
    /\ pc[h] = "idle"
    /\ FreeId(p)
    /\ Payable(bill[b], amount)
    /\ paidLate => late[b]
    /\ pc' = [pc EXCEPT ![h] = "checked"]
    /\ req' = [req EXCEPT ![h] =
                 [op |-> "create", bill |-> b, pay |-> p, amount |-> amount,
                  total |-> 0, paid |-> 0, late |-> paidLate,
                  newCharge |-> None, newDiscount |-> None]]
    /\ Forget(h)
    /\ UNCHANGED <<bill, payment, late, tainted>>

(* Inside the transaction the row is read and checked again; the figures   *)
(* of this second read are the ones the write is computed from.            *)
CreateRereadUnchecked(h) ==
    LET row == bill[req[h].bill] IN
    /\ pc[h] = "checked"
    /\ req[h].op = "create"
    /\ pc' = [pc EXCEPT ![h] = "ready"]
    /\ req' = [req EXCEPT ![h].total = row.total, ![h].paid = row.paid]
    /\ Forget(h)
    /\ UNCHANGED <<bill, payment, late, tainted>>

CreateReread(h) ==
    LET row == bill[req[h].bill] IN
    /\ pc[h] = "checked"
    /\ req[h].op = "create"
    /\ Payable(row, req[h].amount)
    /\ pc' = [pc EXCEPT ![h] = "ready"]
    /\ req' = [req EXCEPT ![h].total = row.total, ![h].paid = row.paid]
    /\ Forget(h)
    /\ UNCHANGED <<bill, payment, late, tainted>>

CreateReject(h) ==
    /\ pc[h] = "checked"
    /\ req[h].op = "create"
    /\ ~Payable(bill[req[h].bill], req[h].amount)
    /\ Respond(h)
    /\ Forget(h)
    /\ UNCHANGED <<bill, payment, late, tainted>>

(* Payment row, bill row and audit entry become visible at the commit.     *)
CreateCommit(h) ==
    LET r == req[h]
        newPaid == r.paid + r.amount
    IN
    /\ pc[h] = "ready"
    /\ r.op = "create"
    /\ payment' = [payment EXCEPT ![r.pay] =
                     [bill |-> r.bill, amount |-> r.amount, status |-> "COMPLETED"]]
    /\ bill' = [bill EXCEPT ![r.bill].paid = newPaid,
                            ![r.bill].remaining = CalculateRemaining(r.total, newPaid),
                            ![r.bill].status = CalculateStatus(r.total, newPaid, r.late)]
    /\ Respond(h)
    /\ Publish(h, r.bill, {"paid"})
    /\ Taint(r.bill,
             If("paid" \in missed[h], {"ledger"})
               \cup If("total" \in missed[h], {"balance", "status"}),
             {"balance", "status"})
    /\ UNCHANGED late

-----------------------------------------------------------------------------
(* PATCH /payments/:id/reverse: PaymentsService.reverse.                   *)

(* The payment and its bill are read, and the status checked, before the   *)
(* transaction begins; the bill's total is not read again.                 *)
ReverseCheck(h, p) ==
    LET b == payment[p].bill IN
    /\ "reverse" \in Ops
    /\ pc[h] = "idle"
    /\ payment[p].status = "COMPLETED"
    /\ pc' = [pc EXCEPT ![h] = "checked"]
    /\ req' = [req EXCEPT ![h] =
                 [op |-> "reverse", bill |-> b, pay |-> p, amount |-> 0,
                  total |-> bill[b].total, paid |-> 0, late |-> FALSE,
                  newCharge |-> None, newDiscount |-> None]]
    /\ Forget(h)
    /\ UNCHANGED <<bill, payment, late, tainted>>

HoldsPaymentFromCheck(g, p) ==
    pc[g] \in {"checked", "marked", "summed"} /\ req[g].pay = p

HoldsPayment(g, p) == pc[g] \in {"marked", "summed"} /\ req[g].pay = p

(* UPDATE payment SET status = REVERSED: not visible to others yet, but    *)
(* its row lock makes a second reversal of the same payment wait.          *)
ReverseMark(h) ==
    /\ pc[h] = "checked"
    /\ req[h].op = "reverse"
    /\ \A g \in Handlers : ~HoldsPayment(g, req[h].pay)
    /\ pc' = [pc EXCEPT ![h] = "marked"]
    /\ UNCHANGED <<bill, payment, late, req, missed, tainted>>

(* SUM over the COMPLETED payments: those committed, less the one this     *)
(* transaction has marked.                                                 *)
ReverseSum(h) ==
    /\ pc[h] = "marked"
    /\ pc' = [pc EXCEPT ![h] = "summed"]
    /\ req' = [req EXCEPT ![h].paid = CollectedExcept(req[h].bill, req[h].pay),
                          ![h].late = late[req[h].bill]]
    /\ missed' = [missed EXCEPT ![h] = @ \ {"paid"}]
    /\ UNCHANGED <<bill, payment, late, tainted>>

ReverseCommit(h) ==
    LET r == req[h] IN
    /\ pc[h] = "summed"
    /\ payment' = [payment EXCEPT ![r.pay].status = "REVERSED"]
    /\ bill' = [bill EXCEPT ![r.bill].paid = r.paid,
                            ![r.bill].remaining = CalculateRemaining(r.total, r.paid),
                            ![r.bill].status = CalculateStatus(r.total, r.paid, r.late)]
    /\ Respond(h)
    /\ Publish(h, r.bill, {"paid"})
    /\ Taint(r.bill,
             If("paid" \in missed[h], {"ledger"})
               \cup If("total" \in missed[h], {"balance", "status"}),
             {"ledger", "balance", "status"})
    /\ UNCHANGED late

-----------------------------------------------------------------------------
(* GET, PATCH and recalculate of one bill: MonthlyRentsService.findOne and *)
(* the two operations that begin by calling it.                            *)

MergedTotalAbsentIsZero(row, r) ==
    CalculateRentTotal(IF r.newCharge = None THEN row.charge ELSE r.newCharge,
                       IF r.newDiscount = None THEN 0 ELSE r.newDiscount)

MergedTotal(row, r) ==
    CalculateRentTotal(IF r.newCharge = None THEN row.charge ELSE r.newCharge,
                       IF r.newDiscount = None THEN row.discount ELSE r.newDiscount)

(* What findOne hands to its caller: `update' goes on with the merged      *)
(* total, `recalculateStatus' with the total of the row.                   *)
Found(r, row, overdue) ==
    [r EXCEPT !.total = IF r.op = "update" THEN MergedTotal(row, r) ELSE row.total,
              !.paid = row.paid, !.late = overdue]

NeedsStatusWrite(b) ==
    /\ bill[b].status # CalculateStatus(bill[b].total, bill[b].paid, late[b])
    /\ bill[b].status # "CANCELLED"

BillRequest(op, b, newCharge, newDiscount) ==
    [op |-> op, bill |-> b, pay |-> None, amount |-> 0,
     total |-> 0, paid |-> 0, late |-> FALSE,
     newCharge |-> newCharge, newDiscount |-> newDiscount]

(* findOne's read when the stored status is out of date.                   *)
FindStale(h, r) ==
    /\ r.op \in Ops
    /\ pc[h] = "idle"
    /\ NeedsStatusWrite(r.bill)
    /\ pc' = [pc EXCEPT ![h] = "lazy"]
    /\ req' = [req EXCEPT ![h] =
                 [r EXCEPT !.total = bill[r.bill].total, !.paid = bill[r.bill].paid,
                           !.late = late[r.bill]]]
    /\ Forget(h)
    /\ UNCHANGED <<bill, payment, late, tainted>>

(* findOne's read when it is up to date; a plain view ends there.          *)
FindCurrent(h, r) ==
    /\ r.op \in Ops \ {"view"}
    /\ pc[h] = "idle"
    /\ ~NeedsStatusWrite(r.bill)
    /\ pc' = [pc EXCEPT ![h] = "ready"]
    /\ req' = [req EXCEPT ![h] = Found(r, bill[r.bill], late[r.bill])]
    /\ Forget(h)
    /\ UNCHANGED <<bill, payment, late, tainted>>

(* findOne's unconditional status write.  UPDATE ... RETURNING hands back   *)
(* the row as it is now, and that row is what the caller computes from.    *)
LazyStatusWrite(h) ==
    LET r == req[h]
        b == r.bill
    IN
    /\ pc[h] = "lazy"
    /\ bill' = [bill EXCEPT ![b].status = CalculateStatus(r.total, r.paid, r.late)]
    /\ Taint(b, If(missed[h] # {}, {"status"}), {"status"})
    /\ Forget(h)
    /\ IF r.op = "view"
       THEN Respond(h)
       ELSE /\ pc' = [pc EXCEPT ![h] = "ready"]
            /\ req' = [req EXCEPT ![h] = Found(r, bill[b], late[b])]
    /\ UNCHANGED <<payment, late>>

RecalculateStatus(h) ==
    LET r == req[h] IN
    /\ pc[h] = "ready"
    /\ r.op = "recalculate"
    /\ bill' = [bill EXCEPT ![r.bill].status = CalculateStatus(r.total, r.paid, r.late)]
    /\ Taint(r.bill, If(missed[h] # {}, {"status"}), {"status"})
    /\ Respond(h)
    /\ Forget(h)
    /\ UNCHANGED <<payment, late>>

(* Only the fields present in the request are written, with a total, a     *)
(* remaining amount and a status computed from the row findOne returned.   *)
UpdateTotalOnly(h) ==
    LET r == req[h] IN
    /\ pc[h] = "ready"
    /\ r.op = "update"
    /\ bill' = [bill EXCEPT
                  ![r.bill].charge = IF r.newCharge = None THEN @ ELSE r.newCharge,
                  ![r.bill].discount = IF r.newDiscount = None THEN @ ELSE r.newDiscount,
                  ![r.bill].total = r.total,
                  ![r.bill].status = CalculateStatus(r.total, r.paid, r.late)]
    /\ Respond(h)
    /\ Publish(h, r.bill, {"total"})
    /\ Taint(r.bill,
             If("total" \in missed[h], {"total"})
               \cup If("paid" \in missed[h], {"balance", "status"}),
             {"total", "balance", "status"})
    /\ UNCHANGED <<payment, late>>

Update(h) ==
    LET r == req[h] IN
    /\ pc[h] = "ready"
    /\ r.op = "update"
    /\ bill' = [bill EXCEPT
                  ![r.bill].charge = IF r.newCharge = None THEN @ ELSE r.newCharge,
                  ![r.bill].discount = IF r.newDiscount = None THEN @ ELSE r.newDiscount,
                  ![r.bill].total = r.total,
                  ![r.bill].remaining = CalculateRemaining(r.total, r.paid),
                  ![r.bill].status = CalculateStatus(r.total, r.paid, r.late)]
    /\ Respond(h)
    /\ Publish(h, r.bill, {"total"})
    /\ Taint(r.bill,
             If("total" \in missed[h], {"total"})
               \cup If("paid" \in missed[h], {"balance", "status"}),
             {"total", "balance", "status"})
    /\ UNCHANGED <<payment, late>>

-----------------------------------------------------------------------------
(* refreshOverdueStatuses: one UPDATE, run by every list request.          *)

PastDueAnyUnpaid(b) ==
    /\ bill[b].status \in {"PENDING", "PARTIAL"}
    /\ bill[b].remaining > 0

PastDue(b) ==
    /\ bill[b].status \in {"PENDING", "PARTIAL"}
    /\ late[b]
    /\ bill[b].remaining > 0

RefreshOverdueStatuses ==
    /\ bill' = [b \in Bills |-> IF PastDue(b)
                                THEN [bill[b] EXCEPT !.status = "OVERDUE"]
                                ELSE bill[b]]
    /\ UNCHANGED <<payment, late, pc, req, missed, tainted>>

(* The clock passes the due date of b.                                     *)
DueDatePasses(b) ==
    /\ ~late[b]
    /\ late' = [late EXCEPT ![b] = TRUE]
    /\ UNCHANGED <<bill, payment, pc, req, missed, tainted>>

(* The process dies, the connection drops, or the interactive transaction  *)
(* runs out of time: what the handler had not committed is rolled back.    *)
Fail(h) ==
    /\ pc[h] # "idle"
    /\ Respond(h)
    /\ Forget(h)
    /\ UNCHANGED <<bill, payment, late, tainted>>

-----------------------------------------------------------------------------

Start(h) ==
    \/ \E b \in Bills, p \in Payments, amount \in 1..MaxAmount, paidLate \in BOOLEAN :
          CreateCheck(h, b, p, amount, paidLate)
    \/ \E p \in Payments : ReverseCheck(h, p)
    \/ \E op \in {"view", "recalculate"}, b \in Bills :
          LET r == BillRequest(op, b, None, None) IN FindStale(h, r) \/ FindCurrent(h, r)
    \/ \E b \in Bills, c \in Charges \cup {None}, d \in Discounts \cup {None} :
          LET r == BillRequest("update", b, c, d) IN FindStale(h, r) \/ FindCurrent(h, r)

Continue(h) ==
    \/ CreateReread(h)
    \/ CreateReject(h)
    \/ CreateCommit(h)
    \/ ReverseMark(h)
    \/ ReverseSum(h)
    \/ ReverseCommit(h)
    \/ LazyStatusWrite(h)
    \/ RecalculateStatus(h)
    \/ Update(h)

Next ==
    \/ \E h \in Handlers : Start(h) \/ Continue(h) \/ Fail(h)
    \/ RefreshOverdueStatuses
    \/ \E b \in Bills : DueDatePasses(b)

Spec == Init /\ [][Next]_vars

(* Node and PostgreSQL go on with a request that has begun: an awaited     *)
(* query that can be answered is answered.  PostgreSQL queues the waiters  *)
(* of a row lock, so one that is released again and again (by reversals    *)
(* that are rolled back) is granted in the end: strong fairness.  Nothing  *)
(* makes a client send a request.                                          *)
FairSpec ==
    /\ Spec
    /\ \A h \in Handlers : WF_vars(Continue(h)) /\ SF_vars(ReverseMark(h))

(* A request holds figures of its bill from the read that its amounts are   *)
(* computed from until it writes them: a payment from its second read, a   *)
(* reversal from its first, an update from what findOne returned.  Apart,  *)
(* no two requests hold figures of one bill at the same time; they may     *)
(* still check, view, recalculate or fail beside each other.               *)
Holding(h) ==
    \/ req[h].op \in {"create", "update"} /\ pc[h] = "ready"
    \/ req[h].op = "reverse"

Apart ==
    \A g, h \in Handlers :
        g # h /\ Holding(g) /\ Holding(h) => req[g].bill # req[h].bill

ApartSpec == Init /\ [][Next /\ Apart']_vars

-----------------------------------------------------------------------------
(* Properties.                                                             *)

(* Every variable has its type; only a running request has figures.        *)
TypeOK ==
    /\ bill \in [Bills -> MonthlyRent]
    /\ payment \in [Payments -> Payment]
    /\ late \in [Bills -> BOOLEAN]
    /\ pc \in [Handlers -> PCs]
    /\ req \in [Handlers -> Request]
    /\ missed \in [Handlers -> SUBSET Facets]
    /\ tainted \in [Bills -> SUBSET TaintKinds]

(* paidAmount is the sum of the bill's COMPLETED payments, through any      *)
(* history of payments, reversals, double reversals and rollbacks, unless  *)
(* a payment or reversal wrote it over one committed after its own read.   *)
(* A later reversal that missed nothing makes it exact again.              *)
LedgerExact ==
    \A b \in Bills : "ledger" \notin tainted[b] => bill[b].paid = Collected(b)

(* remainingAmount is max(0, totalAmount - paidAmount), unless the last    *)
(* request to write it (a payment, a reversal, an update) had read a total *)
(* or a paid amount that was replaced before it wrote.                     *)
BalanceExact ==
    \A b \in Bills :
        "balance" \notin tainted[b] =>
            bill[b].remaining = CalculateRemaining(bill[b].total, bill[b].paid)

(* totalAmount is charges minus discount as stored, unless an update that  *)
(* gave only some of the components overlapped another update.             *)
TotalExact ==
    \A b \in Bills :
        "total" \notin tainted[b] =>
            bill[b].total = CalculateRentTotal(bill[b].charge, bill[b].discount)

(* The stored status is the one calculateStatus gives for the stored       *)
(* amounts, at the present time or before the due date (a bill nobody has  *)
(* listed yet), unless it was calculated from amounts replaced meanwhile:  *)
(* no bill shows PAID with money due, or OVERDUE before its due date.      *)
StatusExact ==
    \A b \in Bills : "status" \notin tainted[b] => StatusMatches(bill[b], late[b])

(* A payment is never accepted for more than is due on the bill, whatever  *)
(* runs beside it, when the amounts on the bill are exact before and after *)
(* (payments.service.ts checks `remaining' twice, and writes later).       *)
AcceptedWithinDue ==
    [][\A b \in Bills :
          /\ Collected(b)' > Collected(b)
          /\ {"ledger", "balance"} \cap (tainted[b] \cup tainted'[b]) = {}
          => Collected(b)' <= bill'[b].total]_vars

(* Every request that begins is answered: the row locks of overlapping     *)
(* reversals never leave two requests waiting for each other.              *)
RequestsEnd == \A h \in Handlers : pc[h] # "idle" ~> pc[h] = "idle"

(* What the comment "Re-read monthlyRent inside transaction for            *)
(* concurrency safety & latest state" (payments.service.ts:118) promises:  *)
(* a bill no request is working on shows exactly what has been collected.  *)
LedgerBalanced ==
    \A b \in Bills :
        (\A h \in Handlers : req[h].bill # b) => bill[b].paid = Collected(b)

-----------------------------------------------------------------------------
(* The inductive invariant behind these properties (RentLedgerProofs): what *)
(* a running request knows, as long as nothing it read has been replaced.  *)

OpsAt(place) ==
    CASE place = "idle" -> {None}
      [] place = "checked" -> {"create", "reverse"}
      [] place \in {"marked", "summed"} -> {"reverse"}
      [] place = "lazy" -> {"view", "recalculate", "update"}
      [] place = "ready" -> {"create", "recalculate", "update"}

(* A request stands only where its kind can stand, on a bill that exists,   *)
(* and holds the due date for passed only if it is.                        *)
RequestOK(h) ==
    /\ req[h].op \in OpsAt(pc[h])
    /\ pc[h] = "idle" => req[h] = NoRequest
    /\ pc[h] # "idle" =>
          /\ req[h].bill \in Bills
          /\ req[h].late => late[req[h].bill]
    /\ req[h].op = "create" => req[h].amount > 0

PaymentRowsOK ==
    \A p \in Payments :
        IF payment[p].status = "ABSENT" THEN payment[p] = NoPayment
                                        ELSE payment[p].bill \in Bills

(* The id of a payment being created is unused and nobody else's; the       *)
(* payment being reversed belongs to the bill the request will write.      *)
IdOK(h) ==
    /\ req[h].op = "create" =>
          /\ req[h].pay \in Payments
          /\ payment[req[h].pay] = NoPayment
          /\ \A g \in Handlers : g # h => req[g].pay # req[h].pay
    /\ req[h].op = "reverse" =>
          /\ req[h].pay \in Payments
          /\ payment[req[h].pay].status # "ABSENT"
          /\ payment[req[h].pay].bill = req[h].bill

(* The figures a request holds are those of its bill until another request *)
(* commits to that bill.                                                   *)
KnownTotal(h) ==
    "total" \notin missed[h] =>
        req[h].total = IF pc[h] = "ready" /\ req[h].op = "update"
                       THEN MergedTotal(bill[req[h].bill], req[h])
                       ELSE bill[req[h].bill].total

KnownPaid(h) ==
    "paid" \notin missed[h] =>
        req[h].paid = IF req[h].op = "reverse"
                      THEN CollectedExcept(req[h].bill, req[h].pay)
                      ELSE bill[req[h].bill].paid

KnownDue(h) ==
    missed[h] = {} /\ "balance" \notin tainted[req[h].bill] =>
        req[h].paid + req[h].amount <= req[h].total

FiguresOK(h) ==
    /\ pc[h] \in {"marked", "summed", "lazy", "ready"} => KnownTotal(h)
    /\ pc[h] = "checked" /\ req[h].op = "reverse" => KnownTotal(h)
    /\ pc[h] \in {"summed", "lazy", "ready"} => KnownPaid(h)
    /\ pc[h] = "ready" /\ req[h].op = "create" => KnownDue(h)

LedgerInv ==
    /\ TypeOK
    /\ PaymentRowsOK
    /\ \A h \in Handlers : RequestOK(h) /\ IdOK(h) /\ FiguresOK(h)
    /\ LedgerExact
    /\ BalanceExact
    /\ TotalExact
    /\ StatusExact

-----------------------------------------------------------------------------
(* The rows as the book of AtomicLedger shows them.                        *)

Atomic == INSTANCE AtomicLedger WITH
    book <- [b \in Bills |-> [total |-> bill[b].total, paid |-> bill[b].paid,
                              remaining |-> bill[b].remaining]],
    receipts <- payment

(* As long as requests keep apart (ApartSpec), every read, check and       *)
(* commit of the services adds up to the atomic operations of              *)
(* AtomicLedger, whatever fails half-way and however views, checks and     *)
(* recalculations fall between.                                            *)
ImplementsAtomicLedger == Atomic!BookSpec

=============================================================================
