-------------------------- MODULE RentLedgerProofs --------------------------
(***************************************************************************)
(* Proofs about RentLedger for every number of handlers, bills, payments   *)
(* and amounts: LedgerInv is inductive, and with it every safety property  *)
(* of the ledger follows.                                                  *)
(***************************************************************************)
EXTENDS RentLedger, FiniteSetTheorems, TLAPS

USE NoneAssumption, AmountAssumption, ChargesAssumption, OpsAssumption

-----------------------------------------------------------------------------
(* What SUM(amount) returns.                                               *)

(* The paisa of a bill are finitely many, so sums are natural numbers.     *)
LEMMA PaisaFinite ==
    ASSUME NEW b, NEW except
    PROVE  IsFiniteSet(Paisa(b, except)) /\ Cardinality(Paisa(b, except)) \in Nat
<1>1. IsFiniteSet(Payments \X (1..MaxAmount))
  <2>1. IsFiniteSet(1..MaxAmount)
    <3>1. 1 \in Int /\ MaxAmount \in Int
      BY AmountAssumption
    <3> QED
      BY <3>1, FS_Interval, Zenon
  <2> QED
    BY <2>1, PaymentsAssumption, FS_Product, Zenon
<1>2. Paisa(b, except) \in SUBSET (Payments \X (1..MaxAmount))
  BY DEF Paisa
<1> QED
  BY <1>1, <1>2, FS_Subset, FS_CardinalityType

(* A payment id holds as many paisa as its amount.                         *)
LEMMA PaisaOfOne ==
    ASSUME NEW p \in Payments, NEW a \in 0..MaxAmount
    PROVE  /\ IsFiniteSet({p} \X (1..a))
           /\ Cardinality({p} \X (1..a)) = a
<1>1. IsFiniteSet(1..a) /\ Cardinality(1..a) = a
  BY FS_Interval
<1>2. IsFiniteSet({p}) /\ Cardinality({p}) = 1
  BY FS_Singleton
<1>3. Cardinality({p}) * Cardinality(1..a) = a
  BY <1>1, <1>2
<1> QED
  BY <1>1, <1>2, <1>3, FS_Product, Zenon

(* A committed payment adds its amount to what its bill has collected, and *)
(* nothing to any other bill.                                              *)
LEMMA NewPaymentCollected ==
    ASSUME TypeOK,
           NEW p \in Payments, NEW b \in Bills, NEW a \in 0..MaxAmount,
           payment[p] = NoPayment,
           payment' = [payment EXCEPT ![p] =
                         [bill |-> b, amount |-> a, status |-> "COMPLETED"]]
    PROVE  /\ Collected(b)' = Collected(b) + a
           /\ \A c \in Bills : c # b => \A e : Paisa(c, e)' = Paisa(c, e)
<1>1. Paisa(b, {})' = Paisa(b, {}) \cup ({p} \X (1..a))
  <2>1. ASSUME NEW pk \in Payments \X (1..MaxAmount), pk[1] = p
        PROVE  /\ pk \in Paisa(b, {})' <=> pk \in {p} \X (1..a)
               /\ pk \notin Paisa(b, {})
    BY <2>1 DEF Paisa, TypeOK, NoPayment
  <2>2. ASSUME NEW pk \in Payments \X (1..MaxAmount), pk[1] # p
        PROVE  /\ pk \in Paisa(b, {})' <=> pk \in Paisa(b, {})
               /\ pk \notin {p} \X (1..a)
    BY <2>2 DEF Paisa, TypeOK
  <2>3. {p} \X (1..a) \subseteq Payments \X (1..MaxAmount)
    OBVIOUS
  <2>4. /\ Paisa(b, {})' \subseteq Payments \X (1..MaxAmount)
        /\ Paisa(b, {}) \subseteq Payments \X (1..MaxAmount)
    BY DEF Paisa
  <2> QED
    BY <2>1, <2>2, <2>3, <2>4, Zenon
<1>2. Paisa(b, {}) \cap ({p} \X (1..a)) = {}
  BY DEF Paisa, TypeOK, NoPayment
<1>3. Collected(b)' = Collected(b) + a
  <2>1. Cardinality(Paisa(b, {}) \cap ({p} \X (1..a))) = 0
    BY <1>2, FS_EmptySet
  <2>2. /\ IsFiniteSet(Paisa(b, {})) /\ Cardinality(Paisa(b, {})) \in Nat
        /\ IsFiniteSet({p} \X (1..a)) /\ Cardinality({p} \X (1..a)) = a
    BY PaisaFinite, PaisaOfOne, Zenon
  <2>3. Cardinality(Paisa(b, {}) \cup ({p} \X (1..a))) =
          Cardinality(Paisa(b, {})) + Cardinality({p} \X (1..a))
            - Cardinality(Paisa(b, {}) \cap ({p} \X (1..a)))
    BY <2>2, FS_Union, Zenon
  <2>4. Cardinality(Paisa(b, {}) \cup ({p} \X (1..a))) = Cardinality(Paisa(b, {})) + a
    BY <2>1, <2>2, <2>3
  <2> QED
    BY <1>1, <2>4, Zenon DEF Collected
<1>4. ASSUME NEW c \in Bills, NEW e, c # b
      PROVE  Paisa(c, e)' = Paisa(c, e)
  BY <1>4 DEF Paisa, TypeOK, NoPayment
<1> QED
  BY <1>3, <1>4

(* A committed reversal takes exactly the reversed payment out of its      *)
(* bill's sum, whether or not it was reversed already.                     *)
LEMMA ReversalCollected ==
    ASSUME TypeOK,
           NEW p \in Payments,
           payment' = [payment EXCEPT ![p].status = "REVERSED"]
    PROVE  /\ \A c : Paisa(c, {})' = Paisa(c, {p})
           /\ \A c, e : c # payment[p].bill => Paisa(c, e)' = Paisa(c, e)
<1>1. \A c, e : c # payment[p].bill => Paisa(c, e)' = Paisa(c, e)
  BY DEF Paisa, TypeOK, Payment
<1>2. \A c : Paisa(c, {})' = Paisa(c, {p})
  BY DEF Paisa, TypeOK, Payment
<1> QED
  BY <1>1, <1>2
-----------------------------------------------------------------------------
(* Steps that commit nothing.                                              *)

RowsExact == LedgerExact /\ BalanceExact /\ TotalExact /\ StatusExact

(* Requests that only read leave what holds of the rows alone.             *)
LEMMA RowsUnchanged ==
    ASSUME RowsExact, UNCHANGED <<bill, payment, late, tainted>>
    PROVE  RowsExact'
BY DEF RowsExact, LedgerExact, BalanceExact, TotalExact, StatusExact,
       StatusMatches, Collected, Paisa

(* They leave every other request as it was.                               *)
LEMMA OthersUndisturbed ==
    ASSUME UNCHANGED <<bill, payment, late, tainted>>,
           NEW g \in Handlers, RequestOK(g), FiguresOK(g),
           pc'[g] = pc[g], req'[g] = req[g], missed'[g] = missed[g]
    PROVE  RequestOK(g)' /\ FiguresOK(g)'
<1>1. RequestOK(g)'
  BY DEF RequestOK
<1>2. KnownTotal(g) <=> KnownTotal(g)'
  BY DEF KnownTotal, MergedTotal
<1>3. KnownPaid(g) <=> KnownPaid(g)'
  BY DEF KnownPaid, CollectedExcept, Paisa
<1>4. KnownDue(g) <=> KnownDue(g)'
  BY DEF KnownDue
<1> QED
  BY <1>1, <1>2, <1>3, <1>4 DEF FiguresOK

(* The ids of other requests stay theirs when one request goes on, ends,    *)
(* or begins without a payment.                                            *)
LEMMA IdsKept ==
    ASSUME \A g \in Handlers : IdOK(g), payment' = payment, NEW h \in Handlers,
           \A g \in Handlers \ {h} : req'[g] = req[g],
           \/ /\ req'[h].op = req[h].op
              /\ req'[h].pay = req[h].pay
              /\ req'[h].bill = req[h].bill
           \/ /\ req'[h].pay = None
              /\ req'[h].op \notin {"create", "reverse"}
    PROVE  \A g \in Handlers : IdOK(g)'
BY DEF IdOK

(* So the invariant of a step that reads is a matter of the one request.   *)
LEMMA ReadStep ==
    ASSUME LedgerInv, NEW h \in Handlers, TypeOK',
           UNCHANGED <<bill, payment, late, tainted>>,
           \A g \in Handlers \ {h} :
              pc'[g] = pc[g] /\ req'[g] = req[g] /\ missed'[g] = missed[g],
           RequestOK(h)', FiguresOK(h)', \A g \in Handlers : IdOK(g)'
    PROVE  LedgerInv'
<1>1. PaymentRowsOK'
  BY DEF LedgerInv, PaymentRowsOK
<1>2. RowsExact'
  BY RowsUnchanged DEF LedgerInv, RowsExact
<1>3. \A g \in Handlers \ {h} : RequestOK(g)' /\ FiguresOK(g)'
  BY OthersUndisturbed DEF LedgerInv
<1> QED
  BY <1>1, <1>2, <1>3 DEF LedgerInv, RowsExact

(* A payment request that passes the checks outside the transaction.       *)
LEMMA CreateCheckInv ==
    ASSUME LedgerInv, NEW h \in Handlers, NEW b \in Bills, NEW p \in Payments,
           NEW amount \in 1..MaxAmount, NEW paidLate \in BOOLEAN,
           CreateCheck(h, b, p, amount, paidLate)
    PROVE  LedgerInv'
<1> USE DEF LedgerInv, CreateCheck, Forget
<1>1. TypeOK'
  BY DEF TypeOK, PCs, Request, AllOps
<1>2. /\ pc'[h] = "checked" /\ missed'[h] = {}
      /\ req'[h].op = "create" /\ req'[h].bill = b /\ req'[h].pay = p
      /\ req'[h].amount = amount /\ req'[h].late = paidLate
      /\ \A g \in Handlers \ {h} :
            pc'[g] = pc[g] /\ req'[g] = req[g] /\ missed'[g] = missed[g]
  BY DEF TypeOK
<1>3. RequestOK(h)'
  BY <1>2 DEF RequestOK, OpsAt
<1>4. FiguresOK(h)'
  BY <1>2 DEF FiguresOK
<1>5. \A g \in Handlers : IdOK(g)'
  BY <1>2 DEF IdOK, FreeId, NoPayment
<1> QED
  BY <1>1, <1>2, <1>3, <1>4, <1>5, ReadStep

(* The second read gives the request the figures of the row as it is now.  *)
LEMMA CreateRereadInv ==
    ASSUME LedgerInv, NEW h \in Handlers, CreateReread(h)
    PROVE  LedgerInv'
<1> USE DEF LedgerInv, CreateReread, Forget
<1> DEFINE b == req[h].bill
<1>0. b \in Bills /\ req[h].amount \in 0..MaxAmount /\ req[h].amount > 0
  BY DEF RequestOK, OpsAt, TypeOK, Request
<1>1. TypeOK'
  <2>1. bill[b].total \in Nat /\ bill[b].paid \in Nat
    BY <1>0 DEF TypeOK, MonthlyRent
  <2>2. \A r \in Request, t \in Nat, n \in Nat :
           [r EXCEPT !.total = t, !.paid = n] \in Request
    BY DEF Request
  <2>3. [req[h] EXCEPT !.total = bill[b].total, !.paid = bill[b].paid] \in Request
    BY <2>1, <2>2 DEF TypeOK
  <2> QED
    BY <2>3 DEF TypeOK, PCs
<1>2. /\ pc'[h] = "ready" /\ missed'[h] = {}
      /\ req'[h].op = "create" /\ req'[h].bill = b /\ req'[h].pay = req[h].pay
      /\ req'[h].amount = req[h].amount /\ req'[h].late = req[h].late
      /\ req'[h].total = bill[b].total /\ req'[h].paid = bill[b].paid
      /\ \A g \in Handlers \ {h} :
            pc'[g] = pc[g] /\ req'[g] = req[g] /\ missed'[g] = missed[g]
  BY DEF TypeOK, Request
<1>3. RequestOK(h)'
  <2>1. req'[h].op \in OpsAt(pc'[h])
    BY <1>2 DEF OpsAt
  <2>2. req[h].late => late'[b]
    BY DEF RequestOK, OpsAt
  <2> QED
    BY <1>0, <1>2, <2>1, <2>2 DEF RequestOK
<1>4. FiguresOK(h)'
  <2>1. KnownDue(h)'
    <3> SUFFICES ASSUME "balance" \notin tainted[b]
                 PROVE  bill[b].paid + req[h].amount <= bill[b].total
      BY <1>2 DEF KnownDue
    <3>1. bill[b].remaining = CalculateRemaining(bill[b].total, bill[b].paid)
      BY <1>0 DEF BalanceExact
    <3>2. req[h].amount <= bill[b].remaining
      BY DEF Payable
    <3>3. bill[b].paid \in Nat /\ bill[b].total \in Nat
      BY <1>0 DEF TypeOK, MonthlyRent
    <3> QED
      BY <1>0, <3>1, <3>2, <3>3 DEF CalculateRemaining, ClampedMinus
  <2> QED
    BY <1>2, <2>1 DEF FiguresOK, KnownTotal, KnownPaid
<1>5. \A g \in Handlers : IdOK(g)'
  BY <1>2, IdsKept
<1> QED
  BY <1>1, <1>2, <1>3, <1>4, <1>5, ReadStep

(* A request that is refused, or whose transaction is rolled back, leaves  *)
(* nothing behind.                                                         *)
LEMMA NothingCommitted ==
    ASSUME LedgerInv, NEW h \in Handlers, Respond(h), Forget(h),
           UNCHANGED <<bill, payment, late, tainted>>
    PROVE  LedgerInv'
<1>1. TypeOK'
  BY DEF LedgerInv, Respond, Forget, TypeOK, PCs, Request, NoRequest
<1>2. /\ pc'[h] = "idle" /\ req'[h] = NoRequest
      /\ \A g \in Handlers \ {h} :
            pc'[g] = pc[g] /\ req'[g] = req[g] /\ missed'[g] = missed[g]
  BY DEF LedgerInv, Respond, Forget, TypeOK
<1>0. None \notin {"create", "reverse"}
  BY NoneAssumption DEF AllOps
<1>3. req'[h].op = None /\ req'[h].pay = None
  BY <1>2 DEF NoRequest
<1>4. RequestOK(h)'
  BY <1>0, <1>2, <1>3 DEF RequestOK, OpsAt
<1>5. FiguresOK(h)'
  BY <1>2 DEF FiguresOK
<1>6. \A g \in Handlers : IdOK(g)'
  BY <1>0, <1>2, <1>3, IdsKept DEF LedgerInv
<1> QED
  BY <1>1, <1>2, <1>4, <1>5, <1>6, ReadStep

(* A reversal starts with the total its bill had when it was read.         *)
LEMMA ReverseCheckInv ==
    ASSUME LedgerInv, NEW h \in Handlers, NEW p \in Payments, ReverseCheck(h, p)
    PROVE  LedgerInv'
<1> USE DEF LedgerInv, ReverseCheck, Forget
<1> DEFINE b == payment[p].bill
<1>0. b \in Bills /\ bill[b].total \in Nat
  BY DEF PaymentRowsOK, TypeOK, MonthlyRent
<1>1. TypeOK'
  BY <1>0 DEF TypeOK, PCs, Request, AllOps
<1>2. /\ pc'[h] = "checked" /\ missed'[h] = {}
      /\ req'[h].op = "reverse" /\ req'[h].bill = b /\ req'[h].pay = p
      /\ req'[h].late = FALSE /\ req'[h].total = bill[b].total
      /\ \A g \in Handlers \ {h} :
            pc'[g] = pc[g] /\ req'[g] = req[g] /\ missed'[g] = missed[g]
  BY DEF TypeOK
<1>3. RequestOK(h)'
  BY <1>0, <1>2 DEF RequestOK, OpsAt
<1>4. FiguresOK(h)'
  BY <1>2 DEF FiguresOK, KnownTotal
<1>5. \A g \in Handlers : IdOK(g)'
  BY <1>2 DEF IdOK, NoPayment
<1> QED
  BY <1>1, <1>2, <1>3, <1>4, <1>5, ReadStep

(* Marking takes a lock and changes nothing that is committed.             *)
LEMMA ReverseMarkInv ==
    ASSUME LedgerInv, NEW h \in Handlers, ReverseMark(h)
    PROVE  LedgerInv'
<1> USE DEF LedgerInv, ReverseMark
<1>1. TypeOK'
  BY DEF TypeOK, PCs
<1>2. /\ pc'[h] = "marked" /\ missed'[h] = missed[h] /\ req'[h] = req[h]
      /\ \A g \in Handlers \ {h} :
            pc'[g] = pc[g] /\ req'[g] = req[g] /\ missed'[g] = missed[g]
  BY DEF TypeOK
<1>3. RequestOK(h)'
  BY <1>2 DEF RequestOK, OpsAt
<1>4. FiguresOK(h)'
  BY <1>2 DEF FiguresOK, KnownTotal
<1>5. \A g \in Handlers : IdOK(g)'
  BY <1>2, IdsKept
<1> QED
  BY <1>1, <1>2, <1>3, <1>4, <1>5, ReadStep

(* The sum a reversal takes leaves out the payment it has marked.          *)
LEMMA ReverseSumInv ==
    ASSUME LedgerInv, NEW h \in Handlers, ReverseSum(h)
    PROVE  LedgerInv'
<1> USE DEF LedgerInv, ReverseSum
<1> DEFINE b == req[h].bill
           sum == CollectedExcept(req[h].bill, req[h].pay)
<1>0. b \in Bills /\ req[h].op = "reverse" /\ sum \in Nat
  BY PaisaFinite DEF RequestOK, OpsAt, CollectedExcept
<1>1. TypeOK'
  <2>1. \A r \in Request, n \in Nat, l \in BOOLEAN :
           [r EXCEPT !.paid = n, !.late = l] \in Request
    BY DEF Request
  <2>2. req[h] \in Request /\ late[b] \in BOOLEAN
    BY <1>0 DEF TypeOK
  <2>4. [req[h] EXCEPT !.paid = sum, !.late = late[b]] \in Request
    BY <1>0, <2>1, <2>2, Zenon
  <2>3. req' \in [Handlers -> Request]
    BY <2>4 DEF TypeOK
  <2> QED
    BY <2>3 DEF TypeOK, PCs
<1>2. /\ pc'[h] = "summed" /\ missed'[h] = missed[h] \ {"paid"}
      /\ req'[h].op = "reverse" /\ req'[h].bill = b /\ req'[h].pay = req[h].pay
      /\ req'[h].total = req[h].total /\ req'[h].paid = sum /\ req'[h].late = late[b]
      /\ \A g \in Handlers \ {h} :
            pc'[g] = pc[g] /\ req'[g] = req[g] /\ missed'[g] = missed[g]
  BY <1>0 DEF TypeOK, Request
<1>3. RequestOK(h)'
  BY <1>0, <1>2 DEF RequestOK, OpsAt
<1>4. FiguresOK(h)'
  <2>1. KnownTotal(h)'
    BY <1>0, <1>2 DEF FiguresOK, KnownTotal
  <2>2. KnownPaid(h)'
    <3>1. Paisa(req[h].bill, {req[h].pay})' = Paisa(req[h].bill, {req[h].pay})
      BY <1>2 DEF Paisa
    <3> QED
      BY <1>0, <1>2, <3>1 DEF KnownPaid, CollectedExcept
  <2> QED
    BY <1>2, <2>1, <2>2 DEF FiguresOK
<1>5. \A g \in Handlers : IdOK(g)'
  BY <1>0, <1>2, IdsKept
<1> QED
  BY <1>1, <1>2, <1>3, <1>4, <1>5, ReadStep

(* What findOne is called with, on behalf of which operation.              *)
IsBillRequest(r) ==
    \E op \in {"view", "recalculate", "update"}, b \in Bills,
       c \in Charges \cup {None}, d \in Discounts \cup {None} :
          r = BillRequest(op, b, c, d)

(* Such a request is one, and names a bill but no payment.                 *)
LEMMA BillRequestType ==
    ASSUME NEW r, IsBillRequest(r)
    PROVE  /\ r \in Request /\ r.bill \in Bills /\ r.pay = None /\ r.late = FALSE
           /\ r.op \in {"view", "recalculate", "update"}
BY DEF IsBillRequest, BillRequest, Request, AllOps

(* The figures findOne hands on are well typed, and those of the row.      *)
LEMMA FoundFigures ==
    ASSUME NEW r \in Request, NEW row \in MonthlyRent, NEW overdue \in BOOLEAN
    PROVE  /\ MergedTotal(row, r) \in Nat
           /\ [r EXCEPT !.total = row.total, !.paid = row.paid, !.late = overdue] \in Request
           /\ Found(r, row, overdue) \in Request
<1>1. row.charge \in Nat /\ row.discount \in Nat /\ row.total \in Nat /\ row.paid \in Nat
  BY DEF MonthlyRent
<1>2. /\ r.newCharge # None => r.newCharge \in Nat
      /\ r.newDiscount # None => r.newDiscount \in Nat
  BY DEF Request
<1>3. MergedTotal(row, r) \in Nat
  BY <1>1, <1>2 DEF MergedTotal, CalculateRentTotal, ClampedMinus
<1>4. \A t \in Nat, n \in Nat :
         [r EXCEPT !.total = t, !.paid = n, !.late = overdue] \in Request
  BY DEF Request
<1> QED
  BY <1>1, <1>3, <1>4 DEF Found

(* findOne sees an outdated status and is about to write it.               *)
LEMMA FindStaleInv ==
    ASSUME LedgerInv, NEW h \in Handlers, NEW r, IsBillRequest(r), FindStale(h, r)
    PROVE  LedgerInv'
<1> USE DEF LedgerInv, FindStale, Forget
<1> DEFINE b == r.bill
           q == [r EXCEPT !.total = bill[b].total, !.paid = bill[b].paid, !.late = late[b]]
<1>0. /\ r \in Request /\ b \in Bills /\ r.pay = None
      /\ r.op \in {"view", "recalculate", "update"}
      /\ bill[b] \in MonthlyRent /\ late[b] \in BOOLEAN
  BY BillRequestType DEF TypeOK
<1>1. TypeOK'
  <2>1. q \in Request
    BY <1>0, FoundFigures
  <2> QED
    BY <2>1 DEF TypeOK, PCs
<1>2. /\ pc'[h] = "lazy" /\ missed'[h] = {}
      /\ req'[h].op = r.op /\ req'[h].bill = b /\ req'[h].pay = None
      /\ req'[h].total = bill[b].total /\ req'[h].paid = bill[b].paid
      /\ req'[h].late = late[b]
      /\ \A g \in Handlers \ {h} :
            pc'[g] = pc[g] /\ req'[g] = req[g] /\ missed'[g] = missed[g]
  BY <1>0 DEF TypeOK, Request
<1>3. RequestOK(h)'
  BY <1>0, <1>2 DEF RequestOK, OpsAt
<1>4. FiguresOK(h)'
  BY <1>0, <1>2 DEF FiguresOK, KnownTotal, KnownPaid
<1>5. \A g \in Handlers : IdOK(g)'
  BY <1>0, <1>2, IdsKept
<1> QED
  BY <1>1, <1>2, <1>3, <1>4, <1>5, ReadStep

(* Once findOne has answered, the operation computes from the row as is.   *)
LEMMA FoundKnown ==
    ASSUME NEW h \in Handlers, NEW b \in Bills, NEW r \in Request, NEW overdue \in BOOLEAN,
           bill[b] \in MonthlyRent, r.bill = b, r.op \in {"recalculate", "update"},
           bill'[b].total = bill[b].total, bill'[b].paid = bill[b].paid,
           bill'[b].charge = bill[b].charge, bill'[b].discount = bill[b].discount,
           pc'[h] = "ready", req'[h] = Found(r, bill[b], overdue)
    PROVE  FiguresOK(h)'
<1>1. /\ req'[h].op = r.op /\ req'[h].bill = b /\ req'[h].paid = bill[b].paid
      /\ req'[h].newCharge = r.newCharge /\ req'[h].newDiscount = r.newDiscount
      /\ req'[h].total = IF r.op = "update" THEN MergedTotal(bill[b], r) ELSE bill[b].total
  BY DEF Found, Request
<1>2. MergedTotal(bill[req[h].bill], req[h])' = MergedTotal(bill[b], r)
  BY <1>1 DEF MergedTotal
<1>3. KnownTotal(h)'
  BY <1>1, <1>2 DEF KnownTotal
<1>4. KnownPaid(h)'
  BY <1>1 DEF KnownPaid
<1> QED
  BY <1>1, <1>3, <1>4 DEF FiguresOK

(* findOne sees an up-to-date status and hands the row on.                 *)
LEMMA FindCurrentInv ==
    ASSUME LedgerInv, NEW h \in Handlers, NEW r, IsBillRequest(r), FindCurrent(h, r)
    PROVE  LedgerInv'
<1> USE DEF LedgerInv, FindCurrent, Forget
<1> DEFINE b == r.bill
           q == Found(r, bill[b], late[b])
<1>0. /\ r \in Request /\ b \in Bills /\ r.pay = None
      /\ r.op \in {"recalculate", "update"}
      /\ bill[b] \in MonthlyRent /\ late[b] \in BOOLEAN
  BY BillRequestType DEF TypeOK
<1>1. TypeOK'
  <2>1. q \in Request
    BY <1>0, FoundFigures
  <2> QED
    BY <2>1 DEF TypeOK, PCs
<1>2. /\ pc'[h] = "ready" /\ missed'[h] = {} /\ req'[h] = q
      /\ \A g \in Handlers \ {h} :
            pc'[g] = pc[g] /\ req'[g] = req[g] /\ missed'[g] = missed[g]
  BY <1>0 DEF TypeOK
<1>3. q.op = r.op /\ q.bill = b /\ q.pay = None /\ q.late = late[b]
  BY <1>0 DEF Found, Request
<1>4. RequestOK(h)'
  BY <1>0, <1>2, <1>3 DEF RequestOK, OpsAt
<1>5. FiguresOK(h)'
  BY <1>0, <1>2, FoundKnown
<1>6. \A g \in Handlers : IdOK(g)'
  BY <1>0, <1>2, <1>3, IdsKept
<1> QED
  BY <1>1, <1>2, <1>4, <1>5, <1>6, ReadStep

-----------------------------------------------------------------------------
(* Steps that commit to one bill.                                          *)

RowExact(b) ==
    /\ "ledger" \notin tainted[b] => bill[b].paid = Collected(b)
    /\ "balance" \notin tainted[b] =>
          bill[b].remaining = CalculateRemaining(bill[b].total, bill[b].paid)
    /\ "total" \notin tainted[b] =>
          bill[b].total = CalculateRentTotal(bill[b].charge, bill[b].discount)
    /\ "status" \notin tainted[b] => StatusMatches(bill[b], late[b])

(* The rows are exact when each one is.                                    *)
LEMMA RowByRow == RowsExact <=> \A b \in Bills : RowExact(b)
BY DEF RowsExact, RowExact, LedgerExact, BalanceExact, TotalExact, StatusExact

(* A bill nobody wrote stays exact.                                        *)
LEMMA RowKept ==
    ASSUME NEW c \in Bills, RowExact(c), bill'[c] = bill[c], tainted'[c] = tainted[c],
           late'[c] = late[c], Paisa(c, {})' = Paisa(c, {})
    PROVE  RowExact(c)'
BY DEF RowExact, StatusMatches, Collected

(* A request that had read the bill knows of the commit or is untouched by *)
(* it: F are the facets the commit tells it of.                            *)
LEMMA OthersAfterCommit ==
    ASSUME NEW g \in Handlers, NEW c, NEW F, RequestOK(g), FiguresOK(g),
           c = req[g].bill, pc'[g] = pc[g], req'[g] = req[g],
           late[c] => late'[c], missed'[g] = missed[g] \cup F,
           "total" \notin F =>
              /\ bill'[c].total = bill[c].total
              /\ bill'[c].charge = bill[c].charge
              /\ bill'[c].discount = bill[c].discount,
           "paid" \notin F =>
              /\ bill'[c].paid = bill[c].paid
              /\ \A e : Paisa(c, e)' = Paisa(c, e),
           F = {} => ("balance" \in tainted'[c] <=> "balance" \in tainted[c])
    PROVE  RequestOK(g)' /\ FiguresOK(g)'
<1>1. RequestOK(g)'
  BY DEF RequestOK
<1>2. KnownTotal(g) => KnownTotal(g)'
  <2>1. CASE "total" \in F
    BY <2>1 DEF KnownTotal
  <2>2. CASE "total" \notin F
    BY <2>2 DEF KnownTotal, MergedTotal
  <2> QED
    BY <2>1, <2>2
<1>3. KnownPaid(g) => KnownPaid(g)'
  <2>1. CASE "paid" \in F
    BY <2>1 DEF KnownPaid
  <2>2. CASE "paid" \notin F
    <3>1. CollectedExcept(req[g].bill, req[g].pay)' = CollectedExcept(req[g].bill, req[g].pay)
      BY <2>2 DEF CollectedExcept
    <3> QED
      BY <2>2, <3>1 DEF KnownPaid
  <2> QED
    BY <2>1, <2>2
<1>4. KnownDue(g) => KnownDue(g)'
  BY DEF KnownDue
<1> QED
  BY <1>1, <1>2, <1>3, <1>4 DEF FiguresOK

(* The status computed for the amounts written is right for the row.       *)
LEMMA StatusWritten ==
    ASSUME NEW row, NEW seenLate \in BOOLEAN, NEW overdue \in BOOLEAN,
           seenLate => overdue,
           row.status = CalculateStatus(row.total, row.paid, seenLate)
    PROVE  StatusMatches(row, overdue)
<1>1. seenLate \in {FALSE, overdue}
  BY Zenon
<1> QED
  BY <1>1, Zenon DEF StatusMatches

(* Every status calculateStatus returns is a RentStatus, and every amount  *)
(* the arithmetic returns is an amount.                                    *)
LEMMA CalculatedTypes ==
    /\ \A t, n, l : CalculateStatus(t, n, l) \in RentStatus
    /\ \A t \in Nat, n \in Nat : CalculateRemaining(t, n) \in Nat
BY DEF CalculateStatus, RentStatus, CalculateRemaining, ClampedMinus

(* The step writes no bill but b.                                          *)
OtherBillsKept(b) ==
    \A c \in Bills \ {b} :
       /\ bill'[c] = bill[c] /\ tainted'[c] = tainted[c]
       /\ \A e : Paisa(c, e)' = Paisa(c, e)

(* Other requests stand where they stood; those on b miss the facets F.    *)
OthersTold(h, b, F) ==
    \A g \in Handlers \ {h} :
       /\ pc'[g] = pc[g] /\ req'[g] = req[g]
       /\ missed'[g] = IF req[g].bill = b THEN missed[g] \cup F ELSE missed[g]

(* The step leaves the facets of b outside F as they were.                 *)
FacetsKept(b, F) ==
    /\ "total" \notin F =>
          /\ bill'[b].total = bill[b].total
          /\ bill'[b].charge = bill[b].charge
          /\ bill'[b].discount = bill[b].discount
    /\ "paid" \notin F =>
          /\ bill'[b].paid = bill[b].paid
          /\ \A e : Paisa(b, e)' = Paisa(b, e)
    /\ F = {} => ("balance" \in tainted'[b] <=> "balance" \in tainted[b])

(* What is left to prove of a commit to bill b by h once the types and the *)
(* bill itself are done: other bills and other requests.                   *)
LEMMA CommitStep ==
    ASSUME LedgerInv, NEW h \in Handlers, NEW b \in Bills, NEW F \in SUBSET Facets,
           TypeOK', RowExact(b)', PaymentRowsOK', \A g \in Handlers : IdOK(g)',
           RequestOK(h)', FiguresOK(h)', late' = late,
           OtherBillsKept(b), OthersTold(h, b, F), FacetsKept(b, F)
    PROVE  LedgerInv'
<1> USE DEF OtherBillsKept, OthersTold, FacetsKept
<1>1. RowsExact'
  <2>1. \A c \in Bills : RowExact(c)
    BY RowByRow DEF LedgerInv, RowsExact
  <2>2. \A c \in Bills \ {b} : RowExact(c)'
    BY <2>1, RowKept
  <2>3. \A c \in Bills : RowExact(c)'
    BY <2>2
  <2> QED
    BY <2>3 DEF RowsExact, RowExact, LedgerExact, BalanceExact, TotalExact, StatusExact
<1>2. ASSUME NEW g \in Handlers \ {h}
      PROVE  RequestOK(g)' /\ FiguresOK(g)'
  <2>0. RequestOK(g) /\ FiguresOK(g)
    BY DEF LedgerInv
  <2> PICK c : c = req[g].bill
    OBVIOUS
  <2>1. CASE c = b
    <3>1. missed'[g] = missed[g] \cup F
      BY <2>1
    <3> QED
      BY <2>0, <2>1, <3>1, OthersAfterCommit
  <2>2. CASE c \in Bills \ {b}
    <3>1. missed'[g] = missed[g] \cup {}
      BY <2>2
    <3> QED
      BY <2>0, <2>2, <3>1, OthersAfterCommit
  <2>3. CASE c \notin Bills
    <3>1. pc[g] = "idle"
      BY <2>0, <2>3 DEF RequestOK
    <3> QED
      BY <2>0, <2>3, <3>1 DEF RequestOK, FiguresOK
  <2> QED
    BY <2>1, <2>2, <2>3
<1> QED
  BY <1>1, <1>2 DEF LedgerInv, RowsExact

(* A request that has answered knows nothing and claims no payment.        *)
LEMMA Answered ==
    ASSUME TypeOK, NEW h \in Handlers, Respond(h)
    PROVE  /\ pc'[h] = "idle" /\ req'[h] = NoRequest
           /\ req'[h].op = None /\ req'[h].pay = None
           /\ RequestOK(h)' /\ FiguresOK(h)'
           /\ pc' \in [Handlers -> PCs] /\ req' \in [Handlers -> Request]
           /\ \A g \in Handlers \ {h} : pc'[g] = pc[g] /\ req'[g] = req[g]
<1>1. /\ pc'[h] = "idle" /\ req'[h] = NoRequest
      /\ \A g \in Handlers \ {h} : pc'[g] = pc[g] /\ req'[g] = req[g]
  BY DEF Respond, TypeOK
<1>2. pc' \in [Handlers -> PCs] /\ req' \in [Handlers -> Request]
  BY DEF Respond, TypeOK, PCs, Request, NoRequest
<1>3. req'[h].op = None /\ req'[h].pay = None
  BY <1>1 DEF NoRequest
<1>4. None # "create"
  BY NoneAssumption DEF AllOps
<1>5. RequestOK(h)' /\ FiguresOK(h)'
  BY <1>1, <1>3, <1>4 DEF RequestOK, OpsAt, FiguresOK
<1> QED
  BY <1>1, <1>2, <1>3, <1>5

(* A payment's commit: the case that makes amounts grow.                   *)
LEMMA CreateCommitInv ==
    ASSUME LedgerInv, NEW h \in Handlers, CreateCommit(h)
    PROVE  LedgerInv'
<1> USE DEF LedgerInv
<1> PICK b, p, r : r = req[h] /\ b = r.bill /\ p = r.pay
  OBVIOUS
<1> PICK newPaid, broken :
        /\ newPaid = r.paid + r.amount
        /\ broken = If("paid" \in missed[h], {"ledger"})
                      \cup If("total" \in missed[h], {"balance", "status"})
  OBVIOUS
<1>0. /\ b \in Bills /\ p \in Payments /\ r.op = "create" /\ pc[h] = "ready"
      /\ payment[p] = NoPayment /\ r.amount \in 0..MaxAmount /\ r.amount \in Nat
      /\ r.paid \in Nat /\ r.total \in Nat /\ newPaid \in Nat
      /\ r.late \in BOOLEAN /\ (r.late => late[b]) /\ late[b] \in BOOLEAN
      /\ bill[b] \in MonthlyRent
  <2>1. r.op = "create" /\ pc[h] = "ready"
    BY DEF CreateCommit
  <2>2. r \in Request
    BY DEF TypeOK
  <2> QED
    BY <2>1, <2>2 DEF RequestOK, IdOK, TypeOK, Request
<1>1. /\ Respond(h) /\ Publish(h, b, {"paid"}) /\ late' = late
      /\ Taint(b, broken, {"balance", "status"})
      /\ payment' = [payment EXCEPT ![p] =
                       [bill |-> b, amount |-> r.amount, status |-> "COMPLETED"]]
  BY DEF CreateCommit
<1>2. /\ bill' \in [Bills -> MonthlyRent]
      /\ bill'[b].paid = newPaid
      /\ bill'[b].remaining = CalculateRemaining(r.total, newPaid)
      /\ bill'[b].status = CalculateStatus(r.total, newPaid, r.late)
      /\ bill'[b].total = bill[b].total
      /\ bill'[b].charge = bill[b].charge
      /\ bill'[b].discount = bill[b].discount
      /\ \A c \in Bills \ {b} : bill'[c] = bill[c]
  <2>1. /\ CalculateRemaining(r.total, newPaid) \in Nat
        /\ CalculateStatus(r.total, newPaid, r.late) \in RentStatus
    BY <1>0, CalculatedTypes
  <2> QED
    BY <1>0, <2>1 DEF CreateCommit, TypeOK, MonthlyRent
<1>3. /\ broken \in SUBSET TaintKinds
      /\ "ledger" \in broken <=> "paid" \in missed[h]
      /\ "balance" \in broken <=> "total" \in missed[h]
      /\ "status" \in broken <=> "total" \in missed[h]
      /\ "total" \notin broken
  BY DEF If, TaintKinds
<1>3a. PICK F : F = {"paid"}
  OBVIOUS
<1>11. F \in SUBSET Facets /\ "paid" \in F /\ "total" \notin F /\ F # {}
  BY <1>3a DEF Facets
<1>4. /\ missed' \in [Handlers -> SUBSET Facets]
      /\ tainted' \in [Bills -> SUBSET TaintKinds]
      /\ tainted'[b] = (tainted[b] \ {"balance", "status"}) \cup broken
      /\ \A c \in Bills \ {b} : tainted'[c] = tainted[c]
      /\ \A g \in Handlers \ {h} :
            missed'[g] = IF req[g].bill = b THEN missed[g] \cup F ELSE missed[g]
  <2>1. Publish(h, b, F) /\ TypeOK
    BY <1>1, <1>3a
  <2>2. /\ missed' \in [Handlers -> SUBSET Facets]
        /\ \A g \in Handlers \ {h} :
              missed'[g] = IF req[g].bill = b THEN missed[g] \cup F ELSE missed[g]
    BY <1>11, <2>1 DEF Publish, TypeOK
  <2>3. /\ tainted' \in [Bills -> SUBSET TaintKinds]
        /\ tainted'[b] = (tainted[b] \ {"balance", "status"}) \cup broken
        /\ \A c \in Bills \ {b} : tainted'[c] = tainted[c]
    <3>1. b \in Bills
      BY <1>0
    <3>2. broken \in SUBSET TaintKinds
      BY <1>3
    <3>3. Taint(b, broken, {"balance", "status"})
      BY <1>1
    <3> QED
      BY <2>1, <3>1, <3>2, <3>3 DEF Taint, TypeOK
  <2> QED
    BY <2>2, <2>3, Zenon
<1>5. TypeOK'
  <2>1. payment' \in [Payments -> Payment]
    BY <1>0, <1>1 DEF TypeOK, Payment
  <2> QED
    BY <1>1, <1>2, <1>4, <2>1, Answered DEF TypeOK
<1>6. /\ Collected(b)' = Collected(b) + r.amount
      /\ \A c \in Bills \ {b} : \A e : Paisa(c, e)' = Paisa(c, e)
  <2>1. /\ Collected(b)' = Collected(b) + r.amount
        /\ \A c \in Bills : c # b => \A e : Paisa(c, e)' = Paisa(c, e)
    BY <1>0, <1>1, NewPaymentCollected, Zenon
  <2> QED
    BY <2>1
<1>7. RowExact(b)'
  <2>1. "total" \notin missed[h] => r.total = bill[b].total
    BY <1>0 DEF FiguresOK, KnownTotal
  <2>2. "paid" \notin missed[h] => r.paid = bill[b].paid
    BY <1>0 DEF FiguresOK, KnownPaid
  <2>3. "ledger" \notin tainted'[b] => bill'[b].paid = Collected(b)'
    BY <1>0, <1>2, <1>3, <1>4, <1>6, <2>2 DEF LedgerExact
  <2>4. "balance" \notin tainted'[b] =>
          bill'[b].remaining = CalculateRemaining(bill'[b].total, bill'[b].paid)
    BY <1>2, <1>3, <1>4, <2>1
  <2>5. "total" \notin tainted'[b] =>
          bill'[b].total = CalculateRentTotal(bill'[b].charge, bill'[b].discount)
    BY <1>0, <1>2, <1>4 DEF TotalExact
  <2>6. "status" \notin tainted'[b] => StatusMatches(bill'[b], late'[b])
    BY <1>0, <1>1, <1>2, <1>3, <1>4, <2>1, StatusWritten
  <2> QED
    BY <2>3, <2>4, <2>5, <2>6 DEF RowExact
<1>8. PaymentRowsOK'
  BY <1>0, <1>1 DEF PaymentRowsOK, TypeOK, NoPayment
<1>9. \A g \in Handlers : IdOK(g)'
  BY <1>0, <1>1, Answered, NoneAssumption DEF IdOK, AllOps, TypeOK, NoPayment
<1>10. /\ RequestOK(h)' /\ FiguresOK(h)'
       /\ \A g \in Handlers \ {h} : pc'[g] = pc[g] /\ req'[g] = req[g]
  BY <1>1, Answered
<1>13. OthersTold(h, b, F)
  BY <1>4, <1>10 DEF OthersTold
<1>14. OtherBillsKept(b)
  BY <1>2, <1>4, <1>6 DEF OtherBillsKept
<1>15. FacetsKept(b, F) /\ late' = late /\ b \in Bills
  BY <1>0, <1>1, <1>2, <1>11 DEF FacetsKept
<1> HIDE DEF LedgerInv
<1> QED
  BY <1>5, <1>7, <1>8, <1>9, <1>10, <1>11, <1>13, <1>14, <1>15, CommitStep, Zenon

(* A reversal's commit makes the paid amount exact again.                  *)
LEMMA ReverseCommitInv ==
    ASSUME LedgerInv, NEW h \in Handlers, ReverseCommit(h)
    PROVE  LedgerInv'
<1> USE DEF LedgerInv
<1> PICK b, p, r : r = req[h] /\ b = r.bill /\ p = r.pay
  OBVIOUS
<1> PICK broken :
        broken = If("paid" \in missed[h], {"ledger"})
                   \cup If("total" \in missed[h], {"balance", "status"})
  OBVIOUS
<1>0. /\ b \in Bills /\ p \in Payments /\ r.op = "reverse" /\ pc[h] = "summed"
      /\ payment[p].status # "ABSENT" /\ payment[p].bill = b
      /\ r.paid \in Nat /\ r.total \in Nat
      /\ r.late \in BOOLEAN /\ (r.late => late[b]) /\ late[b] \in BOOLEAN
      /\ bill[b] \in MonthlyRent
  <2>1. pc[h] = "summed"
    BY DEF ReverseCommit
  <2>2. r \in Request
    BY DEF TypeOK
  <2>3. r.op = "reverse" /\ b \in Bills
    BY <2>1 DEF RequestOK, OpsAt
  <2> QED
    BY <2>1, <2>2, <2>3 DEF RequestOK, IdOK, TypeOK, Request
<1>1. /\ Respond(h) /\ Publish(h, b, {"paid"}) /\ late' = late
      /\ Taint(b, broken, {"ledger", "balance", "status"})
      /\ payment' = [payment EXCEPT ![p].status = "REVERSED"]
  BY DEF ReverseCommit
<1>2. /\ bill' \in [Bills -> MonthlyRent]
      /\ bill'[b].paid = r.paid
      /\ bill'[b].remaining = CalculateRemaining(r.total, r.paid)
      /\ bill'[b].status = CalculateStatus(r.total, r.paid, r.late)
      /\ bill'[b].total = bill[b].total
      /\ bill'[b].charge = bill[b].charge
      /\ bill'[b].discount = bill[b].discount
      /\ \A c \in Bills \ {b} : bill'[c] = bill[c]
  <2>1. /\ CalculateRemaining(r.total, r.paid) \in Nat
        /\ CalculateStatus(r.total, r.paid, r.late) \in RentStatus
    BY <1>0, CalculatedTypes
  <2> QED
    BY <1>0, <2>1 DEF ReverseCommit, TypeOK, MonthlyRent
<1>3. /\ broken \in SUBSET TaintKinds
      /\ "ledger" \in broken <=> "paid" \in missed[h]
      /\ "balance" \in broken <=> "total" \in missed[h]
      /\ "status" \in broken <=> "total" \in missed[h]
      /\ "total" \notin broken
  BY DEF If, TaintKinds
<1>3a. PICK F : F = {"paid"}
  OBVIOUS
<1>11. F \in SUBSET Facets /\ "paid" \in F /\ "total" \notin F /\ F # {}
  BY <1>3a DEF Facets
<1>4. /\ missed' \in [Handlers -> SUBSET Facets]
      /\ tainted' \in [Bills -> SUBSET TaintKinds]
      /\ tainted'[b] = (tainted[b] \ {"ledger", "balance", "status"}) \cup broken
      /\ \A c \in Bills \ {b} : tainted'[c] = tainted[c]
      /\ \A g \in Handlers \ {h} :
            missed'[g] = IF req[g].bill = b THEN missed[g] \cup F ELSE missed[g]
  <2>1. Publish(h, b, F) /\ TypeOK
    BY <1>1, <1>3a
  <2>2. /\ missed' \in [Handlers -> SUBSET Facets]
        /\ \A g \in Handlers \ {h} :
              missed'[g] = IF req[g].bill = b THEN missed[g] \cup F ELSE missed[g]
    BY <1>11, <2>1 DEF Publish, TypeOK
  <2>3. /\ tainted' \in [Bills -> SUBSET TaintKinds]
        /\ tainted'[b] = (tainted[b] \ {"ledger", "balance", "status"}) \cup broken
        /\ \A c \in Bills \ {b} : tainted'[c] = tainted[c]
    <3>1. Taint(b, broken, {"ledger", "balance", "status"})
      BY <1>1
    <3>2. b \in Bills /\ broken \in SUBSET TaintKinds
      BY <1>0, <1>3
    <3> QED
      BY <2>1, <3>1, <3>2 DEF Taint, TypeOK
  <2> QED
    BY <2>2, <2>3, Zenon
<1>5. TypeOK'
  <2>1. payment' \in [Payments -> Payment]
    BY <1>0, <1>1 DEF TypeOK, Payment
  <2> QED
    BY <1>1, <1>2, <1>4, <2>1, Answered DEF TypeOK
<1>6. /\ Collected(b)' = CollectedExcept(b, p)
      /\ \A c \in Bills \ {b} : \A e : Paisa(c, e)' = Paisa(c, e)
  <2>1. /\ \A c : Paisa(c, {})' = Paisa(c, {p})
        /\ \A c, e : c # b => Paisa(c, e)' = Paisa(c, e)
    BY <1>0, <1>1, ReversalCollected
  <2> QED
    BY <2>1 DEF Collected, CollectedExcept
<1>7. RowExact(b)'
  <2>1. "total" \notin missed[h] => r.total = bill[b].total
    BY <1>0 DEF FiguresOK, KnownTotal
  <2>2. "paid" \notin missed[h] => r.paid = CollectedExcept(b, p)
    BY <1>0 DEF FiguresOK, KnownPaid
  <2>3. "ledger" \notin tainted'[b] => bill'[b].paid = Collected(b)'
    BY <1>2, <1>3, <1>4, <1>6, <2>2
  <2>4. "balance" \notin tainted'[b] =>
          bill'[b].remaining = CalculateRemaining(bill'[b].total, bill'[b].paid)
    BY <1>2, <1>3, <1>4, <2>1
  <2>5. "total" \notin tainted'[b] =>
          bill'[b].total = CalculateRentTotal(bill'[b].charge, bill'[b].discount)
    BY <1>0, <1>2, <1>4 DEF TotalExact
  <2>6. "status" \notin tainted'[b] => StatusMatches(bill'[b], late'[b])
    BY <1>0, <1>1, <1>2, <1>3, <1>4, <2>1, StatusWritten
  <2> QED
    BY <2>3, <2>4, <2>5, <2>6 DEF RowExact
<1>8. PaymentRowsOK'
  BY <1>0, <1>1 DEF PaymentRowsOK, TypeOK, NoPayment, Payment
<1>9. \A g \in Handlers : IdOK(g)'
  <2>1. \A q \in Payments : q # p => payment'[q] = payment[q]
    BY <1>1 DEF TypeOK
  <2>2. payment'[p].status # "ABSENT" /\ payment'[p].bill = payment[p].bill
    BY <1>0, <1>1 DEF TypeOK, Payment
  <2>3. \A g \in Handlers : req[g].op = "create" => req[g].pay # p
    BY <1>0 DEF IdOK, NoPayment
  <2> QED
    BY <1>0, <1>1, <2>1, <2>2, <2>3, Answered, NoneAssumption DEF IdOK, AllOps
<1>10. /\ RequestOK(h)' /\ FiguresOK(h)'
       /\ \A g \in Handlers \ {h} : pc'[g] = pc[g] /\ req'[g] = req[g]
  BY <1>1, Answered
<1>13. OthersTold(h, b, F)
  BY <1>4, <1>10 DEF OthersTold
<1>14. OtherBillsKept(b)
  BY <1>2, <1>4, <1>6 DEF OtherBillsKept
<1>15. FacetsKept(b, F) /\ late' = late /\ b \in Bills
  BY <1>0, <1>1, <1>2, <1>11 DEF FacetsKept
<1> HIDE DEF LedgerInv
<1> QED
  BY <1>5, <1>7, <1>8, <1>9, <1>10, <1>11, <1>13, <1>14, <1>15, CommitStep, Zenon

(* An update's commit: the only step that changes a total.                 *)
LEMMA UpdateInv ==
    ASSUME LedgerInv, NEW h \in Handlers, Update(h)
    PROVE  LedgerInv'
<1> USE DEF LedgerInv
<1> PICK b, r : r = req[h] /\ b = r.bill
  OBVIOUS
<1> PICK broken :
        broken = If("total" \in missed[h], {"total"})
                   \cup If("paid" \in missed[h], {"balance", "status"})
  OBVIOUS
<1>0. /\ b \in Bills /\ r.op = "update" /\ pc[h] = "ready"
      /\ r.paid \in Nat /\ r.total \in Nat
      /\ r.newCharge \in Charges \cup {None} /\ r.newDiscount \in Discounts \cup {None}
      /\ r.late \in BOOLEAN /\ (r.late => late[b]) /\ late[b] \in BOOLEAN
      /\ bill[b] \in MonthlyRent
  <2>1. r.op = "update" /\ pc[h] = "ready"
    BY DEF Update
  <2>2. r \in Request
    BY DEF TypeOK
  <2> QED
    BY <2>1, <2>2 DEF RequestOK, TypeOK, Request
<1>1. /\ Respond(h) /\ Publish(h, b, {"total"}) /\ late' = late /\ payment' = payment
      /\ Taint(b, broken, {"total", "balance", "status"})
  BY DEF Update
<1>2. /\ bill' \in [Bills -> MonthlyRent]
      /\ bill'[b].charge = IF r.newCharge = None THEN bill[b].charge ELSE r.newCharge
      /\ bill'[b].discount = IF r.newDiscount = None THEN bill[b].discount ELSE r.newDiscount
      /\ bill'[b].total = r.total
      /\ bill'[b].paid = bill[b].paid
      /\ bill'[b].remaining = CalculateRemaining(r.total, r.paid)
      /\ bill'[b].status = CalculateStatus(r.total, r.paid, r.late)
      /\ \A c \in Bills \ {b} : bill'[c] = bill[c]
  <2>1. /\ CalculateRemaining(r.total, r.paid) \in Nat
        /\ CalculateStatus(r.total, r.paid, r.late) \in RentStatus
    BY <1>0, CalculatedTypes
  <2>2. \A row \in MonthlyRent, c \in Nat, d \in Nat, m \in Nat, s \in RentStatus :
           [row EXCEPT !.charge = c, !.discount = d, !.total = r.total,
                       !.remaining = m, !.status = s] \in MonthlyRent
    BY <1>0 DEF MonthlyRent
  <2>3. PICK c, d, m, s :
           /\ c = IF r.newCharge = None THEN bill[b].charge ELSE r.newCharge
           /\ d = IF r.newDiscount = None THEN bill[b].discount ELSE r.newDiscount
           /\ m = CalculateRemaining(r.total, r.paid)
           /\ s = CalculateStatus(r.total, r.paid, r.late)
    OBVIOUS
  <2>4. c \in Nat /\ d \in Nat /\ m \in Nat /\ s \in RentStatus
    BY <1>0, <2>1, <2>3 DEF MonthlyRent
  <2>5. bill' = [bill EXCEPT ![b] = [bill[b] EXCEPT
                   !.charge = c, !.discount = d, !.total = r.total,
                   !.remaining = m, !.status = s]]
    BY <1>0, <2>3 DEF Update, TypeOK, MonthlyRent
  <2>6. /\ bill' \in [Bills -> MonthlyRent]
        /\ \A e \in Bills \ {b} : bill'[e] = bill[e]
    BY <1>0, <2>2, <2>4, <2>5 DEF TypeOK
  <2>7. /\ bill'[b].charge = c /\ bill'[b].discount = d /\ bill'[b].total = r.total
        /\ bill'[b].paid = bill[b].paid /\ bill'[b].remaining = m /\ bill'[b].status = s
    BY <1>0, <2>5 DEF TypeOK, MonthlyRent
  <2> QED
    BY <2>3, <2>6, <2>7
<1>3. /\ broken \in SUBSET TaintKinds
      /\ "total" \in broken <=> "total" \in missed[h]
      /\ "balance" \in broken <=> "paid" \in missed[h]
      /\ "status" \in broken <=> "paid" \in missed[h]
      /\ "ledger" \notin broken
  BY DEF If, TaintKinds
<1>3a. PICK F : F = {"total"}
  OBVIOUS
<1>11. F \in SUBSET Facets /\ "total" \in F /\ "paid" \notin F /\ F # {}
  BY <1>3a DEF Facets
<1>4. /\ missed' \in [Handlers -> SUBSET Facets]
      /\ tainted' \in [Bills -> SUBSET TaintKinds]
      /\ tainted'[b] = (tainted[b] \ {"total", "balance", "status"}) \cup broken
      /\ \A c \in Bills \ {b} : tainted'[c] = tainted[c]
      /\ \A g \in Handlers \ {h} :
            missed'[g] = IF req[g].bill = b THEN missed[g] \cup F ELSE missed[g]
  <2>1. Publish(h, b, F) /\ TypeOK
    BY <1>1, <1>3a
  <2>2. /\ missed' \in [Handlers -> SUBSET Facets]
        /\ \A g \in Handlers \ {h} :
              missed'[g] = IF req[g].bill = b THEN missed[g] \cup F ELSE missed[g]
    BY <1>11, <2>1 DEF Publish, TypeOK
  <2>3. /\ tainted' \in [Bills -> SUBSET TaintKinds]
        /\ tainted'[b] = (tainted[b] \ {"total", "balance", "status"}) \cup broken
        /\ \A c \in Bills \ {b} : tainted'[c] = tainted[c]
    <3>1. Taint(b, broken, {"total", "balance", "status"})
      BY <1>1
    <3>2. b \in Bills /\ broken \in SUBSET TaintKinds
      BY <1>0, <1>3
    <3> QED
      BY <2>1, <3>1, <3>2 DEF Taint, TypeOK
  <2> QED
    BY <2>2, <2>3, Zenon
<1>5. TypeOK'
  BY <1>1, <1>2, <1>4, Answered DEF TypeOK
<1>6. \A c, e : Paisa(c, e)' = Paisa(c, e)
  BY <1>1 DEF Paisa
<1>7. RowExact(b)'
  <2>1. "total" \notin missed[h] => r.total = MergedTotal(bill[b], r)
    BY <1>0 DEF FiguresOK, KnownTotal
  <2>2. "paid" \notin missed[h] => r.paid = bill[b].paid
    BY <1>0 DEF FiguresOK, KnownPaid
  <2>3. "ledger" \notin tainted'[b] => bill'[b].paid = Collected(b)'
    BY <1>0, <1>2, <1>3, <1>4, <1>6 DEF LedgerExact, Collected
  <2>4. "balance" \notin tainted'[b] =>
          bill'[b].remaining = CalculateRemaining(bill'[b].total, bill'[b].paid)
    BY <1>2, <1>3, <1>4, <2>2
  <2>5. "total" \notin tainted'[b] =>
          bill'[b].total = CalculateRentTotal(bill'[b].charge, bill'[b].discount)
    BY <1>2, <1>3, <1>4, <2>1 DEF MergedTotal
  <2>6. "status" \notin tainted'[b] => StatusMatches(bill'[b], late'[b])
    BY <1>0, <1>1, <1>2, <1>3, <1>4, <2>2, StatusWritten
  <2> QED
    BY <2>3, <2>4, <2>5, <2>6 DEF RowExact
<1>8. PaymentRowsOK'
  BY <1>1 DEF PaymentRowsOK
<1>10. /\ RequestOK(h)' /\ FiguresOK(h)'
       /\ req'[h].op = None /\ req'[h].pay = None
       /\ \A g \in Handlers \ {h} : pc'[g] = pc[g] /\ req'[g] = req[g]
  BY <1>1, Answered
<1>9. \A g \in Handlers : IdOK(g)'
  BY <1>1, <1>10, IdsKept, NoneAssumption DEF AllOps
<1>13. OthersTold(h, b, F)
  BY <1>4, <1>10 DEF OthersTold
<1>14. OtherBillsKept(b)
  BY <1>2, <1>4, <1>6 DEF OtherBillsKept
<1>15. FacetsKept(b, F) /\ late' = late /\ b \in Bills
  BY <1>0, <1>1, <1>2, <1>6, <1>11 DEF FacetsKept
<1> HIDE DEF LedgerInv
<1> QED
  BY <1>5, <1>7, <1>8, <1>9, <1>10, <1>11, <1>13, <1>14, <1>15, CommitStep, Zenon

-----------------------------------------------------------------------------
(* Steps that write a status and nothing else.                             *)

(* A status computed from what the row held when it was read, on a row     *)
(* nobody has changed since, is right.                                     *)
LEMMA StatusWrite ==
    ASSUME LedgerInv, NEW h \in Handlers, NEW b, NEW r,
           r = req[h], b = r.bill, b \in Bills,
           r.total \in Nat, r.paid \in Nat, r.late \in BOOLEAN, r.late => late[b],
           "total" \notin missed[h] => r.total = bill[b].total,
           "paid" \notin missed[h] => r.paid = bill[b].paid,
           bill' = [bill EXCEPT ![b].status = CalculateStatus(r.total, r.paid, r.late)],
           Taint(b, If(missed[h] # {}, {"status"}), {"status"}),
           Forget(h), UNCHANGED <<payment, late>>,
           pc' \in [Handlers -> PCs], req' \in [Handlers -> Request],
           \A g \in Handlers \ {h} : pc'[g] = pc[g] /\ req'[g] = req[g],
           RequestOK(h)', FiguresOK(h)', \A g \in Handlers : IdOK(g)'
    PROVE  LedgerInv'
<1> USE DEF LedgerInv
<1>1. /\ bill' \in [Bills -> MonthlyRent]
      /\ bill'[b].status = CalculateStatus(r.total, r.paid, r.late)
      /\ bill'[b].total = bill[b].total /\ bill'[b].paid = bill[b].paid
      /\ bill'[b].remaining = bill[b].remaining
      /\ bill'[b].charge = bill[b].charge /\ bill'[b].discount = bill[b].discount
      /\ \A c \in Bills \ {b} : bill'[c] = bill[c]
  <2>1. CalculateStatus(r.total, r.paid, r.late) \in RentStatus
    BY CalculatedTypes
  <2> QED
    BY <2>1 DEF TypeOK, MonthlyRent
<1>2. PICK broken : broken = If(missed[h] # {}, {"status"})
  OBVIOUS
<1>3. /\ broken \in SUBSET TaintKinds
      /\ "status" \notin broken => missed[h] = {}
      /\ broken \subseteq {"status"}
  BY <1>2 DEF If, TaintKinds
<1>4. /\ tainted' \in [Bills -> SUBSET TaintKinds]
      /\ tainted'[b] = (tainted[b] \ {"status"}) \cup broken
      /\ \A c \in Bills \ {b} : tainted'[c] = tainted[c]
  BY <1>2, <1>3 DEF Taint, TypeOK
<1>5. /\ missed' \in [Handlers -> SUBSET Facets]
      /\ \A g \in Handlers \ {h} : missed'[g] = missed[g]
  BY DEF Forget, TypeOK
<1>6. TypeOK'
  BY <1>1, <1>4, <1>5 DEF TypeOK
<1>7. \A c, e : Paisa(c, e)' = Paisa(c, e)
  BY DEF Paisa
<1>8. RowExact(b)'
  <2>1. "ledger" \notin tainted'[b] => bill'[b].paid = Collected(b)'
    BY <1>1, <1>3, <1>4, <1>7 DEF LedgerExact, Collected
  <2>2. "balance" \notin tainted'[b] =>
          bill'[b].remaining = CalculateRemaining(bill'[b].total, bill'[b].paid)
    BY <1>1, <1>3, <1>4 DEF BalanceExact
  <2>3. "total" \notin tainted'[b] =>
          bill'[b].total = CalculateRentTotal(bill'[b].charge, bill'[b].discount)
    BY <1>1, <1>3, <1>4 DEF TotalExact
  <2>4. "status" \notin tainted'[b] => StatusMatches(bill'[b], late'[b])
    <3>1. late[b] \in BOOLEAN /\ late'[b] = late[b]
      BY DEF TypeOK
    <3>2. ASSUME "status" \notin tainted'[b]
          PROVE  bill'[b].status = CalculateStatus(bill'[b].total, bill'[b].paid, r.late)
      BY <1>1, <1>3, <1>4, <3>2
    <3>3. ASSUME NEW row, row.status = CalculateStatus(row.total, row.paid, r.late)
          PROVE  StatusMatches(row, late[b])
      BY <3>1, <3>3, StatusWritten, Zenon
    <3> QED
      BY <3>1, <3>2, <3>3
  <2> QED
    BY <2>1, <2>2, <2>3, <2>4 DEF RowExact
<1>9. PaymentRowsOK'
  BY DEF PaymentRowsOK
<1>10. PICK F : F = {}
  OBVIOUS
<1>11. F \in SUBSET Facets /\ "total" \notin F /\ "paid" \notin F
  BY <1>10
<1>12. OthersTold(h, b, F)
  BY <1>5, <1>10 DEF OthersTold
<1>13. OtherBillsKept(b)
  BY <1>1, <1>4, <1>7 DEF OtherBillsKept
<1>14. FacetsKept(b, F)
  BY <1>1, <1>3, <1>4, <1>7 DEF FacetsKept
<1>15. late' = late
  OBVIOUS
<1> HIDE DEF LedgerInv
<1> QED
  BY <1>6, <1>8, <1>9, <1>11, <1>12, <1>13, <1>14, <1>15, CommitStep, Zenon

(* :id/calculate-status writes the status of the row findOne read.         *)
LEMMA RecalculateStatusInv ==
    ASSUME LedgerInv, NEW h \in Handlers, RecalculateStatus(h)
    PROVE  LedgerInv'
<1> PICK b, r : r = req[h] /\ b = r.bill
  OBVIOUS
<1>1. TypeOK /\ RequestOK(h) /\ FiguresOK(h) /\ \A g \in Handlers : IdOK(g)
  BY DEF LedgerInv
<1>2. pc[h] = "ready" /\ r.op = "recalculate"
  BY DEF RecalculateStatus
<1>3. r \in Request
  BY <1>1 DEF TypeOK
<1>4. /\ b \in Bills /\ r.total \in Nat /\ r.paid \in Nat
      /\ r.late \in BOOLEAN /\ (r.late => late[b])
      /\ "total" \notin missed[h] => r.total = bill[b].total
      /\ "paid" \notin missed[h] => r.paid = bill[b].paid
  BY <1>1, <1>2, <1>3 DEF RequestOK, Request, FiguresOK, KnownTotal, KnownPaid
<1>5. /\ Respond(h) /\ Forget(h) /\ UNCHANGED <<payment, late>>
      /\ bill' = [bill EXCEPT ![b].status = CalculateStatus(r.total, r.paid, r.late)]
      /\ Taint(b, If(missed[h] # {}, {"status"}), {"status"})
  BY DEF RecalculateStatus
<1>6. /\ RequestOK(h)' /\ FiguresOK(h)' /\ req'[h].op = None /\ req'[h].pay = None
      /\ pc' \in [Handlers -> PCs] /\ req' \in [Handlers -> Request]
      /\ \A g \in Handlers \ {h} : pc'[g] = pc[g] /\ req'[g] = req[g]
  BY <1>1, <1>5, Answered
<1>7. \A g \in Handlers : IdOK(g)'
  BY <1>1, <1>5, <1>6, IdsKept, NoneAssumption DEF AllOps
<1> QED
  BY <1>4, <1>5, <1>6, <1>7, StatusWrite

(* findOne writes the status it has calculated, and goes on or answers.    *)
LEMMA LazyStatusWriteInv ==
    ASSUME LedgerInv, NEW h \in Handlers, LazyStatusWrite(h)
    PROVE  LedgerInv'
<1> PICK b, r : r = req[h] /\ b = r.bill
  OBVIOUS
<1>1. TypeOK /\ RequestOK(h) /\ FiguresOK(h) /\ \A g \in Handlers : IdOK(g)
  BY DEF LedgerInv
<1>2. pc[h] = "lazy" /\ r.op \in {"view", "recalculate", "update"}
  BY <1>1 DEF LazyStatusWrite, RequestOK, OpsAt
<1>3. r \in Request
  BY <1>1 DEF TypeOK
<1>4. /\ b \in Bills /\ r.total \in Nat /\ r.paid \in Nat
      /\ r.late \in BOOLEAN /\ (r.late => late[b])
      /\ "total" \notin missed[h] => r.total = bill[b].total
      /\ "paid" \notin missed[h] => r.paid = bill[b].paid
  BY <1>1, <1>2, <1>3 DEF RequestOK, Request, FiguresOK, KnownTotal, KnownPaid
<1>5. /\ Forget(h) /\ UNCHANGED <<payment, late>>
      /\ bill' = [bill EXCEPT ![b].status = CalculateStatus(r.total, r.paid, r.late)]
      /\ Taint(b, If(missed[h] # {}, {"status"}), {"status"})
  BY DEF LazyStatusWrite
<1>6. CASE r.op = "view"
  <2>1. Respond(h)
    BY <1>6 DEF LazyStatusWrite
  <2>2. /\ RequestOK(h)' /\ FiguresOK(h)' /\ req'[h].op = None /\ req'[h].pay = None
        /\ pc' \in [Handlers -> PCs] /\ req' \in [Handlers -> Request]
        /\ \A g \in Handlers \ {h} : pc'[g] = pc[g] /\ req'[g] = req[g]
    BY <1>1, <2>1, Answered
  <2>3. \A g \in Handlers : IdOK(g)'
    BY <1>1, <1>5, <2>2, IdsKept, NoneAssumption DEF AllOps
  <2> QED
    BY <1>4, <1>5, <2>2, <2>3, StatusWrite
<1>7. CASE r.op \in {"recalculate", "update"}
  <2>1. /\ pc' = [pc EXCEPT ![h] = "ready"]
        /\ req' = [req EXCEPT ![h] = Found(r, bill[b], late[b])]
    BY <1>7 DEF LazyStatusWrite
  <2>2. /\ bill[b] \in MonthlyRent /\ late[b] \in BOOLEAN
        /\ bill'[b].total = bill[b].total /\ bill'[b].paid = bill[b].paid
        /\ bill'[b].charge = bill[b].charge /\ bill'[b].discount = bill[b].discount
    BY <1>1, <1>4, <1>5 DEF TypeOK, MonthlyRent
  <2>3. PICK q : q = Found(r, bill[b], late[b])
    OBVIOUS
  <2>4. q \in Request
    BY <1>3, <2>2, <2>3, FoundFigures
  <2>5. q.op = r.op /\ q.bill = b /\ q.pay = r.pay /\ q.late = late[b]
    BY <1>3, <2>3 DEF Found, Request
  <2>6. /\ pc' \in [Handlers -> PCs] /\ req' \in [Handlers -> Request]
        /\ pc'[h] = "ready" /\ req'[h] = q
        /\ \A g \in Handlers \ {h} : pc'[g] = pc[g] /\ req'[g] = req[g]
    BY <1>1, <2>1, <2>3, <2>4 DEF TypeOK, PCs
  <2>7. RequestOK(h)'
    BY <1>4, <1>5, <1>7, <2>5, <2>6 DEF RequestOK, OpsAt
  <2>8. FiguresOK(h)'
    BY <1>3, <1>4, <1>7, <2>2, <2>3, <2>6, FoundKnown
  <2>9. \A g \in Handlers : IdOK(g)'
    BY <1>1, <1>5, <2>5, <2>6, IdsKept
  <2> QED
    BY <1>4, <1>5, <2>6, <2>7, <2>8, <2>9, StatusWrite
<1> QED
  BY <1>2, <1>6, <1>7

(* The list endpoints turn unpaid bills past their due date to OVERDUE.    *)
LEMMA RefreshInv ==
    ASSUME LedgerInv, RefreshOverdueStatuses
    PROVE  LedgerInv'
<1> USE DEF LedgerInv
<1>1. /\ bill' \in [Bills -> MonthlyRent]
      /\ \A c \in Bills :
           /\ bill'[c].total = bill[c].total /\ bill'[c].paid = bill[c].paid
           /\ bill'[c].remaining = bill[c].remaining
           /\ bill'[c].charge = bill[c].charge /\ bill'[c].discount = bill[c].discount
           /\ bill'[c].status = IF PastDue(c) THEN "OVERDUE" ELSE bill[c].status
  BY DEF RefreshOverdueStatuses, TypeOK, MonthlyRent, RentStatus
<1>2. UNCHANGED <<payment, late, pc, req, missed, tainted>>
  BY DEF RefreshOverdueStatuses
<1>3. TypeOK'
  BY <1>1, <1>2 DEF TypeOK
<1>4. \A c, e : Paisa(c, e)' = Paisa(c, e)
  BY <1>2 DEF Paisa
<1>5. \A g \in Handlers : RequestOK(g)' /\ FiguresOK(g)'
  <2> SUFFICES ASSUME NEW g \in Handlers
               PROVE  RequestOK(g)' /\ FiguresOK(g)'
    OBVIOUS
  <2>1. PICK c, F : c = req[g].bill /\ F = {}
    OBVIOUS
  <2>2. CASE c \in Bills
    BY <1>1, <1>2, <1>4, <2>1, <2>2, OthersAfterCommit
  <2>3. CASE c \notin Bills
    BY <1>2, <2>1, <2>3 DEF RequestOK, FiguresOK
  <2> QED
    BY <2>2, <2>3
<1>6. LedgerExact' /\ BalanceExact' /\ TotalExact'
  BY <1>1, <1>2, <1>4 DEF LedgerExact, BalanceExact, TotalExact, Collected
<1>7. StatusExact'
  <2> SUFFICES ASSUME NEW b \in Bills, "status" \notin tainted[b]
               PROVE  StatusMatches(bill'[b], late'[b])
    BY <1>2 DEF StatusExact
  <2>1. StatusMatches(bill[b], late[b])
    BY DEF StatusExact
  <2>2. CASE PastDue(b)
    <3>1. /\ bill[b].status \in {"PENDING", "PARTIAL"} /\ late[b]
      BY <2>2 DEF PastDue
    <3>2. ~(bill[b].paid >= bill[b].total)
      BY <2>1, <3>1 DEF StatusMatches, CalculateStatus
    <3>3. bill'[b].status = CalculateStatus(bill'[b].total, bill'[b].paid, late[b])
      BY <1>1, <2>2, <3>1, <3>2 DEF CalculateStatus
    <3> QED
      BY <1>2, <3>3 DEF StatusMatches
  <2>3. CASE ~PastDue(b)
    BY <1>1, <1>2, <2>1, <2>3 DEF StatusMatches
  <2> QED
    BY <2>2, <2>3
<1>8. PaymentRowsOK' /\ \A g \in Handlers : IdOK(g)'
  BY <1>2 DEF PaymentRowsOK, IdOK
<1> QED
  BY <1>3, <1>5, <1>6, <1>7, <1>8

(* Time alone makes no status wrong: it was right before the due date.     *)
LEMMA DueDatePassesInv ==
    ASSUME LedgerInv, NEW b \in Bills, DueDatePasses(b)
    PROVE  LedgerInv'
<1> USE DEF LedgerInv
<1>1. /\ UNCHANGED <<bill, payment, pc, req, missed, tainted>>
      /\ late' \in [Bills -> BOOLEAN] /\ ~late[b]
      /\ late'[b] = TRUE /\ \A c \in Bills \ {b} : late'[c] = late[c]
  BY DEF DueDatePasses, TypeOK
<1>2. TypeOK' /\ PaymentRowsOK' /\ \A g \in Handlers : IdOK(g)'
  BY <1>1 DEF TypeOK, PaymentRowsOK, IdOK
<1>3. \A c, e : Paisa(c, e)' = Paisa(c, e)
  BY <1>1 DEF Paisa
<1>4. \A g \in Handlers : RequestOK(g)' /\ FiguresOK(g)'
  <2> SUFFICES ASSUME NEW g \in Handlers
               PROVE  RequestOK(g)' /\ FiguresOK(g)'
    OBVIOUS
  <2>1. RequestOK(g)'
    BY <1>1 DEF RequestOK
  <2>2. KnownTotal(g)' <=> KnownTotal(g)
    BY <1>1 DEF KnownTotal, MergedTotal
  <2>3. KnownPaid(g)' <=> KnownPaid(g)
    BY <1>1, <1>3 DEF KnownPaid, CollectedExcept
  <2>4. KnownDue(g)' <=> KnownDue(g)
    BY <1>1 DEF KnownDue
  <2> QED
    BY <1>1, <2>1, <2>2, <2>3, <2>4 DEF FiguresOK
<1>5. LedgerExact' /\ BalanceExact' /\ TotalExact'
  BY <1>1, <1>3 DEF LedgerExact, BalanceExact, TotalExact, Collected
<1>6. StatusExact'
  <2> SUFFICES ASSUME NEW c \in Bills, StatusMatches(bill[c], late[c])
               PROVE  StatusMatches(bill[c], late'[c])
    BY <1>1 DEF StatusExact
  <2>1. PICK seenLate \in {FALSE, late[c]} :
           bill[c].status = CalculateStatus(bill[c].total, bill[c].paid, seenLate)
    BY DEF StatusMatches
  <2>2. seenLate \in {FALSE, late'[c]}
    <3>1. CASE c = b
      <4>1. late[b] = FALSE
        BY <1>1 DEF TypeOK
      <4>2. seenLate = FALSE
        BY <2>1, <3>1, <4>1, Zenon
      <4> QED
        BY <4>2
    <3>2. CASE c # b
      <4>1. late'[c] = late[c]
        BY <1>1, <3>2
      <4> QED
        BY <2>1, <4>1, Zenon
    <3> QED
      BY <3>1, <3>2
  <2> QED
    BY <2>1, <2>2, Zenon DEF StatusMatches
<1> QED
  BY <1>2, <1>4, <1>5, <1>6

-----------------------------------------------------------------------------
(* The invariant is inductive.                                             *)

(* The figures a new bill is created with are consistent, and nothing has  *)
(* been collected on it.                                                   *)
LEMMA InitInv ==
    Init => LedgerInv
<1> SUFFICES ASSUME Init
             PROVE  LedgerInv
  OBVIOUS
<1>0. None \notin {"create", "reverse"}
  BY NoneAssumption DEF AllOps
<1>1. \A b \in Bills :
        /\ bill[b] \in MonthlyRent
        /\ bill[b].paid = 0
        /\ bill[b].total = CalculateRentTotal(bill[b].charge, bill[b].discount)
        /\ bill[b].remaining = bill[b].total
  <2> SUFFICES ASSUME NEW b \in Bills
               PROVE  /\ bill[b] \in MonthlyRent
                      /\ bill[b].paid = 0
                      /\ bill[b].total = CalculateRentTotal(bill[b].charge, bill[b].discount)
                      /\ bill[b].remaining = bill[b].total
    OBVIOUS
  <2>1. NewBill(bill[b], late[b])
    BY DEF Init
  <2>2. /\ bill[b].charge \in Nat /\ bill[b].discount \in Nat
        /\ bill[b].total \in Nat /\ bill[b].remaining \in Nat
        /\ bill[b].paid = 0
    <3>1. /\ bill[b].charge \in Charges /\ bill[b].discount \in Discounts
          /\ bill[b].total = CalculateRentTotal(bill[b].charge, bill[b].discount)
          /\ bill[b].paid = 0 /\ bill[b].remaining = bill[b].total
      BY <2>1, Zenon DEF NewBill
    <3>2. bill[b].charge \in Nat /\ bill[b].discount \in Nat
      BY <3>1, ChargesAssumption, Zenon
    <3>3. \A x \in Nat, y \in Nat : CalculateRentTotal(x, y) \in Nat
      BY DEF CalculateRentTotal, ClampedMinus
    <3> QED
      BY <3>1, <3>2, <3>3, Zenon
  <2>3. bill[b] \in [charge : Charges, discount : Discounts, total : Totals,
                     paid : {0}, remaining : Totals, status : RentStatus]
    BY DEF Init
  <2>4. bill[b].status \in RentStatus
    BY <2>3
  <2>5. bill[b] = [charge |-> bill[b].charge, discount |-> bill[b].discount,
                   total |-> bill[b].total, paid |-> bill[b].paid,
                   remaining |-> bill[b].remaining, status |-> bill[b].status]
    BY <2>3
  <2>6. bill[b] \in MonthlyRent
    BY <2>2, <2>4, <2>5 DEF MonthlyRent
  <2> QED
    BY <2>1, <2>6 DEF NewBill
<1>2. TypeOK
  <2>1. bill \in [Bills -> MonthlyRent]
    BY <1>1 DEF Init
  <2>2. payment \in [Payments -> Payment]
    BY DEF Init, Payment, NoPayment
  <2>3. pc \in [Handlers -> PCs] /\ req \in [Handlers -> Request]
    BY DEF Init, PCs, Request, NoRequest
  <2>4. tainted \in [Bills -> SUBSET TaintKinds] /\ missed \in [Handlers -> SUBSET Facets]
    BY DEF Init, If, TaintKinds
  <2> QED
    BY <2>1, <2>2, <2>3, <2>4 DEF Init, TypeOK
<1>3. PaymentRowsOK
  BY DEF Init, PaymentRowsOK, NoPayment
<1>4. \A h \in Handlers : RequestOK(h) /\ IdOK(h) /\ FiguresOK(h)
  BY <1>0 DEF Init, NoRequest, RequestOK, OpsAt, IdOK, FiguresOK
<1>5. LedgerExact
  <2>1. \A b \in Bills : Paisa(b, {}) = {}
    BY DEF Init, Paisa, NoPayment
  <2> QED
    BY <1>1, <2>1, FS_EmptySet DEF LedgerExact, Collected
<1>6. BalanceExact /\ TotalExact
  BY <1>1 DEF BalanceExact, TotalExact, MonthlyRent, CalculateRemaining, ClampedMinus
<1>7. StatusExact
  BY DEF Init, StatusExact, If
<1> QED
  BY <1>2, <1>3, <1>4, <1>5, <1>6, <1>7 DEF LedgerInv

(* Every operation of the services keeps the invariant.                    *)
LEMMA NextInv ==
    LedgerInv /\ [Next]_vars => LedgerInv'
<1> SUFFICES ASSUME LedgerInv, [Next]_vars
             PROVE  LedgerInv'
  OBVIOUS
<1>1. ASSUME NEW h \in Handlers, Start(h)
      PROVE  LedgerInv'
  <2>1. CASE \E b \in Bills, p \in Payments, amount \in 1..MaxAmount, paidLate \in BOOLEAN :
                CreateCheck(h, b, p, amount, paidLate)
    BY <2>1, CreateCheckInv
  <2>2. CASE \E p \in Payments : ReverseCheck(h, p)
    BY <2>2, ReverseCheckInv
  <2>3. ASSUME NEW op \in {"view", "recalculate"}, NEW b \in Bills,
               \/ FindStale(h, BillRequest(op, b, None, None))
               \/ FindCurrent(h, BillRequest(op, b, None, None))
        PROVE  LedgerInv'
    <3>1. IsBillRequest(BillRequest(op, b, None, None))
      BY DEF IsBillRequest
    <3> QED
      BY <2>3, <3>1, FindStaleInv, FindCurrentInv
  <2>4. ASSUME NEW b \in Bills, NEW c \in Charges \cup {None},
               NEW d \in Discounts \cup {None},
               \/ FindStale(h, BillRequest("update", b, c, d))
               \/ FindCurrent(h, BillRequest("update", b, c, d))
        PROVE  LedgerInv'
    <3>1. IsBillRequest(BillRequest("update", b, c, d))
      BY DEF IsBillRequest
    <3> QED
      BY <2>4, <3>1, FindStaleInv, FindCurrentInv
  <2> QED
    BY <1>1, <2>1, <2>2, <2>3, <2>4 DEF Start
<1>2. ASSUME NEW h \in Handlers, Continue(h)
      PROVE  LedgerInv'
  <2>1. CASE CreateReject(h)
    BY <2>1, NothingCommitted DEF CreateReject
  <2> QED
    BY <1>2, <2>1, CreateRereadInv, CreateCommitInv, ReverseMarkInv, ReverseSumInv,
       ReverseCommitInv, LazyStatusWriteInv, RecalculateStatusInv, UpdateInv
       DEF Continue
<1>3. ASSUME NEW h \in Handlers, Fail(h)
      PROVE  LedgerInv'
  BY <1>3, NothingCommitted DEF Fail
<1>4. CASE UNCHANGED vars
  <2>1. UNCHANGED <<bill, payment, late, pc, req, missed, tainted>>
    BY <1>4 DEF vars
  <2>2. TypeOK' /\ PaymentRowsOK' /\ RowsExact'
    BY <2>1, RowsUnchanged DEF LedgerInv, TypeOK, PaymentRowsOK, RowsExact
  <2>3. \A h \in Handlers : RequestOK(h)' /\ FiguresOK(h)' /\ IdOK(h)'
    BY <2>1, OthersUndisturbed DEF LedgerInv, IdOK
  <2> QED
    BY <2>2, <2>3 DEF LedgerInv, RowsExact
<1> QED
  BY <1>1, <1>2, <1>3, <1>4, RefreshInv, DueDatePassesInv DEF Next

(* What every request knows and every row shows, in every reachable state. *)
THEOREM InvariantHolds == Spec => []LedgerInv
BY InitInv, NextInv, PTL DEF Spec

(* No request brings a row or a variable out of its type: in particular    *)
(* the clamps of decimal.util.ts keep every amount natural.                *)
THEOREM TypeCorrect == Spec => []TypeOK
<1>1. LedgerInv => TypeOK
  BY DEF LedgerInv
<1> QED
  BY <1>1, InvariantHolds, PTL

(* paidAmount is the sum of the COMPLETED payments unless a payment or a   *)
(* reversal wrote it over one committed after its own read.                *)
THEOREM LedgerAlwaysExact == Spec => []LedgerExact
<1>1. LedgerInv => LedgerExact
  BY DEF LedgerInv
<1> QED
  BY <1>1, InvariantHolds, PTL

(* remainingAmount is what total and paid leave, unless it was written     *)
(* from an amount replaced meanwhile.                                      *)
THEOREM BalanceAlwaysExact == Spec => []BalanceExact
<1>1. LedgerInv => BalanceExact
  BY DEF LedgerInv
<1> QED
  BY <1>1, InvariantHolds, PTL

(* totalAmount is charges minus discount, unless two updates overlapped.   *)
THEOREM TotalAlwaysExact == Spec => []TotalExact
<1>1. LedgerInv => TotalExact
  BY DEF LedgerInv
<1> QED
  BY <1>1, InvariantHolds, PTL

(* The status is calculateStatus of the amounts beside it, unless it was   *)
(* calculated from amounts replaced meanwhile.                             *)
THEOREM StatusAlwaysExact == Spec => []StatusExact
<1>1. LedgerInv => StatusExact
  BY DEF LedgerInv
<1> QED
  BY <1>1, InvariantHolds, PTL

-----------------------------------------------------------------------------
(* No payment is accepted beyond what is due.                              *)

(* Only the commit of a payment makes a bill's collected amount grow.      *)
LEMMA OnlyCreateCollects ==
    ASSUME LedgerInv, [Next]_vars, NEW b \in Bills, Collected(b)' > Collected(b)
    PROVE  \E h \in Handlers : CreateCommit(h)
<1>0. /\ Collected(b) \in Nat
      /\ \A e : IsFiniteSet(Paisa(b, e)) /\ Cardinality(Paisa(b, e)) \in Nat
  BY PaisaFinite DEF Collected
<1>1. ASSUME payment' = payment
      PROVE  FALSE
  <2>1. Paisa(b, {})' = Paisa(b, {})
    BY <1>1 DEF Paisa
  <2> QED
    BY <1>0, <2>1 DEF Collected
<1>2. ASSUME NEW h \in Handlers, ReverseCommit(h)
      PROVE  FALSE
  <2>1. PICK p : p = req[h].pay
    OBVIOUS
  <2>2. p \in Payments /\ TypeOK
    BY <1>2, <2>1 DEF LedgerInv, RequestOK, OpsAt, IdOK, ReverseCommit
  <2>3. payment' = [payment EXCEPT ![p].status = "REVERSED"]
    BY <1>2, <2>1 DEF ReverseCommit
  <2>4. Paisa(b, {})' = Paisa(b, {p})
    BY <2>2, <2>3, ReversalCollected
  <2>5. Paisa(b, {p}) \subseteq Paisa(b, {})
    BY DEF Paisa
  <2>6. Cardinality(Paisa(b, {p})) <= Cardinality(Paisa(b, {}))
    BY <1>0, <2>5, FS_Subset
  <2> QED
    BY <1>0, <2>4, <2>6 DEF Collected
<1>3. payment' = payment \/ \E h \in Handlers : CreateCommit(h) \/ ReverseCommit(h)
  <2>1. ASSUME NEW h \in Handlers, Start(h)
        PROVE  payment' = payment
    <3>1. \A bb, p, a, l : CreateCheck(h, bb, p, a, l) => payment' = payment
      BY DEF CreateCheck
    <3>2. \A p : ReverseCheck(h, p) => payment' = payment
      BY DEF ReverseCheck
    <3>3. \A r : FindStale(h, r) \/ FindCurrent(h, r) => payment' = payment
      BY DEF FindStale, FindCurrent
    <3> QED
      BY <2>1, <3>1, <3>2, <3>3, Zenon DEF Start
  <2>2. ASSUME NEW h \in Handlers, Continue(h)
        PROVE  payment' = payment \/ CreateCommit(h) \/ ReverseCommit(h)
    <3>1. \/ CreateReread(h) \/ CreateReject(h) \/ ReverseMark(h) \/ ReverseSum(h)
          \/ LazyStatusWrite(h) \/ RecalculateStatus(h) \/ Update(h)
          => payment' = payment
      BY DEF CreateReread, CreateReject, ReverseMark, ReverseSum, LazyStatusWrite,
             RecalculateStatus, Update
    <3> QED
      BY <2>2, <3>1, Zenon DEF Continue
  <2>3. ASSUME NEW h \in Handlers, Fail(h)
        PROVE  payment' = payment
    BY <2>3 DEF Fail
  <2>4. /\ RefreshOverdueStatuses => payment' = payment
        /\ \A c : DueDatePasses(c) => payment' = payment
        /\ UNCHANGED vars => payment' = payment
    BY DEF RefreshOverdueStatuses, DueDatePasses, vars
  <2> QED
    BY <2>1, <2>2, <2>3, <2>4 DEF Next
<1> QED
  BY <1>1, <1>2, <1>3

(* A payment that finds and leaves its bill exact stays within the total.  *)
LEMMA CommitWithinDue ==
    ASSUME LedgerInv, LedgerInv', NEW h \in Handlers, CreateCommit(h),
           NEW b \in Bills, Collected(b)' > Collected(b),
           {"ledger", "balance"} \cap (tainted[b] \cup tainted'[b]) = {}
    PROVE  Collected(b)' <= bill'[b].total
<1>1. PICK r : r = req[h]
  OBVIOUS
<1>2. /\ r.bill \in Bills /\ r.pay \in Payments /\ r.amount \in 0..MaxAmount
      /\ r \in Request /\ payment[r.pay] = NoPayment /\ TypeOK
      /\ KnownTotal(h) /\ KnownPaid(h) /\ KnownDue(h)
      /\ pc[h] = "ready" /\ r.op = "create"
  BY <1>1 DEF LedgerInv, TypeOK, RequestOK, OpsAt, IdOK, FiguresOK, Request, CreateCommit
<1>3. payment' = [payment EXCEPT ![r.pay] =
                    [bill |-> r.bill, amount |-> r.amount, status |-> "COMPLETED"]]
  BY <1>1 DEF CreateCommit
<1>4. b = r.bill
  <2>1. Collected(b) \in Nat
    BY PaisaFinite DEF Collected
  <2>2. ASSUME b # r.bill
        PROVE  FALSE
    <3>1. Paisa(b, {})' = Paisa(b, {})
      BY <1>2, <1>3, <2>2, NewPaymentCollected
    <3> QED
      BY <2>1, <3>1 DEF Collected
  <2> QED
    BY <2>2
<1>5. /\ bill'[b].paid = r.paid + r.amount
      /\ bill'[b].total = bill[b].total
      /\ bill[b].total \in Nat
  BY <1>1, <1>2, <1>4 DEF CreateCommit, TypeOK, MonthlyRent
<1>6. missed[h] = {}
  <2>1. PICK broken : broken = If("paid" \in missed[h], {"ledger"})
                                \cup If("total" \in missed[h], {"balance", "status"})
    OBVIOUS
  <2>2. Taint(b, broken, {"balance", "status"})
    BY <1>1, <1>4, <2>1 DEF CreateCommit
  <2>3. broken \subseteq tainted'[b]
    BY <1>2, <2>2 DEF Taint, TypeOK
  <2>4. "ledger" \notin broken /\ "balance" \notin broken
    BY <2>3
  <2>5. "paid" \notin missed[h] /\ "total" \notin missed[h]
    BY <2>1, <2>4 DEF If
  <2> QED
    BY <1>2, <2>5 DEF TypeOK, Facets
<1>7. r.paid + r.amount <= r.total /\ r.total = bill[b].total
  BY <1>1, <1>2, <1>4, <1>6 DEF KnownDue, KnownTotal
<1>8. Collected(b)' = bill'[b].paid
  BY DEF LedgerInv, LedgerExact
<1> QED
  BY <1>5, <1>7, <1>8

(* However requests interleave, a payment is accepted for more than is due *)
(* only on a bill whose amounts a lost update has already made inexact.    *)
THEOREM NoOverpayment == Spec => AcceptedWithinDue
<1>1. LedgerInv /\ LedgerInv' /\ [Next]_vars =>
        [\A b \in Bills :
            /\ Collected(b)' > Collected(b)
            /\ {"ledger", "balance"} \cap (tainted[b] \cup tainted'[b]) = {}
            => Collected(b)' <= bill'[b].total]_vars
  BY OnlyCreateCollects, CommitWithinDue
<1> QED
  BY <1>1, InvariantHolds, PTL DEF Spec, AcceptedWithinDue
=============================================================================
