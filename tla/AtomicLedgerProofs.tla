------------------------- MODULE AtomicLedgerProofs -------------------------
(***************************************************************************)
(* As long as requests keep apart, the services implement the book of      *)
(* AtomicLedger, for every set of handlers, bills, payments, charges and   *)
(* every bound on amounts, whatever requests fail half-way.                *)
(*                                                                         *)
(* The inductive invariant of the ledger says what a request knows until   *)
(* another one commits.  Apart, nothing commits to a bill while a request  *)
(* holds its figures (Quiet), so what it writes is computed from the bill  *)
(* as it is, and every commit leaves the one entry that the receipts allow *)
(* (ShownIsEntry).                                                         *)
(***************************************************************************)
EXTENDS RentLedgerProofs

(* Requests come one after another.                                        *)
Alone == \A g, h \in Handlers : g = h

(* Apart, a request that holds figures has missed nothing, and the payment *)
(* it reverses stands; only statuses can be doubtful, as an agreement's    *)
(* first bill may be PENDING whatever its total, and as views and          *)
(* recalculations may overlap anything.                                    *)
Fresh(h) ==
    /\ Holding(h) => missed[h] = {}
    /\ req[h].op = "reverse" => payment[req[h].pay].status = "COMPLETED"

Sure(b) ==
    /\ tainted[b] \subseteq {"status"}
    /\ bill[b].charge \in Charges /\ bill[b].discount \in Discounts

Quiet == (\A h \in Handlers : Fresh(h)) /\ \A b \in Bills : Sure(b)

(* What the book shows of bill b.                                          *)
Shown(b) == [total |-> bill[b].total, paid |-> bill[b].paid,
             remaining |-> bill[b].remaining]

-----------------------------------------------------------------------------
(* What the book counts as received is what SUM(amount) returns.           *)
LEMMA ReceivedIsCollected ==
  ASSUME NEW b \in Bills
  PROVE  Atomic!Received(b, payment) = Collected(b)
<1>1. Paisa(b, {}) = {pk \in Payments \X (1..MaxAmount) :
                        /\ payment[pk[1]].bill = b
                        /\ payment[pk[1]].status = "COMPLETED"
                        /\ pk[2] <= payment[pk[1]].amount}
  BY DEF Paisa
<1>2. Atomic!Received(b, payment) =
        Cardinality({pk \in Payments \X (1..MaxAmount) :
                        /\ payment[pk[1]].bill = b
                        /\ payment[pk[1]].status = "COMPLETED"
                        /\ pk[2] <= payment[pk[1]].amount})
  BY Zenon DEF Atomic!Received, Atomic!Cardinality, Cardinality
<1>3. Collected(b) = Cardinality(Paisa(b, {}))
  BY Zenon DEF Collected
<1> QED
  BY <1>1, <1>2, <1>3, Zenon

(* The same after a step.                                                  *)
LEMMA ReceivedIsCollectedNext ==
  ASSUME NEW b \in Bills
  PROVE  Atomic!Received(b, payment') = Collected(b)'
<1>1. Paisa(b, {})' = {pk \in Payments \X (1..MaxAmount) :
                        /\ payment'[pk[1]].bill = b
                        /\ payment'[pk[1]].status = "COMPLETED"
                        /\ pk[2] <= payment'[pk[1]].amount}
  BY DEF Paisa
<1>2. Atomic!Received(b, payment') =
        Cardinality({pk \in Payments \X (1..MaxAmount) :
                        /\ payment'[pk[1]].bill = b
                        /\ payment'[pk[1]].status = "COMPLETED"
                        /\ pk[2] <= payment'[pk[1]].amount})
  BY Zenon DEF Atomic!Received, Atomic!Cardinality, Cardinality
<1>3. Collected(b)' = Cardinality(Paisa(b, {})')
  BY Zenon DEF Collected
<1> QED
  BY <1>1, <1>2, <1>3, Zenon

(* The three figures a bill shows are the entry for its receipts.          *)
LEMMA ShownIsEntry ==
  ASSUME LedgerInv, Quiet, NEW b \in Bills
  PROVE  Shown(b) = Atomic!Entry(b, bill[b].total, payment)
<1>1. bill[b].paid = Collected(b)
  BY DEF LedgerInv, LedgerExact, Quiet, Sure
<1>2. bill[b].remaining = CalculateRemaining(bill[b].total, bill[b].paid)
  BY DEF LedgerInv, BalanceExact, Quiet, Sure
<1> QED
  BY <1>1, <1>2, ReceivedIsCollected
     DEF Shown, Atomic!Entry, CalculateRemaining, ClampedMinus

(* The same after a step.                                                  *)
LEMMA ShownIsEntryNext ==
  ASSUME LedgerInv', Quiet', NEW b \in Bills
  PROVE  Shown(b)' = Atomic!Entry(b, bill'[b].total, payment')
<1>1. bill'[b].paid = Collected(b)'
  BY DEF LedgerInv, LedgerExact, Quiet, Sure
<1>2. bill'[b].remaining = CalculateRemaining(bill'[b].total, bill'[b].paid)
  BY DEF LedgerInv, BalanceExact, Quiet, Sure
<1> QED
  BY <1>1, <1>2, ReceivedIsCollectedNext
     DEF Shown, Atomic!Entry, CalculateRemaining, ClampedMinus

-----------------------------------------------------------------------------
(* Apart, a request that holds figures misses nothing.                     *)

(* An idle handler reverses nothing.                                       *)
LEMMA NothingReversed == NoRequest.op # "reverse"
<1>1. "reverse" # None
  BY NoneAssumption DEF AllOps
<1> QED
  BY <1>1 DEF NoRequest

(* At the start there is nothing to miss.                                  *)
LEMMA InitQuiet == Init => Quiet
<1> SUFFICES ASSUME Init PROVE Quiet
  OBVIOUS
<1>1. \A h \in Handlers : missed[h] = {} /\ req[h].op # "reverse"
  BY NothingReversed DEF Init
<1>2. \A b \in Bills : tainted[b] \subseteq {"status"}
  BY DEF Init, If
<1>3. \A b \in Bills : bill[b].charge \in Charges /\ bill[b].discount \in Discounts
  BY DEF Init, NewBill
<1> QED
  BY <1>1, <1>2, <1>3 DEF Quiet, Fresh, Sure

(* A step of h leaves the others where they stand.                         *)
OthersStand(h) ==
    \A g \in Handlers \ {h} : /\ pc'[g] = pc[g]
                              /\ req'[g] = req[g]
                              /\ missed'[g] = missed[g]

LEMMA StandFresh ==
  ASSUME Quiet, NEW g \in Handlers, pc'[g] = pc[g], req'[g] = req[g],
         Holding(g) => missed'[g] = missed[g],
         req[g].op = "reverse" => payment'[req[g].pay].status = "COMPLETED"
  PROVE  Fresh(g)'
BY DEF Quiet, Fresh, Holding

(* A step that commits no bill or payment keeps the others' figures fresh. *)
LEMMA QuietRead ==
  ASSUME Quiet, NEW h \in Handlers, OthersStand(h),
         UNCHANGED <<bill, payment, tainted>>,
         missed'[h] = {},
         req'[h].op = "reverse" => payment[req'[h].pay].status = "COMPLETED"
  PROVE  Quiet'
<1>1. \A g \in Handlers \ {h} : Fresh(g)'
  BY StandFresh DEF OthersStand, Quiet, Fresh
<1>2. Fresh(h)'
  BY DEF Fresh
<1> QED
  BY <1>1, <1>2 DEF Quiet, Sure

(* So does a request that ends without changing a payment.                 *)
LEMMA QuietEnd ==
  ASSUME LedgerInv, Quiet, NEW h \in Handlers, Respond(h), Forget(h),
         payment' = payment, \A b \in Bills : Sure(b)'
  PROVE  Quiet'
<1>1. req'[h] = NoRequest /\ missed'[h] = {} /\ OthersStand(h)
  BY DEF LedgerInv, TypeOK, Respond, Forget, OthersStand
<1>2. \A g \in Handlers \ {h} : Fresh(g)'
  BY <1>1, StandFresh DEF OthersStand, Quiet, Fresh
<1>3. Fresh(h)'
  BY <1>1, NothingReversed DEF Fresh
<1> QED
  BY <1>2, <1>3 DEF Quiet

(* A commit of h overtakes nobody: no other request holds figures of its   *)
(* bill, and the payments that others reverse belong to other bills.       *)
LEMMA QuietCommit ==
  ASSUME LedgerInv, Quiet, Apart, NEW h \in Handlers, Holding(h),
         Respond(h), NEW facets, Publish(h, req[h].bill, facets),
         \A p \in Payments : payment[p].status = "COMPLETED" =>
           payment'[p].status = "COMPLETED" \/ payment[p].bill = req[h].bill,
         \A b \in Bills : Sure(b)'
  PROVE  Quiet'
<1>1. req'[h] = NoRequest
  BY DEF LedgerInv, TypeOK, Respond
<1>2. ASSUME NEW g \in Handlers, g # h
      PROVE  Fresh(g)'
  <2>1. pc'[g] = pc[g] /\ req'[g] = req[g]
    BY <1>2 DEF LedgerInv, TypeOK, Respond
  <2>2. Holding(g) => req[g].bill # req[h].bill
    BY <1>2 DEF Apart
  <2>3. Holding(g) => missed'[g] = missed[g]
    BY <1>2, <2>2 DEF Publish
  <2>4. ASSUME req[g].op = "reverse"
        PROVE  payment'[req[g].pay].status = "COMPLETED"
    <3>1. req[g].pay \in Payments /\ payment[req[g].pay].bill = req[g].bill
      BY <2>4 DEF LedgerInv, IdOK
    <3>2. payment[req[g].pay].status = "COMPLETED" /\ Holding(g)
      BY <2>4 DEF Quiet, Fresh, Holding
    <3> QED
      BY <2>2, <3>1, <3>2
  <2> QED
    BY <2>1, <2>3, <2>4, StandFresh
<1>3. Fresh(h)'
  <2>1. missed'[h] = {}
    BY DEF Publish
  <2> QED
    BY <1>1, <2>1, NothingReversed DEF Fresh
<1> QED
  BY <1>2, <1>3 DEF Quiet

(* findOne leaves the kind of its caller alone.                            *)
LEMMA FoundOp ==
  ASSUME NEW r \in Request, NEW row, NEW overdue
  PROVE  Found(r, row, overdue).op = r.op
<1>1. \A t, n, l : [r EXCEPT !.total = t, !.paid = n, !.late = l].op = r.op
  BY DEF Request
<1> DEFINE t == IF r.op = "update" THEN MergedTotal(row, r) ELSE row.total
<1>2. Found(r, row, overdue) = [r EXCEPT !.total = t, !.paid = row.paid, !.late = overdue]
  BY DEF Found
<1> HIDE DEF t
<1> QED
  BY <1>1, <1>2

(* findOne's read, on behalf of a view, an update or a recalculation.      *)
LEMMA QuietFind ==
  ASSUME LedgerInv, Quiet, NEW h \in Handlers, NEW r, r.op # "reverse",
         r \in Request, FindStale(h, r) \/ FindCurrent(h, r)
  PROVE  Quiet'
<1>1. UNCHANGED <<bill, payment, tainted>> /\ missed'[h] = {} /\ OthersStand(h)
  BY DEF FindStale, FindCurrent, Forget, LedgerInv, TypeOK, OthersStand
<1>2. req'[h].op = r.op
  <2>1. \A t, n, l : [r EXCEPT !.total = t, !.paid = n, !.late = l].op = r.op
    BY DEF Request
  <2>2. CASE FindStale(h, r)
    BY <2>1, <2>2 DEF FindStale, LedgerInv, TypeOK
  <2>3. CASE FindCurrent(h, r)
    BY <2>1, <2>3, FoundOp DEF FindCurrent, LedgerInv, TypeOK
  <2> QED
    BY <2>2, <2>3
<1> QED
  BY <1>1, <1>2, QuietRead

(* Every request begins with what it has just read.                        *)
LEMMA QuietStart ==
  ASSUME LedgerInv, Quiet, NEW h \in Handlers, Start(h)
  PROVE  Quiet'
<1>1. ASSUME NEW b \in Bills, NEW p \in Payments, NEW amount \in 1..MaxAmount,
             NEW paidLate \in BOOLEAN, CreateCheck(h, b, p, amount, paidLate)
      PROVE  Quiet'
  <2>1. UNCHANGED <<bill, payment, tainted>> /\ missed'[h] = {} /\ req'[h].op = "create"
        /\ OthersStand(h)
    BY <1>1 DEF CreateCheck, Forget, LedgerInv, TypeOK, OthersStand
  <2> QED
    BY <2>1, QuietRead
<1>2. ASSUME NEW p \in Payments, ReverseCheck(h, p)
      PROVE  Quiet'
  <2>1. UNCHANGED <<bill, payment, tainted>> /\ missed'[h] = {} /\ req'[h].pay = p
        /\ OthersStand(h)
    BY <1>2 DEF ReverseCheck, Forget, LedgerInv, TypeOK, OthersStand
  <2> QED
    BY <1>2, <2>1, QuietRead DEF ReverseCheck
<1>3. ASSUME NEW op \in {"view", "recalculate", "update"}, NEW b \in Bills,
             NEW c \in Charges \cup {None}, NEW d \in Discounts \cup {None},
             \/ FindStale(h, BillRequest(op, b, c, d))
             \/ FindCurrent(h, BillRequest(op, b, c, d))
      PROVE  Quiet'
  <2>1. /\ BillRequest(op, b, c, d) \in Request
        /\ BillRequest(op, b, c, d).op # "reverse"
    <3>1. 0 \in 0..MaxAmount
      BY AmountAssumption
    <3> QED
      BY <3>1 DEF BillRequest, Request, AllOps
  <2> QED
    BY <1>3, <2>1, QuietFind
<1> QED
  BY <1>1, <1>2, <1>3 DEF Start

(* A commit changes the rows of one bill, and of one payment of that bill. *)
LEMMA OnePaymentWritten ==
  ASSUME LedgerInv, NEW h \in Handlers, CreateCommit(h) \/ ReverseCommit(h) \/ Update(h)
  PROVE  \A p \in Payments : payment[p].status = "COMPLETED" =>
           payment'[p].status = "COMPLETED" \/ payment[p].bill = req[h].bill
<1>1. CASE CreateCommit(h)
  BY <1>1 DEF CreateCommit, LedgerInv, TypeOK, IdOK, NoPayment
<1>2. CASE ReverseCommit(h)
  <2>1. req[h].op = "reverse"
    BY <1>2 DEF ReverseCommit, LedgerInv, RequestOK, OpsAt
  <2> QED
    BY <1>2, <2>1 DEF ReverseCommit, LedgerInv, TypeOK, IdOK
<1>3. CASE Update(h)
  BY <1>3 DEF Update
<1> QED
  BY <1>1, <1>2, <1>3

(* Its later steps find the rows as it read them.                          *)
LEMMA QuietContinue ==
  ASSUME LedgerInv, Quiet, Apart, NEW h \in Handlers, Continue(h)
  PROVE  Quiet'
<1>0. req[h] \in Request /\ (Holding(h) => missed[h] = {})
  BY DEF Quiet, Fresh, LedgerInv, TypeOK
<1>1. CASE CreateReread(h)
  <2>1. UNCHANGED <<bill, payment, tainted>> /\ missed'[h] = {} /\ req'[h].op = "create"
        /\ OthersStand(h)
    BY <1>0, <1>1 DEF CreateReread, Forget, LedgerInv, TypeOK, Request, OthersStand
  <2> QED
    BY <2>1, QuietRead
<1>2. CASE CreateReject(h)
  <2>1. \A b \in Bills : Sure(b)'
    BY <1>2 DEF CreateReject, Quiet, Sure
  <2> QED
    BY <1>2, <2>1, QuietEnd DEF CreateReject
<1>3. CASE CreateCommit(h)
  <2>1. Holding(h) /\ missed[h] = {}
    BY <1>0, <1>3 DEF CreateCommit, Holding
  <2>2. \A b \in Bills : tainted'[b] \subseteq {"status"}
    BY <1>3, <2>1 DEF CreateCommit, Taint, If, Quiet, Sure, LedgerInv, TypeOK
  <2>3. \A b \in Bills : bill'[b].charge = bill[b].charge /\ bill'[b].discount = bill[b].discount
    BY <1>3 DEF CreateCommit, LedgerInv, TypeOK, MonthlyRent
  <2>4. \A b \in Bills : Sure(b)'
    BY <2>2, <2>3 DEF Quiet, Sure
  <2> QED
    BY <1>3, <2>1, <2>4, QuietCommit, OnePaymentWritten DEF CreateCommit
<1>4. CASE ReverseMark(h)
  <2>1. Holding(h)
    BY <1>4 DEF ReverseMark, Holding
  <2>2. OthersStand(h) /\ missed'[h] = {} /\ req'[h] = req[h]
    BY <1>0, <1>4, <2>1 DEF ReverseMark, OthersStand, LedgerInv, TypeOK
  <2> QED
    BY <1>4, <2>2, QuietRead DEF ReverseMark, Quiet, Fresh
<1>5. CASE ReverseSum(h)
  <2>0. Holding(h)
    BY <1>5 DEF ReverseSum, Holding, LedgerInv, RequestOK, OpsAt
  <2>1. UNCHANGED <<bill, payment, tainted>> /\ missed'[h] = {} /\ OthersStand(h)
    BY <1>0, <1>5, <2>0 DEF ReverseSum, LedgerInv, TypeOK, OthersStand
  <2>2. req'[h].op = req[h].op /\ req'[h].pay = req[h].pay
    BY <1>0, <1>5 DEF ReverseSum, LedgerInv, TypeOK, Request
  <2> QED
    BY <2>1, <2>2, QuietRead DEF Quiet, Fresh
<1>6. CASE ReverseCommit(h)
  <2>1. Holding(h) /\ missed[h] = {}
    <3>1. req[h].op = "reverse"
      BY <1>6 DEF ReverseCommit, LedgerInv, RequestOK, OpsAt
    <3> QED
      BY <1>0, <3>1 DEF Holding
  <2>2. \A b \in Bills : tainted'[b] \subseteq {"status"}
    BY <1>6, <2>1 DEF ReverseCommit, Taint, If, Quiet, Sure, LedgerInv, TypeOK
  <2>3. \A b \in Bills : bill'[b].charge = bill[b].charge /\ bill'[b].discount = bill[b].discount
    BY <1>6 DEF ReverseCommit, LedgerInv, TypeOK, MonthlyRent
  <2>4. \A b \in Bills : Sure(b)'
    BY <2>2, <2>3 DEF Quiet, Sure
  <2> QED
    BY <1>6, <2>1, <2>4, QuietCommit, OnePaymentWritten DEF ReverseCommit
<1>7. CASE LazyStatusWrite(h)
  <2>1. missed'[h] = {} /\ payment' = payment
    BY <1>7 DEF LazyStatusWrite, Forget, LedgerInv, TypeOK
  <2>2. \A b \in Bills : tainted'[b] \subseteq {"status"}
    BY <1>7 DEF LazyStatusWrite, Taint, If, Quiet, Sure, LedgerInv, TypeOK
  <2>3. \A b \in Bills : bill'[b].charge = bill[b].charge /\ bill'[b].discount = bill[b].discount
    BY <1>7 DEF LazyStatusWrite, LedgerInv, TypeOK, MonthlyRent
  <2>4. \A b \in Bills : Sure(b)'
    BY <2>2, <2>3 DEF Quiet, Sure
  <2>5. CASE req[h].op = "view"
    BY <1>7, <2>1, <2>4, <2>5, QuietEnd DEF LazyStatusWrite
  <2>6. CASE req[h].op # "view"
    <3>1. req'[h].op # "reverse"
      <4>1. req'[h] = Found(req[h], bill'[req[h].bill], late[req[h].bill])
               \/ req'[h] = Found(req[h], bill[req[h].bill], late[req[h].bill])
        BY <1>7, <2>6 DEF LazyStatusWrite, LedgerInv, TypeOK
      <4>2. req[h].op # "reverse"
        BY <1>7 DEF LazyStatusWrite, LedgerInv, RequestOK, OpsAt
      <4> QED
        BY <1>0, <4>1, <4>2, FoundOp
    <3>2. OthersStand(h)
      BY <1>7, <2>6 DEF LazyStatusWrite, Forget, LedgerInv, TypeOK, OthersStand
    <3>3. \A g \in Handlers \ {h} : Fresh(g)'
      BY <2>1, <3>2, StandFresh DEF OthersStand, Quiet, Fresh
    <3>4. Fresh(h)'
      BY <2>1, <3>1 DEF Fresh
    <3> QED
      BY <2>4, <3>3, <3>4 DEF Quiet
  <2> QED
    BY <2>5, <2>6
<1>8. CASE RecalculateStatus(h)
  <2>1. \A b \in Bills : tainted'[b] \subseteq {"status"}
    BY <1>8 DEF RecalculateStatus, Taint, If, Quiet, Sure, LedgerInv, TypeOK
  <2>2. \A b \in Bills : bill'[b].charge = bill[b].charge /\ bill'[b].discount = bill[b].discount
    BY <1>8 DEF RecalculateStatus, LedgerInv, TypeOK, MonthlyRent
  <2>3. \A b \in Bills : Sure(b)'
    BY <2>1, <2>2 DEF Quiet, Sure
  <2> QED
    BY <1>8, <2>3, QuietEnd DEF RecalculateStatus
<1>9. CASE Update(h)
  <2>1. Holding(h) /\ missed[h] = {}
    BY <1>0, <1>9 DEF Update, Holding
  <2>2. \A b \in Bills : tainted'[b] \subseteq {"status"}
    BY <1>9, <2>1 DEF Update, Taint, If, Quiet, Sure, LedgerInv, TypeOK
  <2>3. req[h].newCharge \in Charges \cup {None} /\ req[h].newDiscount \in Discounts \cup {None}
    BY <1>0 DEF Request
  <2>4. \A b \in Bills : bill'[b].charge \in Charges /\ bill'[b].discount \in Discounts
    <3>1. ASSUME NEW b \in Bills, b # req[h].bill
          PROVE  bill'[b] = bill[b]
      BY <1>9, <3>1 DEF Update, LedgerInv, TypeOK
    <3>2. ASSUME NEW b \in Bills, b = req[h].bill
          PROVE  /\ bill'[b].charge = IF req[h].newCharge = None
                                      THEN bill[b].charge ELSE req[h].newCharge
                 /\ bill'[b].discount = IF req[h].newDiscount = None
                                        THEN bill[b].discount ELSE req[h].newDiscount
      <4>1. /\ bill[b] \in MonthlyRent /\ req[h].bill \in Bills
            /\ bill \in [Bills -> MonthlyRent]
        BY <3>2 DEF LedgerInv, TypeOK
      <4>2. bill'[b] =
              [bill[b] EXCEPT
                 !.charge = IF req[h].newCharge = None THEN @ ELSE req[h].newCharge,
                 !.discount = IF req[h].newDiscount = None THEN @ ELSE req[h].newDiscount,
                 !.total = req[h].total,
                 !.remaining = CalculateRemaining(req[h].total, req[h].paid),
                 !.status = CalculateStatus(req[h].total, req[h].paid, req[h].late)]
        BY <1>9, <3>2, <4>1 DEF Update
      <4> QED
        BY <4>1, <4>2 DEF MonthlyRent
    <3> QED
      BY <2>3, <3>1, <3>2 DEF Quiet, Sure
  <2>5. \A b \in Bills : Sure(b)'
    BY <2>2, <2>4 DEF Sure
  <2> QED
    BY <1>9, <2>1, <2>5, QuietCommit, OnePaymentWritten DEF Update
<1> QED
  BY <1>1, <1>2, <1>3, <1>4, <1>5, <1>6, <1>7, <1>8, <1>9 DEF Continue

(* So do the list requests and the clock, which write no amounts.          *)
LEMMA QuietStep ==
  ASSUME LedgerInv, Quiet, Apart, [Next]_vars
  PROVE  Quiet'
<1>1. ASSUME NEW h \in Handlers, Fail(h)
      PROVE  Quiet'
  <2>1. \A b \in Bills : Sure(b)'
    BY <1>1 DEF Fail, Quiet, Sure
  <2> QED
    BY <1>1, <2>1, QuietEnd DEF Fail
<1>2. CASE RefreshOverdueStatuses
  <2>1. \A b \in Bills : bill'[b].charge = bill[b].charge /\ bill'[b].discount = bill[b].discount
    BY <1>2 DEF RefreshOverdueStatuses, LedgerInv, TypeOK, MonthlyRent
  <2> QED
    BY <1>2, <2>1 DEF RefreshOverdueStatuses, Quiet, Fresh, Sure, Holding
<1>3. ASSUME NEW b \in Bills, DueDatePasses(b)
      PROVE  Quiet'
  BY <1>3 DEF DueDatePasses, Quiet, Fresh, Sure, Holding
<1>4. CASE UNCHANGED vars
  BY <1>4 DEF vars, Quiet, Fresh, Sure, Holding
<1> QED
  BY <1>1, <1>2, <1>3, <1>4, QuietStart, QuietContinue DEF Next

-----------------------------------------------------------------------------
(* Steps of the services as steps of the book.                             *)

Book == [b \in Bills |-> Shown(b)]

(* A commit that writes one bill leaves the entry for it and no other.     *)
LEMMA WrittenEntry ==
  ASSUME LedgerInv', Quiet', NEW b \in Bills,
         \A c \in Bills \ {b} : bill'[c] = bill[c]
  PROVE  Book' = [Book EXCEPT ![b] = Atomic!Entry(b, bill'[b].total, payment')]
<1>1. \A c \in Bills \ {b} : Shown(c)' = Shown(c)
  BY DEF Shown
<1>2. Shown(b)' = Atomic!Entry(b, bill'[b].total, payment')
  BY ShownIsEntryNext
<1> QED
  BY <1>1, <1>2 DEF Book

(* A committed payment is one payment accepted within what is due.         *)
LEMMA CommitAccepts ==
  ASSUME LedgerInv, LedgerInv', Quiet, Quiet', NEW h \in Handlers, CreateCommit(h),
         NEW b, NEW p, NEW amount,
         req[h].bill = b, req[h].pay = p, req[h].amount = amount
  PROVE  Atomic!Accept(b, p, amount)
<1>1. /\ b \in Bills /\ p \in Payments /\ req[h].amount \in Nat
      /\ payment[p] = NoPayment
  BY DEF CreateCommit, LedgerInv, RequestOK, IdOK, TypeOK, Request
<1>2. req[h].amount <= bill[b].remaining
  <2>1. KnownDue(h) /\ KnownTotal(h) /\ KnownPaid(h)
    BY DEF CreateCommit, LedgerInv, FiguresOK
  <2>2. missed[h] = {} /\ "balance" \notin tainted[b]
    BY <1>1 DEF CreateCommit, Holding, Quiet, Fresh, Sure
  <2>3. req[h].total = bill[b].total /\ req[h].paid = bill[b].paid
    BY <2>1, <2>2 DEF CreateCommit, KnownTotal, KnownPaid
  <2>4. bill[b].paid + req[h].amount <= bill[b].total
    BY <2>1, <2>2, <2>3 DEF KnownDue
  <2>5. bill[b].remaining = CalculateRemaining(bill[b].total, bill[b].paid)
    BY <1>1, <2>2 DEF LedgerInv, BalanceExact
  <2>6. bill[b].paid \in Nat /\ bill[b].total \in Nat
    BY <1>1 DEF LedgerInv, TypeOK, MonthlyRent
  <2> QED
    BY <1>1, <2>4, <2>5, <2>6 DEF CalculateRemaining, ClampedMinus
<1>3. /\ \A c \in Bills \ {b} : bill'[c] = bill[c]
      /\ bill'[b].total = bill[b].total
  BY <1>1 DEF CreateCommit, LedgerInv, TypeOK, MonthlyRent
<1>4. Book' = [Book EXCEPT ![b] = Atomic!Entry(b, bill[b].total, payment')]
  BY <1>1, <1>3, WrittenEntry
<1>5. payment' = [payment EXCEPT ![p] =
                    [bill |-> b, amount |-> req[h].amount, status |-> "COMPLETED"]]
  BY DEF CreateCommit
<1> QED
  BY <1>1, <1>2, <1>4, <1>5
     DEF Atomic!Accept, Atomic!Unused, NoPayment, Book, Shown

(* A committed reversal undoes a payment that stood.                       *)
LEMMA CommitUndoes ==
  ASSUME LedgerInv, LedgerInv', Quiet, Quiet', NEW h \in Handlers, ReverseCommit(h),
         NEW b, NEW p, req[h].bill = b, req[h].pay = p
  PROVE  Atomic!Undo(p)
<1>1. /\ b \in Bills /\ p \in Payments
      /\ payment[p].bill = b
      /\ payment[p].status = "COMPLETED"
  BY DEF ReverseCommit, LedgerInv, RequestOK, OpsAt, IdOK, Quiet, Fresh
<1>2. /\ \A c \in Bills \ {b} : bill'[c] = bill[c]
      /\ bill'[b].total = bill[b].total
  BY <1>1 DEF ReverseCommit, LedgerInv, TypeOK, MonthlyRent
<1>3. Book' = [Book EXCEPT ![b] = Atomic!Entry(b, bill[b].total, payment')]
  BY <1>1, <1>2, WrittenEntry
<1>4. payment' = [payment EXCEPT ![p].status = "REVERSED"]
  BY DEF ReverseCommit
<1> QED
  BY <1>1, <1>3, <1>4 DEF Atomic!Undo, Book, Shown

(* An update recharges the bill with the total of its merged components.   *)
LEMMA UpdateRecharges ==
  ASSUME LedgerInv, LedgerInv', Quiet, Quiet', NEW h \in Handlers, Update(h),
         NEW b, NEW t, req[h].bill = b, req[h].total = t
  PROVE  t \in Totals /\ Atomic!Recharge(b, t)
<1>1. b \in Bills /\ req[h] \in Request
  BY DEF Update, LedgerInv, RequestOK, TypeOK
<1>2. t \in Totals
  <2>1. req[h].total = MergedTotal(bill[b], req[h])
    BY DEF Update, Holding, LedgerInv, FiguresOK, KnownTotal, Quiet, Fresh
  <2>2. /\ bill[b].charge \in Charges /\ bill[b].discount \in Discounts
        /\ req[h].newCharge \in Charges \cup {None}
        /\ req[h].newDiscount \in Discounts \cup {None}
    BY <1>1 DEF Quiet, Sure, Request
  <2> QED
    BY <2>1, <2>2 DEF MergedTotal, Totals
<1>3. /\ \A c \in Bills \ {b} : bill'[c] = bill[c]
      /\ bill'[b].total = req[h].total
  BY <1>1 DEF Update, LedgerInv, TypeOK, MonthlyRent
<1>4. payment' = payment
  BY DEF Update
<1>5. Book' = [Book EXCEPT ![b] = Atomic!Entry(b, t, payment)]
  BY <1>1, <1>3, <1>4, WrittenEntry
<1>6. Atomic!Recharge(b, t)
  BY <1>4, <1>5 DEF Atomic!Recharge, Book, Shown
<1> QED
  BY <1>2, <1>6

(* Statuses and due dates are not in the book.                             *)
LEMMA StatusUnseen ==
  ASSUME TypeOK, payment' = payment,
         \A b \in Bills : /\ bill'[b].total = bill[b].total
                          /\ bill'[b].paid = bill[b].paid
                          /\ bill'[b].remaining = bill[b].remaining
  PROVE  UNCHANGED Atomic!bookVars
BY DEF Atomic!bookVars

(* Every step of the services is an operation of the book or none.         *)
LEMMA StepOperates ==
  ASSUME LedgerInv, LedgerInv', Quiet, Quiet', [Next]_vars
  PROVE  [Atomic!Operate]_(Atomic!bookVars)
<1>0. TypeOK
  BY DEF LedgerInv
<1>1. ASSUME NEW h \in Handlers, CreateCommit(h)
      PROVE  Atomic!Operate
  <2>1. /\ req[h].bill \in Bills /\ req[h].pay \in Payments
        /\ req[h].amount \in 1..MaxAmount
    BY <1>1 DEF CreateCommit, LedgerInv, RequestOK, IdOK, TypeOK, Request
  <2>2. PICK b \in Bills, p \in Payments, amount \in 1..MaxAmount :
           req[h].bill = b /\ req[h].pay = p /\ req[h].amount = amount
    BY <2>1
  <2>3. Atomic!Accept(b, p, amount)
    BY <1>1, <2>2, CommitAccepts
  <2> QED
    BY <2>3 DEF Atomic!Operate
<1>2. ASSUME NEW h \in Handlers, ReverseCommit(h)
      PROVE  Atomic!Operate
  <2>1. req[h].bill \in Bills /\ req[h].pay \in Payments
    BY <1>2 DEF ReverseCommit, LedgerInv, RequestOK, OpsAt, IdOK
  <2>2. PICK b \in Bills, p \in Payments : req[h].bill = b /\ req[h].pay = p
    BY <2>1
  <2>3. Atomic!Undo(p)
    BY <1>2, <2>2, CommitUndoes
  <2> QED
    BY <2>3 DEF Atomic!Operate
<1>3. ASSUME NEW h \in Handlers, Update(h)
      PROVE  Atomic!Operate
  <2>1. req[h].bill \in Bills /\ req[h].total \in Nat
    BY <1>3 DEF Update, LedgerInv, RequestOK, TypeOK, Request
  <2>2. PICK b \in Bills, t \in Nat : req[h].bill = b /\ req[h].total = t
    BY <2>1
  <2>3. t \in Totals /\ Atomic!Recharge(b, t)
    BY <1>3, <2>2, UpdateRecharges
  <2> QED
    BY <2>3 DEF Atomic!Operate
<1>4. ASSUME NEW h \in Handlers, LazyStatusWrite(h) \/ RecalculateStatus(h)
      PROVE  UNCHANGED Atomic!bookVars
  <2>1. payment' = payment
    BY <1>4 DEF LazyStatusWrite, RecalculateStatus
  <2>2. \A b \in Bills : /\ bill'[b].total = bill[b].total
                         /\ bill'[b].paid = bill[b].paid
                         /\ bill'[b].remaining = bill[b].remaining
    BY <1>0, <1>4 DEF LazyStatusWrite, RecalculateStatus, TypeOK, MonthlyRent
  <2> QED
    BY <1>0, <2>1, <2>2, StatusUnseen
<1>5. CASE RefreshOverdueStatuses
  <2>1. \A b \in Bills : /\ bill'[b].total = bill[b].total
                         /\ bill'[b].paid = bill[b].paid
                         /\ bill'[b].remaining = bill[b].remaining
    BY <1>0, <1>5 DEF RefreshOverdueStatuses, TypeOK, MonthlyRent
  <2> QED
    BY <1>0, <1>5, <2>1, StatusUnseen DEF RefreshOverdueStatuses
<1>6. CASE UNCHANGED <<bill, payment>>
  BY <1>0, <1>6, StatusUnseen
<1>7. ASSUME NEW h \in Handlers, Start(h)
      PROVE  UNCHANGED <<bill, payment>>
  BY <1>7 DEF Start, CreateCheck, ReverseCheck, FindStale, FindCurrent
<1>8. ASSUME NEW h \in Handlers,
             \/ CreateReread(h) \/ CreateReject(h) \/ ReverseMark(h)
             \/ ReverseSum(h) \/ Fail(h)
      PROVE  UNCHANGED <<bill, payment>>
  BY <1>8 DEF CreateReread, CreateReject, ReverseMark, ReverseSum, Fail
<1>9. ASSUME NEW b \in Bills, DueDatePasses(b)
      PROVE  UNCHANGED <<bill, payment>>
  BY <1>9 DEF DueDatePasses
<1> QED
  BY <1>1, <1>2, <1>3, <1>4, <1>5, <1>6, <1>7, <1>8, <1>9 DEF Next, Continue, vars

(* The rows a database starts with are an open book.                       *)
LEMMA InitOpens ==
  ASSUME Init, LedgerInv, Quiet
  PROVE  Atomic!Open
<1>1. payment = [p \in Payments |-> Atomic!Unused]
  BY DEF Init, NoPayment, Atomic!Unused
<1>2. [b \in Bills |-> bill[b].total] \in [Bills -> Totals]
  BY DEF Init
<1>3. Book = [b \in Bills |-> Atomic!Entry(b, [c \in Bills |-> bill[c].total][b], payment)]
  BY ShownIsEntry DEF Book
<1> QED
  BY <1>1, <1>2, <1>3 DEF Atomic!Open, Book, Shown

(* Requests that keep apart are requests.                                  *)
LEMMA ApartRefines == ApartSpec => Spec /\ []Apart
<1>1. Init => Apart
  <2> SUFFICES ASSUME Init, NEW h \in Handlers PROVE ~Holding(h)
    BY DEF Apart
  <2>1. req[h] = NoRequest /\ pc[h] = "idle"
    BY DEF Init
  <2> QED
    BY <2>1, NothingReversed DEF Holding
<1>2. Apart /\ [Next /\ Apart']_vars => Apart' /\ [Next]_vars
  BY DEF vars, Apart, Holding
<1> QED
  BY <1>1, <1>2, PTL DEF ApartSpec, Spec

(* Requests that keep apart stay quiet.                                    *)
LEMMA ApartQuiet == ApartSpec => [](LedgerInv /\ Quiet)
<1>1. Spec => []LedgerInv
  BY InvariantHolds
<1>2. Init => Quiet
  BY InitQuiet
<1>3. LedgerInv /\ Quiet /\ Apart /\ [Next]_vars => Quiet'
  BY QuietStep
<1> QED
  BY <1>1, <1>2, <1>3, ApartRefines, PTL DEF Spec

(* For every set of handlers, bills, payments and charges, and every bound *)
(* on amounts: as long as no two requests hold figures of one bill at the  *)
(* same time, whatever the services read, check, write, lazily repair or   *)
(* leave half-done adds up to payments accepted within what is due,        *)
(* payments undone and bills recharged, one at a time                      *)
(* (payments.service.ts, monthly-rents.service.ts).                        *)
THEOREM ApartImplementsAtomicLedger == ApartSpec => ImplementsAtomicLedger
<1>1. Init /\ LedgerInv /\ Quiet => Atomic!Open
  BY InitOpens
<1>2. LedgerInv /\ LedgerInv' /\ Quiet /\ Quiet' /\ [Next]_vars
        => [Atomic!Operate]_(Atomic!bookVars)
  BY StepOperates
<1> QED
  BY <1>1, <1>2, ApartRefines, ApartQuiet, PTL
     DEF Spec, ImplementsAtomicLedger, Atomic!BookSpec

(* The promise that overlapping requests break is kept by those that keep  *)
(* apart: paidAmount is the sum of the COMPLETED payments, although        *)
(* nothing locks the bill (the comment at payments.service.ts:118).        *)
THEOREM ApartBalanced == ApartSpec => []LedgerBalanced
<1>1. LedgerInv /\ Quiet => LedgerBalanced
  BY DEF LedgerInv, LedgerExact, Quiet, Sure, LedgerBalanced
<1> QED
  BY <1>1, ApartQuiet, PTL

(* Requests that come one after another keep apart.                        *)
THEOREM AloneImplementsAtomicLedger ==
  ASSUME Alone
  PROVE  Spec => ImplementsAtomicLedger
<1>1. Apart'
  BY DEF Alone, Apart
<1>2. [Next]_vars => [Next /\ Apart']_vars
  BY <1>1
<1>3. Spec => ApartSpec
  BY <1>2, PTL DEF Spec, ApartSpec
<1> QED
  BY <1>3, ApartImplementsAtomicLedger, PTL

=============================================================================
