---------------------------- MODULE AtomicLedger ----------------------------
(***************************************************************************)
(* What the ledger promises, with no request, no transaction and no stale  *)
(* read in sight: a book with one entry per bill and the receipts behind   *)
(* it.  Accepting a payment, undoing one, or changing what a bill charges  *)
(* is one step, and after each step the entry says what the receipts say.  *)
(***************************************************************************)
EXTENDS Naturals, FiniteSets

CONSTANTS Bills, Payments, MaxAmount, Totals, None

VARIABLES
    book,      \* book[b]: total, paid and remaining amount shown for bill b
    receipts   \* receipts[p]: the payment made under id p, if any

bookVars == <<book, receipts>>

Unused == [bill |-> None, amount |-> 0, status |-> "ABSENT"]

(* The paisa received for b and not given back.                            *)
Received(b, R) ==
    Cardinality({pk \in Payments \X (1..MaxAmount) :
                    /\ R[pk[1]].bill = b
                    /\ R[pk[1]].status = "COMPLETED"
                    /\ pk[2] <= R[pk[1]].amount})

(* The one entry that total t and receipts R allow for b.                  *)
Entry(b, t, R) ==
    [total |-> t, paid |-> Received(b, R),
     remaining |-> IF Received(b, R) >= t THEN 0 ELSE t - Received(b, R)]

Accept(b, p, amount) ==
    /\ receipts[p] = Unused
    /\ amount <= book[b].remaining
    /\ receipts' = [receipts EXCEPT ![p] =
                      [bill |-> b, amount |-> amount, status |-> "COMPLETED"]]
    /\ book' = [book EXCEPT ![b] = Entry(b, @.total, receipts')]

Undo(p) ==
    LET b == receipts[p].bill IN
    /\ receipts[p].status = "COMPLETED"
    /\ receipts' = [receipts EXCEPT ![p].status = "REVERSED"]
    /\ book' = [book EXCEPT ![b] = Entry(b, @.total, receipts')]

Recharge(b, t) ==
    /\ receipts' = receipts
    /\ book' = [book EXCEPT ![b] = Entry(b, t, receipts)]

Open ==
    /\ receipts = [p \in Payments |-> Unused]
    /\ \E t \in [Bills -> Totals] : book = [b \in Bills |-> Entry(b, t[b], receipts)]

Operate ==
    \/ \E b \in Bills, p \in Payments, amount \in 1..MaxAmount : Accept(b, p, amount)
    \/ \E p \in Payments : Undo(p)
    \/ \E b \in Bills, t \in Totals : Recharge(b, t)

BookSpec == Open /\ [][Operate]_bookVars
=============================================================================
