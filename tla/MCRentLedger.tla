---------------------------- MODULE MCRentLedger ----------------------------
(* RentLedger on small sets: values for its constants, and the symmetry.   *)
EXTENDS RentLedger, TLC

CONSTANTS h1, h2, h3, b1, b2, p1, p2

TwoHandlers == {h1, h2}
ThreeHandlers == {h1, h2, h3}

OneBill == {b1}
TwoBills == {b1, b2}

TwoPayments == {p1, p2}

Zero == {0}
ZeroToOne == {0, 1}
Two == {2}

PaymentOps == {"create", "reverse"}
WritingOps == AllOps \ {"view"}
BookOps == AllOps \ {"recalculate"}

Symmetry == Permutations(Handlers) \cup Permutations(Payments)
BookSymmetry == Symmetry \cup Permutations(Bills)
=============================================================================
