------------------------------ MODULE MCBilling ------------------------------
(* Billing and reminders on small sets: values for the constants, and the  *)
(* symmetry.                                                               *)
EXTENDS Reminders, TLC

CONSTANTS r1, r2, a1, a2, upcoming, noon

TwoRequests == {r1, r2}
TwoAgreements == {a1, a2}

Month(y, m) == [year |-> y, month |-> m]

(* Before the first month that is ever generated, and across two turns of  *)
(* the year; open, and ended in December.                                  *)
SomeTerms == {[start |-> Month(2019, 11), end |-> None],
              [start |-> Month(2020, 11), end |-> Month(2020, 12)]}

LastDayOrTenth == {10, 31}
SomeTargets == {Month(2020, 1), Month(2021, 1)}
Calendar == 2019..2021

OneType == {upcoming}
OneTime == {noon}

Symmetry == Permutations(Requests) \cup Permutations(Agreements)
=============================================================================
