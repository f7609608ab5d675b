----------------------------- MODULE MCSessions -----------------------------
(* Sessions on small sets: values for its constants, and the symmetry.     *)
EXTENDS Sessions, TLC

CONSTANTS r1, r2, o1, o2, mail, phone

TwoRequests == {r1, r2}
TwoUsers == {o1, o2}
MailAndPhone == {mail, phone}

(* The second user has the first one's phone number.                       *)
SharedPhone == [u \in Users |-> IF u = o1 THEN {mail, phone} ELSE {phone}]

Symmetry == Permutations(Requests)
=============================================================================
