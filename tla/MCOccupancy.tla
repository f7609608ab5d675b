---------------------------- MODULE MCOccupancy -----------------------------
(* Occupancy on small sets: values for its constants, and the symmetry.    *)
EXTENDS Occupancy, TLC

CONSTANTS h1, h2, a1, a2, u1, u2, t1, t2

OneHandler == {h1}
TwoHandlers == {h1, h2}

TwoAgreements == {a1, a2}

OneUnit == {u1}
TwoUnits == {u1, u2}

OneTenant == {t1}
TwoTenants == {t1, t2}

Vacant == {"VACANT"}
VacantOrOccupied == {"VACANT", "OCCUPIED"}
NoStatus == {}
ByHand == {"OCCUPIED"}
EndedOnly == {"ENDED"}
ToActive == {"ACTIVE"}
ToEnded == {None, "ENDED"}
ToRevived == {None, "ACTIVE"}

Keep == {None}
AnyUnit == Units \cup {None}
AnyTenant == Tenants \cup {None}

Letting == {"create", "update", "end"}
Updating == {"update"}
HandingOver == {"create", "update", "end", "removeUnit"}
Moving == {"create", "update", "end", "setUnit", "removeTenant"}

Symmetry == Permutations(Handlers) \cup Permutations(Agreements)
              \cup Permutations(Units) \cup Permutations(Tenants)
=============================================================================
