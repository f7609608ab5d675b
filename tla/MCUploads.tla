----------------------------- MODULE MCUploads ------------------------------
(* Uploads on small sets: values for its constants.                        *)
EXTENDS Uploads

CONSTANTS r1, r2, r3, f1, f2, o1

TwoRequests == {r1, r2}
ThreeRequests == {r1, r2, r3}
OneFile == {f1}
TwoFiles == {f1, f2}
OneOwner == {o1}

SomeCategories == {"OWNER_SIGNATURE", "TENANT_DOCUMENT"}
SomeMimes == {"image/png", "application/pdf"}
SomeSizes == {2, 6}
=============================================================================
