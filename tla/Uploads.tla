------------------------------ MODULE Uploads -------------------------------
(***************************************************************************)
(* Files of barivara-api: Media rows in PostgreSQL, the objects they name  *)
(* in the Supabase store, the owner's signature that refers to a row, and  *)
(* the receipts that keep a reference to the signature of their day.       *)
(* (src/files/files.service.ts, src/files/storage/                         *)
(* supabase-storage.service.ts, src/users/users.service.ts and the         *)
(* signature parts of src/payments/payments.service.ts.)                   *)
(*                                                                         *)
(* No transaction spans the database and the store.  A request is a chain  *)
(* of awaits, one action each, and may end at any of them with an error;   *)
(* the client sends its bytes to the store by itself, with a signed URL;   *)
(* the removal of a deleted object is asked for and never awaited.         *)
(*                                                                         *)
(* `crossed' and `stray' are history variables: no guard reads them.       *)
(***************************************************************************)
EXTENDS Naturals, FiniteSets

CONSTANTS
    Requests,    \* requests that may be running at the same time
    Files,       \* ids of Media rows: its size bounds the uploads ever asked for
    Users,       \* ids of users, all of them owners
    Categories,  \* file categories the workload asks for
    MimeTypes,   \* mime types it asks for
    Sizes,       \* sizes it asks for, in MB
    None         \* no file, no user

ASSUME FilesAssumption == None \notin Files \cup Users
(* FileCategory of the schema.                                              *)
AllCategories ==
    {"PROFILE_IMAGE", "PROPERTY_IMAGE", "TENANT_PROFILE_PICTURE",
     "TENANT_FRONT_NID", "TENANT_BACK_NID", "TENANT_DOCUMENT",
     "AGREEMENT_DOCUMENT", "PAYMENT_RECEIPT", "OWNER_SIGNATURE", "OTHER"}

ASSUME CategoriesAssumption == Categories \subseteq AllCategories

VARIABLES
    row,        \* row[f]: the Media row of f
    objects,    \* files whose object is in the store
    urls,       \* files whose signed upload URL has not expired
    buckets,    \* buckets that exist in the store
    signature,  \* signature[u]: User.signatureFileId
    receipts,   \* files that Payment rows keep as ownerSignatureSnapshotId
    removals,   \* objects whose removal was asked of the store and is not over
    req,        \* req[r]: where request r stands, and for which file and user
    crossed,    \* files written while somebody else's completion was running
    stray       \* files whose removal failed, or uploaded after their deletion

vars == <<row, objects, urls, buckets, signature, receipts, removals, req,
          crossed, stray>>

-----------------------------------------------------------------------------
(* The tables of file-constants.ts and the checks made of them.            *)

DocumentCategories == {"TENANT_DOCUMENT", "AGREEMENT_DOCUMENT"}
ImageCategories == AllCategories \ (DocumentCategories \cup {"OTHER"})

ImageMimes == {"image/jpeg", "image/png", "image/webp"}
DocumentMimes == {"application/pdf"}

BucketOf(c) ==
    CASE c = "PROPERTY_IMAGE"  -> "property-images"
      [] c = "PAYMENT_RECEIPT" -> "payment-receipts"
      [] c = "OWNER_SIGNATURE" -> "owner-signatures"
      [] OTHER                 -> "tenant-documents"

AllBuckets == {BucketOf(c) : c \in Categories}

ValidMimeType(c, mime) ==
    /\ c \in ImageCategories => mime \in ImageMimes
    /\ c \in DocumentCategories => mime \in DocumentMimes
    /\ c = "OTHER" => mime \in ImageMimes \cup DocumentMimes

(* The caps of the DTO (5 MB whatever the file), of OWNER_SIGNATURE, and of *)
(* the configuration's defaults.                                           *)
ValidFileSize(c, size) ==
    /\ size <= 5
    /\ IF c = "OWNER_SIGNATURE" THEN size <= 2
       ELSE IF c \in ImageCategories THEN size <= 5 ELSE size <= 10

-----------------------------------------------------------------------------
(* Rows and requests.                                                      *)

FileStatus == {"PENDING", "COMPLETED", "FAILED", "DELETED"}

NoRow == [status |-> "ABSENT", deleted |-> FALSE, category |-> "OTHER", by |-> None]

Media == [status : FileStatus \cup {"ABSENT"}, deleted : BOOLEAN,
          category : AllCategories, by : Users \cup {None}]

Steps == {"idle", "signing", "probing", "found", "absent", "deleting",
          "linking", "paying"}

Request == [at : Steps, file : Files \cup {None}, user : Users \cup {None}]

Idle == [at |-> "idle", file |-> None, user |-> None]

Live(f) == row[f].status # "ABSENT" /\ ~row[f].deleted

(* What getFileUrl serves, and what a receipt shows as its signature.      *)
Downloadable(f) == Live(f) /\ row[f].status = "COMPLETED"

Begin(r, step, f, u) ==
    /\ req[r].at = "idle"
    /\ req' = [req EXCEPT ![r] = [at |-> step, file |-> f, user |-> u]]

Proceed(r, step) == req' = [req EXCEPT ![r].at = step]

End(r) == req' = [req EXCEPT ![r] = Idle]

(* The completions of f that r is not.                                     *)
Completing(g, f) == req[g].file = f /\ req[g].at \in {"probing", "found", "absent"}

Cross(r, f) ==
    crossed' = IF \E g \in Requests \ {r} : Completing(g, f)
               THEN crossed \cup {f} ELSE crossed

-----------------------------------------------------------------------------
TypeOK ==
    /\ row \in [Files -> Media]
    /\ objects \subseteq Files
    /\ urls \subseteq Files
    /\ buckets \subseteq AllBuckets
    /\ signature \in [Users -> Files \cup {None}]
    /\ receipts \subseteq Files
    /\ removals \subseteq Files
    /\ req \in [Requests -> Request]
    /\ crossed \subseteq Files
    /\ stray \subseteq Files

Init ==
    /\ row = [f \in Files |-> NoRow]
    /\ objects = {} /\ urls = {} /\ removals = {}
    /\ buckets \in SUBSET AllBuckets
    /\ signature = [u \in Users |-> None]
    /\ receipts = {}
    /\ req = [r \in Requests |-> Idle]
    /\ crossed = {} /\ stray = {}

-----------------------------------------------------------------------------
(* FilesService.requestUploadUrl: a PENDING row first, then the signed URL. *)
(* If the store refuses to sign, the row stays behind without a URL.       *)
CreateRow(r, u, f, c) ==
    /\ Begin(r, "signing", f, u)
    /\ row[f] = NoRow
    /\ \E mime \in MimeTypes, size \in Sizes :
         ValidMimeType(c, mime) /\ ValidFileSize(c, size)
    /\ row' = [row EXCEPT ![f] = [status |-> "PENDING", deleted |-> FALSE,
                                  category |-> c, by |-> u]]
    /\ UNCHANGED <<objects, urls, buckets, signature, receipts, removals,
                   crossed, stray>>

SignUrl(r) ==
    /\ req[r].at = "signing"
    /\ BucketOf(row[req[r].file].category) \in buckets
    /\ urls' = urls \cup {req[r].file}
    /\ End(r)
    /\ UNCHANGED <<row, objects, buckets, signature, receipts, removals,
                   crossed, stray>>

(* The client sends the bytes to the store while its URL is valid; the     *)
(* store takes one object per path.  The API sees nothing of it.           *)
ClientUpload(f) ==
    /\ f \in urls \ objects
    /\ objects' = objects \cup {f}
    /\ stray' = IF row[f].deleted THEN stray \cup {f} ELSE stray
    /\ UNCHANGED <<row, urls, buckets, signature, receipts, removals, req, crossed>>

UrlExpires(f) ==
    /\ f \in urls
    /\ urls' = urls \ {f}
    /\ UNCHANGED <<row, objects, buckets, signature, receipts, removals, req,
                   crossed, stray>>

-----------------------------------------------------------------------------
(* FilesService.completeUpload: read the row, ask the store for the object, *)
(* write the outcome by id.  objectExists turns every store error into     *)
(* "absent".                                                               *)
CompleteReadOfLive(r, f) ==
    /\ Live(f)
    /\ Begin(r, "probing", f, row[f].by)
    /\ UNCHANGED <<row, objects, urls, buckets, signature, receipts, removals,
                   crossed, stray>>

CompleteReadUnlessDone(r, f) ==
    /\ row[f].status \notin {"ABSENT", "COMPLETED"}
    /\ Begin(r, "probing", f, row[f].by)
    /\ UNCHANGED <<row, objects, urls, buckets, signature, receipts, removals,
                   crossed, stray>>

CompleteRead(r, f) ==
    /\ row[f].status = "PENDING"
    /\ Begin(r, "probing", f, row[f].by)
    /\ UNCHANGED <<row, objects, urls, buckets, signature, receipts, removals,
                   crossed, stray>>

ProbeWithoutStore(r) ==
    /\ req[r].at = "probing"
    /\ Proceed(r, "found")
    /\ UNCHANGED <<row, objects, urls, buckets, signature, receipts, removals,
                   crossed, stray>>

ProbeFound(r) ==
    /\ req[r].at = "probing"
    /\ req[r].file \in objects
    /\ Proceed(r, "found")
    /\ UNCHANGED <<row, objects, urls, buckets, signature, receipts, removals,
                   crossed, stray>>

ProbeAbsent(r) ==
    /\ req[r].at = "probing"
    /\ Proceed(r, "absent")
    /\ UNCHANGED <<row, objects, urls, buckets, signature, receipts, removals,
                   crossed, stray>>

CompleteWrite(r) ==
    LET f == req[r].file IN
    /\ req[r].at \in {"found", "absent"}
    /\ row' = [row EXCEPT ![f].status =
                 IF req[r].at = "found" THEN "COMPLETED" ELSE "FAILED"]
    /\ Cross(r, f)
    /\ End(r)
    /\ UNCHANGED <<objects, urls, buckets, signature, receipts, removals, stray>>

-----------------------------------------------------------------------------
(* FilesService.deleteFile: read the row, mark it deleted by id, and ask   *)
(* the store to remove the object without waiting for it.                  *)
DeleteRead(r, f) ==
    /\ Live(f)
    /\ Begin(r, "deleting", f, row[f].by)
    /\ UNCHANGED <<row, objects, urls, buckets, signature, receipts, removals,
                   crossed, stray>>

DeleteWriteWithoutRemoval(r) ==
    LET f == req[r].file IN
    /\ req[r].at = "deleting"
    /\ row' = [row EXCEPT ![f].status = "DELETED", ![f].deleted = TRUE]
    /\ Cross(r, f)
    /\ End(r)
    /\ UNCHANGED <<objects, urls, buckets, signature, receipts, removals, stray>>

DeleteWrite(r) ==
    LET f == req[r].file IN
    /\ req[r].at = "deleting"
    /\ row' = [row EXCEPT ![f].status = "DELETED", ![f].deleted = TRUE]
    /\ removals' = removals \cup {f}
    /\ Cross(r, f)
    /\ End(r)
    /\ UNCHANGED <<objects, urls, buckets, signature, receipts, stray>>

(* deleteObject: done once, and given up on the first error.               *)
RemoveObject(f) ==
    /\ f \in removals
    /\ removals' = removals \ {f}
    /\ objects' = objects \ {f}
    /\ UNCHANGED <<row, urls, buckets, signature, receipts, req, crossed, stray>>

RemovalFails(f) ==
    /\ f \in removals
    /\ removals' = removals \ {f}
    /\ stray' = stray \cup {f}
    /\ UNCHANGED <<row, objects, urls, buckets, signature, receipts, req, crossed>>

-----------------------------------------------------------------------------
(* UsersService.updateSignature: check the file, then write its id on the  *)
(* user; None clears it and needs no check.                                *)
LinkReadOfAnyStatus(r, u, f) ==
    /\ Live(f)
    /\ row[f].by = u
    /\ row[f].category = "OWNER_SIGNATURE"
    /\ Begin(r, "linking", f, u)
    /\ UNCHANGED <<row, objects, urls, buckets, signature, receipts, removals,
                   crossed, stray>>

LinkRead(r, u, f) ==
    /\ Downloadable(f)
    /\ row[f].by = u
    /\ row[f].category = "OWNER_SIGNATURE"
    /\ Begin(r, "linking", f, u)
    /\ UNCHANGED <<row, objects, urls, buckets, signature, receipts, removals,
                   crossed, stray>>

LinkNothing(r, u) ==
    /\ Begin(r, "linking", None, u)
    /\ UNCHANGED <<row, objects, urls, buckets, signature, receipts, removals,
                   crossed, stray>>

LinkWrite(r) ==
    /\ req[r].at = "linking"
    /\ signature' = [signature EXCEPT ![req[r].user] = req[r].file]
    /\ End(r)
    /\ UNCHANGED <<row, objects, urls, buckets, receipts, removals, crossed, stray>>

(* PaymentsService.create: the owner's signature is read before the        *)
(* transaction and stored with the payment.                                *)
PaymentRead(r, u) ==
    /\ Begin(r, "paying", signature[u], u)
    /\ UNCHANGED <<row, objects, urls, buckets, signature, receipts, removals,
                   crossed, stray>>

PaymentWriteUnchecked(r) ==
    /\ req[r].at = "paying"
    /\ receipts' = receipts \cup {req[r].file}
    /\ End(r)
    /\ UNCHANGED <<row, objects, urls, buckets, signature, removals, crossed, stray>>

PaymentWrite(r) ==
    /\ req[r].at = "paying"
    /\ receipts' = receipts \cup ({req[r].file} \ {None})
    /\ End(r)
    /\ UNCHANGED <<row, objects, urls, buckets, signature, removals, crossed, stray>>

-----------------------------------------------------------------------------
(* A request may fail at any of its awaits: the store is not configured or *)
(* refuses, the database does not answer.                                  *)
Abort(r) ==
    /\ req[r].at # "idle"
    /\ End(r)
    /\ UNCHANGED <<row, objects, urls, buckets, signature, receipts, removals,
                   crossed, stray>>

(* The process stops and starts again: requests and removals under way are *)
(* lost; ensureBucketsExist creates what is missing, as far as it can.     *)
Restart ==
    /\ req' = [r \in Requests |-> Idle]
    /\ removals' = {}
    /\ stray' = stray \cup removals
    /\ buckets' \in {B \in SUBSET AllBuckets : buckets \subseteq B}
    /\ UNCHANGED <<row, objects, urls, signature, receipts, crossed>>

Next ==
    \/ \E r \in Requests, u \in Users, f \in Files, c \in Categories :
         CreateRow(r, u, f, c)
    \/ \E r \in Requests, f \in Files : CompleteRead(r, f) \/ DeleteRead(r, f)
    \/ \E r \in Requests, u \in Users, f \in Files : LinkRead(r, u, f)
    \/ \E r \in Requests, u \in Users : LinkNothing(r, u) \/ PaymentRead(r, u)
    \/ \E r \in Requests :
         \/ SignUrl(r) \/ ProbeFound(r) \/ ProbeAbsent(r) \/ CompleteWrite(r)
         \/ DeleteWrite(r) \/ LinkWrite(r) \/ PaymentWrite(r) \/ Abort(r)
    \/ \E f \in Files :
         ClientUpload(f) \/ UrlExpires(f) \/ RemoveObject(f) \/ RemovalFails(f)
    \/ Restart

Spec == Init /\ [][Next]_vars

(* The store answers every removal it was asked for, with success or not.  *)
FairSpec == Spec /\ \A f \in Files : WF_vars(RemoveObject(f) \/ RemovalFails(f))

-----------------------------------------------------------------------------
(* A file that getFileUrl would serve has its object in the store: however *)
(* completions, deletions, slow uploads and removals overlap, COMPLETED is *)
(* never answered for bytes that are not there.                            *)
ServedIsStored == \A f \in Files : Downloadable(f) => f \in objects

(* The status says DELETED exactly when deletedAt is set, unless a         *)
(* completion was overtaken: it then writes its status over the deletion.  *)
StatusMatchesDeletion ==
    \A f \in Files \ crossed : row[f].deleted <=> row[f].status = "DELETED"

(* The owner's signature, and the signature a receipt refers to, can be    *)
(* shown until the file is deleted, unless two completions of it crossed   *)
(* (the slower may write FAILED over COMPLETED).                           *)
SignaturesShown ==
    \A f \in (receipts \cup {signature[u] : u \in Users}) \ (crossed \cup {None}) :
      row[f].deleted \/ Downloadable(f)

(* A row only moves forward, PENDING to COMPLETED or FAILED and any of     *)
(* them to DELETED, unless the write overtook a completion or was          *)
(* overtaken: no request brings a settled upload back.                     *)
Forward ==
    {<<"ABSENT", "PENDING">>, <<"PENDING", "COMPLETED">>, <<"PENDING", "FAILED">>}
      \cup (FileStatus \X {"DELETED"})

MovesForward ==
    \A f \in Files \ crossed :
      row'[f].status # row[f].status => <<row[f].status, row'[f].status>> \in Forward

StatusMovesForward == [][MovesForward]_vars

(* Deleting a file gets its object out of the store in the end, unless the *)
(* one attempt fails or is lost with the process, or the bytes arrive      *)
(* after the deletion: nothing retries, and nothing looks for strays.      *)
DeletedObjectsGo ==
    \A f \in Files : row[f].deleted ~> (f \notin objects \/ f \in stray)

-----------------------------------------------------------------------------
(* The inductive invariant.                                                *)

FileSteps == {"signing", "probing", "found", "absent", "deleting"}

RowsOK ==
    \A f \in Files : IF row[f].status = "ABSENT" THEN row[f] = NoRow
                    ELSE row[f].by \in Users

RequestsOK ==
    \A r \in Requests :
      /\ req[r].at # "idle" => req[r].user \in Users
      /\ req[r].at \in FileSteps => /\ req[r].file \in Files
                                    /\ row[req[r].file].status # "ABSENT"

(* Only objects of deleted rows are ever removed, so what a probe found is *)
(* there until its file is deleted.                                        *)
RemovalsFollowDeletion == \A f \in removals : row[f].deleted

FoundIsStored ==
    \A r \in Requests :
      req[r].at = "found" => req[r].file \in objects \/ row[req[r].file].deleted

(* The row that a completion read as PENDING still is, unless crossed.     *)
CompletionsPending ==
    \A r \in Requests, f \in Files \ crossed :
      Completing(r, f) => row[f].status = "PENDING" /\ ~row[f].deleted

(* What the two writers of references carry is as good as what is written. *)
Referred ==
    receipts \cup {signature[u] : u \in Users}
      \cup {req[r].file : r \in {g \in Requests : req[g].at \in {"linking", "paying"}}}

ReferredShown ==
    \A f \in Referred \ (crossed \cup {None}) : row[f].deleted \/ Downloadable(f)

UploadsInv ==
    /\ TypeOK
    /\ RowsOK
    /\ RequestsOK
    /\ RemovalsFollowDeletion
    /\ FoundIsStored
    /\ ServedIsStored
    /\ CompletionsPending
    /\ StatusMatchesDeletion
    /\ ReferredShown

=============================================================================
