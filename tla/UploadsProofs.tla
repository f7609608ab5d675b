--------------------------- MODULE UploadsProofs ----------------------------
(***************************************************************************)
(* Proofs about Uploads, for every number of requests, files and users.    *)
(*                                                                         *)
(* UploadsInv is inductive: besides the properties it says what a request  *)
(* between two awaits may still rely on.  A completion that nobody crossed *)
(* finds its row PENDING when it writes; what a probe found stays in the   *)
(* store until its file is deleted; a reference on its way to a user or to *)
(* a payment is as good as one already written.                            *)
(***************************************************************************)
EXTENDS Uploads, TLAPS

LEMMA InitInv == Init => UploadsInv
  BY FilesAssumption DEF Init, UploadsInv, TypeOK, RowsOK, RequestsOK,
     RemovalsFollowDeletion, FoundIsStored, ServedIsStored, CompletionsPending,
     StatusMatchesDeletion, ReferredShown, Referred, NoRow, Idle, Media,
     FileStatus, Request, Steps, FileSteps, Downloadable, Live, Completing,
     AllBuckets, AllCategories

LEMMA StepTypes ==
  TypeOK /\ RowsOK /\ RequestsOK /\ [Next]_vars => TypeOK'
  <1> SUFFICES ASSUME TypeOK, RowsOK, RequestsOK, [Next]_vars PROVE TypeOK'
      OBVIOUS
  <1> USE DEF TypeOK, Media, FileStatus, Request, Steps
  <1>1. ASSUME NEW r \in Requests, NEW u \in Users, NEW f \in Files, NEW c \in Categories,
               CreateRow(r, u, f, c)
        PROVE TypeOK'
      BY <1>1, CategoriesAssumption DEF CreateRow, Begin
  <1>2. ASSUME NEW r \in Requests, NEW f \in Files, CompleteRead(r, f)
        PROVE TypeOK'
      BY <1>2 DEF CompleteRead, Begin
  <1>3. ASSUME NEW r \in Requests, NEW f \in Files, DeleteRead(r, f)
        PROVE TypeOK'
      BY <1>3 DEF DeleteRead, Begin, Live
  <1>4. ASSUME NEW r \in Requests, NEW u \in Users, NEW f \in Files,
               LinkRead(r, u, f)
        PROVE TypeOK'
      BY <1>4 DEF LinkRead, Begin
  <1>5. ASSUME NEW r \in Requests, NEW u \in Users, LinkNothing(r, u)
        PROVE TypeOK'
      BY <1>5 DEF LinkNothing, Begin
  <1>6. ASSUME NEW r \in Requests, NEW u \in Users, PaymentRead(r, u)
        PROVE TypeOK'
      BY <1>6 DEF PaymentRead, Begin
  <1>7. ASSUME NEW r \in Requests, SignUrl(r) \/ Abort(r) PROVE TypeOK'
    <2>1. CASE SignUrl(r)
        BY <2>1 DEF SignUrl, End, Idle, RequestsOK, FileSteps
    <2>2. CASE Abort(r)
        BY <2>2 DEF Abort, End, Idle
    <2> QED BY <1>7, <2>1, <2>2
  <1>8. ASSUME NEW r \in Requests, ProbeFound(r) PROVE TypeOK'
      BY <1>8 DEF ProbeFound, Proceed
  <1>9. ASSUME NEW r \in Requests, ProbeAbsent(r) PROVE TypeOK'
      BY <1>9 DEF ProbeAbsent, Proceed
  <1>10. ASSUME NEW r \in Requests, CompleteWrite(r) PROVE TypeOK'
      BY <1>10 DEF CompleteWrite, End, Idle, Cross, RequestsOK, FileSteps
  <1>11. ASSUME NEW r \in Requests, DeleteWrite(r) PROVE TypeOK'
      BY <1>11 DEF DeleteWrite, End, Idle, Cross, RequestsOK, FileSteps
  <1>12. ASSUME NEW r \in Requests, LinkWrite(r) \/ PaymentWrite(r)
         PROVE TypeOK'
      BY <1>12 DEF LinkWrite, End, Idle, PaymentWrite
  <1>13. ASSUME NEW f \in Files, ClientUpload(f) \/ UrlExpires(f)
         PROVE TypeOK'
      BY <1>13 DEF ClientUpload, UrlExpires
  <1>14. ASSUME NEW f \in Files, RemoveObject(f) \/ RemovalFails(f)
         PROVE TypeOK'
      BY <1>14 DEF RemoveObject, RemovalFails
  <1>15. CASE Restart
      BY <1>15 DEF Restart, Idle
  <1>16. CASE UNCHANGED vars
      BY <1>16 DEF vars
  <1> QED BY <1>1, <1>2, <1>3, <1>4, <1>5, <1>6, <1>7, <1>8, <1>9, <1>10,
     <1>11, <1>12, <1>13, <1>14, <1>15, <1>16 DEF Next

LEMMA StepRows ==
  TypeOK /\ RowsOK /\ RequestsOK /\ [Next]_vars => RowsOK'
  <1> SUFFICES ASSUME TypeOK, RowsOK, RequestsOK, [Next]_vars PROVE RowsOK'
      OBVIOUS
  <1> USE DEF TypeOK, Media, FileStatus, Request, Steps, RowsOK, RequestsOK,
     FileSteps, NoRow
  <1>1. ASSUME NEW r \in Requests, NEW u \in Users, NEW f \in Files, NEW c \in Categories,
               CreateRow(r, u, f, c)
        PROVE RowsOK'
      BY <1>1 DEF CreateRow, Begin
  <1>2. ASSUME NEW r \in Requests, NEW f \in Files, CompleteRead(r, f)
        PROVE RowsOK'
      BY <1>2 DEF CompleteRead, Begin
  <1>3. ASSUME NEW r \in Requests, NEW f \in Files, DeleteRead(r, f)
        PROVE RowsOK'
      BY <1>3 DEF DeleteRead, Begin, Live
  <1>4. ASSUME NEW r \in Requests, NEW u \in Users, NEW f \in Files,
               LinkRead(r, u, f)
        PROVE RowsOK'
      BY <1>4 DEF LinkRead, Begin
  <1>5. ASSUME NEW r \in Requests, NEW u \in Users, LinkNothing(r, u)
        PROVE RowsOK'
      BY <1>5 DEF LinkNothing, Begin
  <1>6. ASSUME NEW r \in Requests, NEW u \in Users, PaymentRead(r, u)
        PROVE RowsOK'
      BY <1>6 DEF PaymentRead, Begin
  <1>7. ASSUME NEW r \in Requests, SignUrl(r) \/ Abort(r) PROVE RowsOK'
      BY <1>7 DEF SignUrl, End, Idle, Abort
  <1>8. ASSUME NEW r \in Requests, ProbeFound(r) PROVE RowsOK'
      BY <1>8 DEF ProbeFound, Proceed
  <1>9. ASSUME NEW r \in Requests, ProbeAbsent(r) PROVE RowsOK'
      BY <1>9 DEF ProbeAbsent, Proceed
  <1>10. ASSUME NEW r \in Requests, CompleteWrite(r) PROVE RowsOK'
    <2> DEFINE f == req[r].file
    <2>1. f \in Files /\ row[f].status # "ABSENT"
          BY <1>10 DEF CompleteWrite
    <2>2. \A g \in Files \ {f} : row'[g] = row[g]
          BY <1>10 DEF CompleteWrite
    <2>3. row'[f].status # "ABSENT" /\ row'[f].by = row[f].by
          BY <1>10, <2>1 DEF CompleteWrite
    <2> QED BY <2>1, <2>2, <2>3
  <1>11. ASSUME NEW r \in Requests, DeleteWrite(r) PROVE RowsOK'
    <2> DEFINE f == req[r].file
    <2>1. f \in Files /\ row[f].status # "ABSENT"
          BY <1>11 DEF DeleteWrite
    <2>2. \A g \in Files \ {f} : row'[g] = row[g]
          BY <1>11 DEF DeleteWrite
    <2>3. row'[f].status # "ABSENT" /\ row'[f].by = row[f].by
          BY <1>11, <2>1 DEF DeleteWrite
    <2> QED BY <2>1, <2>2, <2>3
  <1>12. ASSUME NEW r \in Requests, LinkWrite(r) \/ PaymentWrite(r)
         PROVE RowsOK'
      BY <1>12 DEF LinkWrite, End, Idle, PaymentWrite
  <1>13. ASSUME NEW f \in Files, ClientUpload(f) \/ UrlExpires(f)
         PROVE RowsOK'
      BY <1>13 DEF ClientUpload, UrlExpires
  <1>14. ASSUME NEW f \in Files, RemoveObject(f) \/ RemovalFails(f)
         PROVE RowsOK'
      BY <1>14 DEF RemoveObject, RemovalFails
  <1>15. CASE Restart
      BY <1>15 DEF Restart, Idle
  <1>16. CASE UNCHANGED vars
      BY <1>16 DEF vars
  <1> QED BY <1>1, <1>2, <1>3, <1>4, <1>5, <1>6, <1>7, <1>8, <1>9, <1>10,
     <1>11, <1>12, <1>13, <1>14, <1>15, <1>16 DEF Next

LEMMA StepRequests ==
  TypeOK /\ RowsOK /\ RequestsOK /\ [Next]_vars => RequestsOK'
  <1> SUFFICES ASSUME TypeOK, RowsOK, RequestsOK, [Next]_vars PROVE
     RequestsOK'
      OBVIOUS
  <1> USE DEF TypeOK, Media, FileStatus, Request, Steps, RowsOK, RequestsOK,
     FileSteps, NoRow
  <1>1. ASSUME NEW r \in Requests, NEW u \in Users, NEW f \in Files, NEW c \in Categories,
               CreateRow(r, u, f, c)
        PROVE RequestsOK'
      BY <1>1 DEF CreateRow, Begin
  <1>2. ASSUME NEW r \in Requests, NEW f \in Files, CompleteRead(r, f)
        PROVE RequestsOK'
      BY <1>2 DEF CompleteRead, Begin
  <1>3. ASSUME NEW r \in Requests, NEW f \in Files, DeleteRead(r, f)
        PROVE RequestsOK'
      BY <1>3 DEF DeleteRead, Begin, Live
  <1>4. ASSUME NEW r \in Requests, NEW u \in Users, NEW f \in Files,
               LinkRead(r, u, f)
        PROVE RequestsOK'
      BY <1>4 DEF LinkRead, Begin, Downloadable, Live
  <1>5. ASSUME NEW r \in Requests, NEW u \in Users, LinkNothing(r, u)
        PROVE RequestsOK'
      BY <1>5 DEF LinkNothing, Begin
  <1>6. ASSUME NEW r \in Requests, NEW u \in Users, PaymentRead(r, u)
        PROVE RequestsOK'
      BY <1>6 DEF PaymentRead, Begin
  <1>7. ASSUME NEW r \in Requests, SignUrl(r) \/ Abort(r) PROVE RequestsOK'
      BY <1>7 DEF SignUrl, End, Idle, Abort
  <1>8. ASSUME NEW r \in Requests, ProbeFound(r) PROVE RequestsOK'
      BY <1>8 DEF ProbeFound, Proceed
  <1>9. ASSUME NEW r \in Requests, ProbeAbsent(r) PROVE RequestsOK'
      BY <1>9 DEF ProbeAbsent, Proceed
  <1>10. ASSUME NEW r \in Requests, CompleteWrite(r) PROVE RequestsOK'
      BY <1>10 DEF CompleteWrite, End, Idle, Cross
  <1>11. ASSUME NEW r \in Requests, DeleteWrite(r) PROVE RequestsOK'
      BY <1>11 DEF DeleteWrite, End, Idle, Cross
  <1>12. ASSUME NEW r \in Requests, LinkWrite(r) \/ PaymentWrite(r)
         PROVE RequestsOK'
      BY <1>12 DEF LinkWrite, End, Idle, PaymentWrite
  <1>13. ASSUME NEW f \in Files, ClientUpload(f) \/ UrlExpires(f)
         PROVE RequestsOK'
      BY <1>13 DEF ClientUpload, UrlExpires
  <1>14. ASSUME NEW f \in Files, RemoveObject(f) \/ RemovalFails(f)
         PROVE RequestsOK'
      BY <1>14 DEF RemoveObject, RemovalFails
  <1>15. CASE Restart
      BY <1>15 DEF Restart, Idle
  <1>16. CASE UNCHANGED vars
      BY <1>16 DEF vars
  <1> QED BY <1>1, <1>2, <1>3, <1>4, <1>5, <1>6, <1>7, <1>8, <1>9, <1>10,
     <1>11, <1>12, <1>13, <1>14, <1>15, <1>16 DEF Next

LEMMA StepRemovals ==
  TypeOK /\ RequestsOK /\ RemovalsFollowDeletion /\ [Next]_vars =>
     RemovalsFollowDeletion'
  <1> SUFFICES ASSUME TypeOK, RequestsOK, RemovalsFollowDeletion, [Next]_vars
     PROVE RemovalsFollowDeletion'
      OBVIOUS
  <1> USE DEF TypeOK, Media, FileStatus, Request, Steps, RequestsOK,
     FileSteps, RemovalsFollowDeletion, NoRow
  <1>1. ASSUME NEW r \in Requests, NEW u \in Users, NEW f \in Files, NEW c \in Categories,
               CreateRow(r, u, f, c)
        PROVE RemovalsFollowDeletion'
      BY <1>1 DEF CreateRow, Begin
  <1>2. ASSUME NEW r \in Requests, NEW f \in Files, CompleteRead(r, f)
        PROVE RemovalsFollowDeletion'
      BY <1>2 DEF CompleteRead, Begin
  <1>3. ASSUME NEW r \in Requests, NEW f \in Files, DeleteRead(r, f)
        PROVE RemovalsFollowDeletion'
      BY <1>3 DEF DeleteRead, Begin, Live
  <1>4. ASSUME NEW r \in Requests, NEW u \in Users, NEW f \in Files,
               LinkRead(r, u, f)
        PROVE RemovalsFollowDeletion'
      BY <1>4 DEF LinkRead, Begin
  <1>5. ASSUME NEW r \in Requests, NEW u \in Users, LinkNothing(r, u)
        PROVE RemovalsFollowDeletion'
      BY <1>5 DEF LinkNothing, Begin
  <1>6. ASSUME NEW r \in Requests, NEW u \in Users, PaymentRead(r, u)
        PROVE RemovalsFollowDeletion'
      BY <1>6 DEF PaymentRead, Begin
  <1>7. ASSUME NEW r \in Requests, SignUrl(r) \/ Abort(r)
        PROVE RemovalsFollowDeletion'
      BY <1>7 DEF SignUrl, End, Idle, Abort
  <1>8. ASSUME NEW r \in Requests, ProbeFound(r)
        PROVE RemovalsFollowDeletion'
      BY <1>8 DEF ProbeFound, Proceed
  <1>9. ASSUME NEW r \in Requests, ProbeAbsent(r)
        PROVE RemovalsFollowDeletion'
      BY <1>9 DEF ProbeAbsent, Proceed
  <1>10. ASSUME NEW r \in Requests, CompleteWrite(r)
         PROVE RemovalsFollowDeletion'
      BY <1>10 DEF CompleteWrite, End, Idle, Cross
  <1>11. ASSUME NEW r \in Requests, DeleteWrite(r)
         PROVE RemovalsFollowDeletion'
      BY <1>11 DEF DeleteWrite, End, Idle, Cross
  <1>12. ASSUME NEW r \in Requests, LinkWrite(r) \/ PaymentWrite(r)
         PROVE RemovalsFollowDeletion'
      BY <1>12 DEF LinkWrite, End, Idle, PaymentWrite
  <1>13. ASSUME NEW f \in Files, ClientUpload(f) \/ UrlExpires(f)
         PROVE RemovalsFollowDeletion'
      BY <1>13 DEF ClientUpload, UrlExpires
  <1>14. ASSUME NEW f \in Files, RemoveObject(f) \/ RemovalFails(f)
         PROVE RemovalsFollowDeletion'
      BY <1>14 DEF RemoveObject, RemovalFails
  <1>15. CASE Restart
      BY <1>15 DEF Restart, Idle
  <1>16. CASE UNCHANGED vars
      BY <1>16 DEF vars
  <1> QED BY <1>1, <1>2, <1>3, <1>4, <1>5, <1>6, <1>7, <1>8, <1>9, <1>10,
     <1>11, <1>12, <1>13, <1>14, <1>15, <1>16 DEF Next

LEMMA StepFound ==
  TypeOK /\ RequestsOK /\ RemovalsFollowDeletion /\ FoundIsStored /\
     [Next]_vars => FoundIsStored'
  <1> SUFFICES ASSUME TypeOK, RequestsOK, RemovalsFollowDeletion,
     FoundIsStored, [Next]_vars PROVE FoundIsStored'
      OBVIOUS
  <1> USE DEF TypeOK, Media, FileStatus, Request, Steps, RequestsOK,
     FileSteps, RemovalsFollowDeletion, FoundIsStored, NoRow
  <1>1. ASSUME NEW r \in Requests, NEW u \in Users, NEW f \in Files, NEW c \in Categories,
               CreateRow(r, u, f, c)
        PROVE FoundIsStored'
      BY <1>1 DEF CreateRow, Begin
  <1>2. ASSUME NEW r \in Requests, NEW f \in Files, CompleteRead(r, f)
        PROVE FoundIsStored'
      BY <1>2 DEF CompleteRead, Begin
  <1>3. ASSUME NEW r \in Requests, NEW f \in Files, DeleteRead(r, f)
        PROVE FoundIsStored'
      BY <1>3 DEF DeleteRead, Begin, Live
  <1>4. ASSUME NEW r \in Requests, NEW u \in Users, NEW f \in Files,
               LinkRead(r, u, f)
        PROVE FoundIsStored'
      BY <1>4 DEF LinkRead, Begin
  <1>5. ASSUME NEW r \in Requests, NEW u \in Users, LinkNothing(r, u)
        PROVE FoundIsStored'
      BY <1>5 DEF LinkNothing, Begin
  <1>6. ASSUME NEW r \in Requests, NEW u \in Users, PaymentRead(r, u)
        PROVE FoundIsStored'
      BY <1>6 DEF PaymentRead, Begin
  <1>7. ASSUME NEW r \in Requests, SignUrl(r) \/ Abort(r)
        PROVE FoundIsStored'
    <2>1. End(r) /\ UNCHANGED <<row, objects>>
        BY <1>7 DEF SignUrl, Abort
    <2> QED BY <2>1 DEF End, Idle
  <1>8. ASSUME NEW r \in Requests, ProbeFound(r) PROVE FoundIsStored'
      BY <1>8 DEF ProbeFound, Proceed
  <1>9. ASSUME NEW r \in Requests, ProbeAbsent(r) PROVE FoundIsStored'
      BY <1>9 DEF ProbeAbsent, Proceed
  <1>10. ASSUME NEW r \in Requests, CompleteWrite(r) PROVE FoundIsStored'
      BY <1>10 DEF CompleteWrite, End, Idle, Cross
  <1>11. ASSUME NEW r \in Requests, DeleteWrite(r) PROVE FoundIsStored'
      BY <1>11 DEF DeleteWrite, End, Idle, Cross
  <1>12. ASSUME NEW r \in Requests, LinkWrite(r) \/ PaymentWrite(r)
         PROVE FoundIsStored'
      BY <1>12 DEF LinkWrite, End, Idle, PaymentWrite
  <1>13. ASSUME NEW f \in Files, ClientUpload(f) \/ UrlExpires(f)
         PROVE FoundIsStored'
      BY <1>13 DEF ClientUpload, UrlExpires
  <1>14. ASSUME NEW f \in Files, RemoveObject(f) \/ RemovalFails(f)
         PROVE FoundIsStored'
      BY <1>14 DEF RemoveObject, RemovalFails
  <1>15. CASE Restart
      BY <1>15 DEF Restart, Idle
  <1>16. CASE UNCHANGED vars
      BY <1>16 DEF vars
  <1> QED BY <1>1, <1>2, <1>3, <1>4, <1>5, <1>6, <1>7, <1>8, <1>9, <1>10,
     <1>11, <1>12, <1>13, <1>14, <1>15, <1>16 DEF Next

LEMMA StepServed ==
  TypeOK /\ RequestsOK /\ RemovalsFollowDeletion /\ FoundIsStored /\
     ServedIsStored /\ [Next]_vars => ServedIsStored'
  <1> SUFFICES ASSUME TypeOK, RequestsOK, RemovalsFollowDeletion,
     FoundIsStored, ServedIsStored, [Next]_vars PROVE ServedIsStored'
      OBVIOUS
  <1> USE DEF TypeOK, Media, FileStatus, Request, Steps, RequestsOK,
     FileSteps, RemovalsFollowDeletion, FoundIsStored, ServedIsStored,
     Downloadable, Live, NoRow
  <1>1. ASSUME NEW r \in Requests, NEW u \in Users, NEW f \in Files, NEW c \in Categories,
               CreateRow(r, u, f, c)
        PROVE ServedIsStored'
      BY <1>1 DEF CreateRow, Begin
  <1>2. ASSUME NEW r \in Requests, NEW f \in Files, CompleteRead(r, f)
        PROVE ServedIsStored'
      BY <1>2 DEF CompleteRead, Begin
  <1>3. ASSUME NEW r \in Requests, NEW f \in Files, DeleteRead(r, f)
        PROVE ServedIsStored'
      BY <1>3 DEF DeleteRead, Begin, Live
  <1>4. ASSUME NEW r \in Requests, NEW u \in Users, NEW f \in Files,
               LinkRead(r, u, f)
        PROVE ServedIsStored'
      BY <1>4 DEF LinkRead, Begin
  <1>5. ASSUME NEW r \in Requests, NEW u \in Users, LinkNothing(r, u)
        PROVE ServedIsStored'
      BY <1>5 DEF LinkNothing, Begin
  <1>6. ASSUME NEW r \in Requests, NEW u \in Users, PaymentRead(r, u)
        PROVE ServedIsStored'
      BY <1>6 DEF PaymentRead, Begin
  <1>7. ASSUME NEW r \in Requests, SignUrl(r) \/ Abort(r)
        PROVE ServedIsStored'
      BY <1>7 DEF SignUrl, End, Idle, Abort
  <1>8. ASSUME NEW r \in Requests, ProbeFound(r) PROVE ServedIsStored'
      BY <1>8 DEF ProbeFound, Proceed
  <1>9. ASSUME NEW r \in Requests, ProbeAbsent(r) PROVE ServedIsStored'
      BY <1>9 DEF ProbeAbsent, Proceed
  <1>10. ASSUME NEW r \in Requests, CompleteWrite(r) PROVE ServedIsStored'
      BY <1>10 DEF CompleteWrite, End, Idle, Cross
  <1>11. ASSUME NEW r \in Requests, DeleteWrite(r) PROVE ServedIsStored'
      BY <1>11 DEF DeleteWrite, End, Idle, Cross
  <1>12. ASSUME NEW r \in Requests, LinkWrite(r) \/ PaymentWrite(r)
         PROVE ServedIsStored'
      BY <1>12 DEF LinkWrite, End, Idle, PaymentWrite
  <1>13. ASSUME NEW f \in Files, ClientUpload(f) \/ UrlExpires(f)
         PROVE ServedIsStored'
      BY <1>13 DEF ClientUpload, UrlExpires
  <1>14. ASSUME NEW f \in Files, RemoveObject(f) \/ RemovalFails(f)
         PROVE ServedIsStored'
      BY <1>14 DEF RemoveObject, RemovalFails
  <1>15. CASE Restart
      BY <1>15 DEF Restart, Idle
  <1>16. CASE UNCHANGED vars
      BY <1>16 DEF vars
  <1> QED BY <1>1, <1>2, <1>3, <1>4, <1>5, <1>6, <1>7, <1>8, <1>9, <1>10,
     <1>11, <1>12, <1>13, <1>14, <1>15, <1>16 DEF Next

LEMMA StepPending ==
  TypeOK /\ RequestsOK /\ StatusMatchesDeletion /\ CompletionsPending /\
     [Next]_vars => CompletionsPending'
  <1> SUFFICES ASSUME TypeOK, RequestsOK, StatusMatchesDeletion,
     CompletionsPending, [Next]_vars PROVE CompletionsPending'
      OBVIOUS
  <1> USE DEF TypeOK, Media, FileStatus, Request, Steps, RequestsOK,
     FileSteps, StatusMatchesDeletion, CompletionsPending, Completing, NoRow
  <1>1. ASSUME NEW r \in Requests, NEW u \in Users, NEW f \in Files, NEW c \in Categories,
               CreateRow(r, u, f, c)
        PROVE CompletionsPending'
      BY <1>1 DEF CreateRow, Begin
  <1>2. ASSUME NEW r \in Requests, NEW f \in Files, CompleteRead(r, f)
        PROVE CompletionsPending'
      BY <1>2 DEF CompleteRead, Begin
  <1>3. ASSUME NEW r \in Requests, NEW f \in Files, DeleteRead(r, f)
        PROVE CompletionsPending'
      BY <1>3 DEF DeleteRead, Begin, Live
  <1>4. ASSUME NEW r \in Requests, NEW u \in Users, NEW f \in Files,
               LinkRead(r, u, f)
        PROVE CompletionsPending'
      BY <1>4 DEF LinkRead, Begin
  <1>5. ASSUME NEW r \in Requests, NEW u \in Users, LinkNothing(r, u)
        PROVE CompletionsPending'
      BY <1>5 DEF LinkNothing, Begin
  <1>6. ASSUME NEW r \in Requests, NEW u \in Users, PaymentRead(r, u)
        PROVE CompletionsPending'
      BY <1>6 DEF PaymentRead, Begin
  <1>7. ASSUME NEW r \in Requests, SignUrl(r) \/ Abort(r)
        PROVE CompletionsPending'
      BY <1>7 DEF SignUrl, End, Idle, Abort
  <1>8. ASSUME NEW r \in Requests, ProbeFound(r) PROVE CompletionsPending'
      BY <1>8 DEF ProbeFound, Proceed
  <1>9. ASSUME NEW r \in Requests, ProbeAbsent(r) PROVE CompletionsPending'
      BY <1>9 DEF ProbeAbsent, Proceed
  <1>10. ASSUME NEW r \in Requests, CompleteWrite(r)
         PROVE CompletionsPending'
      BY <1>10 DEF CompleteWrite, End, Idle, Cross
  <1>11. ASSUME NEW r \in Requests, DeleteWrite(r) PROVE CompletionsPending'
      BY <1>11 DEF DeleteWrite, End, Idle, Cross
  <1>12. ASSUME NEW r \in Requests, LinkWrite(r) \/ PaymentWrite(r)
         PROVE CompletionsPending'
      BY <1>12 DEF LinkWrite, End, Idle, PaymentWrite
  <1>13. ASSUME NEW f \in Files, ClientUpload(f) \/ UrlExpires(f)
         PROVE CompletionsPending'
      BY <1>13 DEF ClientUpload, UrlExpires
  <1>14. ASSUME NEW f \in Files, RemoveObject(f) \/ RemovalFails(f)
         PROVE CompletionsPending'
      BY <1>14 DEF RemoveObject, RemovalFails
  <1>15. CASE Restart
      BY <1>15 DEF Restart, Idle
  <1>16. CASE UNCHANGED vars
      BY <1>16 DEF vars
  <1> QED BY <1>1, <1>2, <1>3, <1>4, <1>5, <1>6, <1>7, <1>8, <1>9, <1>10,
     <1>11, <1>12, <1>13, <1>14, <1>15, <1>16 DEF Next

LEMMA StepStatus ==
  TypeOK /\ RequestsOK /\ StatusMatchesDeletion /\ CompletionsPending /\
     [Next]_vars => StatusMatchesDeletion'
  <1> SUFFICES ASSUME TypeOK, RequestsOK, StatusMatchesDeletion,
     CompletionsPending, [Next]_vars PROVE StatusMatchesDeletion'
      OBVIOUS
  <1> USE DEF TypeOK, Media, FileStatus, Request, Steps, RequestsOK,
     FileSteps, StatusMatchesDeletion, CompletionsPending, Completing, NoRow
  <1>1. ASSUME NEW r \in Requests, NEW u \in Users, NEW f \in Files, NEW c \in Categories,
               CreateRow(r, u, f, c)
        PROVE StatusMatchesDeletion'
      BY <1>1 DEF CreateRow, Begin
  <1>2. ASSUME NEW r \in Requests, NEW f \in Files, CompleteRead(r, f)
        PROVE StatusMatchesDeletion'
      BY <1>2 DEF CompleteRead, Begin
  <1>3. ASSUME NEW r \in Requests, NEW f \in Files, DeleteRead(r, f)
        PROVE StatusMatchesDeletion'
      BY <1>3 DEF DeleteRead, Begin, Live
  <1>4. ASSUME NEW r \in Requests, NEW u \in Users, NEW f \in Files,
               LinkRead(r, u, f)
        PROVE StatusMatchesDeletion'
      BY <1>4 DEF LinkRead, Begin
  <1>5. ASSUME NEW r \in Requests, NEW u \in Users, LinkNothing(r, u)
        PROVE StatusMatchesDeletion'
      BY <1>5 DEF LinkNothing, Begin
  <1>6. ASSUME NEW r \in Requests, NEW u \in Users, PaymentRead(r, u)
        PROVE StatusMatchesDeletion'
      BY <1>6 DEF PaymentRead, Begin
  <1>7. ASSUME NEW r \in Requests, SignUrl(r) \/ Abort(r)
        PROVE StatusMatchesDeletion'
      BY <1>7 DEF SignUrl, End, Idle, Abort
  <1>8. ASSUME NEW r \in Requests, ProbeFound(r) PROVE StatusMatchesDeletion'
      BY <1>8 DEF ProbeFound, Proceed
  <1>9. ASSUME NEW r \in Requests, ProbeAbsent(r)
        PROVE StatusMatchesDeletion'
      BY <1>9 DEF ProbeAbsent, Proceed
  <1>10. ASSUME NEW r \in Requests, CompleteWrite(r)
         PROVE StatusMatchesDeletion'
      BY <1>10 DEF CompleteWrite, End, Idle, Cross
  <1>11. ASSUME NEW r \in Requests, DeleteWrite(r)
         PROVE StatusMatchesDeletion'
      BY <1>11 DEF DeleteWrite, End, Idle, Cross
  <1>12. ASSUME NEW r \in Requests, LinkWrite(r) \/ PaymentWrite(r)
         PROVE StatusMatchesDeletion'
      BY <1>12 DEF LinkWrite, End, Idle, PaymentWrite
  <1>13. ASSUME NEW f \in Files, ClientUpload(f) \/ UrlExpires(f)
         PROVE StatusMatchesDeletion'
      BY <1>13 DEF ClientUpload, UrlExpires
  <1>14. ASSUME NEW f \in Files, RemoveObject(f) \/ RemovalFails(f)
         PROVE StatusMatchesDeletion'
      BY <1>14 DEF RemoveObject, RemovalFails
  <1>15. CASE Restart
      BY <1>15 DEF Restart, Idle
  <1>16. CASE UNCHANGED vars
      BY <1>16 DEF vars
  <1> QED BY <1>1, <1>2, <1>3, <1>4, <1>5, <1>6, <1>7, <1>8, <1>9, <1>10,
     <1>11, <1>12, <1>13, <1>14, <1>15, <1>16 DEF Next

LEMMA StepReferred ==
  TypeOK /\ RequestsOK /\ CompletionsPending /\ ReferredShown /\ [Next]_vars
     => ReferredShown'
  <1> SUFFICES ASSUME TypeOK, RequestsOK, CompletionsPending, ReferredShown,
     [Next]_vars PROVE ReferredShown'
      OBVIOUS
  <1> USE DEF TypeOK, Media, FileStatus, Request, Steps, RequestsOK,
     FileSteps, CompletionsPending, Completing, ReferredShown, Referred,
     Downloadable, Live, NoRow
  <1>1. ASSUME NEW r \in Requests, NEW u \in Users, NEW f \in Files, NEW c \in Categories,
               CreateRow(r, u, f, c)
        PROVE ReferredShown'
      BY <1>1 DEF CreateRow, Begin
  <1>2. ASSUME NEW r \in Requests, NEW f \in Files, CompleteRead(r, f)
        PROVE ReferredShown'
      BY <1>2 DEF CompleteRead, Begin
  <1>3. ASSUME NEW r \in Requests, NEW f \in Files, DeleteRead(r, f)
        PROVE ReferredShown'
      BY <1>3 DEF DeleteRead, Begin, Live
  <1>4. ASSUME NEW r \in Requests, NEW u \in Users, NEW f \in Files,
               LinkRead(r, u, f)
        PROVE ReferredShown'
      BY <1>4 DEF LinkRead, Begin
  <1>5. ASSUME NEW r \in Requests, NEW u \in Users, LinkNothing(r, u)
        PROVE ReferredShown'
      BY <1>5 DEF LinkNothing, Begin
  <1>6. ASSUME NEW r \in Requests, NEW u \in Users, PaymentRead(r, u)
        PROVE ReferredShown'
      BY <1>6 DEF PaymentRead, Begin
  <1>7. ASSUME NEW r \in Requests, SignUrl(r) \/ Abort(r)
        PROVE ReferredShown'
      BY <1>7 DEF SignUrl, End, Idle, Abort
  <1>8. ASSUME NEW r \in Requests, ProbeFound(r) PROVE ReferredShown'
      BY <1>8 DEF ProbeFound, Proceed
  <1>9. ASSUME NEW r \in Requests, ProbeAbsent(r) PROVE ReferredShown'
      BY <1>9 DEF ProbeAbsent, Proceed
  <1>10. ASSUME NEW r \in Requests, CompleteWrite(r) PROVE ReferredShown'
      BY <1>10 DEF CompleteWrite, End, Idle, Cross
  <1>11. ASSUME NEW r \in Requests, DeleteWrite(r) PROVE ReferredShown'
      BY <1>11 DEF DeleteWrite, End, Idle, Cross
  <1>12. ASSUME NEW r \in Requests, LinkWrite(r) \/ PaymentWrite(r)
         PROVE ReferredShown'
      BY <1>12 DEF LinkWrite, End, Idle, PaymentWrite
  <1>13. ASSUME NEW f \in Files, ClientUpload(f) \/ UrlExpires(f)
         PROVE ReferredShown'
      BY <1>13 DEF ClientUpload, UrlExpires
  <1>14. ASSUME NEW f \in Files, RemoveObject(f) \/ RemovalFails(f)
         PROVE ReferredShown'
      BY <1>14 DEF RemoveObject, RemovalFails
  <1>15. CASE Restart
      BY <1>15 DEF Restart, Idle
  <1>16. CASE UNCHANGED vars
      BY <1>16 DEF vars
  <1> QED BY <1>1, <1>2, <1>3, <1>4, <1>5, <1>6, <1>7, <1>8, <1>9, <1>10,
     <1>11, <1>12, <1>13, <1>14, <1>15, <1>16 DEF Next


LEMMA StepInv == UploadsInv /\ [Next]_vars => UploadsInv'
  <1> SUFFICES ASSUME UploadsInv, [Next]_vars PROVE UploadsInv'
      OBVIOUS
  <1> USE DEF UploadsInv
  <1>1. TypeOK' /\ RowsOK' /\ RequestsOK'
        BY StepTypes, StepRows, StepRequests
  <1>2. RemovalsFollowDeletion' /\ FoundIsStored' /\ ServedIsStored'
        BY StepRemovals, StepFound, StepServed
  <1>3. CompletionsPending' /\ StatusMatchesDeletion' /\ ReferredShown'
        BY StepPending, StepStatus, StepReferred
  <1> QED BY <1>1, <1>2, <1>3

(* The inductive invariant holds throughout every behaviour.               *)
THEOREM UploadsInvariant == Spec => []UploadsInv
  BY InitInv, StepInv, PTL DEF Spec

(* Every variable keeps its type.                                          *)
THEOREM TypesHold == Spec => []TypeOK
  <1>1. UploadsInv => TypeOK
        BY DEF UploadsInv
  <1> QED BY <1>1, UploadsInvariant, PTL

(* getFileUrl never serves a file whose bytes are not in the store.        *)
THEOREM ServedFilesStored == Spec => []ServedIsStored
  <1>1. UploadsInv => ServedIsStored
        BY DEF UploadsInv
  <1> QED BY <1>1, UploadsInvariant, PTL

(* Only an overtaken completion parts the status from deletedAt.           *)
THEOREM StatusFollowsDeletion == Spec => []StatusMatchesDeletion
  <1>1. UploadsInv => StatusMatchesDeletion
        BY DEF UploadsInv
  <1> QED BY <1>1, UploadsInvariant, PTL

(* Signatures in use, on users and on receipts, can be shown until their   *)
(* file is deleted.                                                        *)
THEOREM SignaturesStayShown == Spec => []SignaturesShown
  <1>1. UploadsInv => SignaturesShown
        BY DEF UploadsInv, ReferredShown, Referred, SignaturesShown
  <1> QED BY <1>1, UploadsInvariant, PTL

LEMMA ForwardStep == UploadsInv /\ UploadsInv' /\ [Next]_vars => MovesForward
  <1> SUFFICES ASSUME UploadsInv, [Next]_vars PROVE MovesForward
      OBVIOUS
  <1> USE DEF MovesForward, Forward, UploadsInv, TypeOK, Media, FileStatus, NoRow
  <1>1. ASSUME NEW r \in Requests, NEW u \in Users, NEW f \in Files, NEW c \in Categories,
               CreateRow(r, u, f, c)
        PROVE MovesForward
      BY <1>1 DEF CreateRow, Begin
  <1>2. ASSUME NEW r \in Requests, NEW f \in Files, CompleteRead(r, f)
        PROVE MovesForward
      BY <1>2 DEF CompleteRead, Begin
  <1>3. ASSUME NEW r \in Requests, NEW f \in Files, DeleteRead(r, f)
        PROVE MovesForward
      BY <1>3 DEF DeleteRead, Begin, Live
  <1>4. ASSUME NEW r \in Requests, NEW u \in Users, NEW f \in Files,
               LinkRead(r, u, f)
        PROVE MovesForward
      BY <1>4 DEF LinkRead, Begin
  <1>5. ASSUME NEW r \in Requests, NEW u \in Users, LinkNothing(r, u)
        PROVE MovesForward
      BY <1>5 DEF LinkNothing, Begin
  <1>6. ASSUME NEW r \in Requests, NEW u \in Users, PaymentRead(r, u)
        PROVE MovesForward
      BY <1>6 DEF PaymentRead, Begin
  <1>7. ASSUME NEW r \in Requests, SignUrl(r) \/ Abort(r) PROVE MovesForward
      BY <1>7 DEF SignUrl, End, Idle, Abort
  <1>8. ASSUME NEW r \in Requests, ProbeFound(r) PROVE MovesForward
      BY <1>8 DEF ProbeFound, Proceed
  <1>9. ASSUME NEW r \in Requests, ProbeAbsent(r) PROVE MovesForward
      BY <1>9 DEF ProbeAbsent, Proceed
  <1>10. ASSUME NEW r \in Requests, CompleteWrite(r) PROVE MovesForward
      BY <1>10 DEF CompleteWrite, End, Idle, Cross, CompletionsPending,
         Completing
  <1>11. ASSUME NEW r \in Requests, DeleteWrite(r) PROVE MovesForward
      BY <1>11 DEF DeleteWrite, End, Idle, Cross, RequestsOK, FileSteps,
         RowsOK
  <1>12. ASSUME NEW r \in Requests, LinkWrite(r) \/ PaymentWrite(r)
         PROVE MovesForward
      BY <1>12 DEF LinkWrite, End, Idle, PaymentWrite
  <1>13. ASSUME NEW f \in Files, ClientUpload(f) \/ UrlExpires(f)
         PROVE MovesForward
      BY <1>13 DEF ClientUpload, UrlExpires
  <1>14. ASSUME NEW f \in Files, RemoveObject(f) \/ RemovalFails(f)
         PROVE MovesForward
      BY <1>14 DEF RemoveObject, RemovalFails
  <1>15. CASE Restart
      BY <1>15 DEF Restart, Idle
  <1>16. CASE UNCHANGED vars
      BY <1>16 DEF vars
  <1> QED BY <1>1, <1>2, <1>3, <1>4, <1>5, <1>6, <1>7, <1>8, <1>9, <1>10,
     <1>11, <1>12, <1>13, <1>14, <1>15, <1>16 DEF Next

(* A row moves from PENDING towards DELETED and never back, crossed        *)
(* completions apart.                                                      *)
THEOREM RowsMoveForward == Spec => StatusMovesForward
  BY UploadsInvariant, ForwardStep, PTL DEF Spec, StatusMovesForward

=============================================================================
