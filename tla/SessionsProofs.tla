--------------------------- MODULE SessionsProofs ---------------------------
(* Proofs about accounts, sessions and password resets (Sessions.tla), for *)
(* every set of users, identifiers and concurrent requests and all bounds. *)
EXTENDS Sessions, FiniteSetTheorems, TLAPS

(* What a running request has read still stands: its user has an account,  *)
(* its record was inserted, and a transaction has locked what it closes.   *)
RequestsOK ==
    \A r \in Requests :
      /\ req[r].at \in AuthSteps \cup AskSteps \cup ResetSteps => req[r].user \in Users
      /\ req[r].at \in AskSteps \cup ResetSteps \cup {"leaving", "checking", "changing"}
           => account[req[r].user].exists
      /\ req[r].at \in VerifySteps \cup ResetSteps \cup {"mailing", "cleaning"} =>
           /\ req[r].record \in Records
           /\ record[req[r].record].state # "absent"
      /\ req[r].at \in ResetSteps =>
           \/ record[req[r].record].state = "deleted"
           \/ record[req[r].record].user = req[r].user
      /\ req[r].at = "committing" =>
           /\ req[r].record \in req[r].present
           /\ \A id \in req[r].present : record[id].state # "absent"

RecordsOK ==
    \A id \in Records : record[id].state \in {"open", "completed"} =>
      record[id].user \in Users /\ account[record[id].user].exists

AccountsOK == \A u \in Users : account[u].era <= account[u].version

(* A version, in a token or about to be signed, is at most the account's,  *)
(* and stands for the account's password when they are equal.              *)
Current(u, version, era) ==
    /\ version <= account[u].version
    /\ version = account[u].version => era = account[u].era

VersionsOK ==
    /\ \A t \in tokens : Current(t.user, t.version, t.era)
    /\ \A r \in Requests :
         /\ req[r].at = "signing" => Current(req[r].user, req[r].version, req[r].era)
         /\ req[r].at = "registering" => req[r].version = 0 /\ req[r].era = 0

SettledClosed == \A id \in settled : record[id].state \in {"completed", "deleted"}

(* Unless two resets held it together, a record has one holder, and none   *)
(* once it has changed a password; a used record is settled.               *)
SpendingOK ==
    \A id \in Records :
      /\ uses[id] > 0 => id \in settled
      /\ id \notin shared =>
           /\ \A g, h \in Holding(id) : g = h
           /\ uses[id] > 0 => Holding(id) = {}
           /\ uses[id] <= 1

(* Mistakes written and mistakes about to be written: whoever reads a count *)
(* below the limit is one of the requests, and there are only so many.     *)
Mistaking(id) ==
    {r \in Requests : req[r].record = id /\ req[r].at \in {"missing", "locking"}}

MistakesOK ==
    \A id \in Records :
      record[id].attempts + Cardinality(Mistaking(id))
        <= (MaxAttempts - 1) + Cardinality(Requests)

SessionsInv ==
    /\ TypeOK /\ RequestsOK /\ RecordsOK /\ AccountsOK /\ VersionsOK
    /\ AccountsDistinct /\ SettledClosed /\ OpenCodesSent /\ SpendingOK
    /\ MistakesOK

-----------------------------------------------------------------------------
LEMMA MistakesFinite ==
  /\ Cardinality(Requests) \in Nat
  /\ \A id : /\ IsFiniteSet(Mistaking(id))
             /\ Cardinality(Mistaking(id)) \in Nat
             /\ Cardinality(Mistaking(id)) <= Cardinality(Requests)
  <1>1. \A id : Mistaking(id) \in SUBSET Requests
      BY DEF Mistaking
  <1> QED BY <1>1, RequestsAssumption, FS_Subset, FS_CardinalityType

LEMMA InitInv == Init => SessionsInv
  <1> SUFFICES ASSUME Init PROVE SessionsInv
      OBVIOUS
  <1> USE DEF Init, Idle, NoRecord
  <1>1. AccountsTyped /\ RecordsTyped /\ RequestsTyped /\ HistoryTyped
      BY BoundsAssumption DEF AccountsTyped, RecordsTyped, RequestsTyped,
         HistoryTyped, Account, Token, Record, Request, AuthSteps, AskSteps,
         VerifySteps, ResetSteps
  <1>2. RequestsOK
      BY DEF RequestsOK, AuthSteps, AskSteps, VerifySteps, ResetSteps
  <1>3. RecordsOK /\ AccountsOK /\ VersionsOK /\ AccountsDistinct
      BY DEF RecordsOK, AccountsOK, VersionsOK, AccountsDistinct
  <1>4. SettledClosed /\ OpenCodesSent
      BY DEF SettledClosed, OpenCodesSent, Open
  <1>5. SpendingOK
      BY DEF SpendingOK, Holding, ResetSteps
  <1>6. RemovedEmpty
      BY DEF RemovedEmpty
  <1>7. MistakesOK
      BY MistakesFinite, BoundsAssumption DEF MistakesOK
  <1> QED BY <1>1, <1>2, <1>3, <1>4, <1>5, <1>6, <1>7 DEF SessionsInv, TypeOK

-----------------------------------------------------------------------------
(* What an update by id, or the closing of a set, leaves of a record.      *)
LEMMA JudgedKeeps ==
  ASSUME NEW rec \in Record, NEW step \in VerifySteps
  PROVE  /\ Judged(rec, step) \in Record
         /\ Judged(rec, step).user = rec.user
         /\ Judged(rec, step).state \in {rec.state, "completed"}
         /\ rec.state = "deleted" => Judged(rec, step) = rec
  <1>1. CASE rec.state = "deleted"
      BY <1>1 DEF Judged
  <1>2. CASE rec.state # "deleted" /\ step = "matching"
      BY <1>2 DEF Judged, Record
  <1>3. CASE rec.state # "deleted" /\ step = "limiting"
      BY <1>3 DEF Judged, Record
  <1>4. CASE rec.state # "deleted" /\ step = "missing"
      BY <1>4 DEF Judged, Record
  <1>5. CASE rec.state # "deleted" /\ step = "locking"
    <2>1. [rec EXCEPT !.attempts = @ + 1] \in Record
          BY DEF Record
    <2>2. \A x \in Record : [x EXCEPT !.state = "completed"] \in Record
          BY DEF Record
    <2>3. Judged(rec, step) = [[rec EXCEPT !.attempts = @ + 1] EXCEPT !.state = "completed"]
          BY <1>5 DEF Judged, Record
    <2> QED BY <1>5, <2>1, <2>2, <2>3 DEF Record
  <1> QED BY <1>1, <1>2, <1>3, <1>4, <1>5 DEF VerifySteps

(* A registration touches no holder of a record, and a reset that begins   *)
(* its transaction adds none.                                              *)
LEMMA RegisterHolds ==
  ASSUME TypeOK, NEW r \in Requests, RegisterInsert(r)
  PROVE  \A id \in Records : Holding(id)' = Holding(id)
  BY DEF Holding, RegisterInsert, Proceed, End, Idle, ResetSteps, TypeOK,
         RequestsTyped, Request

LEMMA ResetUpdateHolds ==
  ASSUME TypeOK, NEW r \in Requests, ResetUpdate(r)
  PROVE  \A id \in Records : Holding(id)' \subseteq Holding(id)
  <1>1. CASE record[req[r].record].state = "deleted"
      BY <1>1 DEF Holding, ResetUpdate, End, Idle, ResetSteps, TypeOK,
         RequestsTyped, Request
  <1>2. CASE record[req[r].record].state # "deleted"
      BY <1>2 DEF Holding, ResetUpdate, ResetSteps, TypeOK, RequestsTyped,
         Request
  <1> QED BY <1>1, <1>2

LEMMA SpendingKept ==
  ASSUME SpendingOK, UNCHANGED <<uses, settled, shared>>,
         \A id \in Records : Holding(id)' \subseteq Holding(id)
  PROVE  SpendingOK'
  BY DEF SpendingOK

LEMMA CompleteKeeps ==
  ASSUME RecordsTyped, NEW ids, Complete(ids)
  PROVE  /\ RecordsTyped'
         /\ \A id \in Records :
              record'[id] = record[id] \/ (Open(id) /\ record'[id].state = "completed")
  BY DEF RecordsTyped, Record, Complete, Open

LEMMA StepAccountsTyped ==
  AccountsTyped /\ RequestsTyped /\ RequestsOK /\ [Next]_vars =>
     AccountsTyped'
  <1> SUFFICES ASSUME AccountsTyped, RequestsTyped, RequestsOK, [Next]_vars
     PROVE AccountsTyped'
      OBVIOUS
  <1> USE DEF AccountsTyped, Account, Token, RequestsTyped, Request,
     RequestsOK, AuthSteps, AskSteps, VerifySteps, ResetSteps
  <1>1. ASSUME NEW r \in Requests, NEW u \in Users, RegisterRead(r, u)
        PROVE AccountsTyped'
      BY <1>1 DEF RegisterRead, Begin, Idle
  <1>2. ASSUME NEW r \in Requests, NEW u \in Users, LoginRead(r, u)
        PROVE AccountsTyped'
      BY <1>2 DEF LoginRead, Begin, Idle
  <1>3. ASSUME NEW r \in Requests, NEW t \in tokens, RefreshRead(r, t)
        PROVE AccountsTyped'
      BY <1>3 DEF RefreshRead, Begin, Idle, Valid
  <1>4. ASSUME NEW r \in Requests, NEW t \in tokens, NEW step \in {"leaving",
     "checking"},
               Authenticated(r, t, step)
        PROVE AccountsTyped'
      BY <1>4 DEF Authenticated, Begin, Idle, Valid
  <1>5. ASSUME NEW r \in Requests, NEW u \in Users, NEW i \in Identifiers,
               AskRead(r, u, i)
        PROVE AccountsTyped'
      BY <1>5 DEF AskRead, Begin, Idle
  <1>6. ASSUME NEW r \in Requests, NEW i \in Identifiers, NEW code \in Records
     \cup {0},
               VerifyRead(r, i, code)
        PROVE AccountsTyped'
      BY <1>6 DEF VerifyRead, Begin, Idle, Standing, Of, Existing, Open
  <1>7. ASSUME NEW r \in Requests, NEW id \in Records, ResetRead(r, id)
        PROVE AccountsTyped'
      BY <1>7 DEF ResetRead, Begin, Idle, Open
  <1>8. ASSUME NEW r \in Requests, RegisterInsert(r) PROVE AccountsTyped'
    <2>1. CASE Taken(req[r].user)
          BY <1>8, <2>1 DEF RegisterInsert
    <2>2. CASE ~Taken(req[r].user)
      <3>1. req[r].user \in Users
            BY <1>8 DEF RegisterInsert
      <3>2. /\ account' = [account EXCEPT ![req[r].user].exists = TRUE]
            /\ tokens' = tokens
            BY <1>8, <2>2 DEF RegisterInsert
      <3>3. \A a \in Account : [a EXCEPT !.exists = TRUE] \in Account
            OBVIOUS
      <3>4. account' = [account EXCEPT ![req[r].user] =
                          [account[req[r].user] EXCEPT !.exists = TRUE]]
            BY <3>2
      <3>5. account' \in [Users -> Account]
        <4> HIDE DEF Account
        <4> QED BY <3>1, <3>3, <3>4
      <3> QED BY <3>2, <3>5
    <2> QED BY <2>1, <2>2
  <1>9. ASSUME NEW r \in Requests, GenerateTokens(r) PROVE AccountsTyped'
      BY <1>9 DEF GenerateTokens, End, Idle
  <1>10. ASSUME NEW r \in Requests, LogoutWrite(r) PROVE AccountsTyped'
      BY <1>10 DEF LogoutWrite, End, Idle
  <1>11. ASSUME NEW r \in Requests, ChangeWrite(r) PROVE AccountsTyped'
      BY <1>11 DEF ChangeWrite, End, Idle
  <1>12. ASSUME NEW r \in Requests, NEW u \in Users, CheckPassword(r, u)
         PROVE AccountsTyped'
      BY <1>12 DEF CheckPassword, Idle
  <1>13. ASSUME NEW r \in Requests, AskSupersede(r) PROVE AccountsTyped'
      BY <1>13 DEF AskSupersede, Proceed, Complete, Of, Existing, Open
  <1>14. ASSUME NEW r \in Requests, AskCreate(r) PROVE AccountsTyped'
      BY <1>14 DEF AskCreate, NewRecord, NoRecord
  <1>15. ASSUME NEW r \in Requests, MailSent(r) PROVE AccountsTyped'
      BY <1>15 DEF MailSent, End, Idle
  <1>16. ASSUME NEW r \in Requests, MailFails(r) PROVE AccountsTyped'
      BY <1>16 DEF MailFails, Proceed
  <1>17. ASSUME NEW r \in Requests, DeleteRecord(r) PROVE AccountsTyped'
      BY <1>17 DEF DeleteRecord, End, Idle, NoRecord
  <1>18. ASSUME NEW r \in Requests, VerifyWrite(r) PROVE AccountsTyped'
      BY <1>18 DEF VerifyWrite, End, Idle, Judged, VerifySteps
  <1>19. ASSUME NEW r \in Requests, ResetUpdate(r) PROVE AccountsTyped'
      BY <1>19 DEF ResetUpdate, End, Idle, Existing
  <1>20. ASSUME NEW r \in Requests, ResetCommit(r) PROVE AccountsTyped'
      BY <1>20 DEF ResetCommit, End, Idle, Complete, Open
  <1>21. ASSUME NEW r \in Requests, Abort(r) PROVE AccountsTyped'
      BY <1>21 DEF Abort, End, Idle
  <1>22. ASSUME NEW id \in Records, GrowOlder(id) PROVE AccountsTyped'
      BY <1>22 DEF GrowOlder
  <1>23. CASE UNCHANGED vars
      BY <1>23 DEF vars
  <1> QED BY <1>1, <1>2, <1>3, <1>4, <1>5, <1>6, <1>7, <1>8, <1>9, <1>10,
     <1>11, <1>12, <1>13, <1>14, <1>15, <1>16, <1>17, <1>18, <1>19, <1>20,
     <1>21, <1>22, <1>23 DEF Next, Continue

LEMMA StepRecordsTyped ==
  RecordsTyped /\ RequestsTyped /\ RequestsOK /\ [Next]_vars => RecordsTyped'
  <1> SUFFICES ASSUME RecordsTyped, RequestsTyped, RequestsOK, [Next]_vars
     PROVE RecordsTyped'
      OBVIOUS
  <1> USE DEF RecordsTyped, Record, RequestsTyped, Request, NoRecord,
     RequestsOK
  <1>1. ASSUME NEW r \in Requests, NEW u \in Users, RegisterRead(r, u)
        PROVE RecordsTyped'
      BY <1>1 DEF RegisterRead, Begin, Idle
  <1>2. ASSUME NEW r \in Requests, NEW u \in Users, LoginRead(r, u)
        PROVE RecordsTyped'
      BY <1>2 DEF LoginRead, Begin, Idle
  <1>3. ASSUME NEW r \in Requests, NEW t \in tokens, RefreshRead(r, t)
        PROVE RecordsTyped'
      BY <1>3 DEF RefreshRead, Begin, Idle, Valid
  <1>4. ASSUME NEW r \in Requests, NEW t \in tokens, NEW step \in {"leaving",
     "checking"},
               Authenticated(r, t, step)
        PROVE RecordsTyped'
      BY <1>4 DEF Authenticated, Begin, Idle, Valid
  <1>5. ASSUME NEW r \in Requests, NEW u \in Users, NEW i \in Identifiers,
               AskRead(r, u, i)
        PROVE RecordsTyped'
      BY <1>5 DEF AskRead, Begin, Idle
  <1>6. ASSUME NEW r \in Requests, NEW i \in Identifiers, NEW code \in Records
     \cup {0},
               VerifyRead(r, i, code)
        PROVE RecordsTyped'
      BY <1>6 DEF VerifyRead, Begin, Idle, Standing, Of, Existing, Open
  <1>7. ASSUME NEW r \in Requests, NEW id \in Records, ResetRead(r, id)
        PROVE RecordsTyped'
      BY <1>7 DEF ResetRead, Begin, Idle, Open
  <1>8. ASSUME NEW r \in Requests, RegisterInsert(r) PROVE RecordsTyped'
    <2>1. CASE Taken(req[r].user)
        BY <1>8, <2>1 DEF RegisterInsert, End, Idle, Proceed
    <2>2. CASE ~Taken(req[r].user)
        BY <1>8, <2>2 DEF RegisterInsert, End, Idle, Proceed
    <2> QED BY <2>1, <2>2
  <1>9. ASSUME NEW r \in Requests, GenerateTokens(r) PROVE RecordsTyped'
      BY <1>9 DEF GenerateTokens, End, Idle
  <1>10. ASSUME NEW r \in Requests, LogoutWrite(r) PROVE RecordsTyped'
      BY <1>10 DEF LogoutWrite, End, Idle
  <1>11. ASSUME NEW r \in Requests, ChangeWrite(r) PROVE RecordsTyped'
      BY <1>11 DEF ChangeWrite, End, Idle
  <1>12. ASSUME NEW r \in Requests, NEW u \in Users, CheckPassword(r, u)
         PROVE RecordsTyped'
      BY <1>12 DEF CheckPassword, Idle
  <1>13. ASSUME NEW r \in Requests, AskSupersede(r) PROVE RecordsTyped'
      BY <1>13, CompleteKeeps DEF AskSupersede, Proceed, Of, Existing, Open
  <1>14. ASSUME NEW r \in Requests, AskCreate(r) PROVE RecordsTyped'
    <2>1. NewRecord(req[r].user, req[r].identifier) \in Record
          BY DEF NewRecord
    <2> QED BY <1>14, <2>1 DEF AskCreate
  <1>15. ASSUME NEW r \in Requests, MailSent(r) PROVE RecordsTyped'
      BY <1>15 DEF MailSent, End, Idle
  <1>16. ASSUME NEW r \in Requests, MailFails(r) PROVE RecordsTyped'
      BY <1>16 DEF MailFails, Proceed
  <1>17. ASSUME NEW r \in Requests, DeleteRecord(r) PROVE RecordsTyped'
      BY <1>17 DEF DeleteRecord, End, Idle, NoRecord
  <1>18. ASSUME NEW r \in Requests, VerifyWrite(r) PROVE RecordsTyped'
      BY <1>18, JudgedKeeps DEF VerifyWrite, End, Idle, VerifySteps
  <1>19. ASSUME NEW r \in Requests, ResetUpdate(r) PROVE RecordsTyped'
    <2>1. CASE record[req[r].record].state = "deleted"
        BY <1>19, <2>1 DEF ResetUpdate, End, Idle, Existing
    <2>2. CASE record[req[r].record].state # "deleted"
        BY <1>19, <2>2 DEF ResetUpdate, End, Idle, Existing
    <2> QED BY <2>1, <2>2
  <1>20. ASSUME NEW r \in Requests, ResetCommit(r) PROVE RecordsTyped'
      BY <1>20, CompleteKeeps DEF ResetCommit, End, Idle, Open
  <1>21. ASSUME NEW r \in Requests, Abort(r) PROVE RecordsTyped'
      BY <1>21 DEF Abort, End, Idle
  <1>22. ASSUME NEW id \in Records, GrowOlder(id) PROVE RecordsTyped'
    <2>1. \A rec \in Record : [rec EXCEPT !.recent = FALSE] \in Record
          OBVIOUS
    <2>2. record' = [record EXCEPT ![id] = [record[id] EXCEPT !.recent = FALSE]]
          BY <1>22 DEF GrowOlder
    <2> QED BY <2>1, <2>2
  <1>23. CASE UNCHANGED vars
      BY <1>23 DEF vars
  <1> QED BY <1>1, <1>2, <1>3, <1>4, <1>5, <1>6, <1>7, <1>8, <1>9, <1>10,
     <1>11, <1>12, <1>13, <1>14, <1>15, <1>16, <1>17, <1>18, <1>19, <1>20,
     <1>21, <1>22, <1>23 DEF Next, Continue

LEMMA StepRequestsTyped ==
  AccountsTyped /\ RecordsTyped /\ RequestsTyped /\ [Next]_vars =>
     RequestsTyped'
  <1> SUFFICES ASSUME AccountsTyped, RecordsTyped, RequestsTyped, [Next]_vars
     PROVE RequestsTyped'
      OBVIOUS
  <1> USE DEF AccountsTyped, Account, Token, RecordsTyped, Record,
     RequestsTyped, Request, AuthSteps, AskSteps, VerifySteps, ResetSteps
  <1>1. ASSUME NEW r \in Requests, NEW u \in Users, RegisterRead(r, u)
        PROVE RequestsTyped'
      BY <1>1 DEF RegisterRead, Begin, Idle
  <1>2. ASSUME NEW r \in Requests, NEW u \in Users, LoginRead(r, u)
        PROVE RequestsTyped'
      BY <1>2 DEF LoginRead, Begin, Idle
  <1>3. ASSUME NEW r \in Requests, NEW t \in tokens, RefreshRead(r, t)
        PROVE RequestsTyped'
      BY <1>3 DEF RefreshRead, Begin, Idle, Valid
  <1>4. ASSUME NEW r \in Requests, NEW t \in tokens, NEW step \in {"leaving",
     "checking"},
               Authenticated(r, t, step)
        PROVE RequestsTyped'
      BY <1>4 DEF Authenticated, Begin, Idle, Valid
  <1>5. ASSUME NEW r \in Requests, NEW u \in Users, NEW i \in Identifiers,
               AskRead(r, u, i)
        PROVE RequestsTyped'
      BY <1>5 DEF AskRead, Begin, Idle
  <1>6. ASSUME NEW r \in Requests, NEW i \in Identifiers, NEW code \in Records
     \cup {0},
               VerifyRead(r, i, code)
        PROVE RequestsTyped'
    <2>1. PICK id \in Records, at \in VerifySteps :
            req' = [req EXCEPT ![r] = [Idle EXCEPT !.record = id,
                                          !.user = record[id].user, !.at = at]]
          BY <1>6 DEF VerifyRead, Standing, Of, Existing, Begin
    <2>2. [Idle EXCEPT !.record = id, !.user = record[id].user, !.at = at] \in Request
          BY <2>1 DEF Idle
    <2> QED BY <2>1, <2>2
  <1>7. ASSUME NEW r \in Requests, NEW id \in Records, ResetRead(r, id)
        PROVE RequestsTyped'
      BY <1>7 DEF ResetRead, Begin, Idle, Open
  <1>8. ASSUME NEW r \in Requests, RegisterInsert(r) PROVE RequestsTyped'
    <2>1. CASE Taken(req[r].user)
        BY <1>8, <2>1 DEF RegisterInsert, End, Idle, Proceed
    <2>2. CASE ~Taken(req[r].user)
        BY <1>8, <2>2 DEF RegisterInsert, End, Idle, Proceed
    <2> QED BY <2>1, <2>2
  <1>9. ASSUME NEW r \in Requests, GenerateTokens(r) PROVE RequestsTyped'
      BY <1>9 DEF GenerateTokens, End, Idle
  <1>10. ASSUME NEW r \in Requests, LogoutWrite(r) PROVE RequestsTyped'
      BY <1>10 DEF LogoutWrite, End, Idle
  <1>11. ASSUME NEW r \in Requests, ChangeWrite(r) PROVE RequestsTyped'
      BY <1>11 DEF ChangeWrite, End, Idle
  <1>12. ASSUME NEW r \in Requests, NEW u \in Users, CheckPassword(r, u)
         PROVE RequestsTyped'
      BY <1>12 DEF CheckPassword, Idle
  <1>13. ASSUME NEW r \in Requests, AskSupersede(r) PROVE RequestsTyped'
      BY <1>13 DEF AskSupersede, Proceed, Complete, Of, Existing, Open
  <1>14. ASSUME NEW r \in Requests, AskCreate(r) PROVE RequestsTyped'
    <2>1. PICK id \in Records :
            req' = [req EXCEPT ![r].at = "mailing", ![r].record = id]
          BY <1>14 DEF AskCreate
    <2>2. \A q \in Request : [q EXCEPT !.at = "mailing", !.record = id] \in Request
          OBVIOUS
    <2>3. req' = [req EXCEPT ![r] = [req[r] EXCEPT !.at = "mailing", !.record = id]]
          BY <2>1
    <2> QED BY <2>2, <2>3
  <1>15. ASSUME NEW r \in Requests, MailSent(r) PROVE RequestsTyped'
      BY <1>15 DEF MailSent, End, Idle
  <1>16. ASSUME NEW r \in Requests, MailFails(r) PROVE RequestsTyped'
    <2>1. [req[r] EXCEPT !.at = "cleaning"] \in Request
          OBVIOUS
    <2>2. req' = [req EXCEPT ![r] = [req[r] EXCEPT !.at = "cleaning"]]
          BY <1>16 DEF MailFails, Proceed
    <2> QED BY <2>1, <2>2
  <1>17. ASSUME NEW r \in Requests, DeleteRecord(r) PROVE RequestsTyped'
      BY <1>17 DEF DeleteRecord, End, Idle, NoRecord
  <1>18. ASSUME NEW r \in Requests, VerifyWrite(r) PROVE RequestsTyped'
      BY <1>18 DEF VerifyWrite, End, Idle, Judged, VerifySteps
  <1>19. ASSUME NEW r \in Requests, ResetUpdate(r) PROVE RequestsTyped'
      BY <1>19 DEF ResetUpdate, End, Idle, Existing
  <1>20. ASSUME NEW r \in Requests, ResetCommit(r) PROVE RequestsTyped'
      BY <1>20 DEF ResetCommit, End, Idle, Complete, Open
  <1>21. ASSUME NEW r \in Requests, Abort(r) PROVE RequestsTyped'
      BY <1>21 DEF Abort, End, Idle
  <1>22. ASSUME NEW id \in Records, GrowOlder(id) PROVE RequestsTyped'
      BY <1>22 DEF GrowOlder
  <1>23. CASE UNCHANGED vars
      BY <1>23 DEF vars
  <1> QED BY <1>1, <1>2, <1>3, <1>4, <1>5, <1>6, <1>7, <1>8, <1>9, <1>10,
     <1>11, <1>12, <1>13, <1>14, <1>15, <1>16, <1>17, <1>18, <1>19, <1>20,
     <1>21, <1>22, <1>23 DEF Next, Continue

LEMMA StepHistoryTyped ==
  RequestsTyped /\ RequestsOK /\ HistoryTyped /\ [Next]_vars => HistoryTyped'
  <1> SUFFICES ASSUME RequestsTyped, RequestsOK, HistoryTyped, [Next]_vars
     PROVE HistoryTyped'
      OBVIOUS
  <1> USE DEF RequestsTyped, Request, HistoryTyped, RequestsOK, AuthSteps,
     AskSteps, VerifySteps, ResetSteps
  <1>1. ASSUME NEW r \in Requests, NEW u \in Users, RegisterRead(r, u)
        PROVE HistoryTyped'
      BY <1>1, BoundsAssumption DEF RegisterRead, Begin, Idle
  <1>2. ASSUME NEW r \in Requests, NEW u \in Users, LoginRead(r, u)
        PROVE HistoryTyped'
      BY <1>2, BoundsAssumption DEF LoginRead, Begin, Idle
  <1>3. ASSUME NEW r \in Requests, NEW t \in tokens, RefreshRead(r, t)
        PROVE HistoryTyped'
      BY <1>3, BoundsAssumption DEF RefreshRead, Begin, Idle, Valid
  <1>4. ASSUME NEW r \in Requests, NEW t \in tokens, NEW step \in {"leaving",
     "checking"},
               Authenticated(r, t, step)
        PROVE HistoryTyped'
      BY <1>4, BoundsAssumption DEF Authenticated, Begin, Idle, Valid
  <1>5. ASSUME NEW r \in Requests, NEW u \in Users, NEW i \in Identifiers,
               AskRead(r, u, i)
        PROVE HistoryTyped'
      BY <1>5, BoundsAssumption DEF AskRead, Begin, Idle
  <1>6. ASSUME NEW r \in Requests, NEW i \in Identifiers, NEW code \in Records
     \cup {0},
               VerifyRead(r, i, code)
        PROVE HistoryTyped'
      BY <1>6, BoundsAssumption DEF VerifyRead, Begin, Idle, Standing, Of,
         Existing, Open
  <1>7. ASSUME NEW r \in Requests, NEW id \in Records, ResetRead(r, id)
        PROVE HistoryTyped'
      BY <1>7, BoundsAssumption DEF ResetRead, Begin, Idle, Open
  <1>8. ASSUME NEW r \in Requests, RegisterInsert(r) PROVE HistoryTyped'
      BY <1>8, BoundsAssumption DEF RegisterInsert, End, Idle, Proceed
  <1>9. ASSUME NEW r \in Requests, GenerateTokens(r) PROVE HistoryTyped'
      BY <1>9, BoundsAssumption DEF GenerateTokens, End, Idle
  <1>10. ASSUME NEW r \in Requests, LogoutWrite(r) PROVE HistoryTyped'
      BY <1>10, BoundsAssumption DEF LogoutWrite, End, Idle
  <1>11. ASSUME NEW r \in Requests, ChangeWrite(r) PROVE HistoryTyped'
      BY <1>11, BoundsAssumption DEF ChangeWrite, End, Idle
  <1>12. ASSUME NEW r \in Requests, NEW u \in Users, CheckPassword(r, u)
         PROVE HistoryTyped'
      BY <1>12, BoundsAssumption DEF CheckPassword, Idle
  <1>13. ASSUME NEW r \in Requests, AskSupersede(r) PROVE HistoryTyped'
      BY <1>13, BoundsAssumption DEF AskSupersede, Proceed, Complete, Of,
         Existing, Open
  <1>14. ASSUME NEW r \in Requests, AskCreate(r) PROVE HistoryTyped'
      BY <1>14, BoundsAssumption DEF AskCreate, NewRecord, NoRecord
  <1>15. ASSUME NEW r \in Requests, MailSent(r) PROVE HistoryTyped'
      BY <1>15, BoundsAssumption DEF MailSent, End, Idle
  <1>16. ASSUME NEW r \in Requests, MailFails(r) PROVE HistoryTyped'
      BY <1>16, BoundsAssumption DEF MailFails, Proceed
  <1>17. ASSUME NEW r \in Requests, DeleteRecord(r) PROVE HistoryTyped'
      BY <1>17, BoundsAssumption DEF DeleteRecord, End, Idle, NoRecord
  <1>18. ASSUME NEW r \in Requests, VerifyWrite(r) PROVE HistoryTyped'
      BY <1>18, BoundsAssumption DEF VerifyWrite, End, Idle, Judged,
         VerifySteps
  <1>19. ASSUME NEW r \in Requests, ResetUpdate(r) PROVE HistoryTyped'
      BY <1>19, BoundsAssumption DEF ResetUpdate, End, Idle, Existing
  <1>20. ASSUME NEW r \in Requests, ResetCommit(r) PROVE HistoryTyped'
      BY <1>20, BoundsAssumption DEF ResetCommit, End, Idle, Complete, Open
  <1>21. ASSUME NEW r \in Requests, Abort(r) PROVE HistoryTyped'
      BY <1>21, BoundsAssumption DEF Abort, End, Idle
  <1>22. ASSUME NEW id \in Records, GrowOlder(id) PROVE HistoryTyped'
      BY <1>22, BoundsAssumption DEF GrowOlder
  <1>23. CASE UNCHANGED vars
      BY <1>23 DEF vars
  <1> QED BY <1>1, <1>2, <1>3, <1>4, <1>5, <1>6, <1>7, <1>8, <1>9, <1>10,
     <1>11, <1>12, <1>13, <1>14, <1>15, <1>16, <1>17, <1>18, <1>19, <1>20,
     <1>21, <1>22, <1>23 DEF Next, Continue

LEMMA StepRemoved ==
  RecordsTyped /\ RequestsTyped /\ RequestsOK /\ RemovedEmpty /\ [Next]_vars
     => RemovedEmpty'
  <1> SUFFICES ASSUME RecordsTyped, RequestsTyped, RequestsOK, RemovedEmpty,
     [Next]_vars PROVE RemovedEmpty'
      OBVIOUS
  <1> USE DEF RecordsTyped, Record, RequestsTyped, Request, NoRecord,
     RemovedEmpty, RequestsOK, AuthSteps, AskSteps, VerifySteps, ResetSteps
  <1>1. ASSUME NEW r \in Requests, NEW u \in Users, RegisterRead(r, u)
        PROVE RemovedEmpty'
      BY <1>1 DEF RegisterRead, Begin, Idle
  <1>2. ASSUME NEW r \in Requests, NEW u \in Users, LoginRead(r, u)
        PROVE RemovedEmpty'
      BY <1>2 DEF LoginRead, Begin, Idle
  <1>3. ASSUME NEW r \in Requests, NEW t \in tokens, RefreshRead(r, t)
        PROVE RemovedEmpty'
      BY <1>3 DEF RefreshRead, Begin, Idle, Valid
  <1>4. ASSUME NEW r \in Requests, NEW t \in tokens, NEW step \in {"leaving",
     "checking"},
               Authenticated(r, t, step)
        PROVE RemovedEmpty'
      BY <1>4 DEF Authenticated, Begin, Idle, Valid
  <1>5. ASSUME NEW r \in Requests, NEW u \in Users, NEW i \in Identifiers,
               AskRead(r, u, i)
        PROVE RemovedEmpty'
      BY <1>5 DEF AskRead, Begin, Idle
  <1>6. ASSUME NEW r \in Requests, NEW i \in Identifiers, NEW code \in Records
     \cup {0},
               VerifyRead(r, i, code)
        PROVE RemovedEmpty'
      BY <1>6 DEF VerifyRead, Begin, Idle, Standing, Of, Existing, Open
  <1>7. ASSUME NEW r \in Requests, NEW id \in Records, ResetRead(r, id)
        PROVE RemovedEmpty'
      BY <1>7 DEF ResetRead, Begin, Idle, Open
  <1>8. ASSUME NEW r \in Requests, RegisterInsert(r) PROVE RemovedEmpty'
    <2>1. CASE Taken(req[r].user)
        BY <1>8, <2>1 DEF RegisterInsert, End, Idle, Proceed
    <2>2. CASE ~Taken(req[r].user)
        BY <1>8, <2>2 DEF RegisterInsert, End, Idle, Proceed
    <2> QED BY <2>1, <2>2
  <1>9. ASSUME NEW r \in Requests, GenerateTokens(r) PROVE RemovedEmpty'
      BY <1>9 DEF GenerateTokens, End, Idle
  <1>10. ASSUME NEW r \in Requests, LogoutWrite(r) PROVE RemovedEmpty'
      BY <1>10 DEF LogoutWrite, End, Idle
  <1>11. ASSUME NEW r \in Requests, ChangeWrite(r) PROVE RemovedEmpty'
      BY <1>11 DEF ChangeWrite, End, Idle
  <1>12. ASSUME NEW r \in Requests, NEW u \in Users, CheckPassword(r, u)
         PROVE RemovedEmpty'
      BY <1>12 DEF CheckPassword, Idle
  <1>13. ASSUME NEW r \in Requests, AskSupersede(r) PROVE RemovedEmpty'
      BY <1>13, CompleteKeeps DEF AskSupersede, Proceed, Of, Existing, Open
  <1>14. ASSUME NEW r \in Requests, AskCreate(r) PROVE RemovedEmpty'
      BY <1>14 DEF AskCreate, NewRecord, NoRecord
  <1>15. ASSUME NEW r \in Requests, MailSent(r) PROVE RemovedEmpty'
      BY <1>15 DEF MailSent, End, Idle
  <1>16. ASSUME NEW r \in Requests, MailFails(r) PROVE RemovedEmpty'
      BY <1>16 DEF MailFails, Proceed
  <1>17. ASSUME NEW r \in Requests, DeleteRecord(r) PROVE RemovedEmpty'
      BY <1>17 DEF DeleteRecord, End, Idle, NoRecord
  <1>18. ASSUME NEW r \in Requests, VerifyWrite(r) PROVE RemovedEmpty'
      BY <1>18, JudgedKeeps DEF VerifyWrite, End, Idle, VerifySteps
  <1>19. ASSUME NEW r \in Requests, ResetUpdate(r) PROVE RemovedEmpty'
    <2>1. CASE record[req[r].record].state = "deleted"
        BY <1>19, <2>1 DEF ResetUpdate, End, Idle, Existing
    <2>2. CASE record[req[r].record].state # "deleted"
        BY <1>19, <2>2 DEF ResetUpdate, End, Idle, Existing
    <2> QED BY <2>1, <2>2
  <1>20. ASSUME NEW r \in Requests, ResetCommit(r) PROVE RemovedEmpty'
      BY <1>20, CompleteKeeps DEF ResetCommit, End, Idle, Open
  <1>21. ASSUME NEW r \in Requests, Abort(r) PROVE RemovedEmpty'
      BY <1>21 DEF Abort, End, Idle
  <1>22. ASSUME NEW id \in Records, GrowOlder(id) PROVE RemovedEmpty'
      BY <1>22 DEF GrowOlder
  <1>23. CASE UNCHANGED vars
      BY <1>23 DEF vars
  <1> HIDE DEF RecordsTyped, Record, RequestsTyped, Request, NoRecord,
     RemovedEmpty, RequestsOK, AuthSteps, AskSteps, VerifySteps, ResetSteps
  <1> QED BY <1>1, <1>2, <1>3, <1>4, <1>5, <1>6, <1>7, <1>8, <1>9, <1>10,
     <1>11, <1>12, <1>13, <1>14, <1>15, <1>16, <1>17, <1>18, <1>19, <1>20,
     <1>21, <1>22, <1>23 DEF Next, Continue

LEMMA StepRequests ==
  TypeOK /\ RequestsOK /\ RecordsOK /\ [Next]_vars => RequestsOK'
  <1> SUFFICES ASSUME TypeOK, RequestsOK, RecordsOK, [Next]_vars PROVE
     RequestsOK'
      OBVIOUS
  <1> USE DEF TypeOK, AccountsTyped, Account, Token, RecordsTyped, Record,
     RequestsTyped, Request, HistoryTyped, NoRecord, RequestsOK, AuthSteps,
     AskSteps, VerifySteps, ResetSteps, RecordsOK
  <1>1. ASSUME NEW r \in Requests, NEW u \in Users, RegisterRead(r, u)
        PROVE RequestsOK'
      BY <1>1 DEF RegisterRead, Begin, Idle
  <1>2. ASSUME NEW r \in Requests, NEW u \in Users, LoginRead(r, u)
        PROVE RequestsOK'
      BY <1>2 DEF LoginRead, Begin, Idle
  <1>3. ASSUME NEW r \in Requests, NEW t \in tokens, RefreshRead(r, t)
        PROVE RequestsOK'
      BY <1>3 DEF RefreshRead, Begin, Idle, Valid
  <1>4. ASSUME NEW r \in Requests, NEW t \in tokens, NEW step \in {"leaving",
     "checking"},
               Authenticated(r, t, step)
        PROVE RequestsOK'
      BY <1>4 DEF Authenticated, Begin, Idle, Valid
  <1>5. ASSUME NEW r \in Requests, NEW u \in Users, NEW i \in Identifiers,
               AskRead(r, u, i)
        PROVE RequestsOK'
      BY <1>5 DEF AskRead, Begin, Idle
  <1>6. ASSUME NEW r \in Requests, NEW i \in Identifiers, NEW code \in Records
     \cup {0},
               VerifyRead(r, i, code)
        PROVE RequestsOK'
      BY <1>6 DEF VerifyRead, Begin, Idle, Standing, Of, Existing, Open
  <1>7. ASSUME NEW r \in Requests, NEW id \in Records, ResetRead(r, id)
        PROVE RequestsOK'
      BY <1>7 DEF ResetRead, Begin, Idle, Open
  <1>8. ASSUME NEW r \in Requests, RegisterInsert(r) PROVE RequestsOK'
    <2>1. CASE Taken(req[r].user)
        BY <1>8, <2>1, SMTT(30) DEF RegisterInsert, End, Idle, Proceed
    <2>2. CASE ~Taken(req[r].user)
        BY <1>8, <2>2, SMTT(30) DEF RegisterInsert, End, Idle, Proceed
    <2> QED BY <2>1, <2>2
  <1>9. ASSUME NEW r \in Requests, GenerateTokens(r) PROVE RequestsOK'
      BY <1>9 DEF GenerateTokens, End, Idle
  <1>10. ASSUME NEW r \in Requests, LogoutWrite(r) PROVE RequestsOK'
      BY <1>10 DEF LogoutWrite, End, Idle
  <1>11. ASSUME NEW r \in Requests, ChangeWrite(r) PROVE RequestsOK'
      BY <1>11 DEF ChangeWrite, End, Idle
  <1>12. ASSUME NEW r \in Requests, NEW u \in Users, CheckPassword(r, u)
         PROVE RequestsOK'
      BY <1>12 DEF CheckPassword, Idle
  <1>13. ASSUME NEW r \in Requests, AskSupersede(r) PROVE RequestsOK'
      BY <1>13 DEF AskSupersede, Proceed, Complete, Of, Existing, Open
  <1>14. ASSUME NEW r \in Requests, AskCreate(r) PROVE RequestsOK'
      BY <1>14 DEF AskCreate, NewRecord, NoRecord
  <1>15. ASSUME NEW r \in Requests, MailSent(r) PROVE RequestsOK'
      BY <1>15 DEF MailSent, End, Idle
  <1>16. ASSUME NEW r \in Requests, MailFails(r) PROVE RequestsOK'
      BY <1>16 DEF MailFails, Proceed
  <1>17. ASSUME NEW r \in Requests, DeleteRecord(r) PROVE RequestsOK'
      BY <1>17 DEF DeleteRecord, End, Idle, NoRecord, Locked
  <1>18. ASSUME NEW r \in Requests, VerifyWrite(r) PROVE RequestsOK'
      BY <1>18, JudgedKeeps DEF VerifyWrite, End, Idle, VerifySteps
  <1>19. ASSUME NEW r \in Requests, ResetUpdate(r) PROVE RequestsOK'
    <2>1. CASE record[req[r].record].state = "deleted"
        BY <1>19, <2>1, SMTT(30) DEF ResetUpdate, End, Idle, Existing
    <2>2. CASE record[req[r].record].state # "deleted"
        BY <1>19, <2>2, SMTT(30) DEF ResetUpdate, End, Idle, Existing
    <2> QED BY <2>1, <2>2
  <1>20. ASSUME NEW r \in Requests, ResetCommit(r) PROVE RequestsOK'
      BY <1>20 DEF ResetCommit, End, Idle, Complete, Open
  <1>21. ASSUME NEW r \in Requests, Abort(r) PROVE RequestsOK'
      BY <1>21 DEF Abort, End, Idle
  <1>22. ASSUME NEW id \in Records, GrowOlder(id) PROVE RequestsOK'
      BY <1>22 DEF GrowOlder
  <1>23. CASE UNCHANGED vars
      BY <1>23 DEF vars
  <1> HIDE DEF TypeOK, AccountsTyped, Account, Token, RecordsTyped, Record,
     RequestsTyped, Request, HistoryTyped, NoRecord, RequestsOK, AuthSteps,
     AskSteps, VerifySteps, ResetSteps, RecordsOK
  <1> QED BY <1>1, <1>2, <1>3, <1>4, <1>5, <1>6, <1>7, <1>8, <1>9, <1>10,
     <1>11, <1>12, <1>13, <1>14, <1>15, <1>16, <1>17, <1>18, <1>19, <1>20,
     <1>21, <1>22, <1>23 DEF Next, Continue

LEMMA StepRecords ==
  TypeOK /\ RequestsOK /\ RecordsOK /\ [Next]_vars => RecordsOK'
  <1> SUFFICES ASSUME TypeOK, RequestsOK, RecordsOK, [Next]_vars PROVE
     RecordsOK'
      OBVIOUS
  <1> USE DEF TypeOK, AccountsTyped, Account, Token, RecordsTyped, Record,
     RequestsTyped, Request, HistoryTyped, NoRecord, RequestsOK, AuthSteps,
     AskSteps, VerifySteps, ResetSteps, RecordsOK
  <1>1. ASSUME NEW r \in Requests, NEW u \in Users, RegisterRead(r, u)
        PROVE RecordsOK'
      BY <1>1 DEF RegisterRead, Begin, Idle
  <1>2. ASSUME NEW r \in Requests, NEW u \in Users, LoginRead(r, u)
        PROVE RecordsOK'
      BY <1>2 DEF LoginRead, Begin, Idle
  <1>3. ASSUME NEW r \in Requests, NEW t \in tokens, RefreshRead(r, t)
        PROVE RecordsOK'
      BY <1>3 DEF RefreshRead, Begin, Idle, Valid
  <1>4. ASSUME NEW r \in Requests, NEW t \in tokens, NEW step \in {"leaving",
     "checking"},
               Authenticated(r, t, step)
        PROVE RecordsOK'
      BY <1>4 DEF Authenticated, Begin, Idle, Valid
  <1>5. ASSUME NEW r \in Requests, NEW u \in Users, NEW i \in Identifiers,
               AskRead(r, u, i)
        PROVE RecordsOK'
      BY <1>5 DEF AskRead, Begin, Idle
  <1>6. ASSUME NEW r \in Requests, NEW i \in Identifiers, NEW code \in Records
     \cup {0},
               VerifyRead(r, i, code)
        PROVE RecordsOK'
      BY <1>6 DEF VerifyRead, Begin, Idle, Standing, Of, Existing, Open
  <1>7. ASSUME NEW r \in Requests, NEW id \in Records, ResetRead(r, id)
        PROVE RecordsOK'
      BY <1>7 DEF ResetRead, Begin, Idle, Open
  <1>8. ASSUME NEW r \in Requests, RegisterInsert(r) PROVE RecordsOK'
      BY <1>8 DEF RegisterInsert, End, Idle, Proceed
  <1>9. ASSUME NEW r \in Requests, GenerateTokens(r) PROVE RecordsOK'
      BY <1>9 DEF GenerateTokens, End, Idle
  <1>10. ASSUME NEW r \in Requests, LogoutWrite(r) PROVE RecordsOK'
      BY <1>10 DEF LogoutWrite, End, Idle
  <1>11. ASSUME NEW r \in Requests, ChangeWrite(r) PROVE RecordsOK'
      BY <1>11 DEF ChangeWrite, End, Idle
  <1>12. ASSUME NEW r \in Requests, NEW u \in Users, CheckPassword(r, u)
         PROVE RecordsOK'
      BY <1>12 DEF CheckPassword, Idle
  <1>13. ASSUME NEW r \in Requests, AskSupersede(r) PROVE RecordsOK'
      BY <1>13 DEF AskSupersede, Proceed, Complete, Of, Existing, Open
  <1>14. ASSUME NEW r \in Requests, AskCreate(r) PROVE RecordsOK'
      BY <1>14 DEF AskCreate, NewRecord, NoRecord
  <1>15. ASSUME NEW r \in Requests, MailSent(r) PROVE RecordsOK'
      BY <1>15 DEF MailSent, End, Idle
  <1>16. ASSUME NEW r \in Requests, MailFails(r) PROVE RecordsOK'
      BY <1>16 DEF MailFails, Proceed
  <1>17. ASSUME NEW r \in Requests, DeleteRecord(r) PROVE RecordsOK'
      BY <1>17 DEF DeleteRecord, End, Idle, NoRecord
  <1>18. ASSUME NEW r \in Requests, VerifyWrite(r) PROVE RecordsOK'
      BY <1>18, JudgedKeeps DEF VerifyWrite, End, Idle, VerifySteps
  <1>19. ASSUME NEW r \in Requests, ResetUpdate(r) PROVE RecordsOK'
      BY <1>19 DEF ResetUpdate, End, Idle, Existing
  <1>20. ASSUME NEW r \in Requests, ResetCommit(r) PROVE RecordsOK'
      BY <1>20 DEF ResetCommit, End, Idle, Complete, Open
  <1>21. ASSUME NEW r \in Requests, Abort(r) PROVE RecordsOK'
      BY <1>21 DEF Abort, End, Idle
  <1>22. ASSUME NEW id \in Records, GrowOlder(id) PROVE RecordsOK'
      BY <1>22 DEF GrowOlder
  <1>23. CASE UNCHANGED vars
      BY <1>23 DEF vars
  <1> QED BY <1>1, <1>2, <1>3, <1>4, <1>5, <1>6, <1>7, <1>8, <1>9, <1>10,
     <1>11, <1>12, <1>13, <1>14, <1>15, <1>16, <1>17, <1>18, <1>19, <1>20,
     <1>21, <1>22, <1>23 DEF Next, Continue

LEMMA StepAccounts ==
  TypeOK /\ RequestsOK /\ AccountsOK /\ [Next]_vars => AccountsOK'
  <1> SUFFICES ASSUME TypeOK, RequestsOK, AccountsOK, [Next]_vars PROVE
     AccountsOK'
      OBVIOUS
  <1> USE DEF TypeOK, AccountsTyped, Account, Token, RecordsTyped, Record,
     RequestsTyped, Request, HistoryTyped, RequestsOK, AuthSteps, AskSteps,
     VerifySteps, ResetSteps, AccountsOK
  <1>1. ASSUME NEW r \in Requests, NEW u \in Users, RegisterRead(r, u)
        PROVE AccountsOK'
      BY <1>1 DEF RegisterRead, Begin, Idle
  <1>2. ASSUME NEW r \in Requests, NEW u \in Users, LoginRead(r, u)
        PROVE AccountsOK'
      BY <1>2 DEF LoginRead, Begin, Idle
  <1>3. ASSUME NEW r \in Requests, NEW t \in tokens, RefreshRead(r, t)
        PROVE AccountsOK'
      BY <1>3 DEF RefreshRead, Begin, Idle, Valid
  <1>4. ASSUME NEW r \in Requests, NEW t \in tokens, NEW step \in {"leaving",
     "checking"},
               Authenticated(r, t, step)
        PROVE AccountsOK'
      BY <1>4 DEF Authenticated, Begin, Idle, Valid
  <1>5. ASSUME NEW r \in Requests, NEW u \in Users, NEW i \in Identifiers,
               AskRead(r, u, i)
        PROVE AccountsOK'
      BY <1>5 DEF AskRead, Begin, Idle
  <1>6. ASSUME NEW r \in Requests, NEW i \in Identifiers, NEW code \in Records
     \cup {0},
               VerifyRead(r, i, code)
        PROVE AccountsOK'
      BY <1>6 DEF VerifyRead, Begin, Idle, Standing, Of, Existing, Open
  <1>7. ASSUME NEW r \in Requests, NEW id \in Records, ResetRead(r, id)
        PROVE AccountsOK'
      BY <1>7 DEF ResetRead, Begin, Idle, Open
  <1>8. ASSUME NEW r \in Requests, RegisterInsert(r) PROVE AccountsOK'
    <2>1. CASE Taken(req[r].user)
          BY <1>8, <2>1 DEF RegisterInsert
    <2>2. CASE ~Taken(req[r].user)
      <3>1. account' = [account EXCEPT ![req[r].user].exists = TRUE]
            BY <1>8, <2>2 DEF RegisterInsert
      <3>2. \A u \in Users : /\ account'[u].version = account[u].version
                            /\ account'[u].era = account[u].era
            BY <3>1
      <3> QED BY <3>2
    <2> QED BY <2>1, <2>2
  <1>9. ASSUME NEW r \in Requests, GenerateTokens(r) PROVE AccountsOK'
      BY <1>9 DEF GenerateTokens, End, Idle
  <1>10. ASSUME NEW r \in Requests, LogoutWrite(r) PROVE AccountsOK'
      BY <1>10 DEF LogoutWrite, End, Idle
  <1>11. ASSUME NEW r \in Requests, ChangeWrite(r) PROVE AccountsOK'
      BY <1>11 DEF ChangeWrite, End, Idle
  <1>12. ASSUME NEW r \in Requests, NEW u \in Users, CheckPassword(r, u)
         PROVE AccountsOK'
      BY <1>12 DEF CheckPassword, Idle
  <1>13. ASSUME NEW r \in Requests, AskSupersede(r) PROVE AccountsOK'
      BY <1>13 DEF AskSupersede, Proceed, Complete, Of, Existing, Open
  <1>14. ASSUME NEW r \in Requests, AskCreate(r) PROVE AccountsOK'
      BY <1>14 DEF AskCreate, NewRecord, NoRecord
  <1>15. ASSUME NEW r \in Requests, MailSent(r) PROVE AccountsOK'
      BY <1>15 DEF MailSent, End, Idle
  <1>16. ASSUME NEW r \in Requests, MailFails(r) PROVE AccountsOK'
      BY <1>16 DEF MailFails, Proceed
  <1>17. ASSUME NEW r \in Requests, DeleteRecord(r) PROVE AccountsOK'
      BY <1>17 DEF DeleteRecord, End, Idle, NoRecord
  <1>18. ASSUME NEW r \in Requests, VerifyWrite(r) PROVE AccountsOK'
      BY <1>18 DEF VerifyWrite, End, Idle, Judged, VerifySteps
  <1>19. ASSUME NEW r \in Requests, ResetUpdate(r) PROVE AccountsOK'
      BY <1>19 DEF ResetUpdate, End, Idle, Existing
  <1>20. ASSUME NEW r \in Requests, ResetCommit(r) PROVE AccountsOK'
      BY <1>20 DEF ResetCommit, End, Idle, Complete, Open
  <1>21. ASSUME NEW r \in Requests, Abort(r) PROVE AccountsOK'
      BY <1>21 DEF Abort, End, Idle
  <1>22. ASSUME NEW id \in Records, GrowOlder(id) PROVE AccountsOK'
      BY <1>22 DEF GrowOlder
  <1>23. CASE UNCHANGED vars
      BY <1>23 DEF vars
  <1> QED BY <1>1, <1>2, <1>3, <1>4, <1>5, <1>6, <1>7, <1>8, <1>9, <1>10,
     <1>11, <1>12, <1>13, <1>14, <1>15, <1>16, <1>17, <1>18, <1>19, <1>20,
     <1>21, <1>22, <1>23 DEF Next, Continue

(* Whoever signs or registers after a step was at it before.               *)
SignersKept ==
    \A g \in Requests : req'[g].at \in {"signing", "registering"} => req'[g] = req[g]

LEMMA EndSigners ==
  ASSUME RequestsTyped, NEW r \in Requests, End(r)
  PROVE  SignersKept
  BY DEF SignersKept, End, Idle, RequestsTyped

LEMMA VersionsKept ==
  ASSUME VersionsOK, SignersKept, UNCHANGED <<account, tokens>>
  PROVE  VersionsOK'
  BY DEF VersionsOK, SignersKept, Current

(* A higher version leaves nothing of the user current.                    *)
LEMMA VersionRaised ==
  ASSUME TypeOK, RequestsOK, VersionsOK, SignersKept, tokens' = tokens,
         NEW u \in Users, account'[u].version = account[u].version + 1,
         \A v \in Users \ {u} : account'[v] = account[v]
  PROVE  VersionsOK'
  <1>1. ASSUME NEW v \in Users, NEW version \in Nat, NEW era \in Nat,
               Current(v, version, era)
        PROVE  Current(v, version, era)'
      BY <1>1 DEF Current, TypeOK, AccountsTyped, Account
  <1>2. \A t \in tokens' : Current(t.user, t.version, t.era)'
      BY <1>1 DEF VersionsOK, TypeOK, AccountsTyped, Token
  <1>3. ASSUME NEW g \in Requests, req'[g].at = "signing"
        PROVE  Current(req[g].user, req[g].version, req[g].era)'
    <2>1. req'[g] = req[g] /\ req[g].at = "signing"
        BY <1>3 DEF SignersKept
    <2>2. /\ req[g].user \in Users /\ req[g].version \in Nat /\ req[g].era \in Nat
          /\ Current(req[g].user, req[g].version, req[g].era)
        BY <2>1 DEF RequestsOK, AuthSteps, VersionsOK, TypeOK, RequestsTyped, Request
    <2>3. PICK v \in Users, version \in Nat, era \in Nat :
            v = req[g].user /\ version = req[g].version /\ era = req[g].era
        BY <2>2
    <2>4. Current(v, version, era)'
        BY <1>1, <2>2, <2>3
    <2> QED BY <2>1, <2>3, <2>4 DEF Current
  <1>4. ASSUME NEW g \in Requests, req'[g].at = "registering"
        PROVE  req'[g].version = 0 /\ req'[g].era = 0
      BY <1>4 DEF SignersKept, VersionsOK
  <1> QED BY <1>2, <1>3, <1>4 DEF VersionsOK

LEMMA StepVersions ==
  TypeOK /\ RequestsOK /\ AccountsOK /\ VersionsOK /\ [Next]_vars =>
     VersionsOK'
  <1> SUFFICES ASSUME TypeOK, RequestsOK, AccountsOK, VersionsOK, [Next]_vars
     PROVE VersionsOK'
      OBVIOUS
  <1> USE DEF TypeOK, AccountsTyped, Account, Token, RecordsTyped, Record,
     RequestsTyped, Request, HistoryTyped, RequestsOK, AuthSteps, AskSteps,
     VerifySteps, ResetSteps, AccountsOK, VersionsOK, Current
  <1>1. ASSUME NEW r \in Requests, NEW u \in Users, RegisterRead(r, u)
        PROVE VersionsOK'
      BY <1>1 DEF RegisterRead, Begin, Idle
  <1>2. ASSUME NEW r \in Requests, NEW u \in Users, LoginRead(r, u)
        PROVE VersionsOK'
      BY <1>2 DEF LoginRead, Begin, Idle
  <1>3. ASSUME NEW r \in Requests, NEW t \in tokens, RefreshRead(r, t)
        PROVE VersionsOK'
      BY <1>3 DEF RefreshRead, Begin, Idle, Valid
  <1>4. ASSUME NEW r \in Requests, NEW t \in tokens, NEW step \in {"leaving",
     "checking"},
               Authenticated(r, t, step)
        PROVE VersionsOK'
      BY <1>4 DEF Authenticated, Begin, Idle, Valid
  <1>5. ASSUME NEW r \in Requests, NEW u \in Users, NEW i \in Identifiers,
               AskRead(r, u, i)
        PROVE VersionsOK'
      BY <1>5 DEF AskRead, Begin, Idle
  <1>6. ASSUME NEW r \in Requests, NEW i \in Identifiers, NEW code \in Records
     \cup {0},
               VerifyRead(r, i, code)
        PROVE VersionsOK'
      BY <1>6 DEF VerifyRead, Begin, Idle, Standing, Of, Existing, Open
  <1>7. ASSUME NEW r \in Requests, NEW id \in Records, ResetRead(r, id)
        PROVE VersionsOK'
      BY <1>7 DEF ResetRead, Begin, Idle, Open
  <1>8. ASSUME NEW r \in Requests, RegisterInsert(r) PROVE VersionsOK'
    <2>1. CASE Taken(req[r].user)
          BY <1>8, <2>1 DEF RegisterInsert, End, Idle
    <2>2. CASE ~Taken(req[r].user)
      <3>1. req[r].user \in Users /\ req[r].at = "registering"
            BY <1>8 DEF RegisterInsert
      <3>2. /\ account' = [account EXCEPT ![req[r].user].exists = TRUE]
            /\ tokens' = tokens /\ req' = [req EXCEPT ![r].at = "signing"]
            BY <1>8, <2>2 DEF RegisterInsert, Proceed
      <3>3. \A u \in Users : /\ account'[u].version = account[u].version
                            /\ account'[u].era = account[u].era
            BY <3>2
      <3>4. \A t \in tokens' : Current(t.user, t.version, t.era)'
            BY <3>2, <3>3
      <3>5. ASSUME NEW g \in Requests, req'[g].at = "signing"
            PROVE  Current(req[g].user, req[g].version, req[g].era)'
            BY <3>1, <3>2, <3>3, <3>5
      <3>6. ASSUME NEW g \in Requests, req'[g].at = "registering"
            PROVE  req'[g].version = 0 /\ req'[g].era = 0
            BY <3>2, <3>6
      <3> QED BY <3>4, <3>5, <3>6
    <2> QED BY <2>1, <2>2
  <1>9. ASSUME NEW r \in Requests, GenerateTokens(r) PROVE VersionsOK'
      BY <1>9 DEF GenerateTokens, End, Idle
  <1>10. ASSUME NEW r \in Requests, LogoutWrite(r) PROVE VersionsOK'
    <2>1. PICK u \in Users : u = req[r].user
        BY <1>10 DEF LogoutWrite
    <2>2. /\ account'[u].version = account[u].version + 1 /\ tokens' = tokens /\ End(r)
          /\ \A v \in Users \ {u} : account'[v] = account[v]
        BY <1>10, <2>1 DEF LogoutWrite
    <2> QED BY <2>2, EndSigners, VersionRaised
  <1>11. ASSUME NEW r \in Requests, ChangeWrite(r) PROVE VersionsOK'
    <2>1. PICK u \in Users : u = req[r].user
        BY <1>11 DEF ChangeWrite
    <2>2. /\ account'[u].version = account[u].version + 1 /\ tokens' = tokens /\ End(r)
          /\ \A v \in Users \ {u} : account'[v] = account[v]
        BY <1>11, <2>1 DEF ChangeWrite
    <2> QED BY <2>2, EndSigners, VersionRaised
  <1>12. ASSUME NEW r \in Requests, NEW u \in Users, CheckPassword(r, u)
         PROVE VersionsOK'
      BY <1>12 DEF CheckPassword, Idle
  <1>13. ASSUME NEW r \in Requests, AskSupersede(r) PROVE VersionsOK'
      BY <1>13 DEF AskSupersede, Proceed, Complete, Of, Existing, Open
  <1>14. ASSUME NEW r \in Requests, AskCreate(r) PROVE VersionsOK'
      BY <1>14 DEF AskCreate, NewRecord, NoRecord
  <1>15. ASSUME NEW r \in Requests, MailSent(r) PROVE VersionsOK'
      BY <1>15 DEF MailSent, End, Idle
  <1>16. ASSUME NEW r \in Requests, MailFails(r) PROVE VersionsOK'
      BY <1>16 DEF MailFails, Proceed
  <1>17. ASSUME NEW r \in Requests, DeleteRecord(r) PROVE VersionsOK'
      BY <1>17 DEF DeleteRecord, End, Idle, NoRecord
  <1>18. ASSUME NEW r \in Requests, VerifyWrite(r) PROVE VersionsOK'
      BY <1>18 DEF VerifyWrite, End, Idle, Judged, VerifySteps
  <1>19. ASSUME NEW r \in Requests, ResetUpdate(r) PROVE VersionsOK'
    <2>1. SignersKept /\ UNCHANGED <<account, tokens>>
      <3>1. CASE record[req[r].record].state = "deleted"
          BY <1>19, <3>1, EndSigners DEF ResetUpdate
      <3>2. CASE record[req[r].record].state # "deleted"
          BY <1>19, <3>2 DEF ResetUpdate, SignersKept
      <3> QED BY <3>1, <3>2
    <2> QED BY <2>1, VersionsKept
  <1>20. ASSUME NEW r \in Requests, ResetCommit(r) PROVE VersionsOK'
    <2>1. PICK u \in Users : u = req[r].user
        BY <1>20 DEF ResetCommit
    <2>2. /\ account'[u].version = account[u].version + 1 /\ tokens' = tokens /\ End(r)
          /\ \A v \in Users \ {u} : account'[v] = account[v]
        BY <1>20, <2>1 DEF ResetCommit
    <2> QED BY <2>2, EndSigners, VersionRaised
  <1>21. ASSUME NEW r \in Requests, Abort(r) PROVE VersionsOK'
      BY <1>21 DEF Abort, End, Idle
  <1>22. ASSUME NEW id \in Records, GrowOlder(id) PROVE VersionsOK'
      BY <1>22 DEF GrowOlder
  <1>23. CASE UNCHANGED vars
      BY <1>23 DEF vars
  <1> HIDE DEF TypeOK, AccountsTyped, Account, Token, RecordsTyped, Record,
     RequestsTyped, Request, HistoryTyped, RequestsOK, AuthSteps, AskSteps,
     VerifySteps, ResetSteps, AccountsOK, VersionsOK, Current
  <1> QED BY <1>1, <1>2, <1>3, <1>4, <1>5, <1>6, <1>7, <1>8, <1>9, <1>10,
     <1>11, <1>12, <1>13, <1>14, <1>15, <1>16, <1>17, <1>18, <1>19, <1>20,
     <1>21, <1>22, <1>23 DEF Next, Continue

LEMMA StepDistinct ==
  TypeOK /\ RequestsOK /\ AccountsDistinct /\ [Next]_vars => AccountsDistinct'
  <1> SUFFICES ASSUME TypeOK, RequestsOK, AccountsDistinct, [Next]_vars PROVE
     AccountsDistinct'
      OBVIOUS
  <1> USE DEF TypeOK, AccountsTyped, Account, Token, RecordsTyped, Record,
     RequestsTyped, Request, HistoryTyped, RequestsOK, AuthSteps, AskSteps,
     VerifySteps, ResetSteps, AccountsDistinct
  <1>1. ASSUME NEW r \in Requests, NEW u \in Users, RegisterRead(r, u)
        PROVE AccountsDistinct'
      BY <1>1 DEF RegisterRead, Begin, Idle
  <1>2. ASSUME NEW r \in Requests, NEW u \in Users, LoginRead(r, u)
        PROVE AccountsDistinct'
      BY <1>2 DEF LoginRead, Begin, Idle
  <1>3. ASSUME NEW r \in Requests, NEW t \in tokens, RefreshRead(r, t)
        PROVE AccountsDistinct'
      BY <1>3 DEF RefreshRead, Begin, Idle, Valid
  <1>4. ASSUME NEW r \in Requests, NEW t \in tokens, NEW step \in {"leaving",
     "checking"},
               Authenticated(r, t, step)
        PROVE AccountsDistinct'
      BY <1>4 DEF Authenticated, Begin, Idle, Valid
  <1>5. ASSUME NEW r \in Requests, NEW u \in Users, NEW i \in Identifiers,
               AskRead(r, u, i)
        PROVE AccountsDistinct'
      BY <1>5 DEF AskRead, Begin, Idle
  <1>6. ASSUME NEW r \in Requests, NEW i \in Identifiers, NEW code \in Records
     \cup {0},
               VerifyRead(r, i, code)
        PROVE AccountsDistinct'
      BY <1>6 DEF VerifyRead, Begin, Idle, Standing, Of, Existing, Open
  <1>7. ASSUME NEW r \in Requests, NEW id \in Records, ResetRead(r, id)
        PROVE AccountsDistinct'
      BY <1>7 DEF ResetRead, Begin, Idle, Open
  <1>8. ASSUME NEW r \in Requests, RegisterInsert(r) PROVE AccountsDistinct'
      BY <1>8 DEF RegisterInsert, End, Idle, Proceed, Taken
  <1>9. ASSUME NEW r \in Requests, GenerateTokens(r) PROVE AccountsDistinct'
      BY <1>9 DEF GenerateTokens, End, Idle
  <1>10. ASSUME NEW r \in Requests, LogoutWrite(r) PROVE AccountsDistinct'
      BY <1>10 DEF LogoutWrite, End, Idle
  <1>11. ASSUME NEW r \in Requests, ChangeWrite(r) PROVE AccountsDistinct'
      BY <1>11 DEF ChangeWrite, End, Idle
  <1>12. ASSUME NEW r \in Requests, NEW u \in Users, CheckPassword(r, u)
         PROVE AccountsDistinct'
      BY <1>12 DEF CheckPassword, Idle
  <1>13. ASSUME NEW r \in Requests, AskSupersede(r) PROVE AccountsDistinct'
      BY <1>13 DEF AskSupersede, Proceed, Complete, Of, Existing, Open
  <1>14. ASSUME NEW r \in Requests, AskCreate(r) PROVE AccountsDistinct'
      BY <1>14 DEF AskCreate, NewRecord, NoRecord
  <1>15. ASSUME NEW r \in Requests, MailSent(r) PROVE AccountsDistinct'
      BY <1>15 DEF MailSent, End, Idle
  <1>16. ASSUME NEW r \in Requests, MailFails(r) PROVE AccountsDistinct'
      BY <1>16 DEF MailFails, Proceed
  <1>17. ASSUME NEW r \in Requests, DeleteRecord(r) PROVE AccountsDistinct'
      BY <1>17 DEF DeleteRecord, End, Idle, NoRecord
  <1>18. ASSUME NEW r \in Requests, VerifyWrite(r) PROVE AccountsDistinct'
      BY <1>18 DEF VerifyWrite, End, Idle, Judged, VerifySteps
  <1>19. ASSUME NEW r \in Requests, ResetUpdate(r) PROVE AccountsDistinct'
      BY <1>19 DEF ResetUpdate, End, Idle, Existing
  <1>20. ASSUME NEW r \in Requests, ResetCommit(r) PROVE AccountsDistinct'
      BY <1>20 DEF ResetCommit, End, Idle, Complete, Open
  <1>21. ASSUME NEW r \in Requests, Abort(r) PROVE AccountsDistinct'
      BY <1>21 DEF Abort, End, Idle
  <1>22. ASSUME NEW id \in Records, GrowOlder(id) PROVE AccountsDistinct'
      BY <1>22 DEF GrowOlder
  <1>23. CASE UNCHANGED vars
      BY <1>23 DEF vars
  <1> QED BY <1>1, <1>2, <1>3, <1>4, <1>5, <1>6, <1>7, <1>8, <1>9, <1>10,
     <1>11, <1>12, <1>13, <1>14, <1>15, <1>16, <1>17, <1>18, <1>19, <1>20,
     <1>21, <1>22, <1>23 DEF Next, Continue

LEMMA StepSettled ==
  TypeOK /\ RequestsOK /\ RecordsOK /\ SettledClosed /\ [Next]_vars =>
     SettledClosed'
  <1> SUFFICES ASSUME TypeOK, RequestsOK, RecordsOK, SettledClosed,
     [Next]_vars PROVE SettledClosed'
      OBVIOUS
  <1> USE DEF TypeOK, AccountsTyped, Account, Token, RecordsTyped, Record,
     RequestsTyped, Request, HistoryTyped, RequestsOK, AuthSteps, AskSteps,
     VerifySteps, ResetSteps, RecordsOK, NoRecord, SettledClosed
  <1>1. ASSUME NEW r \in Requests, NEW u \in Users, RegisterRead(r, u)
        PROVE SettledClosed'
      BY <1>1 DEF RegisterRead, Begin, Idle
  <1>2. ASSUME NEW r \in Requests, NEW u \in Users, LoginRead(r, u)
        PROVE SettledClosed'
      BY <1>2 DEF LoginRead, Begin, Idle
  <1>3. ASSUME NEW r \in Requests, NEW t \in tokens, RefreshRead(r, t)
        PROVE SettledClosed'
      BY <1>3 DEF RefreshRead, Begin, Idle, Valid
  <1>4. ASSUME NEW r \in Requests, NEW t \in tokens, NEW step \in {"leaving",
     "checking"},
               Authenticated(r, t, step)
        PROVE SettledClosed'
      BY <1>4 DEF Authenticated, Begin, Idle, Valid
  <1>5. ASSUME NEW r \in Requests, NEW u \in Users, NEW i \in Identifiers,
               AskRead(r, u, i)
        PROVE SettledClosed'
      BY <1>5 DEF AskRead, Begin, Idle
  <1>6. ASSUME NEW r \in Requests, NEW i \in Identifiers, NEW code \in Records
     \cup {0},
               VerifyRead(r, i, code)
        PROVE SettledClosed'
      BY <1>6 DEF VerifyRead, Begin, Idle, Standing, Of, Existing, Open
  <1>7. ASSUME NEW r \in Requests, NEW id \in Records, ResetRead(r, id)
        PROVE SettledClosed'
      BY <1>7 DEF ResetRead, Begin, Idle, Open
  <1>8. ASSUME NEW r \in Requests, RegisterInsert(r) PROVE SettledClosed'
      BY <1>8 DEF RegisterInsert, End, Idle, Proceed
  <1>9. ASSUME NEW r \in Requests, GenerateTokens(r) PROVE SettledClosed'
      BY <1>9 DEF GenerateTokens, End, Idle
  <1>10. ASSUME NEW r \in Requests, LogoutWrite(r) PROVE SettledClosed'
      BY <1>10 DEF LogoutWrite, End, Idle
  <1>11. ASSUME NEW r \in Requests, ChangeWrite(r) PROVE SettledClosed'
      BY <1>11 DEF ChangeWrite, End, Idle
  <1>12. ASSUME NEW r \in Requests, NEW u \in Users, CheckPassword(r, u)
         PROVE SettledClosed'
      BY <1>12 DEF CheckPassword, Idle
  <1>13. ASSUME NEW r \in Requests, AskSupersede(r) PROVE SettledClosed'
      BY <1>13 DEF AskSupersede, Proceed, Complete, Of, Existing, Open
  <1>14. ASSUME NEW r \in Requests, AskCreate(r) PROVE SettledClosed'
      BY <1>14 DEF AskCreate, NewRecord, NoRecord
  <1>15. ASSUME NEW r \in Requests, MailSent(r) PROVE SettledClosed'
      BY <1>15 DEF MailSent, End, Idle
  <1>16. ASSUME NEW r \in Requests, MailFails(r) PROVE SettledClosed'
      BY <1>16 DEF MailFails, Proceed
  <1>17. ASSUME NEW r \in Requests, DeleteRecord(r) PROVE SettledClosed'
      BY <1>17 DEF DeleteRecord, End, Idle, NoRecord
  <1>18. ASSUME NEW r \in Requests, VerifyWrite(r) PROVE SettledClosed'
      BY <1>18 DEF VerifyWrite, End, Idle, Judged, VerifySteps
  <1>19. ASSUME NEW r \in Requests, ResetUpdate(r) PROVE SettledClosed'
      BY <1>19 DEF ResetUpdate, End, Idle, Existing
  <1>20. ASSUME NEW r \in Requests, ResetCommit(r) PROVE SettledClosed'
      BY <1>20 DEF ResetCommit, End, Idle, Complete, Open
  <1>21. ASSUME NEW r \in Requests, Abort(r) PROVE SettledClosed'
      BY <1>21 DEF Abort, End, Idle
  <1>22. ASSUME NEW id \in Records, GrowOlder(id) PROVE SettledClosed'
      BY <1>22 DEF GrowOlder
  <1>23. CASE UNCHANGED vars
      BY <1>23 DEF vars
  <1> QED BY <1>1, <1>2, <1>3, <1>4, <1>5, <1>6, <1>7, <1>8, <1>9, <1>10,
     <1>11, <1>12, <1>13, <1>14, <1>15, <1>16, <1>17, <1>18, <1>19, <1>20,
     <1>21, <1>22, <1>23 DEF Next, Continue

LEMMA StepSent ==
  TypeOK /\ RequestsOK /\ RecordsOK /\ OpenCodesSent /\ [Next]_vars =>
     OpenCodesSent'
  <1> SUFFICES ASSUME TypeOK, RequestsOK, RecordsOK, OpenCodesSent,
     [Next]_vars PROVE OpenCodesSent'
      OBVIOUS
  <1> USE DEF TypeOK, AccountsTyped, Account, Token, RecordsTyped, Record,
     RequestsTyped, Request, HistoryTyped, RequestsOK, AuthSteps, AskSteps,
     VerifySteps, ResetSteps, RecordsOK, NoRecord, OpenCodesSent, Open
  <1>1. ASSUME NEW r \in Requests, NEW u \in Users, RegisterRead(r, u)
        PROVE OpenCodesSent'
      BY <1>1 DEF RegisterRead, Begin, Idle
  <1>2. ASSUME NEW r \in Requests, NEW u \in Users, LoginRead(r, u)
        PROVE OpenCodesSent'
      BY <1>2 DEF LoginRead, Begin, Idle
  <1>3. ASSUME NEW r \in Requests, NEW t \in tokens, RefreshRead(r, t)
        PROVE OpenCodesSent'
      BY <1>3 DEF RefreshRead, Begin, Idle, Valid
  <1>4. ASSUME NEW r \in Requests, NEW t \in tokens, NEW step \in {"leaving",
     "checking"},
               Authenticated(r, t, step)
        PROVE OpenCodesSent'
      BY <1>4 DEF Authenticated, Begin, Idle, Valid
  <1>5. ASSUME NEW r \in Requests, NEW u \in Users, NEW i \in Identifiers,
               AskRead(r, u, i)
        PROVE OpenCodesSent'
      BY <1>5 DEF AskRead, Begin, Idle
  <1>6. ASSUME NEW r \in Requests, NEW i \in Identifiers, NEW code \in Records
     \cup {0},
               VerifyRead(r, i, code)
        PROVE OpenCodesSent'
      BY <1>6 DEF VerifyRead, Begin, Idle, Standing, Of, Existing, Open
  <1>7. ASSUME NEW r \in Requests, NEW id \in Records, ResetRead(r, id)
        PROVE OpenCodesSent'
      BY <1>7 DEF ResetRead, Begin, Idle, Open
  <1>8. ASSUME NEW r \in Requests, RegisterInsert(r) PROVE OpenCodesSent'
      BY <1>8 DEF RegisterInsert, End, Idle, Proceed
  <1>9. ASSUME NEW r \in Requests, GenerateTokens(r) PROVE OpenCodesSent'
      BY <1>9 DEF GenerateTokens, End, Idle
  <1>10. ASSUME NEW r \in Requests, LogoutWrite(r) PROVE OpenCodesSent'
      BY <1>10 DEF LogoutWrite, End, Idle
  <1>11. ASSUME NEW r \in Requests, ChangeWrite(r) PROVE OpenCodesSent'
      BY <1>11 DEF ChangeWrite, End, Idle
  <1>12. ASSUME NEW r \in Requests, NEW u \in Users, CheckPassword(r, u)
         PROVE OpenCodesSent'
      BY <1>12 DEF CheckPassword, Idle
  <1>13. ASSUME NEW r \in Requests, AskSupersede(r) PROVE OpenCodesSent'
      BY <1>13 DEF AskSupersede, Proceed, Complete, Of, Existing, Open
  <1>14. ASSUME NEW r \in Requests, AskCreate(r) PROVE OpenCodesSent'
      BY <1>14 DEF AskCreate, NewRecord, NoRecord
  <1>15. ASSUME NEW r \in Requests, MailSent(r) PROVE OpenCodesSent'
      BY <1>15 DEF MailSent, End, Idle
  <1>16. ASSUME NEW r \in Requests, MailFails(r) PROVE OpenCodesSent'
      BY <1>16 DEF MailFails, Proceed
  <1>17. ASSUME NEW r \in Requests, DeleteRecord(r) PROVE OpenCodesSent'
      BY <1>17 DEF DeleteRecord, End, Idle, NoRecord
  <1>18. ASSUME NEW r \in Requests, VerifyWrite(r) PROVE OpenCodesSent'
      BY <1>18 DEF VerifyWrite, End, Idle, Judged, VerifySteps
  <1>19. ASSUME NEW r \in Requests, ResetUpdate(r) PROVE OpenCodesSent'
    <2>1. CASE record[req[r].record].state = "deleted"
        BY <1>19, <2>1 DEF ResetUpdate, End, Idle, Existing
    <2>2. CASE record[req[r].record].state # "deleted"
        BY <1>19, <2>2 DEF ResetUpdate, End, Idle, Existing
    <2> QED BY <2>1, <2>2
  <1>20. ASSUME NEW r \in Requests, ResetCommit(r) PROVE OpenCodesSent'
      BY <1>20 DEF ResetCommit, End, Idle, Complete, Open
  <1>21. ASSUME NEW r \in Requests, Abort(r) PROVE OpenCodesSent'
      BY <1>21 DEF Abort, End, Idle
  <1>22. ASSUME NEW id \in Records, GrowOlder(id) PROVE OpenCodesSent'
      BY <1>22 DEF GrowOlder
  <1>23. CASE UNCHANGED vars
      BY <1>23 DEF vars
  <1> QED BY <1>1, <1>2, <1>3, <1>4, <1>5, <1>6, <1>7, <1>8, <1>9, <1>10,
     <1>11, <1>12, <1>13, <1>14, <1>15, <1>16, <1>17, <1>18, <1>19, <1>20,
     <1>21, <1>22, <1>23 DEF Next, Continue

LEMMA StepSpending ==
  TypeOK /\ RequestsOK /\ RecordsOK /\ SettledClosed /\ SpendingOK /\
     [Next]_vars => SpendingOK'
  <1> SUFFICES ASSUME TypeOK, RequestsOK, RecordsOK, SettledClosed,
     SpendingOK, [Next]_vars PROVE SpendingOK'
      OBVIOUS
  <1> USE DEF TypeOK, AccountsTyped, Account, Token, RecordsTyped, Record,
     RequestsTyped, Request, HistoryTyped, RequestsOK, AuthSteps, AskSteps,
     VerifySteps, ResetSteps, RecordsOK, NoRecord, SettledClosed, SpendingOK,
     Holding
  <1>1. ASSUME NEW r \in Requests, NEW u \in Users, RegisterRead(r, u)
        PROVE SpendingOK'
      BY <1>1 DEF RegisterRead, Begin, Idle
  <1>2. ASSUME NEW r \in Requests, NEW u \in Users, LoginRead(r, u)
        PROVE SpendingOK'
      BY <1>2 DEF LoginRead, Begin, Idle
  <1>3. ASSUME NEW r \in Requests, NEW t \in tokens, RefreshRead(r, t)
        PROVE SpendingOK'
      BY <1>3 DEF RefreshRead, Begin, Idle, Valid
  <1>4. ASSUME NEW r \in Requests, NEW t \in tokens, NEW step \in {"leaving",
     "checking"},
               Authenticated(r, t, step)
        PROVE SpendingOK'
      BY <1>4 DEF Authenticated, Begin, Idle, Valid
  <1>5. ASSUME NEW r \in Requests, NEW u \in Users, NEW i \in Identifiers,
               AskRead(r, u, i)
        PROVE SpendingOK'
      BY <1>5 DEF AskRead, Begin, Idle
  <1>6. ASSUME NEW r \in Requests, NEW i \in Identifiers, NEW code \in Records
     \cup {0},
               VerifyRead(r, i, code)
        PROVE SpendingOK'
      BY <1>6 DEF VerifyRead, Begin, Idle, Standing, Of, Existing, Open
  <1>7. ASSUME NEW r \in Requests, NEW id \in Records, ResetRead(r, id)
        PROVE SpendingOK'
      BY <1>7 DEF ResetRead, Begin, Idle, Open
  <1>8. ASSUME NEW r \in Requests, RegisterInsert(r) PROVE SpendingOK'
    <2> HIDE DEF Holding, SpendingOK
    <2> QED BY <1>8, RegisterHolds, SpendingKept DEF RegisterInsert
  <1>9. ASSUME NEW r \in Requests, GenerateTokens(r) PROVE SpendingOK'
      BY <1>9 DEF GenerateTokens, End, Idle
  <1>10. ASSUME NEW r \in Requests, LogoutWrite(r) PROVE SpendingOK'
      BY <1>10 DEF LogoutWrite, End, Idle
  <1>11. ASSUME NEW r \in Requests, ChangeWrite(r) PROVE SpendingOK'
      BY <1>11 DEF ChangeWrite, End, Idle
  <1>12. ASSUME NEW r \in Requests, NEW u \in Users, CheckPassword(r, u)
         PROVE SpendingOK'
      BY <1>12 DEF CheckPassword, Idle
  <1>13. ASSUME NEW r \in Requests, AskSupersede(r) PROVE SpendingOK'
      BY <1>13 DEF AskSupersede, Proceed, Complete, Of, Existing, Open
  <1>14. ASSUME NEW r \in Requests, AskCreate(r) PROVE SpendingOK'
      BY <1>14 DEF AskCreate, NewRecord, NoRecord
  <1>15. ASSUME NEW r \in Requests, MailSent(r) PROVE SpendingOK'
      BY <1>15 DEF MailSent, End, Idle
  <1>16. ASSUME NEW r \in Requests, MailFails(r) PROVE SpendingOK'
      BY <1>16 DEF MailFails, Proceed
  <1>17. ASSUME NEW r \in Requests, DeleteRecord(r) PROVE SpendingOK'
      BY <1>17 DEF DeleteRecord, End, Idle, NoRecord
  <1>18. ASSUME NEW r \in Requests, VerifyWrite(r) PROVE SpendingOK'
      BY <1>18 DEF VerifyWrite, End, Idle, Judged, VerifySteps
  <1>19. ASSUME NEW r \in Requests, ResetUpdate(r) PROVE SpendingOK'
    <2> HIDE DEF Holding, SpendingOK
    <2> QED BY <1>19, ResetUpdateHolds, SpendingKept DEF ResetUpdate
  <1>20. ASSUME NEW r \in Requests, ResetCommit(r) PROVE SpendingOK'
      BY <1>20 DEF ResetCommit, End, Idle, Complete, Open
  <1>21. ASSUME NEW r \in Requests, Abort(r) PROVE SpendingOK'
      BY <1>21 DEF Abort, End, Idle
  <1>22. ASSUME NEW id \in Records, GrowOlder(id) PROVE SpendingOK'
      BY <1>22 DEF GrowOlder
  <1>23. CASE UNCHANGED vars
      BY <1>23 DEF vars
  <1> QED BY <1>1, <1>2, <1>3, <1>4, <1>5, <1>6, <1>7, <1>8, <1>9, <1>10,
     <1>11, <1>12, <1>13, <1>14, <1>15, <1>16, <1>17, <1>18, <1>19, <1>20,
     <1>21, <1>22, <1>23 DEF Next, Continue

(* No step but reading a mistake adds one to those to be written, and none *)
(* but writing it counts one.                                              *)
Fewer ==
    \A id \in Records :
      /\ record'[id].attempts <= record[id].attempts
      /\ Mistaking(id)' \subseteq Mistaking(id)

LEMMA MistakesFiniteNext ==
  \A id : /\ IsFiniteSet(Mistaking(id)')
          /\ Cardinality(Mistaking(id)') \in Nat
          /\ Cardinality(Mistaking(id)') <= Cardinality(Requests)
  <1>1. \A id : Mistaking(id)' \in SUBSET Requests
      BY DEF Mistaking
  <1> QED BY <1>1, RequestsAssumption, FS_Subset, FS_CardinalityType

LEMMA FewerMistakes == TypeOK /\ TypeOK' /\ MistakesOK /\ Fewer => MistakesOK'
  <1> SUFFICES ASSUME TypeOK, TypeOK', MistakesOK, Fewer, NEW id \in Records
               PROVE record'[id].attempts + Cardinality(Mistaking(id)')
                       <= (MaxAttempts - 1) + Cardinality(Requests)
      BY DEF MistakesOK
  <1>1. Cardinality(Mistaking(id)') <= Cardinality(Mistaking(id))
      BY MistakesFinite, FS_Subset DEF Fewer
  <1>2. record[id].attempts \in Nat /\ record'[id].attempts \in Nat
      BY DEF TypeOK, RecordsTyped, Record
  <1>3. record'[id].attempts <= record[id].attempts
      BY DEF Fewer
  <1>4. record[id].attempts + Cardinality(Mistaking(id))
          <= (MaxAttempts - 1) + Cardinality(Requests)
      BY DEF MistakesOK
  <1> QED BY <1>1, <1>2, <1>3, <1>4, MistakesFinite, MistakesFiniteNext, BoundsAssumption

LEMMA MistakenRead ==
  ASSUME NEW r \in Requests, NEW i \in Identifiers, NEW code \in Records \cup {0},
         TypeOK, TypeOK', MistakesOK, VerifyRead(r, i, code)
  PROVE  MistakesOK'
  <1> SUFFICES ASSUME NEW id \in Records
               PROVE record'[id].attempts + Cardinality(Mistaking(id)')
                       <= (MaxAttempts - 1) + Cardinality(Requests)
      BY DEF MistakesOK
  <1>1. record[id].attempts \in Nat /\ record'[id].attempts = record[id].attempts
      BY DEF VerifyRead, TypeOK, RecordsTyped, Record
  <1>2. CASE record[id].attempts < MaxAttempts
      BY <1>1, <1>2, MistakesFinite, MistakesFiniteNext, BoundsAssumption
  <1>3. CASE ~(record[id].attempts < MaxAttempts)
    <2>1. record[id].attempts >= MaxAttempts
        BY <1>1, <1>3, BoundsAssumption
    <2>2. Mistaking(id)' \subseteq Mistaking(id)
        BY <2>1 DEF VerifyRead, Begin, Idle, Mistaking, TypeOK, RequestsTyped, Standing, Of, Existing
    <2>3. Cardinality(Mistaking(id)') <= Cardinality(Mistaking(id))
        BY <2>2, MistakesFinite, FS_Subset
    <2> QED BY <1>1, <2>3, MistakesFinite, MistakesFiniteNext, BoundsAssumption DEF MistakesOK
  <1> QED BY <1>2, <1>3

LEMMA MistakeWritten ==
  ASSUME NEW r \in Requests, TypeOK, TypeOK', MistakesOK, VerifyWrite(r)
  PROVE  MistakesOK'
  <1>1. CASE req[r].at \in {"missing", "locking"}
    <2> SUFFICES ASSUME NEW id \in Records
                 PROVE record'[id].attempts + Cardinality(Mistaking(id)')
                         <= (MaxAttempts - 1) + Cardinality(Requests)
        BY DEF MistakesOK
    <2>1. record[id].attempts \in Nat /\ record'[id].attempts \in Nat
        BY DEF TypeOK, RecordsTyped, Record
    <2>2. Mistaking(id)' = Mistaking(id) \ {r}
        BY <1>1 DEF VerifyWrite, End, Idle, Mistaking, TypeOK, RequestsTyped, Records
    <2>3. r \in Mistaking(id) <=> req[r].record = id
        BY <1>1 DEF Mistaking
    <2>4. Cardinality(Mistaking(id)') =
            IF req[r].record = id THEN Cardinality(Mistaking(id)) - 1
                                  ELSE Cardinality(Mistaking(id))
        BY <2>2, <2>3, MistakesFinite, FS_RemoveElement
    <2>5. record'[id].attempts <=
            IF req[r].record = id THEN record[id].attempts + 1 ELSE record[id].attempts
        BY <1>1, <2>1 DEF VerifyWrite, Judged, TypeOK, RecordsTyped, Record
    <2>6. record[id].attempts + Cardinality(Mistaking(id))
            <= (MaxAttempts - 1) + Cardinality(Requests)
        BY DEF MistakesOK
    <2> QED BY <2>1, <2>4, <2>5, <2>6, MistakesFinite, BoundsAssumption
  <1>2. CASE req[r].at \notin {"missing", "locking"}
    <2>1. Fewer
        BY <1>2 DEF Fewer, Mistaking, VerifyWrite, VerifySteps, End, Idle, Judged,
           TypeOK, RecordsTyped, Record, RequestsTyped
    <2> QED BY <2>1, FewerMistakes
  <1> QED BY <1>1, <1>2

LEMMA StepMistakes ==
  TypeOK /\ TypeOK' /\ MistakesOK /\ [Next]_vars => MistakesOK'
  <1> SUFFICES ASSUME TypeOK, TypeOK', MistakesOK, [Next]_vars PROVE MistakesOK'
      OBVIOUS
  <1> USE DEF TypeOK, RecordsTyped, Record, RequestsTyped, Request, Mistaking
  <1>1. ASSUME NEW r \in Requests, NEW u \in Users, RegisterRead(r, u) PROVE MistakesOK'
    <2> Fewer
        BY <1>1 DEF Fewer, RegisterRead, Begin, Idle
    <2> QED BY FewerMistakes
  <1>2. ASSUME NEW r \in Requests, NEW u \in Users, LoginRead(r, u) PROVE MistakesOK'
    <2> Fewer
        BY <1>2 DEF Fewer, LoginRead, Begin, Idle
    <2> QED BY FewerMistakes
  <1>3. ASSUME NEW r \in Requests, NEW t \in tokens, RefreshRead(r, t) PROVE MistakesOK'
    <2> Fewer
        BY <1>3 DEF Fewer, RefreshRead, Begin, Idle
    <2> QED BY FewerMistakes
  <1>4. ASSUME NEW r \in Requests, NEW t \in tokens, NEW step \in {"leaving", "checking"},
               Authenticated(r, t, step)
        PROVE MistakesOK'
    <2> Fewer
        BY <1>4 DEF Fewer, Authenticated, Begin, Idle
    <2> QED BY FewerMistakes
  <1>5. ASSUME NEW r \in Requests, NEW u \in Users, NEW i \in Identifiers, AskRead(r, u, i)
        PROVE MistakesOK'
    <2> Fewer
        BY <1>5 DEF Fewer, AskRead, Begin, Idle
    <2> QED BY FewerMistakes
  <1>6. ASSUME NEW r \in Requests, NEW i \in Identifiers, NEW code \in Records \cup {0},
               VerifyRead(r, i, code)
        PROVE MistakesOK'
      BY <1>6, MistakenRead
  <1>7. ASSUME NEW r \in Requests, NEW id \in Records, ResetRead(r, id) PROVE MistakesOK'
    <2> Fewer
        BY <1>7 DEF Fewer, ResetRead, Begin, Idle
    <2> QED BY FewerMistakes
  <1>8. ASSUME NEW r \in Requests, RegisterInsert(r) PROVE MistakesOK'
    <2> Fewer
        BY <1>8 DEF Fewer, RegisterInsert, End, Idle, Proceed
    <2> QED BY FewerMistakes
  <1>9. ASSUME NEW r \in Requests, GenerateTokens(r) PROVE MistakesOK'
    <2> Fewer
        BY <1>9 DEF Fewer, GenerateTokens, End, Idle
    <2> QED BY FewerMistakes
  <1>10. ASSUME NEW r \in Requests, LogoutWrite(r) PROVE MistakesOK'
    <2> Fewer
        BY <1>10 DEF Fewer, LogoutWrite, End, Idle
    <2> QED BY FewerMistakes
  <1>11. ASSUME NEW r \in Requests, ChangeWrite(r) PROVE MistakesOK'
    <2> Fewer
        BY <1>11 DEF Fewer, ChangeWrite, End, Idle
    <2> QED BY FewerMistakes
  <1>12. ASSUME NEW r \in Requests, NEW u \in Users, CheckPassword(r, u) PROVE MistakesOK'
    <2> Fewer
        BY <1>12 DEF Fewer, CheckPassword, Idle
    <2> QED BY FewerMistakes
  <1>13. ASSUME NEW r \in Requests, AskSupersede(r) PROVE MistakesOK'
    <2> Fewer
        BY <1>13 DEF Fewer, AskSupersede, Proceed, Complete, Open
    <2> QED BY FewerMistakes
  <1>14. ASSUME NEW r \in Requests, AskCreate(r) PROVE MistakesOK'
    <2> Fewer
        BY <1>14 DEF Fewer, AskCreate, NewRecord, NoRecord
    <2> QED BY FewerMistakes
  <1>15. ASSUME NEW r \in Requests, MailSent(r) PROVE MistakesOK'
    <2> Fewer
        BY <1>15 DEF Fewer, MailSent, End, Idle
    <2> QED BY FewerMistakes
  <1>16. ASSUME NEW r \in Requests, MailFails(r) PROVE MistakesOK'
    <2> Fewer
        BY <1>16 DEF Fewer, MailFails, Proceed
    <2> QED BY FewerMistakes
  <1>17. ASSUME NEW r \in Requests, DeleteRecord(r) PROVE MistakesOK'
    <2> Fewer
        BY <1>17 DEF Fewer, DeleteRecord, End, Idle, NoRecord
    <2> QED BY FewerMistakes
  <1>18. ASSUME NEW r \in Requests, VerifyWrite(r) PROVE MistakesOK'
      BY <1>18, MistakeWritten
  <1>19. ASSUME NEW r \in Requests, ResetUpdate(r) PROVE MistakesOK'
    <2> Fewer
        BY <1>19 DEF Fewer, ResetUpdate, End, Idle
    <2> QED BY FewerMistakes
  <1>20. ASSUME NEW r \in Requests, ResetCommit(r) PROVE MistakesOK'
    <2> Fewer
        BY <1>20 DEF Fewer, ResetCommit, End, Idle, Complete, Open
    <2> QED BY FewerMistakes
  <1>21. ASSUME NEW r \in Requests, Abort(r) PROVE MistakesOK'
    <2> Fewer
        BY <1>21 DEF Fewer, Abort, End, Idle
    <2> QED BY FewerMistakes
  <1>22. ASSUME NEW id \in Records, GrowOlder(id) PROVE MistakesOK'
    <2> Fewer
        BY <1>22 DEF Fewer, GrowOlder
    <2> QED BY FewerMistakes
  <1>23. CASE UNCHANGED vars
    <2> Fewer
        BY <1>23 DEF Fewer, vars
    <2> QED BY FewerMistakes
  <1> QED BY <1>1, <1>2, <1>3, <1>4, <1>5, <1>6, <1>7, <1>8, <1>9, <1>10,
     <1>11, <1>12, <1>13, <1>14, <1>15, <1>16, <1>17, <1>18, <1>19, <1>20,
     <1>21, <1>22, <1>23 DEF Next, Continue

LEMMA StepInv == SessionsInv /\ [Next]_vars => SessionsInv'
  <1> SUFFICES ASSUME SessionsInv, [Next]_vars PROVE SessionsInv'
      OBVIOUS
  <1> USE DEF SessionsInv
  <1>1. TypeOK' /\ RequestsOK' /\ RecordsOK'
      BY StepAccountsTyped, StepRecordsTyped, StepRequestsTyped, StepHistoryTyped,
         StepRemoved, StepRequests, StepRecords DEF TypeOK
  <1>2. AccountsOK' /\ VersionsOK' /\ AccountsDistinct'
      BY StepAccounts, StepVersions, StepDistinct
  <1>3. SettledClosed' /\ OpenCodesSent' /\ SpendingOK'
      BY StepSettled, StepSent, StepSpending
  <1>4. MistakesOK'
      BY <1>1, StepMistakes
  <1> QED BY <1>1, <1>2, <1>3, <1>4

-----------------------------------------------------------------------------
(* The inductive invariant holds in every state of every behaviour.        *)
THEOREM SessionsInvariant == Spec => []SessionsInv
  <1> QED BY InitInv, StepInv, PTL DEF Spec

(* Rows and running requests keep their types; rows that were removed stay *)
(* empty, whatever a late update by id still wanted to write.              *)
THEOREM TypesHold == Spec => []TypeOK
  <1>1. SessionsInv => TypeOK
      BY DEF SessionsInv
  <1> QED BY SessionsInvariant, <1>1, PTL

(* A session that is accepted was opened with the password in force, for   *)
(* every interleaving of logins, refreshes and password changes.           *)
THEOREM AcceptedSessionsKnowPassword == Spec => []SessionsKnowPassword
  <1>1. SessionsInv => SessionsKnowPassword
      BY DEF SessionsInv, VersionsOK, Current, SessionsKnowPassword, Valid
  <1> QED BY SessionsInvariant, <1>1, PTL

(* Registrations that overlap never make two accounts with one identifier. *)
THEOREM AccountsStayDistinct == Spec => []AccountsDistinct
  <1>1. SessionsInv => AccountsDistinct
      BY DEF SessionsInv
  <1> QED BY SessionsInvariant, <1>1, PTL

(* Superseded and spent codes stay closed, whatever verification or mail   *)
(* was still under way.                                                    *)
THEOREM SettledCodesStayClosed == Spec => []SettledStayClosed
  <1>1. SessionsInv => SettledStayClosed
      BY DEF SessionsInv, SettledClosed, SettledStayClosed, Open
  <1> QED BY SessionsInvariant, <1>1, PTL

(* A code stands open only if its mail went out or is being settled.       *)
THEOREM OpenCodesWereSent == Spec => []OpenCodesSent
  <1>1. SessionsInv => OpenCodesSent
      BY DEF SessionsInv
  <1> QED BY SessionsInvariant, <1>1, PTL

(* A code changes one password at most, unless two resets held it together. *)
THEOREM CodesSpentOnce == Spec => []SpentOnce
  <1>1. SessionsInv => SpentOnce
      BY DEF SessionsInv, SpendingOK, SpentOnce
  <1> QED BY SessionsInvariant, <1>1, PTL

(* Mistyped codes go beyond the limit by no more than the requests that    *)
(* were judging the record together.                                       *)
THEOREM MistakesStayBounded == Spec => []MistakesBounded
  <1>1. SessionsInv => MistakesBounded
    <2> SUFFICES ASSUME SessionsInv, NEW id \in Records
                 PROVE record[id].attempts <= (MaxAttempts - 1) + Cardinality(Requests)
        BY DEF MistakesBounded
    <2>1. record[id].attempts \in Nat
        BY DEF SessionsInv, TypeOK, RecordsTyped, Record
    <2>2. record[id].attempts + Cardinality(Mistaking(id))
            <= (MaxAttempts - 1) + Cardinality(Requests)
        BY DEF SessionsInv, MistakesOK
    <2> QED BY <2>1, <2>2, MistakesFinite, BoundsAssumption
  <1> QED BY SessionsInvariant, <1>1, PTL

=============================================================================
