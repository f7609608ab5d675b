------------------------- MODULE CredentialsProofs -------------------------
(***************************************************************************)
(* Accounts, sessions and resets implement Credentials, for every set of   *)
(* users, identifiers and concurrent requests: with queries, versions,     *)
(* mails and locks hidden, every step is one step of Credentials or none.  *)
(***************************************************************************)
EXTENDS SessionsProofs

(* Sessions belong to accounts, those about to be signed too.              *)
SignedUp ==
    /\ \A t \in tokens : account[t.user].exists
    /\ \A r \in Requests : req[r].at = "signing" => account[req[r].user].exists

(* What a transaction has locked is its user's still, or is gone; its own  *)
(* record is not gone.                                                     *)
TransactionOK ==
    \A r \in Requests : req[r].at = "committing" =>
      /\ record[req[r].record].state # "deleted"
      /\ \A id \in req[r].present :
           record[id].state = "deleted" \/ record[id].user = req[r].user

CredentialsInv == SessionsInv /\ SignedUp /\ TransactionOK

-----------------------------------------------------------------------------
LEMMA InitCredentials == Init => SignedUp /\ TransactionOK
  BY DEF Init, SignedUp, TransactionOK, Idle

LEMMA SignedKept ==
  ASSUME TypeOK, RequestsOK, SignedUp, SignersKept, tokens' = tokens,
         \A u \in Users : account'[u].exists <=> account[u].exists
  PROVE  SignedUp'
  BY DEF SignedUp, SignersKept, TypeOK, AccountsTyped, Token, RequestsOK, AuthSteps

LEMMA StepSignedUp ==
  ASSUME TypeOK, RequestsOK, SignedUp, [Next]_vars
  PROVE  SignedUp'
  <1> USE DEF TypeOK, AccountsTyped, Account, Token, RequestsTyped, Request,
     RequestsOK, AuthSteps, AskSteps, VerifySteps, ResetSteps, SignedUp
  <1>1. ASSUME NEW r \in Requests, NEW u \in Users, RegisterRead(r, u)
        PROVE SignedUp'
      BY <1>1 DEF RegisterRead, Begin, Idle
  <1>2. ASSUME NEW r \in Requests, NEW u \in Users, LoginRead(r, u)
        PROVE SignedUp'
      BY <1>2 DEF LoginRead, Begin, Idle
  <1>3. ASSUME NEW r \in Requests, NEW t \in tokens, RefreshRead(r, t)
        PROVE SignedUp'
      BY <1>3 DEF RefreshRead, Begin, Idle, Valid
  <1>4. ASSUME NEW r \in Requests, NEW t \in tokens,
               NEW step \in {"leaving", "checking"}, Authenticated(r, t, step)
        PROVE SignedUp'
      BY <1>4 DEF Authenticated, Begin, Idle, Valid
  <1>5. ASSUME NEW r \in Requests, NEW u \in Users, NEW i \in Identifiers,
               AskRead(r, u, i)
        PROVE SignedUp'
      BY <1>5 DEF AskRead, Begin, Idle
  <1>6. ASSUME NEW r \in Requests, NEW i \in Identifiers,
               NEW code \in Records \cup {0}, VerifyRead(r, i, code)
        PROVE SignedUp'
      BY <1>6 DEF VerifyRead, Begin, Idle
  <1>7. ASSUME NEW r \in Requests, NEW id \in Records, ResetRead(r, id)
        PROVE SignedUp'
      BY <1>7 DEF ResetRead, Begin, Idle
  <1>8. ASSUME NEW r \in Requests, RegisterInsert(r) PROVE SignedUp'
    <2>1. CASE Taken(req[r].user)
        BY <1>8, <2>1, SMTT(30) DEF RegisterInsert, End, Idle
    <2>2. CASE ~Taken(req[r].user)
        BY <1>8, <2>2, SMTT(30) DEF RegisterInsert, Proceed
    <2> QED BY <2>1, <2>2
  <1>9. ASSUME NEW r \in Requests, GenerateTokens(r) PROVE SignedUp'
      BY <1>9 DEF GenerateTokens, End, Idle
  <1>10. ASSUME NEW r \in Requests, LogoutWrite(r) PROVE SignedUp'
    <2>1. /\ End(r) /\ tokens' = tokens
          /\ \A u \in Users : account'[u].exists <=> account[u].exists
        BY <1>10 DEF LogoutWrite
    <2> QED BY <2>1, EndSigners, SignedKept
  <1>11. ASSUME NEW r \in Requests, ChangeWrite(r) PROVE SignedUp'
    <2>1. /\ End(r) /\ tokens' = tokens
          /\ \A u \in Users : account'[u].exists <=> account[u].exists
        BY <1>11 DEF ChangeWrite
    <2> QED BY <2>1, EndSigners, SignedKept
  <1>12. ASSUME NEW r \in Requests, NEW u \in Users, CheckPassword(r, u)
         PROVE SignedUp'
      BY <1>12 DEF CheckPassword, Idle
  <1>13. ASSUME NEW r \in Requests, AskSupersede(r) PROVE SignedUp'
      BY <1>13 DEF AskSupersede, Proceed
  <1>14. ASSUME NEW r \in Requests, AskCreate(r) PROVE SignedUp'
      BY <1>14 DEF AskCreate
  <1>15. ASSUME NEW r \in Requests, MailSent(r) PROVE SignedUp'
      BY <1>15 DEF MailSent, End, Idle
  <1>16. ASSUME NEW r \in Requests, MailFails(r) PROVE SignedUp'
      BY <1>16 DEF MailFails, Proceed
  <1>17. ASSUME NEW r \in Requests, DeleteRecord(r) PROVE SignedUp'
      BY <1>17 DEF DeleteRecord, End, Idle
  <1>18. ASSUME NEW r \in Requests, VerifyWrite(r) PROVE SignedUp'
      BY <1>18 DEF VerifyWrite, End, Idle
  <1>19. ASSUME NEW r \in Requests, ResetUpdate(r) PROVE SignedUp'
    <2>1. CASE record[req[r].record].state = "deleted"
        BY <1>19, <2>1 DEF ResetUpdate, End, Idle
    <2>2. CASE record[req[r].record].state # "deleted"
        BY <1>19, <2>2 DEF ResetUpdate
    <2> QED BY <2>1, <2>2
  <1>20. ASSUME NEW r \in Requests, ResetCommit(r) PROVE SignedUp'
    <2>1. /\ End(r) /\ tokens' = tokens
          /\ \A u \in Users : account'[u].exists <=> account[u].exists
        BY <1>20 DEF ResetCommit
    <2> QED BY <2>1, EndSigners, SignedKept
  <1>21. ASSUME NEW r \in Requests, Abort(r) PROVE SignedUp'
      BY <1>21 DEF Abort, End, Idle
  <1>22. ASSUME NEW id \in Records, GrowOlder(id) PROVE SignedUp'
      BY <1>22 DEF GrowOlder
  <1>23. CASE UNCHANGED vars
      BY <1>23 DEF vars
  <1> HIDE DEF TypeOK, AccountsTyped, Account, Token, RequestsTyped, Request,
     RequestsOK, AuthSteps, AskSteps, VerifySteps, ResetSteps, SignedUp
  <1> QED BY <1>1, <1>2, <1>3, <1>4, <1>5, <1>6, <1>7, <1>8, <1>9, <1>10,
     <1>11, <1>12, <1>13, <1>14, <1>15, <1>16, <1>17, <1>18, <1>19, <1>20,
     <1>21, <1>22, <1>23 DEF Next, Continue

LEMMA StepTransaction ==
  ASSUME TypeOK, RequestsOK, TransactionOK, [Next]_vars
  PROVE  TransactionOK'
  <1> USE DEF TypeOK, AccountsTyped, RecordsTyped, Record, RequestsTyped, Request,
     RequestsOK, AuthSteps, AskSteps, VerifySteps, ResetSteps, TransactionOK
  <1>1. ASSUME NEW r \in Requests, NEW u \in Users, RegisterRead(r, u)
        PROVE TransactionOK'
      BY <1>1 DEF RegisterRead, Begin, Idle
  <1>2. ASSUME NEW r \in Requests, NEW u \in Users, LoginRead(r, u)
        PROVE TransactionOK'
      BY <1>2 DEF LoginRead, Begin, Idle
  <1>3. ASSUME NEW r \in Requests, NEW t \in tokens, RefreshRead(r, t)
        PROVE TransactionOK'
      BY <1>3 DEF RefreshRead, Begin, Idle
  <1>4. ASSUME NEW r \in Requests, NEW t \in tokens,
               NEW step \in {"leaving", "checking"}, Authenticated(r, t, step)
        PROVE TransactionOK'
      BY <1>4 DEF Authenticated, Begin, Idle
  <1>5. ASSUME NEW r \in Requests, NEW u \in Users, NEW i \in Identifiers,
               AskRead(r, u, i)
        PROVE TransactionOK'
      BY <1>5 DEF AskRead, Begin, Idle
  <1>6. ASSUME NEW r \in Requests, NEW i \in Identifiers,
               NEW code \in Records \cup {0}, VerifyRead(r, i, code)
        PROVE TransactionOK'
      BY <1>6 DEF VerifyRead, Begin, Idle
  <1>7. ASSUME NEW r \in Requests, NEW id \in Records, ResetRead(r, id)
        PROVE TransactionOK'
      BY <1>7 DEF ResetRead, Begin, Idle
  <1>8. ASSUME NEW r \in Requests, RegisterInsert(r) PROVE TransactionOK'
    <2>1. CASE Taken(req[r].user)
        BY <1>8, <2>1, SMTT(30) DEF RegisterInsert, End, Idle
    <2>2. CASE ~Taken(req[r].user)
        BY <1>8, <2>2, SMTT(30) DEF RegisterInsert, Proceed
    <2> QED BY <2>1, <2>2
  <1>9. ASSUME NEW r \in Requests, GenerateTokens(r) PROVE TransactionOK'
      BY <1>9 DEF GenerateTokens, End, Idle
  <1>10. ASSUME NEW r \in Requests, LogoutWrite(r) PROVE TransactionOK'
      BY <1>10 DEF LogoutWrite, End, Idle
  <1>11. ASSUME NEW r \in Requests, ChangeWrite(r) PROVE TransactionOK'
      BY <1>11 DEF ChangeWrite, End, Idle
  <1>12. ASSUME NEW r \in Requests, NEW u \in Users, CheckPassword(r, u)
         PROVE TransactionOK'
      BY <1>12 DEF CheckPassword, Idle
  <1>13. ASSUME NEW r \in Requests, AskSupersede(r) PROVE TransactionOK'
      BY <1>13 DEF AskSupersede, Proceed, Complete, Open
  <1>14. ASSUME NEW r \in Requests, AskCreate(r) PROVE TransactionOK'
      BY <1>14 DEF AskCreate, NewRecord, NoRecord
  <1>15. ASSUME NEW r \in Requests, MailSent(r) PROVE TransactionOK'
      BY <1>15 DEF MailSent, End, Idle
  <1>16. ASSUME NEW r \in Requests, MailFails(r) PROVE TransactionOK'
      BY <1>16 DEF MailFails, Proceed
  <1>17. ASSUME NEW r \in Requests, DeleteRecord(r) PROVE TransactionOK'
      BY <1>17 DEF DeleteRecord, End, Idle, NoRecord, Locked
  <1>18. ASSUME NEW r \in Requests, VerifyWrite(r) PROVE TransactionOK'
      BY <1>18, JudgedKeeps DEF VerifyWrite, End, Idle
  <1>19. ASSUME NEW r \in Requests, ResetUpdate(r) PROVE TransactionOK'
    <2>1. CASE record[req[r].record].state = "deleted"
        BY <1>19, <2>1 DEF ResetUpdate, End, Idle
    <2>2. CASE record[req[r].record].state # "deleted"
        BY <1>19, <2>2 DEF ResetUpdate, Existing
    <2> QED BY <2>1, <2>2
  <1>20. ASSUME NEW r \in Requests, ResetCommit(r) PROVE TransactionOK'
      BY <1>20 DEF ResetCommit, End, Idle, Complete, Open
  <1>21. ASSUME NEW r \in Requests, Abort(r) PROVE TransactionOK'
      BY <1>21 DEF Abort, End, Idle
  <1>22. ASSUME NEW id \in Records, GrowOlder(id) PROVE TransactionOK'
      BY <1>22 DEF GrowOlder
  <1>23. CASE UNCHANGED vars
      BY <1>23 DEF vars
  <1> HIDE DEF TypeOK, AccountsTyped, RecordsTyped, Record, RequestsTyped, Request,
     RequestsOK, AuthSteps, AskSteps, VerifySteps, ResetSteps, TransactionOK
  <1> QED BY <1>1, <1>2, <1>3, <1>4, <1>5, <1>6, <1>7, <1>8, <1>9, <1>10,
     <1>11, <1>12, <1>13, <1>14, <1>15, <1>16, <1>17, <1>18, <1>19, <1>20,
     <1>21, <1>22, <1>23 DEF Next, Continue

-----------------------------------------------------------------------------
(* What each step shows of itself through the refinement mapping.          *)
HoldersKept == \A id \in Records : Holding(id)' = Holding(id)

(* A step of a request that holds no record before or after it.            *)
LEMMA NotHolding ==
  ASSUME NEW r \in Requests, req[r].at \notin ResetSteps, req'[r].at \notin ResetSteps,
         \A g \in Requests \ {r} : req'[g] = req[g]
  PROVE  HoldersKept
  BY DEF HoldersKept, Holding

LEMMA Ending ==
  ASSUME TypeOK, NEW r \in Requests, End(r)
  PROVE  /\ req'[r] = Idle /\ req'[r].at = "idle"
         /\ \A g \in Requests \ {r} : req'[g] = req[g]
  BY DEF End, Idle, TypeOK, RequestsTyped

LEMMA Letting ==
  ASSUME TypeOK, NEW r \in Requests, End(r), req[r].at \in ResetSteps
  PROVE  \A id \in Records :
           Holding(id)' = IF id = req[r].record THEN Holding(id) \ {r} ELSE Holding(id)
  BY Ending DEF Holding, ResetSteps

LEMMA EndUnseen ==
  ASSUME TypeOK, NEW r \in Requests, End(r), req[r].at \notin ResetSteps
  PROVE  HoldersKept
  BY Ending, NotHolding DEF ResetSteps

LEMMA AccountsUnseen ==
  ASSUME UNCHANGED <<account, tokens>>
  PROVE  /\ {u \in Users : account[u].exists}' = {u \in Users : account[u].exists}
         /\ [u \in Users |-> account[u].era]' = [u \in Users |-> account[u].era]
         /\ AcceptedSessions' = AcceptedSessions
  BY DEF AcceptedSessions, Valid

LEMMA CodesUnseen ==
  ASSUME \A id \in Records : Stage(id)' = Stage(id) /\ record'[id].user = record[id].user
  PROVE  [id \in Records |-> [stage |-> Stage(id), owner |-> record[id].user]]' =
         [id \in Records |-> [stage |-> Stage(id), owner |-> record[id].user]]
  OBVIOUS

LEMMA RecordsUnseen ==
  ASSUME record' = record
  PROVE  [id \in Records |-> [stage |-> Stage(id), owner |-> record[id].user]]' =
         [id \in Records |-> [stage |-> Stage(id), owner |-> record[id].user]]
  BY DEF Stage, Open

LEMMA ClaimsUnseen ==
  ASSUME HoldersKept
  PROVE  [id \in Records |-> Holding(id)]' = [id \in Records |-> Holding(id)]
  BY DEF HoldersKept

LEMMA NothingSeen ==
  ASSUME UNCHANGED <<account, tokens, record>>, HoldersKept
  PROVE  UNCHANGED Accounts!accountVars
  BY AccountsUnseen, RecordsUnseen, ClaimsUnseen DEF Accounts!accountVars

LEMMA Accepted ==
  /\ \A s : s \in AcceptedSessions <=>
       \E t \in tokens : Valid(t) /\ s = [user |-> t.user, password |-> t.era]
  /\ \A s : s \in AcceptedSessions' <=>
       \E t \in tokens' : Valid(t)' /\ s = [user |-> t.user, password |-> t.era]
  BY DEF AcceptedSessions

(* A higher version ends the sessions of its user and no others.           *)
LEMMA VersionEnds ==
  ASSUME CredentialsInv, NEW u \in Users, tokens' = tokens,
         account'[u].version = account[u].version + 1,
         \A v \in Users \ {u} : account'[v] = account[v]
  PROVE  AcceptedSessions' = {s \in AcceptedSessions : s.user # u}
  <1> USE DEF CredentialsInv, SessionsInv, TypeOK, AccountsTyped, Account, Token,
     VersionsOK, Current, Valid
  <1>1. \A t \in tokens : Valid(t)' <=> Valid(t) /\ t.user # u
      OBVIOUS
  <1> HIDE DEF CredentialsInv, SessionsInv, TypeOK, AccountsTyped, Account, Token,
     VersionsOK, Current, Valid
  <1> QED BY <1>1, Accepted

(* Closing rows closes their codes, and those closed before stay so.       *)
LEMMA CompleteCloses ==
  ASSUME RecordsTyped, NEW ids, Complete(ids), NEW C \in SUBSET Existing,
         C \subseteq ids, \A id \in Records : id \in ids /\ Open(id) => id \in C
  PROVE  Accounts!Closing(C)
  <1>1. \A id \in Records : record'[id].user = record[id].user
      BY DEF Complete, RecordsTyped, Record
  <1>2. \A id \in Records :
          Stage(id)' = IF id \in C THEN "closed" ELSE Stage(id)
      BY DEF Complete, RecordsTyped, Record, Stage, Open, Existing
  <1> QED BY <1>1, <1>2 DEF Accounts!Closing

-----------------------------------------------------------------------------
(* The steps that are seen, one by one.                                    *)
LEMMA Registers ==
  ASSUME CredentialsInv, NEW r \in Requests, RegisterInsert(r),
         NEW u \in Users, u = req[r].user, ~Taken(u)
  PROVE  Accounts!Register(u)
  <1> USE DEF CredentialsInv, SessionsInv, TypeOK, AccountsTyped, Account, Token
  <1>1. account' = [account EXCEPT ![u].exists = TRUE] /\ tokens' = tokens
      BY DEF RegisterInsert
  <1>2. \A v \in Users : /\ account'[v].exists <=> (account[v].exists \/ v = u)
                         /\ account'[v].era = account[v].era
                         /\ account'[v].version = account[v].version
      BY <1>1
  <1>3. \A v \in {w \in Users : account[w].exists} : Contact[u] \cap Contact[v] = {}
      BY DEF Taken
  <1>4. {v \in Users : account[v].exists}' = {v \in Users : account[v].exists} \cup {u}
      BY <1>2
  <1>5. [v \in Users |-> account[v].era]' = [v \in Users |-> account[v].era]
      BY <1>2
  <1>6. \A t \in tokens : Valid(t)' <=> Valid(t)
      BY <1>2 DEF Valid, SignedUp
  <1>7. AcceptedSessions' = AcceptedSessions
      BY <1>1, <1>6, Accepted
  <1>8. HoldersKept
      BY RegisterHolds DEF HoldersKept
  <1>9. record' = record
      BY DEF RegisterInsert
  <1> QED BY <1>3, <1>4, <1>5, <1>7, <1>8, <1>9, RecordsUnseen, ClaimsUnseen
          DEF Accounts!Register

(* Tokens signed with the version in force open a session, others none.    *)
LEMMA SignsIn ==
  ASSUME CredentialsInv, NEW r \in Requests, GenerateTokens(r),
         NEW u \in Users, u = req[r].user
  PROVE  Accounts!SignIn(u) \/ UNCHANGED Accounts!accountVars
  <1>0. PICK token : token = [user |-> u, era |-> req[r].era, version |-> req[r].version]
      OBVIOUS
  <1> USE DEF CredentialsInv, SessionsInv
  <1>1. /\ req[r].at = "signing" /\ UNCHANGED <<account, record>> /\ End(r)
        /\ tokens' = tokens \cup {token}
      BY <1>0 DEF GenerateTokens
  <1>2. HoldersKept
      BY <1>1, EndUnseen DEF ResetSteps
  <1>3. /\ {v \in Users : account[v].exists}' = {v \in Users : account[v].exists}
        /\ [v \in Users |-> account[v].era]' = [v \in Users |-> account[v].era]
      BY <1>1
  <1>4. \A t : Valid(t)' <=> Valid(t)
      BY <1>1 DEF Valid
  <1>5. account[u].exists
      BY <1>1 DEF SignedUp
  <1>6. req[r].version = account[u].version => req[r].era = account[u].era
      BY <1>1 DEF VersionsOK, Current
  <1>7. CASE req[r].version = account[u].version
    <2>1. AcceptedSessions' = AcceptedSessions
                                \cup {[user |-> u, password |-> account[u].era]}
      <3>1. Valid(token)' /\ token.user = u /\ token.era = account[u].era
          BY <1>0, <1>4, <1>5, <1>6, <1>7 DEF Valid
      <3> QED BY <1>1, <1>4, <3>1, Accepted
    <2>2. u \in {v \in Users : account[v].exists}
        BY <1>5
    <2>3. [v \in Users |-> account[v].era][u] = account[u].era
        OBVIOUS
    <2> QED BY <1>1, <1>2, <1>3, <2>1, <2>2, <2>3, RecordsUnseen, ClaimsUnseen
            DEF Accounts!SignIn
  <1>8. CASE req[r].version # account[u].version
    <2>1. AcceptedSessions' = AcceptedSessions
      <3>1. ~Valid(token)'
          BY <1>0, <1>4, <1>8 DEF Valid
      <3> QED BY <1>1, <1>4, <3>1, Accepted
    <2> QED BY <1>1, <1>2, <1>3, <2>1, RecordsUnseen, ClaimsUnseen
            DEF Accounts!accountVars
  <1> QED BY <1>7, <1>8

LEMMA SignsOut ==
  ASSUME CredentialsInv, NEW r \in Requests, LogoutWrite(r),
         NEW u \in Users, u = req[r].user
  PROVE  Accounts!SignOut(u)
  <1> USE DEF CredentialsInv, SessionsInv, TypeOK
  <1>1. /\ req[r].at = "leaving" /\ UNCHANGED <<tokens, record>> /\ End(r)
        /\ account' = [account EXCEPT ![u].version = @ + 1]
      BY DEF LogoutWrite
  <1>2. HoldersKept
      BY <1>1, EndUnseen DEF ResetSteps
  <1>3. /\ account'[u].version = account[u].version + 1
        /\ \A v \in Users \ {u} : account'[v] = account[v]
        /\ \A v \in Users : /\ account'[v].exists <=> account[v].exists
                            /\ account'[v].era = account[v].era
      BY <1>1 DEF AccountsTyped, Account
  <1>4. /\ {v \in Users : account[v].exists}' = {v \in Users : account[v].exists}
        /\ [v \in Users |-> account[v].era]' = [v \in Users |-> account[v].era]
      BY <1>3
  <1>5. AcceptedSessions' = {s \in AcceptedSessions : s.user # u}
      BY <1>1, <1>3, VersionEnds
  <1> QED BY <1>1, <1>2, <1>4, <1>5, RecordsUnseen, ClaimsUnseen
          DEF Accounts!SignOut, Accounts!SessionsOfOthers

(* A new password, with the version that goes with it.                     *)
LEMMA NewPasswordSeen ==
  ASSUME CredentialsInv, NEW u \in Users, tokens' = tokens,
         account' = [account EXCEPT ![u].version = @ + 1, ![u].era = @ + 1]
  PROVE  Accounts!NewPassword(u)
  <1> USE DEF CredentialsInv, SessionsInv, TypeOK
  <1>1. /\ account'[u].version = account[u].version + 1
        /\ account'[u].era = account[u].era + 1
        /\ \A v \in Users \ {u} : account'[v] = account[v]
        /\ \A v \in Users : account'[v].exists <=> account[v].exists
      BY DEF AccountsTyped, Account
  <1>2. {v \in Users : account[v].exists}' = {v \in Users : account[v].exists}
      BY <1>1
  <1>3. [v \in Users |-> account[v].era]' =
          [[v \in Users |-> account[v].era] EXCEPT ![u] = @ + 1]
    <2>1. \A v \in Users : account'[v].era =
                          IF v = u THEN account[u].era + 1 ELSE account[v].era
      <3> TAKE v \in Users
      <3>1. CASE v = u
          BY <1>1, <3>1
      <3>2. CASE v # u
        <4>1. account'[v] = account[v]
            BY <1>1, <3>2
        <4> QED BY <3>2, <4>1
      <3> QED BY <3>1, <3>2
    <2> QED BY <2>1
  <1>4. AcceptedSessions' = {s \in AcceptedSessions : s.user # u}
      BY <1>1, VersionEnds
  <1> QED BY <1>2, <1>3, <1>4
          DEF Accounts!NewPassword, Accounts!SessionsOfOthers

LEMMA Changes ==
  ASSUME CredentialsInv, NEW r \in Requests, ChangeWrite(r),
         NEW u \in Users, u = req[r].user
  PROVE  Accounts!Change(u)
  <1>1. /\ req[r].at = "changing" /\ UNCHANGED <<tokens, record>> /\ End(r)
        /\ account' = [account EXCEPT ![u].version = @ + 1, ![u].era = @ + 1]
      BY DEF ChangeWrite
  <1>2. HoldersKept
      BY <1>1, EndUnseen DEF ResetSteps, CredentialsInv, SessionsInv
  <1>3. u \in {v \in Users : account[v].exists}
      BY <1>1 DEF CredentialsInv, SessionsInv, RequestsOK
  <1>4. Accounts!NewPassword(u)
      BY <1>1, NewPasswordSeen
  <1> QED BY <1>1, <1>2, <1>3, <1>4, RecordsUnseen, ClaimsUnseen DEF Accounts!Change

LEMMA Issues ==
  ASSUME CredentialsInv, NEW r \in Requests, AskCreate(r)
  PROVE  \E c \in Records, u \in Users : Accounts!Issue(c, u)
  <1> USE DEF CredentialsInv, SessionsInv, TypeOK
  <1>1. PICK c \in Records :
          /\ record[c].state = "absent"
          /\ record' = [record EXCEPT ![c] = NewRecord(req[r].user, req[r].identifier)]
          /\ req' = [req EXCEPT ![r].at = "mailing", ![r].record = c]
      BY DEF AskCreate
  <1>2. PICK u \in Users : u = req[r].user /\ account[u].exists
      BY DEF AskCreate, RequestsOK, AskSteps
  <1>3. HoldersKept
    <2>1. /\ req[r].at \notin ResetSteps /\ req'[r].at \notin ResetSteps
          /\ \A g \in Requests \ {r} : req'[g] = req[g]
        BY <1>1 DEF AskCreate, ResetSteps, RequestsTyped, Request
    <2> QED BY <2>1, NotHolding
  <1>4. /\ record'[c].state = "open" /\ ~record'[c].verified /\ record'[c].user = u
        /\ \A id \in Records \ {c} : record'[id] = record[id]
      BY <1>1, <1>2 DEF NewRecord, NoRecord, RecordsTyped, Record
  <1>5. Stage(c) = "unused"
      BY <1>1 DEF Stage, Open
  <1>6. [id \in Records |-> [stage |-> Stage(id), owner |-> record[id].user]]' =
          [[id \in Records |-> [stage |-> Stage(id), owner |-> record[id].user]]
             EXCEPT ![c] = [stage |-> "open", owner |-> u]]
      BY <1>4 DEF Stage, Open
  <1>7. c \notin Accounts!Issued
      BY <1>5 DEF Accounts!Issued
  <1>8. UNCHANGED <<account, tokens>>
      BY DEF AskCreate
  <1>9. u \in {v \in Users : account[v].exists}
      BY <1>2
  <1>10. Accounts!Issue(c, u)
      BY <1>3, <1>6, <1>7, <1>8, <1>9, AccountsUnseen, ClaimsUnseen DEF Accounts!Issue
  <1> QED BY <1>10

LEMMA Supersedes ==
  ASSUME CredentialsInv, NEW r \in Requests, AskSupersede(r)
  PROVE  \E C \in SUBSET Records : Accounts!Close(C)
  <1> USE DEF CredentialsInv, SessionsInv, TypeOK
  <1>1. PICK C \in SUBSET Existing : C = Of(req[r].identifier)
      BY DEF Of
  <1>2. Complete(C) /\ UNCHANGED <<account, tokens>> /\ Proceed(r, "superseded")
      BY <1>1 DEF AskSupersede
  <1>3. Accounts!Closing(C)
      BY <1>2, CompleteCloses
  <1>4. C \subseteq Accounts!Issued
      BY DEF Existing, Accounts!Issued, Stage, Open
  <1>5. HoldersKept
    <2>1. /\ req[r].at \notin ResetSteps /\ req'[r].at \notin ResetSteps
          /\ \A g \in Requests \ {r} : req'[g] = req[g]
        BY <1>2 DEF AskSupersede, Proceed, ResetSteps, RequestsTyped, Request
    <2> QED BY <2>1, NotHolding
  <1>6. Accounts!Close(C)
      BY <1>2, <1>3, <1>4, <1>5, AccountsUnseen, ClaimsUnseen DEF Accounts!Close
  <1> QED BY <1>6 DEF Existing

LEMMA Withdraws ==
  ASSUME CredentialsInv, NEW r \in Requests, DeleteRecord(r)
  PROVE  \E c \in Records : Accounts!Withdraw(c)
  <1> USE DEF CredentialsInv, SessionsInv, TypeOK
  <1>1. PICK c \in Records : c = req[r].record /\ record[c].state # "absent"
      BY DEF DeleteRecord, RequestsOK, AskSteps
  <1>2. /\ record' = [record EXCEPT ![c] = [NoRecord EXCEPT !.state = "deleted"]]
        /\ UNCHANGED <<account, tokens>> /\ End(r) /\ req[r].at = "cleaning"
      BY <1>1 DEF DeleteRecord
  <1>3. HoldersKept
      BY <1>2, EndUnseen DEF ResetSteps
  <1>4. /\ record'[c].state = "deleted" /\ record'[c].user = None
        /\ \A id \in Records \ {c} : record'[id] = record[id]
      BY <1>2 DEF NoRecord, RecordsTyped, Record
  <1>5. c \in Accounts!Issued
      BY <1>1 DEF Accounts!Issued, Stage, Open
  <1>6. [id \in Records |-> [stage |-> Stage(id), owner |-> record[id].user]]' =
          [[id \in Records |-> [stage |-> Stage(id), owner |-> record[id].user]]
             EXCEPT ![c] = [stage |-> "closed", owner |-> None]]
      BY <1>4 DEF Stage, Open
  <1>7. Accounts!Withdraw(c)
      BY <1>2, <1>3, <1>5, <1>6, AccountsUnseen, ClaimsUnseen DEF Accounts!Withdraw
  <1> QED BY <1>7

(* What the judgement of a code makes of its stage.                        *)
LEMMA JudgedStage ==
  ASSUME NEW rec \in Record, NEW step \in VerifySteps, rec.state \in {"open", "completed"}
  PROVE  /\ step = "missing" =>
              Judged(rec, step).state = rec.state
                /\ (Judged(rec, step).verified <=> rec.verified)
         /\ step = "matching" =>
              Judged(rec, step).state = rec.state /\ Judged(rec, step).verified
         /\ step \in {"limiting", "locking"} => Judged(rec, step).state = "completed"
  <1>1. CASE step = "matching"
      BY <1>1 DEF Judged, Record
  <1>2. CASE step = "limiting"
      BY <1>2 DEF Judged, Record
  <1>3. CASE step = "missing"
      BY <1>3 DEF Judged, Record
  <1>4. CASE step = "locking"
    <2>1. [rec EXCEPT !.attempts = @ + 1] \in Record
        BY DEF Record
    <2>2. \A x \in Record : [x EXCEPT !.state = "completed"].state = "completed"
        BY DEF Record
    <2>3. Judged(rec, step) = [[rec EXCEPT !.attempts = @ + 1] EXCEPT !.state = "completed"]
        BY <1>4 DEF Judged, Record
    <2> QED BY <1>4, <2>1, <2>2, <2>3
  <1> QED BY <1>1, <1>2, <1>3, <1>4 DEF VerifySteps

(* A judgement verifies a code, closes it, or is not seen: a code that was *)
(* closed meanwhile stays closed.                                          *)
LEMMA Verifies ==
  ASSUME CredentialsInv, NEW r \in Requests, VerifyWrite(r)
  PROVE  \/ \E c \in Records : Accounts!Verify(c)
         \/ \E C \in SUBSET Records : Accounts!Close(C)
         \/ UNCHANGED Accounts!accountVars
  <1> USE DEF CredentialsInv, SessionsInv, TypeOK
  <1>1. PICK c \in Records : c = req[r].record /\ record[c].state # "absent"
      BY DEF VerifyWrite, RequestsOK
  <1>2. /\ record' = [record EXCEPT ![c] = Judged(@, req[r].at)]
        /\ UNCHANGED <<account, tokens>> /\ End(r) /\ req[r].at \in VerifySteps
      BY <1>1 DEF VerifyWrite
  <1>3. HoldersKept
      BY <1>2, EndUnseen DEF ResetSteps, VerifySteps
  <1>4. record[c] \in Record
      BY DEF RecordsTyped
  <1>5. /\ record'[c].user = record[c].user
        /\ \A id \in Records \ {c} : record'[id] = record[id]
      BY <1>2, <1>4, JudgedKeeps DEF RecordsTyped
  <1>6. record'[c] = Judged(record[c], req[r].at)
      BY <1>2 DEF RecordsTyped
  <1>7. \A id \in Records \ {c} : Stage(id)' = Stage(id)
      BY <1>5 DEF Stage, Open
  <1>8. CASE Stage(c)' = Stage(c)
    <2>1. \A id \in Records : Stage(id)' = Stage(id) /\ record'[id].user = record[id].user
        BY <1>5, <1>7, <1>8
    <2> QED BY <1>2, <1>3, <2>1, AccountsUnseen, CodesUnseen, ClaimsUnseen
            DEF Accounts!accountVars
  <1>9. CASE Stage(c)' = "closed" /\ Stage(c) # "closed"
    <2>1. c \in Accounts!Issued
        BY <1>1 DEF Accounts!Issued, Stage, Open
    <2>2. PICK C \in SUBSET Records : C = {c}
        OBVIOUS
    <2>3. Accounts!Closing(C)
        BY <1>5, <1>7, <1>9, <2>2 DEF Accounts!Closing
    <2>4. Accounts!Close(C)
        BY <1>2, <1>3, <2>1, <2>2, <2>3, AccountsUnseen, ClaimsUnseen DEF Accounts!Close
    <2> QED BY <2>4
  <1>10. CASE Stage(c)' = "verified" /\ Stage(c) = "open"
    <2>1. [id \in Records |-> [stage |-> Stage(id), owner |-> record[id].user]]' =
            [[id \in Records |-> [stage |-> Stage(id), owner |-> record[id].user]]
               EXCEPT ![c].stage = "verified"]
        BY <1>5, <1>7, <1>10
    <2>2. Accounts!Verify(c)
        BY <1>2, <1>3, <1>10, <2>1, AccountsUnseen, ClaimsUnseen DEF Accounts!Verify
    <2> QED BY <2>2
  <1>11. CASE record[c].state = "deleted"
    <2>1. record'[c] = record[c]
        BY <1>2, <1>4, <1>6, <1>11, JudgedKeeps
    <2> QED BY <1>8, <2>1 DEF Stage, Open
  <1>12. CASE record[c].state \in {"open", "completed"}
    <2>1. CASE req[r].at = "missing"
        BY <1>2, <1>4, <1>6, <1>8, <1>12, <2>1, JudgedStage DEF Stage, Open
    <2>2. CASE req[r].at = "matching"
        BY <1>2, <1>4, <1>6, <1>8, <1>10, <1>12, <2>2, JudgedStage DEF Stage, Open
    <2>3. CASE req[r].at \in {"limiting", "locking"}
        BY <1>2, <1>4, <1>6, <1>8, <1>9, <1>12, <2>3, JudgedStage DEF Stage, Open
    <2> QED BY <1>2, <2>1, <2>2, <2>3 DEF VerifySteps
  <1>13. record[c].state \in {"open", "completed", "deleted"}
      BY <1>1, <1>4 DEF Record
  <1> QED BY <1>11, <1>12, <1>13

LEMMA Claiming ==
  ASSUME CredentialsInv, NEW r \in Requests, NEW id \in Records, ResetRead(r, id)
  PROVE  Accounts!Claim(id, r)
  <1> USE DEF CredentialsInv, SessionsInv, TypeOK
  <1>1. /\ UNCHANGED <<account, tokens, record>>
        /\ record[id].state = "open" /\ record[id].verified /\ req[r].at = "idle"
      BY DEF ResetRead, Begin, Open
  <1>2. /\ req'[r].at = "resetting" /\ req'[r].record = id
        /\ \A g \in Requests \ {r} : req'[g] = req[g]
      BY DEF ResetRead, Begin, Idle, RequestsTyped, Request
  <1>3. \A d \in Records :
          Holding(d)' = IF d = id THEN Holding(d) \cup {r} ELSE Holding(d)
      BY <1>1, <1>2 DEF Holding, ResetSteps
  <1>4. [d \in Records |-> Holding(d)]' =
          [[d \in Records |-> Holding(d)] EXCEPT ![id] = @ \cup {r}]
      BY <1>3
  <1>5. Stage(id) = "verified"
      BY <1>1 DEF Stage, Open
  <1> QED BY <1>1, <1>4, <1>5, AccountsUnseen, RecordsUnseen DEF Accounts!Claim

(* A reset that ends without its transaction lets go of its record.        *)
LEMMA Releases ==
  ASSUME CredentialsInv, NEW r \in Requests, End(r), req[r].at \in ResetSteps,
         UNCHANGED <<account, tokens, record>>
  PROVE  \E c \in Records : Accounts!Release(c, r)
  <1>1. PICK c \in Records : c = req[r].record
      BY DEF CredentialsInv, SessionsInv, RequestsOK
  <1>2. \A d \in Records :
          Holding(d)' = IF d = c THEN Holding(d) \ {r} ELSE Holding(d)
      BY <1>1, Letting DEF CredentialsInv, SessionsInv
  <1>3. [d \in Records |-> Holding(d)]' =
          [[d \in Records |-> Holding(d)] EXCEPT ![c] = @ \ {r}]
      BY <1>2
  <1>4. Accounts!Release(c, r)
      BY <1>3, AccountsUnseen, RecordsUnseen DEF Accounts!Release
  <1> QED BY <1>4

(* The transaction's commit: the records it closes are those its user      *)
(* still has of the ones it locked.                                        *)
LEMMA Resets ==
  ASSUME CredentialsInv, NEW r \in Requests, ResetCommit(r)
  PROVE  \E c \in Records, others \in SUBSET Records : Accounts!Reset(c, r, others)
  <1> USE DEF CredentialsInv, SessionsInv, TypeOK
  <1>1. PICK c \in Records : c = req[r].record
      BY DEF ResetCommit, RequestsOK, ResetSteps
  <1>2. PICK u \in Users : u = req[r].user /\ account[u].exists
      BY DEF ResetCommit, RequestsOK, ResetSteps
  <1>3. /\ record[c].user = u /\ record[c].state # "absent" /\ c \in req[r].present
        /\ req[r].at = "committing" /\ req[r].present \subseteq Existing
      BY <1>1, <1>2 DEF ResetCommit, RequestsOK, ResetSteps, TransactionOK, Existing,
         RequestsTyped, Request
  <1>4. PICK others \in SUBSET Records :
          others = {d \in req[r].present : record[d].user = u}
      BY <1>3 DEF Existing
  <1>5. /\ tokens' = tokens /\ End(r) /\ Complete(req[r].present)
        /\ account' = [account EXCEPT ![u].version = @ + 1, ![u].era = @ + 1]
      BY <1>2 DEF ResetCommit
  <1>6. Accounts!NewPassword(u)
      BY <1>5, NewPasswordSeen
  <1>7. PICK C \in SUBSET Existing : C = others \cup {c}
      BY <1>3, <1>4
  <1>8. C \subseteq req[r].present
      BY <1>3, <1>4, <1>7
  <1>9. \A id \in Records : id \in req[r].present /\ Open(id) => id \in C
      BY <1>2, <1>3, <1>4, <1>7 DEF TransactionOK, Open
  <1>10. Accounts!Closing(others \cup {c})
    <2>1. Accounts!Closing(C)
        BY <1>5, <1>8, <1>9, CompleteCloses
    <2> QED BY <1>7, <2>1
  <1>11. \A d \in Records :
          Holding(d)' = IF d = c THEN Holding(d) \ {r} ELSE Holding(d)
      BY <1>1, <1>3, <1>5, Letting DEF ResetSteps
  <1>12. [d \in Records |-> Holding(d)]' =
          [[d \in Records |-> Holding(d)] EXCEPT ![c] = @ \ {r}]
      BY <1>11
  <1>13. r \in Holding(c)
      BY <1>1, <1>3 DEF Holding, ResetSteps
  <1>14. [id \in Records |-> [stage |-> Stage(id), owner |-> record[id].user]][c].owner = u
      BY <1>3
  <1>15. \A d \in others :
          [id \in Records |-> [stage |-> Stage(id), owner |-> record[id].user]][d].owner = u
      BY <1>4
  <1>16. u \in {v \in Users : account[v].exists}
      BY <1>2
  <1>17. r \in [d \in Records |-> Holding(d)][c]
      BY <1>13
  <1>18. Accounts!Reset(c, r, others)
      BY <1>6, <1>10, <1>12, <1>14, <1>15, <1>16, <1>17
         DEF Accounts!Reset, Accounts!NewPassword, Accounts!SessionsOfOthers
  <1> QED BY <1>18

-----------------------------------------------------------------------------
(* Every step is one step of Credentials or is not seen.                   *)
LEMMA StepOperates ==
  ASSUME CredentialsInv, [Next]_vars
  PROVE  [Accounts!Operate]_(Accounts!accountVars)
  <1> DEFINE Seen == Accounts!Operate \/ UNCHANGED Accounts!accountVars
  <1> USE DEF CredentialsInv, SessionsInv, TypeOK
  <1>0. ASSUME NEW r \in Requests, NEW fields, Begin(r, fields),
               fields.at \notin ResetSteps, UNCHANGED <<account, tokens, record>>
        PROVE  Seen
    <2>1. req'[r] = fields /\ req[r].at = "idle"
            /\ \A g \in Requests \ {r} : req'[g] = req[g]
        BY <1>0 DEF Begin, RequestsTyped
    <2>2. HoldersKept
        BY <1>0, <2>1, NotHolding DEF ResetSteps
    <2> QED BY <1>0, <2>2, NothingSeen
  <1>1. ASSUME NEW r \in Requests, NEW u \in Users, RegisterRead(r, u)
        PROVE Seen
      BY <1>0, <1>1 DEF RegisterRead, Idle, ResetSteps
  <1>2. ASSUME NEW r \in Requests, NEW u \in Users, LoginRead(r, u)
        PROVE Seen
      BY <1>0, <1>2 DEF LoginRead, Idle, ResetSteps
  <1>3. ASSUME NEW r \in Requests, NEW t \in tokens, RefreshRead(r, t)
        PROVE Seen
      BY <1>0, <1>3 DEF RefreshRead, Idle, ResetSteps
  <1>4. ASSUME NEW r \in Requests, NEW t \in tokens,
               NEW step \in {"leaving", "checking"}, Authenticated(r, t, step)
        PROVE Seen
      BY <1>0, <1>4 DEF Authenticated, Idle, ResetSteps
  <1>5. ASSUME NEW r \in Requests, NEW u \in Users, NEW i \in Identifiers,
               AskRead(r, u, i)
        PROVE Seen
      BY <1>0, <1>5 DEF AskRead, Idle, ResetSteps
  <1>6. ASSUME NEW r \in Requests, NEW i \in Identifiers,
               NEW code \in Records \cup {0}, VerifyRead(r, i, code)
        PROVE Seen
      BY <1>0, <1>6 DEF VerifyRead, Idle, ResetSteps
  <1>7. ASSUME NEW r \in Requests, NEW id \in Records, ResetRead(r, id)
        PROVE Seen
      BY <1>7, Claiming DEF Accounts!Operate
  <1>8. ASSUME NEW r \in Requests, RegisterInsert(r) PROVE Seen
    <2>1. CASE Taken(req[r].user)
      <3>1. End(r) /\ UNCHANGED <<account, tokens, record>>
              /\ req[r].at \notin ResetSteps
          BY <1>8, <2>1 DEF RegisterInsert, ResetSteps
      <3> QED BY <3>1, EndUnseen, NothingSeen
    <2>2. CASE ~Taken(req[r].user)
      <3>1. PICK u \in Users : u = req[r].user
          BY <1>8 DEF RegisterInsert, RequestsOK, AuthSteps
      <3>2. Accounts!Register(u)
          BY <1>8, <2>2, <3>1, Registers
      <3> QED BY <3>2 DEF Accounts!Operate
    <2> QED BY <2>1, <2>2
  <1>9. ASSUME NEW r \in Requests, GenerateTokens(r) PROVE Seen
    <2>1. PICK u \in Users : u = req[r].user
        BY <1>9 DEF GenerateTokens, RequestsOK, AuthSteps
    <2>2. Accounts!SignIn(u) \/ UNCHANGED Accounts!accountVars
        BY <1>9, <2>1, SignsIn
    <2> QED BY <2>2 DEF Accounts!Operate
  <1>10. ASSUME NEW r \in Requests, LogoutWrite(r) PROVE Seen
    <2>1. PICK u \in Users : u = req[r].user
        BY <1>10 DEF LogoutWrite, RequestsOK, AuthSteps
    <2>2. Accounts!SignOut(u)
        BY <1>10, <2>1, SignsOut
    <2> QED BY <2>2 DEF Accounts!Operate
  <1>11. ASSUME NEW r \in Requests, ChangeWrite(r) PROVE Seen
    <2>1. PICK u \in Users : u = req[r].user
        BY <1>11 DEF ChangeWrite, RequestsOK, AuthSteps
    <2>2. Accounts!Change(u)
        BY <1>11, <2>1, Changes
    <2> QED BY <2>2 DEF Accounts!Operate
  <1>12. ASSUME NEW r \in Requests, NEW u \in Users, CheckPassword(r, u)
         PROVE Seen
    <2>1. /\ req[r].at \notin ResetSteps /\ req'[r].at \notin ResetSteps
          /\ \A g \in Requests \ {r} : req'[g] = req[g]
          /\ UNCHANGED <<account, tokens, record>>
        BY <1>12 DEF CheckPassword, Idle, ResetSteps, RequestsTyped
    <2> QED BY <2>1, NotHolding, NothingSeen
  <1>13. ASSUME NEW r \in Requests, AskSupersede(r) PROVE Seen
      BY <1>13, Supersedes DEF Accounts!Operate
  <1>14. ASSUME NEW r \in Requests, AskCreate(r) PROVE Seen
      BY <1>14, Issues DEF Accounts!Operate
  <1>15. ASSUME NEW r \in Requests, MailSent(r) PROVE Seen
    <2>1. End(r) /\ UNCHANGED <<account, tokens, record>> /\ req[r].at \notin ResetSteps
        BY <1>15 DEF MailSent, ResetSteps
    <2> QED BY <2>1, EndUnseen, NothingSeen
  <1>16. ASSUME NEW r \in Requests, MailFails(r) PROVE Seen
    <2>1. /\ req[r].at \notin ResetSteps /\ req'[r].at \notin ResetSteps
          /\ \A g \in Requests \ {r} : req'[g] = req[g]
          /\ UNCHANGED <<account, tokens, record>>
        BY <1>16 DEF MailFails, Proceed, ResetSteps, RequestsTyped, Request
    <2> QED BY <2>1, NotHolding, NothingSeen
  <1>17. ASSUME NEW r \in Requests, DeleteRecord(r) PROVE Seen
      BY <1>17, Withdraws DEF Accounts!Operate
  <1>18. ASSUME NEW r \in Requests, VerifyWrite(r) PROVE Seen
      BY <1>18, Verifies DEF Accounts!Operate
  <1>19. ASSUME NEW r \in Requests, ResetUpdate(r) PROVE Seen
    <2>1. CASE record[req[r].record].state = "deleted"
      <3>1. End(r) /\ req[r].at \in ResetSteps /\ UNCHANGED <<account, tokens, record>>
          BY <1>19, <2>1 DEF ResetUpdate, ResetSteps
      <3>2. \E c \in Records : Accounts!Release(c, r)
          BY <3>1, Releases
      <3> QED BY <3>2 DEF Accounts!Operate
    <2>2. CASE record[req[r].record].state # "deleted"
      <3>1. /\ req[r].at \in ResetSteps /\ req'[r].at \in ResetSteps
            /\ req'[r].record = req[r].record
            /\ \A g \in Requests \ {r} : req'[g] = req[g]
            /\ UNCHANGED <<account, tokens, record>>
          BY <1>19, <2>2 DEF ResetUpdate, ResetSteps, RequestsTyped, Request
      <3>2. HoldersKept
          BY <3>1 DEF HoldersKept, Holding
      <3> QED BY <3>1, <3>2, NothingSeen
    <2> QED BY <2>1, <2>2
  <1>20. ASSUME NEW r \in Requests, ResetCommit(r) PROVE Seen
      BY <1>20, Resets DEF Accounts!Operate
  <1>21. ASSUME NEW r \in Requests, Abort(r) PROVE Seen
    <2>1. End(r) /\ UNCHANGED <<account, tokens, record>>
        BY <1>21 DEF Abort
    <2>2. CASE req[r].at \in ResetSteps
      <3>1. \E c \in Records : Accounts!Release(c, r)
          BY <2>1, <2>2, Releases
      <3> QED BY <3>1 DEF Accounts!Operate
    <2>3. CASE req[r].at \notin ResetSteps
        BY <2>1, <2>3, EndUnseen, NothingSeen
    <2> QED BY <2>2, <2>3
  <1>22. ASSUME NEW id \in Records, GrowOlder(id) PROVE Seen
    <2>1. \A d \in Records : /\ record'[d].state = record[d].state
                             /\ record'[d].user = record[d].user
                             /\ record'[d].verified <=> record[d].verified
        BY <1>22 DEF GrowOlder, RecordsTyped, Record
    <2>2. \A d \in Records : Stage(d)' = Stage(d) /\ record'[d].user = record[d].user
        BY <2>1 DEF Stage, Open
    <2>3. UNCHANGED <<account, tokens, req>>
        BY <1>22 DEF GrowOlder
    <2>4. HoldersKept
        BY <2>3 DEF HoldersKept, Holding
    <2> QED BY <2>2, <2>3, <2>4, AccountsUnseen, CodesUnseen, ClaimsUnseen
            DEF Accounts!accountVars
  <1>23. ASSUME UNCHANGED vars PROVE Seen
    <2>1. UNCHANGED <<account, tokens, record, req>>
        BY <1>23 DEF vars
    <2>2. HoldersKept
        BY <2>1 DEF HoldersKept, Holding
    <2> QED BY <2>1, <2>2, NothingSeen
  <1> HIDE DEF CredentialsInv, SessionsInv, TypeOK
  <1>24. Seen
    <2> HIDE DEF Seen
    <2> QED BY <1>1, <1>2, <1>3, <1>4, <1>5, <1>6, <1>7, <1>8, <1>9, <1>10,
       <1>11, <1>12, <1>13, <1>14, <1>15, <1>16, <1>17, <1>18, <1>19, <1>20,
       <1>21, <1>22, <1>23 DEF Next, Continue
  <1> QED BY <1>24

LEMMA InitOpens == Init => Accounts!Open
  <1> SUFFICES ASSUME Init PROVE Accounts!Open
      OBVIOUS
  <1>1. {u \in Users : account[u].exists} = {} /\ AcceptedSessions = {}
      BY DEF Init, AcceptedSessions
  <1>2. [u \in Users |-> account[u].era] = [u \in Users |-> 0]
      BY DEF Init
  <1>3. \A id \in Records : Stage(id) = "unused" /\ record[id].user = None
      BY DEF Init, NoRecord, Stage, Open
  <1>4. \A id \in Records : Holding(id) = {}
      BY DEF Init, Idle, Holding, ResetSteps
  <1> QED BY <1>1, <1>2, <1>3, <1>4 DEF Accounts!Open

LEMMA CredentialsInvariant == Spec => []CredentialsInv
  <1>1. Init => CredentialsInv
      BY InitInv, InitCredentials DEF CredentialsInv
  <1>2. CredentialsInv /\ [Next]_vars => CredentialsInv'
      BY StepInv, StepSignedUp, StepTransaction DEF CredentialsInv, SessionsInv
  <1> QED BY <1>1, <1>2, PTL DEF Spec

(* Registrations, logins, password changes and resets of auth.service.ts,  *)
(* however they overlap, fail or are repeated, do what Credentials         *)
(* promises: the sessions accepted are of the password in force, and each  *)
(* reset follows from a claim on a code that was open and verified.        *)
THEOREM SessionsImplementCredentials == Spec => ImplementsCredentials
  <1>1. Init => Accounts!Open
      BY InitOpens
  <1>2. CredentialsInv /\ [Next]_vars => [Accounts!Operate]_(Accounts!accountVars)
      BY StepOperates
  <1> QED BY <1>1, <1>2, CredentialsInvariant, PTL
          DEF Spec, ImplementsCredentials, Accounts!AccountSpec

=============================================================================
