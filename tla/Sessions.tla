------------------------------ MODULE Sessions ------------------------------
(***************************************************************************)
(* Accounts, sessions and password resets of barivara-api                  *)
(* (src/auth/auth.service.ts, src/auth/strategies/jwt.strategy.ts,         *)
(* src/email/email.service.ts).                                            *)
(*                                                                         *)
(* A session is a JWT that carries the tokenVersion its user had when it   *)
(* was signed; raising User.tokenVersion ends every session at once.  A    *)
(* forgotten password takes three requests, tied together by a row of      *)
(* password_reset_tokens: forgot-password mails a code, verify-otp turns   *)
(* the code into a reset token, reset-password uses the token.  Requests   *)
(* interleave at their awaits; one action is one query, one committed      *)
(* write, or one answer of the mail server.                                *)
(*                                                                         *)
(* Passwords, codes and hashes are left out.  What matters of a password   *)
(* is its `era', the number of changes before it; of a code, the record it *)
(* was mailed for; of a reset token, whether its record has one.           *)
(* A check that fails without writing anything is no step.                 *)
(*                                                                         *)
(* `era', `uses', `settled', `unsent' and `shared' are history: no guard   *)
(* reads them.                                                             *)
(***************************************************************************)
EXTENDS Naturals, FiniteSets

CONSTANTS
    Requests,     \* requests that may be running at the same time
    Users,        \* people with or without an account, all with an e-mail address
    Identifiers,  \* e-mail addresses and phone numbers
    Contact,      \* Contact[u]: the identifiers u registers
    MaxAttempts,  \* OTP_MAX_ATTEMPTS
    MaxCalls,     \* bounds the requests ever begun
    MaxRecords,   \* bounds the reset codes ever inserted
    None          \* no user, no identifier

Records == 1..MaxRecords    \* ids of PasswordResetToken rows, in order of creation

ASSUME RequestsAssumption == IsFiniteSet(Requests)
ASSUME ContactAssumption == Contact \in [Users -> SUBSET Identifiers]
ASSUME BoundsAssumption ==
    MaxAttempts \in Nat \ {0} /\ MaxCalls \in Nat /\ MaxRecords \in Nat
ASSUME NoneAssumption == None \notin Users \cup Identifiers

VARIABLES
    account,   \* account[u]: the User row of u
    tokens,    \* JWTs signed so far
    record,    \* record[id]: the PasswordResetToken row
    mailed,    \* records whose code has reached its user
    req,       \* req[r]: where request r stands, and what it read
    calls,     \* the number of requests begun
    uses,      \* uses[id]: password changes made with the reset tokens of id
    settled,   \* records superseded by a newer request or spent by a reset
    unsent,    \* records whose request died before the mail was settled
    shared     \* records that two reset requests held at the same time

vars == <<account, tokens, record, mailed, req, calls, uses, settled, unsent, shared>>

-----------------------------------------------------------------------------
(* Rows and requests.                                                      *)

Account == [exists : BOOLEAN, version : Nat, era : Nat]

Token == [user : Users, version : Nat, era : Nat]

(* open is completedAt = null, and verified that the row holds the hash of *)
(* a reset token and no longer that of the code; recent says that it was   *)
(* created within the cooldown.                                            *)
Record == [state : {"absent", "open", "completed", "deleted"},
           user : Users \cup {None}, identifier : Identifiers \cup {None},
           recent : BOOLEAN, attempts : Nat, verified : BOOLEAN]

NoRecord == [state |-> "absent", user |-> None, identifier |-> None,
             recent |-> FALSE, attempts |-> 0, verified |-> FALSE]

NewRecord(u, i) == [NoRecord EXCEPT !.state = "open", !.user = u,
                                    !.identifier = i, !.recent = TRUE]

AuthSteps == {"registering", "signing", "leaving", "checking", "changing"}
AskSteps == {"asking", "superseded", "mailing", "cleaning"}
VerifySteps == {"limiting", "matching", "missing", "locking"}
ResetSteps == {"resetting", "committing"}

Request == [at : {"idle"} \cup AuthSteps \cup AskSteps \cup VerifySteps \cup ResetSteps,
            user : Users \cup {None}, identifier : Identifiers \cup {None},
            record : Records \cup {0}, version : Nat, era : Nat,
            present : SUBSET Records]

Idle == [at |-> "idle", user |-> None, identifier |-> None, record |-> 0,
         version |-> 0, era |-> 0, present |-> {}]

Open(id) == record[id].state = "open"

Existing == {id \in Records : record[id].state # "absent"}

End(r) == req' = [req EXCEPT ![r] = Idle]

Begin(r, fields) ==
    /\ req[r].at = "idle" /\ calls < MaxCalls
    /\ req' = [req EXCEPT ![r] = fields]
    /\ calls' = calls + 1

Proceed(r, step) == req' = [req EXCEPT ![r].at = step]

(* Rows that an uncommitted reset has updated: other writers wait.         *)
UserLocked(u) == \E g \in Requests : req[g].at = "committing" /\ req[g].user = u

Locked(id) ==
    \E g \in Requests :
      /\ req[g].at = "committing"
      /\ id = req[g].record \/ (id \in req[g].present /\ Open(id))

-----------------------------------------------------------------------------
AccountsTyped == account \in [Users -> Account] /\ tokens \subseteq Token

RecordsTyped == record \in [Records -> Record]

RequestsTyped == req \in [Requests -> Request]

HistoryTyped ==
    /\ mailed \subseteq Records
    /\ calls \in 0..MaxCalls
    /\ uses \in [Records -> Nat]
    /\ settled \subseteq Records
    /\ unsent \subseteq Records
    /\ shared \subseteq Records

(* Nothing is written into a row that is not there.                        *)
RemovedEmpty ==
    \A id \in Records : record[id].state \in {"absent", "deleted"} =>
      /\ record[id].user = None /\ record[id].identifier = None
      /\ record[id].attempts = 0 /\ ~record[id].recent /\ ~record[id].verified

TypeOK ==
    /\ AccountsTyped /\ RecordsTyped /\ RequestsTyped /\ HistoryTyped
    /\ RemovedEmpty

Init ==
    /\ account = [u \in Users |-> [exists |-> FALSE, version |-> 0, era |-> 0]]
    /\ tokens = {}
    /\ record = [id \in Records |-> NoRecord]
    /\ mailed = {}
    /\ req = [r \in Requests |-> Idle]
    /\ calls = 0
    /\ uses = [id \in Records |-> 0]
    /\ settled = {} /\ unsent = {} /\ shared = {}

-----------------------------------------------------------------------------
(* AuthService.register: look for the identifiers, hash, insert.  Accounts *)
(* are never removed, so looking for both identifiers at the first of the  *)
(* two lookups refuses no more than the code does.                         *)
Taken(u) == \E v \in Users : account[v].exists /\ Contact[v] \cap Contact[u] # {}

RegisterRead(r, u) ==
    /\ ~Taken(u)
    /\ Begin(r, [Idle EXCEPT !.at = "registering", !.user = u])
    /\ UNCHANGED <<account, tokens, record, mailed, uses, settled, unsent, shared>>

RegisterInsertUnindexed(r) ==
    LET u == req[r].user IN
    /\ req[r].at = "registering"
    /\ account' = [account EXCEPT ![u].exists = TRUE]
    /\ Proceed(r, "signing")
    /\ UNCHANGED <<calls, tokens, record, mailed, uses, settled, unsent, shared>>

(* The unique indexes on email and phone decide between two inserts.       *)
RegisterInsert(r) ==
    LET u == req[r].user IN
    /\ req[r].at = "registering"
    /\ IF Taken(u)
       THEN End(r) /\ UNCHANGED account
       ELSE /\ account' = [account EXCEPT ![u].exists = TRUE]
            /\ Proceed(r, "signing")
    /\ UNCHANGED <<calls, tokens, record, mailed, uses, settled, unsent, shared>>

(* AuthService.login: the row that the password is verified against is the *)
(* row whose tokenVersion is signed.                                       *)
LoginRead(r, u) ==
    /\ account[u].exists
    /\ Begin(r, [Idle EXCEPT !.at = "signing", !.user = u,
                   !.version = account[u].version, !.era = account[u].era])
    /\ UNCHANGED <<account, tokens, record, mailed, uses, settled, unsent, shared>>

(* JwtStrategy.validate and the check of AuthService.refresh.              *)
Valid(t) == account[t.user].exists /\ t.version = account[t.user].version

RefreshOfAnyVersion(r, t) ==
    /\ account[t.user].exists
    /\ Begin(r, [Idle EXCEPT !.at = "signing", !.user = t.user,
                   !.version = account[t.user].version, !.era = t.era])
    /\ UNCHANGED <<account, tokens, record, mailed, uses, settled, unsent, shared>>

RefreshRead(r, t) ==
    /\ Valid(t)
    /\ Begin(r, [Idle EXCEPT !.at = "signing", !.user = t.user,
                   !.version = account[t.user].version, !.era = t.era])
    /\ UNCHANGED <<account, tokens, record, mailed, uses, settled, unsent, shared>>

(* AuthService.generateTokens: signed with the version that was read.      *)
GenerateTokensOfCurrentVersion(r) ==
    /\ req[r].at = "signing"
    /\ tokens' = tokens \cup {[user |-> req[r].user, era |-> req[r].era,
                               version |-> account[req[r].user].version]}
    /\ End(r)
    /\ UNCHANGED <<calls, account, record, mailed, uses, settled, unsent, shared>>

GenerateTokens(r) ==
    /\ req[r].at = "signing"
    /\ tokens' = tokens \cup {[user |-> req[r].user, era |-> req[r].era,
                               version |-> req[r].version]}
    /\ End(r)
    /\ UNCHANGED <<calls, account, record, mailed, uses, settled, unsent, shared>>

-----------------------------------------------------------------------------
(* JwtAuthGuard in front of logout, change-password, reset-password-direct. *)
Authenticated(r, t, step) ==
    /\ Valid(t)
    /\ Begin(r, [Idle EXCEPT !.at = step, !.user = t.user])
    /\ UNCHANGED <<account, tokens, record, mailed, uses, settled, unsent, shared>>

(* AuthService.logout.                                                     *)
LogoutWrite(r) ==
    LET u == req[r].user IN
    /\ req[r].at = "leaving"
    /\ ~UserLocked(u)
    /\ account' = [account EXCEPT ![u].version = @ + 1]
    /\ End(r)
    /\ UNCHANGED <<calls, tokens, record, mailed, uses, settled, unsent, shared>>

(* changePassword verifies the caller's password; resetPasswordDirect that *)
(* of the account its identifier names.                                    *)
CheckPassword(r, u) ==
    /\ req[r].at = "checking"
    /\ account[u].exists
    /\ req' = [req EXCEPT ![r] = [Idle EXCEPT !.at = "changing", !.user = u]]
    /\ UNCHANGED <<calls, account, tokens, record, mailed, uses, settled, unsent, shared>>

ChangeWriteKeepingSessions(r) ==
    LET u == req[r].user IN
    /\ req[r].at = "changing"
    /\ ~UserLocked(u)
    /\ account' = [account EXCEPT ![u].era = @ + 1]
    /\ End(r)
    /\ UNCHANGED <<calls, tokens, record, mailed, uses, settled, unsent, shared>>

ChangeWrite(r) ==
    LET u == req[r].user IN
    /\ req[r].at = "changing"
    /\ ~UserLocked(u)
    /\ account' = [account EXCEPT ![u].version = @ + 1, ![u].era = @ + 1]
    /\ End(r)
    /\ UNCHANGED <<calls, tokens, record, mailed, uses, settled, unsent, shared>>

-----------------------------------------------------------------------------
(* AuthService.forgotPassword: the cooldown, then the codes it supersedes, *)
(* then the new code, then the mail, and the code again if it was not sent. *)
Recent(i) == \E id \in Existing :
    record[id].identifier = i /\ record[id].recent

AskRead(r, u, i) ==
    /\ account[u].exists
    /\ i \in Contact[u]
    /\ ~Recent(i)
    /\ Begin(r, [Idle EXCEPT !.at = "asking", !.user = u, !.identifier = i])
    /\ UNCHANGED <<account, tokens, record, mailed, uses, settled, unsent, shared>>

Of(i) == {id \in Existing : record[id].identifier = i}

Complete(ids) ==
    record' = [id \in Records |->
                 IF id \in ids /\ Open(id)
                 THEN [record[id] EXCEPT !.state = "completed"] ELSE record[id]]

AskSupersedeLive(r) ==
    /\ req[r].at = "asking"
    /\ \A id \in Of(req[r].identifier) : Open(id) => ~Locked(id)
    /\ Complete({id \in Of(req[r].identifier) : ~record[id].verified})
    /\ settled' = settled \cup Of(req[r].identifier)
    /\ Proceed(r, "superseded")
    /\ UNCHANGED <<calls, account, tokens, mailed, uses, unsent, shared>>

AskSupersede(r) ==
    /\ req[r].at = "asking"
    /\ \A id \in Of(req[r].identifier) : Open(id) => ~Locked(id)
    /\ Complete(Of(req[r].identifier))
    /\ settled' = settled \cup Of(req[r].identifier)
    /\ Proceed(r, "superseded")
    /\ UNCHANGED <<calls, account, tokens, mailed, uses, unsent, shared>>

(* The next id; with MaxRecords rows there, no more are inserted.          *)
AskCreate(r) ==
    /\ req[r].at = "superseded"
    /\ \E id \in Records :
         /\ record[id].state = "absent"
         /\ \A older \in Records : older < id => record[older].state # "absent"
         /\ record' = [record EXCEPT ![id] = NewRecord(req[r].user, req[r].identifier)]
         /\ req' = [req EXCEPT ![r].at = "mailing", ![r].record = id]
    /\ UNCHANGED <<calls, account, tokens, mailed, uses, settled, unsent, shared>>

MailSent(r) ==
    /\ req[r].at = "mailing"
    /\ mailed' = mailed \cup {req[r].record}
    /\ End(r)
    /\ UNCHANGED <<calls, account, tokens, record, uses, settled, unsent, shared>>

(* The server refuses the mail, or its acceptance is lost on the way back. *)
MailIgnored(r) ==
    /\ req[r].at = "mailing"
    /\ mailed' \in {mailed, mailed \cup {req[r].record}}
    /\ End(r)
    /\ UNCHANGED <<calls, account, tokens, record, uses, settled, unsent, shared>>

MailFails(r) ==
    /\ req[r].at = "mailing"
    /\ mailed' \in {mailed, mailed \cup {req[r].record}}
    /\ Proceed(r, "cleaning")
    /\ UNCHANGED <<calls, account, tokens, record, uses, settled, unsent, shared>>

DeleteRecord(r) ==
    LET id == req[r].record IN
    /\ req[r].at = "cleaning"
    /\ ~Locked(id)
    /\ record' = [record EXCEPT ![id] = [NoRecord EXCEPT !.state = "deleted"]]
    /\ End(r)
    /\ UNCHANGED <<calls, account, tokens, mailed, uses, settled, unsent, shared>>

(* Time: the oldest record within the cooldown leaves it.                  *)
GrowOlder(id) ==
    /\ record[id].recent
    /\ \A old \in Records : old < id => ~record[old].recent
    /\ record' = [record EXCEPT ![id].recent = FALSE]
    /\ UNCHANGED <<calls, account, tokens, mailed, req, uses, settled, unsent, shared>>

-----------------------------------------------------------------------------
(* AuthService.verifyPasswordResetOtp: the newest open record, judged as it *)
(* was when it was read; `code' is the record whose code was typed in, 0   *)
(* for a mistyped one.  Codes and reset tokens expire in the order they    *)
(* were issued in, so an expired one only makes the request find nothing.  *)
Standing(i) == {id \in Of(i) : Open(id)}

VerifyReadUnlimited(r, i, code) ==
    \E id \in Standing(i) :
      /\ \A other \in Standing(i) : other <= id
      /\ code \in mailed \cup {0}
      /\ record[id].attempts < MaxAttempts + 4
      /\ Begin(r, [Idle EXCEPT !.record = id, !.user = record[id].user, !.at =
           IF code = id /\ ~record[id].verified THEN "matching" ELSE "missing"])
      /\ UNCHANGED <<account, tokens, record, mailed, uses, settled, unsent, shared>>

VerifyRead(r, i, code) ==
    \E id \in Standing(i) :
      /\ \A other \in Standing(i) : other <= id
      /\ code \in mailed \cup {0}
      /\ Begin(r, [Idle EXCEPT !.record = id, !.user = record[id].user, !.at =
           IF record[id].attempts >= MaxAttempts THEN "limiting"
           ELSE IF code = id /\ ~record[id].verified THEN "matching"
           ELSE IF record[id].attempts + 1 >= MaxAttempts THEN "locking"
           ELSE "missing"])
      /\ UNCHANGED <<account, tokens, record, mailed, uses, settled, unsent, shared>>

(* One update by id, whatever has become of the row since; the update of   *)
(* a deleted row fails.                                                    *)
JudgedUnseen(rec, step) ==
    CASE step = "limiting" -> [rec EXCEPT !.state = "completed"]
      [] step = "missing"  -> [rec EXCEPT !.attempts = @ + 1]
      [] step = "locking"  -> [rec EXCEPT !.attempts = @ + 1, !.state = "completed"]
      [] OTHER             -> [rec EXCEPT !.verified = TRUE]

JudgedReopening(rec, step) ==
    IF rec.state = "deleted" THEN rec
    ELSE IF step = "matching" THEN [rec EXCEPT !.verified = TRUE, !.state = "open"]
    ELSE JudgedUnseen(rec, step)

Judged(rec, step) ==
    IF rec.state = "deleted" THEN rec
    ELSE CASE step = "limiting" -> [rec EXCEPT !.state = "completed"]
           [] step = "missing"  -> [rec EXCEPT !.attempts = @ + 1]
           [] step = "locking"  -> [rec EXCEPT !.attempts = @ + 1, !.state = "completed"]
           [] step = "matching" -> [rec EXCEPT !.verified = TRUE]

VerifyWrite(r) ==
    LET id == req[r].record IN
    /\ req[r].at \in VerifySteps
    /\ ~Locked(id)
    /\ record' = [record EXCEPT ![id] = Judged(@, req[r].at)]
    /\ End(r)
    /\ UNCHANGED <<calls, account, tokens, mailed, uses, settled, unsent, shared>>

-----------------------------------------------------------------------------
(* AuthService.resetPassword: find the record by the hash of the token,    *)
(* check the user, then one transaction.                                   *)
Holding(id) == {g \in Requests : req[g].record = id /\ req[g].at \in ResetSteps}

ResetReadSpent(r, id) ==
    /\ record[id].state \in {"open", "completed"}
    /\ record[id].verified
    /\ Begin(r, [Idle EXCEPT !.at = "resetting", !.record = id,
                             !.user = record[id].user])
    /\ shared' = IF Holding(id) = {} THEN shared ELSE shared \cup {id}
    /\ UNCHANGED <<account, tokens, record, mailed, uses, settled, unsent>>

ResetReadUnverified(r, id) ==
    /\ Open(id)
    /\ Begin(r, [Idle EXCEPT !.at = "resetting", !.record = id,
                             !.user = record[id].user])
    /\ shared' = IF Holding(id) = {} THEN shared ELSE shared \cup {id}
    /\ UNCHANGED <<account, tokens, record, mailed, uses, settled, unsent>>

ResetRead(r, id) ==
    /\ Open(id)
    /\ record[id].verified
    /\ Begin(r, [Idle EXCEPT !.at = "resetting", !.record = id,
                             !.user = record[id].user])
    /\ shared' = IF Holding(id) = {} THEN shared ELSE shared \cup {id}
    /\ UNCHANGED <<account, tokens, record, mailed, uses, settled, unsent>>

(* The transaction's updates: the user's row, the record, the user's other *)
(* open records.  The first lock keeps every other reset of this user out, *)
(* so the three statements may be taken at the instant of the last.  The   *)
(* update of a deleted record fails and rolls everything back.             *)
ResetUpdate(r) ==
    LET u == req[r].user IN
    /\ req[r].at = "resetting"
    /\ ~UserLocked(u)
    /\ IF record[req[r].record].state = "deleted" THEN End(r)
       ELSE req' = [req EXCEPT ![r].at = "committing",
                      ![r].present = {id \in Existing : record[id].user = u}]
    /\ UNCHANGED <<calls, account, tokens, record, mailed, uses, settled, unsent, shared>>

ResetCommitOfIdentifier(r) ==
    LET u == req[r].user
        id == req[r].record IN
    /\ req[r].at = "committing"
    /\ account' = [account EXCEPT ![u].version = @ + 1, ![u].era = @ + 1]
    /\ Complete({o \in req[r].present : record[o].identifier = record[id].identifier})
    /\ uses' = [uses EXCEPT ![id] = @ + 1]
    /\ settled' = settled \cup req[r].present
    /\ End(r)
    /\ UNCHANGED <<calls, tokens, mailed, unsent, shared>>

ResetCommit(r) ==
    LET u == req[r].user IN
    /\ req[r].at = "committing"
    /\ account' = [account EXCEPT ![u].version = @ + 1, ![u].era = @ + 1]
    /\ Complete(req[r].present)
    /\ uses' = [uses EXCEPT ![req[r].record] = @ + 1]
    /\ settled' = settled \cup req[r].present
    /\ End(r)
    /\ UNCHANGED <<calls, tokens, mailed, unsent, shared>>

(* A request may die at any await; a transaction under way is rolled back. *)
Abort(r) ==
    /\ req[r].at # "idle"
    /\ unsent' = IF req[r].at \in {"mailing", "cleaning"}
                 THEN unsent \cup {req[r].record} ELSE unsent
    /\ End(r)
    /\ UNCHANGED <<calls, account, tokens, record, mailed, uses, settled, shared>>

-----------------------------------------------------------------------------
Continue(r) ==
    \/ RegisterInsert(r) \/ GenerateTokens(r) \/ LogoutWrite(r)
    \/ (\E u \in Users : CheckPassword(r, u)) \/ ChangeWrite(r)
    \/ AskSupersede(r) \/ AskCreate(r) \/ MailSent(r) \/ MailFails(r)
    \/ DeleteRecord(r) \/ VerifyWrite(r) \/ ResetUpdate(r) \/ ResetCommit(r)

Next ==
    \/ \E r \in Requests, u \in Users : RegisterRead(r, u) \/ LoginRead(r, u)
    \/ \E r \in Requests, t \in tokens :
         \/ RefreshRead(r, t)
         \/ \E step \in {"leaving", "checking"} : Authenticated(r, t, step)
    \/ \E r \in Requests, u \in Users, i \in Identifiers : AskRead(r, u, i)
    \/ \E r \in Requests, i \in Identifiers, code \in Records \cup {0} :
         VerifyRead(r, i, code)
    \/ \E r \in Requests, id \in Records : ResetRead(r, id)
    \/ \E r \in Requests : Continue(r) \/ Abort(r)
    \/ \E id \in Records : GrowOlder(id)

Spec == Init /\ [][Next]_vars

-----------------------------------------------------------------------------
(* A session that is still accepted was opened with the password that is   *)
(* still in force: changing the password, by any of the three ways and     *)
(* beside any number of logins and refreshes under way, leaves no session  *)
(* of the old one.                                                         *)
SessionsKnowPassword ==
    \A t \in tokens : Valid(t) => t.era = account[t.user].era

(* Two accounts share no e-mail address and no phone number, though both   *)
(* registrations found them free.                                          *)
AccountsDistinct ==
    \A u, v \in Users :
      account[u].exists /\ account[v].exists /\ u # v => Contact[u] \cap Contact[v] = {}

(* A code that a newer request superseded, or that was there when a reset  *)
(* of its user committed, is closed and stays closed.                      *)
SettledStayClosed == \A id \in settled : ~Open(id)

(* A code stands open only if its mail has gone out or its request is      *)
(* still at it, unless that request died.                                  *)
OpenCodesSent ==
    \A id \in Records \ unsent :
      Open(id) => \/ id \in mailed
                  \/ \E r \in Requests : req[r].record = id
                                           /\ req[r].at \in {"mailing", "cleaning"}

(* Mistyped codes are counted one by one and the record closes at the      *)
(* limit, which requests that read the count together can overrun only by  *)
(* as many as they are.                                                    *)
MistakesBounded ==
    \A id \in Records :
      record[id].attempts <= (MaxAttempts - 1) + Cardinality(Requests)

(* One verified code changes the password once, unless two reset requests  *)
(* held it together: the transaction closes it by id and does not look.    *)
SpentOnce == \A id \in Records \ shared : uses[id] <= 1

-----------------------------------------------------------------------------
(* The rows as Credentials shows them: versions, attempts, mails and locks *)
(* are hidden, and so is what becomes of a record once it is closed.       *)
Stage(id) ==
    CASE record[id].state = "absent" -> "unused"
      [] Open(id) -> IF record[id].verified THEN "verified" ELSE "open"
      [] OTHER    -> "closed"

AcceptedSessions ==
    {[user |-> t.user, password |-> t.era] : t \in {s \in tokens : Valid(s)}}

Accounts == INSTANCE Credentials WITH
    Codes <- Records,
    Claimants <- Requests,
    registered <- {u \in Users : account[u].exists},
    password <- [u \in Users |-> account[u].era],
    sessions <- AcceptedSessions,
    code <- [id \in Records |-> [stage |-> Stage(id), owner |-> record[id].user]],
    claims <- [id \in Records |-> Holding(id)]

(* Whatever requests overlap, die or are repeated, their queries, tokens,  *)
(* mails and transactions add up to signing in and out, changing passwords *)
(* and resetting them by verified codes, each claim once.                  *)
ImplementsCredentials == Accounts!AccountSpec

=============================================================================
