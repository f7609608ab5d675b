# A verification project for barivara-api

barivara-api is the backend of a house-rent manager: a NestJS application over
PostgreSQL (through Prisma) and a Supabase file store. Owners register
properties and units, sign rental agreements with tenants, bill them every
month, record and reverse payments, and send reminders. This directory holds
TLA+ models of the parts of it that are stateful and concurrent, the TLC
configurations that check them, and proofs checked by TLAPS. Paths below are
those of the repository (`src/...`).

## 1. How the system runs, and what that means for a model

* The API process keeps no state between requests. All state is rows; a request
  handler is an async function that alternates `await`ed queries with
  computation on what they returned. Between two `await`s of one handler any
  other handler, of this process or of another instance, may commit.
* There is no scheduler and no background job. Whatever must be brought up to
  date (overdue statuses) is brought up to date by a request that looks at it.
* Multi-step writes use `prisma.$transaction(async tx => ...)` without an
  isolation level: PostgreSQL's READ COMMITTED. A statement sees what is
  committed when it starts; a row written by an open transaction is locked and
  makes other writers of the row wait; a figure computed in the process from a
  row read earlier is not protected by anything.
* An interactive transaction is rolled back on an exception, on Prisma's
  timeout, and when the process or the connection dies.

So in every module the state is the committed rows plus, for each running
request, what it remembers of what it read; one action is one read or one
committed write; and a request may fail at any point.

## 2. Inventory

| Component | State | Operations | Interacts with |
|---|---|---|---|
| Payments (`payments.service.ts`) | `Payment` rows, amounts of `MonthlyRent` | create, reverse, list, receipt | monthly rents (shared row), users and files (signature snapshot), audit log |
| Monthly rents (`monthly-rents.service.ts`) | `MonthlyRent` rows | generate, create, findOne (writes the status), update, recalculateStatus, lists (refresh overdue) | agreements (source of bills), payments |
| Amount and status arithmetic (`decimal.util.ts`, `rent-calculation.util.ts`) | none | totals, remaining amount, status | all money operations |
| Date arithmetic (`date.util.ts`) | none | due date, overdue, billing periods | bills, agreements, dashboard |
| Rental agreements (`rental-agreements.service.ts`) | `RentalAgreement` rows, `Unit.status` | create, update, end | units, tenants, monthly rents (first bill) |
| Units (`units.service.ts`) | `Unit` rows | create, bulkCreate, update, remove | agreements |
| Tenants (`tenants.service.ts`) | `Tenant` rows | create, update, remove | agreements, reminders |
| Properties (`properties.service.ts`) | `Property` rows | create, update, remove, summary | units |
| Files (`files.service.ts`, storage) | `Media` rows, objects in buckets | requestUploadUrl, completeUpload, getFileUrl, deleteFile | users, payments |
| Users (`users.service.ts`) | `User` rows | updateSignature, updateProfile | files |
| Authentication (`auth.service.ts`, `jwt.strategy.ts`) | `tokenVersion`, `PasswordResetToken` rows | register, login, refresh, logout, changePassword, forgotPassword, verifyPasswordResetOtp, resetPassword, resetPasswordDirect | email |
| Reminders (`reminders.service.ts`) | `Reminder` rows | create (no duplicates), update, send | tenants, monthly rents |
| Expenses, dashboard, reports, audit log | rows of their own, or none | CRUD, aggregation | dashboard refreshes overdue bills |
| Guards, filters, interceptors, configuration, health, email | none | wrapping, validation, sending | everything |

What makes each stateful component correct, and what is hard about it:

* **Payments and monthly rents.** The paid amount of a bill is the sum of its
  COMPLETED payments; the remaining amount and the status follow from total and
  paid amount; nothing is accepted beyond what is due; a payment is given back
  once. Hard: three services' worth of handlers read a bill, compute, and write
  it back, in transactions that do not exclude each other; the reversal check
  is outside its transaction; reading a bill writes it.
* **Rental agreements and units.** At most one ACTIVE agreement per unit and per
  tenant; a unit is OCCUPIED exactly when it has one. Hard: checks are reads
  followed by an insert (write skew); update re-activates agreements and moves
  them between units; unit status is also written directly and by removal.
* **Billing periods.** One bill per agreement and month, no gap from the start
  of the agreement, due date in the following month, clamped to its length.
  Hard: boundaries (December, short months, start and end inside a month),
  generation running twice or beside create.
* **Files and signatures.** A file that can be downloaded is in storage; a
  deleted file is marked so and its object goes; a signature in use can be
  shown. Hard: awaits on an external store between read and unconditional
  write, a client that uploads when it likes, a removal nobody waits for.
* **Authentication.** A session that is accepted was opened with the current
  password; a reset code has a limited number of attempts and one use; codes
  that were superseded stay closed. Hard: check-then-write on attempts and
  codes, tokens signed from rows read before, mail failing half-way.
* **Reminders.** One pending reminder per bill, type and time. Hard:
  check-then-insert, unconditional status writes.

The hazards this leads to are listed with their lines in `PROJECT.json`.

## 3. Modules

| Module | Models | Companions |
|---|---|---|
| `RentLedger` | payments, the amounts and statuses of bills | `AtomicLedger` (what it implements), `MCRentLedger`, `RentLedgerProofs`, `AtomicLedgerProofs` |
| `Occupancy` | agreements, units, tenants | `LeaseBook` (what it implements), `MCOccupancy`, `OccupancyProofs`, `LeaseBookProofs` |
| `Billing` | due dates, billing periods, generation and creation of bills | `MCBilling`, `BillingProofs` |
| `Reminders` | reminders; extends `Billing`, whose bills they are about | as above |
| `Uploads` | media rows, the object store, signatures, their use by payments | `MCUploads`, `UploadsProofs` |
| `Sessions` | accounts, sessions, password resets with the mail server | `Credentials` (what it implements), `MCSessions`, `SessionsProofs`, `CredentialsProofs` |

Operations of one row that two services share are in one module: the signature
a payment keeps is in `Uploads`, the first bill of an agreement in `Billing`.
`Occupancy` and `Billing` are two views of the same agreements: `Occupancy` has
who may hold which unit, `Billing` has terms and due days and lets them change
in any way `Occupancy`'s updates could. Left for later: unit numbers and
`bulkCreate`.

## 4. The ledger: `RentLedger`

Variables and code:

| Variable | Code |
|---|---|
| `bill[b]` | committed `MonthlyRent` row; `charge` is the sum of rent, service fee, parking fee, extra charge and late fee, the discount is apart: two groups that an update may write separately, which is what a partial update needs |
| `payment[p]` | committed `Payment` row: bill, amount, status; `ABSENT` is an id not used yet |
| `late[b]` | the clock has passed `dueDate` (`DateUtil.isOverdue`) |
| `pc[h]`, `req[h]` | where request `h` stands and the figures it will compute from |
| `missed[h]`, `tainted[b]` | history only: which figures of its bill others have committed since `h` read them; which figures of `b` were last written from such an overtaken read. No guard reads them |

Actions, in the order of the code:

* `CreateCheck`, `CreateReread` or `CreateReject`, `CreateCommit`:
  `PaymentsService.create`. The outer read and checks, the second read and
  checks inside the transaction, and the commit of payment row and bill row
  together, computed from the second read. The payment date decides the
  overdue part of the status and may lie in the past.
* `ReverseCheck`, `ReverseMark`, `ReverseSum`, `ReverseCommit`:
  `PaymentsService.reverse`. Payment, bill total and status check are read
  before the transaction; the UPDATE of the payment row takes its lock (a second
  reversal of the same payment waits, then goes on: its WHERE names only the
  id); the aggregate sees committed payments less the marked one; the bill is
  written from the sum and the total read first.
* `FindStale` or `FindCurrent`, `LazyStatusWrite`: `MonthlyRentsService.findOne`,
  which writes the status it calculated when the stored one differs, and hands
  on the row that the UPDATE returned. `RecalculateStatus` and `Update` start
  with it, as the code does.
* `RefreshOverdueStatuses`: the single UPDATE that the lists and the dashboard
  begin with.
* `DueDatePasses`: the clock. `Fail`: crash, lost connection, transaction
  timeout.

Abstractions: amounts are whole paisa (the columns are `Decimal(12,2)`; the
request DTO does not limit decimals, see the hazard on rounding); ids,
ownership, audit entries, paidDate and message texts are left out; an
UPDATE with a WHERE clause is one step. No code path sets the status
CANCELLED, so no bill is ever cancelled, but the guards on it are kept. Bills
start in any state their three creators give them: unpaid, any charges, status
calculated or PENDING.

### Properties

* `TypeOK`: types, in particular that no amount goes below zero.
* `LedgerExact`: paid amount = sum of COMPLETED payments, unless the amount was
  written over a payment or reversal committed after the writer's read. The
  exception is exactly as wide as READ COMMITTED makes it: one stale write
  taints the bill, and a reversal whose sum missed nothing makes it exact again.
* `BalanceExact`, `TotalExact`, `StatusExact`: the same for the remaining
  amount, the total and the status, each with its own way of going stale.
* `AcceptedWithinDue` (action property): no step takes the collected amount of
  a bill beyond its total while the bill's amounts are exact before and after.
* `RequestsEnd` (liveness): every request is answered.
* `ImplementsAtomicLedger`: refinement of `AtomicLedger`.
* `LedgerBalanced`: what the code's comment promises, refuted by the run
  `overlap`.

### `AtomicLedger`

The promise with no requests in it: a book with one entry per bill and the
receipts behind it; accepting a payment, undoing one and changing a total are
single steps after which the entry is the one the receipts allow. `RentLedger`
implements it (status and due date hidden) as long as requests keep apart
(`ApartSpec`): no two of them hold figures of one bill at the same time, that is,
between the read their amounts are computed from and the write (`Holding`). They
may run beside each other on different bills, and check, view, recalculate or
fail beside each other on the same one. No lock of the code enforces this; it is
what the code would have to ensure, and the theorems show that it is enough,
also for `LedgerBalanced`. When requests do meet on a bill, what remains true is
what the invariants above say.

## 5. Agreements and units: `Occupancy`

Variables and code:

| Variable | Code |
|---|---|
| `agreement[a]` | committed `RentalAgreement` row: tenant, unit, status; `NoRow` is an id not used yet. Nothing sets an agreement's `deletedAt`, so it is left out |
| `unit[u]` | committed `Unit.status` |
| `removed` | units and tenants whose `deletedAt` is set |
| `pc[h]`, `req[h]` | where request `h` stands; what it asks for (`unit`, `tenant`, `status`; `None` is a field that is absent), the row `findOne` gave it (`old`), the queries it still has to make (`todo`), what its scan decided (`vacate`) |
| `missed[h]`, `doubtful[a]`, `drifted` | history only: what others have committed since `h` looked; sides on which `a` became active unverified; units whose status was last written against their leases. No guard reads them |

Actions:

* `CreateBegin`, `Check`, `Reject`, `CreateCommit`: `create`. Its six queries
  are made one by one, in the order of the code (`CreateOrder`): existence and
  overlap before the transaction, overlap again inside it. The insert of the
  agreement and the UPDATE of the unit become visible together.
* `UpdateBegin`, `Check`, `Reject`, `LockAgreement`, `OccupyUnit`,
  `ScanOldUnit`, `AmendCommit`: `update`. `findOne` decides which queries are
  made (`UpdateChecks`); then the transaction: UPDATE of the agreement (takes
  its lock, writes the fields given over the row as it then is), UPDATE of the
  unit let (lock), scan of the old unit's other agreements, UPDATE of the old
  unit if there are none, commit.
* `EndBegin` and the same transaction: `end`. Its statements are those of an
  update to ENDED: UPDATE of the agreement, scan, UPDATE of the unit.
* `UnitBegin`, `SetUnitCommit`, `RemoveUnitCommit`, `RemoveTenantBegin`,
  `RemoveTenantCommit`: `UnitsService.update` and `remove`,
  `TenantsService.remove`: `findOne`, then one UPDATE by id.
* `Fail`: crash, lost connection, timeout; a transaction leaves nothing.

Row locks are held from the UPDATE to the commit. A step whose UPDATE would
wait is disabled; a transaction that waits may be rolled back (`TimeOut`, a
`Fail`). Foreign keys only take key-share locks, which do not conflict with the
UPDATEs here. Ids are used once: the id a create will insert is reserved for it.

Left out: owners and their checks, terms and dates of agreements and the first
bill that `create` may add (see `Billing`), creation of units and tenants while
the system runs
(units are there from the start with any status `UnitsService.create` accepts).

### Properties

* `TypeOK`.
* `LeasesExclusive`: two ACTIVE agreements share a unit or a tenant only if one
  of them is doubtful on that side: it became active there with no query made
  (re-activation), or another commit overtook the answer (write skew).
* `OccupancyExact`: a unit is OCCUPIED exactly while it has an ACTIVE agreement,
  unless it drifted: set by hand against its leases, or written by a
  transaction whose agreement was moved or re-decided by another request after
  `findOne`, or whose scan was overtaken. Overlapping leases alone do not
  excuse a wrong status.
* `RequestsEnd` (liveness): every request ends.
* `ImplementsLeaseBook`: refinement of `LeaseBook`.
* `NoOverlap`: what the repository's README promises, refuted by the run
  `revive`, with one request after another. Two creates at once refute it too:
  the comment at `rental-agreements.service.ts:65` says the checks are repeated
  inside the transaction "to prevent concurrent race condition", but they are
  plain reads under READ COMMITTED, and neither transaction sees the other's
  row. `LeasesExclusive` says what is left of exclusiveness then.

### `LeaseBook`

The promise with no requests in it: per unit a tenant or nobody, and what has
been removed. Signing needs a free unit and a tenant without one, both not
removed; a change moves a lease to a free unit, hands it to a free tenant, or
both; leaving frees the unit; removing does not end a lease. `Occupancy`
implements it as long as requests keep apart (`ApartSpec`) and no update
re-activates an agreement; `Holder` is the mapping. Apart, no two requests at
work concern an agreement, a unit or a tenant in common (`Concerns`: what the
request names and what the row it read names); a status given to a unit by hand
concerns no lease and may run beside anything. Then `NoOverlap` holds too: the
two ways to break it are the one that the run `revive` shows and two requests
that meet.

## 6. Bills and reminders: `Billing`, `Reminders`

| Variable | Code |
|---|---|
| `agreement[a]` | committed `RentalAgreement` row: term (in months), due day, and `listed`: ACTIVE with nothing around it removed; `None` is not signed yet |
| `bills` | committed `MonthlyRent` rows: agreement, month, due date; `kind` and `by` say which request inserted the row |
| `req[r]` | where a request stands, the bills it is about to insert (`drafts`) |
| `promised`, `reported`, `owed`, `stale` | history only: what finished generations must have billed and what counts they answered; agreements amended while a generation runs |
| `reminder[k]`, `adding[r]` | committed `Reminder` rows; the reminder a request is about to insert |
| `excused`, `beside` | history only: reminders created beside one like them, or changed by hand |

* `Sign`: `RentalAgreementsService.create` with or without the bill of
  `createInitialMonthlyRent`, one transaction. `Amend`: `update`, `end` and the
  removals that take an agreement off the list of a generation.
* `GenerateRead`, `GenerateFind`, `GenerateInsert`: `MonthlyRentsService.generate`,
  for all of the owner's property or for one: agreements, existing bills,
  `createMany` with `skipDuplicates`. `CreateRead`, `CreateFind`, `CreateInsert`:
  `create`. The unique index on agreement, year and month is in the inserts.
* `DueDate`, `EligiblePeriods`: `DateUtil.calculateDueDate` and
  `getEligibleRentPeriods`; the loop is a recursive function over its
  iterations. `GenerationsComplete` compares the loop with what its comment
  promises (`Owed`) in use, and `LoopIsComplete` proves that the two agree.
* `AddRead`, `AddInsert`, `Update`, `Send`: `RemindersService`; `send` delivers
  nothing, it writes SENT.

Years before 2020 are never generated (`date.util.ts:107`), which the comment
above the function leaves out; `Owed` has the floor. The due day is validated to
1..31 wherever it comes from, so the defaults in the code never bite. Starts and
ends are read as months of the server's zone, due dates are instants in Dhaka;
the model has months and days. `includeCurrentMonthNewTenants`
(`generate-monthly-rent.dto.ts:31`, "also bill tenants who start in the current
month", default false) only reaches the audit entry: `generate` bills them in
any case, and so does the model.

Properties: `TypeOK` (every bill falls due on a day its month has);
`OneBillPerMonth`; `GenerationsComplete` (what was owed when a finished
generation looked is billed, by whomever); `CountsAddUp`; `GeneratedInTerm`
(action property: unless the agreement was amended meanwhile); `DueInOrder`;
`RemindersDistinct` (unless created beside each other or changed by hand).

## 7. Files: `Uploads`

| Variable | Code |
|---|---|
| `row[f]` | committed `Media` row: status, `deletedAt`, category, `uploadedBy` |
| `objects`, `urls`, `buckets` | the Supabase store: objects, upload URLs still valid, buckets |
| `signature[u]`, `receipts` | `User.signatureFileId`; files kept as `Payment.ownerSignatureSnapshotId` |
| `removals` | removals the process has asked for and nobody waits for |
| `req[r]` | where a request stands, its file and user |
| `crossed`, `stray` | history only: files written while somebody else's completion was running; files whose removal failed or that were uploaded after their deletion |

`CreateRow`, `SignUrl`: `requestUploadUrl`, with the limits on types and sizes.
`ClientUpload`, `UrlExpires`: the client and the store, of which the API sees
nothing. `CompleteRead`, `ProbeFound` or `ProbeAbsent`, `CompleteWrite`:
`completeUpload`; any error of the store counts as absent. `DeleteRead`,
`DeleteWrite`, then `RemoveObject` or `RemovalFails`: `deleteFile`. `LinkRead`,
`LinkNothing`, `LinkWrite`: `updateSignature`. `PaymentRead`, `PaymentWrite`:
the signature a payment keeps. `Abort`; `Restart`, which loses requests and
removals and creates missing buckets.

The DTO caps every file at 5 MB, below the configured 10 MB for documents; both
are in `ValidFileSize`. Left out: the checks of `validateEntityOwnership`, who
may attach a file to what, paths and names, signed download URLs.

Properties: `ServedIsStored` (what can be downloaded has its object);
`StatusMatchesDeletion` and `StatusMovesForward` (DELETED exactly with
`deletedAt`, no way back), both unless completions crossed: `completeUpload`
writes by id what it concluded from an earlier read, so a deletion in between is
overwritten in the status, though `deletedAt` stays; `SignaturesShown`; and
`DeletedObjectsGo` (liveness): the object of a deleted file leaves the store
unless its one removal failed or was lost, or the bytes came after it.

## 8. Accounts: `Sessions`

| Variable | Code |
|---|---|
| `account[u]` | `User` row: whether it exists, `tokenVersion`; `era` counts the password changes |
| `tokens` | JWTs ever signed: user, version, and the `era` of the password they go back to |
| `record[id]` | `PasswordResetToken` row: open, completed or deleted; attempts; whether the code has become a reset token |
| `mailed` | codes that have reached their user |
| `req[r]` | where a request stands, and what it read |
| `uses`, `settled`, `unsent`, `shared`, `era` | history only |

`RegisterRead`, `RegisterInsert` (the unique indexes decide), `LoginRead`,
`RefreshRead`, then `GenerateTokens` with the version that was read.
`Authenticated` is `JwtAuthGuard` with `JwtStrategy.validate`, in front of
`LogoutWrite` and of `CheckPassword`, `ChangeWrite` (`changePassword` and
`resetPasswordDirect`). `AskRead`, `AskSupersede`, `AskCreate`, `MailSent` or
`MailFails`, `DeleteRecord`: `forgotPassword`, four statements and a mail
server that may have delivered what it reports as failed. `VerifyRead`,
`VerifyWrite`: `verifyPasswordResetOtp`, whose one update by id depends on what
was read (`Judged`). `ResetRead`, `ResetUpdate`, `ResetCommit`: `resetPassword`,
with the row locks its transaction holds until it commits. `GrowOlder`: the
cooldown passes. Expired codes and tokens only make a request find nothing, so
expiry is no step; a check that fails without a write is none either. Hashing,
`isActive` (nothing writes it) and audit entries are left out.

Properties: `SessionsKnowPassword` (a token still accepted goes back to the
password in force); `AccountsDistinct`; `SettledStayClosed` (a superseded code,
or one there when a reset of its user committed, is never open again);
`OpenCodesSent` (unless the request died before the mail was settled);
`MistakesBounded` (at most one count beyond the limit for each other request at
work); `SpentOnce` (a code changes the password once, unless two resets held it
together: the transaction does not look again); `ImplementsCredentials`.

### `Credentials`

The promise with no queries, mails or locks in it: accounts, the sessions that
are accepted, each with the password it was opened with, and reset codes that go
from unused to open, verified and closed. Signing in opens a session of the
password in force; a change or a reset of the password ends all sessions of the
user; a code is verified only while open; a reset needs a claim, which is made
on a code that is verified at that moment and is used up by the reset, and it
closes the code. `Sessions` implements it with no condition on how requests
meet. In the mapping a session is a token that `Valid` accepts
(`AcceptedSessions`), the stage of a code is that of its row (`Stage`), and its
claims are the resets between their look at the row and their end (`Holding`).
Hidden are token versions, attempts, the cooldown, mails, locks and every read:
a login whose version is overtaken before its token is signed opens nothing, a
verification that comes after its code was closed verifies nothing.

What the code does not promise is visible in the abstract operations: a claim
outlives the closing of its code, so two resets that looked at the row together
both succeed, and a reset that looked before a newer code superseded its own
still goes through (`auth.service.ts:568` reads the row outside the
transaction). `SpentOnce` says how far that goes.

## 9. Runs

| Run | Instance | Checks | Shows |
|---|---|---|---|
| `ledger` | 2 requests (payment, reversal, update, recalculation), list requests, 1 bill, 2 payments of 1, charge 2, discount 0..1 | `TypeOK`, `LedgerExact`, `BalanceExact`, `TotalExact`, `StatusExact`, `AcceptedWithinDue` | payments, double reversals, partial updates, views, recalculations, refresh, the due date, rollback, in every order |
| `answered` | 3 requests, 2 payments, fairness, no symmetry | `RequestsEnd` | waits on the row lock end |
| `atomic` | 2 requests that keep apart (`ApartSpec`), 2 bills, 2 payments, every kind but `recalculate` | `LedgerBalanced`, `ImplementsAtomicLedger` | requests that do not meet on a bill implement the atomic book |
| `overlap` | 2 requests, 2 payments | `LedgerBalanced` violated | a lost update of the paid amount |
| `tenancies` | 2 requests, 2 agreements, 1 unit, 2 tenants; create, update (tenant, ACTIVE), end, removal of the unit | `TypeOK`, `LeasesExclusive` | handing over, ending, re-activating |
| `units` | 2 requests, 2 agreements, 2 units, 1 tenant; create, update (unit, ENDED), end, status by hand, removal of the tenant | `LeasesExclusive`, `OccupancyExact` | moving between units; a status set by hand is brought back into line |
| `book` | 2 requests that keep apart (`ApartSpec`), 2 agreements, 2 units, 2 tenants, every kind | `NoOverlap`, `ImplementsLeaseBook` | requests that do not meet implement the lease book |
| `leases_answered` | 2 updates, 2 ended agreements, 2 units, fairness, no symmetry | `RequestsEnd` | cross moves wait for each other and end |
| `revive` | 1 request at a time, 1 unit | `NoOverlap` violated | re-activation is not checked |
| `billing` | 2 requests, 4 calls, 2 agreements, terms from 2019-11 and 2020-11..12, due days 10 and 31, targets 2020-01 and 2021-01, 2 reminders | `TypeOK`, `OneBillPerMonth`, `GenerationsComplete`, `CountsAddUp`, `DueInOrder`, `RemindersDistinct`, `GeneratedInTerm` | overlapping generations, bills by hand and reminders while agreements change |
| `files` | 3 requests, 1 file, 1 owner, 2 categories, fairness | `TypeOK`, `ServedIsStored`, `StatusMatchesDeletion`, `SignaturesShown`, `StatusMovesForward`, `DeletedObjectsGo` | completions, deletions and signatures cross; the store fails; restarts |
| `sessions` | 2 requests, 6 calls, 2 users with a phone number in common, 2 codes, 2 attempts | `TypeOK`, `SessionsKnowPassword`, `AccountsDistinct`, `SettledStayClosed`, `OpenCodesSent`, `MistakesBounded`, `SpentOnce`, `ImplementsCredentials` | logins beside password changes, resets beside resets, failing mails |

Bounds of the ledger runs and why they are enough: bills do not interact except
through the shared set of requests (no operation writes two bills but the
refresh, which treats them separately), so one bill is enough wherever the
property is about a bill, and two are used where the refinement quantifies over
the book. A lost update needs two requests; more of them are covered by the
proofs, which hold for any number, and by `answered`, where two reversals wait
behind a third. Two payments make a reversal leave something behind and fill a
bill of two: it can be unpaid, partly paid, paid, or overpaid by a race. A
discount of 0..1 beside a charge that is written again lets an update take the
total below what was paid, and two partial updates merge each other's old
figures. `ledger` leaves out the plain view, whose every step is also the
beginning of an update or a recalculation, which may fail after it; `atomic`
has it, and leaves out the recalculation, which ends in a status that the book
does not show. Two requests and two bills let `atomic` interleave work on one
bill with work on the other, and payments of 1 on charges of 2, less a discount,
are refused, accepted, undone and lowered past what was paid. Handlers and payments are interchangeable, so runs of invariants and
step properties use their symmetry; the liveness run does not. `late` may start
true, so a bill may be overdue from the start. The system never stops: list
requests are always possible, and deadlock checking stays on.

Bounds of the agreement runs: every property of leases is about a pair of
agreements that meet on a unit or a tenant, and every anomaly about one request
overtaken by another, so two agreements and two requests show each of them; a
second unit lets agreements move, a second tenant lets them be handed over, and
neither needs the other, which is why `tenancies` and `units` are apart.
Creates, hand-overs and moves end in the same writes, so a third request adds
overtaking of what is already overtaken. An update to ENDED has the steps of
`end`: `units` has both, `tenancies` only the latter. `units` and `book` leave
re-activation to `tenancies` and to the proofs. An update in `units` always
names a unit, perhaps the one it has; an `end` names none. `book` has every kind
of request. `leases_answered` starts from ended agreements, so that both updates
can occupy the units at once, and takes only updates, the one kind of request
that locks two units. An ended agreement can be ended again, a removed tenant's row stays: the system never stops, and
deadlock checking stays on.

Bounds of `billing`: months are billed per agreement, so two agreements are
enough for a generation that finds one billed and one not, and for amending one
of them; two requests make every pair of creators overlap, and four calls let
two agreements be signed and two requests follow, or one be signed, amended and
billed from both sides. The calendar 2019..2021 has the floor of 2020, two turns
of the year, a leap February and 30-day months; a due day of 31 is clamped in
them. What `Leap` says of century years is beyond it and in the proof of
`DueInOrder`, which holds for every calendar. `files`: files meet only in their
owner's signature, which one file and `None` exercise; three requests let two
completions and a deletion cross. An image and a document, of 2 and 6 MB, lie
on both sides of every limit that differs. `sessions`: every property is about
one account or one pair of requests; the code needs two records to supersede
one, a second identifier to leave one open, and two attempts to have one before
the last. Six calls let a user register, log in, ask, verify and reset with one
call to spare. `billing` and `sessions` count requests, so they stop at the
bound, and only there is deadlock checking off: a request that has begun can
always be aborted, and no wait is for anything but another's commit.

### Fairness

`FairSpec` assumes weak fairness of each running request's next step: Node
resumes a handler whose query was answered, PostgreSQL answers. It assumes
strong fairness of `ReverseMark` alone: the step waits for a row lock, the lock
is released and taken again by others, and PostgreSQL queues the waiters of a
row lock, so nobody is passed over for ever. In `Occupancy` every statement may
be one that waits for a row, so `Continue` of a request is strongly fair for the
same reason, and `TimeOut` is weakly fair: a transaction that waits without end
is rolled back, by PostgreSQL's deadlock detector if the waits form a cycle and
by Prisma's timeout of interactive transactions in any case. Without it the
cross moves of `leases_answered` stay blocked. In `Uploads`, `FairSpec` assumes
that the store answers every removal it was asked for, with success or not (its
client has a network timeout); that it succeeds is not assumed. Nothing is assumed about clients
starting requests, about the clock, about list requests, or about failures.

## 10. Proofs

### `RentLedgerProofs`

Proved for every set of bills, every finite set of handlers and payments, every
bound on the amount and every set of charges and discounts: `TypeOK`,
`LedgerExact`, `BalanceExact`, `TotalExact`, `StatusExact` are invariants of
`Spec`, and `AcceptedWithinDue` holds of every step.

None of the invariants is inductive alone: whether a commit leaves the bill
exact depends on what the request knew. `LedgerInv` (in `RentLedger`) adds it:

* `RequestOK`: a request stands only where its kind can stand, and believes the
  due date passed only if it has;
* `IdOK`: the payment id of a create is unused and nobody else's, the payment of
  a reversal belongs to the bill the request will write;
* `KnownTotal`, `KnownPaid`: as long as `missed[h]` does not say otherwise, the
  figures a request holds are those of its bill (for a reversal: the sum
  without its payment; for an update: the merged total);
* `KnownDue`: a create that has missed nothing fits into the total, provided
  the remaining amount it was checked against was exact.

The proof has one lemma per action. Steps that only read reduce to the one
request that moves (`ReadStep`); steps that commit reduce to the bill written
(`CommitStep`), because every other request either has the commit recorded in
`missed` or has nothing at stake (`OthersAfterCommit`). The sum of payments is
the cardinality of a set of paisa, which turns "the sum after one more payment"
into the cardinality of a disjoint union (`NewPaymentCollected`) and "the sum
without the reversed payment" into an equality of sets (`ReversalCollected`),
so no induction over payments is needed.

Assumptions on the constants: handlers and payments are finite, the bound on
amounts is a natural number, charges and discounts are natural numbers, and
`None` is not a bill, a payment, a number or a kind of request. TLC evaluates them in
every run.

### `OccupancyProofs`

Proved for every set of requests, agreements, units and tenants, all kinds of
request, every workload the constants allow: `TypeOK`, `LeasesExclusive` and
`OccupancyExact` are invariants of `Spec`. `OccupancyInv` (in `Occupancy`) adds
to them what makes them inductive:

* `RowsOK`: a row that exists has a unit, a tenant and a status;
* `RequestOK`: a request stands where its kind can stand; the id of a create is
  unused and its own;
* `KnownFree`: once its query has passed, and until a commit overtakes it, the
  unit and the tenant a request wants are free;
* `KnownRow`: until overtaken, the row `findOne` read is the row in the aspects
  the unit writes depend on, and the scan's answer is what it would be now.

One lemma per action again; `ReadStep` and `CommitStep` carry what is common.
`AmendExact` is the heart: the case analysis over the unit left, the unit let
and the agreement's actual unit that shows which of the three writes each unit
gets. Assumptions on the constants: statuses, fields and kinds of request are
among those that exist, agreements from before the start are not ACTIVE, `None`
is none of them. No set needs to be finite.

### `AtomicLedgerProofs`, `LeaseBookProofs`

That the services implement the two books as long as requests keep apart
(`ApartSpec`), for any number of requests running beside each other:
`ApartImplementsAtomicLedger` and `ApartImplementsLeaseBook`. Two more theorems
follow from the same invariant and settle the two promises of the repository
that the violation runs refute: `ApartBalanced` (no lost update of the paid
amount without requests that meet on a bill) and `ApartNoOverlap` (no overlap
without requests that meet or a re-activation). That requests come one after
another (`Alone`) is a special case, stated as a corollary of each.

`Apart` restricts the steps of a behaviour, not what a request does, and it is
not an assumption about constants: every state of a single request satisfies it,
and the runs `atomic` and `book` show two requests at work under it. It is
needed: beside each other on one bill, or one unit, requests do not implement
the books, as `overlap` and the history variables of both modules show.

The invariant `Quiet` is added to the inductive one of the module: apart, a
request has missed nothing, so whatever `FiguresOK` or `KnownFree` makes depend
on `missed` holds outright. The step that needs `Apart` is the commit: what it
writes concerns none of the other requests, so it is missed by none
(`MissNothing`, `RemovalUnseen` in the lease book). In the ledger every commit
then leaves the one entry its receipts allow (`ShownIsEntry`), and there is one
lemma per operation (`CommitAccepts`, `CommitUndoes`, `UpdateRecharges`). In the
lease book no agreement is doubtful, so a unit has one ACTIVE agreement and its
tenant is the holder (`HolderIs`); `CreateSigns`, `AmendChanges`, `AmendLeaves`
and `AmendUnseen` are the steps. It also assumes `NeverRevived`, that no update
gives the status ACTIVE: the code checks nothing then (the run `revive`).

### `UploadsProofs`

Proved for every set of requests, files, users and workload: the four
invariants of `Uploads`, and `StatusMovesForward`. `UploadsInv` adds:
`RowsOK` and `RequestsOK`; `RemovalsFollowDeletion` (only objects of deleted
rows are ever removed, which is why `FoundIsStored`, what a probe found is there
until its file is deleted, survives the removal of other requests);
`CompletionsPending` (the row a completion read is still PENDING unless
crossed); `ReferredShown` (what the writers of references carry is as good as
what they write). Assumptions: `None` is no file and no user, categories are
those of the schema. One lemma per conjunct, with one step per action.

### `SessionsProofs`

Proved for every finite set of requests, every set of users and identifiers and
every bound: all invariants of `Sessions`. `SessionsInv` adds what requests hold
(`RequestsOK`), that versions and eras rise together (`VersionsOK`: a token or a login under way that has the current version has the
current era; nothing has a version of the future), that settled records are
completed or deleted (`SettledClosed`), `SpendingOK` (a record that was used
is not open, and whoever still holds it shares it) and `MistakesOK`: mistakes
written and mistakes about to be written are together fewer than the limit and
the requests, which is where the set of requests must be finite.

### `CredentialsProofs`

`SessionsImplementCredentials`: the refinement, from the same assumptions and
with none on how requests meet, so for every number of overlapping logins,
changes and resets. Two facts are added to `SessionsInv`: `SignedUp`, that
tokens and logins under way belong to accounts (a registration must not make an
old token valid), and `TransactionOK`, that what an open transaction has locked
is its user's still or has been removed, and its own record is there (so what
it closes at the commit are codes of the user whose password it sets). One lemma
per step that is seen (`Registers`, `SignsIn`, `Changes`, `Issues`, `Verifies`,
`Resets`, ...) rests on four about the mapping: `VersionEnds` (a higher version
ends the sessions of its user and no others, because no token has a version of
the future), `CompleteCloses` (closing a set of rows closes their codes),
`Letting` and `NotHolding` (which steps change who holds a record); all other
steps are not seen (`NothingSeen`).

### `BillingProofs`

Proved of `ReminderSpec`, so of bills and reminders side by side, for every
finite calendar of years without a gap, every workload and finite set of
agreements: `TypeOK`, `OneBillPerMonth`, `GenerationsComplete`, `CountsAddUp`,
`DueInOrder`, `RemindersDistinct` and `GeneratedInTerm`. `AllInv` adds: drafts
of a request lie in the term it read, carry its number, are distinct, and belong
to agreements that are still as they were read unless recorded in `stale`;
additions that are alike know of each other, others are clear. `DueDateSound`
and `DueOrdered` are the arithmetic: the clamped day exists, and later months
fall due later.

`LoopIsComplete` is about the loop of `getEligibleRentPeriods`: numbered by
months since year 0, its iterations visit consecutive months (`NextPeriodIndex`,
`NextPeriodAt`). If a month up to the target were not visited there would be a
least one (`LeastNat`), and the month before it is visited and steps to it
(`LoopVisits`); the bound on iterations is never what stops the loop
(`LoopBoundReaches`, where the calendar must be gapless). The least
counterexample takes the place of an induction, whose theorems the provers
cannot instantiate.

`GenerationsComplete` needs one invariant more, `OwedHeld`: what a running
generation owes is in its drafts or billed already. An insert of somebody else
can only move a month from the first to the second (`TakenDraws`), and its own
insert leaves nothing of the first.

### Only model-checked

`RequestsEnd` of both modules and `DeletedObjectsGo`: liveness under fairness is
out of the prover's reach. Every other property of a passing run is a theorem.

## 11. Not modelled

Listings, reports, dashboard figures and metrics (sums over rows, no state);
roles, validation, formatting, logging, configuration; expenses and properties
(independent CRUD with a soft delete); creation and numbers of units and
`bulkCreate`; personal data of tenants and users; audit entries, which nothing
reads; the seed script. `send` of a reminder and a unit's status given by hand
are written whatever the row has become, and nothing in the repository says what
should hold then, so no property covers these two hazards. Rounding of payments
to two decimals is the column's and is left out with it. See `components` in
`PROJECT.json` for each part and its reason.
