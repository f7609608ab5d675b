------------------------------ MODULE Billing ------------------------------
(***************************************************************************)
(* How monthly bills come into being (src/monthly-rents/                   *)
(* monthly-rents.service.ts, src/rental-agreements/                        *)
(* rental-agreements.service.ts, src/common/utils/date.util.ts).           *)
(*                                                                         *)
(* A bill is inserted in three ways: with its agreement, for the month the *)
(* agreement starts in; by hand, for one month; and by a generation, for   *)
(* every month that the agreements in force still miss up to a target.     *)
(* The three read, compute and insert in different queries, and only the   *)
(* unique index on (agreementId, year, month) stands between them.         *)
(*                                                                         *)
(* RentLedger.tla says what happens to the amounts of a bill, and          *)
(* Occupancy.tla which agreements may be in force; here an agreement is    *)
(* its term, its due day, and whether a generation lists it.  Dates are    *)
(* the months they fall in: the loop compares starts and ends with the     *)
(* first and the last instant of a month.                                  *)
(*                                                                         *)
(* `promised', `reported', `owed' and `stale' are history: no guard reads  *)
(* them.                                                                   *)
(***************************************************************************)
EXTENDS Integers, FiniteSets

CONSTANTS
    Requests,    \* requests that may be running at the same time
    Agreements,  \* rental agreements, signed or yet to be signed
    Terms,       \* [start, end] of agreements, in months; no end is None
    DueDays,     \* due days agreements are given, validated to be 1..31
    Targets,     \* months that owners bill up to, or bill by hand
    Years,       \* years of the calendar that holds all of these
    MaxCalls,    \* bounds the requests ever begun
    None         \* no end; no agreement yet

Period == [year : Years, month : 1..12]    \* a month of the calendar

Term == [start : Period, end : Period \cup {None}]

ASSUME YearsAssumption ==
    /\ Years \subseteq Nat
    /\ IsFiniteSet(Years)
    /\ \A y, z \in Years : y..z \subseteq Years    \* no year is left out
ASSUME TermsAssumption == Terms \subseteq Term
ASSUME TargetsAssumption == Targets \subseteq Period
ASSUME DueDaysAssumption == DueDays \subseteq 1..31
ASSUME AgreementsAssumption == IsFiniteSet(Agreements)
ASSUME MaxCallsAssumption == MaxCalls \in Nat

VARIABLES
    agreement,  \* agreement[a]: the rental_agreements row, or None
    bills,      \* the monthly_rents rows, as far as they matter here
    req,        \* req[r]: where request r stands, and what it read
    calls,      \* the number of requests begun
    promised,   \* what finished generations must have billed
    reported    \* the sum of the generatedCounts they answered

billVars == <<agreement, bills, req, calls, promised, reported>>

-----------------------------------------------------------------------------
(* DateUtil.  getDaysInMonth is date-fns'.                                 *)
Leap(year) == year % 4 = 0 /\ (year % 100 # 0 \/ year % 400 = 0)

DaysInMonth(year, month) ==
    CASE month = 2              -> IF Leap(year) THEN 29 ELSE 28
      [] month \in {4, 6, 9, 11} -> 30
      [] OTHER                  -> 31

NextPeriodOfYear(p) ==
    [year |-> p.year, month |-> IF p.month = 12 THEN 1 ELSE p.month + 1]

NextPeriod(p) ==
    IF p.month = 12 THEN [year |-> p.year + 1, month |-> 1]
                    ELSE [year |-> p.year, month |-> p.month + 1]

UpTo(p, q) == p.year < q.year \/ (p.year = q.year /\ p.month <= q.month)

(* calculateDueDate: the due day in the month after, clamped to its length. *)
DueDateOfYear(p, dueDay) ==
    LET due == NextPeriodOfYear(p)
        last == DaysInMonth(due.year, due.month)
    IN  [year |-> due.year, month |-> due.month,
         day |-> IF dueDay > last THEN last ELSE dueDay]

DueDateUnclamped(p, dueDay) ==
    LET due == NextPeriod(p) IN
    [year |-> due.year, month |-> due.month, day |-> dueDay]

DueDate(p, dueDay) ==
    LET due == NextPeriod(p)
        last == DaysInMonth(due.year, due.month)
    IN  [year |-> due.year, month |-> due.month,
         day |-> IF dueDay > last THEN last ELSE dueDay]

(* getEligibleRentPeriods: the months its loop visits, and those it keeps. *)
LoopStart(start) == IF start.year < 2020 THEN [year |-> 2020, month |-> 1] ELSE start

LoopBound == 12 * Cardinality(Years)

EligibleToEndOnly(term, target) ==
    LET visit[n \in 0..LoopBound] ==
          IF n = 0 THEN LoopStart(term.start) ELSE NextPeriod(visit[n - 1])
    IN  {p \in {visit[n] : n \in 0..LoopBound} \cap Period :
           UpTo(p, target) /\ UpTo(term.start, p)}

EligibleOfYear(term, target) ==
    LET visit[n \in 0..LoopBound] ==
          IF n = 0 THEN LoopStart(term.start) ELSE NextPeriodOfYear(visit[n - 1])
    IN  {p \in {visit[n] : n \in 0..LoopBound} \cap Period :
           /\ UpTo(p, target)
           /\ UpTo(term.start, p)
           /\ term.end = None \/ UpTo(p, term.end)}

EligiblePeriods(term, target) ==
    LET visit[n \in 0..LoopBound] ==
          IF n = 0 THEN LoopStart(term.start) ELSE NextPeriod(visit[n - 1])
    IN  {p \in {visit[n] : n \in 0..LoopBound} \cap Period :
           /\ UpTo(p, target)
           /\ UpTo(term.start, p)
           /\ term.end = None \/ UpTo(p, term.end)}

-----------------------------------------------------------------------------
(* Rows and requests.  listed: the agreement is ACTIVE, and neither it nor *)
(* its unit nor its property has been removed.                             *)
Agreement == [listed : BOOLEAN, term : Term, dueDay : 1..31]

ASSUME NoneAssumption == None \notin Agreement

Date == [year : Nat, month : 1..12, day : 1..31]

(* `by' is the number of the request that inserts the row.                 *)
Bill == [agreement : Agreements, period : Period, due : Date,
         kind : {"initial", "generated", "created"}, by : 1..MaxCalls]

(* The bills a request has computed so far, and, for the history, what its *)
(* generation owes and the agreements amended since it read them.          *)
Request == [at : {"idle", "listing", "inserting", "finding", "creating"},
            number : 0..MaxCalls, drafts : SUBSET Bill,
            owed : SUBSET (Agreements \X Period), stale : SUBSET Agreements]

Idle == [at |-> "idle", number |-> 0, drafts |-> {}, owed |-> {}, stale |-> {}]

End(r) == req' = [req EXCEPT ![r] = Idle]

Begin(r, step, drafts, owed) ==
    /\ req[r].at = "idle" /\ calls < MaxCalls
    /\ calls' = calls + 1
    /\ req' = [req EXCEPT ![r] = [at |-> step, number |-> calls + 1, drafts |-> drafts,
                                  owed |-> owed, stale |-> {}]]

NewBill(a, p, dueDay, kind) ==
    [agreement |-> a, period |-> p, due |-> DueDate(p, dueDay),
     kind |-> kind, by |-> calls + 1]

(* @@unique([agreementId, year, month])                                    *)
Taken(b) == \E c \in bills : c.agreement = b.agreement /\ c.period = b.period

(* What the comment above getEligibleRentPeriods promises, from 2020 on.   *)
InTerm(term, p) == UpTo(term.start, p) /\ (term.end = None \/ UpTo(p, term.end))

Owed(term, target) ==
    {p \in Period : InTerm(term, p) /\ UpTo(p, target) /\ p.year >= 2020}

-----------------------------------------------------------------------------
BillTypeOK ==
    /\ agreement \in [Agreements -> Agreement \cup {None}]
    /\ bills \subseteq Bill
    /\ \A b \in bills : b.due.day <= DaysInMonth(b.due.year, b.due.month)
    /\ req \in [Requests -> Request]
    /\ calls \in 0..MaxCalls
    /\ promised \subseteq Agreements \X Period
    /\ reported \in Nat

Init ==
    /\ agreement = [a \in Agreements |-> None]
    /\ bills = {}
    /\ req = [r \in Requests |-> Idle]
    /\ calls = 0
    /\ promised = {}
    /\ reported = 0

-----------------------------------------------------------------------------
(* RentalAgreementsService.create, one transaction: an agreement without   *)
(* an end and, when asked for, createInitialMonthlyRent's bill.            *)
Sign(a, start, dueDay, bill) ==
    /\ calls < MaxCalls
    /\ agreement[a] = None
    /\ agreement' = [agreement EXCEPT ![a] =
         [listed |-> TRUE, term |-> [start |-> start, end |-> None], dueDay |-> dueDay]]
    /\ bills' = IF bill THEN bills \cup {NewBill(a, start, dueDay, "initial")} ELSE bills
    /\ calls' = calls + 1
    /\ UNCHANGED <<req, promised, reported>>

(* RentalAgreementsService.update and end, and the removals that take an   *)
(* agreement off the list: any part of the row, whatever was billed.       *)
Amend(a, amended) ==
    /\ calls < MaxCalls
    /\ agreement[a] # None
    /\ agreement' = [agreement EXCEPT ![a] = amended]
    /\ agreement' # agreement
    /\ req' = [r \in Requests |-> IF req[r].at = "idle" THEN req[r]
                                  ELSE [req[r] EXCEPT !.stale = @ \cup {a}]]
    /\ calls' = calls + 1
    /\ UNCHANGED <<bills, promised, reported>>

-----------------------------------------------------------------------------
(* MonthlyRentsService.generate: the agreements, the bills they have, the  *)
(* insert of those they miss.                                              *)
Listed == {a \in Agreements : agreement[a] # None /\ agreement[a].listed}

(* All that the owner has listed, or one property's.                       *)
Scopes == {Agreements} \cup {{a} : a \in Agreements}

Drafts(a, target) ==
    {NewBill(a, p, agreement[a].dueDay, "generated") :
       p \in EligiblePeriods(agreement[a].term, target)}

GenerateRead(r, scope, target) ==
    /\ Begin(r, "listing",
         UNION {Drafts(a, target) : a \in Listed \cap scope},
         UNION {{a} \X Owed(agreement[a].term, target) : a \in Listed \cap scope})
    /\ UNCHANGED <<agreement, bills, promised, reported>>

GenerateFind(r) ==
    /\ req[r].at = "listing"
    /\ req' = [req EXCEPT ![r].at = "inserting",
                          ![r].drafts = {b \in @ : ~Taken(b)}]
    /\ UNCHANGED <<agreement, bills, calls, promised, reported>>

GenerateInsertAll(r) ==
    /\ req[r].at = "inserting"
    /\ bills' = bills \cup req[r].drafts
    /\ promised' = promised \cup req[r].owed
    /\ reported' = reported + Cardinality(req[r].drafts)
    /\ End(r)
    /\ UNCHANGED <<agreement, calls>>

GenerateInsertCountingDrafts(r) ==
    /\ req[r].at = "inserting"
    /\ bills' = bills \cup {b \in req[r].drafts : ~Taken(b)}
    /\ promised' = promised \cup req[r].owed
    /\ reported' = reported + Cardinality(req[r].drafts)
    /\ End(r)
    /\ UNCHANGED <<agreement, calls>>

(* skipDuplicates leaves out what was inserted since.                      *)
GenerateInsert(r) ==
    LET missing == {b \in req[r].drafts : ~Taken(b)} IN
    /\ req[r].at = "inserting"
    /\ bills' = bills \cup missing
    /\ promised' = promised \cup req[r].owed
    /\ reported' = reported + Cardinality(missing)
    /\ End(r)
    /\ UNCHANGED <<agreement, calls>>

-----------------------------------------------------------------------------
(* MonthlyRentsService.create: the agreement, whatever its status, then    *)
(* the bill of the month, then the insert.                                 *)
CreateRead(r, a, p) ==
    /\ agreement[a] # None
    /\ Begin(r, "finding", {NewBill(a, p, agreement[a].dueDay, "created")}, {})
    /\ UNCHANGED <<agreement, bills, promised, reported>>

CreateFind(r) ==
    /\ req[r].at = "finding"
    /\ IF \E b \in req[r].drafts : Taken(b) THEN End(r)
       ELSE req' = [req EXCEPT ![r].at = "creating"]
    /\ UNCHANGED <<agreement, bills, calls, promised, reported>>

CreateInsertUnindexed(r) ==
    /\ req[r].at = "creating"
    /\ bills' = bills \cup req[r].drafts
    /\ End(r)
    /\ UNCHANGED <<agreement, calls, promised, reported>>

(* The insert of a month that was billed since fails.                      *)
CreateInsert(r) ==
    /\ req[r].at = "creating"
    /\ bills' = bills \cup {b \in req[r].drafts : ~Taken(b)}
    /\ End(r)
    /\ UNCHANGED <<agreement, calls, promised, reported>>

(* A request may die at any await; a transaction under way is rolled back. *)
Abort(r) ==
    /\ req[r].at # "idle"
    /\ End(r)
    /\ UNCHANGED <<agreement, bills, calls, promised, reported>>

-----------------------------------------------------------------------------
BillNext ==
    \/ \E a \in Agreements, t \in Terms, d \in DueDays, b \in BOOLEAN :
         \/ Sign(a, t.start, d, b)
         \/ Amend(a, [listed |-> b, term |-> t, dueDay |-> d])
    \/ \E r \in Requests, p \in Targets :
         \/ \E scope \in Scopes : GenerateRead(r, scope, p)
         \/ \E a \in Agreements : CreateRead(r, a, p)
    \/ \E r \in Requests :
         GenerateFind(r) \/ GenerateInsert(r) \/ CreateFind(r) \/ CreateInsert(r) \/ Abort(r)

Spec == Init /\ [][BillNext]_billVars

-----------------------------------------------------------------------------
(* No month of an agreement is billed twice, by whichever two of the three *)
(* ways, though each looked before it inserted.                            *)
OneBillPerMonth ==
    \A b, c \in bills : b.agreement = c.agreement /\ b.period = c.period => b = c

(* A generation that has answered leaves no month unbilled that was owed   *)
(* when it read the agreements, whoever else billed or died meanwhile.     *)
GenerationsComplete ==
    \A o \in promised : \E b \in bills : <<b.agreement, b.period>> = o

(* A generated bill is for a listed agreement and a month of its term,     *)
(* unless the agreement was amended between the read and the insert.       *)
GeneratedInTerm ==
    [][\A b \in bills' \ bills : b.kind = "generated" =>
         \/ agreement[b.agreement].listed
              /\ InTerm(agreement[b.agreement].term, b.period)
         \/ \E r \in Requests : req[r].number = b.by /\ b.agreement \in req[r].stale]_billVars

(* The counts that generations answer add up to the bills they inserted,   *)
(* though they ran beside each other and beside bills made by hand.        *)
CountsAddUp == reported = Cardinality({b \in bills : b.kind = "generated"})

(* Bills fall due after their month, and in the order of their months,     *)
(* across Decembers, short Februaries and changes of the due day.          *)
DueInOrder ==
    \A b \in bills :
      /\ UpTo(NextPeriod(b.period), b.due)
      /\ \A c \in bills :
           c.agreement = b.agreement /\ ~UpTo(c.period, b.period) => ~UpTo(c.due, b.due)

=============================================================================
