--------------------------- MODULE BillingProofs ---------------------------
(***************************************************************************)
(* Proofs about bills and reminders, for any requests, agreements, terms,  *)
(* due days and calendar.                                                  *)
(*                                                                         *)
(* The argument: what a request has computed and not yet inserted is one   *)
(* sound bill per month (Drafted), and for a generation it stays inside    *)
(* the agreement's term unless the agreement is amended; an insert adds    *)
(* only what is not Taken.  What a generation owes it has drafted, or it   *)
(* is billed (OwedHeld), because the loop over months computes all that is *)
(* owed (LoopIsComplete).  For reminders: a request that found nothing     *)
(* PENDING like its own still finds nothing when it inserts, unless        *)
(* another was creating the same one beside it.                            *)
(***************************************************************************)
EXTENDS Reminders, FiniteSetTheorems, WellFoundedInduction, TLAPS

Generating == {"listing", "inserting"}

(* A bill as calculateDueDate dates it.                                    *)
Sound(b) ==
    /\ b \in Bill
    /\ b.due.day <= DaysInMonth(b.due.year, b.due.month)
    /\ b.due.year = NextPeriod(b.period).year
    /\ b.due.month = NextPeriod(b.period).month

SameMonth(b, c) == b.agreement = c.agreement /\ b.period = c.period

Distinct(B) == \A b, c \in B : SameMonth(b, c) => b = c

Current(b) ==
    /\ agreement[b.agreement] # None
    /\ agreement[b.agreement].listed
    /\ InTerm(agreement[b.agreement].term, b.period)

(* What a request holds between its queries.                               *)
Signed(b) == agreement[b.agreement] # None

DraftsSound ==
    \A r \in Requests : \A b \in req[r].drafts : Sound(b) /\ Signed(b)

DraftsNumbered ==
    \A r \in Requests : \A b \in req[r].drafts :
      /\ b.by = req[r].number
      /\ b.kind = "generated" <=> req[r].at \in Generating

DraftsDistinct == \A r \in Requests : Distinct(req[r].drafts)

DraftsCurrent ==
    \A r \in Requests : req[r].at \in Generating =>
      \A b \in req[r].drafts : b.agreement \in req[r].stale \/ Current(b)

BillsSound == \A b \in bills : Sound(b) /\ Signed(b)

BillInv ==
    /\ BillTypeOK
    /\ BillsSound
    /\ OneBillPerMonth
    /\ DraftsSound
    /\ DraftsNumbered
    /\ DraftsDistinct
    /\ DraftsCurrent

(* What a generation owes is drafted until it is billed.                   *)
Draws(b, o) == <<b.agreement, b.period>> = o

OwedHeld ==
    \A r \in Requests : req[r].at \in Generating =>
      \A o \in req[r].owed :
        \/ \E b \in req[r].drafts : Draws(b, o)
        \/ \E b \in bills : Draws(b, o)

(* Reminders.                                                              *)
AddingTwiceKnown ==
    \A r, q \in Requests : r # q /\ adding[r].key # None /\ adding[r].key = adding[q].key
      => adding[r].beside

AddingClear ==
    \A r \in Requests : adding[r].key # None /\ ~adding[r].beside =>
      \/ adding[r].key.bill = None
      \/ \A k \in Slots \ excused :
           reminder[k].status = "PENDING" => reminder[k].key # adding[r].key

ReminderInv ==
    /\ TypeOK
    /\ AddingTwiceKnown
    /\ AddingClear
    /\ RemindersDistinct

-----------------------------------------------------------------------------
(* The calendar.                                                           *)
LEMMA PeriodFinite == IsFiniteSet(Period)
<1> DEFINE f == [c \in Years \X (1..12) |-> [year |-> c[1], month |-> c[2]]]
<1>1. IsFiniteSet(Years \X (1..12))
  <2>1. IsFiniteSet(1..12)
    <3>1. 1 \in Int /\ 12 \in Int
      OBVIOUS
    <3> QED
      BY <3>1, FS_Interval, Zenon
  <2> QED
    BY <2>1, YearsAssumption, FS_Product
<1>2. f \in Surjection(Years \X (1..12), Period)
  <2>1. f \in [Years \X (1..12) -> Period]
    BY DEF Period
  <2>2. ASSUME NEW p \in Period
        PROVE  \E c \in Years \X (1..12) : f[c] = p
    <3>1. <<p.year, p.month>> \in Years \X (1..12) /\ f[<<p.year, p.month>>] = p
      BY DEF Period
    <3> QED
      BY <3>1
  <2> QED
    BY <2>1, <2>2 DEF Surjection
<1> QED
  BY <1>1, <1>2, FS_Surjection

(* Months are numbered from January of the year 0.                         *)
Index(p) == 12 * p.year + p.month - 1

MonthAt(i) == [year |-> i \div 12, month |-> (i % 12) + 1]

Month == [year : Nat, month : 1..12]

LEMMA MonthOfIndex ==
  ASSUME NEW p \in Month
  PROVE  Index(p) \in Nat /\ MonthAt(Index(p)) = p
<1>1. p.year \in Nat /\ p.month - 1 \in 0..11 /\ Index(p) = 12 * p.year + (p.month - 1)
  BY DEF Index, Month
<1>2. Index(p) \div 12 = p.year /\ Index(p) % 12 = p.month - 1
  BY <1>1
<1>3. MonthAt(Index(p)) = [year |-> p.year, month |-> p.month]
  BY <1>1, <1>2 DEF MonthAt, Month
<1> QED
  BY <1>1, <1>3 DEF Month

LEMMA IndexOfMonth ==
  ASSUME NEW i \in Nat
  PROVE  MonthAt(i) \in Month /\ Index(MonthAt(i)) = i
<1>1. i \div 12 \in Nat /\ (i % 12) \in 0..11 /\ i = 12 * (i \div 12) + (i % 12)
  OBVIOUS
<1> QED
  BY <1>1 DEF MonthAt, Month, Index

LEMMA NextPeriodIndex ==
  ASSUME NEW p \in Month
  PROVE  NextPeriod(p) \in Month /\ Index(NextPeriod(p)) = Index(p) + 1
<1>1. CASE p.month = 12
  BY <1>1 DEF NextPeriod, Month, Index
<1>2. CASE p.month # 12
  BY <1>2 DEF NextPeriod, Month, Index
<1> QED
  BY <1>1, <1>2

LEMMA NextPeriodAt ==
  ASSUME NEW i \in Nat
  PROVE  NextPeriod(MonthAt(i)) = MonthAt(i + 1)
<1>1. MonthAt(i) \in Month /\ Index(MonthAt(i)) = i
  BY IndexOfMonth
<1>2. NextPeriod(MonthAt(i)) \in Month /\ Index(NextPeriod(MonthAt(i))) = i + 1
  BY <1>1, NextPeriodIndex
<1> QED
  BY <1>2, MonthOfIndex

LEMMA UpToIndex ==
  ASSUME NEW p \in Month, NEW q \in Month
  PROVE  UpTo(p, q) <=> Index(p) <= Index(q)
BY DEF UpTo, Index, Month

(* A set of naturals has a least element.                                  *)
LEMMA LeastNat ==
  ASSUME NEW T \in SUBSET Nat, T # {}
  PROVE  \E n \in T : \A m \in T : ~(m < n)
<1>1. PICK n \in T : \A m \in T : ~(<<m, n>> \in OpToRel(<, Nat))
  BY NatLessThanWellFounded, WFMin, Zenon
<1>2. \A m \in T : m < n => <<m, n>> \in OpToRel(<, Nat)
  BY Zenon DEF OpToRel
<1> QED
  BY <1>1, <1>2

(* The loop visits the months from the first on, one after the other.      *)
LEMMA LoopVisits ==
  ASSUME NEW first \in Month, NEW N \in Nat
  PROVE  LET visit[n \in 0..N] == IF n = 0 THEN first ELSE NextPeriod(visit[n - 1])
         IN  \A n \in 0..N : visit[n] = MonthAt(Index(first) + n)
<1> DEFINE Body(f) == [n \in 0..N |-> IF n = 0 THEN first ELSE NextPeriod(f[n - 1])]
           g == [n \in 0..N |-> MonthAt(Index(first) + n)]
           visit[n \in 0..N] == IF n = 0 THEN first ELSE NextPeriod(visit[n - 1])
<1>1. g = Body(g)
  <2> SUFFICES ASSUME NEW n \in 0..N
               PROVE  MonthAt(Index(first) + n) = IF n = 0 THEN first ELSE NextPeriod(g[n - 1])
    OBVIOUS
  <2>1. Index(first) \in Nat /\ MonthAt(Index(first)) = first
    BY MonthOfIndex
  <2>2. CASE n = 0
    BY <2>1, <2>2
  <2>3. CASE n # 0
    <3>1. n - 1 \in 0..N /\ g[n - 1] = MonthAt(Index(first) + (n - 1))
      BY <2>3
    <3>2. Index(first) + (n - 1) \in Nat /\ (Index(first) + (n - 1)) + 1 = Index(first) + n
      BY <2>1, <2>3
    <3>3. NextPeriod(MonthAt(Index(first) + (n - 1))) = MonthAt(Index(first) + n)
      BY <3>2, NextPeriodAt
    <3> QED
      BY <2>3, <3>1, <3>3
  <2> QED
    BY <2>2, <2>3
<1>2. visit = CHOOSE f : f = Body(f)
  OBVIOUS
<1> HIDE DEF visit, g
<1>3. visit = Body(visit)
  <2> HIDE DEF Body
  <2> QED
    BY <1>1, <1>2, Zenon
<1>4. \A n \in 0..N : visit[n] = IF n = 0 THEN first ELSE NextPeriod(visit[n - 1])
  BY <1>3
<1>5. \A n \in 0..N : g[n] = IF n = 0 THEN first ELSE NextPeriod(g[n - 1])
  BY <1>1
<1>6. \A n \in 0..N : visit[n] = g[n]
  <2> DEFINE T == {n \in 0..N : visit[n] # g[n]}
  <2> SUFFICES ASSUME T # {} PROVE FALSE
    OBVIOUS
  <2>1. PICK n \in T : \A m \in T : ~(m < n)
    <3>1. T \in SUBSET Nat
      OBVIOUS
    <3> HIDE DEF T
    <3> QED
      BY <3>1, LeastNat
  <2>2. CASE n = 0
    BY <1>4, <1>5, <2>2
  <2>3. CASE n # 0
    <3>1. n - 1 \in 0..N /\ n - 1 < n
      BY <2>3
    <3>2. visit[n - 1] = g[n - 1]
      BY <2>1, <3>1
    <3> QED
      BY <1>4, <1>5, <2>3, <3>2
  <2> QED
    BY <2>2, <2>3
<1> QED
  BY <1>6 DEF visit, g

(* It goes on for as many months as the calendar has.                      *)
LEMMA LoopBoundReaches ==
  ASSUME NEW p \in Period, NEW q \in Period, UpTo(p, q)
  PROVE  LoopBound \in Nat /\ 12 * (q.year - p.year) + 12 <= LoopBound
<1>1. p.year \in Years /\ q.year \in Years /\ p.year \in Nat /\ q.year \in Nat
  BY YearsAssumption DEF Period
<1>2. p.year <= q.year
  BY <1>1 DEF UpTo
<1>3. p.year..q.year \subseteq Years
  BY <1>1, YearsAssumption
<1>4. Cardinality(p.year..q.year) = q.year - p.year + 1
  BY <1>1, <1>2, FS_Interval
<1>5. Cardinality(p.year..q.year) <= Cardinality(Years) /\ Cardinality(Years) \in Nat
  BY <1>3, YearsAssumption, FS_Subset, FS_CardinalityType
<1>6. PICK n \in Nat : n = Cardinality(Years) /\ q.year - p.year + 1 <= n
  BY <1>4, <1>5
<1>7. 12 * (q.year - p.year) + 12 <= 12 * n
  BY <1>1, <1>6
<1> QED
  BY <1>6, <1>7 DEF LoopBound

(* The loop of getEligibleRentPeriods collects what the comment above it   *)
(* promises, from the safety floor of 2020 on: no month of the term is     *)
(* skipped at the turn of a year, and none beyond target or end is kept.   *)
THEOREM LoopIsComplete ==
  ASSUME NEW term \in Term, NEW target \in Period
  PROVE  EligiblePeriods(term, target) = Owed(term, target)
<1> DEFINE start == term.start
           first == LoopStart(start)
           Reached == {MonthAt(Index(first) + n) : n \in 0..LoopBound}
           Kept(p) == /\ UpTo(p, target)
                      /\ UpTo(start, p)
                      /\ term.end = None \/ UpTo(p, term.end)
<1>1. Period \subseteq Month /\ start \in Period /\ start \in Month
  BY YearsAssumption DEF Period, Month, Term
<1>2. first \in Month /\ first.year >= 2020 /\ first.year >= start.year
  BY <1>1 DEF LoopStart, Month
<1>3. LoopBound \in Nat
  BY YearsAssumption, FS_CardinalityType DEF LoopBound
<1>4. EligiblePeriods(term, target) = {p \in Reached \cap Period : Kept(p)}
  <2> DEFINE visit[n \in 0..LoopBound] ==
               IF n = 0 THEN first ELSE NextPeriod(visit[n - 1])
  <2>1. \A n \in 0..LoopBound : visit[n] = MonthAt(Index(first) + n)
    BY <1>2, <1>3, LoopVisits
  <2>2. EligiblePeriods(term, target) =
          {p \in {visit[n] : n \in 0..LoopBound} \cap Period : Kept(p)}
    BY Zenon DEF EligiblePeriods
  <2> HIDE DEF visit
  <2>3. {visit[n] : n \in 0..LoopBound} = Reached
    BY <2>1
  <2> QED
    BY <2>2, <2>3
<1> HIDE DEF first
<1>5. ASSUME NEW p \in Reached \cap Period, Kept(p)
      PROVE  p \in Owed(term, target)
  <2>1. PICK n \in 0..LoopBound : p = MonthAt(Index(first) + n)
    OBVIOUS
  <2>2. Index(first) \in Nat /\ Index(p) = Index(first) + n
    BY <1>2, <2>1, MonthOfIndex, IndexOfMonth
  <2>3. UpTo(first, p)
    BY <1>1, <1>2, <2>2, UpToIndex
  <2>4. p.year >= 2020
    BY <1>1, <1>2, <2>3 DEF UpTo, Month
  <2> QED
    BY <1>5, <2>4 DEF Owed, InTerm
<1>6. ASSUME NEW p \in Owed(term, target)
      PROVE  p \in Reached \cap Period /\ Kept(p)
  <2>1. p \in Period /\ p \in Month /\ p.year >= 2020 /\ Kept(p)
    BY <1>1 DEF Owed, InTerm
  <2>2. UpTo(first, p)
    BY <1>1, <2>1 DEF first, LoopStart, UpTo, Month
  <2>3. 12 * (p.year - start.year) + 12 <= LoopBound
    BY <1>1, <2>1, LoopBoundReaches
  <2>4. Index(p) - Index(first) \in 0..LoopBound
    <3>1. Index(first) <= Index(p)
      BY <1>2, <2>1, <2>2, UpToIndex
    <3>2. Index(p) - Index(first) = 12 * (p.year - first.year) + p.month - first.month
      BY <1>2, <2>1 DEF Index, Month
    <3>3. Index(p) - Index(first) <= 12 * (p.year - start.year) + 12
      BY <1>1, <1>2, <2>1, <3>2 DEF Month
    <3>4. Index(p) \in Nat /\ Index(first) \in Nat
      BY <1>2, <2>1, MonthOfIndex
    <3> QED
      BY <1>1, <1>3, <2>1, <2>3, <3>1, <3>3, <3>4 DEF Month
  <2>5. p = MonthAt(Index(first) + (Index(p) - Index(first)))
    <3>1. Index(p) \in Nat /\ Index(first) \in Nat /\ MonthAt(Index(p)) = p
      BY <1>2, <2>1, MonthOfIndex
    <3>2. Index(first) + (Index(p) - Index(first)) = Index(p)
      BY <3>1
    <3> QED
      BY <3>1, <3>2
  <2> QED
    BY <2>1, <2>4, <2>5
<1> QED
  BY <1>4, <1>5, <1>6 DEF Owed

-----------------------------------------------------------------------------
(* Bills.                                                                  *)
LEMMA NextPeriodTyped ==
  ASSUME NEW p \in Period
  PROVE  NextPeriod(p) \in [year : Nat, month : 1..12]
<1>1. p.year \in Nat /\ p.month \in 1..12
  BY YearsAssumption DEF Period
<1>2. CASE p.month = 12
  BY <1>1, <1>2 DEF NextPeriod
<1>3. CASE p.month # 12
  BY <1>1, <1>3 DEF NextPeriod
<1> QED
  BY <1>2, <1>3

LEMMA DaysTyped ==
  ASSUME NEW y, NEW m
  PROVE  DaysInMonth(y, m) \in 28..31
BY DEF DaysInMonth

(* calculateDueDate yields a day of the month after.                       *)
LEMMA DueDateSound ==
  ASSUME NEW p \in Period, NEW d \in 1..31
  PROVE  /\ DueDate(p, d) \in Date
         /\ DueDate(p, d).day <= DaysInMonth(DueDate(p, d).year, DueDate(p, d).month)
         /\ DueDate(p, d).year = NextPeriod(p).year
         /\ DueDate(p, d).month = NextPeriod(p).month
<1> DEFINE due == NextPeriod(p)
           last == DaysInMonth(due.year, due.month)
<1>1. due \in [year : Nat, month : 1..12]
  BY NextPeriodTyped
<1>2. last \in 28..31
  BY DaysTyped
<1>3. DueDate(p, d) = [year |-> due.year, month |-> due.month,
                       day |-> IF d > last THEN last ELSE d]
  BY DEF DueDate
<1> HIDE DEF due, last
<1>4. DueDate(p, d).day <= last /\ DueDate(p, d) \in Date
  BY <1>1, <1>2, <1>3 DEF Date
<1>5. DueDate(p, d).year = due.year /\ DueDate(p, d).month = due.month
  BY <1>3
<1> QED
  BY <1>4, <1>5 DEF due, last

LEMMA NewBillSound ==
  ASSUME NEW a \in Agreements, NEW p \in Period, NEW d \in 1..31,
         NEW kind \in {"initial", "generated", "created"},
         calls \in 0..MaxCalls, calls < MaxCalls
  PROVE  /\ Sound(NewBill(a, p, d, kind))
         /\ NewBill(a, p, d, kind).agreement = a
         /\ NewBill(a, p, d, kind).period = p
         /\ NewBill(a, p, d, kind).kind = kind
         /\ NewBill(a, p, d, kind).by = calls + 1
<1>1. DueDate(p, d) \in Date
  BY DueDateSound
<1>2. calls + 1 \in 1..MaxCalls
  BY MaxCallsAssumption
<1>3. NewBill(a, p, d, kind) =
        [agreement |-> a, period |-> p, due |-> DueDate(p, d), kind |-> kind, by |-> calls + 1]
  BY DEF NewBill
<1>4. NewBill(a, p, d, kind) \in Bill
  BY <1>1, <1>2, <1>3 DEF Bill
<1> QED
  BY <1>3, <1>4, DueDateSound DEF Sound

(* The loop keeps months of the term up to the target.                     *)
LEMMA EligibleInTerm ==
  ASSUME NEW term, NEW target, NEW p \in EligiblePeriods(term, target)
  PROVE  p \in Period /\ InTerm(term, p)
BY DEF EligiblePeriods, InTerm

-----------------------------------------------------------------------------
DraftsInv == DraftsSound /\ DraftsNumbered /\ DraftsDistinct /\ DraftsCurrent

LEMMA InitHolds ==
  ASSUME Init
  PROVE  BillInv
<1>1. BillTypeOK
  BY MaxCallsAssumption DEF Init, BillTypeOK, Idle, Request
<1>2. bills = {} /\ \A r \in Requests : req[r].drafts = {}
  BY DEF Init, Idle
<1>3. DraftsSound /\ DraftsNumbered /\ DraftsDistinct /\ DraftsCurrent
  BY <1>2 DEF DraftsSound, DraftsNumbered, DraftsDistinct, DraftsCurrent, Distinct
<1> QED
  BY <1>1, <1>2, <1>3 DEF BillInv, BillsSound, OneBillPerMonth

(* A request that ends, or keeps some of its drafts, stays as it was.      *)
LEMMA DraftsKept ==
  ASSUME BillInv, NEW r \in Requests, NEW next \in Request,
         next.drafts \subseteq req[r].drafts, next.drafts # {} =>
           /\ next.number = req[r].number
           /\ next.stale = req[r].stale
           /\ next.at \in Generating <=> req[r].at \in Generating,
         req' = [req EXCEPT ![r] = next], agreement' = agreement
  PROVE  DraftsInv'
<1> USE DEF BillInv
<1>1. \A q \in Requests : req'[q] = IF q = r THEN next ELSE req[q]
  BY DEF BillTypeOK
<1>2. DraftsSound'
  BY <1>1 DEF DraftsSound, Sound, Signed
<1>3. DraftsNumbered'
  BY <1>1 DEF DraftsNumbered
<1>4. DraftsDistinct'
  BY <1>1 DEF DraftsDistinct, Distinct
<1>5. DraftsCurrent'
  BY <1>1 DEF DraftsCurrent, Current
<1> QED
  BY <1>2, <1>3, <1>4, <1>5 DEF DraftsInv

LEMMA EndKeeps ==
  ASSUME BillInv, NEW r \in Requests, End(r), agreement' = agreement
  PROVE  DraftsInv' /\ req' \in [Requests -> Request]
<1>1. Idle \in Request /\ Idle.drafts = {}
  BY MaxCallsAssumption DEF Idle, Request
<1>2. req' = [req EXCEPT ![r] = Idle]
  BY DEF End
<1>3. DraftsInv'
  BY <1>1, <1>2, DraftsKept
<1> QED
  BY <1>1, <1>2, <1>3 DEF BillInv, BillTypeOK

(* Bills of different months are no more than agreements and months are.   *)
LEMMA DistinctFinite ==
  ASSUME NEW B, \A b \in B : Sound(b), Distinct(B)
  PROVE  IsFiniteSet(B)
<1> DEFINE f == [b \in B |-> <<b.agreement, b.period>>]
<1>1. IsFiniteSet(Agreements \X Period)
  BY AgreementsAssumption, PeriodFinite, FS_Product
<1>2. f \in [B -> Agreements \X Period]
  BY DEF Sound, Bill
<1>3. \A b, c \in B : f[b] = f[c] => b = c
  BY DEF Distinct, SameMonth
<1>4. f \in Injection(B, Agreements \X Period)
  BY <1>2, <1>3 DEF Injection, IsInjective
<1> QED
  BY <1>1, <1>4, FS_Injection

LEMMA DraftsFinite ==
  ASSUME BillInv, NEW r \in Requests
  PROVE  IsFiniteSet(req[r].drafts)
BY DistinctFinite DEF BillInv, DraftsSound, DraftsDistinct

(* An insert that skips, or is refused, what is Taken.                     *)
LEMMA InsertKeeps ==
  ASSUME BillInv, NEW r \in Requests,
         bills' = bills \cup {b \in req[r].drafts : ~Taken(b)},
         agreement' = agreement
  PROVE  /\ BillsSound'
         /\ OneBillPerMonth'
         /\ bills' \subseteq Bill
         /\ \A b \in bills' : b.due.day <= DaysInMonth(b.due.year, b.due.month)
<1> USE DEF BillInv
<1>1. \A b \in bills' : Sound(b) /\ Signed(b)
  BY DEF BillsSound, DraftsSound
<1>2. BillsSound'
  BY <1>1 DEF BillsSound, Sound, Signed
<1>3. OneBillPerMonth'
  <2> SUFFICES ASSUME NEW b \in bills', NEW c \in bills', SameMonth(b, c)
               PROVE  b = c
    BY DEF OneBillPerMonth, SameMonth
  <2>1. CASE b \in bills /\ c \in bills
    BY <2>1 DEF OneBillPerMonth, SameMonth
  <2>2. CASE b \in req[r].drafts /\ c \in req[r].drafts
    BY <2>2 DEF DraftsDistinct, Distinct
  <2>3. CASE b \in bills /\ c \notin bills
    BY <2>3 DEF Taken, SameMonth
  <2>4. CASE c \in bills /\ b \notin bills
    BY <2>4 DEF Taken, SameMonth
  <2> QED
    BY <2>1, <2>2, <2>3, <2>4
<1> QED
  BY <1>1, <1>2, <1>3 DEF Sound

(* A request that begins with sound, distinct and current drafts.          *)
LEMMA BeginKeeps ==
  ASSUME BillInv, NEW r \in Requests, NEW step \in {"listing", "finding"},
         NEW drafts, NEW owed \in SUBSET (Agreements \X Period),
         Begin(r, step, drafts, owed), agreement' = agreement, bills' = bills,
         promised' = promised, reported' = reported,
         Distinct(drafts),
         \A b \in drafts :
           /\ Sound(b) /\ Signed(b)
           /\ b.by = calls + 1
           /\ b.kind = "generated" <=> step = "listing"
           /\ step = "listing" => Current(b)
  PROVE  BillInv'
<1> USE DEF BillInv
<1> DEFINE next == [at |-> step, number |-> calls + 1, drafts |-> drafts,
                    owed |-> owed, stale |-> {}]
<1>1. req' = [req EXCEPT ![r] = next] /\ calls' = calls + 1 /\ calls < MaxCalls
  BY DEF Begin
<1>2. calls' \in 0..MaxCalls /\ drafts \subseteq Bill
  BY <1>1, MaxCallsAssumption DEF BillTypeOK, Sound
<1>3. next \in Request
  BY <1>1, <1>2 DEF Request
<1>4. \A q \in Requests : req'[q] = IF q = r THEN next ELSE req[q]
  BY <1>1 DEF BillTypeOK
<1>5. next.at = step /\ next.number = calls + 1 /\ next.drafts = drafts
  OBVIOUS
<1>6. req' \in [Requests -> Request]
  BY <1>1, <1>3 DEF BillTypeOK
<1> HIDE DEF next
<1>7. BillTypeOK'
  BY <1>2, <1>6 DEF BillTypeOK
<1>8. DraftsSound'
  BY <1>4, <1>5 DEF DraftsSound, Sound, Signed
<1>9. DraftsNumbered'
  BY <1>4, <1>5 DEF DraftsNumbered, Generating
<1>10. DraftsDistinct'
  BY <1>4, <1>5 DEF DraftsDistinct, Distinct
<1>11. DraftsCurrent'
  BY <1>4, <1>5 DEF DraftsCurrent, Generating, Current
<1>12. BillsSound' /\ OneBillPerMonth'
  BY DEF BillsSound, OneBillPerMonth, Sound, Signed
<1> QED
  BY <1>7, <1>8, <1>9, <1>10, <1>11, <1>12

-----------------------------------------------------------------------------
LEMMA SignKeeps ==
  ASSUME BillInv, NEW a \in Agreements, NEW t \in Terms, NEW d \in DueDays,
         NEW bill \in BOOLEAN, Sign(a, t.start, d, bill)
  PROVE  BillInv'
<1> USE DEF BillInv
<1> DEFINE new == [listed |-> TRUE, term |-> [start |-> t.start, end |-> None], dueDay |-> d]
           b0 == NewBill(a, t.start, d, "initial")
<1>1. t.start \in Period /\ d \in 1..31
  BY TermsAssumption, DueDaysAssumption DEF Term
<1>2. /\ agreement[a] = None
      /\ agreement' = [agreement EXCEPT ![a] = new]
      /\ bills' = IF bill THEN bills \cup {b0} ELSE bills
      /\ calls' = calls + 1 /\ calls < MaxCalls /\ calls \in 0..MaxCalls
      /\ req' = req /\ promised' = promised /\ reported' = reported
  BY DEF Sign, BillTypeOK
<1>3. Sound(b0) /\ b0.agreement = a /\ b0.period = t.start
  BY <1>1, <1>2, NewBillSound
<1>4. new \in Agreement
  BY <1>1 DEF Agreement, Term
<1> HIDE DEF new, b0
<1>5. \A b \in bills \cup {b0} : b.agreement = a => b = b0
  BY <1>2, <1>3 DEF BillsSound, Signed
<1>6. new # None
  BY <1>4, NoneAssumption
<1>7. \A g \in Agreements : agreement'[g] = IF g = a THEN new ELSE agreement[g]
  BY <1>2 DEF BillTypeOK
<1>8. BillsSound'
  <2>1. \A b \in bills \cup {b0} : Sound(b) /\ agreement'[b.agreement] # None
    BY <1>3, <1>6, <1>7 DEF BillsSound, Signed, Sound, Bill
  <2> QED
    BY <1>2, <2>1 DEF BillsSound, Sound, Signed
<1>9. OneBillPerMonth'
  <2>1. \A b, c \in bills \cup {b0} : b.agreement = c.agreement /\ b.period = c.period => b = c
    BY <1>3, <1>5 DEF OneBillPerMonth
  <2> QED
    BY <1>2, <2>1 DEF OneBillPerMonth
<1>10. BillTypeOK'
  <2>1. agreement' \in [Agreements -> Agreement \cup {None}] /\ calls' \in 0..MaxCalls
    BY <1>2, <1>4, MaxCallsAssumption DEF BillTypeOK
  <2>2. \A b \in bills' : b \in Bill /\ b.due.day <= DaysInMonth(b.due.year, b.due.month)
    BY <1>2, <1>3 DEF BillsSound, Sound
  <2> QED
    BY <1>2, <2>1, <2>2 DEF BillTypeOK
<1>11. DraftsSound'
  BY <1>2, <1>6, <1>7 DEF DraftsSound, Sound, Signed, Bill
<1>12. DraftsNumbered' /\ DraftsDistinct'
  BY <1>2 DEF DraftsNumbered, DraftsDistinct, Distinct
<1>13. DraftsCurrent'
  <2> SUFFICES ASSUME NEW q \in Requests, req[q].at \in Generating,
                      NEW b \in req[q].drafts, b.agreement \notin req[q].stale
               PROVE  Current(b)'
    BY <1>2 DEF DraftsCurrent
  <2>1. Current(b) /\ b.agreement \in Agreements
    BY DEF DraftsCurrent, DraftsSound, Sound, Bill
  <2> QED
    BY <1>2, <1>7, <2>1 DEF Current
<1> QED
  BY <1>8, <1>9, <1>10, <1>11, <1>12, <1>13

LEMMA AmendKeeps ==
  ASSUME BillInv, NEW a \in Agreements, NEW new \in Agreement, Amend(a, new)
  PROVE  BillInv'
<1> USE DEF BillInv
<1>1. /\ agreement[a] # None
      /\ agreement' = [agreement EXCEPT ![a] = new]
      /\ req' = [q \in Requests |-> IF req[q].at = "idle" THEN req[q]
                                    ELSE [req[q] EXCEPT !.stale = @ \cup {a}]]
      /\ calls' = calls + 1 /\ calls < MaxCalls /\ calls \in 0..MaxCalls
      /\ bills' = bills /\ promised' = promised /\ reported' = reported
  BY DEF Amend, BillTypeOK
<1>2. new # None
  BY NoneAssumption
<1>3. \A g \in Agreements : agreement'[g] = IF g = a THEN new ELSE agreement[g]
  BY <1>1 DEF BillTypeOK
<1>4. \A q \in Requests :
        /\ req'[q] \in Request
        /\ req'[q].drafts = req[q].drafts
        /\ req'[q].number = req[q].number
        /\ req'[q].at = req[q].at
        /\ req[q].stale \subseteq req'[q].stale
        /\ req[q].at \in Generating => a \in req'[q].stale
  BY <1>1 DEF BillTypeOK, Request, Generating
<1>5. BillTypeOK'
  <2>1. agreement' \in [Agreements -> Agreement \cup {None}] /\ calls' \in 0..MaxCalls
    BY <1>1, MaxCallsAssumption DEF BillTypeOK
  <2>2. req' \in [Requests -> Request]
    BY <1>1, <1>4
  <2> QED
    BY <1>1, <2>1, <2>2 DEF BillTypeOK
<1>6. BillsSound' /\ OneBillPerMonth'
  BY <1>1, <1>2, <1>3 DEF BillsSound, OneBillPerMonth, Sound, Signed, Bill
<1>7. DraftsSound'
  BY <1>2, <1>3, <1>4 DEF DraftsSound, Sound, Signed, Bill
<1>8. DraftsNumbered' /\ DraftsDistinct'
  BY <1>4 DEF DraftsNumbered, DraftsDistinct, Distinct
<1>9. DraftsCurrent'
  <2> SUFFICES ASSUME NEW q \in Requests, req[q].at \in Generating,
                      NEW b \in req[q].drafts, b.agreement \notin req'[q].stale
               PROVE  Current(b)'
    BY <1>4 DEF DraftsCurrent
  <2>1. Current(b) /\ b.agreement \in Agreements /\ b.agreement # a
    BY <1>4 DEF DraftsCurrent, DraftsSound, Sound, Bill
  <2> QED
    BY <1>3, <2>1 DEF Current
<1> QED
  BY <1>5, <1>6, <1>7, <1>8, <1>9

LEMMA GenerateReadKeeps ==
  ASSUME BillInv, NEW r \in Requests, NEW scope \in Scopes, NEW target \in Targets,
         GenerateRead(r, scope, target)
  PROVE  BillInv'
<1> USE DEF BillInv
<1> DEFINE read == Listed \cap scope
           drafts == UNION {Drafts(a, target) : a \in read}
           owed == UNION {{a} \X Owed(agreement[a].term, target) : a \in read}
<1>1. /\ Begin(r, "listing", drafts, owed)
      /\ agreement' = agreement /\ bills' = bills
      /\ promised' = promised /\ reported' = reported
  BY DEF GenerateRead
<1>2. calls \in 0..MaxCalls /\ calls < MaxCalls
  BY <1>1 DEF Begin, BillTypeOK
<1>3. \A a \in read : /\ a \in Agreements
                      /\ agreement[a] # None
                      /\ agreement[a].listed
                      /\ agreement[a].dueDay \in 1..31
  BY DEF Listed, BillTypeOK, Agreement
<1>4. owed \in SUBSET (Agreements \X Period)
  BY <1>3 DEF Owed
<1>5. \A b \in drafts : \E a \in read : \E p \in EligiblePeriods(agreement[a].term, target) :
        b = NewBill(a, p, agreement[a].dueDay, "generated")
  BY DEF Drafts
<1> HIDE DEF drafts, owed
<1>6. ASSUME NEW b \in drafts
      PROVE  /\ Sound(b) /\ Signed(b) /\ Current(b)
             /\ b.by = calls + 1
             /\ b.kind = "generated"
             /\ b = NewBill(b.agreement, b.period, agreement[b.agreement].dueDay, "generated")
  <2>0. PICK a \in read : \E p \in EligiblePeriods(agreement[a].term, target) :
          b = NewBill(a, p, agreement[a].dueDay, "generated")
    BY <1>5
  <2>1. PICK p \in EligiblePeriods(agreement[a].term, target) :
          b = NewBill(a, p, agreement[a].dueDay, "generated")
    BY <2>0
  <2>2. p \in Period /\ InTerm(agreement[a].term, p)
    BY EligibleInTerm
  <2>3. a \in Agreements /\ agreement[a].dueDay \in 1..31
    BY <1>3
  <2>4. Sound(b) /\ b.agreement = a /\ b.period = p /\ b.by = calls + 1 /\ b.kind = "generated"
    BY <1>2, <2>1, <2>2, <2>3, NewBillSound
  <2> QED
    BY <1>3, <2>1, <2>2, <2>4 DEF Signed, Current
<1>7. Distinct(drafts)
  BY <1>6 DEF Distinct, SameMonth
<1> QED
  BY <1>1, <1>4, <1>6, <1>7, BeginKeeps

LEMMA CreateReadKeeps ==
  ASSUME BillInv, NEW r \in Requests, NEW a \in Agreements, NEW p \in Targets,
         CreateRead(r, a, p)
  PROVE  BillInv'
<1> USE DEF BillInv
<1> DEFINE b0 == NewBill(a, p, agreement[a].dueDay, "created")
<1>1. /\ agreement[a] # None
      /\ Begin(r, "finding", {b0}, {})
      /\ agreement' = agreement /\ bills' = bills
      /\ promised' = promised /\ reported' = reported
  BY DEF CreateRead
<1>2. calls \in 0..MaxCalls /\ calls < MaxCalls
  BY <1>1 DEF Begin, BillTypeOK
<1>3. agreement[a].dueDay \in 1..31 /\ p \in Period
  BY <1>1, TargetsAssumption DEF BillTypeOK, Agreement
<1>4. Sound(b0) /\ b0.agreement = a /\ b0.by = calls + 1 /\ b0.kind = "created"
  BY <1>2, <1>3, NewBillSound
<1> HIDE DEF b0
<1>5. Distinct({b0})
  BY DEF Distinct
<1>6. {} \in SUBSET (Agreements \X Period)
  OBVIOUS
<1>7. \A b \in {b0} :
        /\ Sound(b) /\ Signed(b)
        /\ b.by = calls + 1
        /\ b.kind = "generated" <=> "finding" = "listing"
        /\ "finding" = "listing" => Current(b)
  BY <1>1, <1>4 DEF Signed
<1> QED
  BY <1>1, <1>5, <1>6, <1>7, BeginKeeps

LEMMA FindKeeps ==
  ASSUME BillInv, NEW r \in Requests, GenerateFind(r) \/ CreateFind(r)
  PROVE  BillInv'
<1> USE DEF BillInv
<1>1. UNCHANGED <<agreement, bills, calls, promised, reported>>
  BY DEF GenerateFind, CreateFind
<1>2. DraftsInv' /\ req' \in [Requests -> Request]
  <2>1. CASE GenerateFind(r)
    <3> DEFINE next == [req[r] EXCEPT !.at = "inserting",
                                      !.drafts = {b \in req[r].drafts : ~Taken(b)}]
    <3>1. req' = [req EXCEPT ![r] = next] /\ req[r].at \in Generating
      BY <2>1 DEF GenerateFind, BillTypeOK, Generating
    <3>2. next \in Request /\ next.drafts \subseteq req[r].drafts /\ next.at \in Generating
          /\ next.number = req[r].number /\ next.stale = req[r].stale
      BY DEF BillTypeOK, Request, Generating
    <3> HIDE DEF next
    <3> QED
      BY <1>1, <3>1, <3>2, DraftsKept DEF BillTypeOK
  <2>2. CASE CreateFind(r) /\ ~End(r)
    <3> DEFINE next == [req[r] EXCEPT !.at = "creating"]
    <3>1. req' = [req EXCEPT ![r] = next] /\ req[r].at \notin Generating
      BY <2>2 DEF CreateFind, BillTypeOK, Generating
    <3>2. next \in Request /\ next.drafts = req[r].drafts /\ next.at \notin Generating
          /\ next.number = req[r].number /\ next.stale = req[r].stale
      BY DEF BillTypeOK, Request, Generating
    <3> HIDE DEF next
    <3> QED
      BY <1>1, <3>1, <3>2, DraftsKept DEF BillTypeOK
  <2>3. CASE End(r)
    BY <1>1, <2>3, EndKeeps
  <2> QED
    BY <2>1, <2>2, <2>3
<1> QED
  BY <1>1, <1>2 DEF DraftsInv, BillTypeOK, BillsSound, OneBillPerMonth, Sound, Signed

LEMMA InsertsKeep ==
  ASSUME BillInv, NEW r \in Requests, GenerateInsert(r) \/ CreateInsert(r)
  PROVE  BillInv'
<1> USE DEF BillInv
<1>1. /\ bills' = bills \cup {b \in req[r].drafts : ~Taken(b)}
      /\ End(r)
      /\ agreement' = agreement /\ calls' = calls
  BY DEF GenerateInsert, CreateInsert
<1>2. DraftsInv' /\ req' \in [Requests -> Request]
  BY <1>1, EndKeeps
<1>3. /\ BillsSound' /\ OneBillPerMonth' /\ bills' \subseteq Bill
      /\ \A b \in bills' : b.due.day <= DaysInMonth(b.due.year, b.due.month)
  BY <1>1, InsertKeeps
<1>4. promised' \subseteq Agreements \X Period
  BY DEF GenerateInsert, CreateInsert, BillTypeOK, Request
<1>5. reported' \in Nat
  <2>1. CASE CreateInsert(r)
    BY <2>1 DEF CreateInsert, BillTypeOK
  <2>2. CASE GenerateInsert(r)
    <3> DEFINE missing == {b \in req[r].drafts : ~Taken(b)}
    <3>1. IsFiniteSet(missing)
      BY DraftsFinite, FS_Subset
    <3>2. Cardinality(missing) \in Nat
      BY <3>1, FS_CardinalityType
    <3>3. reported' = reported + Cardinality(missing)
      BY <2>2 DEF GenerateInsert
    <3> QED
      BY <3>2, <3>3 DEF BillTypeOK
  <2> QED
    BY <2>1, <2>2
<1> QED
  BY <1>1, <1>2, <1>3, <1>4, <1>5 DEF DraftsInv, BillTypeOK

LEMMA BillStep ==
  ASSUME BillInv, BillNext
  PROVE  BillInv'
<1>1. ASSUME NEW a \in Agreements, NEW t \in Terms, NEW d \in DueDays, NEW b \in BOOLEAN,
             Sign(a, t.start, d, b)
      PROVE  BillInv'
  BY <1>1, SignKeeps
<1>2. ASSUME NEW a \in Agreements, NEW t \in Terms, NEW d \in DueDays, NEW b \in BOOLEAN,
             Amend(a, [listed |-> b, term |-> t, dueDay |-> d])
      PROVE  BillInv'
  <2>1. [listed |-> b, term |-> t, dueDay |-> d] \in Agreement
    BY TermsAssumption, DueDaysAssumption DEF Agreement
  <2> QED
    BY <1>2, <2>1, AmendKeeps
<1>3. ASSUME NEW r \in Requests, NEW p \in Targets, NEW scope \in Scopes,
             GenerateRead(r, scope, p)
      PROVE  BillInv'
  BY <1>3, GenerateReadKeeps
<1>4. ASSUME NEW r \in Requests, NEW p \in Targets, NEW a \in Agreements, CreateRead(r, a, p)
      PROVE  BillInv'
  BY <1>4, CreateReadKeeps
<1>5. ASSUME NEW r \in Requests, GenerateFind(r) \/ CreateFind(r)
      PROVE  BillInv'
  BY <1>5, FindKeeps
<1>6. ASSUME NEW r \in Requests, GenerateInsert(r) \/ CreateInsert(r)
      PROVE  BillInv'
  BY <1>6, InsertsKeep
<1>7. ASSUME NEW r \in Requests, Abort(r)
      PROVE  BillInv'
  <2>1. UNCHANGED <<agreement, bills, calls, promised, reported>> /\ End(r)
    BY <1>7 DEF Abort
  <2>2. DraftsInv' /\ req' \in [Requests -> Request]
    BY <2>1, EndKeeps
  <2> QED
    BY <2>1, <2>2 DEF BillInv, DraftsInv, BillTypeOK, BillsSound, OneBillPerMonth, Sound, Signed
<1> QED
  BY <1>1, <1>2, <1>3, <1>4, <1>5, <1>6, <1>7 DEF BillNext

LEMMA BillStutter ==
  ASSUME BillInv, UNCHANGED <<agreement, bills, req, promised, reported>>,
         calls' \in 0..MaxCalls
  PROVE  BillInv'
BY DEF BillInv, BillTypeOK, BillsSound, OneBillPerMonth, DraftsSound, DraftsNumbered,
       DraftsDistinct, DraftsCurrent, Sound, Signed, Current, Distinct

-----------------------------------------------------------------------------
LEMMA UnionCounts ==
  ASSUME NEW S, NEW T, IsFiniteSet(S), IsFiniteSet(T), S \cap T = {}
  PROVE  Cardinality(S \cup T) = Cardinality(S) + Cardinality(T)
<1>1. Cardinality(S \cup T) = Cardinality(S) + Cardinality(T) - Cardinality(S \cap T)
  BY FS_Union
<1>2. Cardinality(S \cap T) = 0
  BY FS_EmptySet
<1>3. Cardinality(S) \in Nat /\ Cardinality(T) \in Nat
  BY FS_CardinalityType
<1> QED
  BY <1>1, <1>2, <1>3

(* What the steps of billing may do to the counts and to the terms.        *)
LEMMA CountsStep ==
  ASSUME BillInv, CountsAddUp, BillNext
  PROVE  CountsAddUp'
<1> USE DEF BillInv
<1> DEFINE Generated(B) == {b \in B : b.kind = "generated"}
<1>0. IsFiniteSet(Generated(bills))
  BY DistinctFinite DEF BillsSound, OneBillPerMonth, Distinct, SameMonth
<1>1. ASSUME NEW r \in Requests, GenerateInsert(r)
      PROVE  CountsAddUp'
  <2> DEFINE missing == {b \in req[r].drafts : ~Taken(b)}
  <2>1. bills' = bills \cup missing /\ reported' = reported + Cardinality(missing)
        /\ req[r].at \in Generating
    BY <1>1 DEF GenerateInsert, Generating
  <2>2. \A b \in missing : b.kind = "generated" /\ b \notin bills
    BY <2>1 DEF DraftsNumbered, Taken
  <2>3. IsFiniteSet(missing)
    BY DraftsFinite, FS_Subset
  <2>4. Generated(bills') = Generated(bills) \cup missing /\ Generated(bills) \cap missing = {}
    BY <2>1, <2>2
  <2>5. Cardinality(Generated(bills) \cup missing) =
          Cardinality(Generated(bills)) + Cardinality(missing)
    BY <1>0, <2>3, <2>4, UnionCounts
  <2>6. reported' = Cardinality(Generated(bills) \cup missing)
    BY <2>1, <2>5 DEF CountsAddUp
  <2>7. reported' = Cardinality(Generated(bills'))
    BY <2>4, <2>6
  <2> QED
    BY <2>7 DEF CountsAddUp
<1>2. ASSUME reported' = reported, \A b \in bills' \ bills : b.kind # "generated",
             bills \subseteq bills'
      PROVE  CountsAddUp'
  <2>1. Generated(bills') = Generated(bills)
    BY <1>2
  <2> QED
    BY <1>2, <2>1 DEF CountsAddUp
<1>3. ASSUME NEW a \in Agreements, NEW t \in Terms, NEW d \in DueDays, NEW b \in BOOLEAN,
             Sign(a, t.start, d, b)
      PROVE  CountsAddUp'
  BY <1>2, <1>3 DEF Sign, NewBill
<1>4. ASSUME NEW r \in Requests, CreateInsert(r)
      PROVE  CountsAddUp'
  BY <1>2, <1>4 DEF CreateInsert, DraftsNumbered, Generating
<1>5. ASSUME bills' = bills, reported' = reported
      PROVE  CountsAddUp'
  BY <1>5 DEF CountsAddUp
<1> QED
  BY <1>1, <1>3, <1>4, <1>5 DEF BillNext, Amend, GenerateRead, CreateRead,
     GenerateFind, CreateFind, Abort

LEMMA TermsStep ==
  ASSUME BillInv, BillNext, NEW b \in bills' \ bills, b.kind = "generated"
  PROVE  \/ agreement[b.agreement].listed /\ InTerm(agreement[b.agreement].term, b.period)
         \/ \E r \in Requests : req[r].number = b.by /\ b.agreement \in req[r].stale
<1> USE DEF BillInv
<1>1. ASSUME NEW r \in Requests, GenerateInsert(r)
      PROVE  b.agreement \in req[r].stale \/ Current(b)
  BY <1>1 DEF GenerateInsert, DraftsCurrent, Generating
<1>2. ASSUME NEW r \in Requests, GenerateInsert(r)
      PROVE  req[r].number = b.by
  BY <1>2 DEF GenerateInsert, DraftsNumbered
<1>3. ASSUME NEW a \in Agreements, NEW t \in Terms, NEW d \in DueDays, NEW i \in BOOLEAN
      PROVE  ~Sign(a, t.start, d, i)
  BY DEF Sign, NewBill
<1>4. ASSUME NEW r \in Requests
      PROVE  ~CreateInsert(r)
  BY DEF CreateInsert, DraftsNumbered, Generating
<1>5. PICK r \in Requests : GenerateInsert(r)
  BY <1>3, <1>4 DEF BillNext, Amend, GenerateRead, CreateRead,
     GenerateFind, CreateFind, Abort
<1> QED
  BY <1>1, <1>2, <1>5 DEF Current

(* What is owed stays drafted or billed, and an insert bills it.           *)
CompleteInv == OwedHeld /\ GenerationsComplete

LEMMA TakenDraws ==
  ASSUME NEW b, Taken(b), NEW o, Draws(b, o)
  PROVE  \E c \in bills : Draws(c, o)
BY DEF Taken, Draws

LEMMA GenerateReadOwes ==
  ASSUME BillInv, NEW r \in Requests, NEW scope \in Scopes, NEW target \in Targets,
         GenerateRead(r, scope, target)
  PROVE  \A o \in req'[r].owed : \E b \in req'[r].drafts : Draws(b, o)
<1> DEFINE read == Listed \cap scope
           drafts == UNION {Drafts(a, target) : a \in read}
           owed == UNION {{a} \X Owed(agreement[a].term, target) : a \in read}
<1>1. Begin(r, "listing", drafts, owed)
  BY DEF GenerateRead
<1>2. req'[r].drafts = drafts /\ req'[r].owed = owed
  BY <1>1 DEF Begin, BillInv, BillTypeOK
<1>3. ASSUME NEW o \in owed
      PROVE  \E b \in drafts : Draws(b, o)
  <2>1. PICK a \in read : o \in {a} \X Owed(agreement[a].term, target)
    OBVIOUS
  <2>2. PICK p \in Owed(agreement[a].term, target) : o = <<a, p>>
    BY <2>1
  <2>3. agreement[a].term \in Term /\ target \in Period
    BY TargetsAssumption DEF Listed, BillInv, BillTypeOK, Agreement
  <2>4. p \in EligiblePeriods(agreement[a].term, target)
    BY <2>2, <2>3, LoopIsComplete
  <2> DEFINE b0 == NewBill(a, p, agreement[a].dueDay, "generated")
  <2>5. b0 \in drafts
    BY <2>4 DEF Drafts
  <2>6. Draws(b0, o)
    BY <2>2 DEF Draws, NewBill
  <2> QED
    BY <2>5, <2>6
<1> HIDE DEF drafts, owed
<1> QED
  BY <1>2, <1>3

LEMMA CompleteStep ==
  ASSUME BillInv, CompleteInv, BillNext
  PROVE  CompleteInv'
<1> USE DEF BillInv, CompleteInv
<1>1. ASSUME bills \subseteq bills', promised' = promised,
             \A r \in Requests : req'[r].at \in Generating =>
               \/ /\ req[r].at \in Generating
                  /\ req'[r].drafts = req[r].drafts
                  /\ req'[r].owed = req[r].owed
               \/ \A o \in req'[r].owed :
                    \/ \E b \in req'[r].drafts : Draws(b, o)
                    \/ \E b \in bills : Draws(b, o)
      PROVE  CompleteInv'
  <2>1. OwedHeld'
    BY <1>1 DEF OwedHeld, Draws
  <2>2. GenerationsComplete'
    BY <1>1 DEF GenerationsComplete
  <2> QED
    BY <2>1, <2>2
<1>2. \A r \in Requests : End(r) => /\ req'[r].at = "idle"
                                    /\ \A q \in Requests : q # r => req'[q] = req[q]
  BY DEF End, Idle, BillTypeOK
<1>3. ASSUME NEW a \in Agreements, NEW t \in Terms, NEW d \in DueDays, NEW b \in BOOLEAN,
             Sign(a, t.start, d, b)
      PROVE  CompleteInv'
  BY <1>1, <1>3 DEF Sign
<1>4. ASSUME NEW a \in Agreements, NEW new, Amend(a, new)
      PROVE  CompleteInv'
  <2>1. /\ bills' = bills /\ promised' = promised
        /\ \A r \in Requests : /\ req'[r].at = req[r].at
                               /\ req'[r].drafts = req[r].drafts
                               /\ req'[r].owed = req[r].owed
    BY <1>4 DEF Amend, BillTypeOK, Request
  <2> QED
    BY <1>1, <2>1
<1>5. ASSUME NEW r \in Requests, NEW p \in Targets, NEW scope \in Scopes,
             GenerateRead(r, scope, p)
      PROVE  CompleteInv'
  <2>1. \A o \in req'[r].owed : \E b \in req'[r].drafts : Draws(b, o)
    BY <1>5, GenerateReadOwes
  <2>2. /\ bills' = bills /\ promised' = promised
        /\ \A q \in Requests : q # r => req'[q] = req[q]
    BY <1>5 DEF GenerateRead, Begin, BillTypeOK
  <2> QED
    BY <1>1, <2>1, <2>2
<1>6. ASSUME NEW r \in Requests, NEW a \in Agreements, NEW p \in Targets, CreateRead(r, a, p)
      PROVE  CompleteInv'
  <2>1. /\ bills' = bills /\ promised' = promised
        /\ req'[r].at = "finding"
        /\ \A q \in Requests : q # r => req'[q] = req[q]
    BY <1>6 DEF CreateRead, Begin, BillTypeOK
  <2> QED
    BY <1>1, <2>1 DEF Generating
<1>7. ASSUME NEW r \in Requests, GenerateFind(r)
      PROVE  CompleteInv'
  <2>1. /\ bills' = bills /\ promised' = promised
        /\ req'[r].owed = req[r].owed
        /\ req'[r].drafts = {b \in req[r].drafts : ~Taken(b)}
        /\ req[r].at \in Generating
        /\ \A q \in Requests : q # r => req'[q] = req[q]
    BY <1>7 DEF GenerateFind, BillTypeOK, Request, Generating
  <2>2. ASSUME NEW o \in req'[r].owed
        PROVE  \/ \E b \in req'[r].drafts : Draws(b, o)
               \/ \E b \in bills : Draws(b, o)
    BY <2>1, TakenDraws DEF OwedHeld
  <2> QED
    BY <1>1, <2>1, <2>2
<1>8. ASSUME NEW r \in Requests, GenerateInsert(r)
      PROVE  CompleteInv'
  <2>1. /\ bills' = bills \cup {b \in req[r].drafts : ~Taken(b)}
        /\ promised' = promised \cup req[r].owed
        /\ req[r].at \in Generating
        /\ End(r)
    BY <1>8 DEF GenerateInsert, Generating
  <2>2. OwedHeld'
    BY <1>2, <2>1 DEF OwedHeld, Draws, Generating
  <2>3. ASSUME NEW o \in req[r].owed
        PROVE  \E b \in bills' : Draws(b, o)
    BY <2>1, TakenDraws DEF OwedHeld
  <2>4. GenerationsComplete'
    BY <2>1, <2>3 DEF GenerationsComplete, Draws
  <2> QED
    BY <2>2, <2>4
<1>9. ASSUME NEW r \in Requests, CreateFind(r)
      PROVE  CompleteInv'
  <2>1. /\ bills' = bills /\ promised' = promised
        /\ req'[r].at \notin Generating
        /\ \A q \in Requests : q # r => req'[q] = req[q]
    <3>1. bills' = bills /\ promised' = promised
      BY <1>9 DEF CreateFind
    <3>2. CASE End(r)
      BY <1>2, <3>1, <3>2 DEF Generating
    <3>3. CASE req' = [req EXCEPT ![r].at = "creating"]
      BY <3>1, <3>3 DEF BillTypeOK, Request, Generating
    <3> QED
      BY <1>9, <3>2, <3>3 DEF CreateFind
  <2> QED
    BY <1>1, <2>1
<1>10. ASSUME NEW r \in Requests, CreateInsert(r) \/ Abort(r)
       PROVE  CompleteInv'
  <2>1. bills \subseteq bills' /\ promised' = promised /\ End(r)
    BY <1>10 DEF CreateInsert, Abort
  <2> QED
    BY <1>1, <1>2, <2>1 DEF Generating
<1> QED
  BY <1>3, <1>4, <1>5, <1>6, <1>7, <1>8, <1>9, <1>10 DEF BillNext

(* Months in order fall due in order.                                      *)
LEMMA DueOrdered ==
  ASSUME BillInv
  PROVE  DueInOrder
<1> USE DEF BillInv
<1> SUFFICES ASSUME NEW b \in bills
             PROVE  /\ UpTo(NextPeriod(b.period), b.due)
                    /\ \A c \in bills : c.agreement = b.agreement /\ ~UpTo(c.period, b.period)
                         => ~UpTo(c.due, b.due)
  BY DEF DueInOrder
<1>1. \A c \in bills :
        /\ c.period.year \in Nat /\ c.period.month \in 1..12
        /\ c.due.year = NextPeriod(c.period).year
        /\ c.due.month = NextPeriod(c.period).month
  BY YearsAssumption DEF BillsSound, Sound, Bill, Period
<1>2. UpTo(NextPeriod(b.period), b.due)
  <2>1. NextPeriod(b.period).year \in Nat /\ NextPeriod(b.period).month \in 1..12
    BY <1>1 DEF NextPeriod
  <2> QED
    BY <1>1, <2>1 DEF UpTo
<1>3. ASSUME NEW c \in bills, ~UpTo(c.period, b.period)
      PROVE  ~UpTo(c.due, b.due)
  <2>1. c.due.year = IF c.period.month = 12 THEN c.period.year + 1 ELSE c.period.year
    BY <1>1 DEF NextPeriod
  <2>2. c.due.month = IF c.period.month = 12 THEN 1 ELSE c.period.month + 1
    BY <1>1 DEF NextPeriod
  <2>3. b.due.year = IF b.period.month = 12 THEN b.period.year + 1 ELSE b.period.year
    BY <1>1 DEF NextPeriod
  <2>4. b.due.month = IF b.period.month = 12 THEN 1 ELSE b.period.month + 1
    BY <1>1 DEF NextPeriod
  <2> QED
    BY <1>1, <1>3, <2>1, <2>2, <2>3, <2>4 DEF UpTo
<1> QED
  BY <1>2, <1>3

-----------------------------------------------------------------------------
(* Reminders.                                                              *)
LEMMA AddReadKeeps ==
  ASSUME ReminderInv, NEW r \in Requests, NEW about \in Abouts, NEW type \in Types,
         NEW time \in Times, AddRead(r, about, type, time), BillTypeOK', BillsSound
  PROVE  ReminderInv'
<1> USE DEF ReminderInv
<1> DEFINE key == [bill |-> about, type |-> type, time |-> time]
<1>1. /\ adding[r].key = None
      /\ Clear(key)
      /\ adding' = [g \in Requests |->
           IF g = r THEN [key |-> key, beside |-> Like(key) # {}]
           ELSE [adding[g] EXCEPT !.beside = @ \/ g \in Like(key)]]
      /\ reminder' = reminder /\ excused' = excused
  BY DEF AddRead
<1>2. key \in Key /\ key.bill = about
  BY DEF Abouts, Key, BillsSound, Sound, Bill
<1> HIDE DEF key
<1>3. \A g \in Requests :
        /\ adding'[g] \in Addition
        /\ g = r => adding'[g].key = key /\ adding'[g].beside = (Like(key) # {})
        /\ g # r => /\ adding'[g].key = adding[g].key
                    /\ adding'[g].beside = (adding[g].beside \/ adding[g].key = key)
  BY <1>1, <1>2 DEF TypeOK, Addition, Like
<1>4. TypeOK'
  <2>1. adding' \in [Requests -> Addition]
    BY <1>1, <1>3
  <2> QED
    BY <1>1, <2>1 DEF TypeOK
<1>5. AddingTwiceKnown'
  <2> SUFFICES ASSUME NEW g \in Requests, NEW h \in Requests, g # h,
                      adding'[g].key # None, adding'[g].key = adding'[h].key
               PROVE  adding'[g].beside
    BY DEF AddingTwiceKnown
  <2>1. CASE g = r
    BY <1>3, <2>1 DEF Like
  <2>2. CASE h = r
    BY <1>3, <2>2
  <2>3. CASE g # r /\ h # r
    BY <1>3, <2>3, Zenon DEF AddingTwiceKnown
  <2> QED
    BY <2>1, <2>2, <2>3
<1>6. AddingClear'
  <2> SUFFICES ASSUME NEW g \in Requests, adding'[g].key # None, ~adding'[g].beside
               PROVE  \/ adding'[g].key.bill = None
                      \/ \A k \in Slots \ excused :
                           reminder[k].status = "PENDING" => reminder[k].key # adding'[g].key
    BY <1>1 DEF AddingClear
  <2>1. CASE g = r
    BY <1>1, <1>3, <2>1 DEF Clear, Pending
  <2>2. CASE g # r
    BY <1>3, <2>2 DEF AddingClear
  <2> QED
    BY <2>1, <2>2
<1>7. RemindersDistinct'
  BY <1>1 DEF RemindersDistinct
<1> QED
  BY <1>4, <1>5, <1>6, <1>7

LEMMA AddEnds ==
  ASSUME ReminderInv, NEW r \in Requests, adding' = [adding EXCEPT ![r] = NoAddition]
  PROVE  /\ adding' \in [Requests -> Addition]
         /\ adding'[r].key = None
         /\ \A g \in Requests : g # r => adding'[g] = adding[g]
         /\ AddingTwiceKnown'
<1>1. NoAddition \in Addition /\ NoAddition.key = None
  BY DEF NoAddition, Addition
<1>2. adding' \in [Requests -> Addition]
  BY <1>1 DEF ReminderInv, TypeOK
<1>3. adding'[r].key = None /\ \A g \in Requests : g # r => adding'[g] = adding[g]
  BY <1>1 DEF ReminderInv, TypeOK
<1>4. AddingTwiceKnown'
  BY <1>3 DEF ReminderInv, AddingTwiceKnown
<1> QED
  BY <1>2, <1>3, <1>4

LEMMA AddInsertKeeps ==
  ASSUME ReminderInv, NEW r \in Requests, AddInsert(r), BillTypeOK'
  PROVE  ReminderInv'
<1> USE DEF ReminderInv
<1> DEFINE key == adding[r].key
<1>1. PICK k \in Slots :
        /\ ~Present(k)
        /\ reminder' = [reminder EXCEPT ![k] = [status |-> "PENDING", key |-> key]]
        /\ excused' = IF adding[r].beside THEN excused \cup {k} ELSE excused
  BY DEF AddInsert
<1>2. key # None /\ adding' = [adding EXCEPT ![r] = NoAddition]
  BY DEF AddInsert
<1>3. /\ adding' \in [Requests -> Addition]
      /\ adding'[r].key = None
      /\ \A g \in Requests : g # r => adding'[g] = adding[g]
      /\ AddingTwiceKnown'
  BY <1>2, AddEnds
<1>4. key \in Key
  BY <1>2 DEF TypeOK, Addition
<1>5. /\ \A j \in Slots \ {k} : reminder'[j] = reminder[j]
      /\ reminder'[k].status = "PENDING" /\ reminder'[k].key = key
      /\ reminder' \in [Slots -> Reminder]
  BY <1>1, <1>4 DEF TypeOK, Reminder, Statuses
<1>6. TypeOK'
  BY <1>1, <1>3, <1>4, <1>5 DEF TypeOK
<1>7. ASSUME NEW g \in Requests, g # r, adding[g].key # None, ~adding[g].beside
      PROVE  adding[g].key # key
  BY <1>7 DEF AddingTwiceKnown
<1>8. AddingClear'
  <2> SUFFICES ASSUME NEW g \in Requests, adding'[g].key # None, ~adding'[g].beside,
                      adding'[g].key.bill # None,
                      NEW j \in Slots \ excused', reminder'[j].status = "PENDING"
               PROVE  reminder'[j].key # adding'[g].key
    BY DEF AddingClear
  <2>1. g # r /\ adding'[g] = adding[g] /\ j \notin excused
    BY <1>1, <1>3
  <2>2. CASE j = k
    BY <1>5, <1>7, <2>1, <2>2
  <2>3. CASE j # k
    BY <1>5, <2>1, <2>3 DEF AddingClear
  <2> QED
    BY <2>2, <2>3
<1>9. RemindersDistinct'
  <2>1. ASSUME NEW j \in Slots \ excused', j # k, k \notin excused',
               reminder[j].status = "PENDING", reminder[j].key = key
        PROVE  key.bill = None
    BY <1>1, <1>2, <2>1 DEF AddingClear
  <2> SUFFICES ASSUME NEW i \in Slots \ excused', NEW j \in Slots \ excused', i # j,
                      reminder'[i].status = "PENDING", reminder'[j].status = "PENDING",
                      reminder'[i].key = reminder'[j].key
               PROVE  reminder'[i].key.bill = None
    BY DEF RemindersDistinct
  <2>2. CASE i = k
    BY <1>5, <2>1, <2>2
  <2>3. CASE j = k
    BY <1>5, <2>1, <2>3
  <2>4. CASE i # k /\ j # k
    BY <1>1, <1>5, <2>4 DEF RemindersDistinct
  <2> QED
    BY <2>2, <2>3, <2>4
<1> QED
  BY <1>3, <1>6, <1>8, <1>9

LEMMA AddAbortKeeps ==
  ASSUME ReminderInv, NEW r \in Requests, AddAbort(r), BillTypeOK'
  PROVE  ReminderInv'
<1> USE DEF ReminderInv
<1>1. adding' = [adding EXCEPT ![r] = NoAddition] /\ reminder' = reminder /\ excused' = excused
  BY DEF AddAbort
<1>2. /\ adding' \in [Requests -> Addition]
      /\ adding'[r].key = None
      /\ \A g \in Requests : g # r => adding'[g] = adding[g]
      /\ AddingTwiceKnown'
  BY <1>1, AddEnds
<1> QED
  BY <1>1, <1>2 DEF TypeOK, AddingClear, RemindersDistinct

LEMMA UpdateKeeps ==
  ASSUME ReminderInv, NEW k \in Slots, NEW status \in Statuses, NEW time \in Times,
         Update(k, status, time), BillTypeOK'
  PROVE  ReminderInv'
<1> USE DEF ReminderInv
<1>1. /\ reminder[k].key \in Key
      /\ reminder' = [reminder EXCEPT ![k].status = status, ![k].key.time = time]
      /\ excused' = excused \cup {k} /\ adding' = adding
  BY DEF Update, Present, TypeOK
<1>2. /\ reminder'[k] = [status |-> status, key |-> [reminder[k].key EXCEPT !.time = time]]
      /\ \A j \in Slots : j # k => reminder'[j] = reminder[j]
  BY <1>1 DEF TypeOK, Reminder, Key
<1>3. [reminder[k].key EXCEPT !.time = time] \in Key
  BY <1>1 DEF Key
<1>4. TypeOK'
  <2>1. reminder' \in [Slots -> Reminder]
    <3>1. \A j \in Slots : reminder'[j] \in Reminder
      BY <1>2, <1>3 DEF TypeOK, Reminder
    <3> QED
      BY <1>1, <3>1 DEF TypeOK
  <2>2. \A j \in Slots : reminder'[j].status # "absent" => reminder'[j].key \in Key
    BY <1>2, <1>3 DEF TypeOK
  <2> QED
    BY <1>1, <2>1, <2>2 DEF TypeOK
<1>5. AddingTwiceKnown'
  BY <1>1 DEF AddingTwiceKnown
<1>6. \A j \in Slots \ excused' : j \in Slots \ excused /\ reminder'[j] = reminder[j]
  BY <1>1, <1>2
<1>7. AddingClear'
  BY <1>1, <1>6 DEF AddingClear
<1>8. RemindersDistinct'
  BY <1>6 DEF RemindersDistinct
<1> QED
  BY <1>4, <1>5, <1>7, <1>8

LEMMA SendKeeps ==
  ASSUME ReminderInv, NEW k \in Slots, Send(k), BillTypeOK'
  PROVE  ReminderInv'
<1> USE DEF ReminderInv
<1>1. /\ reminder[k].key \in Key
      /\ reminder' = [reminder EXCEPT ![k].status = "SENT"]
      /\ excused' = excused /\ adding' = adding
  BY DEF Send, Present, TypeOK
<1>2. /\ reminder'[k] = [status |-> "SENT", key |-> reminder[k].key]
      /\ \A j \in Slots : j # k => reminder'[j] = reminder[j]
      /\ reminder' \in [Slots -> Reminder]
  BY <1>1 DEF TypeOK, Reminder, Statuses
<1>3. TypeOK'
  BY <1>1, <1>2 DEF TypeOK
<1>4. AddingTwiceKnown' /\ AddingClear' /\ RemindersDistinct'
  BY <1>1, <1>2 DEF AddingTwiceKnown, AddingClear, RemindersDistinct
<1> QED
  BY <1>3, <1>4

LEMMA OthersKeep ==
  ASSUME ReminderInv, UNCHANGED <<reminder, adding, excused>>, BillTypeOK'
  PROVE  ReminderInv'
BY DEF ReminderInv, TypeOK, AddingTwiceKnown, AddingClear, RemindersDistinct

-----------------------------------------------------------------------------
AllInv == BillInv /\ CountsAddUp /\ CompleteInv /\ ReminderInv

(* A reminder's step leaves the bills and what is computed of them alone.  *)
LEMMA ReminderLeavesBills ==
  ASSUME BillInv, CountsAddUp, CompleteInv,
         \/ \E r \in Requests, about \in Abouts, type \in Types, time \in Times :
              AddRead(r, about, type, time)
         \/ \E r \in Requests : AddInsert(r) \/ AddAbort(r)
         \/ \E k \in Slots, status \in Statuses, time \in Times : Update(k, status, time)
         \/ \E k \in Slots : Send(k)
         \/ UNCHANGED vars
  PROVE  BillInv' /\ CountsAddUp' /\ CompleteInv' /\ bills' = bills
<1>1. UNCHANGED <<agreement, bills, req, promised, reported>>
  BY DEF AddRead, AddInsert, AddAbort, Update, Send, vars, billVars
<1>2. calls' = calls \/ (calls < MaxCalls /\ calls' = calls + 1)
  BY DEF AddRead, AddInsert, AddAbort, Update, Send, Counted, vars, billVars
<1>3. calls' \in 0..MaxCalls
  BY <1>2, MaxCallsAssumption DEF BillInv, BillTypeOK
<1> QED
  BY <1>1, <1>3, BillStutter DEF CountsAddUp, CompleteInv, OwedHeld, GenerationsComplete

LEMMA AllInit ==
  ASSUME ReminderInit
  PROVE  AllInv
<1>1. BillInv
  BY InitHolds DEF ReminderInit
<1>2. CountsAddUp
  <2>1. {b \in bills : b.kind = "generated"} = {} /\ reported = 0
    BY DEF ReminderInit, Init
  <2> QED
    BY <2>1, FS_EmptySet DEF CountsAddUp
<1>3. /\ \A k \in Slots : reminder[k] = [status |-> "absent", key |-> None]
      /\ \A r \in Requests : adding[r].key = None
      /\ reminder \in [Slots -> Reminder] /\ adding \in [Requests -> Addition]
      /\ excused = {}
  BY DEF ReminderInit, NoAddition, Reminder, Addition
<1>4. CompleteInv
  <2>1. promised = {} /\ \A r \in Requests : req[r].at = "idle"
    BY DEF ReminderInit, Init, Idle
  <2> QED
    BY <2>1 DEF CompleteInv, OwedHeld, GenerationsComplete, Generating
<1>5. ReminderInv
  BY <1>1, <1>3 DEF ReminderInv, TypeOK, BillInv, AddingTwiceKnown, AddingClear,
     RemindersDistinct
<1> QED
  BY <1>1, <1>2, <1>4, <1>5 DEF AllInv

LEMMA AllStep ==
  ASSUME AllInv, [Next]_vars
  PROVE  AllInv'
<1> USE DEF AllInv
<1>1. CASE BillNext /\ UNCHANGED <<reminder, adding, excused>>
  <2>1. BillInv' /\ CountsAddUp' /\ CompleteInv'
    BY <1>1, BillStep, CountsStep, CompleteStep
  <2> QED
    BY <1>1, <2>1, OthersKeep DEF BillInv
<1>2. ASSUME NEW r \in Requests, NEW about \in Abouts, NEW type \in Types, NEW time \in Times,
             AddRead(r, about, type, time)
      PROVE  AllInv'
  <2>1. BillInv' /\ CountsAddUp' /\ CompleteInv'
    BY <1>2, ReminderLeavesBills
  <2> QED
    BY <1>2, <2>1, AddReadKeeps DEF BillInv
<1>3. ASSUME NEW r \in Requests, AddInsert(r) \/ AddAbort(r)
      PROVE  AllInv'
  <2>1. BillInv' /\ CountsAddUp' /\ CompleteInv'
    BY <1>3, ReminderLeavesBills
  <2> QED
    BY <1>3, <2>1, AddInsertKeeps, AddAbortKeeps DEF BillInv
<1>4. ASSUME NEW k \in Slots, NEW status \in Statuses, NEW time \in Times,
             Update(k, status, time)
      PROVE  AllInv'
  <2>1. BillInv' /\ CountsAddUp' /\ CompleteInv'
    BY <1>4, ReminderLeavesBills
  <2> QED
    BY <1>4, <2>1, UpdateKeeps DEF BillInv
<1>5. ASSUME NEW k \in Slots, Send(k)
      PROVE  AllInv'
  <2>1. BillInv' /\ CountsAddUp' /\ CompleteInv'
    BY <1>5, ReminderLeavesBills
  <2> QED
    BY <1>5, <2>1, SendKeeps DEF BillInv
<1>6. CASE UNCHANGED vars
  <2>1. BillInv' /\ CountsAddUp' /\ CompleteInv'
    BY <1>6, ReminderLeavesBills
  <2> QED
    BY <1>6, <2>1, OthersKeep DEF BillInv, vars
<1> QED
  BY <1>1, <1>2, <1>3, <1>4, <1>5, <1>6 DEF Next

(* The invariant of billing and reminders together.                        *)
THEOREM BillingInvariant == ReminderSpec => []AllInv
<1>1. ReminderInit => AllInv
  BY AllInit
<1>2. AllInv /\ [Next]_vars => AllInv'
  BY AllStep
<1> QED
  BY <1>1, <1>2, PTL DEF ReminderSpec

(* Rows and requests keep their types; due days fit their months.          *)
THEOREM TypesHold == ReminderSpec => []TypeOK
<1>1. AllInv => TypeOK
  BY DEF AllInv, ReminderInv
<1> QED
  BY <1>1, BillingInvariant, PTL

(* No month of an agreement is billed twice.                               *)
THEOREM MonthsBilledOnce == ReminderSpec => []OneBillPerMonth
<1>1. AllInv => OneBillPerMonth
  BY DEF AllInv, BillInv
<1> QED
  BY <1>1, BillingInvariant, PTL

(* The counts generations answer are the bills they inserted.              *)
THEOREM CountsAreRight == ReminderSpec => []CountsAddUp
<1>1. AllInv => CountsAddUp
  BY DEF AllInv
<1> QED
  BY <1>1, BillingInvariant, PTL

(* A generation that has answered left no month unbilled that was owed.    *)
THEOREM GenerationsAreComplete == ReminderSpec => []GenerationsComplete
<1>1. AllInv => GenerationsComplete
  BY DEF AllInv, CompleteInv
<1> QED
  BY <1>1, BillingInvariant, PTL

(* Bills fall due after their month, in the order of their months.         *)
THEOREM BillsFallDueInOrder == ReminderSpec => []DueInOrder
<1>1. AllInv => DueInOrder
  BY DueOrdered DEF AllInv
<1> QED
  BY <1>1, BillingInvariant, PTL

(* No two reminders alike are PENDING unless created beside each other or  *)
(* changed by hand.                                                        *)
THEOREM PendingRemindersDistinct == ReminderSpec => []RemindersDistinct
<1>1. AllInv => RemindersDistinct
  BY DEF AllInv, ReminderInv
<1> QED
  BY <1>1, BillingInvariant, PTL

(* Generated bills stay in the term of a listed agreement, unless it was   *)
(* amended between the generation's read and its insert.                   *)
THEOREM GenerationStaysInTerm == ReminderSpec => GeneratedInTerm
<1> DEFINE Allowed(b) ==
      \/ agreement[b.agreement].listed /\ InTerm(agreement[b.agreement].term, b.period)
      \/ \E r \in Requests : req[r].number = b.by /\ b.agreement \in req[r].stale
    Step == \A b \in bills' \ bills : b.kind = "generated" => Allowed(b)
<1>1. AllInv /\ [Next]_vars => [Step]_billVars
  <2> SUFFICES ASSUME AllInv, [Next]_vars
               PROVE  Step
    OBVIOUS
  <2>1. CASE BillNext
    BY <2>1, TermsStep DEF AllInv
  <2>2. CASE ~BillNext
    BY <2>2, ReminderLeavesBills DEF AllInv, Next
  <2> QED
    BY <2>1, <2>2
<1> QED
  BY <1>1, BillingInvariant, PTL DEF ReminderSpec, GeneratedInTerm

=============================================================================
