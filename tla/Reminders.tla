----------------------------- MODULE Reminders -----------------------------
(***************************************************************************)
(* Reminders about bills (src/reminders/reminders.service.ts), beside the  *)
(* billing that inserts the bills (Billing.tla).                           *)
(*                                                                         *)
(* A reminder is about a bill or about a tenant alone, has a type and a    *)
(* time, and a status that the owner may set by hand.  create refuses a    *)
(* second PENDING reminder of a bill, type and time; it looks and inserts  *)
(* in two queries, and nothing in the schema stands behind it.             *)
(*                                                                         *)
(* `beside' and `excused' are history: no guard reads them.                *)
(***************************************************************************)
EXTENDS Billing

CONSTANTS
    Types,         \* ReminderType
    Times,         \* values of scheduledAt
    MaxReminders   \* bounds the reminders ever inserted

ASSUME MaxRemindersAssumption == MaxReminders \in Nat

Slots == 1..MaxReminders

VARIABLES
    reminder,  \* reminder[k]: the reminders row
    adding,    \* adding[r]: the reminder that request r is about to insert
    excused    \* reminders inserted beside one like it, or changed by hand

vars == <<billVars, reminder, adding, excused>>

Statuses == {"PENDING", "SENT", "FAILED", "CANCELLED"}

(* What a reminder is about: a bill of an agreement and month, or no bill. *)
Key == [bill : (Agreements \X Period) \cup {None},
        type : Types, time : Times]

Reminder == [status : Statuses \cup {"absent"}, key : Key \cup {None}]

Addition == [key : Key \cup {None}, beside : BOOLEAN]

NoAddition == [key |-> None, beside |-> FALSE]

TypeOK ==
    /\ BillTypeOK
    /\ reminder \in [Slots -> Reminder]
    /\ \A k \in Slots : reminder[k].status # "absent" => reminder[k].key \in Key
    /\ adding \in [Requests -> Addition]
    /\ excused \subseteq Slots

ReminderInit ==
    /\ Init
    /\ reminder = [k \in Slots |-> [status |-> "absent", key |-> None]]
    /\ adding = [r \in Requests |-> NoAddition]
    /\ excused = {}

Counted == calls < MaxCalls /\ calls' = calls + 1

Present(k) == reminder[k].status # "absent"

-----------------------------------------------------------------------------
(* RemindersService.create: the tenant, the bill, a PENDING reminder of    *)
(* this bill, type and time; then the insert.                              *)
Pending(key) == {k \in Slots : reminder[k].status = "PENDING" /\ reminder[k].key = key}

ClearOfTenant(key) == key.bill # None \/ Pending(key) = {}

Clear(key) == key.bill = None \/ Pending(key) = {}

Like(key) == {r \in Requests : adding[r].key = key}

Abouts == {<<b.agreement, b.period>> : b \in bills} \cup {None}

AddRead(r, about, type, time) ==
    LET key == [bill |-> about, type |-> type, time |-> time] IN
    /\ req[r].at = "idle" /\ adding[r].key = None
    /\ about \in Abouts
    /\ Clear(key)
    /\ Counted
    /\ adding' = [g \in Requests |->
         IF g = r THEN [key |-> key, beside |-> Like(key) # {}]
         ELSE [adding[g] EXCEPT !.beside = @ \/ g \in Like(key)]]
    /\ UNCHANGED <<agreement, bills, req, promised, reported, reminder, excused>>

(* The next row; with MaxReminders there, no more are inserted.            *)
AddInsert(r) ==
    /\ adding[r].key # None
    /\ \E k \in Slots :
         /\ ~Present(k)
         /\ \A j \in Slots : j < k => Present(j)
         /\ reminder' = [reminder EXCEPT ![k] =
              [status |-> "PENDING", key |-> adding[r].key]]
         /\ excused' = IF adding[r].beside THEN excused \cup {k} ELSE excused
    /\ adding' = [adding EXCEPT ![r] = NoAddition]
    /\ UNCHANGED billVars

AddAbort(r) ==
    /\ adding[r].key # None
    /\ adding' = [adding EXCEPT ![r] = NoAddition]
    /\ UNCHANGED <<billVars, reminder, excused>>

(* update: the status, the time, or both, whatever they are.               *)
Update(k, status, time) ==
    /\ Present(k)
    /\ Counted
    /\ reminder' = [reminder EXCEPT ![k].status = status, ![k].key.time = time]
    /\ excused' = excused \cup {k}
    /\ UNCHANGED <<agreement, bills, req, promised, reported, adding>>

(* send: any reminder becomes SENT; nothing is delivered.                  *)
Send(k) ==
    /\ Present(k)
    /\ Counted
    /\ reminder' = [reminder EXCEPT ![k].status = "SENT"]
    /\ UNCHANGED <<agreement, bills, req, promised, reported, adding, excused>>

-----------------------------------------------------------------------------
(* A request is one of the two services'.                                  *)
Next ==
    \/ BillNext /\ (\A r \in Requests : adding[r].key # None => req'[r].at = "idle")
         /\ UNCHANGED <<reminder, adding, excused>>
    \/ \E r \in Requests :
         \/ \E about \in Abouts, type \in Types, time \in Times : AddRead(r, about, type, time)
         \/ AddInsert(r) \/ AddAbort(r)
    \/ \E k \in Slots :
         Send(k) \/ \E status \in Statuses, time \in Times : Update(k, status, time)

ReminderSpec == ReminderInit /\ [][Next]_vars

-----------------------------------------------------------------------------
(* Of one bill, type and time no two reminders are PENDING, unless they    *)
(* were created beside each other or one was changed by hand.              *)
RemindersDistinct ==
    \A j, k \in Slots \ excused :
      /\ j # k
      /\ reminder[j].status = "PENDING" /\ reminder[k].status = "PENDING"
      /\ reminder[j].key = reminder[k].key
      => reminder[j].key.bill = None

=============================================================================
