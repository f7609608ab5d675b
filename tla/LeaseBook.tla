----------------------------- MODULE LeaseBook ------------------------------
(***************************************************************************)
(* What the agreements promise, with no request in it: every unit is let   *)
(* to one tenant or to none, a tenant rents one unit at most, and nothing  *)
(* is newly let to, or by way of, what has been removed.                   *)
(***************************************************************************)
CONSTANTS Units, Tenants, None

VARIABLES
    holder,   \* holder[u]: the tenant unit u is let to
    gone      \* removed units and tenants

bookVars == <<holder, gone>>

Homeless(t) == \A u \in Units : holder[u] # t

Sign(u, t) ==
    /\ {u, t} \cap gone = {}
    /\ holder[u] = None
    /\ Homeless(t)
    /\ holder' = [holder EXCEPT ![u] = t]
    /\ UNCHANGED gone

Leave(u) ==
    /\ holder' = [holder EXCEPT ![u] = None]
    /\ UNCHANGED gone

(* The lease of u goes on in unit v, for tenant t.                         *)
Change(u, v, t) ==
    /\ holder[u] # None
    /\ v # u => holder[v] = None /\ v \notin gone
    /\ t # holder[u] => Homeless(t) /\ t \notin gone
    /\ holder' = [holder EXCEPT ![u] = None, ![v] = t]
    /\ UNCHANGED gone

Remove(x) ==
    /\ gone' = gone \cup {x}
    /\ UNCHANGED holder

Open ==
    /\ holder = [u \in Units |-> None]
    /\ gone = {}

Operate ==
    \/ \E u \in Units, t \in Tenants : Sign(u, t)
    \/ \E u \in Units : Leave(u)
    \/ \E u, v \in Units, t \in Tenants : Change(u, v, t)
    \/ \E x \in Units \cup Tenants : Remove(x)

BookSpec == Open /\ [][Operate]_bookVars
=============================================================================
