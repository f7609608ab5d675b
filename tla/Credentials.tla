---------------------------- MODULE Credentials ----------------------------
(***************************************************************************)
(* What the accounts promise, with no query, mail or lock in it: a session *)
(* is of the password in force, every way to change a password ends the    *)
(* sessions there are, and a forgotten password is reset by a claim on a   *)
(* code, made while the code stood open and had been verified; each claim  *)
(* resets once, and closes its code.                                       *)
(***************************************************************************)
EXTENDS Naturals

CONSTANTS
    Users,
    Contact,      \* Contact[u]: what identifies u
    Codes,
    Claimants,
    None          \* no user

VARIABLES
    registered,   \* users with an account
    password,     \* password[u]: the number of times u has changed it
    sessions,     \* sessions that are accepted, each with its password
    code,         \* code[c]: what stage code c is at, and whose it is
    claims        \* claims[c]: who is about to reset a password by c

accountVars == <<registered, password, sessions, code, claims>>

Issued == {c \in Codes : code[c].stage # "unused"}

SessionsOfOthers(u) == {s \in sessions : s.user # u}

(* Codes C are closed for good.                                            *)
Closing(C) ==
    code' = [c \in Codes |->
               IF c \in C THEN [stage |-> "closed", owner |-> code[c].owner] ELSE code[c]]

NewPassword(u) ==
    /\ password' = [password EXCEPT ![u] = @ + 1]
    /\ sessions' = SessionsOfOthers(u)
    /\ UNCHANGED registered

Register(u) ==
    /\ \A v \in registered : Contact[u] \cap Contact[v] = {}
    /\ registered' = registered \cup {u}
    /\ UNCHANGED <<password, sessions, code, claims>>

SignIn(u) ==
    /\ u \in registered
    /\ sessions' = sessions \cup {[user |-> u, password |-> password[u]]}
    /\ UNCHANGED <<registered, password, code, claims>>

SignOut(u) ==
    /\ sessions' = SessionsOfOthers(u)
    /\ UNCHANGED <<registered, password, code, claims>>

Change(u) ==
    /\ u \in registered
    /\ NewPassword(u)
    /\ UNCHANGED <<code, claims>>

Issue(c, u) ==
    /\ c \notin Issued /\ u \in registered
    /\ code' = [code EXCEPT ![c] = [stage |-> "open", owner |-> u]]
    /\ UNCHANGED <<registered, password, sessions, claims>>

Verify(c) ==
    /\ code[c].stage = "open"
    /\ code' = [code EXCEPT ![c].stage = "verified"]
    /\ UNCHANGED <<registered, password, sessions, claims>>

Close(C) ==
    /\ C \subseteq Issued
    /\ Closing(C)
    /\ UNCHANGED <<registered, password, sessions, claims>>

(* A code that could not be sent is nobody's any more.                     *)
Withdraw(c) ==
    /\ c \in Issued
    /\ code' = [code EXCEPT ![c] = [stage |-> "closed", owner |-> None]]
    /\ UNCHANGED <<registered, password, sessions, claims>>

Claim(c, r) ==
    /\ code[c].stage = "verified"
    /\ claims' = [claims EXCEPT ![c] = @ \cup {r}]
    /\ UNCHANGED <<registered, password, sessions, code>>

Release(c, r) ==
    /\ claims' = [claims EXCEPT ![c] = @ \ {r}]
    /\ UNCHANGED <<registered, password, sessions, code>>

(* The code and others of its owner are closed with it.                    *)
Reset(c, r, others) ==
    LET u == code[c].owner IN
    /\ r \in claims[c]
    /\ u \in registered
    /\ \A d \in others : code[d].owner = u
    /\ NewPassword(u)
    /\ Closing(others \cup {c})
    /\ claims' = [claims EXCEPT ![c] = @ \ {r}]

Open ==
    /\ registered = {} /\ sessions = {}
    /\ password = [u \in Users |-> 0]
    /\ code = [c \in Codes |-> [stage |-> "unused", owner |-> None]]
    /\ claims = [c \in Codes |-> {}]

Operate ==
    \/ \E u \in Users : Register(u) \/ SignIn(u) \/ SignOut(u) \/ Change(u)
    \/ \E c \in Codes, u \in Users : Issue(c, u)
    \/ \E c \in Codes : Verify(c) \/ Withdraw(c)
    \/ \E C \in SUBSET Codes : Close(C)
    \/ \E c \in Codes, r \in Claimants : Claim(c, r) \/ Release(c, r)
    \/ \E c \in Codes, r \in Claimants, others \in SUBSET Codes : Reset(c, r, others)

AccountSpec == Open /\ [][Operate]_accountVars
=============================================================================
