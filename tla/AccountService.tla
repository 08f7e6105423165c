---------------------------- MODULE AccountService ----------------------------
(***************************************************************************)
(* What the server layer promises to its clients, with no servers, tables  *)
(* or statements: a username has one owner for ever, at most one session   *)
(* is current under a username, and a client is let in only with the       *)
(* session that is current under the username it gave.  The promise holds  *)
(* until a statement of the database fails.                                *)
(***************************************************************************)
EXTENDS Naturals

CONSTANTS Requests, Names, None

VARIABLES
    asks,     \* the username of each request that was made
    owner,    \* the request that claimed each username
    current,  \* the session that is current under each username, 0 for none
    last,     \* the last session ID handed out
    reply,    \* the session ID each request was let in with, 0 for a refusal
    failed    \* a statement has failed

vars == <<asks, owner, current, last, reply, failed>>

Init ==
    /\ asks = [r \in Requests |-> None]
    /\ owner = [n \in Names |-> None]
    /\ current = [n \in Names |-> 0]
    /\ last = 0
    /\ reply = [r \in Requests |-> None]
    /\ failed = FALSE

Pending(r) == asks[r] # None /\ reply[r] = None

Ask(r, n) ==
    /\ asks[r] = None
    /\ asks' = [asks EXCEPT ![r] = n]
    /\ UNCHANGED <<owner, current, last, reply>>

Claim(r) ==
    /\ Pending(r) /\ owner[asks[r]] = None
    /\ owner' = [owner EXCEPT ![asks[r]] = r]
    /\ UNCHANGED <<asks, current, last, reply>>

\* The session under a username ends only for a request to replace it.
Leave(r) ==
    /\ Pending(r) /\ current[asks[r]] # 0
    /\ current' = [current EXCEPT ![asks[r]] = 0]
    /\ UNCHANGED <<asks, owner, last, reply>>

Enter(r) ==
    /\ Pending(r) /\ owner[asks[r]] # None /\ current[asks[r]] = 0
    /\ last' = last + 1
    /\ current' = [current EXCEPT ![asks[r]] = last + 1]
    /\ UNCHANGED <<asks, owner, reply>>

Grant(r) ==
    /\ Pending(r) /\ current[asks[r]] # 0
    /\ reply' = [reply EXCEPT ![r] = current[asks[r]]]
    /\ UNCHANGED <<asks, owner, current, last>>

Refuse(r) ==
    /\ Pending(r)
    /\ reply' = [reply EXCEPT ![r] = 0]
    /\ UNCHANGED <<asks, owner, current, last>>

Act(r) ==
    \/ \E n \in Names : Ask(r, n)
    \/ Claim(r) \/ Leave(r) \/ Enter(r) \/ Grant(r) \/ Refuse(r)

Next == failed' \/ \E r \in Requests : Act(r) /\ UNCHANGED failed

Spec == Init /\ [][Next]_vars
=============================================================================
