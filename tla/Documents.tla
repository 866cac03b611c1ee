------------------------------ MODULE Documents ------------------------------
(***************************************************************************)
(* How the handlers of the API change the rows of the database.            *)
(*                                                                         *)
(* A handler reads its rows, checks them, and then writes them by id; the  *)
(* statements commit one by one and nothing holds the rows between them.   *)
(* The modules that extend this one say, for each handler, what it checks  *)
(* in the rows it reads and what it writes, whatever has happened to the   *)
(* rows in the meantime.                                                   *)
(***************************************************************************)
EXTENDS Integers, FiniteSets

CONSTANTS
    Users,
    Calls,   \* bound: requests in flight at once
    None

VARIABLES
    db,      \* the rows, a record each; a row that is not there yet is ABSENT
    call,    \* the requests in flight
    tidy     \* whether requests have taken turns so far and none was cut off

docVars == <<db, call, tidy>>

\* arg is what the request carries beside the row, seen what the handler keeps
\* of what it read.
Idle == [op |-> "none", at |-> "idle", row |-> None, arg |-> None, seen |-> None]
Alone == \A c \in Calls : call[c] = Idle

CallsStart == call = [c \in Calls |-> Idle] /\ tidy = TRUE

CallTypeOK ==
    /\ DOMAIN call = Calls
    /\ \A c \in Calls :
          DOMAIN call[c] = DOMAIN Idle /\ (call[c].op = "none" <=> call[c].at = "idle")
    /\ tidy \in BOOLEAN

At(c, op, at, x, arg) ==
    call[c].op = op /\ call[c].at = at /\ call[c].row = x /\ call[c].arg = arg
Goto(c, at) == call' = [call EXCEPT ![c].at = at] /\ UNCHANGED tidy
Keep(c, at, seen) == call' = [call EXCEPT ![c].at = at, ![c].seen = seen] /\ UNCHANGED tidy
Leave(c) == call' = [call EXCEPT ![c] = Idle] /\ UNCHANGED tidy

Enter(c, op, at, x, arg, seen) ==
    /\ call[c] = Idle
    /\ call' = [call EXCEPT ![c] =
                   [op |-> op, at |-> at, row |-> x, arg |-> arg, seen |-> seen]]
    /\ tidy' = (tidy /\ Alone)
    /\ UNCHANGED db

In(x, states) == db[x].status \in states

\* A handler that checks what it reads and then writes.
Handler(c, op, x, arg, check, write) ==
    \/ check /\ Enter(c, op, "write", x, arg, None)
    \/ At(c, op, "write", x, arg) /\ write /\ Leave(c)

\* A handler that inserts a row, which no other request inserts again.
Insertion(c, op, x, arg, check, write) ==
    Handler(c, op, x, arg, In(x, {"ABSENT"}) /\ check, In(x, {"ABSENT"}) /\ write)

\* What a handler does in a single statement.
Statement(check, write) ==
    /\ check
    /\ write
    /\ tidy' = (tidy /\ Alone)
    /\ UNCHANGED call

Becomes(x, status) == db' = [db EXCEPT ![x].status = status]
ApprovedBy(u, x, status) == db' = [db EXCEPT ![x].status = status, ![x].checker = u]

\* postSystemEntry for the row, a transaction of its own.
PostEntry(x) == db' = [db EXCEPT ![x].entries = @ + 1]

\* A request ends between two statements: the process stops, the database
\* fails, or a service that the handler calls refuses.
CutOff(c) ==
    /\ call[c] # Idle
    /\ call' = [call EXCEPT ![c] = Idle]
    /\ tidy' = FALSE
    /\ UNCHANGED db

\* The row was approved, and by somebody other than its maker.
FourEyes(x) == db[x].checker \notin {None, db[x].maker}
=============================================================================
