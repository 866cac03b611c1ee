---------------------------- MODULE ExternalCopies ----------------------------
(***************************************************************************)
(* Objects at outside services that stand for a row of the database: the   *)
(* calendar event or Teams meeting of an interview, the contact of a       *)
(* candidate, the account of an employee, the envelope of an offer, the    *)
(* task of a corrective action.  They are made, changed and removed after  *)
(* the row was written, as well as can be done: a call that fails sets a   *)
(* flag on the row, and a person may ask for it again.                     *)
(***************************************************************************)
EXTENDS Documents, TLC

CONSTANTS
    Candidates,
    Versions,    \* what there is to show of a row: names, times
    MostCopies   \* bound: objects made for one row

ASSUME CopiesAssumption == MostCopies \in Nat

\* known: the row names an object; failed: it is flagged; live: the objects there
\* are at the service; shown: what the one it names shows; late: that one was
\* made when the row was already cancelled.
NoCopy ==
    [status |-> "ABSENT", known |-> FALSE, failed |-> FALSE, live |-> 0, shown |-> None,
     late |-> FALSE, version |-> None]
NoCandidate == NoCopy

CopyTypeOK(x) ==
    /\ db[x].known \in BOOLEAN /\ db[x].failed \in BOOLEAN /\ db[x].late \in BOOLEAN
    /\ db[x].live \in Nat /\ {db[x].shown, db[x].version} \subseteq Versions \cup {None}

\* The service did what was asked, but the answer or the write after it fails.
LoseAnswer(c) == call' = [call EXCEPT ![c] = Idle] /\ tidy' = FALSE

Created(x, version) ==
    [db EXCEPT ![x].known = TRUE, ![x].failed = FALSE, ![x].live = @ + 1,
               ![x].shown = version, ![x].late = In(x, {"CANCELLED"})]
FlagFailed(x) == db' = [db EXCEPT ![x].failed = TRUE]

TryCreate(c, x, version) ==
    \/ db[x].live < MostCopies /\ db' = Created(x, version) /\ Leave(c)
    \/ FlagFailed(x) /\ Leave(c)
    \/ /\ db[x].live < MostCopies
       /\ db' = [db EXCEPT ![x].live = @ + 1, ![x].failed = TRUE]
       /\ LoseAnswer(c)

\* The service knows no object that was removed; clear: whether the flag is taken
\* back on success.
TryUpdate(c, x, version, clear) ==
    \/ /\ db[x].live > 0
       /\ db' = [db EXCEPT ![x].shown = version, ![x].failed = @ /\ ~clear]
       /\ Leave(c)
    \/ FlagFailed(x) /\ Leave(c)

TryRemove(c, x, clear) ==
    \/ /\ db[x].live > 0
       /\ db' = [db EXCEPT ![x].live = @ - 1, ![x].failed = @ /\ ~clear]
       /\ Leave(c)
    \/ FlagFailed(x) /\ Leave(c)

\* What a handler keeps of the copy it read.
Read(x) == [known |-> db[x].known, failed |-> db[x].failed, version |-> db[x].version,
            status |-> db[x].status]

-----------------------------------------------------------------------------
\* The candidate is found or made by its address; only a new one gets a contact.
UpsertCandidate(c, x, version) ==
    LET here(at) == At(c, "upsert", at, x, version)
        read == call[c].seen
    IN  \/ Enter(c, "upsert", "write", x, version, Read(x))
        \/ /\ here("write")
           /\ db' = [db EXCEPT ![x].status = "PRESENT", ![x].version = version]
           /\ IF read.status = "ABSENT" THEN Goto(c, "create")
              ELSE IF read.known THEN Goto(c, "update") ELSE Leave(c)
        \/ here("create") /\ TryCreate(c, x, version)
        \/ here("update") /\ TryUpdate(c, x, version, read.failed)

CreateAgain(read) == ~read.known

RetryContactSync(c, x) ==
    LET read == call[c].seen
    IN  \/ db[x].failed /\ Enter(c, "retryContact", "call", x, None, Read(x))
        \/ /\ At(c, "retryContact", "call", x, None)
           /\ IF CreateAgain(read) THEN TryCreate(c, x, read.version)
              ELSE TryUpdate(c, x, read.version, TRUE)

ContactsNext ==
    \E x \in Candidates, c \in Calls :
        RetryContactSync(c, x) \/ \E version \in Versions : UpsertCandidate(c, x, version)

-----------------------------------------------------------------------------
\* A row that is not flagged and its copy agree: there is one object, the row
\* names it, and it shows what the row says.
CopyAgrees(x) ==
    /\ db[x].live <= 1
    /\ ~db[x].failed => db[x].known /\ db[x].live = 1 /\ db[x].shown = db[x].version

\* While requests take turns and no answer of the service is lost, the contact
\* of a candidate agrees with the candidate unless the candidate is flagged.
ContactsSound ==
    \A x \in Candidates :
        CopyTypeOK(x) /\ (tidy /\ Alone /\ ~In(x, {"ABSENT"}) => CopyAgrees(x))
=============================================================================
