-------------------------- MODULE JournalRegister --------------------------
(***************************************************************************)
(* What the posting engine promises of journal numbers: per book, an       *)
(* append-only register in which the next number is given to one entry,    *)
(* without a hole and never twice.                                         *)
(***************************************************************************)
EXTENDS Naturals

CONSTANTS Books, Rows

VARIABLES
    issued,   \* the last number of a book
    register  \* [book, number, entry] of every number given out

regVars == <<issued, register>>

Init == issued = [b \in Books |-> 0] /\ register = {}

Issue(b, e) ==
    /\ issued' = [issued EXCEPT ![b] = @ + 1]
    /\ register' = register \cup {[book |-> b, number |-> issued[b] + 1, entry |-> e]}

Next == \E b \in Books, e \in Rows : Issue(b, e)

Spec == Init /\ [][Next]_regVars
=============================================================================
