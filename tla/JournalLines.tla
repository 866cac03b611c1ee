---------------------------- MODULE JournalLines ----------------------------
(***************************************************************************)
(* The arithmetic of journal lines in the posting engine.  Amounts are in  *)
(* mills, tenths of a cent: a request may carry more decimals than the     *)
(* Decimal(18,2) columns of journal_lines keep, and the difference matters *)
(* to the balance checks.                                                  *)
(***************************************************************************)
EXTENDS Integers, Sequences, Functions

MillsPerCent == 10
CentsTolerance == 5

Line(account, debit, credit) ==
    [account |-> account, debit |-> debit, credit |-> credit]

TotalDebit(lines) == SumFunction([i \in DOMAIN lines |-> lines[i].debit])
TotalCredit(lines) == SumFunction([i \in DOMAIN lines |-> lines[i].credit])

Within(x, y, tolerance) == x - y <= tolerance /\ y - x <= tolerance

\* The two totals agree up to the tolerance.
Balanced(lines) == Within(TotalDebit(lines), TotalCredit(lines), CentsTolerance)

\* assertBalanced: balanced, and not all of it zero.
AssertBalanced(lines) ==
    /\ Balanced(lines)
    /\ TotalDebit(lines) # 0 \/ TotalCredit(lines) # 0

\* assertNoZeroLines: every line has exactly one side.
AssertNoZeroLines(lines) ==
    \A i \in DOMAIN lines : (lines[i].debit > 0) # (lines[i].credit > 0)

\* What is left of an amount in a Decimal(18,2) column.
RoundToCent(x) == MillsPerCent * ((x + 5) \div MillsPerCent)

\* The lines as the database keeps them.
Stored(lines) ==
    [i \in DOMAIN lines |->
        Line(lines[i].account, RoundToCent(lines[i].debit), RoundToCent(lines[i].credit))]

\* The lines of a reversal: the two sides exchanged.
Swapped(lines) ==
    [i \in DOMAIN lines |->
        Line(lines[i].account, lines[i].credit, lines[i].debit)]

AccountsOf(lines) == {lines[i].account : i \in DOMAIN lines}

\* What the lines add to the balance of an account, debit positive.
NetOn(lines, account) ==
    SumFunction([i \in DOMAIN lines |->
        IF lines[i].account = account THEN lines[i].debit - lines[i].credit ELSE 0])
=============================================================================
