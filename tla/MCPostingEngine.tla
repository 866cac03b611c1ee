-------------------------- MODULE MCPostingEngine --------------------------
(***************************************************************************)
(* Instances of PostingEngine for TLC.  Amounts are in mills.              *)
(***************************************************************************)
EXTENDS PostingEngine, TLC

CONSTANTS entity1, cash, sales, jan, feb

MCEntities == {entity1}
MCAccounts == {cash, sales}
CashAndEntity == {cash, entity1}

\* Bound: one thing is retired at a time.
OneRetired ==
    Cardinality(Accounts \ activeAccounts) + Cardinality(Entities \ activeEntities)
        + Cardinality((Entities \X Accounts) \ activations) <= 1

OnePeriod == {jan}
TwoPeriods == {jan, feb}
AllOfEntity1 == [p \in Periods |-> entity1]
SameYear == [p \in Periods |-> 2026]
TwoYears == (jan :> 2026 @@ feb :> 2027)

Pair(amount) == <<Line(cash, amount, 0), Line(sales, 0, amount)>>

\* One cent.
CentDto == {Pair(10)}

\* 0.004 + 0.004 against 0.008: it balances as sent, and as stored it is 0
\* against 0.01.
MillDto == {<<Line(cash, 14, 0), Line(cash, 14, 0), Line(sales, 0, 28)>>}

\* A balanced request, one off by a cent, one with an empty line, one that
\* balances only before rounding.
MixedDtos ==
    CentDto \cup MillDto
        \cup {<<Line(cash, 20, 0), Line(sales, 0, 10)>>,
              <<Line(cash, 10, 0), Line(sales, 0, 10), Line(cash, 0, 0)>>}

Symmetry == Permutations(Entries) \cup Permutations(Users) \cup Permutations(Requests)
=============================================================================
