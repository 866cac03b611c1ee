------------------------------ MODULE FixedAssets ------------------------------
(***************************************************************************)
(* Fixed assets: monthly straight-line depreciation and disposal.  The run *)
(* of a month posts the entry of each asset and only then inserts the row  *)
(* that says the month is done, which a unique key keeps single.           *)
(***************************************************************************)
EXTENDS Documents, Functions, FiniteSetsExt

CONSTANTS
    Assets,
    Months,        \* a set of consecutive numbers
    Residuals,     \* what assets may be worth in the end
    Depreciable,   \* the cost of an asset less its residual value
    Monthly,       \* what one month takes of it
    MostPosted     \* bound: what is posted for an asset, a disposal counting one

ASSUME AssetAssumption ==
    /\ Depreciable \in Nat \ {0} /\ Monthly \in 1..Depreciable /\ Residuals \subseteq Nat
    /\ Months \subseteq Int /\ IsFiniteSet(Months)

\* accumulated: the rows of the months, 0 where there is none; posted: what the
\* journal took for each month; cleared: what the disposal took back.
NoAsset == [status |-> "ABSENT", residual |-> 0, accumulated |-> [m \in Months |-> 0],
            posted |-> [m \in Months |-> 0], disposal |-> FALSE, entries |-> 0, cleared |-> 0]

AssetsTypeOK ==
    \A x \in Assets :
        /\ db[x].status \in {"ABSENT", "ACTIVE", "FULLY_DEPRECIATED", "DISPOSED"}
        /\ db[x].accumulated \in [Months -> 0..Depreciable]
        /\ db[x].posted \in [Months -> Nat] /\ db[x].cleared \in 0..Depreciable

CreateAsset(x, residual) ==
    Statement(In(x, {"ABSENT"}),
              db' = [db EXCEPT ![x].status = "ACTIVE", ![x].residual = residual])

\* getAccumulatedDepreciation: of the latest month that has a row.
Accumulated(x) ==
    LET done == {m \in Months : db[x].accumulated[m] > 0}
    IN IF done = {} THEN 0 ELSE db[x].accumulated[Max(done)]

Posted(x) == db[x].entries + SumFunction(db[x].posted)
Take(prior) == Min({Monthly, Depreciable - prior})
NetBookValue(x, accumulated) == db[x].residual + Depreciable - accumulated

MayDepreciate(x, m) == db[x].accumulated[m] = 0 /\ Accumulated(x) < Depreciable

\* runDepreciation selects the ACTIVE assets first and turns to each in its turn.
\* One that keeps a residual value is marked by the next run, not by the last month.
RunDepreciation(c, x, m) ==
    LET here(at) == At(c, "depreciate", at, x, m)
        prior == call[c].seen
    IN  \/ In(x, {"ACTIVE"}) /\ Enter(c, "depreciate", "month", x, m, 0)
        \/ /\ here("month") /\ UNCHANGED db
           /\ IF MayDepreciate(x, m) THEN Keep(c, "post", Accumulated(x))
              ELSE IF db[x].accumulated[m] = 0 THEN Goto(c, "full")
              ELSE Leave(c)
        \/ here("full") /\ Becomes(x, "FULLY_DEPRECIATED") /\ Leave(c)
        \/ /\ here("post") /\ Posted(x) < MostPosted
           /\ db' = [db EXCEPT ![x].posted[m] = @ + Take(prior)]
           /\ Goto(c, "insert")
        \/ /\ here("insert")
           /\ IF db[x].accumulated[m] = 0
              THEN /\ db' = [db EXCEPT ![x].accumulated[m] = prior + Take(prior)]
                   /\ Goto(c, "write")
              ELSE UNCHANGED db /\ Leave(c)
        \/ /\ here("write")
           /\ Becomes(x, IF NetBookValue(x, prior + Take(prior)) = 0
                         THEN "FULLY_DEPRECIATED" ELSE "ACTIVE")
           /\ Leave(c)

\* Mutated form of MayDispose: an asset is disposed of as often as asked.
MayDisposeAgain(x) == ~In(x, {"ABSENT"})

MayDispose(x) == ~In(x, {"ABSENT", "DISPOSED"}) /\ ~db[x].disposal

PostDisposal(x) == PostEntry(x)

\* disposeAsset: the entry takes back the accumulated depreciation as read.
DisposeAsset(c, x) ==
    LET here(at) == At(c, "dispose", at, x, None)
    IN  \/ MayDispose(x) /\ Enter(c, "dispose", "post", x, None, Accumulated(x))
        \/ here("post") /\ Posted(x) < MostPosted /\ PostDisposal(x) /\ Goto(c, "insert")
        \/ /\ here("insert")
           /\ IF db[x].disposal THEN UNCHANGED db /\ Leave(c)
              ELSE /\ db' = [db EXCEPT ![x].disposal = TRUE, ![x].cleared = call[c].seen]
                   /\ Goto(c, "write")
        \/ here("write") /\ Becomes(x, "DISPOSED") /\ Leave(c)

AssetsNext ==
    \E x \in Assets :
        \/ \E residual \in Residuals : CreateAsset(x, residual)
        \/ \E c \in Calls : DisposeAsset(c, x) \/ \E m \in Months : RunDepreciation(c, x, m)

-----------------------------------------------------------------------------
\* No asset is marked as depreciated or disposed of ahead of the journal:
\* every month that is done was posted, and so was every disposal.
AssetsBacked ==
    \A x \in Assets :
        /\ \A m \in Months : db[x].accumulated[m] > 0 => db[x].posted[m] > 0
        /\ db[x].disposal => db[x].entries > 0
        /\ In(x, {"DISPOSED"}) => db[x].disposal

\* While requests take turns and months are run in their order, the journal
\* has taken from an asset what its latest month says, each month and the
\* disposal once, and a disposal takes all of it back.
InOrder(x) ==
    \A m, n \in {k \in Months : db[x].accumulated[k] > 0} :
        m < n => db[x].accumulated[m] < db[x].accumulated[n]
AssetsAgree ==
    tidy /\ Alone => \A x \in Assets : InOrder(x) =>
        /\ db[x].entries = IF In(x, {"DISPOSED"}) THEN 1 ELSE 0
        /\ Posted(x) = Accumulated(x) + db[x].entries
        /\ In(x, {"DISPOSED"}) => db[x].cleared = Accumulated(x)

\* The comment on runDepreciation: safe to run again for the same month without
\* posting twice.
MonthPostedOnce ==
    \A x \in Assets : \A m \in Months : db[x].posted[m] <= Monthly

\* Assets and the journal agree: AssetsBacked always, AssetsAgree while requests
\* take turns.
AssetsSound == AssetsTypeOK /\ AssetsBacked /\ AssetsAgree
=============================================================================
