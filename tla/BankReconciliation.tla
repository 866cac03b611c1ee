-------------------------- MODULE BankReconciliation --------------------------
(***************************************************************************)
(* The reconciliation of a bank statement: its lines are matched with the  *)
(* lines of the journal, by rule, by hand or by an adjustment that posts   *)
(* an entry, and the session is approved when no line is left.             *)
(*                                                                         *)
(* Then where statements come from: the bank accounts that are linked at   *)
(* the data provider and the job of the worker that imports from them.  It *)
(* asks the API for the time since the last import and then moves the      *)
(* watermark.  Time goes by in slots, the transactions of a slot are       *)
(* imported together.  Imports by hand, which leave the watermark alone,   *)
(* are left out.                                                           *)
(***************************************************************************)
EXTENDS Treasury

CONSTANTS
    Sessions, Items,   \* sessions, and the lines of the statement they share
    Booked,            \* lines of the journal on the bank's account
    Fits,              \* which of them fit which item: amount and date
    MostMatches        \* bound: matches of one item

NoSession == [status |-> "ABSENT", maker |-> None, checker |-> None]

\* flagged is isMatched; matches has a row <<session, journal line>> each.
NewItem == [flagged |-> FALSE, matches |-> <<>>, entries |-> 0]

ReconciliationTypeOK ==
    /\ \A s \in Sessions : db[s].status \in {"ABSENT", "DRAFT", "APPROVED"}
    /\ \A i \in Items :
          /\ db[i].flagged \in BOOLEAN
          /\ \A n \in DOMAIN db[i].matches :
                db[i].matches[n] \in Sessions \X (Booked \cup {None})

Rowcount(i) == Len(db[i].matches)
MatchedIn(s) ==
    {b \in Booked : \E i \in Items : \E n \in DOMAIN db[i].matches : db[i].matches[n] = <<s, b>>}

CreateSession(s, u) ==
    Statement(In(s, {"ABSENT"}), db' = [db EXCEPT ![s].status = "DRAFT", ![s].maker = u])

\* Insert the match, then flag the item: two statements.
InsertMatch(i, s, b) ==
    /\ Rowcount(i) < MostMatches
    /\ db' = [db EXCEPT ![i].matches = Append(@, <<s, b>>)]
Flag(i) == db' = [db EXCEPT ![i].flagged = TRUE]

\* autoMatch reads once what is unmatched; only the matches of its own session
\* make a journal line unavailable.  It then takes the items one at a time.
AutoMatch(c, s) ==
    LET left == call[c].seen
    IN  \/ /\ In(s, {"DRAFT"})
           /\ Enter(c, "autoMatch", "next", s, None,
                    [items |-> {i \in Items : ~db[i].flagged}, free |-> Booked \ MatchedIn(s),
                     item |-> None])
        \/ /\ At(c, "autoMatch", "next", s, None)
           /\ \E i \in left.items :
                 IF \E b \in left.free : <<i, b>> \in Fits
                 THEN \E b \in left.free :
                         /\ <<i, b>> \in Fits /\ InsertMatch(i, s, b)
                         /\ Keep(c, "flag", [items |-> left.items \ {i},
                                             free |-> left.free \ {b}, item |-> i])
                 ELSE UNCHANGED db /\ Keep(c, "next", [left EXCEPT !.items = @ \ {i}])
        \/ At(c, "autoMatch", "flag", s, None) /\ Flag(left.item) /\ Goto(c, "next")
        \/ At(c, "autoMatch", "next", s, None) /\ left.items = {} /\ UNCHANGED db /\ Leave(c)

MayMatch(s, i) == In(s, {"DRAFT"}) /\ ~db[i].flagged

\* Any line of the journal is taken, one that is matched already too.
ManualMatch(c, s, i, b) ==
    LET here(at) == At(c, "manualMatch", at, s, <<i, b>>)
    IN  \/ MayMatch(s, i) /\ Enter(c, "manualMatch", "insert", s, <<i, b>>, None)
        \/ here("insert") /\ InsertMatch(i, s, b) /\ Goto(c, "flag")
        \/ here("flag") /\ Flag(i) /\ Leave(c)

PostAdjustment(i) == PostEntry(i)

\* A charge or interest that the books lack is posted and then matched.
RecordAdjustment(c, s, i) ==
    LET here(at) == At(c, "adjust", at, s, <<i, None>>)
    IN  \/ MayMatch(s, i) /\ Enter(c, "adjust", "post", s, <<i, None>>, None)
        \/ here("post") /\ db[i].entries < MostMatches /\ PostAdjustment(i) /\ Goto(c, "insert")
        \/ here("insert") /\ InsertMatch(i, s, None) /\ Goto(c, "flag")
        \/ here("flag") /\ Flag(i) /\ Leave(c)

MayApproveSession(s, u) ==
    In(s, {"DRAFT"}) /\ db[s].maker # u /\ \A i \in Items : db[i].flagged

ApproveSession(c, s, u) ==
    Handler(c, "approveSession", s, u, MayApproveSession(s, u), ApprovedBy(u, s, "APPROVED"))

ReconciliationNext ==
    \E s \in Sessions :
        \/ \E u \in Users : CreateSession(s, u)
        \/ \E c \in Calls :
              \/ AutoMatch(c, s)
              \/ \E u \in Users : ApproveSession(c, s, u)
              \/ \E i \in Items : RecordAdjustment(c, s, i) \/ \E b \in Booked : ManualMatch(c, s, i, b)

-----------------------------------------------------------------------------
\* An approved session leaves no item of the statement open, each is backed by
\* a match, each match by an adjustment by a posted entry, and a second person
\* approved; whatever else ran.
ApprovedIsMatched ==
    \A s \in Sessions : In(s, {"APPROVED"}) =>
        /\ FourEyes(s)
        /\ \A i \in Items : db[i].flagged /\ Rowcount(i) > 0
AdjustmentsPosted ==
    \A i \in Items :
        Cardinality({n \in DOMAIN db[i].matches : db[i].matches[n][2] = None}) <= db[i].entries

\* While requests take turns, an item is matched once, and it is flagged
\* exactly when it is.
MatchedOnce ==
    tidy /\ Alone => \A i \in Items :
        Rowcount(i) = (IF db[i].flagged THEN 1 ELSE 0) /\ db[i].entries <= 1

\* An approved reconciliation is complete and counts nothing twice:
\* ApprovedIsMatched and AdjustmentsPosted always, MatchedOnce while requests
\* take turns.
ReconciliationSound == ReconciliationTypeOK /\ ApprovedIsMatched /\ AdjustmentsPosted /\ MatchedOnce

-----------------------------------------------------------------------------
(* Feeds *)

CONSTANTS
    Feeds,       \* linked accounts
    Busy,        \* the slots that have transactions
    Lookback,    \* how far back an import goes
    Horizon,     \* bound: slots that go by
    MostImported \* bound: imports of a slot

ASSUME SyncAssumption ==
    Lookback \in Nat \ {0} /\ Horizon \in Nat /\ Busy \in SUBSET (0..Horizon)

\* now: the time; synced: the watermark, 0 when there was no import; imported
\* counts the statements that hold a slot; skipped: slots left behind by the
\* lookback; revoked: it was REVOKED once.
NoFeed ==
    [status |-> "ABSENT", now |-> 0, synced |-> 0, imported |-> [n \in Busy |-> 0],
     skipped |-> {}, revoked |-> FALSE]

FeedTypeOK ==
    \A f \in Feeds :
        /\ db[f].status \in {"ABSENT", "ACTIVE", "REQUIRES_REAUTH", "REVOKED"}
        /\ db[f].now \in 0..Horizon /\ db[f].synced \in 0..Horizon

Later(f) ==
    /\ db[f].now < Horizon
    /\ db' = [db EXCEPT ![f].now = @ + 1]
    /\ UNCHANGED <<call, tidy>>

LinkAccount(f) == Statement(In(f, {"ABSENT"}), Becomes(f, "ACTIVE"))

Revoke(c, f) ==
    Handler(c, "revokeFeed", f, None, ~In(f, {"ABSENT", "REVOKED"}),
            db' = [db EXCEPT ![f].status = "REVOKED", ![f].revoked = TRUE])

\* A webhook of the provider; a link that was revoked stays so.
ApplyLinkStatus(c, f, status) ==
    Handler(c, "linkStatus", f, status, ~In(f, {"ABSENT", "REVOKED"}), Becomes(f, status))

\* Mutated form of WindowStart: every import goes as far back as it may.
WindowStartTrailing(f) == IF db[f].now > Lookback THEN db[f].now - Lookback ELSE 0

WindowStart(f) ==
    IF db[f].synced + Lookback > db[f].now THEN db[f].synced ELSE db[f].now - Lookback

Imported(f, window) ==
    [db EXCEPT
        ![f].imported = [n \in Busy |-> IF n \in window.slots THEN @[n] + 1 ELSE @[n]],
        ![f].skipped = @ \cup window.before]

\* The API refuses a link that is not active by then, and a window without
\* transactions; the provider, too, may fail.  Where the answer is lost the
\* statement is there and the watermark is not moved.
Sync(c, f) ==
    LET window == call[c].seen
    IN  \/ /\ In(f, {"ACTIVE"}) /\ WindowStart(f) < db[f].now
           /\ Enter(c, "sync", "import", f, None,
                    [slots |-> {n \in Busy : WindowStart(f) <= n /\ n < db[f].now},
                     before |-> {n \in Busy : db[f].synced <= n /\ n < WindowStart(f)},
                     end |-> db[f].now])
        \/ /\ At(c, "sync", "import", f, None)
           /\ \/ UNCHANGED db /\ Leave(c)
              \/ /\ In(f, {"ACTIVE"}) /\ window.slots # {}
                 /\ \A n \in window.slots : db[f].imported[n] < MostImported
                 /\ db' = Imported(f, window)
                 /\ \/ Goto(c, "mark")
                    \/ call' = [call EXCEPT ![c] = Idle] /\ tidy' = FALSE
        \/ /\ At(c, "sync", "mark", f, None)
           /\ db' = [db EXCEPT ![f].synced = window.end]
           /\ Leave(c)

FeedsNext ==
    \E f \in Feeds :
        \/ Later(f) \/ LinkAccount(f)
        \/ \E c \in Calls :
              \/ Revoke(c, f) \/ Sync(c, f)
              \/ \E status \in {"ACTIVE", "REQUIRES_REAUTH"} : ApplyLinkStatus(c, f, status)

-----------------------------------------------------------------------------
\* What lies before the watermark was imported or is beyond the lookback, even
\* when imports overlap, fail or lose their answer.
NothingMissed ==
    \A f \in Feeds : \A n \in Busy :
        n < db[f].synced => db[f].imported[n] > 0 \/ n \in db[f].skipped

\* No transaction is imported twice as long as jobs take turns and no answer is
\* lost, and a link that was revoked is not revived.
NothingTwice ==
    tidy => \A f \in Feeds :
        /\ \A n \in Busy : db[f].imported[n] <= 1
        /\ db[f].revoked => In(f, {"REVOKED"})

\* Statements come in once and in full: NothingMissed, NothingTwice.
FeedsSound == FeedTypeOK /\ NothingMissed /\ NothingTwice

-----------------------------------------------------------------------------
(* Money at the bank: the requests on loans and placements, on statements  *)
(* and on feeds, interleaved in any way.  They share no rows.              *)

ASSUME BankingAssumption ==
    /\ IsFiniteSet(Calls) /\ None \notin Users \cup Placements \cup Booked
    /\ Loans \cap (Placements \cup Sessions \cup Items \cup Feeds) = {}
    /\ Placements \cap (Sessions \cup Items \cup Feeds) = {}
    /\ Sessions \cap (Items \cup Feeds) = {} /\ Items \cap Feeds = {}

BankingRows == Loans \cup Placements \cup Sessions \cup Items \cup Feeds

BankingInit ==
    /\ db = [x \in BankingRows |->
                IF x \in Loans THEN NoLoan ELSE IF x \in Placements THEN NoPlacement
                ELSE IF x \in Sessions THEN NoSession ELSE IF x \in Items THEN NewItem ELSE NoFeed]
    /\ CallsStart
BankingNext ==
    LoansNext \/ PlacementsNext \/ ReconciliationNext \/ FeedsNext \/ \E c \in Calls : CutOff(c)
BankingSpec == BankingInit /\ [][BankingNext]_docVars

\* Debts, placements and statements at the bank stay in order.
BankingSound == TreasurySound /\ ReconciliationSound /\ FeedsSound
=============================================================================
