----------------------------- MODULE MCOperations -----------------------------
(***************************************************************************)
(* Instances for TLC of the modules on budgets, orders, stock and the back *)
(* office.  A behaviour is one of the scenes below, so that requests which *)
(* share no row do not multiply.                                           *)
(***************************************************************************)
EXTENDS Procurement, FixedAssets, BankReconciliation, Intercompany, ProjectControls, TLC

CONSTANTS ann, ben, b1, l1, l2, k1, k2, w1, w2, d1, d2, d3, d4, r1, o1, o2, g1, g2, i1, i2,
    f1, n1, p1, p2, p3, s1, e1, e2, j1, j2, x1, q1, v1, v2, t1, t2, t3, m1,
    b2, b3, b4, q2, v3, v4, a1

VARIABLE scene

allVars == <<docVars, scene>>

Sym == Permutations(Calls)
OneBudget == [l \in Lines |-> b1]
Kinds == d1 :> "receipt" @@ d2 :> "issue" @@ d3 :> "transfer" @@ d4 :> "count"
Quantities == d1 :> 1 @@ d2 :> 1 @@ d3 :> 1 @@ d4 :> 1
Origins == d1 :> w1 @@ d2 :> w1 @@ d3 :> w1 @@ d4 :> w2
Destinations == [d \in StockDocs |-> w2]
RequestOfO1 == o1 :> r1 @@ o2 :> None
OneLine == [o \in Orders |-> l1]
TwoEach == o1 :> 2 @@ o2 :> 1
FirstOrder == [x \in Receipts \cup Invoices |-> o1]
ByOne == [x \in Receipts \cup Invoices |-> 1]

ByHand == {<<e1, j1>>}
InQ1 == [v \in Valuations |-> q1]
OneEach == [v \in Valuations |-> 1]
LagAndLead == {-1, 1}
Durations == t1 :> 1 @@ t2 :> 2 @@ t3 :> 1
CrewOf == b2 :> 1 @@ b3 :> 2 @@ b4 :> 1
SpanOf == b2 :> {1, 2} @@ b3 :> {2, 3} @@ b4 :> {3}
OfQ2 == [i \in Issues |-> q2]

Planned(l) == IF l = l1 THEN 2 ELSE 0

Rows == Budgets \cup Lines \cup Commitments \cup Warehouses \cup StockDocs
        \cup Requisitions \cup Orders \cup Receipts \cup Invoices \cup Assets \cup Loans
        \cup Placements \cup Sessions \cup Items \cup Deals \cup Packages \cup Valuations
        \cup Networks \cup Bookings \cup Risks \cup Issues \cup Feeds

NewRow(x) ==
    CASE x \in Budgets -> NoBudget
      [] x \in Lines -> NewLine(Planned(x))
      [] x \in Commitments -> NoCommitment
      [] x \in Warehouses -> NoStock
      [] x \in StockDocs -> NoStockDoc
      [] x \in Requisitions -> NoRequisition
      [] x \in Orders -> NoOrder
      [] x \in Receipts -> NoReceipt
      [] x \in Invoices -> NoInvoice
      [] x \in Assets -> NoAsset
      [] x \in Loans -> NoLoan
      [] x \in Placements -> NoPlacement
      [] x \in Sessions -> NoSession
      [] x \in Items -> NewItem
      [] x \in Deals -> NoDeal
      [] x \in Packages -> NoPackage
      [] x \in Valuations -> NoValuation
      [] x \in Networks -> NoNetwork
      [] x \in Bookings -> NoBooking
      [] x \in Risks -> NoRisk
      [] x \in Issues -> NoIssue
      [] x \in Feeds -> NoFeed

InitDb == [x \in Rows |-> NewRow(x)]
Funded == [InitDb EXCEPT ![b1] = [status |-> "APPROVED", maker |-> ann, checker |-> ben]]
Placed == [Funded EXCEPT
    ![k1] = [status |-> "OPEN", line |-> l1, amount |-> 2, released |-> 0, source |-> o1],
    ![o1] = [NoOrder EXCEPT !.status = "APPROVED", !.maker = ann, !.checker = ben,
                            !.commitment = k1],
    ![r1] = [status |-> "APPROVED", maker |-> ann, checker |-> ben]]
Valued == [InitDb EXCEPT ![v1] = [status |-> "APPROVED", certificate |-> "APPROVED", rolled |-> 0],
                         ![v2].status = "APPROVED"]

\* What the components on projects promise together.
ProjectsSound == CertificatesSound /\ ScheduleSound /\ ControlsSound

MCInit ==
    /\ CallsStart
    /\ \/ /\ scene \in {"approvals", "stock", "assets", "loans", "placements", "sessions",
                         "deals", "networks", "resources", "risks", "feeds", "valuations"}
          /\ db = InitDb
       \/ scene \in {"lines", "commitments", "orders"} /\ db = Funded
       \/ scene = "deliveries" /\ db = Placed
       \/ scene = "certificates" /\ db = Valued

\* Rows of one kind are alike: the first is used before the second.
UsedBefore(x, y) == db'[y] # NewRow(y) => db'[x] # NewRow(x)

MCNext ==
    /\ scene' = scene
    /\ \/ scene = "approvals" /\ ApprovalsNext
       \/ scene = "lines" /\ LinesNext /\ db'[k2] = NoCommitment
       \/ /\ scene = "commitments" /\ LinesNext
          /\ \A c \in Calls : call'[c].op \notin {"revise", "transfer"}
       \/ scene = "stock" /\ InventoryNext
       \* Of two users who are alike, ann is the first.
       \/ scene = "orders" /\ OrdersNext /\ db'[r1].maker # ben
       \* Each invoice is matched with the receipt of its own delivery.
       \/ /\ scene = "deliveries" /\ DeliveriesNext /\ db'[i1].grn # g2 /\ db'[i2].grn # g1
          /\ UsedBefore(g1, g2) /\ UsedBefore(g1, i1) /\ UsedBefore(i1, i2)
          /\ \A c \in Calls : call'[c].row = g2 => tidy' \/ call'[c].arg = 1
       \/ scene = "assets" /\ AssetsNext
       \/ scene = "loans" /\ LoansNext
       \/ scene = "placements" /\ PlacementsNext
       \/ /\ scene = "sessions" /\ ReconciliationNext /\ db'[s1].maker # ben
          /\ \A c \in Calls : call'[c].op = "adjust" => call'[c].arg[1] = e2
       \/ scene = "deals" /\ IntercompanyNext
       \/ scene = "valuations" /\ CertificatesNext /\ db'[v2] = NoValuation
       \/ /\ scene = "certificates" /\ CertificatesNext
          /\ \A c \in Calls : call'[c].op # "advanceValuation"
       \/ scene = "networks" /\ SchedulingNext
       \/ scene = "resources" /\ ResourcesNext
       \* A second issue is only raised.
       \/ scene = "risks" /\ RisksNext /\ UsedBefore(v3, v4) /\ \A c \in Calls : call'[c].row # v4
       \/ scene = "feeds" /\ FeedsNext
       \/ \E c \in Calls : CutOff(c)

MCSpec == MCInit /\ [][MCNext]_allVars
=============================================================================
