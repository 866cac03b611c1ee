----------------------------- MODULE Procurement -----------------------------
(***************************************************************************)
(* Requisitions, purchase orders, goods receipts and vendor invoices.  An  *)
(* order (of one line) reserves its budget line when it is approved; a     *)
(* receipt posts, stocks the goods and turns the reservation into spending *)
(* one statement at a time, the goods at a unit cost of its own; an        *)
(* invoice is posted once it is matched.                                   *)
(***************************************************************************)
EXTENDS Budgeting, Inventory

CONSTANTS
    Requisitions,
    Orders,
    RequestOf,    \* the requisition of an order, or None
    LineOf,       \* the budget line of an order
    Ordered,      \* what an order is for, at unit cost
    Receipts, Invoices,
    OrderOf,      \* the order of a receipt, an invoice
    Delivered,    \* the quantity of a receipt, an invoice
    UnitCosts,    \* the unit costs of receipts, where the order's is 1
    MaxPosted,    \* bound: entries of an invoice before it is left alone
    Shelf         \* the warehouse that receipts go to

ASSUME ProcurementAssumption ==
    /\ RequestOf \in [Orders -> Requisitions \cup {None}]
    /\ LineOf \in [Orders -> Lines]
    /\ Ordered \in [Orders -> Nat] /\ Delivered \in [Receipts \cup Invoices -> Nat]
    /\ OrderOf \in [Receipts \cup Invoices -> Orders] /\ UnitCosts \subseteq Nat
    /\ Shelf \in Warehouses /\ None \notin Commitments \cup Orders
    /\ IsFiniteSet(Commitments) /\ IsFiniteSet(Receipts) /\ IsFiniteSet(Invoices) /\ IsFiniteSet(Calls)
    \* They are rows of eight tables.
    /\ Requisitions \cap (Orders \cup Receipts \cup Invoices) = {}
    /\ Orders \cap (Receipts \cup Invoices) = {} /\ Receipts \cap Invoices = {}
    /\ Warehouses \cap (Budgets \cup Lines \cup Commitments) = {}
    /\ (Requisitions \cup Orders \cup Receipts \cup Invoices)
          \cap (Budgets \cup Lines \cup Commitments \cup Warehouses) = {}

NoRequisition == [status |-> "ABSENT", maker |-> None, checker |-> None]
NoOrder == [status |-> "ABSENT", maker |-> None, checker |-> None,
            commitment |-> None, received |-> 0, invoiced |-> 0]
NoReceipt == [status |-> "ABSENT", worth |-> 0, entries |-> 0]
NoInvoice == [status |-> "ABSENT", entries |-> 0, grn |-> None]

InForce == {"APPROVED", "PARTIALLY_RECEIVED", "FULLY_RECEIVED", "PARTIALLY_INVOICED",
            "FULLY_INVOICED"}

ProcurementTypeOK ==
    /\ \A r \in Requisitions :
          db[r].status \in {"ABSENT", "DRAFT", "SUBMITTED", "APPROVED", "REJECTED"}
    /\ \A o \in Orders :
          /\ db[o].status \in InForce \cup {"ABSENT", "DRAFT", "CANCELLED"}
          /\ db[o].commitment \in Commitments \cup {None}
          /\ db[o].received \in Nat /\ db[o].invoiced \in Nat
    /\ \A g \in Receipts : db[g].status \in {"ABSENT", "DRAFT", "POSTED"}
    /\ \A i \in Invoices :
          /\ db[i].status \in {"ABSENT", "PENDING_MATCH", "POSTED"}
          /\ db[i].grn \in Receipts \cup {None}

-----------------------------------------------------------------------------
CreateRequisition(r, u) ==
    Statement(In(r, {"ABSENT"}), db' = [db EXCEPT ![r].status = "DRAFT", ![r].maker = u])

SubmitRequisition(c, r) ==
    Handler(c, "submit", r, None, In(r, {"DRAFT", "REJECTED"}), Becomes(r, "SUBMITTED"))

ApproveRequisition(c, r, u) ==
    Handler(c, "approve", r, u, In(r, {"SUBMITTED"}) /\ db[r].maker # u,
            ApprovedBy(u, r, "APPROVED"))

RejectRequisition(c, r) ==
    Handler(c, "reject", r, None, In(r, {"SUBMITTED"}), Becomes(r, "REJECTED"))

\* The number of an order is unique: a second insert is refused.
InsertOrder(o, u) ==
    db' = IF In(o, {"ABSENT"}) THEN [db EXCEPT ![o].status = "DRAFT", ![o].maker = u] ELSE db

CreatePurchaseOrder(c, o, u) ==
    Handler(c, "createOrder", o, u,
            /\ In(o, {"ABSENT"})
            /\ RequestOf[o] # None => In(RequestOf[o], {"APPROVED"}),
            InsertOrder(o, u))

Link(c, o) == db' = [db EXCEPT ![o].commitment = call[c].seen]

\* The reservation is made and linked before the order is approved; what is
\* available is computed once for the order and again for its reservation.
ApprovePurchaseOrder(c, o, u) ==
    \/ /\ In(o, {"DRAFT"}) /\ db[o].maker # u /\ Available(LineOf[o]) >= Ordered[o]
       /\ Enter(c, "approveOrder", "check", o, u, None)
    \/ /\ At(c, "approveOrder", "check", o, u)
       /\ IF MayReserve(LineOf[o], Ordered[o]) THEN Goto(c, "reserve") ELSE Leave(c)
       /\ UNCHANGED db
    \/ /\ At(c, "approveOrder", "reserve", o, u)
       /\ \E k \in Commitments :
             Reserve(k, LineOf[o], Ordered[o], o) /\ Keep(c, "link", k)
    \/ At(c, "approveOrder", "link", o, u) /\ Link(c, o) /\ Goto(c, "write")
    \/ At(c, "approveOrder", "write", o, u) /\ ApprovedBy(u, o, "APPROVED") /\ Leave(c)

RejectPurchaseOrder(c, o) ==
    Handler(c, "rejectOrder", o, None, In(o, {"DRAFT"}), Becomes(o, "CANCELLED"))

-----------------------------------------------------------------------------
MayReceive(g) ==
    /\ In(OrderOf[g], {"APPROVED", "PARTIALLY_RECEIVED"})
    /\ Delivered[g] <= Ordered[OrderOf[g]] - db[OrderOf[g]].received

\* Mutated form of StatusReceived: complete only when too much arrived.
StatusReceivedOver(o) ==
    IF db[o].received > Ordered[o] THEN "FULLY_RECEIVED"
    ELSE IF db[o].received > 0 THEN "PARTIALLY_RECEIVED" ELSE "APPROVED"

StatusReceived(o) ==
    IF db[o].received >= Ordered[o] THEN "FULLY_RECEIVED"
    ELSE IF db[o].received > 0 THEN "PARTIALLY_RECEIVED" ELSE "APPROVED"

\* The receipt is compared with the order as it was first read, and the order
\* and its reservation are then written from old reads.  Goods are counted by
\* their quantity, and valued at the cost that the receipt says: an entry of
\* nothing is refused, and so may a release be, as of dearer goods; either ends
\* the request in the middle.
ReceiveGoods(c, g, cost) ==
    LET o == OrderOf[g]
        here(at) == At(c, "receiveGoods", at, g, cost)
        seen == call[c].seen
        keeping(field, value) == [seen EXCEPT ![field] = value]
    IN  \/ /\ In(g, {"ABSENT"}) /\ MayReceive(g)
           /\ Enter(c, "receiveGoods", "create", g, cost,
                    [received |-> db[o].received, commitment |-> db[o].commitment,
                     last |-> 0, status |-> None])
        \/ /\ here("create")
           /\ IF In(g, {"ABSENT"})
              THEN /\ db' = [db EXCEPT ![g].status = "DRAFT", ![g].worth = Delivered[g] * cost]
                   /\ Goto(c, "post")
              ELSE Leave(c) /\ UNCHANGED db
        \/ /\ here("post")
           /\ IF db[g].worth > 0
              THEN /\ db' = [db EXCEPT ![g].entries = @ + 1, ![LineOf[o]].actual = @ + db[g].worth]
                   /\ Goto(c, "stock")
              ELSE Leave(c) /\ UNCHANGED db
        \/ /\ here("stock")
           /\ Keep(c, "stocked", keeping("last", db[Shelf].onHand))
           /\ UNCHANGED db
        \/ /\ here("stocked")
           /\ db' = [db EXCEPT ![Shelf].onHand = seen.last + Delivered[g],
                               ![Shelf].moved = @ + Delivered[g]]
           /\ Goto(c, "release")
        \/ /\ here("release")
           /\ IF MayRelease(seen.commitment, db[g].worth)
              THEN Keep(c, "released", keeping("last", db[seen.commitment].released))
              ELSE Leave(c)
           /\ UNCHANGED db
        \/ /\ here("released")
           /\ Release(seen.commitment, seen.last + db[g].worth)
           /\ Goto(c, "receive")
        \/ /\ here("receive")
           /\ db' = [db EXCEPT ![o].received = seen.received + Delivered[g]]
           /\ Goto(c, "posted")
        \/ here("posted") /\ Becomes(g, "POSTED") /\ Goto(c, "refresh")
        \/ /\ here("refresh")
           /\ Keep(c, "write", keeping("status", StatusReceived(o)))
           /\ UNCHANGED db
        \/ here("write") /\ Becomes(o, seen.status) /\ Leave(c)

CreateVendorInvoice(i) ==
    Statement(In(i, {"ABSENT"}) /\ ~In(OrderOf[i], {"ABSENT"}), Becomes(i, "PENDING_MATCH"))

\* An invoice that was posted may still be matched, to no effect.
CreateThreeWayMatch(i, g) ==
    Statement(/\ ~In(i, {"ABSENT"}) /\ ~In(g, {"ABSENT"}) /\ OrderOf[i] = OrderOf[g]
              /\ db[i].grn = None,
              db' = [db EXCEPT ![i].grn = g])

StatusInvoiced(o) ==
    IF db[o].invoiced >= Ordered[o] THEN "FULLY_INVOICED"
    ELSE IF In(o, {"FULLY_RECEIVED"}) THEN "PARTIALLY_INVOICED" ELSE None

CompleteThreeWayMatch(c, i) ==
    LET o == OrderOf[i]
        here(at) == At(c, "completeMatch", at, i, None)
    IN  \/ /\ db[i].grn # None /\ ~In(i, {"POSTED"}) /\ db[i].entries < MaxPosted
           /\ Enter(c, "completeMatch", "post", i, None, None)
        \/ here("post") /\ PostEntry(i) /\ Goto(c, "posted")
        \/ here("posted") /\ Becomes(i, "POSTED") /\ Goto(c, "count")
        \/ /\ here("count")
           /\ db' = [db EXCEPT ![o].invoiced = @ + Delivered[i]]
           /\ Goto(c, "refresh")
        \/ here("refresh") /\ Keep(c, "write", [status |-> StatusInvoiced(o)]) /\ UNCHANGED db
        \/ /\ here("write")
           /\ IF call[c].seen.status = None THEN UNCHANGED db
              ELSE Becomes(o, call[c].seen.status)
           /\ Leave(c)

OrdersNext ==
    \/ \E r \in Requisitions, u \in Users :
          \/ CreateRequisition(r, u)
          \/ \E c \in Calls :
                SubmitRequisition(c, r) \/ ApproveRequisition(c, r, u) \/ RejectRequisition(c, r)
    \/ \E o \in Orders, c \in Calls :
          \/ RejectPurchaseOrder(c, o)
          \/ \E u \in Users : CreatePurchaseOrder(c, o, u) \/ ApprovePurchaseOrder(c, o, u)

DeliveriesNext ==
    \/ \E c \in Calls, g \in Receipts, cost \in UnitCosts : ReceiveGoods(c, g, cost)
    \/ \E i \in Invoices :
          \/ CreateVendorInvoice(i)
          \/ \E g \in Receipts : CreateThreeWayMatch(i, g)
          \/ \E c \in Calls : CompleteThreeWayMatch(c, i)

ProcurementNext == OrdersNext \/ DeliveriesNext

-----------------------------------------------------------------------------
\* An order of a requisition stands on one that somebody other than the
\* requester approved, although a late rejection may overwrite the approval.
OrderBacked ==
    \A o \in Orders :
        ~In(o, {"ABSENT"}) /\ RequestOf[o] # None => FourEyes(RequestOf[o])

\* An order that is in force, received or invoiced was approved by somebody
\* other than its preparer and has its budget reserved, in whatever order
\* approvals, rejections, receipts and invoices write its status.
OrderInForceReserved ==
    \A o \in Orders : In(o, InForce) => FourEyes(o) /\ db[o].commitment # None

\* An order is fully invoiced only when invoices for all of it are posted.
FullyInvoiced ==
    \A o \in Orders :
        In(o, {"FULLY_INVOICED"}) =>
            Ordered[o] <= SumFunctionOnSet([i \in Invoices |-> Delivered[i] * db[i].entries],
                                           {i \in Invoices : OrderOf[i] = o})

\* What receipts are worth, and those on a line that were posted and no more.
Worth == [g \in Receipts |-> db[g].worth]
RefusedOn(l) == {g \in Receipts : In(g, {"DRAFT"}) /\ LineOf[OrderOf[g]] = l}

\* While requests take turns, an order, its reservation and its receipts agree:
\* the quantity received was ordered, what the receipts are worth was released
\* from the budget, and a receipt that was posted and stocked but not received is
\* worth more than its order has left there.  (One of goods that cost nothing is
\* neither posted nor received.)
OrderReconciles ==
    tidy /\ Alone =>
        /\ \A o \in Orders :
              LET posted == {g \in Receipts : OrderOf[g] = o /\ In(g, {"POSTED"})}
              IN  /\ db[o].received = SumFunctionOnSet(Delivered, posted)
                  /\ db[o].received <= Ordered[o]
                  /\ db[o].commitment # None =>
                        db[db[o].commitment].released = SumFunctionOnSet(Worth, posted)
                  /\ In(o, {"PARTIALLY_RECEIVED"}) => db[o].received < Ordered[o]
        /\ \A g \in Receipts :
              /\ db[g].entries = IF In(g, {"ABSENT"}) \/ db[g].worth = 0 THEN 0 ELSE 1
              /\ In(g, {"DRAFT"}) =>
                    db[g].worth = 0 \/ ~MayRelease(db[OrderOf[g]].commitment, db[g].worth)

\* While requests take turns, each reservation for an order is the one that the
\* order is linked to, and only orders in force have one.
ReservedForOrders ==
    tidy /\ Alone =>
        /\ \A k \in Commitments :
              db[k].source # None => db[db[k].source].commitment = k
        /\ \A o \in Orders : db[o].commitment # None <=> In(o, InForce)

\* While requests take turns and budgets are spent on orders only, the orders in
\* force overspend a line of the budget by no more than the worth of the receipts
\* that were posted although their release was then refused.
OrdersWithinBudget ==
    tidy /\ Alone /\ (\E o \in Orders : ~In(o, {"ABSENT"})) =>
        \A l \in Lines : db[l].actual + CommittedOf(l)
                            <= db[l].revised + SumFunctionOnSet(Worth, RefusedOn(l))

\* From the requisition to the last invoice an order stays backed, approved,
\* reserved and counted: the six properties above.
OrdersSound ==
    /\ ProcurementTypeOK
    /\ OrderBacked /\ OrderInForceReserved /\ FullyInvoiced
    /\ OrderReconciles /\ ReservedForOrders /\ OrdersWithinBudget
=============================================================================
