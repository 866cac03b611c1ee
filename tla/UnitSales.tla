------------------------------ MODULE UnitSales ------------------------------
(***************************************************************************)
(* Units of an estate: reservations, their conversion to sales with a bill *)
(* each, and the cancellation, transfer and swap of sales.  Customers,     *)
(* prices and the event history are left out.                              *)
(***************************************************************************)
EXTENDS Receivables

CONSTANTS
    Units, Reservations,
    UnitOf,      \* the unit of a reservation
    Sales        \* bound: sale allocations ever made

ASSUME SalesAssumption ==
    /\ UnitOf \in [Reservations -> Units]
    /\ None \notin Units \cup Sales \cup Bills
    /\ Units \cap (Reservations \cup Sales \cup Bills) = {}
    /\ Reservations \cap (Sales \cup Bills) = {} /\ Sales \cap Bills = {}

\* recognized counts the entries that recognize the revenue of the unit, resold
\* the conversions that made a unit that was handed over a sold one again.
NoUnitSold == [status |-> "AVAILABLE", recognized |-> 0, resold |-> 0]
NoReservation == [status |-> "ABSENT", late |-> FALSE, sale |-> None]
NoSale == [status |-> "ABSENT", unit |-> None, cancelled |-> FALSE, bill |-> None]

UnitStatus == {"AVAILABLE", "RESERVED", "ALLOCATED", "UNDER_CONTRACT", "HANDED_OVER", "SOLD"}

SalesTypeOK ==
    /\ \A x \in Units :
          db[x].status \in UnitStatus /\ db[x].recognized \in Nat /\ db[x].resold \in Nat
    /\ \A r \in Reservations :
          /\ db[r].status \in {"ABSENT", "ACTIVE", "CONVERTED", "EXPIRED", "CANCELLED"}
          /\ db[r].sale \in Sales \cup {None}
    /\ \A s \in Sales :
          db[s].status \in UnitStatus \cup {"ABSENT"} /\ db[s].unit \in Units \cup {None}

NewSale(x, status) ==
    [status |-> status, unit |-> x, cancelled |-> FALSE, bill |-> None]
Live(s) == ~In(s, {"ABSENT"}) /\ ~db[s].cancelled
Ended(s) == db[s].cancelled \/ In(s, {"ABSENT", "HANDED_OVER", "SOLD"})

AllocateUnit(c, x) ==
    Handler(c, "allocate", x, None, In(x, {"AVAILABLE"}),
        \E s \in Sales :
            /\ In(s, {"ABSENT"})
            /\ db' = [db EXCEPT ![s] = NewSale(x, "RESERVED"), ![x].status = "RESERVED"])

\* Any status, by hand: what follows is not tidy.
UpdateUnitStatus(x, status) ==
    /\ db' = [db EXCEPT ![x].status = status]
    /\ tidy' = FALSE
    /\ UNCHANGED call

MayReserve(r) ==
    /\ In(r, {"ABSENT"}) /\ In(UnitOf[r], {"AVAILABLE"})
    /\ \A other \in Reservations : UnitOf[other] = UnitOf[r] => ~In(other, {"ACTIVE"})

MakeReservation(r) ==
    /\ In(r, {"ABSENT"})
    /\ db' = [db EXCEPT ![r].status = "ACTIVE", ![UnitOf[r]].status = "RESERVED"]

ReserveUnit(c, r) == Handler(c, "reserve", r, None, MayReserve(r), MakeReservation(r))

\* The time of a reservation passes.
Expires(r) ==
    /\ In(r, {"ACTIVE"})
    /\ db' = [db EXCEPT ![r].late = TRUE]
    /\ UNCHANGED <<call, tidy>>

\* The reservation is written by id, the unit only while it is reserved.
FreeUnit(r, status) ==
    db' = [db EXCEPT ![r].status = status,
                     ![UnitOf[r]].status = IF @ = "RESERVED" THEN "AVAILABLE" ELSE @]

ExpireStaleReservations(c, r) ==
    Handler(c, "expire", r, None, In(r, {"ACTIVE"}) /\ db[r].late, FreeUnit(r, "EXPIRED"))

CancelReservation(c, r) ==
    Handler(c, "cancelReservation", r, None, In(r, {"ACTIVE"}), FreeUnit(r, "CANCELLED"))

\* Mutated form of MayConvert: a reservation that was converted is so again.
MayConvertAgain(r) == In(r, {"ACTIVE", "CONVERTED"}) /\ ~db[r].late

MayConvert(r) == In(r, {"ACTIVE"}) /\ ~db[r].late

\* The unit is not looked at: it may have been handed over since it was reserved.
SellUnit(x) ==
    db' = [db EXCEPT ![x].status = "ALLOCATED",
                     ![x].resold = IF In(x, {"HANDED_OVER"}) THEN @ + 1 ELSE @]

\* Five commits: the sale, the reservation, the unit, the bill and its posting
\* (of which only the first is told apart: the rest is PostBill).
ConvertReservationToSale(c, r) ==
    LET x == UnitOf[r]
        here(at) == At(c, "convert", at, r, None)
        sale == call[c].seen
    IN  \/ MayConvert(r) /\ Enter(c, "convert", "sale", r, None, None)
        \/ /\ here("sale")
           /\ \E s \in Sales :
                 /\ In(s, {"ABSENT"})
                 /\ db' = [db EXCEPT ![s] = NewSale(x, "ALLOCATED")]
                 /\ Keep(c, "reservation", s)
        \/ /\ here("reservation")
           /\ db' = [db EXCEPT ![r].status = "CONVERTED", ![r].sale = sale]
           /\ Goto(c, "unit")
        \/ here("unit") /\ SellUnit(x) /\ Goto(c, "bill")
        \/ /\ here("bill")
           /\ \E i \in Bills :
                 /\ In(i, {"ABSENT"})
                 /\ db' = [db EXCEPT ![i].status = "DRAFT", ![sale].bill = i]
           /\ Goto(c, "post")
        \/ here("post") /\ PostEntry(db[sale].bill) /\ Goto(c, "posted")
        \/ here("posted") /\ Becomes(db[sale].bill, "POSTED") /\ Goto(c, "ledger")
        \/ here("ledger") /\ WriteLedger(db[sale].bill) /\ Leave(c)

CancelAllocation(c, s) ==
    Handler(c, "cancelSale", s, None, ~Ended(s),
        db' = [db EXCEPT ![s].cancelled = TRUE, ![db[s].unit].status = "AVAILABLE"])

\* To another customer, with the status that was read.
TransferAllocation(c, s) ==
    \/ ~Ended(s) /\ Enter(c, "transferSale", "write", s, None, db[s].status)
    \/ /\ At(c, "transferSale", "write", s, None)
       /\ \E new \in Sales :
             /\ In(new, {"ABSENT"})
             /\ db' = [db EXCEPT ![s].cancelled = TRUE,
                                 ![new] = NewSale(db[s].unit, call[c].seen)]
       /\ Leave(c)

\* To another unit, which is marked in a commit of its own.
SwapUnitAllocation(c, s, x) ==
    LET here(at) == At(c, "swapSale", at, s, x)
    IN  \/ /\ ~Ended(s) /\ In(x, {"AVAILABLE"})
           /\ Enter(c, "swapSale", "swap", s, x, db[s].status)
        \/ /\ here("swap")
           /\ \E new \in Sales :
                 /\ In(new, {"ABSENT"})
                 /\ db' = [db EXCEPT ![s].cancelled = TRUE,
                                     ![db[s].unit].status = "AVAILABLE",
                                     ![new] = NewSale(x, call[c].seen)]
           /\ Goto(c, "unit")
        \/ here("unit") /\ Becomes(x, call[c].seen) /\ Leave(c)

ReservationsNext ==
    \E r \in Reservations :
        \/ Expires(r)
        \/ \E c \in Calls :
              \/ ReserveUnit(c, r) \/ ExpireStaleReservations(c, r)
              \/ CancelReservation(c, r) \/ ConvertReservationToSale(c, r)

SalesNext ==
    \/ \E x \in Units :
          \/ \E status \in UnitStatus : UpdateUnitStatus(x, status)
          \/ \E c \in Calls :
                AllocateUnit(c, x) \/ \E s \in Sales : SwapUnitAllocation(c, s, x)
    \/ \E c \in Calls, s \in Sales : CancelAllocation(c, s) \/ TransferAllocation(c, s)

-----------------------------------------------------------------------------
HeldBy(x) ==
    {s \in Sales : Live(s) /\ db[s].unit = x}
        \cup {r \in Reservations : In(r, {"ACTIVE"}) /\ UnitOf[r] = x}

\* While requests take turns and nobody sets a status by hand, a unit is held
\* by one reservation or sale at most, by none when it is available, and by none
\* only when it is available or handed over.
\* (Two requests that both read the unit as available sell it twice.)
OneHolder ==
    tidy /\ Alone =>
        \A x \in Units :
            /\ Cardinality(HeldBy(x)) <= 1
            /\ In(x, {"AVAILABLE"}) => HeldBy(x) = {}
            /\ HeldBy(x) = {} => In(x, {"AVAILABLE", "HANDED_OVER"})

\* A reservation that became a sale has one; while requests take turns, its bill
\* is in the customer ledger, and every sale that was billed is the one that its
\* reservation names, so that no customer is billed twice for one reservation.
SaleBilled ==
    /\ \A r \in Reservations : In(r, {"CONVERTED"}) => db[r].sale # None
    /\ tidy /\ Alone =>
          /\ \A r \in Reservations :
                In(r, {"CONVERTED"}) => LET i == db[db[r].sale].bill
                                        IN  i # None /\ db[i].ledger = 1
          /\ \A s \in Sales :
                db[s].bill # None => \E r \in Reservations : db[r].sale = s

\* Units are held once and sales are billed once: OneHolder and SaleBilled.
SalesSound == SalesTypeOK /\ OneHolder /\ SaleBilled
=============================================================================
