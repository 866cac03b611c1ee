------------------------------- MODULE Handover -------------------------------
(***************************************************************************)
(* Handing units over: the record of a sale's handover, the snags found,   *)
(* and the completion, which recognizes the revenue of the unit and marks  *)
(* the unit and all its sales, while units are reserved and sold.          *)
(* Reasons, notes and notifications are left out.                          *)
(***************************************************************************)
EXTENDS UnitSales

CONSTANTS
    Handovers,
    SaleOf,      \* the sale of a handover
    Snags,
    RecordOf,    \* the handover that a snag was found at
    MaxRevenue   \* bound: revenue entries of a unit before it is left alone

ASSUME HandoverAssumption ==
    /\ SaleOf \in [Handovers -> Sales] /\ IsFiniteSet(Handovers)
    /\ \A h, i \in Handovers : SaleOf[h] = SaleOf[i] => h = i
    /\ RecordOf \in [Snags -> Handovers]
    /\ None \notin Units
    /\ (Units \cup Reservations \cup Sales \cup Bills) \cap (Handovers \cup Snags) = {}
    /\ Handovers \cap Snags = {}

NoHandover == [status |-> "ABSENT", unit |-> None]
NoSnag == [status |-> "ABSENT"]

HandoverTypeOK ==
    /\ \A h \in Handovers :
          /\ db[h].status \in {"ABSENT", "SCHEDULED", "INSPECTION_DONE", "SNAGS_PENDING",
                               "COMPLETED", "CANCELLED"}
          /\ db[h].unit \in Units \cup {None}
    /\ \A n \in Snags :
          db[n].status \in {"ABSENT", "OPEN", "IN_PROGRESS", "RESOLVED", "VERIFIED", "REJECTED"}

HandoverOpen(h) == ~In(h, {"ABSENT", "COMPLETED", "CANCELLED"})
OpenSnags(h) == {n \in Snags : RecordOf[n] = h /\ In(n, {"OPEN", "IN_PROGRESS"})}

\* The request names the unit, which need not be that of the sale.
ScheduleHandover(h, x) ==
    Statement(In(h, {"ABSENT"}) /\ ~In(SaleOf[h], {"ABSENT"}),
              db' = [db EXCEPT ![h].status = "SCHEDULED", ![h].unit = x])

RecordInspection(c, h) ==
    Handler(c, "inspect", h, None, HandoverOpen(h), Becomes(h, "INSPECTION_DONE"))

CancelHandover(c, h) ==
    Handler(c, "cancelHandover", h, None, HandoverOpen(h), Becomes(h, "CANCELLED"))

\* The snag is saved before the record is sent back, as the record was read.
AddSnag(c, n) ==
    LET h == RecordOf[n]
    IN  \/ /\ In(n, {"ABSENT"}) /\ ~In(h, {"ABSENT"})
           /\ Enter(c, "addSnag", "insert", n, None, db[h].status)
        \/ /\ At(c, "addSnag", "insert", n, None) /\ In(n, {"ABSENT"})
           /\ Becomes(n, "OPEN")
           /\ IF call[c].seen = "INSPECTION_DONE" THEN Goto(c, "write") ELSE Leave(c)
        \/ At(c, "addSnag", "write", n, None) /\ Becomes(h, "SNAGS_PENDING") /\ Leave(c)

SetSnag(n, status) == Statement(~In(n, {"ABSENT"}), Becomes(n, status))
StartSnagWork(n) == SetSnag(n, "IN_PROGRESS")
ResolveSnag(n) == SetSnag(n, "RESOLVED")
RejectSnag(n) == SetSnag(n, "REJECTED")
VerifySnag(c, n) ==
    Handler(c, "verifySnag", n, None, In(n, {"RESOLVED"}), Becomes(n, "VERIFIED"))

\* Mutated form of MayComplete: snags are not counted.
MayCompleteAny(h) == TRUE

MayComplete(h) == OpenSnags(h) = {}

\* Mutated form of MayRecognize: the unit may have been handed over.
MayRecognizeAgain(x) == TRUE

MayRecognize(x) == ~In(x, {"HANDED_OVER", "SOLD"})

MarkSales(x) ==
    db' = [s \in DOMAIN db |->
              IF s \in Sales /\ ~In(s, {"ABSENT"}) /\ db[s].unit = x
              THEN [db[s] EXCEPT !.status = "HANDED_OVER"] ELSE db[s]]

\* recognizeOnHandover, for the completion and as a request of its own: it
\* reads the unit, posts, marks the unit and then every sale it ever had.
Recognize(c, op, row, x, then) ==
    \/ /\ At(c, op, "unit", row, None)
       /\ IF MayRecognize(x) /\ db[x].recognized < MaxRevenue THEN Goto(c, "recognize")
          ELSE Leave(c)
       /\ UNCHANGED db
    \/ /\ At(c, op, "recognize", row, None)
       /\ db' = [db EXCEPT ![x].recognized = @ + 1]
       /\ Goto(c, "mark")
    \/ At(c, op, "mark", row, None) /\ Becomes(x, "HANDED_OVER") /\ Goto(c, "sales")
    \/ At(c, op, "sales", row, None) /\ MarkSales(x) /\ then

RecognizeOnHandover(c, x) ==
    \/ Enter(c, "recognizeUnit", "unit", x, None, None)
    \/ Recognize(c, "recognizeUnit", x, x, Leave(c))

CompleteHandover(c, h) ==
    \/ HandoverOpen(h) /\ Enter(c, "complete", "snags", h, None, None)
    \/ /\ At(c, "complete", "snags", h, None)
       /\ IF MayComplete(h) THEN Goto(c, "unit") ELSE Leave(c)
       /\ UNCHANGED db
    \/ Recognize(c, "complete", h, db[h].unit, Goto(c, "write"))
    \/ At(c, "complete", "write", h, None) /\ Becomes(h, "COMPLETED") /\ Leave(c)

HandoverNext ==
    \/ \E h \in Handovers :
          \/ \E x \in Units : ScheduleHandover(h, x)
          \/ \E c \in Calls :
                RecordInspection(c, h) \/ CancelHandover(c, h) \/ CompleteHandover(c, h)
    \/ \E n \in Snags :
          \/ StartSnagWork(n) \/ ResolveSnag(n) \/ RejectSnag(n)
          \/ \E c \in Calls : AddSnag(c, n) \/ VerifySnag(c, n)
    \/ \E c \in Calls, x \in Units : RecognizeOnHandover(c, x)

\* All that changes the units of an estate.
EstateNext == ReservationsNext \/ SalesNext \/ HandoverNext

-----------------------------------------------------------------------------
\* Every completed handover stands on a revenue entry of its own for its unit, and
\* a sale says it is handed over only when its unit was recognized, wherever
\* completions stop and whatever else writes the records, the units and the sales.
HandedOverRecognized ==
    /\ \A x \in Units :
          Cardinality({h \in Handovers : In(h, {"COMPLETED"}) /\ db[h].unit = x})
              <= db[x].recognized
    /\ \A s \in Sales : In(s, {"HANDED_OVER"}) => db[db[s].unit].recognized > 0

\* While requests take turns, the revenue of a unit is recognized when it is handed
\* over and again only after a reservation of it was converted since, and a unit
\* that is handed over has no sale that could still be cancelled or moved.
\* (The conversion does not look at the unit: one that is reserved, recognized,
\* converted and completed, each after the other, is recognized twice.)
RecognizedOnce ==
    tidy /\ Alone =>
        \A x \in Units :
            /\ db[x].recognized = db[x].resold + IF In(x, {"HANDED_OVER"}) THEN 1 ELSE 0
            /\ In(x, {"HANDED_OVER"}) =>
                  \A s \in Sales : db[s].unit = x => In(s, {"HANDED_OVER"})

\* Revenue is recognized when a unit is handed over: HandedOverRecognized
\* always, RecognizedOnce while requests take turns.
HandoverSound == HandoverTypeOK /\ HandedOverRecognized /\ RecognizedOnce

\* While requests take turns, no handover is completed over an open snag.
NoSnagLeft ==
    [][tidy' => \A h \in Handovers :
                    In(h, {"COMPLETED"})' /\ ~In(h, {"COMPLETED"}) => OpenSnags(h) = {}]_docVars
=============================================================================
