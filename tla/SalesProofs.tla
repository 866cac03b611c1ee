----------------------------- MODULE SalesProofs -----------------------------
(***************************************************************************)
(* The units of an estate, reserved, sold and handed over: while requests  *)
(* take turns, one customer at most holds a unit and is billed once for    *)
(* it, and its revenue is recognized once for each time it is sold; and    *)
(* always, what says that it is handed over was recognized.                *)
(*                                                                         *)
(* The argument: a request that is alone finds, at each of its commits,    *)
(* what the commit before left.  There are two of its states in which the  *)
(* unit is not yet what its holders say: between the insertion of the sale *)
(* and the end of the reservation (Splitting) two rows hold it, and after  *)
(* a swap, before the new unit is marked (Swapping), it is still           *)
(* available.  Everywhere else a unit that is available is held by         *)
(* nothing, so that a request that reads it as available may take it.      *)
(* Revenue is ahead of the status of the unit between the entry and the    *)
(* mark (Marking), and its sales are behind it until they are marked too   *)
(* (Telling) or while a conversion adds one (Joining).                     *)
(*                                                                         *)
(* What holds always needs no turns: an entry of revenue is never taken    *)
(* back and neither a record nor a sale changes its unit, so that a        *)
(* request which has recognized a unit may be as late as it likes in       *)
(* writing so.  Each record that is completed, or that a request which     *)
(* recognized its unit is about to complete, claims an entry of its own.   *)
(***************************************************************************)
EXTENDS Handover, CustomerPayments, Commissions, SumTheorems

SaleStatus == UnitStatus \cup {"ABSENT"}
RecordStatus == {"ABSENT", "SCHEDULED", "INSPECTION_DONE", "SNAGS_PENDING", "COMPLETED", "CANCELLED"}
UnitRow == [status : UnitStatus, recognized : Nat, resold : Nat]
ReservationRow == [status : {"ABSENT", "ACTIVE", "CONVERTED", "EXPIRED", "CANCELLED"},
                   late : BOOLEAN, sale : Sales \cup {None}]
SaleRow == [status : SaleStatus, unit : Units \cup {None}, cancelled : BOOLEAN,
            bill : Bills \cup {None}]
BillRow == [status : {"ABSENT", "DRAFT", "POSTED"}, entries : Nat, ledger : Nat, received : Nat]
HandoverRow == [status : RecordStatus, unit : Units \cup {None}]
SnagRow == [status : {"ABSENT", "OPEN", "IN_PROGRESS", "RESOLVED", "VERIFIED", "REJECTED"}]

EstateRows == Units \cup Reservations \cup Sales \cup Bills \cup Handovers \cup Snags

\* Units that nobody has asked for yet.
EstateInit ==
    /\ db = [y \in EstateRows |->
                IF y \in Units THEN NoUnitSold
                ELSE IF y \in Reservations THEN NoReservation
                ELSE IF y \in Sales THEN NoSale
                ELSE IF y \in Bills THEN NoBill
                ELSE IF y \in Handovers THEN NoHandover ELSE NoSnag]
    /\ CallsStart
EstateStep == EstateNext \/ \E c \in Calls : CutOff(c)
EstateSpec == EstateInit /\ [][EstateStep]_docVars

SalesCall ==
    [op : {"none", "reserve", "expire", "cancelReservation", "convert", "allocate", "cancelSale",
           "transferSale", "swapSale", "inspect", "cancelHandover", "addSnag", "verifySnag",
           "complete", "recognizeUnit"},
     at : {"idle", "write", "sale", "reservation", "unit", "bill", "post", "posted", "ledger", "swap",
           "insert", "snags", "recognize", "mark", "sales"},
     row : Units \cup Reservations \cup Sales \cup Handovers \cup Snags \cup {None},
     arg : Units \cup {None},
     seen : Sales \cup SaleStatus \cup RecordStatus \cup {None}]

RowsTyped ==
    /\ DOMAIN db = EstateRows
    /\ db = [y \in DOMAIN db |-> db[y]]
    /\ \A x \in Units : db[x] \in UnitRow
    /\ \A r \in Reservations : db[r] \in ReservationRow
    /\ \A s \in Sales : db[s] \in SaleRow
    /\ \A i \in Bills : db[i] \in BillRow
    /\ \A h \in Handovers : db[h] \in HandoverRow
    /\ \A n \in Snags : db[n] \in SnagRow
SalesTyped ==
    /\ RowsTyped
    /\ call \in [Calls -> SalesCall]
    /\ tidy \in BOOLEAN

\* A sale is of a unit, as is a record, and what names a sale or a bill names one
\* that is there.
RowsLinked ==
    /\ \A s \in Sales : /\ db[s].status = "ABSENT" <=> db[s].unit = None
                        /\ db[s].status = "ABSENT" => db[s].bill = None
                        /\ db[s].bill # None => db[db[s].bill].status # "ABSENT"
    /\ \A r \in Reservations :
          /\ db[r].sale # None => db[db[r].sale].status # "ABSENT"
          /\ db[r].status = "CONVERTED" => db[r].sale # None
    /\ \A i \in Bills : db[i].status = "ABSENT" => db[i].ledger = 0
    /\ \A h \in Handovers : db[h].status # "ABSENT" => db[h].unit \in Units

Posts == {"post", "posted", "ledger"}

\* What a request has read or done.
ReservationRequest(q) ==
    /\ q.op \in {"reserve", "expire", "cancelReservation"} /\ q.at = "write"
    /\ q.row \in Reservations
ConversionRequest(q) ==
    /\ q.op = "convert" /\ q.row \in Reservations
    /\ q.at \in {"sale", "reservation", "unit", "bill"} \cup Posts
    /\ q.at # "sale" => q.seen \in Sales /\ db[q.seen].status # "ABSENT"
    /\ q.at \in Posts => db[q.seen].bill # None
AllocationRequest(q) == q.op = "allocate" /\ q.at = "write" /\ q.row \in Units
SaleRequest(q) ==
    /\ q.row \in Sales /\ db[q.row].status # "ABSENT"
    /\ \/ q.op = "cancelSale" /\ q.at = "write"
       \/ /\ q.op = "transferSale" /\ q.at = "write"
          /\ q.seen \in UnitStatus \ {"HANDED_OVER"}
       \/ /\ q.op = "swapSale" /\ q.at \in {"swap", "unit"} /\ q.arg \in Units
          /\ q.seen \in UnitStatus \ {"HANDED_OVER"}
RecordRequest(q) ==
    \/ /\ q.op \in {"inspect", "cancelHandover"} /\ q.at = "write" /\ q.row \in Handovers
       /\ db[q.row].status # "ABSENT"
    \/ /\ q.op = "addSnag" /\ q.at \in {"insert", "write"} /\ q.row \in Snags
       /\ db[RecordOf[q.row]].status # "ABSENT"
    \/ q.op = "verifySnag" /\ q.at = "write" /\ q.row \in Snags
CompletionRequest(q) ==
    /\ q.op = "complete" /\ q.at \in {"snags", "unit", "recognize", "mark", "sales", "write"}
    /\ q.row \in Handovers /\ db[q.row].status # "ABSENT"
    /\ q.at \in {"mark", "sales"} => db[db[q.row].unit].recognized > 0
UnitRequest(q) ==
    /\ q.op = "recognizeUnit" /\ q.at \in {"unit", "recognize", "mark", "sales"}
    /\ q.row \in Units
    /\ q.at \in {"mark", "sales"} => db[q.row].recognized > 0
RequestOK(q) ==
    q = Idle \/ ReservationRequest(q) \/ ConversionRequest(q) \/ AllocationRequest(q)
        \/ SaleRequest(q) \/ RecordRequest(q) \/ CompletionRequest(q) \/ UnitRequest(q)

\* The records that stand on an entry for their unit.
Claiming(q, h) == q.op = "complete" /\ q.row = h /\ q.at \in {"mark", "sales", "write"}
Claimed(h) == db[h].status = "COMPLETED" \/ \E c \in Calls : Claiming(call[c], h)
Claims(x) == {h \in Handovers : db[h].unit = x /\ Claimed(h)}
Recognized ==
    /\ \A x \in Units : Cardinality(Claims(x)) <= db[x].recognized
    /\ \A s \in Sales : db[s].status = "HANDED_OVER" => db[db[s].unit].recognized > 0

LiveSale(s) == db[s].status # "ABSENT" /\ ~db[s].cancelled
SaleHolds(s, x) == LiveSale(s) /\ db[s].unit = x
ReservationHolds(r, x) == db[r].status = "ACTIVE" /\ UnitOf[r] = x
OneHolds(x) ==
    /\ \A s, t \in Sales : SaleHolds(s, x) /\ SaleHolds(t, x) => s = t
    /\ \A r, q \in Reservations : ReservationHolds(r, x) /\ ReservationHolds(q, x) => r = q
    /\ \A s \in Sales, r \in Reservations : ~(SaleHolds(s, x) /\ ReservationHolds(r, x))
NoneHolds(x) ==
    /\ \A s \in Sales : ~SaleHolds(s, x)
    /\ \A r \in Reservations : ~ReservationHolds(r, x)

\* The unit that a request recognizes.
Recognizing(q) == q.op \in {"complete", "recognizeUnit"}
UnitIn(q) == IF q.op = "complete" THEN db[q.row].unit ELSE q.row

\* What still holds of it when nothing came in between.
ConversionInTurn(q) ==
    /\ q.at \in {"sale", "reservation"} => db[q.row].status = "ACTIVE"
    /\ q.at # "sale" => SaleHolds(q.seen, UnitOf[q.row])
    /\ q.at = "reservation" =>
          /\ \A s \in Sales : SaleHolds(s, UnitOf[q.row]) => s = q.seen
          /\ \A r \in Reservations : /\ ReservationHolds(r, UnitOf[q.row]) => r = q.row
                                     /\ db[r].sale # q.seen
    /\ q.at \in {"unit", "bill"} \cup Posts => db[q.row].status = "CONVERTED" /\ db[q.row].sale = q.seen
    /\ q.at \in {"reservation", "unit", "bill"} => db[q.seen].bill = None
    /\ q.at \in Posts => db[db[q.seen].bill].ledger = 0
RecognitionInTurn(q) ==
    /\ q.at = "recognize" => db[UnitIn(q)].status # "HANDED_OVER"
    /\ q.op = "complete" /\ q.at # "snags" => OpenSnags(q.row) = {}
TurnOK(q) ==
    /\ q.op = "reserve" => db[q.row].status = "ABSENT" /\ db[UnitOf[q.row]].status = "AVAILABLE"
    /\ q.op \in {"expire", "cancelReservation"} => db[q.row].status = "ACTIVE"
    /\ q.op = "allocate" => db[q.row].status = "AVAILABLE"
    /\ q.op = "convert" => ConversionInTurn(q)
    /\ q.op = "cancelSale" => LiveSale(q.row) /\ db[q.row].status # "HANDED_OVER"
    /\ q.op = "transferSale" => LiveSale(q.row) /\ q.seen = db[q.row].status
    /\ q.op = "swapSale" =>
          /\ db[q.arg].status = "AVAILABLE" /\ q.seen \in {"RESERVED", "ALLOCATED"}
          /\ q.at = "swap" => LiveSale(q.row) /\ db[q.row].status # "HANDED_OVER"
          /\ q.at = "unit" => \E s \in Sales : SaleHolds(s, q.arg)
    /\ Recognizing(q) => RecognitionInTurn(q)

\* The units and rows that a request leaves half-written.
Splitting(q, x) == q.op = "convert" /\ q.at = "reservation" /\ UnitOf[q.row] = x
Swapping(q, x) == q.op = "swapSale" /\ q.at = "unit" /\ q.arg = x
Billing(q, r) == q.op = "convert" /\ q.row = r /\ q.at \in {"unit", "bill"} \cup Posts
Joining(q, s) == q.op = "convert" /\ q.at \in {"reservation", "unit"} /\ q.seen = s
Marking(q, x) == Recognizing(q) /\ q.at = "mark" /\ UnitIn(q) = x
Telling(q, x) == Recognizing(q) /\ q.at = "sales" /\ UnitIn(q) = x

UnitsHeldOnce(q) ==
    /\ \A x \in Units :
          /\ ~Splitting(q, x) => OneHolds(x)
          /\ ~Swapping(q, x) /\ db[x].status = "AVAILABLE" => NoneHolds(x)
          /\ NoneHolds(x) => db[x].status \in {"AVAILABLE", "HANDED_OVER"}
    /\ \A s \in Sales : LiveSale(s) => db[s].status \in {"RESERVED", "ALLOCATED", "HANDED_OVER"}
    /\ \A r \in Reservations :
          db[r].status = "ACTIVE" => db[UnitOf[r]].status \in {"RESERVED", "HANDED_OVER"}

SalesBilledOnce(q) ==
    /\ \A r \in Reservations : db[r].sale # None => db[r].status = "CONVERTED"
    /\ \A r, t \in Reservations : db[r].sale = db[t].sale /\ db[r].sale # None => r = t
    /\ \A s, t \in Sales : db[s].bill = db[t].bill /\ db[s].bill # None => s = t
    /\ \A s \in Sales : db[s].bill # None => \E r \in Reservations : db[r].sale = s
    /\ \A r \in Reservations :
          db[r].status = "CONVERTED" /\ ~Billing(q, r) =>
              db[db[r].sale].bill # None /\ db[db[db[r].sale].bill].ledger = 1

RevenueOnce(q) ==
    /\ \A x \in Units :
          db[x].recognized =
              db[x].resold + IF db[x].status = "HANDED_OVER" \/ Marking(q, x) THEN 1 ELSE 0
    /\ \A x \in Units, s \in Sales :
          db[x].status = "HANDED_OVER" /\ db[s].unit = x =>
              db[s].status = "HANDED_OVER" \/ Telling(q, x) \/ Joining(q, s)

\* What holds while q is the only request; q is Idle when there is none.
Turn(q) == TurnOK(q) /\ UnitsHeldOnce(q) /\ SalesBilledOnce(q) /\ RevenueOnce(q)

TurnsTaken ==
    /\ \A c, e \in Calls : call[c] # Idle /\ call[e] # Idle => c = e
    /\ \A c \in Calls : call[c] # Idle => Turn(call[c])
    /\ Alone => Turn(Idle)

SalesInv ==
    /\ SalesTyped /\ RowsLinked /\ Recognized
    /\ \A c \in Calls : RequestOK(call[c])
    /\ tidy => TurnsTaken

CompletedCleanly ==
    tidy' => \A h \in Handovers :
                 In(h, {"COMPLETED"})' /\ ~In(h, {"COMPLETED"}) => OpenSnags(h) = {}
StepSound == SalesInv' /\ CompletedCleanly

-----------------------------------------------------------------------------
(* Rows and requests *)

\* What no request ever takes back, and how a sale and a record come to say that
\* the unit is handed over.
Kept ==
    /\ \A s \in Sales :
          /\ db[s].status # "ABSENT" => db'[s].status # "ABSENT" /\ db'[s].unit = db[s].unit
          /\ db[s].bill # None => db'[s].bill # None
          /\ db'[s].status = "HANDED_OVER" =>
                db[s].status = "HANDED_OVER" \/ (db[s].unit \in Units /\ db[db[s].unit].recognized > 0)
    /\ \A x \in Units : db'[x].recognized \in Nat /\ db[x].recognized <= db'[x].recognized
    /\ \A h \in Handovers :
          /\ db[h].status # "ABSENT" => db'[h].status # "ABSENT" /\ db'[h].unit = db[h].unit
          /\ db'[h].status = "COMPLETED" =>
                \/ db[h].status = "COMPLETED"
                \/ \E c \in Calls : Claiming(call[c], h) /\ call[c].at = "write"

\* What sales, units and records do to keep it.
SaleStays(s) ==
    /\ db'[s] \in SaleRow /\ db'[s].bill = db[s].bill
    /\ db[s].status # "ABSENT" => db'[s].status # "ABSENT" /\ db'[s].unit = db[s].unit
    /\ db'[s].status = "ABSENT" <=> db'[s].unit = None
    /\ db'[s].status = "HANDED_OVER" =>
          db[s].status = "HANDED_OVER" \/ (db[s].unit \in Units /\ db[db[s].unit].recognized > 0)
UnitStays(x) == db'[x] \in UnitRow /\ db[x].recognized <= db'[x].recognized
RecordsStay == \A y \in Handovers \cup Snags : db'[y] = db[y]

LEMMA SaleUntouched ==
    ASSUME SalesInv, NEW s \in Sales, db'[s] = db[s]
    PROVE  SaleStays(s)
  BY DEF SaleStays, SalesInv, SalesTyped, RowsTyped, RowsLinked

LEMMA UnitUntouched ==
    ASSUME SalesInv, NEW x \in Units, db'[x] = db[x]
    PROVE  UnitStays(x)
<1>1. PICK n \in Nat : n = db[x].recognized
  BY DEF SalesInv, SalesTyped, RowsTyped, UnitRow
<1>2. db[x].recognized <= db'[x].recognized
  BY <1>1
<1> QED  BY <1>2 DEF UnitStays, SalesInv, SalesTyped, RowsTyped

LEMMA RecordsKept ==
    ASSUME SalesInv, RecordsStay
    PROVE  /\ \A h \in Handovers : db'[h] \in HandoverRow
           /\ \A n \in Snags : db'[n] \in SnagRow
           /\ \A h \in Handovers : db'[h].status # "ABSENT" => db'[h].unit \in Units
           /\ \A h \in Handovers :
                 /\ db[h].status # "ABSENT" => db'[h].status # "ABSENT" /\ db'[h].unit = db[h].unit
                 /\ db'[h].status = "COMPLETED" => db[h].status = "COMPLETED"
  BY DEF RecordsStay, SalesInv, SalesTyped, RowsTyped, RowsLinked

LEMMA StaysKept ==
    ASSUME SalesInv, RecordsStay, \A s \in Sales : SaleStays(s),
           \/ \A x \in Units : db'[x].recognized = db[x].recognized
           \/ \A x \in Units : UnitStays(x)
    PROVE  Kept
<1>1. \A x \in Units : db'[x].recognized \in Nat /\ db[x].recognized <= db'[x].recognized
  <2>1. TAKE x \in Units
  <2>2. PICK n \in Nat : n = db[x].recognized
    BY DEF SalesInv, SalesTyped, RowsTyped, UnitRow
  <2>3. CASE UnitStays(x)
    BY <2>3 DEF UnitStays, UnitRow
  <2>4. CASE db'[x].recognized = db[x].recognized
    BY <2>2, <2>4
  <2> QED  BY <2>3, <2>4
<1>2. \A s \in Sales :
         /\ db[s].status # "ABSENT" => db'[s].status # "ABSENT" /\ db'[s].unit = db[s].unit
         /\ db[s].bill # None => db'[s].bill # None
         /\ db'[s].status = "HANDED_OVER" =>
               db[s].status = "HANDED_OVER" \/ (db[s].unit \in Units /\ db[db[s].unit].recognized > 0)
  BY DEF SaleStays
<1>3. \A h \in Handovers :
         /\ db[h].status # "ABSENT" => db'[h].status # "ABSENT" /\ db'[h].unit = db[h].unit
         /\ db'[h].status = "COMPLETED" => db[h].status = "COMPLETED"
  BY RecordsKept
<1> QED  BY <1>1, <1>2, <1>3 DEF Kept

LEMMA EntriesStay ==
    ASSUME SalesInv, Kept, NEW x \in Units, db[x].recognized > 0
    PROVE  db'[x].recognized > 0
<1>1. PICK n \in Nat, m \in Nat : n = db[x].recognized /\ m = db'[x].recognized /\ n <= m
  BY DEF Kept, SalesInv, SalesTyped, RowsTyped, UnitRow
<1> QED  BY <1>1

LEMMA RequestStays ==
    ASSUME SalesInv, Kept, NEW q \in SalesCall, RequestOK(q)
    PROVE  RequestOK(q)'
<1>1. CASE q = Idle \/ ReservationRequest(q) \/ AllocationRequest(q)
  BY <1>1 DEF RequestOK, ReservationRequest, AllocationRequest
<1>2. CASE ConversionRequest(q)
  BY <1>2 DEF RequestOK, ConversionRequest, Kept, Posts
<1>3. CASE SaleRequest(q)
  BY <1>3 DEF RequestOK, SaleRequest, Kept
<1>4. CASE RecordRequest(q)
  <2>1. q.row \in Snags => RecordOf[q.row] \in Handovers
    BY HandoverAssumption
  <2> QED  BY <1>4, <2>1 DEF RequestOK, RecordRequest, Kept
<1>5. \A x \in Units : db[x].recognized > 0 => db'[x].recognized > 0
  BY EntriesStay
<1>6. CASE CompletionRequest(q)
  <2>1. PICK h \in Handovers : h = q.row /\ db[h].status # "ABSENT"
    BY <1>6 DEF CompletionRequest
  <2>2. db[h].unit \in Units /\ db'[h].unit = db[h].unit /\ db'[h].status # "ABSENT"
    BY <2>1 DEF Kept, SalesInv, RowsLinked
  <2> QED  BY <1>5, <1>6, <2>1, <2>2 DEF RequestOK, CompletionRequest
<1>7. CASE UnitRequest(q)
  BY <1>5, <1>7 DEF RequestOK, UnitRequest
<1> QED  BY <1>1, <1>2, <1>3, <1>4, <1>6, <1>7 DEF RequestOK

LEMMA ClaimsStand ==
    ASSUME SalesInv, Kept
    PROVE  /\ \A h \in Handovers : Claimed(h) => db[h].status # "ABSENT" /\ db'[h].unit = db[h].unit
           /\ \A x \in Units : Claims(x)' \subseteq Claims(x) => Cardinality(Claims(x)') <= db'[x].recognized
           /\ \A s \in Sales : db'[s].status = "HANDED_OVER" => db'[db'[s].unit].recognized > 0
<1>1. ASSUME NEW h \in Handovers, Claimed(h) PROVE db[h].status # "ABSENT"
  <2>1. CASE db[h].status = "COMPLETED"
    BY <2>1
  <2>2. ASSUME NEW c \in Calls, Claiming(call[c], h) PROVE db[h].status # "ABSENT"
    <3>1. call[c].op = "complete" /\ call[c].row = h /\ RequestOK(call[c])
      BY <2>2 DEF Claiming, SalesInv
    <3> QED  BY <3>1 DEF RequestOK, ReservationRequest, ConversionRequest, AllocationRequest, SaleRequest,
                         RecordRequest, CompletionRequest, UnitRequest, Idle
  <2> QED  BY <1>1, <2>1, <2>2 DEF Claimed
<1>2. ASSUME NEW x \in Units, Claims(x)' \subseteq Claims(x) PROVE Cardinality(Claims(x)') <= db'[x].recognized
  <2>1. IsFiniteSet(Claims(x))
    BY HandoverAssumption, FS_Subset DEF Claims
  <2>2. PICK a, b \in Nat : a = Cardinality(Claims(x)') /\ b = Cardinality(Claims(x)) /\ a <= b
    BY <1>2, <2>1, FS_Subset, FS_CardinalityType
  <2>3. PICK n, m \in Nat : n = db[x].recognized /\ m = db'[x].recognized /\ n <= m
    BY DEF Kept, SalesInv, SalesTyped, RowsTyped, UnitRow
  <2>4. b <= n
    BY <2>2, <2>3 DEF SalesInv, Recognized
  <2> QED  BY <2>2, <2>3, <2>4
<1>3. ASSUME NEW s \in Sales, db'[s].status = "HANDED_OVER" PROVE db'[db'[s].unit].recognized > 0
  <2>1. db[s] \in SaleRow /\ (db[s].status = "ABSENT" <=> db[s].unit = None)
    BY DEF SalesInv, SalesTyped, RowsTyped, RowsLinked
  <2>2. /\ db[s].status = "HANDED_OVER" => db[s].unit \in Units /\ db[db[s].unit].recognized > 0
        /\ db[s].status = "HANDED_OVER" \/ (db[s].unit \in Units /\ db[db[s].unit].recognized > 0)
    BY <1>3, <2>1 DEF Kept, SaleRow, SalesInv, Recognized
  <2>3. PICK x \in Units : x = db[s].unit /\ db[x].recognized > 0
    BY <2>2
  <2>4. db'[s].unit = x
    BY <2>1, <2>3, SalesAssumption DEF Kept
  <2> QED  BY <2>3, <2>4, EntriesStay
<1> QED  BY <1>1, <1>2, <1>3 DEF Kept

\* No record claims an entry that it did not claim before.
LEMMA ClaimsKept ==
    ASSUME SalesInv, Kept, \A h \in Handovers : Claimed(h)' => Claimed(h)
    PROVE  Recognized'
<1>1. \A x \in Units : Claims(x)' \subseteq Claims(x)
  BY ClaimsStand DEF Claims
<1> QED  BY <1>1, ClaimsStand DEF Recognized

\* A record is completed by a request that found no open snag.
LEMMA CompletesCleanly ==
    ASSUME SalesInv, Kept, tidy' => tidy
    PROVE  CompletedCleanly
<1>1. SUFFICES ASSUME tidy', NEW h \in Handovers, db'[h].status = "COMPLETED", db[h].status # "COMPLETED"
               PROVE  OpenSnags(h) = {}
  BY DEF CompletedCleanly, In
<1>2. PICK c \in Calls : Claiming(call[c], h) /\ call[c].at = "write"
  BY <1>1 DEF Kept
<1>3. call[c].op = "complete" /\ call[c].row = h /\ call[c] # Idle
  BY <1>2 DEF Claiming, Idle
<1>4. Turn(call[c])
  BY <1>1, <1>3 DEF SalesInv, TurnsTaken
<1> QED  BY <1>2, <1>3, <1>4 DEF Turn, TurnOK, Recognizing, RecognitionInTurn

\* A commit of one request, or the first step of one.
LEMMA CommitKeeps ==
    ASSUME SalesInv, NEW c \in Calls, NEW q \in SalesCall, call' = [call EXCEPT ![c] = q],
           tidy' \in BOOLEAN, RowsTyped', RowsLinked', Kept, Recognized', RequestOK(q)',
           tidy' => tidy /\ (call[c] = Idle => Alone) /\ (Turn(call[c]) => Turn(q)')
    PROVE  StepSound
<1>1. call' \in [Calls -> SalesCall] /\ call'[c] = q /\ \A e \in Calls \ {c} : call'[e] = call[e]
  BY DEF SalesInv, SalesTyped
<1>2. SalesTyped'
  BY <1>1 DEF SalesTyped
<1>3. \A e \in Calls : RequestOK(call[e])'
  <2>1. TAKE e \in Calls
  <2>2. PICK z \in SalesCall : z = call'[e]
    BY <1>1
  <2>3. RequestOK(z)'
    <3>1. CASE e = c
      BY <1>1, <2>2, <3>1
    <3>2. CASE e # c
      BY <1>1, <2>2, <3>2, RequestStays DEF SalesInv
    <3> QED  BY <3>1, <3>2
  <2> QED  BY <2>2, <2>3
<1>4. ASSUME tidy' PROVE TurnsTaken'
  <2>1. TurnsTaken /\ (call[c] = Idle => Alone) /\ (Turn(call[c]) => Turn(q)')
    BY <1>4 DEF SalesInv
  <2>2. \A e \in Calls \ {c} : call'[e] = Idle
    BY <1>1, <2>1 DEF TurnsTaken, Alone
  <2>3. Turn(call[c])
    BY <2>1 DEF TurnsTaken, Alone
  <2>4. Turn(q)'
    BY <2>1, <2>3
  <2>5. \A d, e \in Calls : call'[d] # Idle /\ call'[e] # Idle => d = e
    BY <2>2
  <2>6. ASSUME NEW e \in Calls, call'[e] # Idle PROVE Turn(call[e])'
    <3>1. e = c /\ call'[e] = q
      BY <1>1, <2>2, <2>6
    <3> QED  BY <2>4, <3>1
  <2>7. ASSUME Alone' PROVE Turn(Idle)'
    <3>1. q = Idle
      BY <1>1, <2>7 DEF Alone
    <3> QED  BY <2>4, <3>1
  <2> QED  BY <2>5, <2>6, <2>7 DEF TurnsTaken
<1>5. CompletedCleanly
  BY CompletesCleanly
<1>6. SalesInv'
  BY <1>2, <1>3, <1>4 DEF SalesInv
<1> QED  BY <1>5, <1>6 DEF StepSound

\* One after which the request claims no record that it did not claim before.
LEMMA ClaimStepKeeps ==
    ASSUME SalesInv, NEW c \in Calls, NEW q \in SalesCall, call' = [call EXCEPT ![c] = q],
           tidy' \in BOOLEAN, RowsTyped', RowsLinked', Kept, RequestOK(q)',
           \A h \in Handovers : Claiming(q, h) => Claiming(call[c], h),
           tidy' => tidy /\ (call[c] = Idle => Alone) /\ (Turn(call[c]) => Turn(q)')
    PROVE  StepSound
<1>1. call'[c] = q /\ \A e \in Calls \ {c} : call'[e] = call[e]
  BY DEF SalesInv, SalesTyped
<1>2. \A h \in Handovers : Claimed(h)' => Claimed(h)
  <2>1. SUFFICES ASSUME NEW h \in Handovers, Claimed(h)' PROVE Claimed(h)
    OBVIOUS
  <2>2. CASE db'[h].status = "COMPLETED"
    BY <2>2 DEF Kept, Claimed
  <2>3. ASSUME NEW e \in Calls, Claiming(call[e], h)' PROVE Claiming(call[e], h)
    <3>1. CASE e = c
      BY <1>1, <2>3, <3>1 DEF Claiming
    <3>2. CASE e # c
      BY <1>1, <2>3, <3>2 DEF Claiming
    <3> QED  BY <3>1, <3>2
  <2> QED  BY <2>1, <2>2, <2>3 DEF Claimed
<1>3. Recognized'
  BY <1>2, ClaimsKept
<1> QED  BY <1>3, CommitKeeps

LEMMA StepKeeps ==
    ASSUME SalesInv, NEW c \in Calls, NEW q \in SalesCall, call' = [call EXCEPT ![c] = q],
           tidy' \in BOOLEAN, RowsTyped', RowsLinked', Kept, RequestOK(q)', q.op # "complete",
           tidy' => tidy /\ (call[c] = Idle => Alone) /\ (Turn(call[c]) => Turn(q)')
    PROVE  StepSound
<1>1. \A h \in Handovers : Claiming(q, h) => Claiming(call[c], h)
  BY DEF Claiming
<1> QED  BY <1>1, ClaimStepKeeps

\* The rows after a commit, field by field.
OnlyTheseChange(rows) ==
    /\ DOMAIN db' = EstateRows /\ db' = [z \in DOMAIN db' |-> db'[z]]
    /\ \A z \in EstateRows \ rows : db'[z] = db[z]

UnitAs(x, status) ==
    db'[x] = [status |-> status, recognized |-> db[x].recognized, resold |-> db[x].resold]
ReservationAs(r, status, sale) == db'[r] = [status |-> status, late |-> db[r].late, sale |-> sale]
SaleAs(s, cancelled, bill) ==
    db'[s] = [status |-> db[s].status, unit |-> db[s].unit, cancelled |-> cancelled, bill |-> bill]
BillAs(i, status, entries, ledger) ==
    db'[i] = [status |-> status, entries |-> entries, ledger |-> ledger, received |-> db[i].received]

LEMMA RecordsAside ==
    ASSUME NEW rows, rows \subseteq Units \cup Reservations \cup Sales \cup Bills, OnlyTheseChange(rows)
    PROVE  RecordsStay
  BY HandoverAssumption DEF OnlyTheseChange, EstateRows, RecordsStay

LEMMA TwoRows ==
    ASSUME NEW f, DOMAIN f = EstateRows, NEW g, NEW a \in EstateRows, NEW b \in EstateRows, a # b,
           NEW v, NEW w, g = [f EXCEPT ![a] = v, ![b] = w]
    PROVE  /\ DOMAIN g = EstateRows /\ g = [z \in DOMAIN g |-> g[z]]
           /\ g[a] = v /\ g[b] = w /\ \A z \in EstateRows \ {a, b} : g[z] = f[z]
  OBVIOUS

LEMMA ReservationMade ==
    ASSUME RowsTyped, NEW r \in Reservations, MakeReservation(r)
    PROVE  /\ OnlyTheseChange({r, UnitOf[r]})
           /\ ReservationAs(r, "ACTIVE", db[r].sale) /\ UnitAs(UnitOf[r], "RESERVED")
<1>1. PICK x \in Units : x = UnitOf[r] /\ x # r /\ x \in EstateRows /\ r \in EstateRows
  BY SalesAssumption DEF EstateRows
<1>2. PICK v, w : v = [db[r] EXCEPT !.status = "ACTIVE"] /\ w = [db[x] EXCEPT !.status = "RESERVED"]
  OBVIOUS
<1>3. /\ v = [status |-> "ACTIVE", late |-> db[r].late, sale |-> db[r].sale]
      /\ w = [status |-> "RESERVED", recognized |-> db[x].recognized, resold |-> db[x].resold]
  BY <1>1, <1>2 DEF RowsTyped, ReservationRow, UnitRow
<1>4. DOMAIN db = EstateRows
  BY DEF RowsTyped
<1>5. db' = [db EXCEPT ![r].status = "ACTIVE", ![x].status = "RESERVED"]
  BY <1>1 DEF MakeReservation
<1>6. db' = [db EXCEPT ![r] = v, ![x] = w]
  BY <1>1, <1>2, <1>4, <1>5
<1> QED  BY <1>1, <1>3, <1>4, <1>6, TwoRows DEF OnlyTheseChange, ReservationAs, UnitAs

LEMMA UnitFreed ==
    ASSUME RowsTyped, NEW r \in Reservations, NEW status, FreeUnit(r, status)
    PROVE  /\ OnlyTheseChange({r, UnitOf[r]})
           /\ ReservationAs(r, status, db[r].sale)
           /\ UnitAs(UnitOf[r], IF db[UnitOf[r]].status = "RESERVED" THEN "AVAILABLE"
                                ELSE db[UnitOf[r]].status)
<1>1. PICK x \in Units : x = UnitOf[r] /\ x # r /\ x \in EstateRows /\ r \in EstateRows
  BY SalesAssumption DEF EstateRows
<1>2. PICK after : after = IF db[x].status = "RESERVED" THEN "AVAILABLE" ELSE db[x].status
  OBVIOUS
<1>3. PICK v, w : v = [db[r] EXCEPT !.status = status] /\ w = [db[x] EXCEPT !.status = after]
  OBVIOUS
<1>4. /\ v = [status |-> status, late |-> db[r].late, sale |-> db[r].sale]
      /\ w = [status |-> after, recognized |-> db[x].recognized, resold |-> db[x].resold]
  BY <1>1, <1>3 DEF RowsTyped, ReservationRow, UnitRow
<1>5. DOMAIN db = EstateRows
  BY DEF RowsTyped
<1>6. db' = [db EXCEPT ![r].status = status,
                       ![x].status = IF @ = "RESERVED" THEN "AVAILABLE" ELSE @]
  BY <1>1 DEF FreeUnit
<1>7. db' = [db EXCEPT ![r] = v, ![x] = w]
  BY <1>1, <1>2, <1>3, <1>5, <1>6
<1> QED  BY <1>1, <1>2, <1>4, <1>5, <1>7, TwoRows DEF OnlyTheseChange, ReservationAs, UnitAs

LEMMA SaleMade ==
    ASSUME RowsTyped, NEW s \in Sales, NEW v, db' = [db EXCEPT ![s] = v]
    PROVE  OnlyTheseChange({s}) /\ db'[s] = v
  BY DEF RowsTyped, EstateRows, OnlyTheseChange

LEMMA ReservationConverted ==
    ASSUME RowsTyped, NEW r \in Reservations, NEW sale,
           db' = [db EXCEPT ![r].status = "CONVERTED", ![r].sale = sale]
    PROVE  OnlyTheseChange({r}) /\ ReservationAs(r, "CONVERTED", sale)
  BY DEF RowsTyped, EstateRows, OnlyTheseChange, ReservationAs, ReservationRow

LEMMA UnitMarked ==
    ASSUME RowsTyped, NEW x \in Units, NEW status, Becomes(x, status)
    PROVE  OnlyTheseChange({x}) /\ UnitAs(x, status)
  BY DEF RowsTyped, EstateRows, Becomes, OnlyTheseChange, UnitAs, UnitRow

LEMMA UnitSold ==
    ASSUME RowsTyped, NEW x \in Units, SellUnit(x)
    PROVE  /\ OnlyTheseChange({x})
           /\ db'[x] = [status |-> "ALLOCATED", recognized |-> db[x].recognized,
                        resold |-> db[x].resold + IF db[x].status = "HANDED_OVER" THEN 1 ELSE 0]
<1>1. x \in EstateRows /\ DOMAIN db = EstateRows /\ db[x] \in UnitRow
  BY DEF RowsTyped, EstateRows
<1>2. PICK n \in Nat : n = db[x].resold
  BY <1>1 DEF UnitRow
<1>3. PICK m \in Nat : m = n + IF db[x].status = "HANDED_OVER" THEN 1 ELSE 0
  BY <1>2
<1>4. m = IF db[x].status \in {"HANDED_OVER"} THEN n + 1 ELSE n
  BY <1>2, <1>3
<1>5. db' = [db EXCEPT ![x].status = "ALLOCATED", ![x].resold = m]
  BY <1>1, <1>2, <1>4 DEF SellUnit, In, UnitRow
<1>6. db'[x] = [status |-> "ALLOCATED", recognized |-> db[x].recognized, resold |-> m]
  BY <1>1, <1>5 DEF UnitRow
<1>7. OnlyTheseChange({x})
  BY <1>1, <1>5 DEF OnlyTheseChange
<1> QED  BY <1>2, <1>3, <1>6, <1>7

LEMMA SaleBillMade ==
    ASSUME RowsTyped, NEW s \in Sales, NEW i \in Bills,
           db' = [db EXCEPT ![i].status = "DRAFT", ![s].bill = i]
    PROVE  /\ OnlyTheseChange({s, i})
           /\ SaleAs(s, db[s].cancelled, i) /\ BillAs(i, "DRAFT", db[i].entries, db[i].ledger)
<1>1. s # i /\ s \in EstateRows /\ i \in EstateRows
  BY SalesAssumption DEF EstateRows
<1>2. PICK v, w : v = [db[i] EXCEPT !.status = "DRAFT"] /\ w = [db[s] EXCEPT !.bill = i]
  OBVIOUS
<1>3. /\ v = [status |-> "DRAFT", entries |-> db[i].entries, ledger |-> db[i].ledger,
              received |-> db[i].received]
      /\ w = [status |-> db[s].status, unit |-> db[s].unit, cancelled |-> db[s].cancelled, bill |-> i]
  BY <1>2 DEF RowsTyped, SaleRow, BillRow
<1>4. DOMAIN db = EstateRows
  BY DEF RowsTyped
<1>5. db' = [db EXCEPT ![i] = v, ![s] = w]
  BY <1>1, <1>2, <1>4
<1> QED  BY <1>1, <1>3, <1>4, <1>5, TwoRows DEF OnlyTheseChange, SaleAs, BillAs

LEMMA BillWritten ==
    ASSUME RowsTyped, NEW i \in Bills
    PROVE  /\ PostEntry(i) => /\ OnlyTheseChange({i})
                              /\ BillAs(i, db[i].status, db[i].entries + 1, db[i].ledger)
           /\ Becomes(i, "POSTED") => /\ OnlyTheseChange({i})
                                      /\ BillAs(i, "POSTED", db[i].entries, db[i].ledger)
           /\ WriteLedger(i) => /\ OnlyTheseChange({i})
                                /\ BillAs(i, db[i].status, db[i].entries, db[i].ledger + 1)
  BY DEF RowsTyped, EstateRows, PostEntry, Becomes, WriteLedger, OnlyTheseChange, BillAs, BillRow

LEMMA UnitAllocated ==
    ASSUME RowsTyped, NEW s \in Sales, NEW x \in Units, NEW v,
           db' = [db EXCEPT ![s] = v, ![x].status = "RESERVED"]
    PROVE  OnlyTheseChange({s, x}) /\ db'[s] = v /\ UnitAs(x, "RESERVED")
<1>1. s # x /\ s \in EstateRows /\ x \in EstateRows
  BY SalesAssumption DEF EstateRows
<1>2. PICK w : w = [db[x] EXCEPT !.status = "RESERVED"]
  OBVIOUS
<1>3. w = [status |-> "RESERVED", recognized |-> db[x].recognized, resold |-> db[x].resold]
  BY <1>2 DEF RowsTyped, UnitRow
<1>4. DOMAIN db = EstateRows
  BY DEF RowsTyped
<1>5. db' = [db EXCEPT ![s] = v, ![x] = w]
  BY <1>1, <1>2, <1>4
<1> QED  BY <1>1, <1>3, <1>4, <1>5, TwoRows DEF OnlyTheseChange, UnitAs

LEMMA SaleCancelled ==
    ASSUME RowsTyped, NEW s \in Sales, NEW x \in Units,
           db' = [db EXCEPT ![s].cancelled = TRUE, ![x].status = "AVAILABLE"]
    PROVE  OnlyTheseChange({s, x}) /\ SaleAs(s, TRUE, db[s].bill) /\ UnitAs(x, "AVAILABLE")
<1>1. s # x /\ s \in EstateRows /\ x \in EstateRows
  BY SalesAssumption DEF EstateRows
<1>2. PICK v, w : v = [db[s] EXCEPT !.cancelled = TRUE] /\ w = [db[x] EXCEPT !.status = "AVAILABLE"]
  OBVIOUS
<1>3. /\ v = [status |-> db[s].status, unit |-> db[s].unit, cancelled |-> TRUE, bill |-> db[s].bill]
      /\ w = [status |-> "AVAILABLE", recognized |-> db[x].recognized, resold |-> db[x].resold]
  BY <1>2 DEF RowsTyped, SaleRow, UnitRow
<1>4. DOMAIN db = EstateRows
  BY DEF RowsTyped
<1>5. db' = [db EXCEPT ![s] = v, ![x] = w]
  BY <1>1, <1>2, <1>4
<1> QED  BY <1>1, <1>3, <1>4, <1>5, TwoRows DEF OnlyTheseChange, SaleAs, UnitAs

LEMMA SaleTransferred ==
    ASSUME RowsTyped, NEW s \in Sales, NEW new \in Sales, new # s, NEW v,
           db' = [db EXCEPT ![s].cancelled = TRUE, ![new] = v]
    PROVE  OnlyTheseChange({s, new}) /\ SaleAs(s, TRUE, db[s].bill) /\ db'[new] = v
<1>1. s \in EstateRows /\ new \in EstateRows
  BY DEF EstateRows
<1>2. PICK w : w = [db[s] EXCEPT !.cancelled = TRUE]
  OBVIOUS
<1>3. w = [status |-> db[s].status, unit |-> db[s].unit, cancelled |-> TRUE, bill |-> db[s].bill]
  BY <1>2 DEF RowsTyped, SaleRow
<1>4. DOMAIN db = EstateRows
  BY DEF RowsTyped
<1>5. db' = [db EXCEPT ![s] = w, ![new] = v]
  BY <1>1, <1>2, <1>4
<1> QED  BY <1>1, <1>3, <1>4, <1>5, TwoRows DEF OnlyTheseChange, SaleAs

LEMMA SaleSwapped ==
    ASSUME RowsTyped, NEW s \in Sales, NEW new \in Sales, new # s, NEW v, NEW x \in Units,
           db' = [db EXCEPT ![s].cancelled = TRUE, ![x].status = "AVAILABLE", ![new] = v]
    PROVE  /\ OnlyTheseChange({s, new, x})
           /\ SaleAs(s, TRUE, db[s].bill) /\ db'[new] = v /\ UnitAs(x, "AVAILABLE")
<1>1. s # x /\ new # x /\ s \in EstateRows /\ x \in EstateRows /\ new \in EstateRows
  BY SalesAssumption DEF EstateRows
<1>2. PICK u, w : u = [db[s] EXCEPT !.cancelled = TRUE] /\ w = [db[x] EXCEPT !.status = "AVAILABLE"]
  OBVIOUS
<1>3. /\ u = [status |-> db[s].status, unit |-> db[s].unit, cancelled |-> TRUE, bill |-> db[s].bill]
      /\ w = [status |-> "AVAILABLE", recognized |-> db[x].recognized, resold |-> db[x].resold]
  BY <1>2 DEF RowsTyped, SaleRow, UnitRow
<1>4. DOMAIN db = EstateRows
  BY DEF RowsTyped
<1>5. PICK f : f = [db EXCEPT ![s] = u, ![x] = w]
  OBVIOUS
<1>6. /\ DOMAIN f = EstateRows /\ f[s] = u /\ f[x] = w
      /\ \A z \in EstateRows \ {s, x} : f[z] = db[z]
  BY <1>1, <1>4, <1>5, TwoRows
<1>7. db' = [f EXCEPT ![new] = v]
  BY <1>1, <1>2, <1>4, <1>5
<1>8. /\ DOMAIN db' = EstateRows /\ db' = [z \in DOMAIN db' |-> db'[z]] /\ db'[new] = v
      /\ \A z \in EstateRows \ {new} : db'[z] = f[z]
  BY <1>1, <1>6, <1>7
<1> QED  BY <1>1, <1>3, <1>6, <1>8 DEF OnlyTheseChange, SaleAs, UnitAs

-----------------------------------------------------------------------------
(* Steps that read *)

LEMMA TurnRead ==
    ASSUME UNCHANGED db, NEW q \in SalesCall
    PROVE  Turn(q)' <=> Turn(q)
<1>1. \A x \in Units : /\ OneHolds(x)' <=> OneHolds(x)
                       /\ NoneHolds(x)' <=> NoneHolds(x)
  BY DEF OneHolds, NoneHolds, SaleHolds, ReservationHolds, LiveSale
<1>2. UnitsHeldOnce(q)' <=> UnitsHeldOnce(q)
  BY <1>1 DEF UnitsHeldOnce, Splitting, Swapping, LiveSale
<1>3. SalesBilledOnce(q)' <=> SalesBilledOnce(q)
  BY DEF SalesBilledOnce, Billing
<1>4. TurnOK(q)' <=> TurnOK(q)
  <2>1. ConversionInTurn(q)' <=> ConversionInTurn(q)
    BY DEF ConversionInTurn, SaleHolds, ReservationHolds, LiveSale
  <2>2. RecognitionInTurn(q)' <=> RecognitionInTurn(q)
    BY DEF RecognitionInTurn, UnitIn, OpenSnags, In
  <2> QED  BY <2>1, <2>2 DEF TurnOK, Recognizing, SaleHolds, LiveSale
<1>5. RevenueOnce(q)' <=> RevenueOnce(q)
  BY DEF RevenueOnce, Marking, Telling, Joining, UnitIn
<1> QED  BY <1>2, <1>3, <1>4, <1>5 DEF Turn

LEMMA ReadKeeps ==
    ASSUME SalesInv, UNCHANGED db, NEW c \in Calls, NEW q \in SalesCall, RequestOK(q),
           call' = [call EXCEPT ![c] = q], tidy' \in BOOLEAN,
           \A h \in Handovers : Claiming(q, h) => Claiming(call[c], h),
           tidy' => tidy /\ (call[c] = Idle => Alone) /\ (Turn(call[c]) => Turn(q))
    PROVE  StepSound
<1>1. RowsTyped'
  BY DEF SalesInv, SalesTyped, RowsTyped
<1>2. RowsLinked'
  BY DEF SalesInv, RowsLinked
<1>3. Kept
  <2>1. \A x \in Units : db'[x].recognized \in Nat /\ db[x].recognized <= db'[x].recognized
    <3>1. TAKE x \in Units
    <3>2. PICK n \in Nat : n = db[x].recognized
      BY DEF SalesInv, SalesTyped, RowsTyped, UnitRow
    <3> QED  BY <3>2
  <2> QED  BY <2>1 DEF Kept
<1>4. RequestOK(q)'
  BY <1>3, RequestStays
<1>5. Turn(q)' <=> Turn(q)
  BY TurnRead
<1> QED  BY <1>1, <1>2, <1>3, <1>4, <1>5, ClaimStepKeeps

LEMMA EnterKeeps ==
    ASSUME SalesInv, NEW c \in Calls, NEW op, NEW at, NEW x, NEW arg, NEW seen,
           Enter(c, op, at, x, arg, seen), NEW q \in SalesCall,
           q = [op |-> op, at |-> at, row |-> x, arg |-> arg, seen |-> seen],
           RequestOK(q), Turn(Idle) => TurnOK(q),
           at \in {"sale", "swap", "insert", "snags"} \/ (at = "write" /\ op # "complete")
               \/ (at = "unit" /\ op = "recognizeUnit")
    PROVE  StepSound
<1>1. /\ call[c] = Idle /\ call' = [call EXCEPT ![c] = q] /\ UNCHANGED db
      /\ tidy' \in BOOLEAN /\ (tidy' => tidy /\ Alone)
  BY DEF Enter, SalesInv, SalesTyped
<1>2. UnitsHeldOnce(Idle) => UnitsHeldOnce(q)
  BY DEF UnitsHeldOnce, Splitting, Swapping, Idle
<1>3. SalesBilledOnce(Idle) => SalesBilledOnce(q)
  BY DEF SalesBilledOnce, Billing, Idle, Posts
<1>4. RevenueOnce(Idle) => RevenueOnce(q)
  BY DEF RevenueOnce, Marking, Telling, Joining, Recognizing, Idle
<1>5. \A h \in Handovers : ~Claiming(q, h)
  BY DEF Claiming
<1> QED  BY <1>1, <1>2, <1>3, <1>4, <1>5, ReadKeeps DEF Turn

\* A request that is through, is refused or is cut off.
LEMMA RequestGone ==
    ASSUME SalesInv, NEW c \in Calls, CutOff(c)
    PROVE  StepSound
<1>1. Idle \in SalesCall /\ RequestOK(Idle) /\ \A h \in Handovers : ~Claiming(Idle, h)
  BY DEF Idle, SalesCall, RequestOK, Claiming
<1> QED  BY <1>1, ReadKeeps DEF CutOff

-----------------------------------------------------------------------------
(* Reservations *)

\* A commit that writes one reservation, to another status, and its unit.
LEMMA ReservationWritten ==
    ASSUME SalesInv, NEW r \in Reservations, NEW x \in Units, x = UnitOf[r],
           NEW status \in {"ACTIVE", "CONVERTED", "EXPIRED", "CANCELLED"}, NEW unitStatus \in UnitStatus,
           OnlyTheseChange({r, x}), ReservationAs(r, status, db[r].sale), UnitAs(x, unitStatus),
           status = "CONVERTED" => db[r].sale # None
    PROVE  RowsTyped' /\ RowsLinked' /\ Kept
<1>1. /\ \A s \in Sales : db'[s] = db[s]
      /\ \A i \in Bills : db'[i] = db[i]
      /\ \A t \in Reservations \ {r} : db'[t] = db[t]
      /\ \A y \in Units \ {x} : db'[y] = db[y]
  BY SalesAssumption DEF OnlyTheseChange, EstateRows
<1>R. RecordsStay
  BY RecordsAside
<1>2. RowsTyped'
  <2>1. db'[r] \in ReservationRow /\ db'[x] \in UnitRow
    BY DEF SalesInv, SalesTyped, RowsTyped, ReservationAs, UnitAs, ReservationRow, UnitRow
  <2> QED  BY <1>1, <1>R, <2>1, RecordsKept DEF SalesInv, SalesTyped, RowsTyped, OnlyTheseChange
<1>3. RowsLinked'
  <2>1. \A s \in Sales : db[s].bill \in Bills \cup {None}
    BY DEF SalesInv, SalesTyped, RowsTyped, SaleRow
  <2>2. \A t \in Reservations : db[t].sale \in Sales \cup {None}
    BY DEF SalesInv, SalesTyped, RowsTyped, ReservationRow
  <2>3. db'[r].sale = db[r].sale /\ db'[r].status = status
    BY DEF ReservationAs
  <2>4. \A h \in Handovers : db'[h].status # "ABSENT" => db'[h].unit \in Units
    BY <1>R, RecordsKept
  <2> QED  BY <1>1, <2>1, <2>2, <2>3, <2>4 DEF SalesInv, RowsLinked
<1>4. Kept
  <2>1. \A y \in Units : db'[y].recognized = db[y].recognized
    BY <1>1 DEF UnitAs
  <2>2. \A s \in Sales : SaleStays(s)
    BY <1>1, SaleUntouched
  <2> QED  BY <1>R, <2>1, <2>2, StaysKept
<1> QED  BY <1>2, <1>3, <1>4

\* A request that is through.
LEMMA CommitEnds ==
    ASSUME SalesInv, NEW c \in Calls, Leave(c), call[c] # Idle, RowsTyped', RowsLinked', Kept,
           tidy /\ Turn(call[c]) => (UnitsHeldOnce(Idle) /\ SalesBilledOnce(Idle) /\ RevenueOnce(Idle))'
    PROVE  StepSound
<1>1. Idle \in SalesCall /\ RequestOK(Idle)' /\ TurnOK(Idle)' /\ Idle.op # "complete"
  BY DEF Idle, SalesCall, RequestOK, TurnOK, Recognizing
<1>2. /\ call' = [call EXCEPT ![c] = Idle] /\ tidy' \in BOOLEAN /\ tidy' = tidy
  BY DEF Leave, SalesInv, SalesTyped
<1>3. tidy /\ Turn(call[c]) => Turn(Idle)'
  BY <1>1 DEF Turn
<1> QED  BY <1>1, <1>2, <1>3, StepKeeps

\* What the bills of the sales are is left alone.
LEMMA BillsStay ==
    ASSUME SalesInv, NEW p, NEW q, SalesBilledOnce(p), \A r \in Reservations : Billing(p, r) => Billing(q, r),
           \A s \in Sales : db'[s].bill = db[s].bill,
           \A i \in Bills : db'[i].ledger = db[i].ledger,
           \A r \in Reservations : /\ db'[r].sale = db[r].sale
                                   /\ db'[r].status = "CONVERTED" <=> db[r].status = "CONVERTED"
    PROVE  SalesBilledOnce(q)'
<1>1. /\ \A s \in Sales : db[s].bill \in Bills \cup {None}
      /\ \A r \in Reservations : /\ db[r].sale \in Sales \cup {None}
                                 /\ db[r].status = "CONVERTED" => db[r].sale \in Sales
  BY DEF SalesInv, SalesTyped, RowsTyped, RowsLinked, SaleRow, ReservationRow
<1>2. \A r \in Reservations :
          db[r].status = "CONVERTED" /\ ~Billing(q, r) =>
              db[db[r].sale].bill # None /\ db[db[db[r].sale].bill].ledger = 1
  BY DEF SalesBilledOnce
<1>3. \A r \in Reservations :
          db'[r].status = "CONVERTED" /\ ~Billing(q, r) =>
              db'[db'[r].sale].bill # None /\ db'[db'[db'[r].sale].bill].ledger = 1
  <2>1. SUFFICES ASSUME NEW r \in Reservations, db'[r].status = "CONVERTED", ~Billing(q, r)
                 PROVE  db'[db'[r].sale].bill # None /\ db'[db'[db'[r].sale].bill].ledger = 1
    OBVIOUS
  <2>2. PICK s \in Sales : s = db[r].sale /\ s = db'[r].sale
    BY <1>1, <2>1
  <2>3. PICK i \in Bills : i = db[s].bill /\ i = db'[s].bill /\ db[i].ledger = 1 /\ i # None
    BY <1>1, <1>2, <2>1, <2>2
  <2> QED  BY <2>2, <2>3
<1>4. /\ \A r \in Reservations : db'[r].sale # None => db'[r].status = "CONVERTED"
      /\ \A r, t \in Reservations : db'[r].sale = db'[t].sale /\ db'[r].sale # None => r = t
  BY DEF SalesBilledOnce
<1>5. \A s, t \in Sales : db'[s].bill = db'[t].bill /\ db'[s].bill # None => s = t
  BY DEF SalesBilledOnce
<1>6. \A s \in Sales : db'[s].bill # None => \E r \in Reservations : db'[r].sale = s
  BY DEF SalesBilledOnce
<1> QED  BY <1>3, <1>4, <1>5, <1>6 DEF SalesBilledOnce, Billing

LEMMA HoldersStay ==
    ASSUME NEW y, \A s \in Sales : SaleHolds(s, y)' <=> SaleHolds(s, y),
           \A r \in Reservations : ReservationHolds(r, y)' <=> ReservationHolds(r, y)
    PROVE  (OneHolds(y)' <=> OneHolds(y)) /\ (NoneHolds(y)' <=> NoneHolds(y))
<1>1. OneHolds(y)' <=> OneHolds(y)
  BY DEF OneHolds
<1>2. NoneHolds(y)' <=> NoneHolds(y)
  BY DEF NoneHolds
<1> QED  BY <1>1, <1>2

\* What is recognized is as it was, and what is made of a unit that was handed over
\* joins its sales.
SameRevenue(x) ==
    /\ db'[x].recognized = db[x].recognized /\ db'[x].resold = db[x].resold
    /\ db'[x].status = "HANDED_OVER" <=> db[x].status = "HANDED_OVER"

LEMMA RevenueStays ==
    ASSUME NEW p, NEW q, RevenueOnce(p), ~Recognizing(p), ~Recognizing(q), \A x \in Units : SameRevenue(x),
           \A s \in Sales : \/ /\ db'[s].unit = db[s].unit /\ db'[s].status = db[s].status
                               /\ Joining(p, s) => Joining(q, s)
                            \/ Joining(q, s)
                            \/ db'[s].unit \in Units => db[db'[s].unit].status # "HANDED_OVER"
    PROVE  RevenueOnce(q)'
<1>1. \A x \in Units :
         db'[x].recognized =
             db'[x].resold + IF db'[x].status = "HANDED_OVER" \/ Marking(q, x)' THEN 1 ELSE 0
  BY DEF SameRevenue, RevenueOnce, Marking
<1>2. \A x \in Units, s \in Sales :
         db'[x].status = "HANDED_OVER" /\ db'[s].unit = x =>
             db'[s].status = "HANDED_OVER" \/ Telling(q, x)' \/ Joining(q, s)
  BY DEF SameRevenue, RevenueOnce, Telling
<1> QED  BY <1>1, <1>2 DEF RevenueOnce, Joining

LEMMA ReserveUnitKeeps ==
    ASSUME SalesInv, NEW c \in Calls, NEW r \in Reservations, ReserveUnit(c, r)
    PROVE  StepSound
<1>1. CASE MayReserve(r) /\ Enter(c, "reserve", "write", r, None, None)
  <2>1. PICK q : q = [op |-> "reserve", at |-> "write", row |-> r, arg |-> None, seen |-> None]
    OBVIOUS
  <2>2. q \in SalesCall /\ RequestOK(q)
    BY <2>1 DEF SalesCall, RequestOK, ReservationRequest
  <2>3. TurnOK(q)
    BY <1>1, <2>1 DEF TurnOK, Recognizing, MayReserve, In
  <2> QED  BY <1>1, <2>1, <2>2, <2>3, EnterKeeps
<1>2. CASE At(c, "reserve", "write", r, None) /\ MakeReservation(r) /\ Leave(c)
  <2>1. PICK p : p = call[c]
    OBVIOUS
  <2>2. p.op = "reserve" /\ p.row = r /\ p.at = "write" /\ p # Idle
    BY <1>2, <2>1 DEF At, Idle
  <2>3. PICK x \in Units : x = UnitOf[r]
    BY SalesAssumption
  <2>4. OnlyTheseChange({r, x}) /\ ReservationAs(r, "ACTIVE", db[r].sale) /\ UnitAs(x, "RESERVED")
    BY <1>2, <2>3, ReservationMade DEF SalesInv, SalesTyped
  <2>5. RowsTyped' /\ RowsLinked' /\ Kept
    BY <2>3, <2>4, ReservationWritten DEF UnitStatus
  <2>6. ASSUME tidy, Turn(p) PROVE (UnitsHeldOnce(Idle) /\ SalesBilledOnce(Idle) /\ RevenueOnce(Idle))'
    <3>1. db[r].status = "ABSENT" /\ db[x].status = "AVAILABLE"
      BY <2>2, <2>3, <2>6 DEF Turn, TurnOK
    <3>2. UnitsHeldOnce(Idle) /\ SalesBilledOnce(Idle)
      BY <2>2, <2>6 DEF Turn, UnitsHeldOnce, SalesBilledOnce, Splitting, Swapping, Billing
    <3>3. /\ \A s \in Sales : db'[s] = db[s]
          /\ \A i \in Bills : db'[i] = db[i]
          /\ \A t \in Reservations \ {r} : db'[t] = db[t]
          /\ \A y \in Units \ {x} : db'[y] = db[y]
      BY <2>4, SalesAssumption DEF OnlyTheseChange, EstateRows
    <3>4. NoneHolds(x)
      BY <3>1, <3>2 DEF UnitsHeldOnce, Swapping, Idle
    <3>5. /\ db'[r].status = "ACTIVE" /\ db'[r].sale = db[r].sale
          /\ db'[x].status = "RESERVED" /\ db'[x].recognized = db[x].recognized
          /\ db'[x].resold = db[x].resold
      BY <2>4 DEF ReservationAs, UnitAs
    <3>6. \A s \in Sales, y \in Units : SaleHolds(s, y)' <=> SaleHolds(s, y)
      BY <3>3 DEF SaleHolds, LiveSale
    <3>7. /\ \A t \in Reservations \ {r}, y \in Units : ReservationHolds(t, y)' <=> ReservationHolds(t, y)
          /\ \A y \in Units : ~ReservationHolds(r, y)
          /\ \A y \in Units : ReservationHolds(r, y)' <=> y = x
      BY <2>3, <3>1, <3>3, <3>5 DEF ReservationHolds
    <3>8. \A y \in Units \ {x} : (OneHolds(y)' <=> OneHolds(y)) /\ (NoneHolds(y)' <=> NoneHolds(y))
      <4>1. TAKE y \in Units \ {x}
      <4>2. \A t \in Reservations : ReservationHolds(t, y)' <=> ReservationHolds(t, y)
        BY <3>7
      <4> QED  BY <3>6, <4>2, HoldersStay
    <3>9. OneHolds(x)' /\ ~NoneHolds(x)'
      BY <3>4, <3>6, <3>7 DEF OneHolds, NoneHolds
    <3>10. UnitsHeldOnce(Idle)'
      <4>1. \A y \in Units : /\ OneHolds(y)'
                             /\ db'[y].status = "AVAILABLE" => NoneHolds(y)'
                             /\ NoneHolds(y)' => db'[y].status \in {"AVAILABLE", "HANDED_OVER"}
        BY <3>2, <3>3, <3>4, <3>5, <3>8, <3>9 DEF UnitsHeldOnce, Splitting, Swapping, Idle
      <4>2. \A s \in Sales : LiveSale(s)' => db'[s].status \in {"RESERVED", "ALLOCATED", "HANDED_OVER"}
        BY <3>2, <3>3 DEF UnitsHeldOnce, LiveSale
      <4>3. \A t \in Reservations : db'[t].status = "ACTIVE" => db'[UnitOf[t]].status \in {"RESERVED", "HANDED_OVER"}
        BY <2>3, <3>2, <3>3, <3>5, SalesAssumption DEF UnitsHeldOnce
      <4> QED  BY <4>1, <4>2, <4>3 DEF UnitsHeldOnce, Splitting, Swapping, Idle
    <3>11. SalesBilledOnce(Idle)'
      <4>1. \A t \in Reservations : /\ db'[t].sale = db[t].sale
                                    /\ db'[t].status = "CONVERTED" <=> db[t].status = "CONVERTED"
        BY <3>1, <3>3, <3>5
      <4> QED  BY <3>2, <3>3, <4>1, BillsStay
    <3>12. RevenueOnce(Idle)'
      <4>1. RevenueOnce(p) /\ ~Recognizing(p) /\ ~Recognizing(Idle)
        BY <2>2, <2>6 DEF Turn, Recognizing, Idle
      <4>2. \A y \in Units : SameRevenue(y)
        BY <3>1, <3>3, <3>5 DEF SameRevenue
      <4>3. \A s \in Sales : db'[s].unit = db[s].unit /\ db'[s].status = db[s].status /\ ~Joining(p, s)
        BY <2>2, <3>3 DEF Joining
      <4> QED  BY <4>1, <4>2, <4>3, RevenueStays
    <3> QED  BY <3>10, <3>11, <3>12
  <2> QED  BY <1>2, <2>1, <2>2, <2>5, <2>6, CommitEnds
<1> QED  BY <1>1, <1>2 DEF ReserveUnit, Handler

\* What expireStaleReservations and cancelReservation write.
LEMMA FreeUnitKeeps ==
    ASSUME SalesInv, NEW c \in Calls, NEW r \in Reservations, NEW status \in {"EXPIRED", "CANCELLED"},
           NEW op \in {"expire", "cancelReservation"}, At(c, op, "write", r, None), FreeUnit(r, status), Leave(c)
    PROVE  StepSound
<1>1. PICK p : p = call[c]
  OBVIOUS
<1>2. p.op = op /\ p.row = r /\ p.at = "write" /\ p # Idle
  BY <1>1 DEF At, Idle
<1>3. PICK x \in Units : x = UnitOf[r]
  BY SalesAssumption
<1>4. PICK after : after = IF db[x].status = "RESERVED" THEN "AVAILABLE" ELSE db[x].status
  OBVIOUS
<1>5. after \in UnitStatus
  BY <1>4 DEF SalesInv, SalesTyped, RowsTyped, UnitRow, UnitStatus
<1>6. OnlyTheseChange({r, x}) /\ ReservationAs(r, status, db[r].sale) /\ UnitAs(x, after)
  BY <1>3, <1>4, UnitFreed DEF SalesInv, SalesTyped
<1>7. RowsTyped' /\ RowsLinked' /\ Kept
  BY <1>3, <1>5, <1>6, ReservationWritten
<1>8. ASSUME tidy, Turn(p) PROVE (UnitsHeldOnce(Idle) /\ SalesBilledOnce(Idle) /\ RevenueOnce(Idle))'
  <2>1. db[r].status = "ACTIVE"
    BY <1>2, <1>8 DEF Turn, TurnOK
  <2>2. UnitsHeldOnce(Idle) /\ SalesBilledOnce(Idle)
    BY <1>2, <1>8 DEF Turn, UnitsHeldOnce, SalesBilledOnce, Splitting, Swapping, Billing
  <2>3. /\ \A s \in Sales : db'[s] = db[s]
        /\ \A i \in Bills : db'[i] = db[i]
        /\ \A t \in Reservations \ {r} : db'[t] = db[t]
        /\ \A y \in Units \ {x} : db'[y] = db[y]
    BY <1>6, SalesAssumption DEF OnlyTheseChange, EstateRows
  <2>4. ReservationHolds(r, x) /\ OneHolds(x) /\ db[x].status \in {"RESERVED", "HANDED_OVER"}
    BY <1>3, <2>1, <2>2 DEF UnitsHeldOnce, ReservationHolds, Splitting, Idle
  <2>5. /\ db'[r].status = status /\ db'[r].sale = db[r].sale
        /\ db'[x].status = after /\ db'[x].recognized = db[x].recognized /\ db'[x].resold = db[x].resold
        /\ after \in {"AVAILABLE", "HANDED_OVER"} /\ (after = "HANDED_OVER" <=> db[x].status = "HANDED_OVER")
    BY <1>4, <1>6, <2>4 DEF ReservationAs, UnitAs
  <2>6. ~NoneHolds(x)
    BY <2>4 DEF NoneHolds
  <2>7. \A s \in Sales, y \in Units : SaleHolds(s, y)' <=> SaleHolds(s, y)
    BY <2>3 DEF SaleHolds, LiveSale
  <2>8. /\ \A t \in Reservations \ {r}, y \in Units : ReservationHolds(t, y)' <=> ReservationHolds(t, y)
        /\ \A y \in Units : ReservationHolds(r, y) <=> y = x
        /\ \A y \in Units : ~ReservationHolds(r, y)'
    BY <1>3, <2>1, <2>3, <2>5 DEF ReservationHolds
  <2>9. \A y \in Units \ {x} : (OneHolds(y)' <=> OneHolds(y)) /\ (NoneHolds(y)' <=> NoneHolds(y))
    <3>1. TAKE y \in Units \ {x}
    <3>2. \A t \in Reservations : ReservationHolds(t, y)' <=> ReservationHolds(t, y)
      BY <2>8
    <3> QED  BY <2>7, <3>2, HoldersStay
  <2>10. OneHolds(x)' /\ NoneHolds(x)'
    BY <2>4, <2>7, <2>8 DEF OneHolds, NoneHolds
  <2>11. UnitsHeldOnce(Idle)'
    <3>1. \A y \in Units : /\ OneHolds(y)'
                           /\ db'[y].status = "AVAILABLE" => NoneHolds(y)'
                           /\ NoneHolds(y)' => db'[y].status \in {"AVAILABLE", "HANDED_OVER"}
      BY <2>2, <2>3, <2>5, <2>6, <2>9, <2>10 DEF UnitsHeldOnce, Splitting, Swapping, Idle
    <3>2. \A s \in Sales : LiveSale(s)' => db'[s].status \in {"RESERVED", "ALLOCATED", "HANDED_OVER"}
      BY <2>2, <2>3 DEF UnitsHeldOnce, LiveSale
    <3>3. \A t \in Reservations : db'[t].status = "ACTIVE" => db'[UnitOf[t]].status \in {"RESERVED", "HANDED_OVER"}
      <4>1. SUFFICES ASSUME NEW t \in Reservations, db'[t].status = "ACTIVE"
                     PROVE  db'[UnitOf[t]].status \in {"RESERVED", "HANDED_OVER"}
        OBVIOUS
      <4>2. t # r /\ db[t].status = "ACTIVE"
        BY <2>3, <2>5, <4>1
      <4>3. UnitOf[t] # x
        BY <2>4, <4>2 DEF OneHolds, ReservationHolds
      <4> QED  BY <2>2, <2>3, <4>2, <4>3, SalesAssumption DEF UnitsHeldOnce
    <3> QED  BY <3>1, <3>2, <3>3 DEF UnitsHeldOnce, Splitting, Swapping, Idle
  <2>12. SalesBilledOnce(Idle)'
    <3>1. \A t \in Reservations : /\ db'[t].sale = db[t].sale
                                  /\ db'[t].status = "CONVERTED" <=> db[t].status = "CONVERTED"
      BY <2>1, <2>3, <2>5
    <3> QED  BY <2>2, <2>3, <3>1, BillsStay
  <2>13. RevenueOnce(Idle)'
    <3>1. RevenueOnce(p) /\ ~Recognizing(p) /\ ~Recognizing(Idle)
      BY <1>2, <1>8 DEF Turn, Recognizing, Idle
    <3>2. \A y \in Units : SameRevenue(y)
      BY <2>3, <2>5 DEF SameRevenue
    <3>3. \A s \in Sales : db'[s].unit = db[s].unit /\ db'[s].status = db[s].status /\ ~Joining(p, s)
      BY <1>2, <2>3 DEF Joining
    <3> QED  BY <3>1, <3>2, <3>3, RevenueStays
  <2> QED  BY <2>11, <2>12, <2>13
<1> QED  BY <1>1, <1>2, <1>7, <1>8, CommitEnds

LEMMA ReservationReleased ==
    ASSUME SalesInv, NEW c \in Calls, NEW r \in Reservations, NEW op \in {"expire", "cancelReservation"},
           In(r, {"ACTIVE"}), Enter(c, op, "write", r, None, None)
    PROVE  StepSound
<1>1. PICK q : q = [op |-> op, at |-> "write", row |-> r, arg |-> None, seen |-> None]
  OBVIOUS
<1>2. q \in SalesCall /\ RequestOK(q)
  BY <1>1 DEF SalesCall, RequestOK, ReservationRequest
<1>3. TurnOK(q)
  BY <1>1 DEF TurnOK, Recognizing, In
<1> QED  BY <1>1, <1>2, <1>3, EnterKeeps

LEMMA ReleaseKeeps ==
    ASSUME SalesInv, NEW c \in Calls, NEW r \in Reservations,
           ExpireStaleReservations(c, r) \/ CancelReservation(c, r)
    PROVE  StepSound
<1>1. CASE ExpireStaleReservations(c, r)
  BY <1>1, FreeUnitKeeps, ReservationReleased DEF ExpireStaleReservations, Handler
<1>2. CASE CancelReservation(c, r)
  BY <1>2, FreeUnitKeeps, ReservationReleased DEF CancelReservation, Handler
<1> QED  BY <1>1, <1>2

\* Rows that no turn depends on are written.
LEMMA LateTurn ==
    ASSUME SalesInv, \A s \in Sales : db'[s] = db[s], \A i \in Bills : db'[i] = db[i],
           \A x \in Units : db'[x] = db[x],
           \A t \in Reservations : db'[t].status = db[t].status /\ db'[t].sale = db[t].sale,
           \A h \in Handovers : db[h].status # "ABSENT" => db'[h].unit = db[h].unit,
           NEW q \in SalesCall, RequestOK(q), Turn(q),
           q.op = "complete" => OpenSnags(q.row)' = OpenSnags(q.row)
    PROVE  Turn(q)'
<1>1. /\ \A s \in Sales, x \in Units : SaleHolds(s, x)' <=> SaleHolds(s, x)
      /\ \A t \in Reservations, x \in Units : ReservationHolds(t, x)' <=> ReservationHolds(t, x)
      /\ \A s \in Sales : LiveSale(s)' <=> LiveSale(s)
  BY DEF SaleHolds, LiveSale, ReservationHolds
<1>2. \A x \in Units : (OneHolds(x)' <=> OneHolds(x)) /\ (NoneHolds(x)' <=> NoneHolds(x))
  BY <1>1, HoldersStay
<1>3. UnitsHeldOnce(q)'
  BY <1>1, <1>2, SalesAssumption DEF Turn, UnitsHeldOnce, Splitting, Swapping
<1>4. SalesBilledOnce(q)'
  BY BillsStay DEF Turn
<1>6. Recognizing(q) => UnitIn(q)' = UnitIn(q) /\ UnitIn(q) \in Units
  <2>1. CASE q.op = "complete"
    <3>1. CompletionRequest(q)
      BY <2>1 DEF RequestOK, ReservationRequest, ConversionRequest, AllocationRequest, SaleRequest,
                  RecordRequest, UnitRequest, Idle
    <3>2. PICK h \in Handovers : h = q.row /\ db[h].status # "ABSENT"
      BY <3>1 DEF CompletionRequest
    <3> QED  BY <2>1, <3>2 DEF UnitIn, SalesInv, RowsLinked
  <2>2. CASE q.op = "recognizeUnit"
    <3>1. UnitRequest(q)
      BY <2>2 DEF RequestOK, ReservationRequest, ConversionRequest, AllocationRequest, SaleRequest,
                  RecordRequest, CompletionRequest, Idle
    <3> QED  BY <2>2, <3>1 DEF UnitIn, UnitRequest
  <2> QED  BY <2>1, <2>2 DEF Recognizing
<1>5. TurnOK(q)'
  <2>1. CASE q = Idle
    BY <2>1 DEF TurnOK, Idle, Recognizing
  <2>2. CASE ReservationRequest(q) \/ AllocationRequest(q)
    BY <2>2, SalesAssumption DEF TurnOK, Turn, ReservationRequest, AllocationRequest, Recognizing
  <2>3. CASE ConversionRequest(q)
    <3>1. ConversionInTurn(q)
      BY <2>3 DEF TurnOK, Recognizing, Turn, ConversionRequest
    <3>2. PICK r \in Reservations, x \in Units : r = q.row /\ x = UnitOf[q.row] /\ x = UnitOf[r]
      BY <2>3, SalesAssumption DEF ConversionRequest
    <3>3. ASSUME q.at = "sale" PROVE ConversionInTurn(q)'
      BY <3>1, <3>2, <3>3 DEF ConversionInTurn, Posts
    <3>4. ASSUME q.at # "sale" PROVE ConversionInTurn(q)'
      <4>1. PICK s \in Sales : s = q.seen
        BY <2>3, <3>4 DEF ConversionRequest
      <4>2. q.at \in Posts => db[s].bill \in Bills
        BY <2>3, <4>1 DEF ConversionRequest, SalesInv, SalesTyped, RowsTyped, SaleRow
      <4>3. q.at \in Posts => db'[db'[s].bill].ledger = 0
        BY <3>1, <4>1, <4>2 DEF ConversionInTurn
      <4>4. SaleHolds(s, x)' /\ (q.at \in {"reservation", "unit", "bill"} => db'[s].bill = None)
        BY <1>1, <3>1, <3>2, <3>4, <4>1 DEF ConversionInTurn
      <4>5. /\ q.at = "reservation" => db'[r].status = "ACTIVE"
            /\ q.at \in {"unit", "bill"} \cup Posts => db'[r].status = "CONVERTED" /\ db'[r].sale = s
        BY <3>1, <3>2, <4>1 DEF ConversionInTurn
      <4>6. q.at = "reservation" =>
              /\ \A z \in Sales : SaleHolds(z, x)' => z = s
              /\ \A z \in Reservations : (ReservationHolds(z, x)' => z = r) /\ db'[z].sale # s
        BY <1>1, <3>1, <3>2, <4>1 DEF ConversionInTurn
      <4> QED  BY <3>2, <3>4, <4>1, <4>3, <4>4, <4>5, <4>6 DEF ConversionInTurn
    <3> QED  BY <2>3, <3>3, <3>4 DEF TurnOK, ConversionRequest, Recognizing
  <2>4. CASE SaleRequest(q)
    BY <1>1, <2>4 DEF TurnOK, Turn, SaleRequest, Recognizing
  <2>5. CASE RecordRequest(q)
    BY <2>5 DEF TurnOK, RecordRequest, Recognizing
  <2>6. CASE CompletionRequest(q) \/ UnitRequest(q)
    <3>1. PICK x \in Units : x = UnitIn(q) /\ x = UnitIn(q)'
      BY <1>6, <2>6 DEF CompletionRequest, UnitRequest, Recognizing
    <3>2. db'[x].status = db[x].status
      OBVIOUS
    <3>3. RecognitionInTurn(q)' <=> RecognitionInTurn(q)
      BY <3>1, <3>2 DEF RecognitionInTurn
    <3> QED  BY <2>6, <3>3 DEF TurnOK, Turn, CompletionRequest, UnitRequest, Recognizing
  <2> QED  BY <2>1, <2>2, <2>3, <2>4, <2>5, <2>6 DEF RequestOK
<1>7. RevenueOnce(q)'
  <2>1. \A x \in Units : (Marking(q, x)' <=> Marking(q, x)) /\ (Telling(q, x)' <=> Telling(q, x))
    <3>1. CASE Recognizing(q)
      BY <1>6, <3>1 DEF Marking, Telling
    <3>2. CASE ~Recognizing(q)
      BY <3>2 DEF Marking, Telling
    <3> QED  BY <3>1, <3>2
  <2> QED  BY <2>1 DEF Turn, RevenueOnce, Joining
<1> QED  BY <1>3, <1>4, <1>5, <1>7 DEF Turn

\* What is done beside the requests, while the one whose turn it is goes on.
LEMMA OthersKeep ==
    ASSUME SalesInv, UNCHANGED call, tidy' \in BOOLEAN, tidy' => tidy, RowsTyped', RowsLinked', Kept,
           tidy' => \A q \in SalesCall : RequestOK(q) /\ Turn(q) /\ (q = Idle \/ \E c \in Calls : q = call[c])
                                            => Turn(q)'
    PROVE  StepSound
<1>1. call \in [Calls -> SalesCall] /\ call' = call /\ \A c \in Calls : RequestOK(call[c])
  BY DEF SalesInv, SalesTyped
<1>2. \A c \in Calls : RequestOK(call[c])'
  <2>1. ASSUME NEW c \in Calls PROVE RequestOK(call[c])'
    <3>1. PICK q \in SalesCall : q = call[c] /\ q = call'[c] /\ RequestOK(q)
      BY <1>1
    <3>2. RequestOK(q)'
      BY <3>1, RequestStays
    <3> QED  BY <3>1, <3>2
  <2> QED  BY <2>1
<1>3. Recognized'
  <2>1. \A h \in Handovers : Claimed(h)' => Claimed(h)
    BY <1>1 DEF Claimed, Kept, Claiming
  <2> QED  BY <2>1, ClaimsKept
<1>4. ASSUME tidy' PROVE TurnsTaken'
  <2>1. TurnsTaken
    BY <1>4 DEF SalesInv
  <2>2. ASSUME NEW c \in Calls, call'[c] # Idle PROVE Turn(call[c])'
    <3>1. PICK q \in SalesCall : q = call[c] /\ q = call'[c] /\ RequestOK(q)
      BY <1>1
    <3>2. Turn(q)'
      BY <1>4, <2>1, <2>2, <3>1 DEF TurnsTaken
    <3> QED  BY <3>1, <3>2
  <2>3. ASSUME Alone' PROVE Turn(Idle)'
    <3>1. Idle \in SalesCall /\ RequestOK(Idle) /\ Turn(Idle)
      BY <1>1, <2>1, <2>3 DEF TurnsTaken, Alone, Idle, SalesCall, RequestOK
    <3> QED  BY <1>4, <3>1
  <2> QED  BY <1>1, <2>1, <2>2, <2>3 DEF TurnsTaken
<1>5. SalesInv'
  BY <1>1, <1>2, <1>3, <1>4 DEF SalesInv, SalesTyped
<1>6. CompletedCleanly
  BY CompletesCleanly
<1> QED  BY <1>5, <1>6 DEF StepSound

\* The time of a reservation passes while others are in the middle of something.
LEMMA ExpiresKeeps ==
    ASSUME SalesInv, NEW r \in Reservations, Expires(r)
    PROVE  StepSound
<1>1. DOMAIN db = EstateRows /\ db[r] \in ReservationRow /\ db = [y \in DOMAIN db |-> db[y]]
  BY DEF SalesInv, SalesTyped, RowsTyped
<1>2. /\ DOMAIN db' = EstateRows /\ db' = [y \in DOMAIN db' |-> db'[y]]
      /\ \A y \in EstateRows \ {r} : db'[y] = db[y]
      /\ db'[r] = [status |-> db[r].status, late |-> TRUE, sale |-> db[r].sale]
      /\ UNCHANGED <<call, tidy>>
  BY <1>1 DEF Expires, EstateRows, ReservationRow
<1>3. /\ \A s \in Sales : db'[s] = db[s]
      /\ \A i \in Bills : db'[i] = db[i]
      /\ \A x \in Units : db'[x] = db[x]
      /\ \A t \in Reservations : db'[t].status = db[t].status /\ db'[t].sale = db[t].sale
      /\ \A t \in Reservations \ {r} : db'[t] = db[t]
  BY <1>2, SalesAssumption DEF EstateRows
<1>4. RecordsStay
  BY <1>2, RecordsAside DEF OnlyTheseChange
<1>5. RowsTyped'
  <2>1. db'[r] \in ReservationRow
    BY <1>1, <1>2 DEF ReservationRow
  <2> QED  BY <1>2, <1>3, <1>4, <2>1, RecordsKept DEF SalesInv, SalesTyped, RowsTyped
<1>6. RowsLinked'
  <2>1. /\ \A s \in Sales : db[s].bill \in Bills \cup {None}
        /\ \A t \in Reservations : db[t].sale \in Sales \cup {None}
    BY DEF SalesInv, SalesTyped, RowsTyped, SaleRow, ReservationRow
  <2>2. \A h \in Handovers : db'[h].status # "ABSENT" => db'[h].unit \in Units
    BY <1>4, RecordsKept
  <2> QED  BY <1>3, <2>1, <2>2 DEF SalesInv, RowsLinked
<1>7. Kept
  <2>1. \A s \in Sales : SaleStays(s)
    BY <1>3, SaleUntouched
  <2> QED  BY <1>3, <1>4, <2>1, StaysKept
<1>8. ASSUME NEW q \in SalesCall, RequestOK(q), Turn(q) PROVE Turn(q)'
  <2>1. \A h \in Handovers : db'[h].unit = db[h].unit /\ OpenSnags(h)' = OpenSnags(h)
    BY <1>4 DEF RecordsStay, OpenSnags, In
  <2>2. \A h : OpenSnags(h)' = OpenSnags(h)
    BY <1>4 DEF RecordsStay, OpenSnags, In
  <2> QED  BY <1>3, <1>8, <2>1, <2>2, LateTurn
<1>9. UNCHANGED call /\ tidy' \in BOOLEAN /\ (tidy' => tidy)
  BY <1>2 DEF SalesInv, SalesTyped
<1> QED  BY <1>5, <1>6, <1>7, <1>8, <1>9, OthersKeep

-----------------------------------------------------------------------------
(* The conversion of a reservation to a sale *)

Converting(q, at, r, sale) == q.op = "convert" /\ q.at = at /\ q.row = r /\ q.seen = sale

ConversionSteps == {"reservation", "unit", "bill"} \cup Posts

LEMMA ConversionGoes ==
    ASSUME SalesInv, NEW c \in Calls, NEW r \in Reservations, NEW from, At(c, "convert", from, r, None),
           NEW at \in ConversionSteps, NEW sale \in Sales,
           Keep(c, at, sale) \/ (Goto(c, at) /\ call[c].seen = sale)
    PROVE  /\ \E q \in SalesCall : Converting(q, at, r, sale) /\ call' = [call EXCEPT ![c] = q]
           /\ tidy' \in BOOLEAN /\ tidy' = tidy
<1>1. /\ call \in [Calls -> SalesCall] /\ call[c].op = "convert" /\ call[c].row = r /\ call[c].arg = None
      /\ tidy \in BOOLEAN
  BY DEF At, SalesInv, SalesTyped
<1>2. PICK p \in SalesCall : p = call[c] /\ p.op = "convert" /\ p.row = r
  BY <1>1
<1>3. CASE Keep(c, at, sale)
  <2>1. PICK q : q = [p EXCEPT !.at = at, !.seen = sale]
    OBVIOUS
  <2>2. q \in SalesCall /\ Converting(q, at, r, sale)
    <3>1. q \in SalesCall
      BY <1>2, <2>1, ZenonT(40) DEF SalesCall, ConversionSteps, Posts
    <3>2. Converting(q, at, r, sale)
      BY <1>2, <2>1 DEF SalesCall, Converting
    <3> QED  BY <3>1, <3>2
  <2>3. call' = [call EXCEPT ![c] = q] /\ tidy' = tidy
    BY <1>1, <1>2, <1>3, <2>1 DEF Keep
  <2> QED  BY <1>1, <2>2, <2>3
<1>4. CASE Goto(c, at) /\ call[c].seen = sale
  <2>1. PICK q : q = [p EXCEPT !.at = at]
    OBVIOUS
  <2>2. q \in SalesCall /\ Converting(q, at, r, sale)
    BY <1>2, <1>4, <2>1 DEF SalesCall, Converting, ConversionSteps, Posts
  <2>3. call' = [call EXCEPT ![c] = q] /\ tidy' = tidy
    BY <1>1, <1>2, <1>4, <2>1 DEF Goto
  <2> QED  BY <1>1, <2>2, <2>3
<1> QED  BY <1>3, <1>4

LEMMA NewSaleTyped ==
    ASSUME NEW x \in Units, NEW status \in SaleStatus
    PROVE  NewSale(x, status) \in SaleRow
  BY DEF NewSale, SaleRow, SaleStatus

\* A commit that writes sales and units.
LEMMA SalesWritten ==
    ASSUME SalesInv, DOMAIN db' = EstateRows, db' = [z \in DOMAIN db' |-> db'[z]],
           \A r \in Reservations : db'[r] = db[r], \A i \in Bills : db'[i] = db[i],
           \A x \in Units : UnitStays(x), \A s \in Sales : SaleStays(s), RecordsStay
    PROVE  RowsTyped' /\ RowsLinked' /\ Kept
<1>1. RowsTyped'
  BY RecordsKept DEF SalesInv, SalesTyped, RowsTyped, UnitStays, SaleStays
<1>2. RowsLinked'
  <2>1. /\ \A s \in Sales : db[s].bill \in Bills \cup {None}
        /\ \A t \in Reservations : db[t].sale \in Sales \cup {None}
    BY DEF SalesInv, SalesTyped, RowsTyped, SaleRow, ReservationRow
  <2>2. \A h \in Handovers : db'[h].status # "ABSENT" => db'[h].unit \in Units
    BY RecordsKept
  <2> QED  BY <2>1, <2>2 DEF SalesInv, RowsLinked, SaleStays
<1>3. Kept
  BY StaysKept
<1> QED  BY <1>1, <1>2, <1>3

LEMMA ConversionEntered ==
    ASSUME SalesInv, NEW c \in Calls, NEW r \in Reservations, MayConvert(r),
           Enter(c, "convert", "sale", r, None, None)
    PROVE  StepSound
<1>1. PICK q : q = [op |-> "convert", at |-> "sale", row |-> r, arg |-> None, seen |-> None]
  OBVIOUS
<1>2. q \in SalesCall /\ RequestOK(q)
  BY <1>1 DEF SalesCall, RequestOK, ConversionRequest, Posts
<1>3. TurnOK(q)
  BY <1>1 DEF TurnOK, Recognizing, ConversionInTurn, MayConvert, In, Posts
<1> QED  BY <1>1, <1>2, <1>3, EnterKeeps

LEMMA SaleOfReservation ==
    ASSUME SalesInv, NEW c \in Calls, NEW r \in Reservations, At(c, "convert", "sale", r, None),
           NEW s \in Sales, In(s, {"ABSENT"}), OnlyTheseChange({s}),
           db'[s] = NewSale(UnitOf[r], "ALLOCATED"), Keep(c, "reservation", s)
    PROVE  StepSound
<1>1. PICK p : p = call[c]
  OBVIOUS
<1>2. p.op = "convert" /\ p.row = r /\ p.at = "sale" /\ p # Idle
  BY <1>1 DEF At, Idle
<1>3. PICK x \in Units : x = UnitOf[r]
  BY SalesAssumption
<1>4. /\ \E q \in SalesCall : Converting(q, "reservation", r, s) /\ call' = [call EXCEPT ![c] = q]
      /\ tidy' \in BOOLEAN /\ tidy' = tidy
  <2>1. "reservation" \in ConversionSteps
    BY DEF ConversionSteps
  <2> QED  BY <2>1, ConversionGoes
<1>5. PICK q \in SalesCall : Converting(q, "reservation", r, s) /\ call' = [call EXCEPT ![c] = q]
  BY <1>4
<1>6. q.op = "convert" /\ q.at = "reservation" /\ q.row = r /\ q.seen = s
  BY <1>5 DEF Converting
<1>7. /\ DOMAIN db' = EstateRows /\ db' = [z \in DOMAIN db' |-> db'[z]]
      /\ \A z \in EstateRows \ {s} : db'[z] = db[z]
      /\ db'[s] = [status |-> "ALLOCATED", unit |-> x, cancelled |-> FALSE, bill |-> None]
  BY <1>3 DEF OnlyTheseChange, NewSale
<1>8. /\ \A t \in Reservations : db'[t] = db[t]
      /\ \A i \in Bills : db'[i] = db[i]
      /\ \A y \in Units : db'[y] = db[y]
      /\ \A z \in Sales \ {s} : db'[z] = db[z]
  BY <1>7, SalesAssumption DEF EstateRows
<1>9. db[s].status = "ABSENT" /\ db[s].bill = None /\ \A t \in Reservations : db[t].sale # s
  BY SalesAssumption DEF In, SalesInv, RowsLinked
<1>10. RowsTyped' /\ RowsLinked' /\ Kept
  <2>1. \A y \in Units : UnitStays(y)
    BY <1>8, UnitUntouched
  <2>2. SaleStays(s)
    <3>1. db'[s] \in SaleRow
      BY <1>3, NewSaleTyped DEF SaleStatus, UnitStatus
    <3>2. x # None
      BY SalesAssumption
    <3> QED  BY <1>7, <1>9, <3>1, <3>2 DEF SaleStays
  <2>3. \A z \in Sales \ {s} : SaleStays(z)
    BY <1>8, SaleUntouched
  <2>4. RecordsStay
    BY RecordsAside
  <2> QED  BY <1>7, <1>8, <2>1, <2>2, <2>3, <2>4, SalesWritten
<1>11. RequestOK(q)'
  BY <1>6, <1>7 DEF RequestOK, ConversionRequest, Posts
<1>12. ASSUME tidy, Turn(p) PROVE Turn(q)'
  <2>1. db[r].status = "ACTIVE" /\ UnitsHeldOnce(p) /\ SalesBilledOnce(p)
    BY <1>2, <1>12 DEF Turn, TurnOK, ConversionInTurn
  <2>2. ReservationHolds(r, x) /\ OneHolds(x) /\ ~NoneHolds(x)
    BY <1>2, <1>3, <2>1 DEF UnitsHeldOnce, ReservationHolds, Splitting, NoneHolds
  <2>3. /\ \A z \in Sales \ {s}, y \in Units : SaleHolds(z, y)' <=> SaleHolds(z, y)
        /\ \A y \in Units : ~SaleHolds(s, y)
        /\ \A y \in Units : SaleHolds(s, y)' <=> y = x
    BY <1>7, <1>8, <1>9 DEF SaleHolds, LiveSale
  <2>4. \A t \in Reservations, y \in Units : ReservationHolds(t, y)' <=> ReservationHolds(t, y)
    BY <1>8 DEF ReservationHolds
  <2>5. TurnOK(q)'
    <3>1. /\ \A z \in Sales : SaleHolds(z, x)' => z = s
          /\ \A t \in Reservations : (ReservationHolds(t, x)' => t = r) /\ db'[t].sale # s
      BY <1>8, <1>9, <2>2, <2>3, <2>4 DEF OneHolds
    <3>2. db'[r].status = "ACTIVE" /\ db'[s].bill = None /\ SaleHolds(s, x)'
      BY <1>7, <1>8, <2>1, <2>3
    <3> QED  BY <1>3, <1>6, <3>1, <3>2 DEF TurnOK, Recognizing, ConversionInTurn, Posts
  <2>6. \A y \in Units \ {x} : (OneHolds(y)' <=> OneHolds(y)) /\ (NoneHolds(y)' <=> NoneHolds(y))
    <3>1. TAKE y \in Units \ {x}
    <3>2. \A z \in Sales : SaleHolds(z, y)' <=> SaleHolds(z, y)
      BY <2>3
    <3> QED  BY <2>4, <3>2, HoldersStay
  <2>7. ~NoneHolds(x)'
    BY <2>2, <2>4 DEF NoneHolds
  <2>8. UnitsHeldOnce(q)'
    <3>1. \A y \in Units : /\ ~Splitting(q, y) => OneHolds(y)'
                           /\ db'[y].status = "AVAILABLE" => NoneHolds(y)'
                           /\ NoneHolds(y)' => db'[y].status \in {"AVAILABLE", "HANDED_OVER"}
      <4>1. TAKE y \in Units
      <4>2. /\ ~Splitting(p, y) /\ ~Swapping(p, y)
            /\ Splitting(q, y) <=> y = x
        BY <1>2, <1>3, <1>6 DEF Splitting, Swapping
      <4> QED  BY <1>8, <2>1, <2>2, <2>6, <2>7, <4>2 DEF UnitsHeldOnce
    <3>2. \A z \in Sales : LiveSale(z)' => db'[z].status \in {"RESERVED", "ALLOCATED", "HANDED_OVER"}
      BY <1>7, <1>8, <2>1 DEF UnitsHeldOnce, LiveSale
    <3>3. \A t \in Reservations : db'[t].status = "ACTIVE" => db'[UnitOf[t]].status \in {"RESERVED", "HANDED_OVER"}
      BY <1>8, <2>1, SalesAssumption DEF UnitsHeldOnce
    <3> QED  BY <3>1, <3>2, <3>3 DEF UnitsHeldOnce, Splitting, Swapping
  <2>9. SalesBilledOnce(q)'
    <3>1. \A t \in Reservations : Billing(p, t) => Billing(q, t)
      BY <1>2 DEF Billing, Posts
    <3>2. \A z \in Sales : db'[z].bill = db[z].bill
      BY <1>7, <1>8, <1>9
    <3> QED  BY <1>8, <2>1, <3>1, <3>2, BillsStay
  <2>10. RevenueOnce(q)'
    <3>1. RevenueOnce(p) /\ ~Recognizing(p) /\ ~Recognizing(q)
      BY <1>2, <1>6, <1>12 DEF Turn, Recognizing
    <3>2. \A y \in Units : SameRevenue(y)
      BY <1>8 DEF SameRevenue
    <3>3. \A z \in Sales \ {s} : db'[z].unit = db[z].unit /\ db'[z].status = db[z].status /\ ~Joining(p, z)
      BY <1>2, <1>8 DEF Joining
    <3>4. Joining(q, s)
      BY <1>6 DEF Joining
    <3> QED  BY <3>1, <3>2, <3>3, <3>4, RevenueStays
  <2> QED  BY <2>5, <2>8, <2>9, <2>10 DEF Turn
<1> QED  BY <1>1, <1>2, <1>4, <1>5, <1>10, <1>11, <1>12, <1>6, StepKeeps

\* Nothing that holds a unit is written.
LEMMA UnitsStay ==
    ASSUME NEW p, NEW q, UnitsHeldOnce(p),
           \A x \in Units : (Splitting(p, x) => Splitting(q, x)) /\ (Swapping(p, x) => Swapping(q, x)),
           \A x \in Units : db'[x].status = db[x].status,
           \A r \in Reservations : db'[r].status = db[r].status,
           \A s \in Sales : /\ db'[s].status = db[s].status /\ db'[s].unit = db[s].unit
                            /\ db'[s].cancelled = db[s].cancelled
    PROVE  UnitsHeldOnce(q)'
<1>1. /\ \A s \in Sales, x \in Units : SaleHolds(s, x)' <=> SaleHolds(s, x)
      /\ \A t \in Reservations, x \in Units : ReservationHolds(t, x)' <=> ReservationHolds(t, x)
      /\ \A s \in Sales : LiveSale(s)' <=> LiveSale(s)
  BY DEF SaleHolds, LiveSale, ReservationHolds
<1>2. \A x \in Units : (OneHolds(x)' <=> OneHolds(x)) /\ (NoneHolds(x)' <=> NoneHolds(x))
  BY <1>1, HoldersStay
<1>3. \A x \in Units : /\ ~Splitting(q, x) => OneHolds(x)'
                       /\ ~Swapping(q, x) /\ db'[x].status = "AVAILABLE" => NoneHolds(x)'
                       /\ NoneHolds(x)' => db'[x].status \in {"AVAILABLE", "HANDED_OVER"}
  BY <1>2 DEF UnitsHeldOnce
<1>4. \A s \in Sales : LiveSale(s)' => db'[s].status \in {"RESERVED", "ALLOCATED", "HANDED_OVER"}
  BY <1>1 DEF UnitsHeldOnce
<1>5. \A t \in Reservations : db'[t].status = "ACTIVE" => db'[UnitOf[t]].status \in {"RESERVED", "HANDED_OVER"}
  BY SalesAssumption DEF UnitsHeldOnce
<1> QED  BY <1>3, <1>4, <1>5 DEF UnitsHeldOnce, Splitting, Swapping

\* What a conversion is about, once its sale is made.
LEMMA ConversionOf ==
    ASSUME SalesInv, NEW c \in Calls, NEW r \in Reservations, NEW at \in ConversionSteps,
           At(c, "convert", at, r, None)
    PROVE  \E s \in Sales : /\ Converting(call[c], at, r, s) /\ db[s].status # "ABSENT"
                            /\ call[c] # Idle /\ (at \in Posts => db[s].bill \in Bills)
<1>1. RequestOK(call[c]) /\ call[c].op = "convert" /\ call[c].row = r /\ call[c].at = at
  BY DEF SalesInv, At
<1>2. call[c] # Idle /\ at # "sale"
  BY <1>1 DEF Idle, ConversionSteps, Posts
<1>3. ConversionRequest(call[c])
  BY <1>1, <1>2 DEF RequestOK, ReservationRequest, AllocationRequest, SaleRequest, RecordRequest,
                    CompletionRequest, UnitRequest
<1>4. PICK s \in Sales : s = call[c].seen
  BY <1>1, <1>2, <1>3 DEF ConversionRequest
<1>5. db[s].status # "ABSENT" /\ (at \in Posts => db[s].bill \in Bills)
  BY <1>1, <1>2, <1>3, <1>4 DEF ConversionRequest, SalesInv, SalesTyped, RowsTyped, SaleRow
<1> QED  BY <1>1, <1>2, <1>4, <1>5 DEF Converting

LEMMA ReservationEnds ==
    ASSUME SalesInv, NEW c \in Calls, NEW r \in Reservations, At(c, "convert", "reservation", r, None),
           OnlyTheseChange({r}), ReservationAs(r, "CONVERTED", call[c].seen), Goto(c, "unit")
    PROVE  StepSound
<1>0. "reservation" \in ConversionSteps /\ "unit" \in ConversionSteps
  BY DEF ConversionSteps
<1>1. PICK s \in Sales : /\ Converting(call[c], "reservation", r, s) /\ db[s].status # "ABSENT"
                         /\ call[c] # Idle
  BY <1>0, ConversionOf
<1>2. PICK p : p = call[c] /\ p # Idle /\ Converting(p, "reservation", r, s)
  BY <1>1
<1>3. PICK x \in Units : x = UnitOf[r]
  BY SalesAssumption
<1>4. /\ \E q \in SalesCall : Converting(q, "unit", r, s) /\ call' = [call EXCEPT ![c] = q]
      /\ tidy' \in BOOLEAN /\ tidy' = tidy
  BY <1>0, <1>1, ConversionGoes DEF Converting
<1>5. PICK q \in SalesCall : Converting(q, "unit", r, s) /\ call' = [call EXCEPT ![c] = q]
  BY <1>4
<1>6. /\ DOMAIN db' = EstateRows /\ db' = [z \in DOMAIN db' |-> db'[z]]
      /\ db'[r] = [status |-> "CONVERTED", late |-> db[r].late, sale |-> s]
  BY <1>1 DEF OnlyTheseChange, ReservationAs, Converting
<1>7. /\ \A t \in Reservations \ {r} : db'[t] = db[t]
      /\ \A i \in Bills : db'[i] = db[i]
      /\ \A y \in Units : db'[y] = db[y]
      /\ \A z \in Sales : db'[z] = db[z]
  BY SalesAssumption DEF OnlyTheseChange, EstateRows
<1>8. db'[r].status = "CONVERTED" /\ db'[r].sale = s
  BY <1>6
<1>R. RecordsStay
  BY RecordsAside
<1>9. RowsTyped'
  <2>1. db'[r] \in ReservationRow
    BY <1>6 DEF ReservationRow, SalesInv, SalesTyped, RowsTyped
  <2> QED  BY <1>6, <1>7, <1>R, <2>1, RecordsKept DEF SalesInv, SalesTyped, RowsTyped
<1>10. RowsLinked'
  <2>1. /\ \A z \in Sales : db[z].bill \in Bills \cup {None}
        /\ \A t \in Reservations : db[t].sale \in Sales \cup {None}
    BY DEF SalesInv, SalesTyped, RowsTyped, SaleRow, ReservationRow
  <2>2. s # None
    BY SalesAssumption
  <2>3. \A h \in Handovers : db'[h].status # "ABSENT" => db'[h].unit \in Units
    BY <1>R, RecordsKept
  <2> QED  BY <1>1, <1>7, <1>8, <2>1, <2>2, <2>3 DEF SalesInv, RowsLinked
<1>11. Kept
  <2>1. \A z \in Sales : SaleStays(z)
    BY <1>7, SaleUntouched
  <2> QED  BY <1>7, <1>R, <2>1, StaysKept
<1>12. RequestOK(q)'
  BY <1>1, <1>5, <1>7 DEF Converting, RequestOK, ConversionRequest, Posts
<1>13. ASSUME tidy, Turn(p) PROVE Turn(q)'
  <2>1. ConversionInTurn(p) /\ UnitsHeldOnce(p) /\ SalesBilledOnce(p)
    BY <1>2, <1>13 DEF Turn, TurnOK, Converting
  <2>2. /\ db[r].status = "ACTIVE" /\ SaleHolds(s, x) /\ db[s].bill = None
        /\ \A z \in Sales : SaleHolds(z, x) => z = s
        /\ \A t \in Reservations : (ReservationHolds(t, x) => t = r) /\ db[t].sale # s
    BY <1>2, <1>3, <2>1 DEF ConversionInTurn, Converting
  <2>3. \A z \in Sales, y \in Units : SaleHolds(z, y)' <=> SaleHolds(z, y)
    BY <1>7 DEF SaleHolds, LiveSale
  <2>4. /\ \A t \in Reservations \ {r}, y \in Units : ReservationHolds(t, y)' <=> ReservationHolds(t, y)
        /\ \A y \in Units : ReservationHolds(r, y) <=> y = x
        /\ \A y \in Units : ~ReservationHolds(r, y)'
    BY <1>3, <1>7, <1>8, <2>2 DEF ReservationHolds
  <2>5. TurnOK(q)'
    <3>1. SaleHolds(s, x)' /\ db'[s].bill = None
      BY <1>7, <2>2, <2>3
    <3> QED  BY <1>3, <1>5, <1>8, <3>1 DEF TurnOK, Recognizing, ConversionInTurn, Converting, Posts
  <2>6. \A y \in Units \ {x} : (OneHolds(y)' <=> OneHolds(y)) /\ (NoneHolds(y)' <=> NoneHolds(y))
    <3>1. TAKE y \in Units \ {x}
    <3>2. \A t \in Reservations : ReservationHolds(t, y)' <=> ReservationHolds(t, y)
      BY <2>4
    <3> QED  BY <2>3, <3>2, HoldersStay
  <2>7. OneHolds(x)' /\ ~NoneHolds(x)' /\ ~NoneHolds(x)
    BY <2>2, <2>3, <2>4 DEF OneHolds, NoneHolds
  <2>8. UnitsHeldOnce(q)'
    <3>1. \A y \in Units : /\ OneHolds(y)'
                           /\ db'[y].status = "AVAILABLE" => NoneHolds(y)'
                           /\ NoneHolds(y)' => db'[y].status \in {"AVAILABLE", "HANDED_OVER"}
      <4>1. TAKE y \in Units
      <4>2. ~Swapping(p, y) /\ (Splitting(p, y) => y = x)
        BY <1>2, <1>3 DEF Converting, Splitting, Swapping
      <4> QED  BY <1>7, <2>1, <2>6, <2>7, <4>2 DEF UnitsHeldOnce
    <3>2. \A z \in Sales : LiveSale(z)' => db'[z].status \in {"RESERVED", "ALLOCATED", "HANDED_OVER"}
      BY <1>7, <2>1 DEF UnitsHeldOnce, LiveSale
    <3>3. \A t \in Reservations : db'[t].status = "ACTIVE" => db'[UnitOf[t]].status \in {"RESERVED", "HANDED_OVER"}
      BY <1>7, <1>8, <2>1, SalesAssumption DEF UnitsHeldOnce
    <3> QED  BY <3>1, <3>2, <3>3 DEF UnitsHeldOnce, Splitting, Swapping
  <2>9. SalesBilledOnce(q)'
    <3>1. db[r].sale = None
      BY <2>1, <2>2 DEF SalesBilledOnce
    <3>2. /\ \A t \in Reservations : db'[t].sale # None => db'[t].status = "CONVERTED"
          /\ \A t, u \in Reservations : db'[t].sale = db'[u].sale /\ db'[t].sale # None => t = u
      BY <1>7, <1>8, <2>1, <2>2 DEF SalesBilledOnce
    <3>3. \A z, u \in Sales : db'[z].bill = db'[u].bill /\ db'[z].bill # None => z = u
      BY <1>7, <2>1 DEF SalesBilledOnce
    <3>4. \A z \in Sales : db'[z].bill # None => \E t \in Reservations : db'[t].sale = z
      <4>1. TAKE z \in Sales
      <4>2. HAVE db'[z].bill # None
      <4>3. PICK t \in Reservations : db[t].sale = z
        BY <1>7, <2>1, <4>2 DEF SalesBilledOnce
      <4>4. t # r
        BY <3>1, <4>3, SalesAssumption
      <4> QED  BY <1>7, <4>3, <4>4
    <3>5. \A t \in Reservations :
             db'[t].status = "CONVERTED" /\ ~Billing(q, t) =>
                 db'[db'[t].sale].bill # None /\ db'[db'[db'[t].sale].bill].ledger = 1
      <4>1. SUFFICES ASSUME NEW t \in Reservations, db'[t].status = "CONVERTED", ~Billing(q, t)
                     PROVE  db'[db'[t].sale].bill # None /\ db'[db'[db'[t].sale].bill].ledger = 1
        OBVIOUS
      <4>2. t # r
        BY <1>5, <4>1 DEF Billing, Converting
      <4>3. db[t].status = "CONVERTED" /\ ~Billing(p, t) /\ db'[t].sale = db[t].sale
        BY <1>2, <1>7, <4>1, <4>2 DEF Billing, Converting, Posts
      <4>4. PICK z \in Sales : z = db[t].sale
        BY <4>3 DEF SalesInv, SalesTyped, RowsTyped, RowsLinked, ReservationRow
      <4>5. db[z].bill # None /\ db[z].bill \in Bills /\ db[db[z].bill].ledger = 1
        BY <2>1, <4>3, <4>4 DEF SalesBilledOnce, SalesInv, SalesTyped, RowsTyped, SaleRow
      <4> QED  BY <1>7, <4>3, <4>4, <4>5
    <3> QED  BY <3>2, <3>3, <3>4, <3>5 DEF SalesBilledOnce, Billing
  <2>10. RevenueOnce(q)'
    <3>1. RevenueOnce(p) /\ ~Recognizing(p) /\ ~Recognizing(q)
      BY <1>2, <1>5, <1>13 DEF Turn, Recognizing, Converting
    <3>2. \A y \in Units : SameRevenue(y)
      BY <1>7 DEF SameRevenue
    <3>3. \A z \in Sales : /\ db'[z].unit = db[z].unit /\ db'[z].status = db[z].status
                           /\ Joining(p, z) => Joining(q, z)
      BY <1>2, <1>5, <1>7 DEF Joining, Converting, Posts
    <3> QED  BY <3>1, <3>2, <3>3, RevenueStays
  <2> QED  BY <2>5, <2>8, <2>9, <2>10 DEF Turn
<1> QED  BY <1>2, <1>4, <1>5, <1>9, <1>10, <1>11, <1>12, <1>13, StepKeeps DEF Converting

LEMMA UnitOfSaleMarked ==
    ASSUME SalesInv, NEW c \in Calls, NEW r \in Reservations, At(c, "convert", "unit", r, None),
           SellUnit(UnitOf[r]), Goto(c, "bill")
    PROVE  StepSound
<1>0. "unit" \in ConversionSteps /\ "bill" \in ConversionSteps
  BY DEF ConversionSteps
<1>1. PICK s \in Sales : /\ Converting(call[c], "unit", r, s) /\ db[s].status # "ABSENT"
                         /\ call[c] # Idle
  BY <1>0, ConversionOf
<1>2. PICK p : p = call[c] /\ p # Idle /\ Converting(p, "unit", r, s)
  BY <1>1
<1>3. PICK x \in Units : x = UnitOf[r]
  BY SalesAssumption
<1>4. /\ \E q \in SalesCall : Converting(q, "bill", r, s) /\ call' = [call EXCEPT ![c] = q]
      /\ tidy' \in BOOLEAN /\ tidy' = tidy
  BY <1>0, <1>1, ConversionGoes DEF Converting
<1>5. PICK q \in SalesCall : Converting(q, "bill", r, s) /\ call' = [call EXCEPT ![c] = q]
  BY <1>4
<1>6. /\ OnlyTheseChange({x})
      /\ DOMAIN db' = EstateRows /\ db' = [z \in DOMAIN db' |-> db'[z]]
      /\ db'[x] = [status |-> "ALLOCATED", recognized |-> db[x].recognized,
                   resold |-> db[x].resold + IF db[x].status = "HANDED_OVER" THEN 1 ELSE 0]
      /\ \A z \in EstateRows \ {x} : db'[z] = db[z]
  BY <1>3, UnitSold DEF SalesInv, SalesTyped, OnlyTheseChange
<1>7. /\ \A t \in Reservations : db'[t] = db[t]
      /\ \A i \in Bills : db'[i] = db[i]
      /\ \A y \in Units \ {x} : db'[y] = db[y]
      /\ \A z \in Sales : db'[z] = db[z]
  BY <1>6, SalesAssumption DEF EstateRows
<1>8. RowsTyped' /\ RowsLinked' /\ Kept
  <2>1. UnitStays(x)
    <3>1. PICK n \in Nat, m \in Nat : n = db[x].recognized /\ m = db[x].resold
      BY DEF SalesInv, SalesTyped, RowsTyped, UnitRow
    <3>2. PICK k \in Nat : k = m + IF db[x].status = "HANDED_OVER" THEN 1 ELSE 0
      OBVIOUS
    <3>3. db'[x] = [status |-> "ALLOCATED", recognized |-> n, resold |-> k]
      BY <1>6, <3>1, <3>2
    <3>4. db'[x] \in UnitRow /\ db'[x].recognized = n
      BY <3>3 DEF UnitRow, UnitStatus
    <3> QED  BY <3>1, <3>4 DEF UnitStays
  <2>2. (\A y \in Units : UnitStays(y)) /\ (\A z \in Sales : SaleStays(z))
    BY <1>7, <2>1, UnitUntouched, SaleUntouched
  <2>3. RecordsStay
    BY <1>6, RecordsAside
  <2> QED  BY <1>6, <1>7, <2>2, <2>3, SalesWritten
<1>9. RequestOK(q)'
  BY <1>1, <1>5, <1>7 DEF Converting, RequestOK, ConversionRequest, Posts
<1>10. ASSUME tidy, Turn(p) PROVE Turn(q)'
  <2>1. ConversionInTurn(p) /\ UnitsHeldOnce(p) /\ SalesBilledOnce(p)
    BY <1>2, <1>10 DEF Turn, TurnOK, Converting
  <2>2. /\ SaleHolds(s, x) /\ db[s].bill = None
        /\ db[r].status = "CONVERTED" /\ db[r].sale = s
    BY <1>2, <1>3, <2>1 DEF ConversionInTurn, Converting, Posts
  <2>3. \A z \in Sales, y \in Units : SaleHolds(z, y)' <=> SaleHolds(z, y)
    BY <1>7 DEF SaleHolds, LiveSale
  <2>4. \A t \in Reservations, y \in Units : ReservationHolds(t, y)' <=> ReservationHolds(t, y)
    BY <1>7 DEF ReservationHolds
  <2>5. \A y \in Units : (OneHolds(y)' <=> OneHolds(y)) /\ (NoneHolds(y)' <=> NoneHolds(y))
    BY <2>3, <2>4, HoldersStay
  <2>6. TurnOK(q)'
    <3>1. SaleHolds(s, x)' /\ db'[s].bill = None /\ db'[r].status = "CONVERTED" /\ db'[r].sale = s
      BY <1>7, <2>2, <2>3
    <3> QED  BY <1>3, <1>5, <3>1 DEF TurnOK, Recognizing, ConversionInTurn, Converting, Posts
  <2>7. \A y \in Units : ~Splitting(p, y) /\ ~Swapping(p, y)
    BY <1>2 DEF Converting, Splitting, Swapping
  <2>8. OneHolds(x) /\ ~NoneHolds(x)
    BY <2>1, <2>2, <2>7 DEF UnitsHeldOnce, NoneHolds
  <2>9. UnitsHeldOnce(q)'
    <3>1. \A y \in Units : /\ OneHolds(y)'
                           /\ db'[y].status = "AVAILABLE" => NoneHolds(y)'
                           /\ NoneHolds(y)' => db'[y].status \in {"AVAILABLE", "HANDED_OVER"}
      BY <1>6, <1>7, <2>1, <2>5, <2>7, <2>8 DEF UnitsHeldOnce
    <3>2. \A z \in Sales : LiveSale(z)' => db'[z].status \in {"RESERVED", "ALLOCATED", "HANDED_OVER"}
      BY <1>7, <2>1 DEF UnitsHeldOnce, LiveSale
    <3>3. \A t \in Reservations : db'[t].status = "ACTIVE" => db'[UnitOf[t]].status \in {"RESERVED", "HANDED_OVER"}
      <4>1. TAKE t \in Reservations
      <4>2. HAVE db'[t].status = "ACTIVE"
      <4>3. UnitOf[t] # x
        BY <1>7, <2>2, <2>8, <4>2 DEF OneHolds, ReservationHolds
      <4> QED  BY <1>7, <2>1, <4>2, <4>3, SalesAssumption DEF UnitsHeldOnce
    <3> QED  BY <3>1, <3>2, <3>3 DEF UnitsHeldOnce, Splitting, Swapping
  <2>10. SalesBilledOnce(q)'
    <3>1. \A t \in Reservations : Billing(p, t) => Billing(q, t)
      BY <1>2, <1>5 DEF Billing, Converting
    <3> QED  BY <1>7, <2>1, <3>1, BillsStay
  <2>11. RevenueOnce(q)'
    <3>1. RevenueOnce(p) /\ \A y \in Units : ~Marking(p, y) /\ ~Marking(q, y)' /\ ~Telling(p, y)
      BY <1>2, <1>5, <1>10 DEF Turn, Marking, Telling, Recognizing, Converting
    <3>2. ASSUME NEW y \in Units
          PROVE  db'[y].recognized = db'[y].resold + IF db'[y].status = "HANDED_OVER" THEN 1 ELSE 0
      <4>1. CASE y # x
        BY <1>7, <3>1, <4>1 DEF RevenueOnce
      <4>2. CASE y = x
        <5>1. PICK n \in Nat, m \in Nat : n = db[x].recognized /\ m = db[x].resold
          BY DEF SalesInv, SalesTyped, RowsTyped, UnitRow
        <5>2. n = m + IF db[x].status = "HANDED_OVER" THEN 1 ELSE 0
          BY <3>1, <5>1 DEF RevenueOnce
        <5>3. /\ db'[x].status = "ALLOCATED" /\ db'[x].recognized = n
              /\ db'[x].resold = m + IF db[x].status = "HANDED_OVER" THEN 1 ELSE 0
          BY <1>6, <5>1
        <5> QED  BY <4>2, <5>1, <5>2, <5>3
      <4> QED  BY <4>1, <4>2
    <3>3. ASSUME NEW y \in Units, NEW z \in Sales, db'[y].status = "HANDED_OVER", db'[z].unit = y
          PROVE  db'[z].status = "HANDED_OVER"
      <4>1. y # x /\ db[y].status = "HANDED_OVER" /\ db[z].unit = y
        BY <1>6, <1>7, <3>3
      <4>2. z # s
        BY <2>2, <4>1 DEF SaleHolds
      <4>3. ~Joining(p, z)
        BY <1>2, <4>2 DEF Joining, Converting
      <4> QED  BY <1>7, <3>1, <4>1, <4>3 DEF RevenueOnce
    <3> QED  BY <3>1, <3>2, <3>3 DEF RevenueOnce
  <2> QED  BY <2>6, <2>9, <2>10, <2>11 DEF Turn
<1> QED  BY <1>2, <1>4, <1>5, <1>8, <1>9, <1>10, StepKeeps DEF Converting

LEMMA SaleBilledNow ==
    ASSUME SalesInv, NEW c \in Calls, NEW r \in Reservations, At(c, "convert", "bill", r, None),
           NEW i \in Bills, In(i, {"ABSENT"}), OnlyTheseChange({call[c].seen, i}),
           SaleAs(call[c].seen, db[call[c].seen].cancelled, i),
           BillAs(i, "DRAFT", db[i].entries, db[i].ledger), Goto(c, "post")
    PROVE  StepSound
<1>0. "bill" \in ConversionSteps /\ "post" \in ConversionSteps
  BY DEF ConversionSteps, Posts
<1>1. PICK s \in Sales : /\ Converting(call[c], "bill", r, s) /\ db[s].status # "ABSENT"
                         /\ call[c] # Idle
  BY <1>0, ConversionOf
<1>2. PICK p : p = call[c] /\ p # Idle /\ Converting(p, "bill", r, s)
  BY <1>1
<1>3. PICK x \in Units : x = UnitOf[r]
  BY SalesAssumption
<1>4. /\ \E q \in SalesCall : Converting(q, "post", r, s) /\ call' = [call EXCEPT ![c] = q]
      /\ tidy' \in BOOLEAN /\ tidy' = tidy
  BY <1>0, <1>1, ConversionGoes DEF Converting
<1>5. PICK q \in SalesCall : Converting(q, "post", r, s) /\ call' = [call EXCEPT ![c] = q]
  BY <1>4
<1>6. /\ DOMAIN db' = EstateRows /\ db' = [z \in DOMAIN db' |-> db'[z]]
      /\ \A z \in EstateRows \ {s, i} : db'[z] = db[z]
  BY <1>1 DEF OnlyTheseChange, Converting
<1>7. /\ db'[s] = [status |-> db[s].status, unit |-> db[s].unit, cancelled |-> db[s].cancelled, bill |-> i]
      /\ db'[i] = [status |-> "DRAFT", entries |-> db[i].entries, ledger |-> db[i].ledger,
                   received |-> db[i].received]
  BY <1>1 DEF SaleAs, BillAs, Converting
<1>8. /\ \A t \in Reservations : db'[t] = db[t]
      /\ \A j \in Bills \ {i} : db'[j] = db[j]
      /\ \A y \in Units : db'[y] = db[y]
      /\ \A z \in Sales \ {s} : db'[z] = db[z]
  BY <1>6, SalesAssumption DEF EstateRows
<1>9. /\ db'[s].status = db[s].status /\ db'[s].unit = db[s].unit /\ db'[s].cancelled = db[s].cancelled
      /\ db'[s].bill = i /\ db'[i].status = "DRAFT" /\ db'[i].ledger = db[i].ledger /\ i # None
  BY <1>7, SalesAssumption
<1>10. db[i].ledger = 0 /\ \A z \in Sales : db[z].bill # i
  BY <1>9 DEF In, SalesInv, RowsLinked
<1>R. RecordsStay
  <2>1. {s, i} \subseteq Units \cup Reservations \cup Sales \cup Bills /\ OnlyTheseChange({s, i})
    BY <1>1 DEF Converting
  <2> QED  BY <2>1, RecordsAside
<1>11. RowsTyped'
  <2>1. db'[s] \in SaleRow /\ db'[i] \in BillRow
    BY <1>7 DEF SaleRow, BillRow, SalesInv, SalesTyped, RowsTyped
  <2> QED  BY <1>6, <1>8, <1>R, <2>1, RecordsKept DEF SalesInv, SalesTyped, RowsTyped
<1>12. RowsLinked'
  <2>1. /\ \A z \in Sales : db[z].bill \in Bills \cup {None}
        /\ \A t \in Reservations : db[t].sale \in Sales \cup {None}
    BY DEF SalesInv, SalesTyped, RowsTyped, SaleRow, ReservationRow
  <2>2. \A z \in Sales : /\ db'[z].status = "ABSENT" <=> db'[z].unit = None
                         /\ db'[z].status = "ABSENT" => db'[z].bill = None
                         /\ db'[z].bill # None => db'[db'[z].bill].status # "ABSENT"
    BY <1>1, <1>8, <1>9, <2>1 DEF SalesInv, RowsLinked
  <2>3. \A t \in Reservations : /\ db'[t].sale # None => db'[db'[t].sale].status # "ABSENT"
                                /\ db'[t].status = "CONVERTED" => db'[t].sale # None
    BY <1>1, <1>8, <1>9, <2>1 DEF SalesInv, RowsLinked
  <2>4. \A j \in Bills : db'[j].status = "ABSENT" => db'[j].ledger = 0
    BY <1>8, <1>9 DEF SalesInv, RowsLinked
  <2>5. \A h \in Handovers : db'[h].status # "ABSENT" => db'[h].unit \in Units
    BY <1>R, RecordsKept
  <2> QED  BY <2>2, <2>3, <2>4, <2>5 DEF RowsLinked
<1>13. Kept
  <2>1. /\ \A z \in Sales : /\ db'[z].status = db[z].status /\ db'[z].unit = db[z].unit
                            /\ db[z].bill # None => db'[z].bill # None
        /\ \A y \in Units : db'[y].recognized \in Nat /\ db[y].recognized <= db'[y].recognized
    <3>1. \A y \in Units : UnitStays(y)
      BY <1>8, UnitUntouched
    <3> QED  BY <1>8, <1>9, <3>1 DEF UnitStays, UnitRow
  <2>2. \A h \in Handovers :
           /\ db[h].status # "ABSENT" => db'[h].status # "ABSENT" /\ db'[h].unit = db[h].unit
           /\ db'[h].status = "COMPLETED" => db[h].status = "COMPLETED"
    BY <1>R, RecordsKept
  <2> QED  BY <2>1, <2>2 DEF Kept
<1>14. RequestOK(q)'
  BY <1>1, <1>5, <1>9 DEF Converting, RequestOK, ConversionRequest, Posts
<1>15. ASSUME tidy, Turn(p) PROVE Turn(q)'
  <2>1. ConversionInTurn(p) /\ UnitsHeldOnce(p) /\ SalesBilledOnce(p)
    BY <1>2, <1>15 DEF Turn, TurnOK, Converting
  <2>2. SaleHolds(s, x) /\ db[r].status = "CONVERTED" /\ db[r].sale = s
    BY <1>2, <1>3, <2>1 DEF ConversionInTurn, Converting, Posts
  <2>3. UnitsHeldOnce(q)'
    <3>1. \A y \in Units : (Splitting(p, y) => Splitting(q, y)) /\ (Swapping(p, y) => Swapping(q, y))
      BY <1>2 DEF Converting, Splitting, Swapping
    <3>2. \A z \in Sales : /\ db'[z].status = db[z].status /\ db'[z].unit = db[z].unit
                           /\ db'[z].cancelled = db[z].cancelled
      BY <1>8, <1>9
    <3> QED  BY <1>8, <2>1, <3>1, <3>2, UnitsStay
  <2>4. TurnOK(q)'
    <3>1. SaleHolds(s, x)'
      BY <1>9, <2>2 DEF SaleHolds, LiveSale
    <3>2. /\ db'[r].status = "CONVERTED" /\ db'[r].sale = s
          /\ db'[db'[s].bill].ledger = 0
      BY <1>8, <1>9, <1>10, <2>2
    <3> QED  BY <1>3, <1>5, <3>1, <3>2 DEF TurnOK, Recognizing, ConversionInTurn, Converting, Posts
  <2>5. SalesBilledOnce(q)'
    <3>1. /\ \A t \in Reservations : db'[t].sale # None => db'[t].status = "CONVERTED"
          /\ \A t, u \in Reservations : db'[t].sale = db'[u].sale /\ db'[t].sale # None => t = u
      BY <1>8, <2>1 DEF SalesBilledOnce
    <3>2. \A z, u \in Sales : db'[z].bill = db'[u].bill /\ db'[z].bill # None => z = u
      BY <1>8, <1>9, <1>10, <2>1 DEF SalesBilledOnce
    <3>3. \A z \in Sales : db'[z].bill # None => \E t \in Reservations : db'[t].sale = z
      BY <1>8, <2>1, <2>2 DEF SalesBilledOnce
    <3>4. \A t \in Reservations :
             db'[t].status = "CONVERTED" /\ ~Billing(q, t) =>
                 db'[db'[t].sale].bill # None /\ db'[db'[db'[t].sale].bill].ledger = 1
      <4>1. SUFFICES ASSUME NEW t \in Reservations, db'[t].status = "CONVERTED", ~Billing(q, t)
                     PROVE  db'[db'[t].sale].bill # None /\ db'[db'[db'[t].sale].bill].ledger = 1
        OBVIOUS
      <4>2. t # r /\ db[t].status = "CONVERTED" /\ ~Billing(p, t) /\ db'[t].sale = db[t].sale
        BY <1>2, <1>5, <1>8, <4>1 DEF Billing, Converting, Posts
      <4>3. PICK z \in Sales : z = db[t].sale
        BY <4>2 DEF SalesInv, SalesTyped, RowsTyped, RowsLinked, ReservationRow
      <4>4. z # s
        BY <2>1, <2>2, <4>2, <4>3, SalesAssumption DEF SalesBilledOnce
      <4>5. db[z].bill # None /\ db[z].bill \in Bills /\ db[db[z].bill].ledger = 1
        BY <2>1, <4>2, <4>3 DEF SalesBilledOnce, SalesInv, SalesTyped, RowsTyped, SaleRow
      <4> QED  BY <1>8, <1>10, <4>2, <4>3, <4>4, <4>5
    <3> QED  BY <3>1, <3>2, <3>3, <3>4 DEF SalesBilledOnce, Billing
  <2>6. RevenueOnce(q)'
    <3>1. RevenueOnce(p) /\ ~Recognizing(p) /\ ~Recognizing(q)
      BY <1>2, <1>5, <1>15 DEF Turn, Recognizing, Converting
    <3>2. \A y \in Units : SameRevenue(y)
      BY <1>8, <1>9 DEF SameRevenue
    <3>3. \A z \in Sales : /\ db'[z].unit = db[z].unit /\ db'[z].status = db[z].status
                           /\ Joining(p, z) => Joining(q, z)
      BY <1>2, <1>5, <1>8, <1>9 DEF Joining, Converting, Posts
    <3> QED  BY <3>1, <3>2, <3>3, RevenueStays
  <2> QED  BY <2>3, <2>4, <2>5, <2>6 DEF Turn
<1> QED  BY <1>2, <1>4, <1>5, <1>11, <1>12, <1>13, <1>14, <1>15, StepKeeps DEF Converting

\* A commit that writes one bill.
LEMMA BillRowWritten ==
    ASSUME SalesInv, NEW i \in Bills, NEW status \in {"DRAFT", "POSTED"}, NEW entries \in Nat, NEW ledger \in Nat,
           OnlyTheseChange({i}), BillAs(i, status, entries, ledger)
    PROVE  /\ RowsTyped' /\ RowsLinked' /\ Kept
           /\ \A x \in Units : db'[x] = db[x]
           /\ \A r \in Reservations : db'[r] = db[r]
           /\ \A s \in Sales : db'[s] = db[s]
           /\ \A j \in Bills \ {i} : db'[j] = db[j]
           /\ db'[i].ledger = ledger
<1>1. /\ DOMAIN db' = EstateRows /\ db' = [z \in DOMAIN db' |-> db'[z]]
      /\ db'[i] = [status |-> status, entries |-> entries, ledger |-> ledger, received |-> db[i].received]
  BY DEF OnlyTheseChange, BillAs
<1>2. /\ \A x \in Units : db'[x] = db[x]
      /\ \A r \in Reservations : db'[r] = db[r]
      /\ \A s \in Sales : db'[s] = db[s]
      /\ \A j \in Bills \ {i} : db'[j] = db[j]
  BY SalesAssumption DEF OnlyTheseChange, EstateRows
<1>3. db'[i].ledger = ledger /\ db'[i].status = status
  BY <1>1
<1>R. RecordsStay
  BY RecordsAside
<1>4. RowsTyped'
  <2>1. db'[i] \in BillRow
    BY <1>1 DEF BillRow, SalesInv, SalesTyped, RowsTyped
  <2> QED  BY <1>1, <1>2, <1>R, <2>1, RecordsKept DEF SalesInv, SalesTyped, RowsTyped
<1>5. RowsLinked'
  <2>1. /\ \A s \in Sales : db[s].bill \in Bills \cup {None}
        /\ \A t \in Reservations : db[t].sale \in Sales \cup {None}
    BY DEF SalesInv, SalesTyped, RowsTyped, SaleRow, ReservationRow
  <2>2. \A s \in Sales : db'[s].bill # None => db'[db'[s].bill].status # "ABSENT"
    BY <1>2, <1>3, <2>1 DEF SalesInv, RowsLinked
  <2>3. \A h \in Handovers : db'[h].status # "ABSENT" => db'[h].unit \in Units
    BY <1>R, RecordsKept
  <2> QED  BY <1>2, <1>3, <2>1, <2>2, <2>3 DEF SalesInv, RowsLinked
<1>6. Kept
  <2>1. \A s \in Sales : SaleStays(s)
    BY <1>2, SaleUntouched
  <2> QED  BY <1>2, <1>R, <2>1, StaysKept
<1> QED  BY <1>2, <1>3, <1>4, <1>5, <1>6

IsBillOf(q, i) == i = db[q.seen].bill

LEMMA BillOfConversion ==
    ASSUME SalesInv, NEW c \in Calls, NEW r \in Reservations, NEW at \in Posts, At(c, "convert", at, r, None)
    PROVE  \E i \in Bills : /\ IsBillOf(call[c], i) /\ db[i].status \in {"DRAFT", "POSTED"}
                            /\ db[i].entries \in Nat /\ db[i].ledger \in Nat
<1>1. at \in ConversionSteps
  BY DEF ConversionSteps
<1>2. PICK s \in Sales : Converting(call[c], at, r, s) /\ db[s].bill \in Bills
  BY <1>1, ConversionOf
<1>3. PICK i \in Bills : i = db[s].bill /\ i # None
  BY <1>2, SalesAssumption
<1>4. db[i] \in BillRow /\ db[i].status # "ABSENT"
  BY <1>3 DEF SalesInv, SalesTyped, RowsTyped, RowsLinked
<1>5. db[i].status \in {"DRAFT", "POSTED"} /\ db[i].entries \in Nat /\ db[i].ledger \in Nat
  BY <1>4 DEF BillRow
<1> QED  BY <1>2, <1>3, <1>5 DEF IsBillOf, Converting

\* postSystemEntry and the change of status: the customer ledger is as it was.
LEMMA BillPosting ==
    ASSUME SalesInv, NEW c \in Calls, NEW r \in Reservations, NEW from \in Posts, NEW at \in Posts,
           At(c, "convert", from, r, None), Goto(c, at), NEW i \in Bills, IsBillOf(call[c], i),
           NEW status \in {"DRAFT", "POSTED"}, NEW entries \in Nat,
           OnlyTheseChange({i}), BillAs(i, status, entries, db[i].ledger)
    PROVE  StepSound
<1>0. from \in ConversionSteps /\ at \in ConversionSteps
  BY DEF ConversionSteps
<1>1. PICK s \in Sales : /\ Converting(call[c], from, r, s) /\ db[s].status # "ABSENT"
                         /\ call[c] # Idle
  BY <1>0, ConversionOf
<1>2. PICK p : p = call[c] /\ p # Idle /\ Converting(p, from, r, s) /\ db[s].bill = i
  BY <1>1 DEF Converting, IsBillOf
<1>3. PICK x \in Units : x = UnitOf[r]
  BY SalesAssumption
<1>4. /\ \E q \in SalesCall : Converting(q, at, r, s) /\ call' = [call EXCEPT ![c] = q]
      /\ tidy' \in BOOLEAN /\ tidy' = tidy
  BY <1>0, <1>1, ConversionGoes DEF Converting
<1>5. PICK q \in SalesCall : Converting(q, at, r, s) /\ call' = [call EXCEPT ![c] = q]
  BY <1>4
<1>6. db[i].ledger \in Nat
  BY DEF SalesInv, SalesTyped, RowsTyped, BillRow
<1>7. /\ RowsTyped' /\ RowsLinked' /\ Kept
      /\ \A y \in Units : db'[y] = db[y]
      /\ \A t \in Reservations : db'[t] = db[t]
      /\ \A z \in Sales : db'[z] = db[z]
      /\ \A j \in Bills : db'[j].ledger = db[j].ledger
  BY <1>6, BillRowWritten
<1>8. i # None
  BY SalesAssumption
<1>9. RequestOK(q)'
  BY <1>1, <1>2, <1>5, <1>7, <1>8 DEF Converting, RequestOK, ConversionRequest, Posts
<1>10. ASSUME tidy, Turn(p) PROVE Turn(q)'
  <2>1. ConversionInTurn(p) /\ UnitsHeldOnce(p) /\ SalesBilledOnce(p)
    BY <1>2, <1>10 DEF Turn, TurnOK, Converting
  <2>2. /\ SaleHolds(s, x) /\ db[r].status = "CONVERTED" /\ db[r].sale = s
        /\ db[i].ledger = 0
    BY <1>2, <1>3, <2>1 DEF ConversionInTurn, Converting, Posts
  <2>3. UnitsHeldOnce(q)'
    <3>1. \A y \in Units : (Splitting(p, y) => Splitting(q, y)) /\ (Swapping(p, y) => Swapping(q, y))
      BY <1>2 DEF Converting, Splitting, Swapping, Posts
    <3> QED  BY <1>7, <2>1, <3>1, UnitsStay
  <2>4. TurnOK(q)'
    <3>1. SaleHolds(s, x)'
      BY <1>7, <2>2 DEF SaleHolds, LiveSale
    <3>2. /\ db'[r].status = "CONVERTED" /\ db'[r].sale = s
          /\ db'[db'[s].bill].ledger = 0
      BY <1>2, <1>7, <2>2
    <3> QED  BY <1>3, <1>5, <3>1, <3>2 DEF TurnOK, Recognizing, ConversionInTurn, Converting, Posts
  <2>5. SalesBilledOnce(q)'
    <3>1. \A t \in Reservations : Billing(p, t) => Billing(q, t)
      BY <1>2, <1>5 DEF Billing, Converting
    <3> QED  BY <1>7, <2>1, <3>1, BillsStay
  <2>6. RevenueOnce(q)'
    <3>1. RevenueOnce(p) /\ ~Recognizing(p) /\ ~Recognizing(q)
      BY <1>2, <1>5, <1>10 DEF Turn, Recognizing, Converting
    <3>2. \A y \in Units : SameRevenue(y)
      BY <1>7 DEF SameRevenue
    <3>3. \A z \in Sales : /\ db'[z].unit = db[z].unit /\ db'[z].status = db[z].status
                           /\ Joining(p, z) => Joining(q, z)
      BY <1>2, <1>5, <1>7 DEF Joining, Converting, Posts
    <3> QED  BY <3>1, <3>2, <3>3, RevenueStays
  <2> QED  BY <2>3, <2>4, <2>5, <2>6 DEF Turn
<1> QED  BY <1>2, <1>4, <1>5, <1>7, <1>9, <1>10, StepKeeps DEF Converting

LEMMA BillInLedger ==
    ASSUME SalesInv, NEW c \in Calls, NEW r \in Reservations, At(c, "convert", "ledger", r, None), Leave(c),
           NEW i \in Bills, IsBillOf(call[c], i),
           OnlyTheseChange({i}), BillAs(i, db[i].status, db[i].entries, db[i].ledger + 1)
    PROVE  StepSound
<1>0. "ledger" \in ConversionSteps
  BY DEF ConversionSteps, Posts
<1>1. PICK s \in Sales : /\ Converting(call[c], "ledger", r, s) /\ db[s].status # "ABSENT"
                         /\ call[c] # Idle
  BY <1>0, ConversionOf
<1>2. PICK p : p = call[c] /\ p # Idle /\ Converting(p, "ledger", r, s) /\ db[s].bill = i
  <2>1. db[s].bill = i
    BY <1>1, SMTT(30) DEF Converting, IsBillOf
  <2> QED  BY <1>1, <2>1
<1>3. db[i].status \in {"DRAFT", "POSTED"} /\ db[i].entries \in Nat /\ db[i].ledger \in Nat /\ i # None
  <2>1. PICK j \in Bills : /\ IsBillOf(call[c], j) /\ db[j].status \in {"DRAFT", "POSTED"}
                           /\ db[j].entries \in Nat /\ db[j].ledger \in Nat
    BY BillOfConversion DEF Posts
  <2> QED  BY <2>1, SalesAssumption DEF IsBillOf
<1>4. /\ RowsTyped' /\ RowsLinked' /\ Kept
      /\ \A y \in Units : db'[y] = db[y]
      /\ \A t \in Reservations : db'[t] = db[t]
      /\ \A z \in Sales : db'[z] = db[z]
      /\ \A j \in Bills \ {i} : db'[j] = db[j]
      /\ db'[i].ledger = db[i].ledger + 1
  <2>1. PICK status \in {"DRAFT", "POSTED"}, entries \in Nat, ledger \in Nat :
           status = db[i].status /\ entries = db[i].entries /\ ledger = db[i].ledger + 1
    BY <1>3
  <2>2. BillAs(i, status, entries, ledger)
    BY <2>1
  <2> QED  BY <2>1, <2>2, BillRowWritten
<1>5. /\ \A t \in Reservations : db'[t] = db[t]
      /\ \A z \in Sales : db'[z] = db[z]
  BY <1>4
<1>6. ASSUME tidy, Turn(p) PROVE (UnitsHeldOnce(Idle) /\ SalesBilledOnce(Idle) /\ RevenueOnce(Idle))'
  <2>1. ConversionInTurn(p) /\ UnitsHeldOnce(p) /\ SalesBilledOnce(p)
    BY <1>2, <1>6 DEF Turn, TurnOK, Converting
  <2>2. db[r].status = "CONVERTED" /\ db[r].sale = s /\ db[i].ledger = 0
    BY <1>2, <2>1 DEF ConversionInTurn, Converting, Posts
  <2>3. UnitsHeldOnce(Idle)'
    <3>1. \A y \in Units : (Splitting(p, y) => Splitting(Idle, y)) /\ (Swapping(p, y) => Swapping(Idle, y))
      BY <1>2 DEF Converting, Splitting, Swapping
    <3> QED  BY <1>4, <2>1, <3>1, UnitsStay
  <2>4. SalesBilledOnce(Idle)'
    <3>1. /\ \A t \in Reservations : db'[t].sale # None => db'[t].status = "CONVERTED"
          /\ \A t, u \in Reservations : db'[t].sale = db'[u].sale /\ db'[t].sale # None => t = u
      BY <1>5, <2>1 DEF SalesBilledOnce
    <3>2. /\ \A z, u \in Sales : db'[z].bill = db'[u].bill /\ db'[z].bill # None => z = u
          /\ \A z \in Sales : db'[z].bill # None => \E t \in Reservations : db'[t].sale = z
      BY <1>5, <2>1 DEF SalesBilledOnce
    <3>3. \A t \in Reservations :
             db'[t].status = "CONVERTED" =>
                 db'[db'[t].sale].bill # None /\ db'[db'[db'[t].sale].bill].ledger = 1
      <4>1. SUFFICES ASSUME NEW t \in Reservations, db'[t].status = "CONVERTED"
                     PROVE  db'[db'[t].sale].bill # None /\ db'[db'[db'[t].sale].bill].ledger = 1
        OBVIOUS
      <4>2. db[t].status = "CONVERTED" /\ db'[t].sale = db[t].sale
        BY <1>4, <4>1
      <4>3. PICK z \in Sales : z = db[t].sale
        BY <4>2 DEF SalesInv, SalesTyped, RowsTyped, RowsLinked, ReservationRow
      <4>4. CASE t = r
        <5>1. db'[t].sale = s /\ db'[s].bill = i
          BY <1>2, <1>5, <2>2, <4>4
        <5>2. db'[i].ledger = 1
          BY <1>4, <2>2
        <5> QED  BY <1>3, <5>1, <5>2
      <4>5. CASE t # r
        <5>0. ~Billing(p, t)
          BY <1>2, <4>5 DEF Billing, Converting
        <5>1. z # s
          <6>1. s # None
            BY SalesAssumption
          <6> QED  BY <2>1, <2>2, <4>3, <4>5, <6>1 DEF SalesBilledOnce
        <5>2. db[z].bill # None /\ db[z].bill \in Bills /\ db[db[z].bill].ledger = 1
          BY <2>1, <4>2, <4>3, <5>0 DEF SalesBilledOnce, SalesInv, SalesTyped, RowsTyped, SaleRow
        <5>3. db[z].bill # i
          <6>1. \A u, w \in Sales : db[u].bill = db[w].bill /\ db[u].bill # None => u = w
            BY <2>1 DEF SalesBilledOnce
          <6> QED  BY <1>2, <1>3, <5>1, <6>1
        <5> QED  BY <1>4, <4>2, <4>3, <5>2, <5>3
      <4> QED  BY <4>4, <4>5
    <3> QED  BY <3>1, <3>2, <3>3 DEF SalesBilledOnce, Billing
  <2>5. RevenueOnce(Idle)'
    <3>1. RevenueOnce(p) /\ ~Recognizing(p) /\ ~Recognizing(Idle)
      BY <1>2, <1>6 DEF Turn, Recognizing, Converting, Idle
    <3>2. \A y \in Units : SameRevenue(y)
      BY <1>4 DEF SameRevenue
    <3>3. \A z \in Sales : db'[z].unit = db[z].unit /\ db'[z].status = db[z].status /\ ~Joining(p, z)
      BY <1>2, <1>5 DEF Joining, Converting
    <3> QED  BY <3>1, <3>2, <3>3, RevenueStays
  <2> QED  BY <2>3, <2>4, <2>5
<1> QED  BY <1>2, <1>4, <1>6, CommitEnds

LEMMA ConversionKeeps ==
    ASSUME SalesInv, NEW c \in Calls, NEW r \in Reservations, ConvertReservationToSale(c, r)
    PROVE  StepSound
<1>1. RowsTyped
  BY DEF SalesInv, SalesTyped
<1>2. CASE MayConvert(r) /\ Enter(c, "convert", "sale", r, None, None)
  BY <1>2, ConversionEntered
<1>3. CASE /\ At(c, "convert", "sale", r, None)
           /\ \E s \in Sales : /\ In(s, {"ABSENT"})
                               /\ db' = [db EXCEPT ![s] = NewSale(UnitOf[r], "ALLOCATED")]
                               /\ Keep(c, "reservation", s)
  BY <1>1, <1>3, SaleMade, SaleOfReservation
<1>4. CASE /\ At(c, "convert", "reservation", r, None) /\ Goto(c, "unit")
           /\ db' = [db EXCEPT ![r].status = "CONVERTED", ![r].sale = call[c].seen]
  BY <1>1, <1>4, ReservationConverted, ReservationEnds
<1>5. CASE At(c, "convert", "unit", r, None) /\ SellUnit(UnitOf[r]) /\ Goto(c, "bill")
  BY <1>5, UnitOfSaleMarked
<1>6. CASE /\ At(c, "convert", "bill", r, None) /\ Goto(c, "post")
           /\ \E i \in Bills : /\ In(i, {"ABSENT"})
                               /\ db' = [db EXCEPT ![i].status = "DRAFT", ![call[c].seen].bill = i]
  <2>1. "bill" \in ConversionSteps
    BY DEF ConversionSteps
  <2>2. PICK s \in Sales : Converting(call[c], "bill", r, s)
    BY <1>6, <2>1, ConversionOf
  <2>3. s = call[c].seen
    BY <2>2 DEF Converting
  <2>4. PICK i \in Bills : In(i, {"ABSENT"}) /\ db' = [db EXCEPT ![i].status = "DRAFT", ![s].bill = i]
    BY <1>6, <2>3
  <2>5. /\ OnlyTheseChange({s, i})
        /\ SaleAs(s, db[s].cancelled, i) /\ BillAs(i, "DRAFT", db[i].entries, db[i].ledger)
    BY <1>1, <2>4, SaleBillMade
  <2> QED  BY <1>6, <2>3, <2>4, <2>5, SaleBilledNow
<1>7. CASE At(c, "convert", "post", r, None) /\ PostEntry(db[call[c].seen].bill) /\ Goto(c, "posted")
  <2>1. "post" \in Posts /\ "posted" \in Posts
    BY DEF Posts
  <2>2. PICK i \in Bills : /\ IsBillOf(call[c], i) /\ db[i].status \in {"DRAFT", "POSTED"}
                           /\ db[i].entries \in Nat
    BY <1>7, <2>1, BillOfConversion
  <2>3. PICK status \in {"DRAFT", "POSTED"}, entries \in Nat : status = db[i].status /\ entries = db[i].entries + 1
    BY <2>2
  <2>4. PostEntry(i)
    BY <1>7, <2>2 DEF IsBillOf
  <2>5. OnlyTheseChange({i}) /\ BillAs(i, status, entries, db[i].ledger)
    BY <1>1, <2>3, <2>4, BillWritten
  <2> QED  BY <1>7, <2>1, <2>2, <2>5, BillPosting
<1>8. CASE At(c, "convert", "posted", r, None) /\ Becomes(db[call[c].seen].bill, "POSTED") /\ Goto(c, "ledger")
  <2>1. "posted" \in Posts /\ "ledger" \in Posts
    BY DEF Posts
  <2>2. PICK i \in Bills : IsBillOf(call[c], i) /\ db[i].entries \in Nat
    BY <1>8, <2>1, BillOfConversion
  <2>3. PICK entries \in Nat : entries = db[i].entries
    BY <2>2
  <2>4. Becomes(i, "POSTED")
    BY <1>8, <2>2 DEF IsBillOf
  <2>5. OnlyTheseChange({i}) /\ BillAs(i, "POSTED", entries, db[i].ledger)
    BY <1>1, <2>3, <2>4, BillWritten
  <2> QED  BY <1>8, <2>1, <2>2, <2>5, BillPosting
<1>9. CASE At(c, "convert", "ledger", r, None) /\ WriteLedger(db[call[c].seen].bill) /\ Leave(c)
  <2>1. "ledger" \in Posts
    BY DEF Posts
  <2>2. PICK i \in Bills : IsBillOf(call[c], i)
    BY <1>9, <2>1, BillOfConversion
  <2>3. WriteLedger(i)
    BY <1>9, <2>2 DEF IsBillOf
  <2>4. OnlyTheseChange({i}) /\ BillAs(i, db[i].status, db[i].entries, db[i].ledger + 1)
    BY <1>1, <2>3, BillWritten
  <2> QED  BY <1>9, <2>2, <2>4, BillInLedger
<1> QED  BY <1>2, <1>3, <1>4, <1>5, <1>6, <1>7, <1>8, <1>9 DEF ConvertReservationToSale

-----------------------------------------------------------------------------
(* Sales *)

\* Any status, by hand.
LEMMA StatusByHandKeeps ==
    ASSUME SalesInv, NEW x \in Units, NEW status \in UnitStatus, UpdateUnitStatus(x, status)
    PROVE  StepSound
<1>1. tidy' = FALSE /\ call' = call /\ OnlyTheseChange({x}) /\ UnitAs(x, status)
  BY UnitMarked DEF UpdateUnitStatus, Becomes, SalesInv, SalesTyped
<1>2. /\ DOMAIN db' = EstateRows /\ db' = [z \in DOMAIN db' |-> db'[z]]
      /\ db'[x] = [status |-> status, recognized |-> db[x].recognized, resold |-> db[x].resold]
      /\ \A z \in EstateRows \ {x} : db'[z] = db[z]
  BY <1>1 DEF OnlyTheseChange, UnitAs
<1>3. /\ \A t \in Reservations : db'[t] = db[t]
      /\ \A i \in Bills : db'[i] = db[i]
      /\ \A y \in Units \ {x} : db'[y] = db[y]
      /\ \A z \in Sales : db'[z] = db[z]
  BY <1>2, SalesAssumption DEF EstateRows
<1>4. RowsTyped' /\ RowsLinked' /\ Kept
  <2>1. UnitStays(x)
    <3>1. PICK n \in Nat : n = db[x].recognized
      BY DEF SalesInv, SalesTyped, RowsTyped, UnitRow
    <3>2. db'[x] \in UnitRow /\ db'[x].recognized = n
      BY <1>2, <3>1 DEF UnitRow, SalesInv, SalesTyped, RowsTyped
    <3> QED  BY <3>1, <3>2 DEF UnitStays
  <2>2. (\A y \in Units : UnitStays(y)) /\ (\A z \in Sales : SaleStays(z))
    BY <1>3, <2>1, UnitUntouched, SaleUntouched
  <2>3. RecordsStay
    BY <1>1, RecordsAside
  <2> QED  BY <1>2, <1>3, <2>2, <2>3, SalesWritten
<1> QED  BY <1>1, <1>4, OthersKeep

LEMMA UnitWritten ==
    ASSUME SalesInv, NEW x \in Units, NEW status \in UnitStatus,
           db'[x] = [status |-> status, recognized |-> db[x].recognized, resold |-> db[x].resold]
    PROVE  UnitStays(x)
<1>1. PICK n \in Nat : n = db[x].recognized
  BY DEF SalesInv, SalesTyped, RowsTyped, UnitRow
<1>2. db'[x] \in UnitRow /\ db'[x].recognized = n
  BY <1>1 DEF UnitRow, SalesInv, SalesTyped, RowsTyped
<1> QED  BY <1>1, <1>2 DEF UnitStays

\* A sale of unit x is made: the other holders are as they were.
LEMMA SaleJoins ==
    ASSUME SalesInv, NEW s \in Sales, db[s].status = "ABSENT", NEW x \in Units, NEW status \in UnitStatus \ {"HANDED_OVER"},
           db'[s] = NewSale(x, status)
    PROVE  /\ \A y \in Units : ~SaleHolds(s, y) /\ (SaleHolds(s, y)' <=> y = x)
           /\ SaleStays(s) /\ db'[s].bill = db[s].bill /\ db'[s].status = status /\ db'[s].unit = x
           /\ db'[s].status # "ABSENT" /\ db'[s].unit # None /\ LiveSale(s)'
<1>1. status \in SaleStatus /\ status \notin {"ABSENT", "HANDED_OVER"} /\ x # None
  BY SalesAssumption DEF SaleStatus, UnitStatus
<1>2. db'[s] \in SaleRow
  BY <1>1, NewSaleTyped
<1>3. db[s].bill = None
  BY DEF SalesInv, RowsLinked
<1>4. /\ db'[s].status = status /\ db'[s].unit = x /\ db'[s].cancelled = FALSE /\ db'[s].bill = None
  BY DEF NewSale
<1>5. SaleStays(s)
  BY <1>1, <1>2, <1>3, <1>4 DEF SaleStays
<1> QED  BY <1>1, <1>3, <1>4, <1>5 DEF SaleHolds, LiveSale

\* A sale is cancelled: it holds nothing any more.
LEMMA SaleGoes ==
    ASSUME SalesInv, NEW s \in Sales, db[s].status # "ABSENT", SaleAs(s, TRUE, db[s].bill)
    PROVE  /\ \A y \in Units : ~SaleHolds(s, y)'
           /\ SaleStays(s) /\ db'[s].bill = db[s].bill /\ ~LiveSale(s)'
           /\ db'[s].status = db[s].status /\ db'[s].unit = db[s].unit
           /\ db'[s].status # "ABSENT" /\ db'[s].unit # None
<1>1. db[s] \in SaleRow /\ db[s].unit # None
  BY DEF SalesInv, SalesTyped, RowsTyped, RowsLinked
<1>2. db'[s] = [status |-> db[s].status, unit |-> db[s].unit, cancelled |-> TRUE, bill |-> db[s].bill]
  BY DEF SaleAs
<1>3. db'[s] \in SaleRow
  BY <1>1, <1>2 DEF SaleRow
<1>4. /\ db'[s].status = db[s].status /\ db'[s].unit = db[s].unit /\ db'[s].cancelled = TRUE
      /\ db'[s].bill = db[s].bill
  BY <1>2
<1>5. SaleStays(s)
  BY <1>1, <1>3, <1>4 DEF SaleStays
<1> QED  BY <1>1, <1>4, <1>5 DEF SaleHolds, LiveSale

LEMMA AllocateUnitKeeps ==
    ASSUME SalesInv, NEW c \in Calls, NEW x \in Units, AllocateUnit(c, x)
    PROVE  StepSound
<1>1. CASE In(x, {"AVAILABLE"}) /\ Enter(c, "allocate", "write", x, None, None)
  <2>1. PICK q : q = [op |-> "allocate", at |-> "write", row |-> x, arg |-> None, seen |-> None]
    OBVIOUS
  <2>2. q \in SalesCall /\ RequestOK(q)
    BY <2>1 DEF SalesCall, RequestOK, AllocationRequest
  <2>3. TurnOK(q)
    BY <1>1, <2>1 DEF TurnOK, Recognizing, In
  <2> QED  BY <1>1, <2>1, <2>2, <2>3, EnterKeeps
<1>2. CASE /\ At(c, "allocate", "write", x, None) /\ Leave(c)
           /\ \E s \in Sales :
                 /\ In(s, {"ABSENT"})
                 /\ db' = [db EXCEPT ![s] = NewSale(x, "RESERVED"), ![x].status = "RESERVED"]
  <2>1. PICK p : p = call[c]
    OBVIOUS
  <2>2. p.op = "allocate" /\ p.row = x /\ p.at = "write" /\ p # Idle
    BY <1>2, <2>1 DEF At, Idle
  <2>3. PICK s \in Sales : /\ db[s].status = "ABSENT" /\ OnlyTheseChange({s, x})
                           /\ db'[s] = NewSale(x, "RESERVED") /\ UnitAs(x, "RESERVED")
    BY <1>2, UnitAllocated DEF In, SalesInv, SalesTyped
  <2>4. /\ DOMAIN db' = EstateRows /\ db' = [z \in DOMAIN db' |-> db'[z]]
        /\ db'[x] = [status |-> "RESERVED", recognized |-> db[x].recognized, resold |-> db[x].resold]
        /\ \A z \in EstateRows \ {s, x} : db'[z] = db[z]
    BY <2>3 DEF OnlyTheseChange, UnitAs
  <2>5. /\ \A t \in Reservations : db'[t] = db[t]
        /\ \A i \in Bills : db'[i] = db[i]
        /\ \A y \in Units \ {x} : db'[y] = db[y]
        /\ \A z \in Sales \ {s} : db'[z] = db[z]
    BY <2>4, SalesAssumption DEF EstateRows
  <2>6. /\ \A y \in Units : ~SaleHolds(s, y) /\ (SaleHolds(s, y)' <=> y = x)
        /\ SaleStays(s) /\ db'[s].bill = db[s].bill /\ db'[s].status = "RESERVED" /\ db'[s].unit = x
        /\ db'[s].status # "ABSENT" /\ db'[s].unit # None /\ LiveSale(s)'
    <3>1. "RESERVED" \in UnitStatus \ {"HANDED_OVER"}
      BY DEF UnitStatus
    <3> QED  BY <2>3, <3>1, SaleJoins
  <2>7. RowsTyped' /\ RowsLinked' /\ Kept
    <3>1. UnitStays(x)
      BY <2>4, UnitWritten DEF UnitStatus
    <3>2. (\A y \in Units : UnitStays(y)) /\ (\A z \in Sales : SaleStays(z))
      BY <2>5, <2>6, <3>1, UnitUntouched, SaleUntouched
    <3>3. RecordsStay
      BY <2>3, RecordsAside
    <3> QED  BY <2>4, <2>5, <3>2, <3>3, SalesWritten
  <2>8. ASSUME tidy, Turn(p) PROVE (UnitsHeldOnce(Idle) /\ SalesBilledOnce(Idle) /\ RevenueOnce(Idle))'
    <3>1. db[x].status = "AVAILABLE" /\ UnitsHeldOnce(p) /\ SalesBilledOnce(p)
      BY <2>2, <2>8 DEF Turn, TurnOK
    <3>2. \A y \in Units : ~Splitting(p, y) /\ ~Swapping(p, y)
      BY <2>2 DEF Splitting, Swapping
    <3>3. NoneHolds(x)
      BY <3>1, <3>2 DEF UnitsHeldOnce
    <3>4. \A z \in Sales \ {s}, y \in Units : SaleHolds(z, y)' <=> SaleHolds(z, y)
      BY <2>5 DEF SaleHolds, LiveSale
    <3>5. \A t \in Reservations, y \in Units : ReservationHolds(t, y)' <=> ReservationHolds(t, y)
      BY <2>5 DEF ReservationHolds
    <3>6. \A y \in Units \ {x} : (OneHolds(y)' <=> OneHolds(y)) /\ (NoneHolds(y)' <=> NoneHolds(y))
      <4>1. TAKE y \in Units \ {x}
      <4>2. \A z \in Sales : SaleHolds(z, y)' <=> SaleHolds(z, y)
        BY <2>6, <3>4
      <4> QED  BY <3>5, <4>2, HoldersStay
    <3>7. OneHolds(x)' /\ ~NoneHolds(x)'
      BY <2>6, <3>3, <3>4, <3>5 DEF OneHolds, NoneHolds
    <3>8. UnitsHeldOnce(Idle)'
      <4>1. db'[x].status = "RESERVED"
        BY <2>4
      <4>2. \A y \in Units : /\ OneHolds(y)'
                             /\ db'[y].status = "AVAILABLE" => NoneHolds(y)'
                             /\ NoneHolds(y)' => db'[y].status \in {"AVAILABLE", "HANDED_OVER"}
        BY <2>5, <3>1, <3>2, <3>6, <3>7, <4>1 DEF UnitsHeldOnce
      <4>3. \A z \in Sales : LiveSale(z)' => db'[z].status \in {"RESERVED", "ALLOCATED", "HANDED_OVER"}
        BY <2>5, <2>6, <3>1 DEF UnitsHeldOnce, LiveSale
      <4>4. \A t \in Reservations : db'[t].status = "ACTIVE" => db'[UnitOf[t]].status \in {"RESERVED", "HANDED_OVER"}
        BY <2>5, <3>1, <4>1, SalesAssumption DEF UnitsHeldOnce
      <4> QED  BY <4>2, <4>3, <4>4 DEF UnitsHeldOnce, Splitting, Swapping
    <3>9. SalesBilledOnce(Idle)'
      <4>1. \A t \in Reservations : Billing(p, t) => Billing(Idle, t)
        BY <2>2 DEF Billing
      <4>2. \A z \in Sales : db'[z].bill = db[z].bill
        BY <2>5, <2>6
      <4> QED  BY <2>5, <3>1, <4>1, <4>2, BillsStay
    <3>10. RevenueOnce(Idle)'
      <4>1. RevenueOnce(p) /\ ~Recognizing(p) /\ ~Recognizing(Idle)
        BY <2>2, <2>8 DEF Turn, Recognizing, Idle
      <4>2. \A y \in Units : SameRevenue(y)
        BY <2>4, <2>5, <3>1 DEF SameRevenue
      <4>3. \A z \in Sales \ {s} : db'[z].unit = db[z].unit /\ db'[z].status = db[z].status /\ ~Joining(p, z)
        BY <2>2, <2>5 DEF Joining
      <4>4. db[db'[s].unit].status # "HANDED_OVER"
        BY <2>6, <3>1
      <4> QED  BY <4>1, <4>2, <4>3, <4>4, RevenueStays
    <3> QED  BY <3>8, <3>9, <3>10
  <2> QED  BY <1>2, <2>1, <2>2, <2>7, <2>8, CommitEnds
<1> QED  BY <1>1, <1>2 DEF AllocateUnit, Handler

SaleOps == {"cancelSale", "transferSale", "swapSale"}

\* What a request about a sale is about, and what it has read.
LEMMA SaleRequestOf ==
    ASSUME SalesInv, NEW c \in Calls, NEW s \in Sales, NEW op \in SaleOps, NEW at, NEW arg, At(c, op, at, s, arg)
    PROVE  /\ call[c] # Idle /\ call[c].op = op /\ call[c].at = at /\ call[c].row = s /\ call[c].arg = arg
           /\ db[s].status # "ABSENT" /\ db[s].unit \in Units
           /\ op # "cancelSale" => call[c].seen \in UnitStatus \ {"HANDED_OVER"}
<1>1. /\ RequestOK(call[c]) /\ call[c].op = op /\ call[c].row = s /\ call[c].at = at /\ call[c].arg = arg
  BY DEF SalesInv, At
<1>2. call[c] # Idle
  BY <1>1 DEF Idle, SaleOps
<1>3. SaleRequest(call[c])
  BY <1>1, <1>2 DEF RequestOK, ReservationRequest, AllocationRequest, ConversionRequest, RecordRequest,
                    CompletionRequest, UnitRequest, SaleOps
<1>4. db[s].status # "ABSENT" /\ (op # "cancelSale" => call[c].seen \in UnitStatus \ {"HANDED_OVER"})
  BY <1>1, <1>3 DEF SaleRequest
<1>5. db[s].unit \in Units
  BY <1>4 DEF SalesInv, SalesTyped, RowsTyped, RowsLinked, SaleRow
<1> QED  BY <1>1, <1>2, <1>4, <1>5

\* A sale that may still be cancelled or moved is of a unit that is not handed over.
LEMMA NotHandedOver ==
    ASSUME NEW p, Turn(p), p.op \in SaleOps, NEW s \in Sales, db[s].status # "HANDED_OVER", NEW x \in Units,
           x = db[s].unit
    PROVE  db[x].status # "HANDED_OVER"
  BY DEF Turn, RevenueOnce, Telling, Joining, Recognizing, SaleOps

LEMMA CancelAllocationKeeps ==
    ASSUME SalesInv, NEW c \in Calls, NEW s \in Sales, CancelAllocation(c, s)
    PROVE  StepSound
<1>1. CASE ~Ended(s) /\ Enter(c, "cancelSale", "write", s, None, None)
  <2>1. PICK q : q = [op |-> "cancelSale", at |-> "write", row |-> s, arg |-> None, seen |-> None]
    OBVIOUS
  <2>2. q \in SalesCall /\ RequestOK(q) /\ TurnOK(q)
    BY <1>1, <2>1 DEF SalesCall, RequestOK, SaleRequest, TurnOK, Recognizing, LiveSale, Ended, In
  <2> QED  BY <1>1, <2>1, <2>2, EnterKeeps
<1>2. CASE /\ At(c, "cancelSale", "write", s, None) /\ Leave(c)
           /\ db' = [db EXCEPT ![s].cancelled = TRUE, ![db[s].unit].status = "AVAILABLE"]
  <2>0. "cancelSale" \in SaleOps
    BY DEF SaleOps
  <2>1. PICK p : p = call[c] /\ p # Idle /\ p.op = "cancelSale" /\ p.row = s /\ p.at = "write"
    BY <1>2, <2>0, SaleRequestOf
  <2>2. PICK x \in Units : x = db[s].unit /\ db[s].status # "ABSENT"
    BY <1>2, <2>0, SaleRequestOf
  <2>3. OnlyTheseChange({s, x}) /\ SaleAs(s, TRUE, db[s].bill) /\ UnitAs(x, "AVAILABLE")
    BY <1>2, <2>2, SaleCancelled DEF SalesInv, SalesTyped
  <2>4. /\ DOMAIN db' = EstateRows /\ db' = [z \in DOMAIN db' |-> db'[z]]
        /\ db'[x] = [status |-> "AVAILABLE", recognized |-> db[x].recognized, resold |-> db[x].resold]
        /\ \A z \in EstateRows \ {s, x} : db'[z] = db[z]
    BY <2>3 DEF OnlyTheseChange, UnitAs
  <2>5. /\ \A t \in Reservations : db'[t] = db[t]
        /\ \A i \in Bills : db'[i] = db[i]
        /\ \A y \in Units \ {x} : db'[y] = db[y]
        /\ \A z \in Sales \ {s} : db'[z] = db[z]
    BY <2>4, SalesAssumption DEF EstateRows
  <2>6. /\ \A y \in Units : ~SaleHolds(s, y)'
        /\ SaleStays(s) /\ db'[s].bill = db[s].bill /\ ~LiveSale(s)'
        /\ db'[s].status = db[s].status /\ db'[s].unit = db[s].unit
        /\ db'[s].status # "ABSENT" /\ db'[s].unit # None
    BY <2>2, <2>3, SaleGoes
  <2>7. RowsTyped' /\ RowsLinked' /\ Kept
    <3>1. UnitStays(x)
      BY <2>4, UnitWritten DEF UnitStatus
    <3>2. (\A y \in Units : UnitStays(y)) /\ (\A z \in Sales : SaleStays(z))
      BY <2>5, <2>6, <3>1, UnitUntouched, SaleUntouched
    <3>3. RecordsStay
      BY <2>3, RecordsAside
    <3> QED  BY <2>4, <2>5, <3>2, <3>3, SalesWritten
  <2>8. ASSUME tidy, Turn(p) PROVE (UnitsHeldOnce(Idle) /\ SalesBilledOnce(Idle) /\ RevenueOnce(Idle))'
    <3>1. LiveSale(s) /\ db[s].status # "HANDED_OVER" /\ UnitsHeldOnce(p) /\ SalesBilledOnce(p)
      BY <2>1, <2>8 DEF Turn, TurnOK
    <3>2. \A y \in Units : ~Splitting(p, y) /\ ~Swapping(p, y)
      BY <2>1 DEF Splitting, Swapping
    <3>3. SaleHolds(s, x) /\ OneHolds(x) /\ (\A y \in Units : SaleHolds(s, y) => y = x)
      BY <2>2, <3>1, <3>2 DEF UnitsHeldOnce, SaleHolds
    <3>4. db[x].status # "HANDED_OVER"
      <4>1. p.op \in SaleOps /\ Turn(p)
        BY <2>1, <2>8 DEF SaleOps
      <4> QED  BY <2>2, <3>1, <4>1, NotHandedOver
    <3>5. \A z \in Sales \ {s}, y \in Units : SaleHolds(z, y)' <=> SaleHolds(z, y)
      BY <2>5 DEF SaleHolds, LiveSale
    <3>6. \A t \in Reservations, y \in Units : ReservationHolds(t, y)' <=> ReservationHolds(t, y)
      BY <2>5 DEF ReservationHolds
    <3>7. \A y \in Units \ {x} : (OneHolds(y)' <=> OneHolds(y)) /\ (NoneHolds(y)' <=> NoneHolds(y))
      <4>1. TAKE y \in Units \ {x}
      <4>2. \A z \in Sales : SaleHolds(z, y)' <=> SaleHolds(z, y)
        BY <2>6, <3>3, <3>5
      <4> QED  BY <3>6, <4>2, HoldersStay
    <3>8. OneHolds(x)' /\ NoneHolds(x)'
      BY <2>6, <3>3, <3>5, <3>6 DEF OneHolds, NoneHolds
    <3>9. UnitsHeldOnce(Idle)'
      <4>1. db'[x].status = "AVAILABLE"
        BY <2>4
      <4>2. \A y \in Units : /\ OneHolds(y)'
                             /\ db'[y].status = "AVAILABLE" => NoneHolds(y)'
                             /\ NoneHolds(y)' => db'[y].status \in {"AVAILABLE", "HANDED_OVER"}
        BY <2>5, <3>1, <3>2, <3>7, <3>8, <4>1 DEF UnitsHeldOnce
      <4>3. \A z \in Sales : LiveSale(z)' => db'[z].status \in {"RESERVED", "ALLOCATED", "HANDED_OVER"}
        BY <2>5, <2>6, <3>1 DEF UnitsHeldOnce, LiveSale
      <4>4. \A t \in Reservations : db'[t].status = "ACTIVE" => db'[UnitOf[t]].status \in {"RESERVED", "HANDED_OVER"}
        <5>1. TAKE t \in Reservations
        <5>2. HAVE db'[t].status = "ACTIVE"
        <5>3. UnitOf[t] # x
          BY <2>5, <3>3, <5>2 DEF OneHolds, ReservationHolds
        <5> QED  BY <2>5, <3>1, <5>2, <5>3, SalesAssumption DEF UnitsHeldOnce
      <4> QED  BY <4>2, <4>3, <4>4 DEF UnitsHeldOnce, Splitting, Swapping
    <3>10. SalesBilledOnce(Idle)'
      <4>1. \A t \in Reservations : Billing(p, t) => Billing(Idle, t)
        BY <2>1 DEF Billing
      <4>2. \A z \in Sales : db'[z].bill = db[z].bill
        BY <2>5, <2>6
      <4> QED  BY <2>5, <3>1, <4>1, <4>2, BillsStay
    <3>11. RevenueOnce(Idle)'
      <4>1. RevenueOnce(p) /\ ~Recognizing(p) /\ ~Recognizing(Idle)
        BY <2>1, <2>8 DEF Turn, Recognizing, Idle
      <4>2. \A y \in Units : SameRevenue(y)
        BY <2>4, <2>5, <3>4 DEF SameRevenue
      <4>3. \A z \in Sales : db'[z].unit = db[z].unit /\ db'[z].status = db[z].status /\ ~Joining(p, z)
        BY <2>1, <2>5, <2>6 DEF Joining
      <4> QED  BY <4>1, <4>2, <4>3, RevenueStays
    <3> QED  BY <3>9, <3>10, <3>11
  <2> QED  BY <1>2, <2>1, <2>7, <2>8, CommitEnds
<1> QED  BY <1>1, <1>2 DEF CancelAllocation, Handler

OnlySalesAndUnits(sales) ==
    /\ DOMAIN db' = EstateRows /\ db' = [z \in DOMAIN db' |-> db'[z]]
    /\ \A t \in Reservations : db'[t] = db[t]
    /\ \A i \in Bills : db'[i] = db[i]
    /\ \A z \in Sales \ sales : db'[z] = db[z]
    /\ \A y \in Units : UnitStays(y)
    /\ RecordsStay

\* The sale that another one replaces.
ReplacedBy(s, new, x, status) ==
    /\ RowsTyped' /\ RowsLinked' /\ Kept
    /\ \A z \in Sales : db'[z].bill = db[z].bill
    /\ \A y \in Units : ~SaleHolds(s, y)' /\ ~SaleHolds(new, y) /\ (SaleHolds(new, y)' <=> y = x)
    /\ ~LiveSale(s)' /\ db'[new].status = status /\ db'[new].unit = x
    /\ db'[s].status = db[s].status /\ db'[s].unit = db[s].unit

LEMMA SaleReplaced ==
    ASSUME SalesInv, NEW s \in Sales, db[s].status # "ABSENT", NEW new \in Sales, db[new].status = "ABSENT",
           NEW x \in Units, NEW status \in UnitStatus \ {"HANDED_OVER"},
           SaleAs(s, TRUE, db[s].bill), db'[new] = NewSale(x, status), OnlySalesAndUnits({s, new})
    PROVE  ReplacedBy(s, new, x, status)
<1>1. /\ \A y \in Units : ~SaleHolds(new, y) /\ (SaleHolds(new, y)' <=> y = x)
      /\ SaleStays(new) /\ db'[new].bill = db[new].bill /\ db'[new].status = status /\ db'[new].unit = x
      /\ db'[new].status # "ABSENT" /\ db'[new].unit # None
  BY SaleJoins
<1>2. /\ \A y \in Units : ~SaleHolds(s, y)'
      /\ SaleStays(s) /\ db'[s].bill = db[s].bill /\ ~LiveSale(s)'
      /\ db'[s].status = db[s].status /\ db'[s].unit = db[s].unit
      /\ db'[s].status # "ABSENT" /\ db'[s].unit # None
  BY SaleGoes
<1>3. \A z \in Sales : SaleStays(z) /\ db'[z].bill = db[z].bill
  BY <1>1, <1>2, SaleUntouched DEF OnlySalesAndUnits
<1>4. RowsTyped' /\ RowsLinked' /\ Kept
  BY <1>3, SalesWritten DEF OnlySalesAndUnits
<1> QED  BY <1>1, <1>2, <1>3, <1>4 DEF ReplacedBy

LEMMA TransferEntered ==
    ASSUME SalesInv, NEW c \in Calls, NEW s \in Sales, ~Ended(s),
           Enter(c, "transferSale", "write", s, None, db[s].status)
    PROVE  StepSound
<1>1. PICK q : q = [op |-> "transferSale", at |-> "write", row |-> s, arg |-> None, seen |-> db[s].status]
  OBVIOUS
<1>2. LiveSale(s) /\ db[s].status \in UnitStatus \ {"HANDED_OVER"} /\ db[s].status \in SaleStatus
  BY DEF Ended, In, LiveSale, SaleStatus, SaleRow, SalesInv, SalesTyped, RowsTyped
<1>3. q \in SalesCall
  BY <1>1, <1>2 DEF SalesCall
<1>4. RequestOK(q) /\ TurnOK(q)
  BY <1>1, <1>2 DEF RequestOK, SaleRequest, TurnOK, Recognizing, LiveSale
<1> QED  BY <1>1, <1>3, <1>4, EnterKeeps

LEMMA TransferAllocationKeeps ==
    ASSUME SalesInv, NEW c \in Calls, NEW s \in Sales, TransferAllocation(c, s)
    PROVE  StepSound
<1>1. CASE ~Ended(s) /\ Enter(c, "transferSale", "write", s, None, db[s].status)
  BY <1>1, TransferEntered
<1>2. CASE /\ At(c, "transferSale", "write", s, None) /\ Leave(c)
           /\ \E new \in Sales :
                 /\ In(new, {"ABSENT"})
                 /\ db' = [db EXCEPT ![s].cancelled = TRUE, ![new] = NewSale(db[s].unit, call[c].seen)]
  <2>0. "transferSale" \in SaleOps /\ "transferSale" # "cancelSale"
    BY DEF SaleOps
  <2>1. PICK p : /\ p = call[c] /\ p # Idle /\ p.op = "transferSale" /\ p.row = s /\ p.at = "write"
                 /\ p.seen \in UnitStatus \ {"HANDED_OVER"}
    BY <1>2, <2>0, SaleRequestOf
  <2>2. PICK x \in Units : x = db[s].unit /\ db[s].status # "ABSENT"
    BY <1>2, <2>0, SaleRequestOf
  <2>3. PICK status \in UnitStatus \ {"HANDED_OVER"} : status = p.seen
    BY <2>1
  <2>4. PICK new \in Sales : /\ db[new].status = "ABSENT"
                             /\ db' = [db EXCEPT ![s].cancelled = TRUE, ![new] = NewSale(x, status)]
    BY <1>2, <2>1, <2>2, <2>3 DEF In
  <2>5. new # s
    BY <2>2, <2>4
  <2>6. OnlyTheseChange({s, new}) /\ SaleAs(s, TRUE, db[s].bill) /\ db'[new] = NewSale(x, status)
    BY <2>4, <2>5, SaleTransferred DEF SalesInv, SalesTyped
  <2>7. /\ DOMAIN db' = EstateRows /\ db' = [z \in DOMAIN db' |-> db'[z]]
        /\ \A t \in Reservations : db'[t] = db[t]
        /\ \A i \in Bills : db'[i] = db[i]
        /\ \A y \in Units : db'[y] = db[y]
        /\ \A z \in Sales \ {s, new} : db'[z] = db[z]
    BY <2>6, SalesAssumption DEF OnlyTheseChange, EstateRows
  <2>R. ReplacedBy(s, new, x, status)
    <3>1. OnlySalesAndUnits({s, new})
      BY <2>6, <2>7, UnitUntouched, RecordsAside DEF OnlySalesAndUnits
    <3>2. db[s].status # "ABSENT" /\ db[new].status = "ABSENT"
      BY <2>2, <2>4
    <3>3. SaleAs(s, TRUE, db[s].bill) /\ db'[new] = NewSale(x, status)
      BY <2>6
    <3> QED  BY <3>1, <3>2, <3>3, SaleReplaced
  <2>8. /\ RowsTyped' /\ RowsLinked' /\ Kept
        /\ \A z \in Sales : db'[z].bill = db[z].bill
        /\ \A y \in Units : ~SaleHolds(s, y)' /\ ~SaleHolds(new, y) /\ (SaleHolds(new, y)' <=> y = x)
        /\ ~LiveSale(s)' /\ db'[new].status = status /\ db'[new].unit = x
        /\ db'[s].status = db[s].status /\ db'[s].unit = db[s].unit
    BY <2>R DEF ReplacedBy
  <2>9. ASSUME tidy, Turn(p) PROVE (UnitsHeldOnce(Idle) /\ SalesBilledOnce(Idle) /\ RevenueOnce(Idle))'
    <3>1. LiveSale(s) /\ status = db[s].status /\ UnitsHeldOnce(p) /\ SalesBilledOnce(p)
      BY <2>1, <2>3, <2>9 DEF Turn, TurnOK
    <3>2. \A y \in Units : ~Splitting(p, y) /\ ~Swapping(p, y)
      BY <2>1 DEF Splitting, Swapping
    <3>3. SaleHolds(s, x) /\ OneHolds(x) /\ (\A y \in Units : SaleHolds(s, y) => y = x)
      BY <2>2, <3>1, <3>2 DEF UnitsHeldOnce, SaleHolds
    <3>4. status \in {"RESERVED", "ALLOCATED"} /\ db[x].status # "HANDED_OVER"
      <4>1. db[s].status # "HANDED_OVER" /\ p.op \in SaleOps /\ Turn(p)
        BY <2>1, <2>9, <3>1 DEF SaleOps
      <4>2. db[x].status # "HANDED_OVER"
        BY <2>2, <4>1, NotHandedOver
      <4> QED  BY <3>1, <4>1, <4>2 DEF UnitsHeldOnce
    <3>5. \A z \in Sales \ {s, new}, y \in Units : SaleHolds(z, y)' <=> SaleHolds(z, y)
      BY <2>7 DEF SaleHolds, LiveSale
    <3>6. \A t \in Reservations, y \in Units : ReservationHolds(t, y)' <=> ReservationHolds(t, y)
      BY <2>7 DEF ReservationHolds
    <3>7. \A y \in Units \ {x} : (OneHolds(y)' <=> OneHolds(y)) /\ (NoneHolds(y)' <=> NoneHolds(y))
      <4>1. TAKE y \in Units \ {x}
      <4>2. \A z \in Sales : SaleHolds(z, y)' <=> SaleHolds(z, y)
        BY <2>8, <3>3, <3>5
      <4> QED  BY <3>6, <4>2, HoldersStay
    <3>8. OneHolds(x)' /\ ~NoneHolds(x)' /\ ~NoneHolds(x)
      BY <2>8, <3>3, <3>5, <3>6 DEF OneHolds, NoneHolds
    <3>9. UnitsHeldOnce(Idle)'
      <4>1. \A y \in Units : /\ OneHolds(y)'
                             /\ db'[y].status = "AVAILABLE" => NoneHolds(y)'
                             /\ NoneHolds(y)' => db'[y].status \in {"AVAILABLE", "HANDED_OVER"}
        BY <2>7, <3>1, <3>2, <3>7, <3>8 DEF UnitsHeldOnce
      <4>2. \A z \in Sales : LiveSale(z)' => db'[z].status \in {"RESERVED", "ALLOCATED", "HANDED_OVER"}
        BY <2>7, <2>8, <3>1, <3>4 DEF UnitsHeldOnce, LiveSale
      <4>3. \A t \in Reservations : db'[t].status = "ACTIVE" => db'[UnitOf[t]].status \in {"RESERVED", "HANDED_OVER"}
        BY <2>7, <2>8, <3>1, SalesAssumption DEF UnitsHeldOnce
      <4> QED  BY <4>1, <4>2, <4>3 DEF UnitsHeldOnce, Splitting, Swapping
    <3>10. SalesBilledOnce(Idle)'
      <4>1. \A t \in Reservations : Billing(p, t) => Billing(Idle, t)
        BY <2>1 DEF Billing
      <4> QED  BY <2>7, <2>8, <3>1, <4>1, BillsStay
    <3>11. RevenueOnce(Idle)'
      <4>1. RevenueOnce(p) /\ ~Recognizing(p) /\ ~Recognizing(Idle)
        BY <2>1, <2>9 DEF Turn, Recognizing, Idle
      <4>2. \A y \in Units : SameRevenue(y)
        BY <2>7 DEF SameRevenue
      <4>3. \A z \in Sales \ {new} : db'[z].unit = db[z].unit /\ db'[z].status = db[z].status /\ ~Joining(p, z)
        BY <2>1, <2>7, <2>8 DEF Joining
      <4>4. db[db'[new].unit].status # "HANDED_OVER"
        BY <2>8, <3>4
      <4> QED  BY <4>1, <4>2, <4>3, <4>4, RevenueStays
    <3> QED  BY <3>9, <3>10, <3>11
  <2> QED  BY <1>2, <2>1, <2>8, <2>9, CommitEnds
<1> QED  BY <1>1, <1>2 DEF TransferAllocation

LEMMA SwapEntered ==
    ASSUME SalesInv, NEW c \in Calls, NEW s \in Sales, NEW x \in Units, ~Ended(s), In(x, {"AVAILABLE"}),
           Enter(c, "swapSale", "swap", s, x, db[s].status)
    PROVE  StepSound
<1>1. PICK q : q = [op |-> "swapSale", at |-> "swap", row |-> s, arg |-> x, seen |-> db[s].status]
  OBVIOUS
<1>2. LiveSale(s) /\ db[s].status \in UnitStatus \ {"HANDED_OVER"} /\ db[s].status \in SaleStatus
  BY DEF Ended, In, LiveSale, SaleStatus, SaleRow, SalesInv, SalesTyped, RowsTyped
<1>3. q \in SalesCall
  BY <1>1, <1>2 DEF SalesCall
<1>4. RequestOK(q)
  BY <1>1, <1>2 DEF RequestOK, SaleRequest, LiveSale
<1>5. Turn(Idle) => TurnOK(q)
  <2>1. ASSUME Turn(Idle) PROVE db[s].status \in {"RESERVED", "ALLOCATED"}
    BY <1>2, <2>1 DEF Turn, UnitsHeldOnce
  <2>2. q.op = "swapSale" /\ q.at = "swap" /\ q.row = s /\ q.arg = x /\ q.seen = db[s].status
    BY <1>1
  <2> QED  BY <1>2, <2>1, <2>2 DEF TurnOK, Recognizing, In
<1> QED  BY <1>1, <1>3, <1>4, <1>5, EnterKeeps

LEMMA SwapGoes ==
    ASSUME SalesInv, NEW c \in Calls, NEW s \in Sales, NEW x \in Units, At(c, "swapSale", "swap", s, x),
           Goto(c, "unit")
    PROVE  /\ \E q \in SalesCall : /\ q.op = "swapSale" /\ q.at = "unit" /\ q.row = s /\ q.arg = x
                                   /\ q.seen = call[c].seen /\ call' = [call EXCEPT ![c] = q]
           /\ tidy' \in BOOLEAN /\ tidy' = tidy
<1>1. /\ call \in [Calls -> SalesCall] /\ tidy \in BOOLEAN
      /\ call[c].op = "swapSale" /\ call[c].row = s /\ call[c].arg = x
  BY DEF At, SalesInv, SalesTyped
<1>2. PICK p \in SalesCall : p = call[c] /\ p.op = "swapSale" /\ p.row = s /\ p.arg = x
  BY <1>1
<1>3. PICK q : q = [p EXCEPT !.at = "unit"]
  OBVIOUS
<1>4. q \in SalesCall /\ q.op = "swapSale" /\ q.at = "unit" /\ q.row = s /\ q.arg = x /\ q.seen = p.seen
  BY <1>2, <1>3 DEF SalesCall
<1>5. call' = [call EXCEPT ![c] = q] /\ tidy' = tidy
  BY <1>1, <1>2, <1>3 DEF Goto
<1> QED  BY <1>1, <1>2, <1>4, <1>5

UnitIs(s, u) == u = db[s].unit
SeenIs(q, status) == status = q.seen

LEMMA SwapWritten ==
    ASSUME SalesInv, NEW c \in Calls, NEW s \in Sales, NEW x \in Units, At(c, "swapSale", "swap", s, x),
           Goto(c, "unit"), NEW new \in Sales, db[new].status = "ABSENT", NEW u \in Units, UnitIs(s, u),
           NEW status \in UnitStatus \ {"HANDED_OVER"}, SeenIs(call[c], status),
           OnlyTheseChange({s, new, u}), SaleAs(s, TRUE, db[s].bill), db'[new] = NewSale(x, status),
           UnitAs(u, "AVAILABLE")
    PROVE  StepSound
<1>0. "swapSale" \in SaleOps
  BY DEF SaleOps
<1>1. PICK p : /\ p = call[c] /\ p # Idle /\ p.op = "swapSale" /\ p.row = s /\ p.at = "swap" /\ p.arg = x
               /\ p.seen = status /\ db[s].status # "ABSENT"
  BY <1>0, SaleRequestOf DEF SeenIs
<1>2. /\ \E q \in SalesCall : /\ q.op = "swapSale" /\ q.at = "unit" /\ q.row = s /\ q.arg = x
                              /\ q.seen = call[c].seen /\ call' = [call EXCEPT ![c] = q]
      /\ tidy' \in BOOLEAN /\ tidy' = tidy
  BY SwapGoes
<1>3. PICK q \in SalesCall : /\ q.op = "swapSale" /\ q.at = "unit" /\ q.row = s /\ q.arg = x
                             /\ q.seen = status /\ call' = [call EXCEPT ![c] = q]
  BY <1>2 DEF SeenIs
<1>4. /\ DOMAIN db' = EstateRows /\ db' = [z \in DOMAIN db' |-> db'[z]]
      /\ \A t \in Reservations : db'[t] = db[t]
      /\ \A i \in Bills : db'[i] = db[i]
      /\ \A y \in Units \ {u} : db'[y] = db[y]
      /\ \A z \in Sales \ {s, new} : db'[z] = db[z]
  BY SalesAssumption DEF OnlyTheseChange, EstateRows
<1>5. db'[u] = [status |-> "AVAILABLE", recognized |-> db[u].recognized, resold |-> db[u].resold]
  BY DEF UnitAs
<1>6. OnlySalesAndUnits({s, new})
  <2>1. UnitStays(u)
    BY <1>5, UnitWritten DEF UnitStatus
  <2>2. \A y \in Units : UnitStays(y)
    BY <1>4, <2>1, UnitUntouched
  <2>3. RecordsStay
    BY RecordsAside
  <2> QED  BY <1>4, <2>2, <2>3 DEF OnlySalesAndUnits
<1>R. ReplacedBy(s, new, x, status)
  <2>1. /\ db[s].status # "ABSENT" /\ db[new].status = "ABSENT" /\ SaleAs(s, TRUE, db[s].bill)
        /\ db'[new] = NewSale(x, status)
    BY <1>1
  <2> QED  BY <1>6, <2>1, SaleReplaced
<1>7. /\ RowsTyped' /\ RowsLinked' /\ Kept
      /\ \A z \in Sales : db'[z].bill = db[z].bill
      /\ \A y \in Units : ~SaleHolds(s, y)' /\ ~SaleHolds(new, y) /\ (SaleHolds(new, y)' <=> y = x)
      /\ ~LiveSale(s)' /\ db'[new].status = status /\ db'[new].unit = x
      /\ db'[s].status = db[s].status /\ db'[s].unit = db[s].unit
  BY <1>R DEF ReplacedBy
<1>8. RequestOK(q)'
  <2>1. db'[s].status # "ABSENT"
    BY <1>1, <1>7 DEF Kept
  <2> QED  BY <1>3, <2>1 DEF RequestOK, SaleRequest
<1>9. ASSUME tidy, Turn(p) PROVE Turn(q)'
  <2>1. /\ LiveSale(s) /\ db[s].status # "HANDED_OVER" /\ db[x].status = "AVAILABLE"
        /\ status \in {"RESERVED", "ALLOCATED"}
        /\ UnitsHeldOnce(p) /\ SalesBilledOnce(p)
    BY <1>1, <1>9 DEF Turn, TurnOK
  <2>2. \A y \in Units : ~Splitting(p, y) /\ ~Swapping(p, y)
    BY <1>1 DEF Splitting, Swapping
  <2>3. SaleHolds(s, u) /\ OneHolds(u) /\ (\A y \in Units : SaleHolds(s, y) => y = u)
    BY <2>1, <2>2 DEF UnitsHeldOnce, SaleHolds, UnitIs
  <2>4. NoneHolds(x) /\ x # u
    BY <2>1, <2>2, <2>3 DEF UnitsHeldOnce, NoneHolds
  <2>5. db[u].status # "HANDED_OVER"
    <3>1. p.op \in SaleOps /\ u = db[s].unit
      BY <1>1 DEF SaleOps, UnitIs
    <3> QED  BY <1>9, <2>1, <3>1, NotHandedOver
  <2>6. \A z \in Sales \ {s, new}, y \in Units : SaleHolds(z, y)' <=> SaleHolds(z, y)
    BY <1>4 DEF SaleHolds, LiveSale
  <2>7. \A t \in Reservations, y \in Units : ReservationHolds(t, y)' <=> ReservationHolds(t, y)
    BY <1>4 DEF ReservationHolds
  <2>8. \A y \in Units \ {u, x} : (OneHolds(y)' <=> OneHolds(y)) /\ (NoneHolds(y)' <=> NoneHolds(y))
    <3>1. TAKE y \in Units \ {u, x}
    <3>2. \A z \in Sales : SaleHolds(z, y)' <=> SaleHolds(z, y)
      BY <1>7, <2>3, <2>6
    <3> QED  BY <2>7, <3>2, HoldersStay
  <2>9. OneHolds(u)' /\ NoneHolds(u)'
    BY <1>7, <2>3, <2>4, <2>6, <2>7 DEF OneHolds, NoneHolds
  <2>10. OneHolds(x)' /\ ~NoneHolds(x)'
    BY <1>7, <2>4, <2>6, <2>7 DEF OneHolds, NoneHolds
  <2>11. TurnOK(q)'
    <3>1. db'[x].status = "AVAILABLE" /\ SaleHolds(new, x)'
      BY <1>4, <1>7, <2>1, <2>4
    <3> QED  BY <1>3, <2>1, <3>1 DEF TurnOK, Recognizing
  <2>12. UnitsHeldOnce(q)'
    <3>1. db'[u].status = "AVAILABLE"
      BY <1>5
    <3>2. \A y \in Units : /\ OneHolds(y)'
                           /\ ~Swapping(q, y) /\ db'[y].status = "AVAILABLE" => NoneHolds(y)'
                           /\ NoneHolds(y)' => db'[y].status \in {"AVAILABLE", "HANDED_OVER"}
      <4>1. TAKE y \in Units
      <4>2. CASE y = u
        BY <2>9, <3>1, <4>2
      <4>3. CASE y = x
        BY <1>3, <2>10, <3>1, <4>3 DEF Swapping
      <4>4. CASE y \notin {u, x}
        BY <1>4, <2>1, <2>2, <2>8, <4>4 DEF UnitsHeldOnce
      <4> QED  BY <4>2, <4>3, <4>4
    <3>3. \A z \in Sales : LiveSale(z)' => db'[z].status \in {"RESERVED", "ALLOCATED", "HANDED_OVER"}
      BY <1>4, <1>7, <2>1 DEF UnitsHeldOnce, LiveSale
    <3>4. \A t \in Reservations : db'[t].status = "ACTIVE" => db'[UnitOf[t]].status \in {"RESERVED", "HANDED_OVER"}
      <4>1. TAKE t \in Reservations
      <4>2. HAVE db'[t].status = "ACTIVE"
      <4>3. UnitOf[t] # u
        BY <1>4, <2>3, <4>2 DEF OneHolds, ReservationHolds
      <4> QED  BY <1>4, <2>1, <4>2, <4>3, SalesAssumption DEF UnitsHeldOnce
    <3> QED  BY <3>2, <3>3, <3>4 DEF UnitsHeldOnce, Splitting, Swapping
  <2>13. SalesBilledOnce(q)'
    <3>1. \A t \in Reservations : Billing(p, t) => Billing(q, t)
      BY <1>1 DEF Billing
    <3> QED  BY <1>4, <1>7, <2>1, <3>1, BillsStay
  <2>14. RevenueOnce(q)'
    <3>1. RevenueOnce(p) /\ ~Recognizing(p) /\ ~Recognizing(q)
      BY <1>1, <1>3, <1>9 DEF Turn, Recognizing
    <3>2. \A y \in Units : SameRevenue(y)
      BY <1>4, <1>5, <2>5 DEF SameRevenue
    <3>3. \A z \in Sales \ {new} : db'[z].unit = db[z].unit /\ db'[z].status = db[z].status /\ ~Joining(p, z)
      BY <1>1, <1>4, <1>7 DEF Joining
    <3>4. db[db'[new].unit].status # "HANDED_OVER"
      BY <1>7, <2>1
    <3> QED  BY <3>1, <3>2, <3>3, <3>4, RevenueStays
  <2> QED  BY <2>11, <2>12, <2>13, <2>14 DEF Turn
<1> QED  BY <1>1, <1>2, <1>3, <1>7, <1>8, <1>9, StepKeeps

LEMMA SwappedUnitMarked ==
    ASSUME SalesInv, NEW c \in Calls, NEW s \in Sales, NEW x \in Units, At(c, "swapSale", "unit", s, x),
           NEW status \in UnitStatus \ {"HANDED_OVER"}, SeenIs(call[c], status), OnlyTheseChange({x}), UnitAs(x, status), Leave(c)
    PROVE  StepSound
<1>0. "swapSale" \in SaleOps
  BY DEF SaleOps
<1>1. PICK p : /\ p = call[c] /\ p # Idle /\ p.op = "swapSale" /\ p.row = s /\ p.at = "unit" /\ p.arg = x
               /\ p.seen = status
  BY <1>0, SaleRequestOf DEF SeenIs
<1>2. /\ DOMAIN db' = EstateRows /\ db' = [z \in DOMAIN db' |-> db'[z]]
      /\ db'[x] = [status |-> status, recognized |-> db[x].recognized, resold |-> db[x].resold]
  BY DEF OnlyTheseChange, UnitAs
<1>3. /\ \A t \in Reservations : db'[t] = db[t]
      /\ \A i \in Bills : db'[i] = db[i]
      /\ \A y \in Units \ {x} : db'[y] = db[y]
      /\ \A z \in Sales : db'[z] = db[z]
  BY SalesAssumption DEF OnlyTheseChange, EstateRows
<1>4. RowsTyped' /\ RowsLinked' /\ Kept
  <2>1. UnitStays(x)
    BY <1>2, UnitWritten
  <2>2. (\A y \in Units : UnitStays(y)) /\ (\A z \in Sales : SaleStays(z))
    BY <1>3, <2>1, UnitUntouched, SaleUntouched
  <2>3. RecordsStay
    BY RecordsAside
  <2> QED  BY <1>2, <1>3, <2>2, <2>3, SalesWritten
<1>5. ASSUME tidy, Turn(p) PROVE (UnitsHeldOnce(Idle) /\ SalesBilledOnce(Idle) /\ RevenueOnce(Idle))'
  <2>1. /\ status \in {"RESERVED", "ALLOCATED"} /\ UnitsHeldOnce(p) /\ SalesBilledOnce(p)
        /\ \E z \in Sales : SaleHolds(z, x)
    BY <1>1, <1>5 DEF Turn, TurnOK
  <2>2. \A y \in Units : ~Splitting(p, y) /\ (Swapping(p, y) => y = x)
    BY <1>1 DEF Splitting, Swapping
  <2>3. OneHolds(x) /\ ~NoneHolds(x) /\ (\A t \in Reservations : ~ReservationHolds(t, x))
    BY <2>1, <2>2 DEF UnitsHeldOnce, OneHolds, NoneHolds
  <2>4. \A z \in Sales, y \in Units : SaleHolds(z, y)' <=> SaleHolds(z, y)
    BY <1>3 DEF SaleHolds, LiveSale
  <2>5. \A t \in Reservations, y \in Units : ReservationHolds(t, y)' <=> ReservationHolds(t, y)
    BY <1>3 DEF ReservationHolds
  <2>6. \A y \in Units : (OneHolds(y)' <=> OneHolds(y)) /\ (NoneHolds(y)' <=> NoneHolds(y))
    BY <2>4, <2>5, HoldersStay
  <2>7. UnitsHeldOnce(Idle)'
    <3>1. db'[x].status = status /\ db'[x].recognized = db[x].recognized
      BY <1>2
    <3>2. \A y \in Units : /\ OneHolds(y)'
                           /\ db'[y].status = "AVAILABLE" => NoneHolds(y)'
                           /\ NoneHolds(y)' => db'[y].status \in {"AVAILABLE", "HANDED_OVER"}
      BY <1>3, <2>1, <2>2, <2>3, <2>6, <3>1 DEF UnitsHeldOnce
    <3>3. \A z \in Sales : LiveSale(z)' => db'[z].status \in {"RESERVED", "ALLOCATED", "HANDED_OVER"}
      BY <1>3, <2>1 DEF UnitsHeldOnce, LiveSale
    <3>4. \A t \in Reservations : db'[t].status = "ACTIVE" => db'[UnitOf[t]].status \in {"RESERVED", "HANDED_OVER"}
      <4>1. TAKE t \in Reservations
      <4>2. HAVE db'[t].status = "ACTIVE"
      <4>3. UnitOf[t] # x
        BY <1>3, <2>3, <4>2 DEF ReservationHolds
      <4> QED  BY <1>3, <2>1, <4>2, <4>3, SalesAssumption DEF UnitsHeldOnce
    <3> QED  BY <3>2, <3>3, <3>4 DEF UnitsHeldOnce, Splitting, Swapping
  <2>8. SalesBilledOnce(Idle)'
    <3>1. \A t \in Reservations : Billing(p, t) => Billing(Idle, t)
      BY <1>1 DEF Billing
    <3> QED  BY <1>3, <2>1, <3>1, BillsStay
  <2>9. RevenueOnce(Idle)'
    <3>1. RevenueOnce(p) /\ ~Recognizing(p) /\ ~Recognizing(Idle)
      BY <1>1, <1>5 DEF Turn, Recognizing, Idle
    <3>2. db[x].status = "AVAILABLE"
      BY <1>1, <1>5 DEF Turn, TurnOK
    <3>3. \A y \in Units : SameRevenue(y)
      BY <1>2, <1>3, <3>2 DEF SameRevenue
    <3>4. \A z \in Sales : db'[z].unit = db[z].unit /\ db'[z].status = db[z].status /\ ~Joining(p, z)
      BY <1>1, <1>3 DEF Joining
    <3> QED  BY <3>1, <3>3, <3>4, RevenueStays
  <2> QED  BY <2>7, <2>8, <2>9
<1> QED  BY <1>1, <1>4, <1>5, CommitEnds

LEMMA SwapUnitAllocationKeeps ==
    ASSUME SalesInv, NEW c \in Calls, NEW s \in Sales, NEW x \in Units, SwapUnitAllocation(c, s, x)
    PROVE  StepSound
<1>0. "swapSale" \in SaleOps /\ "swapSale" # "cancelSale"
  BY DEF SaleOps
<1>1. CASE ~Ended(s) /\ In(x, {"AVAILABLE"}) /\ Enter(c, "swapSale", "swap", s, x, db[s].status)
  BY <1>1, SwapEntered
<1>2. CASE /\ At(c, "swapSale", "swap", s, x) /\ Goto(c, "unit")
           /\ \E new \in Sales :
                 /\ In(new, {"ABSENT"})
                 /\ db' = [db EXCEPT ![s].cancelled = TRUE, ![db[s].unit].status = "AVAILABLE",
                                     ![new] = NewSale(x, call[c].seen)]
  <2>1. call[c].seen \in UnitStatus \ {"HANDED_OVER"} /\ db[s].status # "ABSENT" /\ db[s].unit \in Units
    BY <1>0, <1>2, SaleRequestOf
  <2>2. PICK status \in UnitStatus \ {"HANDED_OVER"}, u \in Units : status = call[c].seen /\ u = db[s].unit
    BY <2>1
  <2>3. PICK new \in Sales :
           /\ db[new].status = "ABSENT"
           /\ db' = [db EXCEPT ![s].cancelled = TRUE, ![u].status = "AVAILABLE", ![new] = NewSale(x, status)]
    BY <1>2, <2>2 DEF In
  <2>4. new # s
    BY <2>1, <2>3
  <2>5. /\ OnlyTheseChange({s, new, u})
        /\ SaleAs(s, TRUE, db[s].bill) /\ db'[new] = NewSale(x, status) /\ UnitAs(u, "AVAILABLE")
    BY <2>3, <2>4, SaleSwapped DEF SalesInv, SalesTyped
  <2>6. db[new].status = "ABSENT" /\ UnitIs(s, u) /\ SeenIs(call[c], status)
    BY <2>2, <2>3 DEF UnitIs, SeenIs
  <2> QED  BY <1>2, <2>5, <2>6, SwapWritten
<1>3. CASE At(c, "swapSale", "unit", s, x) /\ Becomes(x, call[c].seen) /\ Leave(c)
  <2>1. PICK status \in UnitStatus \ {"HANDED_OVER"} : status = call[c].seen
    BY <1>0, <1>3, SaleRequestOf
  <2>2. OnlyTheseChange({x}) /\ UnitAs(x, status)
    BY <1>3, <2>1, UnitMarked DEF SalesInv, SalesTyped
  <2> QED  BY <1>3, <2>1, <2>2, SwappedUnitMarked DEF SeenIs
<1> QED  BY <1>1, <1>2, <1>3 DEF SwapUnitAllocation

-----------------------------------------------------------------------------
(* Records and snags *)

RecordStays(h) ==
    /\ db'[h] \in HandoverRow
    /\ db'[h].status # "ABSENT" => db'[h].unit \in Units
    /\ db[h].status # "ABSENT" => db'[h].status # "ABSENT" /\ db'[h].unit = db[h].unit
    /\ db'[h].status = "COMPLETED" =>
          \/ db[h].status = "COMPLETED"
          \/ \E c \in Calls : Claiming(call[c], h) /\ call[c].at = "write"

\* The units and what is sold of them are as they were.
EstateStays ==
    /\ \A x \in Units : db'[x] = db[x]
    /\ \A r \in Reservations : db'[r] = db[r]
    /\ \A s \in Sales : db'[s] = db[s]
    /\ \A i \in Bills : db'[i] = db[i]

RecordAs(h, status) == db'[h] = [status |-> status, unit |-> db[h].unit]

LEMMA RecordWritten ==
    ASSUME RowsTyped, NEW h \in Handovers, NEW x, NEW status
    PROVE  /\ Becomes(h, status) => OnlyTheseChange({h}) /\ RecordAs(h, status)
           /\ db' = [db EXCEPT ![h].status = status, ![h].unit = x] =>
                 OnlyTheseChange({h}) /\ db'[h] = [status |-> status, unit |-> x]
  BY DEF RowsTyped, EstateRows, Becomes, OnlyTheseChange, RecordAs, HandoverRow

LEMMA SnagWritten ==
    ASSUME RowsTyped, NEW n \in Snags, NEW status, Becomes(n, status)
    PROVE  OnlyTheseChange({n}) /\ db'[n] = [status |-> status]
  BY DEF RowsTyped, EstateRows, Becomes, OnlyTheseChange, SnagRow

LEMMA RecordUntouched ==
    ASSUME SalesInv, NEW h \in Handovers, db'[h] = db[h]
    PROVE  RecordStays(h)
  BY DEF RecordStays, SalesInv, SalesTyped, RowsTyped, RowsLinked

LEMMA RecordsWritten ==
    ASSUME SalesInv, NEW rows, rows \subseteq Handovers \cup Snags, OnlyTheseChange(rows),
           \A h \in Handovers \cap rows : RecordStays(h), \A n \in Snags \cap rows : db'[n] \in SnagRow
    PROVE  RowsTyped' /\ RowsLinked' /\ Kept /\ EstateStays
<1>1. EstateStays
  BY HandoverAssumption DEF OnlyTheseChange, EstateRows, EstateStays
<1>2. \A h \in Handovers : RecordStays(h)
  <2>1. \A h \in Handovers \ rows : db'[h] = db[h]
    BY DEF OnlyTheseChange, EstateRows
  <2> QED  BY <2>1, RecordUntouched
<1>3. \A n \in Snags : db'[n] \in SnagRow
  <2>1. \A n \in Snags \ rows : db'[n] = db[n]
    BY DEF OnlyTheseChange, EstateRows
  <2> QED  BY <2>1 DEF SalesInv, SalesTyped, RowsTyped
<1>4. RowsTyped'
  BY <1>1, <1>2, <1>3 DEF OnlyTheseChange, EstateStays, RecordStays, SalesInv, SalesTyped, RowsTyped
<1>5. RowsLinked'
  <2>1. /\ \A s \in Sales : db[s].bill \in Bills \cup {None}
        /\ \A t \in Reservations : db[t].sale \in Sales \cup {None}
    BY DEF SalesInv, SalesTyped, RowsTyped, SaleRow, ReservationRow
  <2> QED  BY <1>1, <1>2, <2>1 DEF EstateStays, RecordStays, SalesInv, RowsLinked
<1>6. Kept
  <2>1. \A s \in Sales : SaleStays(s)
    BY <1>1, SaleUntouched DEF EstateStays
  <2>2. \A x \in Units : UnitStays(x)
    BY <1>1, UnitUntouched DEF EstateStays
  <2> QED  BY <1>2, <2>1, <2>2 DEF Kept, SaleStays, UnitStays, UnitRow, RecordStays
<1> QED  BY <1>1, <1>4, <1>5, <1>6

LEMMA TurnGoesOn ==
    ASSUME SalesInv, EstateStays, Kept, NEW q \in SalesCall, RequestOK(q), Turn(q),
           q.op = "complete" => OpenSnags(q.row)' = OpenSnags(q.row)
    PROVE  Turn(q)'
<1>1. /\ \A s \in Sales : db'[s] = db[s]
      /\ \A i \in Bills : db'[i] = db[i]
      /\ \A x \in Units : db'[x] = db[x]
      /\ \A t \in Reservations : db'[t].status = db[t].status /\ db'[t].sale = db[t].sale
      /\ \A h \in Handovers : db[h].status # "ABSENT" => db'[h].unit = db[h].unit
  BY DEF EstateStays, Kept
<1> QED  BY <1>1, LateTurn

IdleIsOK == Idle \in SalesCall /\ RequestOK(Idle) /\ Idle.op # "complete"

LEMMA IdleOK == IdleIsOK
  BY DEF IdleIsOK, Idle, SalesCall, RequestOK

\* What is done to a record or to a snag in a single statement.
LEMMA RecordStatement ==
    ASSUME SalesInv, NEW rows, rows \subseteq Handovers \cup Snags, OnlyTheseChange(rows),
           \A h \in Handovers \cap rows : RecordStays(h), \A n \in Snags \cap rows : db'[n] \in SnagRow,
           UNCHANGED call, tidy' = (tidy /\ Alone)
    PROVE  StepSound
<1>1. RowsTyped' /\ RowsLinked' /\ Kept /\ EstateStays
  BY RecordsWritten
<1>2. ASSUME tidy', NEW q \in SalesCall, RequestOK(q), Turn(q), q = Idle \/ \E c \in Calls : q = call[c]
      PROVE  Turn(q)'
  <2>1. q = Idle
    BY <1>2 DEF Alone
  <2>2. q.op # "complete"
    BY <2>1, IdleOK DEF IdleIsOK
  <2> QED  BY <1>1, <1>2, <2>2, TurnGoesOn
<1>3. tidy' \in BOOLEAN /\ (tidy' => tidy)
  BY DEF SalesInv, SalesTyped
<1> QED  BY <1>1, <1>2, <1>3, OthersKeep

\* A request that leaves nothing half-written.
Plain(q) == q.op \notin {"convert", "swapSale"} /\ (Recognizing(q) => q.at \notin {"mark", "sales"})

LEMMA PlainTurn ==
    ASSUME NEW p, NEW q, Plain(p), Plain(q)
    PROVE  /\ UnitsHeldOnce(p) <=> UnitsHeldOnce(q)
           /\ SalesBilledOnce(p) <=> SalesBilledOnce(q)
           /\ RevenueOnce(p) <=> RevenueOnce(q)
<1>1. UnitsHeldOnce(p) <=> UnitsHeldOnce(q)
  BY DEF Plain, UnitsHeldOnce, Splitting, Swapping
<1>2. SalesBilledOnce(p) <=> SalesBilledOnce(q)
  BY DEF Plain, SalesBilledOnce, Billing
<1>3. RevenueOnce(p) <=> RevenueOnce(q)
  BY DEF Plain, RevenueOnce, Marking, Telling, Joining
<1> QED  BY <1>1, <1>2, <1>3

LEMMA IdlePlain == Plain(Idle) /\ TurnOK(Idle)
  BY DEF Plain, Idle, Recognizing, TurnOK

\* What a request of which nothing is half-written does to a record or to a snag.
LEMMA RecordCommit ==
    ASSUME SalesInv, NEW c \in Calls, NEW rows, rows \subseteq Handovers \cup Snags, OnlyTheseChange(rows),
           \A h \in Handovers \cap rows : RecordStays(h), \A n \in Snags \cap rows : db'[n] \in SnagRow,
           call[c] # Idle, Plain(call[c]), NEW q \in SalesCall, call' = [call EXCEPT ![c] = q],
           Plain(q), RequestOK(q), ~Recognizing(q), TurnOK(q), tidy' = tidy
    PROVE  StepSound
<1>1. RowsTyped' /\ RowsLinked' /\ Kept /\ EstateStays
  BY RecordsWritten
<1>2. q.op # "complete"
  BY DEF Recognizing
<1>3. ASSUME Turn(call[c]) PROVE Turn(q)'
  <2>1. Turn(q)
    BY <1>3, PlainTurn DEF Turn
  <2> QED  BY <1>1, <1>2, <2>1, TurnGoesOn
<1>4. RequestOK(q)' /\ tidy' \in BOOLEAN
  BY <1>1, RequestStays DEF SalesInv, SalesTyped
<1> QED  BY <1>1, <1>2, <1>3, <1>4, StepKeeps

LEMMA RecordLeave ==
    ASSUME SalesInv, NEW c \in Calls, NEW rows, rows \subseteq Handovers \cup Snags, OnlyTheseChange(rows),
           \A h \in Handovers \cap rows : RecordStays(h), \A n \in Snags \cap rows : db'[n] \in SnagRow,
           call[c] # Idle, Plain(call[c]), Leave(c)
    PROVE  StepSound
<1>1. call' = [call EXCEPT ![c] = Idle] /\ tidy' = tidy /\ ~Recognizing(Idle)
  BY DEF Leave, Recognizing, Idle
<1> QED  BY <1>1, IdleOK, IdlePlain, RecordCommit DEF IdleIsOK

GoesTo(q, p, at) == q.op = p.op /\ q.at = at /\ q.row = p.row /\ q.arg = p.arg /\ q.seen = p.seen

LEMMA CallGoes ==
    ASSUME SalesInv, NEW c \in Calls, NEW at \in {"write", "unit", "recognize", "mark", "sales"},
           Goto(c, at)
    PROVE  \E q \in SalesCall : GoesTo(q, call[c], at) /\ call' = [call EXCEPT ![c] = q] /\ tidy' = tidy
<1>1. PICK p \in SalesCall : p = call[c]
  BY DEF SalesInv, SalesTyped
<1>2. PICK q : q = [p EXCEPT !.at = at]
  OBVIOUS
<1>3. q \in SalesCall /\ GoesTo(q, p, at)
  BY <1>2 DEF SalesCall, GoesTo
<1>4. call' = [call EXCEPT ![c] = q] /\ tidy' = tidy
  BY <1>1, <1>2 DEF Goto, SalesInv, SalesTyped
<1> QED  BY <1>1, <1>3, <1>4

LEMMA ScheduleHandoverKeeps ==
    ASSUME SalesInv, NEW h \in Handovers, NEW x \in Units, ScheduleHandover(h, x)
    PROVE  StepSound
<1>1. OnlyTheseChange({h}) /\ db'[h] = [status |-> "SCHEDULED", unit |-> x]
  BY RecordWritten DEF ScheduleHandover, Statement, SalesInv, SalesTyped
<1>2. RecordStays(h)
  <2>1. db'[h].status = "SCHEDULED" /\ db'[h].unit = x /\ db[h].status = "ABSENT"
    BY <1>1 DEF ScheduleHandover, Statement, In
  <2>2. db'[h] \in HandoverRow
    BY <1>1 DEF HandoverRow, RecordStatus
  <2> QED  BY <2>1, <2>2, Zenon DEF RecordStays
<1>3. \A n \in Snags \cap {h} : FALSE
  BY HandoverAssumption
<1> QED  BY <1>1, <1>2, <1>3, RecordStatement DEF ScheduleHandover, Statement

SnagStatus == {"OPEN", "IN_PROGRESS", "RESOLVED", "VERIFIED", "REJECTED"}

LEMMA SnagIsSet ==
    ASSUME SalesInv, NEW n \in Snags, NEW status \in SnagStatus, Becomes(n, status)
    PROVE  /\ OnlyTheseChange({n}) /\ {n} \subseteq Handovers \cup Snags
           /\ \A h \in Handovers \cap {n} : RecordStays(h)
           /\ \A m \in Snags \cap {n} : db'[m] \in SnagRow
<1>1. OnlyTheseChange({n}) /\ db'[n] = [status |-> status]
  BY SnagWritten DEF SalesInv, SalesTyped
<1>2. db'[n] \in SnagRow
  BY <1>1 DEF SnagRow, SnagStatus
<1> QED  BY <1>1, <1>2, HandoverAssumption

LEMMA SetSnagKeeps ==
    ASSUME SalesInv, NEW n \in Snags, StartSnagWork(n) \/ ResolveSnag(n) \/ RejectSnag(n)
    PROVE  StepSound
<1>1. PICK status \in SnagStatus : SetSnag(n, status)
  BY DEF StartSnagWork, ResolveSnag, RejectSnag, SnagStatus
<1>2. Becomes(n, status) /\ UNCHANGED call /\ tidy' = (tidy /\ Alone)
  BY <1>1 DEF SetSnag, Statement
<1> QED  BY <1>2, SnagIsSet, RecordStatement

\* A record that is there becomes something else than completed.
LEMMA RecordIsSet ==
    ASSUME SalesInv, NEW h \in Handovers, db[h].status # "ABSENT",
           NEW status \in {"INSPECTION_DONE", "CANCELLED", "SNAGS_PENDING"}, Becomes(h, status)
    PROVE  /\ OnlyTheseChange({h}) /\ {h} \subseteq Handovers \cup Snags
           /\ \A i \in Handovers \cap {h} : RecordStays(i)
           /\ \A n \in Snags \cap {h} : db'[n] \in SnagRow
<1>1. OnlyTheseChange({h}) /\ db'[h] = [status |-> status, unit |-> db[h].unit]
  BY RecordWritten DEF SalesInv, SalesTyped, RecordAs
<1>2. db[h] \in HandoverRow /\ db[h].unit \in Units
  BY DEF SalesInv, SalesTyped, RowsTyped, RowsLinked
<1>3. RecordStays(h)
  BY <1>1, <1>2 DEF RecordStays, HandoverRow, RecordStatus
<1> QED  BY <1>1, <1>3, HandoverAssumption

RecordOps == {"inspect", "cancelHandover", "addSnag", "verifySnag"}

LEMMA RecordRequestOf ==
    ASSUME SalesInv, NEW c \in Calls, NEW op \in RecordOps, NEW at, NEW row, At(c, op, at, row, None)
    PROVE  call[c] # Idle /\ Plain(call[c]) /\ call[c].op = op /\ call[c].row = row /\ RecordRequest(call[c])
<1>1. RequestOK(call[c]) /\ call[c].op = op /\ call[c].row = row
  BY DEF SalesInv, At
<1>2. call[c] # Idle /\ Plain(call[c])
  BY <1>1 DEF Idle, RecordOps, Plain, Recognizing
<1>3. RecordRequest(call[c])
  BY <1>1, <1>2 DEF RequestOK, ReservationRequest, AllocationRequest, SaleRequest, ConversionRequest,
                    CompletionRequest, UnitRequest, RecordOps
<1> QED  BY <1>1, <1>2, <1>3

\* recordInspection, cancelHandover and verifySnag.
LEMMA RecordHandlerKeeps ==
    ASSUME SalesInv, NEW c \in Calls,
           \/ \E h \in Handovers : RecordInspection(c, h) \/ CancelHandover(c, h)
           \/ \E n \in Snags : VerifySnag(c, n)
    PROVE  StepSound
<1>1. ASSUME NEW h \in Handovers, NEW op \in {"inspect", "cancelHandover"},
             HandoverOpen(h), Enter(c, op, "write", h, None, None)
      PROVE  StepSound
  <2>1. PICK q : q = [op |-> op, at |-> "write", row |-> h, arg |-> None, seen |-> None]
    OBVIOUS
  <2>2. q \in SalesCall /\ RequestOK(q)
    BY <1>1, <2>1 DEF SalesCall, RequestOK, RecordRequest, HandoverOpen, In
  <2>3. TurnOK(q)
    BY <2>1 DEF TurnOK, Recognizing
  <2> QED  BY <1>1, <2>1, <2>2, <2>3, EnterKeeps
<1>2. ASSUME NEW h \in Handovers, NEW op \in {"inspect", "cancelHandover"},
             NEW status \in {"INSPECTION_DONE", "CANCELLED"},
             At(c, op, "write", h, None), Becomes(h, status), Leave(c)
      PROVE  StepSound
  <2>1. op \in RecordOps
    BY DEF RecordOps
  <2>2. call[c] # Idle /\ Plain(call[c]) /\ RecordRequest(call[c]) /\ call[c].op = op /\ call[c].row = h
    BY <1>2, <2>1, RecordRequestOf
  <2>3. db[h].status # "ABSENT"
    BY <2>2 DEF RecordRequest
  <2> QED  BY <1>2, <2>2, <2>3, RecordIsSet, RecordLeave
<1>3. ASSUME NEW n \in Snags, VerifySnag(c, n) PROVE StepSound
  <2>1. CASE In(n, {"RESOLVED"}) /\ Enter(c, "verifySnag", "write", n, None, None)
    <3>1. PICK q : q = [op |-> "verifySnag", at |-> "write", row |-> n, arg |-> None, seen |-> None]
      OBVIOUS
    <3>2. q \in SalesCall /\ RequestOK(q) /\ TurnOK(q)
      BY <3>1 DEF SalesCall, RequestOK, RecordRequest, TurnOK, Recognizing
    <3> QED  BY <2>1, <3>1, <3>2, EnterKeeps
  <2>2. CASE At(c, "verifySnag", "write", n, None) /\ Becomes(n, "VERIFIED") /\ Leave(c)
    <3>1. "verifySnag" \in RecordOps /\ "VERIFIED" \in SnagStatus
      BY DEF RecordOps, SnagStatus
    <3>2. call[c] # Idle /\ Plain(call[c])
      BY <2>2, <3>1, RecordRequestOf
    <3> QED  BY <2>2, <3>1, <3>2, SnagIsSet, RecordLeave
  <2> QED  BY <1>3, <2>1, <2>2 DEF VerifySnag, Handler
<1>4. ASSUME NEW h \in Handovers, RecordInspection(c, h) \/ CancelHandover(c, h) PROVE StepSound
  BY <1>1, <1>2, <1>4 DEF RecordInspection, CancelHandover, Handler
<1> QED  BY <1>3, <1>4

LEMMA AddSnagKeeps ==
    ASSUME SalesInv, NEW c \in Calls, NEW n \in Snags, AddSnag(c, n)
    PROVE  StepSound
<1>0. RecordOf[n] \in Handovers /\ "addSnag" \in RecordOps
  BY HandoverAssumption DEF RecordOps
<1>1. PICK h \in Handovers : h = RecordOf[n]
  BY <1>0
<1>2. CASE ~In(h, {"ABSENT"}) /\ Enter(c, "addSnag", "insert", n, None, db[h].status)
  <2>1. PICK q : q = [op |-> "addSnag", at |-> "insert", row |-> n, arg |-> None, seen |-> db[h].status]
    OBVIOUS
  <2>2. db[h].status \in RecordStatus /\ db[h].status # "ABSENT"
    BY <1>2 DEF In, SalesInv, SalesTyped, RowsTyped, HandoverRow
  <2>3. q \in SalesCall /\ RequestOK(q)
    BY <1>1, <2>1, <2>2 DEF SalesCall, RequestOK, RecordRequest
  <2>4. TurnOK(q)
    BY <2>1 DEF TurnOK, Recognizing
  <2> QED  BY <1>2, <2>1, <2>3, <2>4, EnterKeeps
<1>3. ASSUME NEW at, At(c, "addSnag", at, n, None)
      PROVE  /\ call[c] # Idle /\ Plain(call[c]) /\ call[c].op = "addSnag" /\ call[c].row = n
             /\ db[h].status # "ABSENT"
  <2>1. /\ call[c] # Idle /\ Plain(call[c]) /\ call[c].op = "addSnag" /\ call[c].row = n
        /\ RecordRequest(call[c])
    BY <1>0, <1>3, RecordRequestOf
  <2> QED  BY <1>1, <2>1 DEF RecordRequest
<1>4. CASE At(c, "addSnag", "insert", n, None) /\ Becomes(n, "OPEN") /\ Goto(c, "write")
  <2>1. PICK q \in SalesCall : GoesTo(q, call[c], "write") /\ call' = [call EXCEPT ![c] = q] /\ tidy' = tidy
    BY <1>4, CallGoes
  <2>2. q.op = "addSnag" /\ q.at = "write" /\ q.row = n
    BY <1>3, <1>4, <2>1 DEF GoesTo
  <2>3. RequestOK(q) /\ Plain(q) /\ ~Recognizing(q) /\ TurnOK(q)
    BY <1>1, <1>3, <1>4, <2>2 DEF RequestOK, RecordRequest, Plain, Recognizing, TurnOK
  <2>4. "OPEN" \in SnagStatus
    BY DEF SnagStatus
  <2>5. call[c] # Idle /\ Plain(call[c])
    BY <1>3, <1>4
  <2> QED  BY <1>4, <2>1, <2>3, <2>4, <2>5, SnagIsSet, RecordCommit
<1>5. CASE At(c, "addSnag", "insert", n, None) /\ Becomes(n, "OPEN") /\ Leave(c)
  <2>1. "OPEN" \in SnagStatus /\ call[c] # Idle /\ Plain(call[c])
    BY <1>3, <1>5 DEF SnagStatus
  <2> QED  BY <1>5, <2>1, SnagIsSet, RecordLeave
<1>6. CASE At(c, "addSnag", "write", n, None) /\ Becomes(h, "SNAGS_PENDING") /\ Leave(c)
  <2>1. call[c] # Idle /\ Plain(call[c]) /\ db[h].status # "ABSENT"
    BY <1>3, <1>6
  <2> QED  BY <1>6, <2>1, RecordIsSet, RecordLeave
<1> QED  BY <1>1, <1>2, <1>4, <1>5, <1>6 DEF AddSnag

-----------------------------------------------------------------------------
(* Recognition, for a completion and as a request of its own *)

RecognitionOps == {"complete", "recognizeUnit"}

\* The request recognizes unit x.
UnitFor(op, row, x) ==
    \/ op = "complete" /\ row \in Handovers /\ db[row].status # "ABSENT" /\ db[row].unit = x
    \/ op = "recognizeUnit" /\ row = x
RequestIs(q, op, at, row) == q.op = op /\ q.at = at /\ q.row = row

LEMMA RecognitionOf ==
    ASSUME SalesInv, NEW c \in Calls, NEW op \in RecognitionOps, NEW at, NEW row, At(c, op, at, row, None)
    PROVE  /\ call[c] # Idle /\ RequestIs(call[c], op, at, row)
           /\ \E x \in Units : UnitFor(op, row, x) /\ (at \in {"mark", "sales"} => db[x].recognized > 0)
<1>1. RequestOK(call[c]) /\ RequestIs(call[c], op, at, row)
  BY DEF SalesInv, At, RequestIs
<1>2. call[c] # Idle
  BY <1>1 DEF RequestIs, Idle, RecognitionOps
<1>3. CompletionRequest(call[c]) \/ UnitRequest(call[c])
  BY <1>1, <1>2 DEF RequestIs, RecognitionOps, RequestOK, ReservationRequest, AllocationRequest, SaleRequest,
                    ConversionRequest, RecordRequest
<1>4. CASE CompletionRequest(call[c])
  <2>1. op = "complete" /\ row \in Handovers /\ db[row].status # "ABSENT"
    BY <1>1, <1>4 DEF CompletionRequest, RequestIs
  <2>2. db[row].unit \in Units
    BY <2>1 DEF SalesInv, RowsLinked
  <2>3. at \in {"mark", "sales"} => db[db[row].unit].recognized > 0
    BY <1>1, <1>4 DEF CompletionRequest, RequestIs
  <2> QED  BY <1>1, <1>2, <2>1, <2>2, <2>3 DEF UnitFor
<1>5. CASE UnitRequest(call[c])
  BY <1>1, <1>2, <1>5 DEF UnitRequest, RequestIs, UnitFor
<1> QED  BY <1>3, <1>4, <1>5

LEMMA RecognitionGoes ==
    ASSUME SalesInv, NEW c \in Calls, NEW op, NEW from, NEW row, At(c, op, from, row, None),
           NEW at \in {"write", "unit", "recognize", "mark", "sales"}, Goto(c, at)
    PROVE  \E q \in SalesCall : RequestIs(q, op, at, row) /\ call' = [call EXCEPT ![c] = q] /\ tidy' = tidy
<1>1. PICK q \in SalesCall : GoesTo(q, call[c], at) /\ call' = [call EXCEPT ![c] = q] /\ tidy' = tidy
  BY CallGoes
<1>2. RequestIs(q, op, at, row)
  BY <1>1 DEF RequestIs, GoesTo, At
<1> QED  BY <1>1, <1>2

RecognitionSteps == {"unit", "recognize", "mark", "sales"}

LEMMA RecognitionOK ==
    ASSUME NEW op \in RecognitionOps, NEW at, NEW row, NEW x \in Units, NEW q, RequestIs(q, op, at, row),
           at \in RecognitionSteps \/ (op = "complete" /\ at \in {"snags", "write"})
    PROVE  /\ UnitFor(op, row, x) /\ (at \in {"mark", "sales"} => db[x].recognized > 0) => RequestOK(q)
           /\ UnitFor(op, row, x)' /\ (at \in {"mark", "sales"} => db'[x].recognized > 0) => RequestOK(q)'
<1>1. UnitFor(op, row, x) /\ (at \in {"mark", "sales"} => db[x].recognized > 0) => RequestOK(q)
  BY DEF UnitFor, RequestIs, RecognitionOps, RecognitionSteps, RequestOK, CompletionRequest, UnitRequest
<1>2. UnitFor(op, row, x)' /\ (at \in {"mark", "sales"} => db'[x].recognized > 0) => RequestOK(q)'
  BY DEF UnitFor, RequestIs, RecognitionOps, RecognitionSteps, RequestOK, CompletionRequest, UnitRequest
<1> QED  BY <1>1, <1>2

LEMMA UnitForStays ==
    ASSUME SalesInv, Kept, NEW op, NEW row, NEW x, UnitFor(op, row, x)
    PROVE  UnitFor(op, row, x)'
  BY DEF UnitFor, Kept

LEMMA UnitForIn ==
    ASSUME NEW op, NEW at, NEW row, NEW x, NEW q, RequestIs(q, op, at, row)
    PROVE  /\ UnitFor(op, row, x) => UnitIn(q) = x /\ Recognizing(q)
           /\ UnitFor(op, row, x)' => UnitIn(q)' = x /\ Recognizing(q)
  BY DEF UnitFor, UnitIn, RequestIs, Recognizing

\* A request that reads, and leaves nothing half-written.
LEMMA PlainRead ==
    ASSUME SalesInv, NEW c \in Calls, call[c] # Idle, Plain(call[c]), UNCHANGED db,
           NEW q \in SalesCall, call' = [call EXCEPT ![c] = q], tidy' = tidy, Plain(q), RequestOK(q),
           Turn(call[c]) => TurnOK(q), \A h \in Handovers : ~Claiming(q, h)
    PROVE  StepSound
<1>1. Turn(call[c]) => Turn(q)
  BY PlainTurn DEF Turn
<1>2. tidy' \in BOOLEAN
  BY DEF SalesInv, SalesTyped
<1> QED  BY <1>1, <1>2, ReadKeeps

LEMMA PlainReadLeaves ==
    ASSUME SalesInv, NEW c \in Calls, call[c] # Idle, Plain(call[c]), UNCHANGED db, Leave(c)
    PROVE  StepSound
<1>1. call' = [call EXCEPT ![c] = Idle] /\ tidy' = tidy /\ \A h \in Handovers : ~Claiming(Idle, h)
  BY DEF Leave, Claiming, Idle
<1> QED  BY <1>1, IdleOK, IdlePlain, PlainRead DEF IdleIsOK

\* The unit, or the snags, are read.
LEMMA RecognitionReads ==
    ASSUME SalesInv, NEW c \in Calls, NEW op \in RecognitionOps, NEW row, UNCHANGED db,
           \/ At(c, op, "unit", row, None) /\ ((MayRecognize(UnitIn(call[c])) /\ Goto(c, "recognize")) \/ Leave(c))
           \/ op = "complete" /\ At(c, op, "snags", row, None) /\ ((MayComplete(row) /\ Goto(c, "unit")) \/ Leave(c))
    PROVE  StepSound
<1>1. PICK from \in {"unit", "snags"} : At(c, op, from, row, None)
  OBVIOUS
<1>2. call[c] # Idle /\ RequestIs(call[c], op, from, row)
  BY <1>1, RecognitionOf
<1>3. PICK x \in Units : UnitFor(op, row, x)
  BY <1>1, RecognitionOf
<1>4. Plain(call[c])
  BY <1>2 DEF Plain, RequestIs, RecognitionOps
<1>5. CASE Leave(c)
  BY <1>2, <1>4, <1>5, PlainReadLeaves
<1>6. CASE At(c, op, "unit", row, None) /\ MayRecognize(UnitIn(call[c])) /\ Goto(c, "recognize")
  <2>1. PICK q \in SalesCall : RequestIs(q, op, "recognize", row) /\ call' = [call EXCEPT ![c] = q] /\ tidy' = tidy
    BY <1>6, RecognitionGoes
  <2>2. RequestOK(q)
    BY <1>3, <2>1, RecognitionOK DEF RecognitionSteps
  <2>3. Plain(q) /\ \A h \in Handovers : ~Claiming(q, h)
    BY <2>1 DEF Plain, RequestIs, RecognitionOps, Claiming
  <2>4. UnitIn(call[c]) = x /\ UnitIn(q) = x /\ Recognizing(call[c])
    BY <1>2, <1>3, <2>1, UnitForIn
  <2>5. db[x].status # "HANDED_OVER"
    BY <1>6, <2>4 DEF MayRecognize, In
  <2>6. ASSUME Turn(call[c]) PROVE TurnOK(q)
    <3>1. op = "complete" => OpenSnags(row) = {}
      BY <1>6, <2>4, <2>6 DEF Turn, TurnOK, RecognitionInTurn, At
    <3>2. RecognitionInTurn(q)
      BY <2>1, <2>4, <2>5, <3>1 DEF RecognitionInTurn, RequestIs
    <3> QED  BY <2>1, <3>2 DEF TurnOK, RequestIs, RecognitionOps
  <2> QED  BY <1>2, <1>4, <2>1, <2>2, <2>3, <2>6, PlainRead
<1>7. CASE op = "complete" /\ At(c, op, "snags", row, None) /\ MayComplete(row) /\ Goto(c, "unit")
  <2>1. PICK q \in SalesCall : RequestIs(q, op, "unit", row) /\ call' = [call EXCEPT ![c] = q] /\ tidy' = tidy
    BY <1>7, RecognitionGoes
  <2>2. RequestOK(q)
    BY <1>3, <2>1, RecognitionOK DEF RecognitionSteps
  <2>3. Plain(q) /\ \A h \in Handovers : ~Claiming(q, h)
    BY <2>1 DEF Plain, RequestIs, RecognitionOps, Claiming
  <2>4. TurnOK(q)
    <3>1. RecognitionInTurn(q)
      BY <1>7, <2>1 DEF RecognitionInTurn, RequestIs, MayComplete
    <3> QED  BY <2>1, <3>1 DEF TurnOK, RequestIs, RecognitionOps
  <2> QED  BY <1>2, <1>4, <2>1, <2>2, <2>3, <2>4, PlainRead
<1> QED  BY <1>5, <1>6, <1>7

\* The request to complete a handover, or to recognize a unit, is taken.
LEMMA RecognitionEntered ==
    ASSUME SalesInv, NEW c \in Calls,
           \/ \E h \in Handovers : HandoverOpen(h) /\ Enter(c, "complete", "snags", h, None, None)
           \/ \E x \in Units : Enter(c, "recognizeUnit", "unit", x, None, None)
    PROVE  StepSound
<1>1. ASSUME NEW h \in Handovers, HandoverOpen(h), Enter(c, "complete", "snags", h, None, None) PROVE StepSound
  <2>1. PICK q : q = [op |-> "complete", at |-> "snags", row |-> h, arg |-> None, seen |-> None]
    OBVIOUS
  <2>2. q \in SalesCall /\ RequestOK(q)
    BY <1>1, <2>1 DEF SalesCall, RequestOK, CompletionRequest, HandoverOpen, In
  <2>3. TurnOK(q)
    BY <2>1 DEF TurnOK, Recognizing, RecognitionInTurn
  <2> QED  BY <1>1, <2>1, <2>2, <2>3, EnterKeeps
<1>2. ASSUME NEW x \in Units, Enter(c, "recognizeUnit", "unit", x, None, None) PROVE StepSound
  <2>1. PICK q : q = [op |-> "recognizeUnit", at |-> "unit", row |-> x, arg |-> None, seen |-> None]
    OBVIOUS
  <2>2. q \in SalesCall /\ RequestOK(q)
    BY <2>1 DEF SalesCall, RequestOK, UnitRequest
  <2>3. TurnOK(q)
    BY <2>1 DEF TurnOK, Recognizing, RecognitionInTurn
  <2> QED  BY <1>2, <2>1, <2>2, <2>3, EnterKeeps
<1> QED  BY <1>1, <1>2

LEMMA RevenueWritten ==
    ASSUME RowsTyped, NEW x \in Units, db' = [db EXCEPT ![x].recognized = @ + 1]
    PROVE  /\ OnlyTheseChange({x})
           /\ db'[x] = [status |-> db[x].status, recognized |-> db[x].recognized + 1, resold |-> db[x].resold]
  BY DEF RowsTyped, EstateRows, OnlyTheseChange, UnitRow

\* What a request recognized or marked is the one unit: the rest is as it was.
OnlyUnit(x) ==
    /\ \A r \in Reservations : db'[r] = db[r]
    /\ \A i \in Bills : db'[i] = db[i]
    /\ \A y \in Units \ {x} : db'[y] = db[y]
    /\ \A s \in Sales : db'[s] = db[s]
    /\ RecordsStay

LEMMA OnlyUnitWritten ==
    ASSUME SalesInv, NEW x \in Units, OnlyTheseChange({x}), UnitStays(x)
    PROVE  OnlyUnit(x) /\ RowsTyped' /\ RowsLinked' /\ Kept
<1>1. OnlyUnit(x)
  <2>1. RecordsStay
    BY RecordsAside
  <2> QED  BY <2>1, SalesAssumption DEF OnlyTheseChange, EstateRows, OnlyUnit
<1>2. (\A y \in Units : UnitStays(y)) /\ (\A s \in Sales : SaleStays(s))
  BY <1>1, UnitUntouched, SaleUntouched DEF OnlyUnit
<1> QED  BY <1>1, <1>2, SalesWritten DEF OnlyTheseChange, OnlyUnit

LEMMA SnagsStay == ASSUME RecordsStay, NEW h PROVE OpenSnags(h)' = OpenSnags(h)
  BY DEF RecordsStay, OpenSnags, In

\* What a request found in its turn it finds again, but for the unit's status, which
\* it asks no more.
LEMMA RecognitionGoesOn ==
    ASSUME NEW op \in RecognitionOps, NEW from, NEW at, NEW row, NEW p, RequestIs(p, op, from, row),
           NEW q, RequestIs(q, op, at, row), TurnOK(p), RecordsStay, from # "snags", at # "recognize"
    PROVE  TurnOK(q)'
<1>1. op = "complete" => OpenSnags(row) = {}
  BY DEF TurnOK, RequestIs, Recognizing, RecognitionInTurn
<1>2. OpenSnags(row)' = OpenSnags(row)
  BY SnagsStay
<1>3. RecognitionInTurn(q)'
  BY <1>1, <1>2 DEF RecognitionInTurn, RequestIs
<1> QED  BY <1>3 DEF TurnOK, RequestIs, RecognitionOps

\* Only a request that goes on to complete its record claims one more.
LEMMA ClaimsWith ==
    ASSUME SalesInv, Kept, NEW c \in Calls, NEW q \in SalesCall, call' = [call EXCEPT ![c] = q],
           NEW op \in RecognitionOps, NEW at, NEW row, RequestIs(q, op, at, row), NEW x \in Units,
           UnitFor(op, row, x)
    PROVE  \A y \in Units : \/ Claims(y)' \subseteq Claims(y)
                            \/ y = x /\ Claims(y)' \subseteq Claims(y) \cup {row}
<1>1. call'[c] = q /\ \A e \in Calls \ {c} : call'[e] = call[e]
  BY DEF SalesInv, SalesTyped
<1>2. \A h \in Handovers : Claimed(h)' => Claimed(h) \/ (op = "complete" /\ h = row)
  <2>1. SUFFICES ASSUME NEW h \in Handovers, Claimed(h)' PROVE Claimed(h) \/ (op = "complete" /\ h = row)
    OBVIOUS
  <2>2. CASE db'[h].status = "COMPLETED"
    BY <2>2 DEF Kept, Claimed
  <2>3. ASSUME NEW e \in Calls, Claiming(call[e], h)' PROVE Claimed(h) \/ (op = "complete" /\ h = row)
    <3>1. CASE e = c
      BY <1>1, <2>3, <3>1 DEF Claiming, RequestIs
    <3>2. CASE e # c
      BY <1>1, <2>3, <3>2 DEF Claiming, Claimed
    <3> QED  BY <3>1, <3>2
  <2> QED  BY <2>1, <2>2, <2>3 DEF Claimed
<1>3. \A h \in Handovers : Claimed(h) => db'[h].unit = db[h].unit
  BY ClaimsStand
<1>4. op = "complete" => db'[row].unit = x
  BY DEF UnitFor, Kept
<1>5. ASSUME NEW y \in Units, NEW h, h \in Claims(y)'
      PROVE  h \in Claims(y) \/ (y = x /\ h = row)
  <2>1. h \in Handovers /\ db'[h].unit = y /\ Claimed(h)'
    BY <1>5 DEF Claims
  <2>2. CASE Claimed(h)
    BY <1>3, <2>1, <2>2 DEF Claims
  <2>3. CASE op = "complete" /\ h = row
    BY <1>4, <2>1, <2>3
  <2> QED  BY <1>2, <2>1, <2>2, <2>3
<1> QED  BY <1>5

LEMMA ClaimsGrow ==
    ASSUME SalesInv, Kept, NEW x \in Units, NEW row, Claims(x)' \subseteq Claims(x) \cup {row},
           db'[x].recognized = db[x].recognized + 1
    PROVE  Cardinality(Claims(x)') <= db'[x].recognized
<1>1. IsFiniteSet(Claims(x))
  BY HandoverAssumption, FS_Subset DEF Claims
<1>2. /\ IsFiniteSet(Claims(x) \cup {row})
      /\ Cardinality(Claims(x) \cup {row}) = IF row \in Claims(x) THEN Cardinality(Claims(x))
                                             ELSE Cardinality(Claims(x)) + 1
  BY <1>1, FS_AddElement
<1>3. PICK a, b, e \in Nat : /\ a = Cardinality(Claims(x)') /\ b = Cardinality(Claims(x))
                             /\ e = Cardinality(Claims(x) \cup {row}) /\ a <= e
  BY <1>1, <1>2, FS_Subset, FS_CardinalityType
<1>4. e <= b + 1
  BY <1>2, <1>3
<1>5. PICK n \in Nat : n = db[x].recognized /\ b <= n
  BY <1>3 DEF SalesInv, SalesTyped, RowsTyped, UnitRow, Recognized
<1> QED  BY <1>3, <1>4, <1>5

LEMMA RevenueKeeps ==
    ASSUME SalesInv, NEW c \in Calls, NEW op \in RecognitionOps, NEW row, At(c, op, "recognize", row, None),
           db' = [db EXCEPT ![UnitIn(call[c])].recognized = @ + 1], Goto(c, "mark")
    PROVE  StepSound
<1>1. PICK p : p = call[c] /\ p # Idle /\ RequestIs(p, op, "recognize", row)
  BY RecognitionOf
<1>2. PICK x \in Units : UnitFor(op, row, x)
  BY RecognitionOf
<1>3. PICK q \in SalesCall : RequestIs(q, op, "mark", row) /\ call' = [call EXCEPT ![c] = q] /\ tidy' = tidy
  BY RecognitionGoes
<1>4. UnitIn(p) = x /\ Recognizing(p)
  BY <1>1, <1>2, UnitForIn
<1>5. /\ OnlyTheseChange({x})
      /\ db'[x] = [status |-> db[x].status, recognized |-> db[x].recognized + 1, resold |-> db[x].resold]
  BY <1>1, <1>4, RevenueWritten DEF SalesInv, SalesTyped
<1>6. PICK n, m \in Nat : n = db[x].recognized /\ m = db[x].resold /\ db[x].status \in UnitStatus
  BY DEF SalesInv, SalesTyped, RowsTyped, UnitRow
<1>7. db'[x].recognized = n + 1 /\ db'[x].resold = m /\ db'[x].status = db[x].status
  BY <1>5, <1>6
<1>8. UnitStays(x)
  <2>1. db'[x] \in UnitRow
    BY <1>5, <1>6 DEF UnitRow
  <2> QED  BY <1>6, <1>7, <2>1 DEF UnitStays
<1>9. OnlyUnit(x) /\ RowsTyped' /\ RowsLinked' /\ Kept
  BY <1>5, <1>8, OnlyUnitWritten
<1>10. UnitFor(op, row, x)' /\ UnitIn(q)' = x /\ Recognizing(q)
  <2>1. UnitFor(op, row, x)'
    BY <1>2, <1>9, UnitForStays
  <2> QED  BY <1>3, <2>1, UnitForIn
<1>11. RequestOK(q)'
  <2>1. db'[x].recognized > 0
    BY <1>6, <1>7
  <2> QED  BY <1>3, <1>10, <2>1, RecognitionOK DEF RecognitionSteps
<1>12. Recognized'
  <2>1. \A y \in Units : \/ Claims(y)' \subseteq Claims(y)
                         \/ y = x /\ Claims(y)' \subseteq Claims(y) \cup {row}
    BY <1>2, <1>3, <1>9, ClaimsWith
  <2>2. ASSUME NEW y \in Units PROVE Cardinality(Claims(y)') <= db'[y].recognized
    <3>1. CASE Claims(y)' \subseteq Claims(y)
      BY <1>9, <3>1, ClaimsStand
    <3>2. CASE y = x /\ Claims(x)' \subseteq Claims(x) \cup {row}
      <4>1. db'[x].recognized = db[x].recognized + 1
        BY <1>6, <1>7
      <4>2. Cardinality(Claims(x)') <= db'[x].recognized
        BY <1>9, <3>2, <4>1, ClaimsGrow
      <4> QED  BY <3>2, <4>2
    <3> QED  BY <2>1, <3>1, <3>2
  <2>3. \A s \in Sales : db'[s].status = "HANDED_OVER" => db'[db'[s].unit].recognized > 0
    BY <1>9, ClaimsStand
  <2> QED  BY <2>2, <2>3 DEF Recognized
<1>13. ASSUME Turn(p) PROVE Turn(q)'
  <2>1. TurnOK(q)'
    <3>1. RecordsStay /\ TurnOK(p)
      BY <1>9, <1>13 DEF OnlyUnit, Turn
    <3> QED  BY <1>1, <1>3, <3>1, RecognitionGoesOn
  <2>2. p.op = op /\ q.op = op /\ op \notin {"convert", "swapSale"}
    BY <1>1, <1>3 DEF RequestIs, RecognitionOps
  <2>3. UnitsHeldOnce(q)'
    <3>1. UnitsHeldOnce(p)
      BY <1>13 DEF Turn
    <3>2. \A y \in Units : (Splitting(p, y) => Splitting(q, y)) /\ (Swapping(p, y) => Swapping(q, y))
      BY <2>2 DEF Splitting, Swapping
    <3>3. \A y \in Units : db'[y].status = db[y].status
      BY <1>7, <1>9 DEF OnlyUnit
    <3>4. /\ \A r \in Reservations : db'[r].status = db[r].status
          /\ \A s \in Sales : /\ db'[s].status = db[s].status /\ db'[s].unit = db[s].unit
                              /\ db'[s].cancelled = db[s].cancelled
      BY <1>9 DEF OnlyUnit
    <3> QED  BY <3>1, <3>2, <3>3, <3>4, UnitsStay
  <2>4. SalesBilledOnce(q)'
    <3>1. SalesBilledOnce(p)
      BY <1>13 DEF Turn
    <3>2. \A r \in Reservations : Billing(p, r) => Billing(q, r)
      BY <2>2 DEF Billing
    <3> QED  BY <1>9, <3>1, <3>2, BillsStay DEF OnlyUnit
  <2>5. RevenueOnce(q)'
    <3>1. RevenueOnce(p) /\ db[x].status # "HANDED_OVER"
      BY <1>1, <1>4, <1>13 DEF Turn, TurnOK, RecognitionInTurn, RequestIs
    <3>2. (\A y \in Units : ~Marking(p, y) /\ ~Telling(p, y)) /\ (\A s \in Sales : ~Joining(p, s))
      BY <1>1, <2>2 DEF Marking, Telling, Joining, RequestIs
    <3>3. \A y \in Units : Marking(q, y)' <=> y = x
      BY <1>3, <1>10 DEF Marking, RequestIs, Recognizing
    <3>4. n = m
      BY <1>6, <3>1, <3>2 DEF RevenueOnce
    <3>5. db'[x].recognized = db'[x].resold + IF db'[x].status = "HANDED_OVER" \/ Marking(q, x)' THEN 1 ELSE 0
      BY <1>7, <3>3, <3>4
    <3>6. \A y \in Units \ {x} :
             db'[y].recognized = db'[y].resold + IF db'[y].status = "HANDED_OVER" \/ Marking(q, y)' THEN 1 ELSE 0
      <4>1. TAKE y \in Units \ {x}
      <4>2. db'[y] = db[y] /\ ~Marking(q, y)' /\ ~Marking(p, y)
        BY <1>9, <3>2, <3>3 DEF OnlyUnit
      <4>3. db[y].recognized = db[y].resold + IF db[y].status = "HANDED_OVER" \/ Marking(p, y) THEN 1 ELSE 0
        BY <3>1 DEF RevenueOnce
      <4> QED  BY <4>2, <4>3
    <3>7. \A y \in Units, s \in Sales :
             db'[y].status = "HANDED_OVER" /\ db'[s].unit = y => db'[s].status = "HANDED_OVER"
      BY <1>7, <1>9, <3>1, <3>2 DEF RevenueOnce, OnlyUnit
    <3> QED  BY <3>5, <3>6, <3>7 DEF RevenueOnce
  <2> QED  BY <2>1, <2>3, <2>4, <2>5 DEF Turn
<1>14. tidy' \in BOOLEAN
  BY <1>3 DEF SalesInv, SalesTyped
<1> QED  BY <1>1, <1>3, <1>9, <1>11, <1>12, <1>13, <1>14, CommitKeeps

LEMMA UnitHandedOver ==
    ASSUME SalesInv, NEW c \in Calls, NEW op \in RecognitionOps, NEW row, At(c, op, "mark", row, None),
           Becomes(UnitIn(call[c]), "HANDED_OVER"), Goto(c, "sales")
    PROVE  StepSound
<1>1. PICK p : p = call[c] /\ p # Idle /\ RequestIs(p, op, "mark", row)
  BY RecognitionOf
<1>2. PICK x \in Units : UnitFor(op, row, x) /\ db[x].recognized > 0
  BY RecognitionOf
<1>3. PICK q \in SalesCall : RequestIs(q, op, "sales", row) /\ call' = [call EXCEPT ![c] = q] /\ tidy' = tidy
  BY RecognitionGoes
<1>4. UnitIn(p) = x /\ Recognizing(p)
  BY <1>1, <1>2, UnitForIn
<1>5. /\ OnlyTheseChange({x})
      /\ db'[x] = [status |-> "HANDED_OVER", recognized |-> db[x].recognized, resold |-> db[x].resold]
  BY <1>1, <1>4, UnitMarked DEF SalesInv, SalesTyped, UnitAs
<1>6. UnitStays(x)
  BY <1>5, UnitWritten DEF UnitStatus
<1>7. db'[x].status = "HANDED_OVER" /\ db'[x].recognized = db[x].recognized /\ db'[x].resold = db[x].resold
  BY <1>5
<1>9. OnlyUnit(x) /\ RowsTyped' /\ RowsLinked' /\ Kept
  BY <1>5, <1>6, OnlyUnitWritten
<1>10. UnitFor(op, row, x)' /\ UnitIn(q)' = x /\ Recognizing(q)
  <2>1. UnitFor(op, row, x)'
    BY <1>2, <1>9, UnitForStays
  <2> QED  BY <1>3, <2>1, UnitForIn
<1>11. RequestOK(q)'
  BY <1>2, <1>3, <1>7, <1>10, RecognitionOK DEF RecognitionSteps
<1>12. \A h \in Handovers : Claiming(q, h) => Claiming(call[c], h)
  BY <1>1, <1>3 DEF Claiming, RequestIs
<1>13. ASSUME Turn(p) PROVE Turn(q)'
  <2>1. TurnOK(q)'
    <3>1. RecordsStay /\ TurnOK(p)
      BY <1>9, <1>13 DEF OnlyUnit, Turn
    <3> QED  BY <1>1, <1>3, <3>1, RecognitionGoesOn
  <2>2. p.op = op /\ q.op = op /\ op \notin {"convert", "swapSale"}
    BY <1>1, <1>3 DEF RequestIs, RecognitionOps
  <2>3. UnitsHeldOnce(q)'
    <3>1. UnitsHeldOnce(p) /\ \A y \in Units : ~Splitting(p, y) /\ ~Swapping(p, y)
      BY <1>13, <2>2 DEF Turn, Splitting, Swapping
    <3>2. /\ \A s \in Sales, y \in Units : SaleHolds(s, y)' <=> SaleHolds(s, y)
          /\ \A r \in Reservations, y \in Units : ReservationHolds(r, y)' <=> ReservationHolds(r, y)
      BY <1>9 DEF OnlyUnit, SaleHolds, LiveSale, ReservationHolds
    <3>3. \A y \in Units : (OneHolds(y)' <=> OneHolds(y)) /\ (NoneHolds(y)' <=> NoneHolds(y))
      BY <3>2, HoldersStay
    <3>4. \A y \in Units : /\ OneHolds(y)'
                           /\ db'[y].status = "AVAILABLE" => NoneHolds(y)'
                           /\ NoneHolds(y)' => db'[y].status \in {"AVAILABLE", "HANDED_OVER"}
      BY <1>7, <1>9, <3>1, <3>3 DEF UnitsHeldOnce, OnlyUnit
    <3>5. \A s \in Sales : LiveSale(s)' => db'[s].status \in {"RESERVED", "ALLOCATED", "HANDED_OVER"}
      BY <1>9, <3>1 DEF UnitsHeldOnce, OnlyUnit, LiveSale
    <3>6. \A r \in Reservations : db'[r].status = "ACTIVE" => db'[UnitOf[r]].status \in {"RESERVED", "HANDED_OVER"}
      BY <1>7, <1>9, <3>1, SalesAssumption DEF UnitsHeldOnce, OnlyUnit
    <3> QED  BY <3>4, <3>5, <3>6 DEF UnitsHeldOnce
  <2>4. SalesBilledOnce(q)'
    <3>1. SalesBilledOnce(p)
      BY <1>13 DEF Turn
    <3>2. \A r \in Reservations : Billing(p, r) => Billing(q, r)
      BY <2>2 DEF Billing
    <3> QED  BY <1>9, <3>1, <3>2, BillsStay DEF OnlyUnit
  <2>5. RevenueOnce(q)'
    <3>1. RevenueOnce(p)
      BY <1>13 DEF Turn
    <3>2. /\ \A y \in Units : (Marking(p, y) <=> y = x) /\ ~Telling(p, y)
          /\ \A s \in Sales : ~Joining(p, s)
      BY <1>1, <1>4, <2>2 DEF Marking, Telling, Joining, RequestIs
    <3>3. \A y \in Units : ~Marking(q, y)' /\ (Telling(q, y)' <=> y = x)
      BY <1>3, <1>10 DEF Marking, Telling, RequestIs, Recognizing
    <3>4. \A y \in Units :
             db'[y].recognized = db'[y].resold + IF db'[y].status = "HANDED_OVER" \/ Marking(q, y)' THEN 1 ELSE 0
      BY <1>7, <1>9, <3>1, <3>2, <3>3 DEF RevenueOnce, OnlyUnit
    <3>5. \A y \in Units, s \in Sales :
             db'[y].status = "HANDED_OVER" /\ db'[s].unit = y => db'[s].status = "HANDED_OVER" \/ Telling(q, y)'
      BY <1>9, <3>1, <3>2, <3>3 DEF RevenueOnce, OnlyUnit
    <3> QED  BY <3>4, <3>5 DEF RevenueOnce
  <2> QED  BY <2>1, <2>3, <2>4, <2>5 DEF Turn
<1>14. tidy' \in BOOLEAN
  BY <1>3 DEF SalesInv, SalesTyped
<1> QED  BY <1>1, <1>3, <1>9, <1>11, <1>12, <1>13, <1>14, ClaimStepKeeps

LEMMA SalesTold ==
    ASSUME SalesInv, NEW x \in Units, db[x].recognized > 0, MarkSales(x)
    PROVE  /\ DOMAIN db' = EstateRows /\ db' = [z \in DOMAIN db' |-> db'[z]]
           /\ \A y \in EstateRows \ Sales : db'[y] = db[y]
           /\ \A s \in Sales : /\ SaleStays(s) /\ db'[s].unit = db[s].unit /\ db'[s].bill = db[s].bill
                               /\ db'[s].cancelled = db[s].cancelled
                               /\ (db[s].status = "ABSENT" <=> db'[s].status = "ABSENT")
                               /\ db'[s].status = db[s].status \/ db'[s].status = "HANDED_OVER"
                               /\ db[s].unit = x => db'[s].status = "HANDED_OVER"
<1>1. DOMAIN db = EstateRows /\ Sales \subseteq EstateRows
  BY DEF SalesInv, SalesTyped, RowsTyped, EstateRows
<1>2. /\ DOMAIN db' = EstateRows /\ db' = [z \in DOMAIN db' |-> db'[z]]
      /\ \A y \in EstateRows \ Sales : db'[y] = db[y]
  BY <1>1 DEF MarkSales
<1>3. ASSUME NEW s \in Sales
      PROVE  /\ SaleStays(s) /\ db'[s].unit = db[s].unit /\ db'[s].bill = db[s].bill
             /\ db'[s].cancelled = db[s].cancelled
             /\ (db[s].status = "ABSENT" <=> db'[s].status = "ABSENT")
             /\ db'[s].status = db[s].status \/ db'[s].status = "HANDED_OVER"
             /\ db[s].unit = x => db'[s].status = "HANDED_OVER"
  <2>1. db[s] \in SaleRow /\ (db[s].status = "ABSENT" <=> db[s].unit = None) /\ x # None
    BY SalesAssumption DEF SalesInv, SalesTyped, RowsTyped, RowsLinked
  <2>2. CASE db[s].unit = x
    <3>1. db'[s] = [db[s] EXCEPT !.status = "HANDED_OVER"]
      BY <1>1, <2>1, <2>2 DEF MarkSales, In
    <3>2. /\ db'[s] \in SaleRow /\ db'[s].status = "HANDED_OVER" /\ db'[s].unit = x
          /\ db'[s].bill = db[s].bill /\ db'[s].cancelled = db[s].cancelled
      BY <2>1, <2>2, <3>1 DEF SaleRow, SaleStatus, UnitStatus
    <3>3. SaleStays(s)
      BY <2>1, <2>2, <3>2 DEF SaleStays
    <3> QED  BY <2>1, <2>2, <3>2, <3>3
  <2>3. CASE db[s].unit # x
    <3>1. db'[s] = db[s]
      BY <1>1, <2>3 DEF MarkSales
    <3> QED  BY <2>3, <3>1, SaleUntouched
  <2> QED  BY <2>2, <2>3
<1> QED  BY <1>2, <1>3

\* The sales are marked, and the request ends or goes on to write the record.
LEMMA SalesMarked ==
    ASSUME SalesInv, NEW c \in Calls, NEW op \in RecognitionOps, NEW row, At(c, op, "sales", row, None),
           MarkSales(UnitIn(call[c])), NEW q \in SalesCall, call' = [call EXCEPT ![c] = q], tidy' = tidy,
           q = Idle \/ (op = "complete" /\ RequestIs(q, op, "write", row))
    PROVE  StepSound
<1>1. PICK p : p = call[c] /\ p # Idle /\ RequestIs(p, op, "sales", row)
  BY RecognitionOf
<1>2. PICK x \in Units : UnitFor(op, row, x) /\ db[x].recognized > 0
  BY RecognitionOf
<1>3. UnitIn(p) = x /\ Recognizing(p)
  BY <1>1, <1>2, UnitForIn
<1>4. /\ DOMAIN db' = EstateRows /\ db' = [z \in DOMAIN db' |-> db'[z]]
      /\ \A y \in EstateRows \ Sales : db'[y] = db[y]
      /\ \A s \in Sales : /\ SaleStays(s) /\ db'[s].unit = db[s].unit /\ db'[s].bill = db[s].bill
                          /\ db'[s].cancelled = db[s].cancelled
                          /\ (db[s].status = "ABSENT" <=> db'[s].status = "ABSENT")
                          /\ db'[s].status = db[s].status \/ db'[s].status = "HANDED_OVER"
                          /\ db[s].unit = x => db'[s].status = "HANDED_OVER"
  BY <1>1, <1>2, <1>3, SalesTold
<1>5. /\ \A r \in Reservations : db'[r] = db[r]
      /\ \A i \in Bills : db'[i] = db[i]
      /\ \A y \in Units : db'[y] = db[y]
      /\ RecordsStay
  BY <1>4, SalesAssumption, HandoverAssumption DEF EstateRows, RecordsStay
<1>6. RowsTyped' /\ RowsLinked' /\ Kept
  <2>1. \A y \in Units : UnitStays(y)
    BY <1>5, UnitUntouched
  <2> QED  BY <1>4, <1>5, <2>1, SalesWritten
<1>7. \A h \in Handovers : Claiming(q, h) => Claiming(call[c], h)
  BY <1>1 DEF Claiming, RequestIs, Idle
<1>8. RequestOK(q)'
  <2>1. CASE q = Idle
    BY <2>1 DEF RequestOK
  <2>2. CASE op = "complete" /\ RequestIs(q, op, "write", row)
    <3>1. UnitFor(op, row, x)'
      BY <1>2, <1>6, UnitForStays
    <3>2. PICK at : at = "write"
      OBVIOUS
    <3>3. RequestIs(q, op, at, row) /\ at \notin {"mark", "sales"} /\ op = "complete" /\ at \in {"snags", "write"}
      BY <2>2, <3>2
    <3> QED  BY <3>1, <3>3, RecognitionOK
  <2> QED  BY <2>1, <2>2
<1>9. q.op \notin {"convert", "swapSale"} /\ q.at \notin {"mark", "sales"} /\ p.op \notin {"convert", "swapSale"}
  BY <1>1 DEF RequestIs, Idle, RecognitionOps
<1>10. ASSUME Turn(p) PROVE Turn(q)'
  <2>1. TurnOK(q)'
    <3>1. RecordsStay /\ TurnOK(p)
      BY <1>5, <1>10 DEF Turn
    <3>2. CASE q = Idle
      BY <3>2 DEF TurnOK, Idle, Recognizing
    <3>3. CASE RequestIs(q, op, "write", row)
      BY <1>1, <3>1, <3>3, RecognitionGoesOn
    <3> QED  BY <3>2, <3>3
  <2>2. UnitsHeldOnce(q)'
    <3>1. UnitsHeldOnce(p) /\ \A y \in Units : ~Splitting(p, y) /\ ~Swapping(p, y)
      BY <1>9, <1>10 DEF Turn, Splitting, Swapping
    <3>2. /\ \A s \in Sales : LiveSale(s)' <=> LiveSale(s)
          /\ \A s \in Sales, y \in Units : SaleHolds(s, y)' <=> SaleHolds(s, y)
          /\ \A r \in Reservations, y \in Units : ReservationHolds(r, y)' <=> ReservationHolds(r, y)
      BY <1>4, <1>5 DEF SaleHolds, LiveSale, ReservationHolds
    <3>3. \A y \in Units : (OneHolds(y)' <=> OneHolds(y)) /\ (NoneHolds(y)' <=> NoneHolds(y))
      BY <3>2, HoldersStay
    <3>4. \A y \in Units : /\ OneHolds(y)'
                           /\ db'[y].status = "AVAILABLE" => NoneHolds(y)'
                           /\ NoneHolds(y)' => db'[y].status \in {"AVAILABLE", "HANDED_OVER"}
      BY <1>5, <3>1, <3>3 DEF UnitsHeldOnce
    <3>5. \A s \in Sales : LiveSale(s)' => db'[s].status \in {"RESERVED", "ALLOCATED", "HANDED_OVER"}
      BY <1>4, <3>1, <3>2 DEF UnitsHeldOnce
    <3>6. \A r \in Reservations : db'[r].status = "ACTIVE" => db'[UnitOf[r]].status \in {"RESERVED", "HANDED_OVER"}
      BY <1>5, <3>1, SalesAssumption DEF UnitsHeldOnce
    <3> QED  BY <3>4, <3>5, <3>6 DEF UnitsHeldOnce
  <2>3. SalesBilledOnce(q)'
    <3>1. SalesBilledOnce(p)
      BY <1>10 DEF Turn
    <3>2. \A r \in Reservations : Billing(p, r) => Billing(q, r)
      BY <1>9 DEF Billing
    <3> QED  BY <1>4, <1>5, <3>1, <3>2, BillsStay
  <2>4. RevenueOnce(q)'
    <3>1. RevenueOnce(p)
      BY <1>10 DEF Turn
    <3>2. /\ \A y \in Units : ~Marking(p, y) /\ (Telling(p, y) => y = x)
          /\ \A s \in Sales : ~Joining(p, s)
      BY <1>1, <1>3, <1>9 DEF Marking, Telling, Joining, RequestIs
    <3>3. \A y \in Units : ~Marking(q, y)'
      BY <1>9 DEF Marking
    <3>4. \A y \in Units :
             db'[y].recognized = db'[y].resold + IF db'[y].status = "HANDED_OVER" \/ Marking(q, y)' THEN 1 ELSE 0
      BY <1>5, <3>1, <3>2, <3>3 DEF RevenueOnce
    <3>5. \A y \in Units, s \in Sales :
             db'[y].status = "HANDED_OVER" /\ db'[s].unit = y => db'[s].status = "HANDED_OVER"
      BY <1>4, <1>5, <3>1, <3>2 DEF RevenueOnce
    <3> QED  BY <3>4, <3>5 DEF RevenueOnce
  <2> QED  BY <2>1, <2>2, <2>3, <2>4 DEF Turn
<1>11. tidy' \in BOOLEAN
  BY DEF SalesInv, SalesTyped
<1> QED  BY <1>1, <1>6, <1>7, <1>8, <1>10, <1>11, ClaimStepKeeps

LEMMA HandoverCompleted ==
    ASSUME SalesInv, NEW c \in Calls, NEW h \in Handovers, At(c, "complete", "write", h, None),
           Becomes(h, "COMPLETED"), Leave(c)
    PROVE  StepSound
<1>1. "complete" \in RecognitionOps
  BY DEF RecognitionOps
<1>2. call[c] # Idle /\ RequestIs(call[c], "complete", "write", h)
  BY <1>1, RecognitionOf
<1>3. PICK x \in Units : UnitFor("complete", h, x)
  BY <1>1, RecognitionOf
<1>4. db[h].status # "ABSENT" /\ db[h].unit = x
  BY <1>3 DEF UnitFor
<1>5. OnlyTheseChange({h}) /\ db'[h] = [status |-> "COMPLETED", unit |-> x]
  BY <1>4, RecordWritten DEF SalesInv, SalesTyped, RecordAs
<1>6. RecordStays(h)
  <2>1. Claiming(call[c], h) /\ call[c].at = "write"
    BY <1>2 DEF Claiming, RequestIs
  <2>2. db'[h] \in HandoverRow /\ db'[h].status = "COMPLETED" /\ db'[h].unit = x
    BY <1>5 DEF HandoverRow, RecordStatus
  <2> QED  BY <1>4, <2>1, <2>2 DEF RecordStays
<1>7. \A n \in Snags \cap {h} : FALSE
  BY HandoverAssumption
<1>8. Plain(call[c])
  BY <1>2 DEF Plain, RequestIs
<1> QED  BY <1>2, <1>5, <1>6, <1>7, <1>8, RecordLeave

LEMMA RecognizeKeeps ==
    ASSUME SalesInv, NEW c \in Calls, NEW op \in RecognitionOps, NEW row, NEW x, NEW then,
           Recognize(c, op, row, x, then), call[c] # Idle => x = UnitIn(call[c]),
           op = "recognizeUnit" => (then => Leave(c)), op = "complete" => (then => Goto(c, "write"))
    PROVE  StepSound
<1>1. ASSUME NEW at, At(c, op, at, row, None) PROVE x = UnitIn(call[c])
  BY <1>1, RecognitionOf
<1>2. CASE /\ At(c, op, "unit", row, None) /\ UNCHANGED db
           /\ IF MayRecognize(x) /\ db[x].recognized < MaxRevenue THEN Goto(c, "recognize") ELSE Leave(c)
  BY <1>1, <1>2, RecognitionReads
<1>3. CASE At(c, op, "recognize", row, None) /\ db' = [db EXCEPT ![x].recognized = @ + 1] /\ Goto(c, "mark")
  BY <1>1, <1>3, RevenueKeeps
<1>4. CASE At(c, op, "mark", row, None) /\ Becomes(x, "HANDED_OVER") /\ Goto(c, "sales")
  BY <1>1, <1>4, UnitHandedOver
<1>5. CASE At(c, op, "sales", row, None) /\ MarkSales(x) /\ then
  <2>1. CASE op = "recognizeUnit"
    <3>1. Leave(c)
      BY <1>5, <2>1
    <3>2. call' = [call EXCEPT ![c] = Idle] /\ tidy' = tidy /\ Idle \in SalesCall
      BY <3>1, IdleOK DEF Leave, IdleIsOK
    <3> QED  BY <1>1, <1>5, <3>2, SalesMarked
  <2>2. CASE op = "complete"
    <3>1. Goto(c, "write")
      BY <1>5, <2>2
    <3>2. PICK q \in SalesCall : RequestIs(q, op, "write", row) /\ call' = [call EXCEPT ![c] = q] /\ tidy' = tidy
      BY <1>5, <3>1, RecognitionGoes
    <3> QED  BY <1>1, <1>5, <2>2, <3>2, SalesMarked
  <2> QED  BY <2>1, <2>2 DEF RecognitionOps
<1> QED  BY <1>2, <1>3, <1>4, <1>5 DEF Recognize

LEMMA CompleteHandoverKeeps ==
    ASSUME SalesInv, NEW c \in Calls, NEW h \in Handovers, CompleteHandover(c, h)
    PROVE  StepSound
<1>0. "complete" \in RecognitionOps
  BY DEF RecognitionOps
<1>1. CASE HandoverOpen(h) /\ Enter(c, "complete", "snags", h, None, None)
  BY <1>1, RecognitionEntered
<1>2. CASE /\ At(c, "complete", "snags", h, None) /\ UNCHANGED db
           /\ IF MayComplete(h) THEN Goto(c, "unit") ELSE Leave(c)
  BY <1>0, <1>2, RecognitionReads
<1>3. ASSUME Recognize(c, "complete", h, db[h].unit, Goto(c, "write")) PROVE StepSound
  <2>1. PICK at : At(c, "complete", at, h, None)
    BY <1>3 DEF Recognize
  <2>2. db[h].unit = UnitIn(call[c])
    BY <2>1 DEF At, UnitIn
  <2> QED  BY <1>0, <1>3, <2>2, RecognizeKeeps
<1>4. CASE At(c, "complete", "write", h, None) /\ Becomes(h, "COMPLETED") /\ Leave(c)
  BY <1>4, HandoverCompleted
<1> QED  BY <1>1, <1>2, <1>3, <1>4 DEF CompleteHandover

LEMMA RecognizeOnHandoverKeeps ==
    ASSUME SalesInv, NEW c \in Calls, NEW x \in Units, RecognizeOnHandover(c, x)
    PROVE  StepSound
<1>0. "recognizeUnit" \in RecognitionOps
  BY DEF RecognitionOps
<1>1. CASE Enter(c, "recognizeUnit", "unit", x, None, None)
  BY <1>1, RecognitionEntered
<1>2. ASSUME Recognize(c, "recognizeUnit", x, x, Leave(c)) PROVE StepSound
  <2>1. PICK at : At(c, "recognizeUnit", at, x, None)
    BY <1>2 DEF Recognize
  <2>2. x = UnitIn(call[c])
    BY <2>1 DEF At, UnitIn
  <2> QED  BY <1>0, <1>2, <2>2, RecognizeKeeps
<1> QED  BY <1>1, <1>2 DEF RecognizeOnHandover

-----------------------------------------------------------------------------
(* The theorems *)

LEMMA EstateStarts == ASSUME EstateInit PROVE SalesInv
<1>1. /\ DOMAIN db = EstateRows /\ db = [y \in DOMAIN db |-> db[y]]
      /\ \A x \in Units : db[x] = NoUnitSold
      /\ \A r \in Reservations : db[r] = NoReservation
      /\ \A s \in Sales : db[s] = NoSale
      /\ \A i \in Bills : db[i] = NoBill
      /\ \A h \in Handovers : db[h] = NoHandover
      /\ \A n \in Snags : db[n] = NoSnag
  BY SalesAssumption, HandoverAssumption DEF EstateInit, EstateRows
<1>2. call = [c \in Calls |-> Idle] /\ tidy = TRUE
  BY DEF EstateInit, CallsStart
<1>3. SalesTyped
  <2>1. /\ NoUnitSold \in UnitRow /\ NoReservation \in ReservationRow /\ NoSale \in SaleRow
        /\ NoBill \in BillRow /\ NoHandover \in HandoverRow /\ NoSnag \in SnagRow
    BY DEF NoUnitSold, UnitRow, UnitStatus, NoReservation, ReservationRow, NoSale, SaleRow, SaleStatus,
           NoBill, BillRow, NoHandover, HandoverRow, RecordStatus, NoSnag, SnagRow
  <2>2. RowsTyped
    BY <1>1, <2>1 DEF RowsTyped
  <2>3. Idle \in SalesCall
    BY DEF Idle, SalesCall
  <2> QED  BY <1>2, <2>2, <2>3 DEF SalesTyped
<1>4. /\ \A x \in Units : db[x].status = "AVAILABLE" /\ db[x].recognized = 0 /\ db[x].resold = 0
      /\ \A r \in Reservations : db[r].status = "ABSENT" /\ db[r].sale = None
      /\ \A s \in Sales : db[s].status = "ABSENT" /\ db[s].unit = None /\ db[s].bill = None
      /\ \A i \in Bills : db[i].status = "ABSENT" /\ db[i].ledger = 0
      /\ \A h \in Handovers : db[h].status = "ABSENT"
  <2>1. \A x \in Units : db[x].status = "AVAILABLE" /\ db[x].recognized = 0 /\ db[x].resold = 0
    BY <1>1 DEF NoUnitSold
  <2>2. \A r \in Reservations : db[r].status = "ABSENT" /\ db[r].sale = None
    BY <1>1 DEF NoReservation
  <2>3. \A s \in Sales : db[s].status = "ABSENT" /\ db[s].unit = None /\ db[s].bill = None
    BY <1>1 DEF NoSale
  <2>4. \A i \in Bills : db[i].status = "ABSENT" /\ db[i].ledger = 0
    BY <1>1 DEF NoBill
  <2>5. \A h \in Handovers : db[h].status = "ABSENT"
    BY <1>1 DEF NoHandover
  <2> QED  BY <2>1, <2>2, <2>3, <2>4, <2>5
<1>5. RowsLinked
  BY <1>4 DEF RowsLinked
<1>6. Recognized
  <2>1. \A x \in Units : Claims(x) = {}
    BY <1>2, <1>4 DEF Claims, Claimed, Claiming, Idle
  <2>2. \A x \in Units : Cardinality(Claims(x)) <= db[x].recognized
    <3>1. TAKE x \in Units
    <3>2. Cardinality(Claims(x)) = 0
      BY <2>1, FS_EmptySet
    <3> QED  BY <1>4, <3>2
  <2> QED  BY <1>4, <2>2 DEF Recognized
<1>7. \A c \in Calls : RequestOK(call[c])
  BY <1>2 DEF RequestOK
<1>8. Turn(Idle)
  <2>1. \A x \in Units : OneHolds(x) /\ NoneHolds(x)
    BY <1>4 DEF OneHolds, NoneHolds, SaleHolds, LiveSale, ReservationHolds
  <2>2. UnitsHeldOnce(Idle)
    BY <1>4, <2>1 DEF UnitsHeldOnce, LiveSale
  <2>3. SalesBilledOnce(Idle)
    BY <1>4 DEF SalesBilledOnce
  <2>4. RevenueOnce(Idle)
    <3>1. \A x \in Units : ~Marking(Idle, x) /\ db[x].status # "HANDED_OVER"
      BY <1>4 DEF Marking, Recognizing, Idle
    <3> QED  BY <1>4, <3>1 DEF RevenueOnce
  <2>5. TurnOK(Idle)
    BY IdlePlain
  <2> QED  BY <2>2, <2>3, <2>4, <2>5 DEF Turn
<1>9. TurnsTaken
  BY <1>2, <1>8 DEF TurnsTaken
<1> QED  BY <1>3, <1>5, <1>6, <1>7, <1>9 DEF SalesInv

LEMMA NothingChanges ==
    ASSUME SalesInv, UNCHANGED docVars
    PROVE  StepSound
<1>1. db' = db /\ call' = call /\ tidy' = tidy
  BY DEF docVars
<1>2. RowsTyped' /\ RowsLinked'
  BY <1>1 DEF SalesInv, SalesTyped, RowsTyped, RowsLinked
<1>3. Kept
  <2>1. (\A x \in Units : UnitStays(x)) /\ (\A s \in Sales : SaleStays(s)) /\ RecordsStay
    BY <1>1, UnitUntouched, SaleUntouched DEF RecordsStay
  <2> QED  BY <2>1, StaysKept
<1>4. tidy' \in BOOLEAN /\ (tidy' => tidy)
  BY <1>1 DEF SalesInv, SalesTyped
<1>5. \A q \in SalesCall : Turn(q) => Turn(q)'
  BY <1>1, TurnRead
<1> QED  BY <1>1, <1>2, <1>3, <1>4, <1>5, OthersKeep

LEMMA EstateStepKeeps == ASSUME SalesInv, [EstateStep]_docVars PROVE StepSound
<1>1. ASSUME NEW r \in Reservations, Expires(r) PROVE StepSound
  BY <1>1, ExpiresKeeps
<1>2. ASSUME NEW r \in Reservations, NEW c \in Calls,
             \/ ReserveUnit(c, r) \/ ExpireStaleReservations(c, r)
             \/ CancelReservation(c, r) \/ ConvertReservationToSale(c, r)
      PROVE  StepSound
  BY <1>2, ReserveUnitKeeps, ReleaseKeeps, ConversionKeeps
<1>3. ASSUME NEW x \in Units, NEW status \in UnitStatus, UpdateUnitStatus(x, status) PROVE StepSound
  BY <1>3, StatusByHandKeeps
<1>4. ASSUME NEW x \in Units, NEW c \in Calls,
             AllocateUnit(c, x) \/ \E s \in Sales : SwapUnitAllocation(c, s, x)
      PROVE  StepSound
  BY <1>4, AllocateUnitKeeps, SwapUnitAllocationKeeps
<1>5. ASSUME NEW c \in Calls, NEW s \in Sales, CancelAllocation(c, s) \/ TransferAllocation(c, s) PROVE StepSound
  BY <1>5, CancelAllocationKeeps, TransferAllocationKeeps
<1>6. ASSUME NEW h \in Handovers,
             \/ \E x \in Units : ScheduleHandover(h, x)
             \/ \E c \in Calls : RecordInspection(c, h) \/ CancelHandover(c, h) \/ CompleteHandover(c, h)
      PROVE  StepSound
  BY <1>6, ScheduleHandoverKeeps, RecordHandlerKeeps, CompleteHandoverKeeps
<1>7. ASSUME NEW n \in Snags,
             \/ StartSnagWork(n) \/ ResolveSnag(n) \/ RejectSnag(n)
             \/ \E c \in Calls : AddSnag(c, n) \/ VerifySnag(c, n)
      PROVE  StepSound
  BY <1>7, SetSnagKeeps, AddSnagKeeps, RecordHandlerKeeps
<1>8. ASSUME NEW c \in Calls, NEW x \in Units, RecognizeOnHandover(c, x) PROVE StepSound
  BY <1>8, RecognizeOnHandoverKeeps
<1>9. ASSUME NEW c \in Calls, CutOff(c) PROVE StepSound
  BY <1>9, RequestGone
<1>10. CASE UNCHANGED docVars
  BY <1>10, NothingChanges
<1>11. ASSUME ReservationsNext PROVE StepSound
  BY <1>1, <1>2, <1>11 DEF ReservationsNext
<1>12. ASSUME SalesNext PROVE StepSound
  BY <1>3, <1>4, <1>5, <1>12 DEF SalesNext
<1>13. ASSUME HandoverNext PROVE StepSound
  BY <1>6, <1>7, <1>8, <1>13 DEF HandoverNext
<1> QED  BY <1>9, <1>10, <1>11, <1>12, <1>13 DEF EstateStep, EstateNext

LEMMA HeldByOne ==
    ASSUME SalesInv, NEW x \in Units, OneHolds(x)
    PROVE  /\ Cardinality(HeldBy(x)) <= 1
           /\ HeldBy(x) = {} <=> NoneHolds(x)
<1>1. /\ \A s \in Sales : s \in HeldBy(x) <=> SaleHolds(s, x)
      /\ \A r \in Reservations : r \in HeldBy(x) <=> ReservationHolds(r, x)
      /\ HeldBy(x) \subseteq Sales \cup Reservations
  BY SalesAssumption DEF HeldBy, Live, In, SaleHolds, LiveSale, ReservationHolds
<1>2. \A y, z \in HeldBy(x) : y = z
  BY <1>1 DEF OneHolds
<1>3. CASE HeldBy(x) = {}
  BY <1>1, <1>3, FS_EmptySet DEF NoneHolds
<1>4. CASE HeldBy(x) # {}
  <2>1. PICK y : y \in HeldBy(x)
    BY <1>4
  <2>2. HeldBy(x) = {y}
    BY <1>2, <2>1
  <2>3. Cardinality(HeldBy(x)) = 1
    BY <2>2, FS_Singleton
  <2>4. ~NoneHolds(x)
    BY <1>1, <2>1 DEF NoneHolds
  <2> QED  BY <1>4, <2>3, <2>4
<1> QED  BY <1>3, <1>4

LEMMA SalesInvSuffices == ASSUME SalesInv PROVE SalesSound
<1>1. SalesTypeOK
  BY DEF SalesTypeOK, SalesInv, SalesTyped, RowsTyped, UnitRow, ReservationRow, SaleRow, SaleStatus
<1>2. ASSUME tidy, Alone PROVE UnitsHeldOnce(Idle) /\ SalesBilledOnce(Idle)
  BY <1>2 DEF SalesInv, TurnsTaken, Turn
<1>3. OneHolder
  <2>1. SUFFICES ASSUME tidy, Alone, NEW x \in Units
                 PROVE  /\ Cardinality(HeldBy(x)) <= 1
                        /\ In(x, {"AVAILABLE"}) => HeldBy(x) = {}
                        /\ HeldBy(x) = {} => In(x, {"AVAILABLE", "HANDED_OVER"})
    BY DEF OneHolder
  <2>2. /\ OneHolds(x)
        /\ db[x].status = "AVAILABLE" => NoneHolds(x)
        /\ NoneHolds(x) => db[x].status \in {"AVAILABLE", "HANDED_OVER"}
    BY <1>2, <2>1 DEF UnitsHeldOnce, Splitting, Swapping, Idle
  <2>3. /\ Cardinality(HeldBy(x)) <= 1
        /\ HeldBy(x) = {} <=> NoneHolds(x)
    BY <2>2, HeldByOne
  <2> QED  BY <2>2, <2>3 DEF In
<1>4. SaleBilled
  <2>1. \A r \in Reservations : In(r, {"CONVERTED"}) => db[r].sale # None
    BY DEF In, SalesInv, RowsLinked
  <2>2. ASSUME tidy, Alone
        PROVE  /\ \A r \in Reservations :
                     In(r, {"CONVERTED"}) => LET i == db[db[r].sale].bill
                                             IN  i # None /\ db[i].ledger = 1
               /\ \A s \in Sales : db[s].bill # None => \E r \in Reservations : db[r].sale = s
    BY <1>2, <2>2 DEF SalesBilledOnce, Billing, Idle, In
  <2> QED  BY <2>1, <2>2 DEF SaleBilled
<1> QED  BY <1>1, <1>3, <1>4 DEF SalesSound

LEMMA HandoverInvSuffices == ASSUME SalesInv PROVE HandoverSound
<1>1. HandoverTypeOK
  BY DEF HandoverTypeOK, SalesInv, SalesTyped, RowsTyped, HandoverRow, RecordStatus, SnagRow
<1>2. HandedOverRecognized
  <2>1. ASSUME NEW x \in Units
        PROVE  Cardinality({h \in Handovers : In(h, {"COMPLETED"}) /\ db[h].unit = x}) <= db[x].recognized
    <3>1. PICK done : done = {h \in Handovers : In(h, {"COMPLETED"}) /\ db[h].unit = x}
      OBVIOUS
    <3>2. done \subseteq Claims(x) /\ IsFiniteSet(Claims(x))
      BY <3>1, HandoverAssumption, FS_Subset DEF Claims, Claimed, In
    <3>3. PICK a, b \in Nat : a = Cardinality(done) /\ b = Cardinality(Claims(x)) /\ a <= b
      BY <3>2, FS_Subset, FS_CardinalityType
    <3>4. PICK n \in Nat : n = db[x].recognized /\ b <= n
      BY <3>3 DEF SalesInv, SalesTyped, RowsTyped, UnitRow, Recognized
    <3> QED  BY <3>1, <3>3, <3>4
  <2> QED  BY <2>1 DEF HandedOverRecognized, SalesInv, Recognized, In
<1>3. RecognizedOnce
  <2>1. SUFFICES ASSUME tidy, Alone, NEW x \in Units
                 PROVE  /\ db[x].recognized = db[x].resold + IF In(x, {"HANDED_OVER"}) THEN 1 ELSE 0
                        /\ In(x, {"HANDED_OVER"}) =>
                              \A s \in Sales : db[s].unit = x => In(s, {"HANDED_OVER"})
    BY DEF RecognizedOnce
  <2>2. RevenueOnce(Idle)
    BY <2>1 DEF SalesInv, TurnsTaken, Turn
  <2> QED  BY <2>1, <2>2 DEF RevenueOnce, Marking, Telling, Joining, Recognizing, Idle, In
<1> QED  BY <1>1, <1>2, <1>3 DEF HandoverSound

\* Units are reserved, sold, recognized and handed over by requests that come in
\* whatever order, whose commits fall in whatever order and which are cut off
\* anywhere: the rows have their types and a converted reservation names its sale;
\* while requests take turns and nobody sets a status by hand, one customer at most
\* holds a unit, none holds one that is available, and each conversion is billed
\* once (real-estate.service.ts).
THEOREM SalesAreAlwaysSound == EstateSpec => []SalesSound
<1>1. EstateInit => SalesInv
  BY EstateStarts
<1>2. SalesInv /\ [EstateStep]_docVars => SalesInv'
  BY EstateStepKeeps DEF StepSound
<1>3. SalesInv => SalesSound
  BY SalesInvSuffices
<1> QED  BY <1>1, <1>2, <1>3, PTL DEF EstateSpec

\* The same requests, whatever unit a handover names: each completed handover stands
\* on a revenue entry of its own for its unit, and a sale says it is handed over only
\* when its unit was recognized, wherever completions stop; while requests take turns
\* the revenue of a unit is recognized once, and again only when a reservation of it
\* was converted after it was handed over (handover.service.ts,
\* revenue-recognition.service.ts).
THEOREM HandoverIsAlwaysSound == EstateSpec => []HandoverSound
<1>1. EstateInit => SalesInv
  BY EstateStarts
<1>2. SalesInv /\ [EstateStep]_docVars => SalesInv'
  BY EstateStepKeeps DEF StepSound
<1>3. SalesInv => HandoverSound
  BY HandoverInvSuffices
<1> QED  BY <1>1, <1>2, <1>3, PTL DEF EstateSpec

\* While requests take turns, no handover is completed over an open snag.
THEOREM NoSnagIsLeft == EstateSpec => NoSnagLeft
<1>1. EstateInit => SalesInv
  BY EstateStarts
<1>2. SalesInv /\ [EstateStep]_docVars => SalesInv'
  BY EstateStepKeeps DEF StepSound
<1>3. SalesInv /\ [EstateStep]_docVars =>
          [tidy' => \A h \in Handovers :
                        In(h, {"COMPLETED"})' /\ ~In(h, {"COMPLETED"}) => OpenSnags(h) = {}]_docVars
  BY EstateStepKeeps DEF StepSound, CompletedCleanly
<1> QED  BY <1>1, <1>2, <1>3, PTL DEF EstateSpec, NoSnagLeft

------------------------------------------------------------------------------
LedgerRows == Bills \cup Settlements
SettlementRow == [status : {"ABSENT", "DRAFT", "POSTED"}, entries : Nat, ledger : Nat]

ReceivablesInit ==
    /\ db = [x \in LedgerRows |-> IF x \in Bills THEN NoBill ELSE NoSettlement]
    /\ CallsStart
ReceivablesStep == ReceivablesNext \/ \E c \in Calls : CutOff(c)
ReceivablesSpec == ReceivablesInit /\ [][ReceivablesStep]_docVars

ReceivablesCall ==
    [op : {"none", "postBill", "createReceipt", "postReceipt"},
     at : {"idle", "post", "posted", "allocate", "ledger", "write"},
     row : LedgerRows \cup {None}, arg : {None}, seen : {None}]

LedgerRowsTyped ==
    /\ DOMAIN db = LedgerRows /\ db = [y \in DOMAIN db |-> db[y]]
    /\ \A i \in Bills : db[i] \in BillRow
    /\ \A r \in Settlements : db[r] \in SettlementRow
ReceivablesTyped ==
    /\ LedgerRowsTyped
    /\ call \in [Calls -> ReceivablesCall]
    /\ tidy \in BOOLEAN

\* What a request has read or done, and rows that are posted have an entry.
LedgerRequest(q) ==
    \/ q = Idle
    \/ /\ q.op = "postBill" /\ q.at \in {"post", "posted", "ledger"}
       /\ q.row \in Bills /\ db[q.row].status # "ABSENT"
       /\ q.at # "post" => db[q.row].entries > 0
    \/ /\ q.op = "createReceipt" /\ q.at = "write"
       /\ q.row \in Settlements /\ db[BillOf[q.row]].status = "POSTED"
    \/ /\ q.op = "postReceipt" /\ q.at \in {"post", "allocate", "ledger", "write"}
       /\ q.row \in Settlements /\ db[q.row].status # "ABSENT"
       /\ q.at # "post" => db[q.row].entries > 0
PostedFollow ==
    /\ \A x \in LedgerRows : db[x].status = "POSTED" => db[x].entries > 0
    /\ \A r \in Settlements : db[r].status # "ABSENT" => db[BillOf[r]].status = "POSTED"

\* Requests that have posted a row and not yet written its ledger row, and what
\* they have posted of a bill and not yet allocated to it.
Owes(q, x) ==
    /\ q.row = x
    /\ \/ q.op = "postBill" /\ q.at \in {"posted", "ledger"}
       \/ q.op = "postReceipt" /\ q.at \in {"allocate", "ledger"}
Owed(x) == [c \in Calls |-> IF Owes(call[c], x) THEN 1 ELSE 0]
Allots(q, i) ==
    IF q.op = "postReceipt" /\ q.at = "allocate" /\ BillOf[q.row] = i THEN Amount[q.row] ELSE 0
Allotted(i) == [c \in Calls |-> Allots(call[c], i)]

\* What requests that were cut off have left open.
RowsLost(x) == db[x].entries - db[x].ledger - SumFunctionOnSet(Owed(x), Calls)
CashLost(i) ==
    SumFunctionOnSet(Journalled, ReceiptsOf(i)) - db[i].received - SumFunctionOnSet(Allotted(i), Calls)
LostInv == (\A x \in LedgerRows : RowsLost(x) >= 0) /\ \A i \in Bills : CashLost(i) >= 0

\* With q the only request: what it will post is not posted, and the rows that
\* are posted, or under way with q, are in the journal once.
Entering(q, x) ==
    /\ q.row = x
    /\ \/ q.op = "postBill" /\ q.at = "posted"
       \/ q.op = "postReceipt" /\ q.at \in {"allocate", "ledger", "write"}
EnteredOnce(q, x) ==
    db[x].entries = IF db[x].status = "POSTED" \/ Entering(q, x) THEN 1 ELSE 0
LedgerTurn(q) ==
    /\ q.at = "post" => db[q.row].status # "POSTED"
    /\ \A x \in LedgerRows : EnteredOnce(q, x)

LedgerTurns ==
    /\ \A c, e \in Calls : call[c] # Idle /\ call[e] # Idle => c = e
    /\ \A c \in Calls : call[c] # Idle => LedgerTurn(call[c])
    /\ Alone => LedgerTurn(Idle)
    /\ \A x \in LedgerRows : RowsLost(x) = 0
    /\ \A i \in Bills : CashLost(i) = 0

ReceivablesInv ==
    /\ ReceivablesTyped /\ PostedFollow /\ \A c \in Calls : LedgerRequest(call[c])
    /\ LostInv
    /\ tidy => LedgerTurns

-----------------------------------------------------------------------------
(* Rows, and what stays open of them *)

LEMMA ReceivablesFinite ==
    /\ IsFiniteSet(Calls) /\ IsFiniteSet(Settlements) /\ \A i : IsFiniteSet(ReceiptsOf(i))
    /\ \A r \in Settlements : Amount[r] \in Nat /\ BillOf[r] \in Bills
BY ReceivablesAssumption, FS_Subset DEF ReceiptsOf

\* The sums are sums of natural numbers.
LedgerNumbers ==
    /\ \A x \in LedgerRows : /\ db[x].entries \in Nat /\ db[x].ledger \in Nat
                             /\ Numeric(Owed(x), Calls) /\ SumFunctionOnSet(Owed(x), Calls) \in Nat
    /\ \A i \in Bills : /\ db[i].received \in Nat
                        /\ Numeric(Journalled, ReceiptsOf(i)) /\ Numeric(Allotted(i), Calls)
                        /\ SumFunctionOnSet(Journalled, ReceiptsOf(i)) \in Nat
                        /\ SumFunctionOnSet(Allotted(i), Calls) \in Nat
    /\ \A c \in Calls : \A i : Allots(call[c], i) \in Nat

LEMMA LedgerSums == ReceivablesTyped /\ (\A c \in Calls : LedgerRequest(call[c])) => LedgerNumbers
<1> SUFFICES ASSUME ReceivablesTyped, \A c \in Calls : LedgerRequest(call[c]) PROVE LedgerNumbers
  OBVIOUS
<1>1. /\ \A x \in LedgerRows : db[x].entries \in Nat /\ db[x].ledger \in Nat
      /\ \A i \in Bills : db[i].received \in Nat
      /\ \A r \in Settlements : db[r].entries \in Nat
  BY DEF ReceivablesTyped, LedgerRowsTyped, LedgerRows, BillRow, SettlementRow
<1>2. \A r \in Settlements : Journalled[r] \in Nat
  BY <1>1, ReceivablesFinite DEF Journalled
<1>3. \A c \in Calls : \A i : Allots(call[c], i) \in Nat /\ Allotted(i)[c] \in Nat
  <2>1. \A c \in Calls : call[c].op = "postReceipt" => call[c].row \in Settlements
    BY DEF LedgerRequest, Idle
  <2> QED BY <2>1, ReceivablesFinite DEF Allots, Allotted
<1>4. \A x : \A c \in Calls : Owed(x)[c] \in Nat
  BY DEF Owed
<1>5. \A i : \A r \in ReceiptsOf(i) : Journalled[r] \in Nat
  BY <1>2 DEF ReceiptsOf
<1>6. \A x : SumFunctionOnSet(Owed(x), Calls) \in Nat
  BY <1>4, ReceivablesFinite, SumNotNegative
<1>7. \A i : /\ SumFunctionOnSet(Journalled, ReceiptsOf(i)) \in Nat
             /\ SumFunctionOnSet(Allotted(i), Calls) \in Nat
  BY <1>3, <1>5, ReceivablesFinite, SumNotNegative
<1>8. /\ \A x : Numeric(Owed(x), Calls)
      /\ \A i : Numeric(Journalled, ReceiptsOf(i)) /\ Numeric(Allotted(i), Calls)
  BY <1>3, <1>4, <1>5, ReceivablesFinite DEF Numeric
<1> QED BY <1>1, <1>3, <1>6, <1>7, <1>8 DEF LedgerNumbers

LEMMA LedgerSumsNext ==
    (ReceivablesTyped /\ (\A c \in Calls : LedgerRequest(call[c])) => LedgerNumbers)'
BY LedgerSums, PTL

\* With q the request of c: the part of the above that a step of c can change.
OpenRow(q, x) == db[x].entries - db[x].ledger - IF Owes(q, x) THEN 1 ELSE 0
OpenCash(q, i) == SumFunctionOnSet(Journalled, ReceiptsOf(i)) - db[i].received - Allots(q, i)

\* What no request takes back.
LedgerKept ==
    /\ \A x \in LedgerRows : /\ db[x].status # "ABSENT" => db'[x].status # "ABSENT"
                             /\ db'[x].entries >= db[x].entries
    /\ \A i \in Bills : db[i].status = "POSTED" => db'[i].status = "POSTED"

LEMMA LedgerRequestStays ==
    ASSUME ReceivablesTyped, LedgerRowsTyped', LedgerKept, NEW q, LedgerRequest(q)
    PROVE  LedgerRequest(q)'
<1>1. \A x \in LedgerRows : db[x].entries \in Nat /\ db'[x].entries \in Nat
  BY DEF ReceivablesTyped, LedgerRowsTyped, LedgerRows, BillRow, SettlementRow
<1>2. \A r \in Settlements : BillOf[r] \in Bills
  BY ReceivablesFinite
<1> QED BY <1>1, <1>2 DEF LedgerRequest, LedgerKept, LedgerRows

\* A step of one request.
LEMMA LedgerStep ==
    ASSUME ReceivablesInv, NEW c \in Calls, NEW q, q = call[c], NEW p \in ReceivablesCall,
           call' = [call EXCEPT ![c] = p],
           tidy' \in BOOLEAN, LedgerRowsTyped', PostedFollow', LedgerKept, LedgerRequest(p)',
           \A x \in LedgerRows : OpenRow(p, x)' >= OpenRow(q, x),
           \A i \in Bills : OpenCash(p, i)' >= OpenCash(q, i),
           tidy' => /\ tidy /\ (call[c] = Idle => Alone)
                    /\ \A x \in LedgerRows : OpenRow(p, x)' = OpenRow(q, x)
                    /\ \A i \in Bills : OpenCash(p, i)' = OpenCash(q, i)
                    /\ LedgerTurn(q) => LedgerTurn(p)'
    PROVE  ReceivablesInv'
<1>1. call' \in [Calls -> ReceivablesCall] /\ call'[c] = p /\ \A e \in Calls \ {c} : call'[e] = call[e]
  BY DEF ReceivablesInv, ReceivablesTyped
<1>2. ReceivablesTyped'
  BY <1>1 DEF ReceivablesTyped
<1>3. \A e \in Calls : LedgerRequest(call[e])'
  <2>1. TAKE e \in Calls
  <2>2. PICK z : z = call'[e]
    OBVIOUS
  <2>3. LedgerRequest(z)'
    <3>1. CASE e = c
      BY <1>1, <2>2, <3>1
    <3>2. CASE e # c
      <4>1. LedgerRequest(z)
        BY <1>1, <2>2, <3>2 DEF ReceivablesInv
      <4> QED BY <4>1, LedgerRequestStays DEF ReceivablesInv
    <3> QED BY <3>1, <3>2
  <2> QED BY <2>2, <2>3
<1>4. LedgerNumbers /\ LedgerNumbers'
  BY <1>2, <1>3, LedgerSums, LedgerSumsNext DEF ReceivablesInv
<1>5. ASSUME NEW x \in LedgerRows
      PROVE  RowsLost(x)' - RowsLost(x) = OpenRow(p, x)' - OpenRow(q, x) /\ RowsLost(x) \in Int
             /\ RowsLost(x)' \in Int /\ OpenRow(p, x)' \in Int /\ OpenRow(q, x) \in Int
  <2>1. \A e \in Calls \ {c} : Owed(x)[e] = Owed(x)'[e]
    BY <1>1 DEF Owed, Owes
  <2>2. /\ Owed(x)[c] = (IF Owes(q, x) THEN 1 ELSE 0)
        /\ Owed(x)'[c] = (IF Owes(p, x) THEN 1 ELSE 0)
    BY <1>1 DEF Owed, Owes
  <2>3. SumFunctionOnSet(Owed(x)', Calls) = SumFunctionOnSet(Owed(x), Calls) - Owed(x)[c] + Owed(x)'[c]
    BY <1>4, <2>1, <2>2, SumChanges DEF LedgerNumbers
  <2>4. OpenRow(p, x)' = db'[x].entries - db'[x].ledger - Owed(x)'[c]
    BY <2>2 DEF OpenRow, Owes
  <2> QED BY <1>4, <2>2, <2>3, <2>4 DEF RowsLost, OpenRow, LedgerNumbers
<1>6. ASSUME NEW i \in Bills
      PROVE  CashLost(i)' - CashLost(i) = OpenCash(p, i)' - OpenCash(q, i) /\ CashLost(i) \in Int
             /\ CashLost(i)' \in Int /\ OpenCash(p, i)' \in Int /\ OpenCash(q, i) \in Int
  <2>1. \A e \in Calls \ {c} : Allotted(i)[e] = Allotted(i)'[e]
    BY <1>1 DEF Allotted, Allots
  <2>2. /\ Allotted(i)[c] = Allots(q, i) /\ Allots(q, i) \in Nat
        /\ Allotted(i)'[c] = Allots(p, i) /\ Allots(p, i) \in Nat
    <3>1. Allots(call[c], i)' = Allots(p, i)
      BY <1>1 DEF Allots
    <3> QED BY <1>1, <1>4, <3>1 DEF Allotted, LedgerNumbers
  <2>3. SumFunctionOnSet(Allotted(i)', Calls)
          = SumFunctionOnSet(Allotted(i), Calls) - Allotted(i)[c] + Allotted(i)'[c]
    BY <1>4, <2>1, <2>2, SumChanges DEF LedgerNumbers
  <2>4. OpenCash(p, i)' = SumFunctionOnSet(Journalled', ReceiptsOf(i)) - db'[i].received - Allots(p, i)
    BY DEF OpenCash, Allots, ReceiptsOf
  <2>5. CashLost(i)' = SumFunctionOnSet(Journalled', ReceiptsOf(i)) - db'[i].received
                       - SumFunctionOnSet(Allotted(i)', Calls)
    BY DEF CashLost, ReceiptsOf
  <2>6. SumFunctionOnSet(Journalled', ReceiptsOf(i)) \in Nat
    BY <1>4 DEF LedgerNumbers, ReceiptsOf
  <2> QED BY <1>4, <2>2, <2>3, <2>4, <2>5, <2>6 DEF CashLost, OpenCash, LedgerNumbers
<1>7. LostInv'
  <2>1. \A x \in LedgerRows : RowsLost(x)' >= 0
    BY <1>5 DEF ReceivablesInv, LostInv
  <2>2. \A i \in Bills : CashLost(i)' >= 0
    BY <1>6 DEF ReceivablesInv, LostInv
  <2> QED BY <2>1, <2>2 DEF LostInv
<1>8. ASSUME tidy' PROVE LedgerTurns'
  <2>1. LedgerTurns /\ (call[c] = Idle => Alone) /\ (LedgerTurn(q) => LedgerTurn(p)')
    BY <1>8 DEF ReceivablesInv
  <2>2. \A e \in Calls \ {c} : call'[e] = Idle
    BY <1>1, <2>1 DEF LedgerTurns, Alone
  <2>3. LedgerTurn(q)
    BY <2>1 DEF LedgerTurns, Alone
  <2>4. LedgerTurn(p)'
    BY <2>1, <2>3
  <2>5. \A d, e \in Calls : call'[d] # Idle /\ call'[e] # Idle => d = e
    BY <2>2
  <2>6. ASSUME NEW e \in Calls, call'[e] # Idle PROVE LedgerTurn(call[e])'
    <3>1. e = c /\ call'[e] = p
      BY <1>1, <2>2, <2>6
    <3> QED BY <2>4, <3>1
  <2>7. ASSUME Alone' PROVE LedgerTurn(Idle)'
    <3>1. p = Idle
      BY <1>1, <2>7 DEF Alone
    <3> QED BY <2>4, <3>1
  <2>8. /\ \A x \in LedgerRows : RowsLost(x)' = 0
        /\ \A i \in Bills : CashLost(i)' = 0
    BY <1>5, <1>6, <1>8, <2>1 DEF LedgerTurns
  <2> QED BY <2>5, <2>6, <2>7, <2>8 DEF LedgerTurns
<1> QED BY <1>2, <1>3, <1>7, <1>8 DEF ReceivablesInv

\* How a commit leaves the rows: x with a status, an entry more or less, a
\* ledger row more or less, and the others as they were.
RowGets(x, status, entries, ledger) ==
    /\ LedgerRowsTyped'
    /\ \A y \in LedgerRows \ {x} : db'[y] = db[y]
    /\ db'[x].status = status
    /\ db'[x].entries = db[x].entries + entries /\ db'[x].ledger = db[x].ledger + ledger
    /\ \A i \in Bills : db'[i].received = db[i].received

LEMMA RowPut ==
    ASSUME LedgerRowsTyped, NEW x \in LedgerRows, NEW v, db' = [db EXCEPT ![x] = v],
           x \in Bills => v \in BillRow /\ v.received = db[x].received,
           x \in Settlements => v \in SettlementRow
    PROVE  /\ LedgerRowsTyped' /\ db'[x] = v /\ \A y \in LedgerRows \ {x} : db'[y] = db[y]
           /\ \A i \in Bills : db'[i].received = db[i].received
<1>1. /\ DOMAIN db' = LedgerRows /\ db'[x] = v /\ \A y \in LedgerRows \ {x} : db'[y] = db[y]
      /\ db' = [y \in DOMAIN db' |-> db'[y]]
  BY DEF LedgerRowsTyped
<1> QED BY <1>1 DEF LedgerRowsTyped, LedgerRows

LEMMA RowWritten ==
    ASSUME LedgerRowsTyped, NEW x \in LedgerRows
    PROVE  /\ \A status \in {"ABSENT", "DRAFT", "POSTED"} :
                  Becomes(x, status) => RowGets(x, status, 0, 0)
           /\ PostEntry(x) => RowGets(x, db[x].status, 1, 0)
           /\ WriteLedger(x) => RowGets(x, db[x].status, 0, 1)
           /\ UNCHANGED db => RowGets(x, db[x].status, 0, 0)
<1>1. \A y \in LedgerRows : db[y].entries \in Nat /\ db[y].ledger \in Nat
  BY DEF LedgerRowsTyped, LedgerRows, BillRow, SettlementRow
<1>2. x \in Bills <=> x \notin Settlements
  BY ReceivablesAssumption DEF LedgerRows
<1>3. ASSUME NEW status \in {"ABSENT", "DRAFT", "POSTED"}, Becomes(x, status)
      PROVE  RowGets(x, status, 0, 0)
  <2>1. PICK v : v = [db[x] EXCEPT !.status = status]
    OBVIOUS
  <2>2. db' = [db EXCEPT ![x] = v]
    BY <1>3, <2>1 DEF Becomes, LedgerRowsTyped
  <2>3. /\ x \in Bills => v \in BillRow /\ v.received = db[x].received
        /\ x \in Settlements => v \in SettlementRow
        /\ v.status = status /\ v.entries = db[x].entries + 0 /\ v.ledger = db[x].ledger + 0
    BY <1>1, <1>2, <2>1 DEF LedgerRowsTyped, LedgerRows, BillRow, SettlementRow
  <2> QED BY <2>2, <2>3, RowPut DEF RowGets
<1>4. ASSUME PostEntry(x) PROVE RowGets(x, db[x].status, 1, 0)
  <2>1. PICK v : v = [db[x] EXCEPT !.entries = @ + 1]
    OBVIOUS
  <2>2. db' = [db EXCEPT ![x] = v]
    BY <1>4, <2>1 DEF PostEntry, LedgerRowsTyped
  <2>3. /\ x \in Bills => v \in BillRow /\ v.received = db[x].received
        /\ x \in Settlements => v \in SettlementRow
        /\ v.status = db[x].status /\ v.entries = db[x].entries + 1 /\ v.ledger = db[x].ledger + 0
    BY <1>1, <1>2, <2>1 DEF LedgerRowsTyped, LedgerRows, BillRow, SettlementRow
  <2> QED BY <2>2, <2>3, RowPut DEF RowGets
<1>5. ASSUME WriteLedger(x) PROVE RowGets(x, db[x].status, 0, 1)
  <2>1. PICK v : v = [db[x] EXCEPT !.ledger = @ + 1]
    OBVIOUS
  <2>2. db' = [db EXCEPT ![x] = v]
    BY <1>5, <2>1 DEF WriteLedger, LedgerRowsTyped
  <2>3. /\ x \in Bills => v \in BillRow /\ v.received = db[x].received
        /\ x \in Settlements => v \in SettlementRow
        /\ v.status = db[x].status /\ v.entries = db[x].entries + 0 /\ v.ledger = db[x].ledger + 1
    BY <1>1, <1>2, <2>1 DEF LedgerRowsTyped, LedgerRows, BillRow, SettlementRow
  <2> QED BY <2>2, <2>3, RowPut DEF RowGets
<1>6. ASSUME UNCHANGED db PROVE RowGets(x, db[x].status, 0, 0)
  BY <1>1, <1>6 DEF RowGets, LedgerRowsTyped
<1> QED BY <1>3, <1>4, <1>5, <1>6

\* What the journal has of the receipts of a bill, after an entry for x.
LEMMA JournalledMore ==
    ASSUME ReceivablesInv, NEW x \in LedgerRows, NEW status, NEW entries \in Nat, NEW ledger \in Nat,
           RowGets(x, status, entries, ledger), NEW i \in Bills
    PROVE  SumFunctionOnSet(Journalled', ReceiptsOf(i))
             = SumFunctionOnSet(Journalled, ReceiptsOf(i))
               + IF x \in Settlements /\ BillOf[x] = i THEN Amount[x] * entries ELSE 0
<1>1. LedgerNumbers
  BY LedgerSums DEF ReceivablesInv
<1>2. ReceiptsOf(i) \subseteq Settlements /\ \A r \in ReceiptsOf(i) : BillOf[r] = i
  BY DEF ReceiptsOf
<1>3. \A r \in Settlements : /\ Journalled[r] = Amount[r] * db[r].entries
                             /\ Journalled'[r] = Amount[r] * db'[r].entries
  BY DEF Journalled
<1>4. \A r \in ReceiptsOf(i) \ {x} : Journalled[r] = Journalled'[r]
  BY <1>2, <1>3 DEF RowGets, LedgerRows
<1>5. CASE x \in Settlements /\ BillOf[x] = i
  <2>1. x \in ReceiptsOf(i) /\ Amount[x] \in Nat /\ db[x].entries \in Nat
    BY <1>1, <1>5, ReceivablesFinite DEF ReceiptsOf, LedgerNumbers
  <2>2. Journalled'[x] = Journalled[x] + Amount[x] * entries /\ Journalled[x] \in Int
    BY <1>3, <1>5, <2>1 DEF RowGets
  <2>3. Journalled'[x] \in Int
    BY <2>1, <2>2
  <2>4. SumFunctionOnSet(Journalled', ReceiptsOf(i))
          = SumFunctionOnSet(Journalled, ReceiptsOf(i)) - Journalled[x] + Journalled'[x]
    BY <1>1, <1>4, <2>1, <2>3, SumChanges DEF LedgerNumbers
  <2>5. Amount[x] * entries \in Nat
    BY <2>1
  <2> QED BY <1>1, <1>5, <2>2, <2>4, <2>5 DEF LedgerNumbers
<1>6. CASE ~(x \in Settlements /\ BillOf[x] = i)
  <2>1. x \notin ReceiptsOf(i)
    BY <1>2, <1>6
  <2>2. SumFunctionOnSet(Journalled', ReceiptsOf(i)) = SumFunctionOnSet(Journalled, ReceiptsOf(i))
    BY <1>1, <1>4, <2>1, SumSame DEF LedgerNumbers
  <2> QED BY <1>1, <1>6, <2>2 DEF LedgerNumbers
<1> QED BY <1>5, <1>6

\* A commit on one row, of a request that owes the ledger row of the entry that
\* it makes, and the allocation that the entry is for.
Commits(c, q, p, x, status, entries, ledger) ==
    /\ q = call[c] /\ call' = [call EXCEPT ![c] = p] /\ tidy' \in BOOLEAN
    /\ RowGets(x, status, entries, ledger)
    /\ status = "ABSENT" => db[x].status = "ABSENT"
    /\ status = "POSTED" => db[x].entries > 0 \/ entries = 1
    /\ x \in Bills /\ db[x].status = "POSTED" => status = "POSTED"
    /\ x \in Settlements /\ status # "ABSENT" => db[BillOf[x]].status = "POSTED"
    /\ \/ entries = 0 /\ ledger = 0 /\ (Owes(p, x) <=> Owes(q, x))
       \/ entries = 1 /\ ledger = 0 /\ Owes(p, x) /\ ~Owes(q, x)
       \/ entries = 0 /\ ledger = 1 /\ ~Owes(p, x) /\ Owes(q, x)
    /\ \A y \in LedgerRows \ {x} : Owes(p, y) <=> Owes(q, y)
    /\ \A i \in Bills :
          \/ entries = 0 /\ Allots(p, i) = Allots(q, i)
          \/ /\ entries = 1 /\ Allots(q, i) = 0
             /\ Allots(p, i) = IF x \in Settlements /\ BillOf[x] = i THEN Amount[x] ELSE 0
    /\ tidy' => tidy /\ (q = Idle => Alone)

LEMMA RowGetsKeeps ==
    ASSUME ReceivablesInv, NEW c \in Calls, NEW q, NEW p \in ReceivablesCall, NEW x \in LedgerRows,
           NEW status, NEW entries, NEW ledger, Commits(c, q, p, x, status, entries, ledger),
           LedgerRequest(p)', LedgerTurn(q) => LedgerTurn(p)'
    PROVE  ReceivablesInv'
<1> USE DEF Commits
<1>0. entries \in {0, 1} /\ ledger \in {0, 1}
  OBVIOUS
<1>1. LedgerNumbers
  BY LedgerSums DEF ReceivablesInv
<1>2. LedgerKept
  BY <1>0, <1>1 DEF LedgerKept, RowGets, LedgerRows, LedgerNumbers
<1>3. PostedFollow'
  <2>1. ASSUME NEW y \in LedgerRows, db'[y].status = "POSTED" PROVE db'[y].entries > 0
    BY <1>1, <2>1 DEF RowGets, ReceivablesInv, PostedFollow, LedgerNumbers
  <2>2. ASSUME NEW r \in Settlements, db'[r].status # "ABSENT" PROVE db'[BillOf[r]].status = "POSTED"
    <3>1. db[BillOf[r]].status = "POSTED"
      BY <2>2 DEF RowGets, ReceivablesInv, PostedFollow, LedgerRows
    <3> QED BY <1>2, <3>1, ReceivablesFinite DEF LedgerKept
  <2> QED BY <2>1, <2>2 DEF PostedFollow
<1>4. \A y \in LedgerRows : OpenRow(p, y)' = OpenRow(q, y) /\ OpenRow(q, y) \in Int
  <2>1. ASSUME NEW y \in LedgerRows, y # x PROVE OpenRow(p, y)' = OpenRow(q, y)
    <3>1. db'[y] = db[y] /\ (Owes(p, y) <=> Owes(q, y))
      BY <2>1 DEF RowGets
    <3>2. OpenRow(p, y)' = db'[y].entries - db'[y].ledger - IF Owes(p, y) THEN 1 ELSE 0
      BY DEF OpenRow, Owes
    <3> QED BY <3>1, <3>2 DEF OpenRow
  <2>2. OpenRow(p, x)' = db'[x].entries - db'[x].ledger - IF Owes(p, x) THEN 1 ELSE 0
    BY DEF OpenRow, Owes
  <2>3. OpenRow(p, x)' = OpenRow(q, x)
    BY <1>1, <2>2 DEF OpenRow, RowGets, LedgerNumbers
  <2> QED BY <1>1, <2>1, <2>3 DEF OpenRow, LedgerNumbers
<1>5. \A i \in Bills : OpenCash(p, i)' = OpenCash(q, i) /\ OpenCash(q, i) \in Int
  <2> SUFFICES ASSUME NEW i \in Bills
               PROVE  OpenCash(p, i)' = OpenCash(q, i) /\ OpenCash(q, i) \in Int
    OBVIOUS
  <2> DEFINE more == IF x \in Settlements /\ BillOf[x] = i THEN Amount[x] * entries ELSE 0
  <2>1. OpenCash(p, i)' = SumFunctionOnSet(Journalled', ReceiptsOf(i)) - db'[i].received - Allots(p, i)
    BY DEF OpenCash, Allots, ReceiptsOf
  <2>2. SumFunctionOnSet(Journalled', ReceiptsOf(i)) = SumFunctionOnSet(Journalled, ReceiptsOf(i)) + more
    <3>1. entries \in Nat /\ ledger \in Nat /\ RowGets(x, status, entries, ledger)
      BY <1>0
    <3> HIDE DEF Commits
    <3> QED BY <3>1, JournalledMore
  <2>3. more \in Nat
    BY ReceivablesFinite
  <2>4. Allots(q, i) \in Nat /\ Allots(p, i) = Allots(q, i) + more
    <3>1. Allots(q, i) \in Nat /\ (x \in Settlements => Amount[x] \in Nat)
      BY <1>1, ReceivablesFinite DEF LedgerNumbers
    <3>2. CASE entries = 0 /\ Allots(p, i) = Allots(q, i)
      <4>1. more = 0
        BY <3>1, <3>2
      <4> HIDE DEF more, Commits
      <4> QED BY <3>1, <3>2, <4>1
    <3>3. CASE /\ entries = 1 /\ Allots(q, i) = 0
               /\ Allots(p, i) = IF x \in Settlements /\ BillOf[x] = i THEN Amount[x] ELSE 0
      <4>1. more = Allots(p, i)
        BY <3>1, <3>3
      <4> HIDE DEF more, Commits
      <4> QED BY <3>1, <3>3, <4>1, <2>3
    <3> QED BY <3>2, <3>3
  <2> HIDE DEF more
  <2> QED BY <1>1, <2>1, <2>2, <2>3, <2>4 DEF OpenCash, RowGets, LedgerNumbers
<1>6. /\ \A y \in LedgerRows : OpenRow(p, y)' >= OpenRow(q, y)
      /\ \A i \in Bills : OpenCash(p, i)' >= OpenCash(q, i)
  BY <1>4, <1>5
<1>7. LedgerRowsTyped'
  BY DEF RowGets
<1> QED BY <1>0, <1>2, <1>3, <1>4, <1>5, <1>6, <1>7, LedgerStep

\* The turn of a request goes on over a commit on one row.
LEMMA LedgerTurnKept ==
    ASSUME ReceivablesInv, NEW q, NEW p, NEW x \in LedgerRows, NEW status, NEW entries \in {0, 1},
           NEW ledger, RowGets(x, status, entries, ledger), LedgerTurn(q),
           p.at = "post" => p.row \in LedgerRows /\ db'[p.row].status # "POSTED",
           \A y \in LedgerRows \ {x} : Entering(p, y) <=> Entering(q, y),
           \/ entries = 0 /\ (status = "POSTED" \/ Entering(p, x) <=> db[x].status = "POSTED" \/ Entering(q, x))
           \/ entries = 1 /\ Entering(p, x) /\ db[x].status # "POSTED" /\ ~Entering(q, x)
    PROVE  LedgerTurn(p)'
<1>1. \A y \in LedgerRows : db[y].entries \in Nat
  BY LedgerSums DEF ReceivablesInv, LedgerNumbers
<1>2. ASSUME NEW y \in LedgerRows PROVE EnteredOnce(p, y)'
  <2>1. EnteredOnce(q, y)
    BY DEF LedgerTurn
  <2>2. EnteredOnce(p, y)' <=> db'[y].entries = IF db'[y].status = "POSTED" \/ Entering(p, y) THEN 1 ELSE 0
    BY DEF EnteredOnce, Entering
  <2> QED BY <1>1, <2>1, <2>2 DEF EnteredOnce, RowGets
<1> QED BY <1>2 DEF LedgerTurn, LedgerRows

\* A statement of no request that posts nothing.
LEMMA LedgerStatement ==
    ASSUME ReceivablesInv, UNCHANGED call, tidy' \in BOOLEAN, tidy' => tidy, LedgerRowsTyped',
           \A x \in LedgerRows : /\ db'[x].entries = db[x].entries /\ db'[x].ledger = db[x].ledger
                                 /\ db[x].status # "ABSENT" => db'[x].status # "ABSENT"
                                 /\ db'[x].status = "POSTED" <=> db[x].status = "POSTED",
           \A i \in Bills : db'[i].received = db[i].received,
           \A r \in Settlements : db'[r].status # "ABSENT" => db[BillOf[r]].status = "POSTED"
    PROVE  ReceivablesInv'
<1>1. LedgerKept
  BY LedgerSums DEF LedgerKept, LedgerRows, LedgerNumbers, ReceivablesInv
<1>2. ReceivablesTyped' /\ PostedFollow'
  BY ReceivablesFinite DEF ReceivablesInv, ReceivablesTyped, PostedFollow, LedgerRows
<1>3. \A c \in Calls : LedgerRequest(call[c])'
  <2>1. TAKE c \in Calls
  <2>2. PICK z : z = call[c] /\ z = call'[c]
    OBVIOUS
  <2>3. LedgerRequest(z)'
    BY <1>1, <2>2, LedgerRequestStays DEF ReceivablesInv
  <2> QED BY <2>2, <2>3
<1>4. \A x \in LedgerRows : RowsLost(x)' = RowsLost(x)
  BY DEF RowsLost, Owed, Owes
<1>5. Journalled' = Journalled
  BY DEF Journalled, LedgerRows
<1>6. \A i \in Bills : CashLost(i)' = CashLost(i)
  BY <1>5 DEF CashLost, Allotted, Allots, ReceiptsOf
<1>7. LostInv'
  BY <1>4, <1>6 DEF ReceivablesInv, LostInv
<1>8. ASSUME LedgerTurns PROVE LedgerTurns'
  <2>1. LedgerTurn(Idle) => LedgerTurn(Idle)'
    BY DEF LedgerTurn, EnteredOnce, Entering, Idle, LedgerRows
  <2>2. \A c \in Calls : call[c] # Idle /\ LedgerTurn(call[c]) => LedgerTurn(call[c])'
    <3>1. \A c \in Calls : call[c].at = "post" => call[c].row \in LedgerRows
      BY DEF ReceivablesInv, LedgerRequest, LedgerRows, Idle
    <3> QED BY <3>1 DEF LedgerTurn, EnteredOnce, Entering, LedgerRows
  <2> QED BY <1>4, <1>6, <1>8, <2>1, <2>2 DEF LedgerTurns, Alone
<1> QED BY <1>2, <1>3, <1>7, <1>8 DEF ReceivablesInv

-----------------------------------------------------------------------------
(* The steps *)

\* A request comes in, having read what it needs.
LEMMA LedgerEntered ==
    ASSUME ReceivablesInv, NEW c \in Calls, NEW op \in {"postBill", "createReceipt", "postReceipt"},
           NEW at \in {"post", "write"}, NEW x \in LedgerRows, Enter(c, op, at, x, None, None),
           at = "write" <=> op = "createReceipt",
           op = "postBill" => x \in Bills /\ db[x].status = "DRAFT",
           op = "postReceipt" => x \in Settlements /\ db[x].status = "DRAFT",
           op = "createReceipt" => x \in Settlements /\ db[BillOf[x]].status = "POSTED"
    PROVE  ReceivablesInv'
<1> DEFINE r == [op |-> op, at |-> at, row |-> x, arg |-> None, seen |-> None]
<1>1. PICK p \in ReceivablesCall : p = r
  BY DEF ReceivablesCall
<1>2. /\ p.op = op /\ p.at = at /\ p.row = x /\ call[c] = Idle
      /\ call' = [call EXCEPT ![c] = p] /\ tidy' = (tidy /\ Alone) /\ UNCHANGED db
  BY <1>1 DEF Enter
<1>3. RowGets(x, db[x].status, 0, 0) /\ db[x].status \in {"ABSENT", "DRAFT", "POSTED"}
  BY <1>2, RowWritten DEF ReceivablesInv, ReceivablesTyped, LedgerRowsTyped, LedgerRows, BillRow, SettlementRow
<1>4. LedgerRequest(p)'
  BY <1>2 DEF LedgerRequest
<1>5. \A y \in LedgerRows : ~Owes(p, y) /\ ~Owes(Idle, y) /\ ~Entering(p, y) /\ ~Entering(Idle, y)
  BY <1>2 DEF Owes, Entering, Idle
<1>6. \A i \in Bills : Allots(p, i) = 0 /\ Allots(Idle, i) = 0
  BY <1>2 DEF Allots, Idle
<1>7. tidy' \in BOOLEAN
  BY <1>2 DEF ReceivablesInv, ReceivablesTyped
<1>8. LedgerTurn(Idle) => LedgerTurn(p)'
  <2>1. p.at = "post" => db[x].status # "POSTED"
    BY <1>2
  <2> QED BY <1>2, <1>3, <1>5, <2>1, LedgerTurnKept
<1>9. /\ db[x].status = "POSTED" => db[x].entries > 0
      /\ x \in Settlements /\ db[x].status # "ABSENT" => db[BillOf[x]].status = "POSTED"
  BY LedgerSums DEF ReceivablesInv, PostedFollow, LedgerNumbers
<1>10. Commits(c, Idle, p, x, db[x].status, 0, 0)
  BY <1>2, <1>3, <1>5, <1>6, <1>7, <1>9 DEF Commits
<1> QED BY <1>4, <1>8, <1>10, RowGetsKeeps

\* A request goes on to another step, or ends, with a commit on its row.
LEMMA LedgerGoesOn ==
    ASSUME ReceivablesInv, NEW c \in Calls, NEW at, At(c, call[c].op, at, call[c].row, None),
           NEW next \in {"posted", "allocate", "ledger", "write"},
           NEW x \in LedgerRows, x = call[c].row,
           \/ at = "post" /\ PostEntry(x) /\ Goto(c, next)
              /\ call[c].op \in {"postBill", "postReceipt"}
              /\ next = (IF call[c].op = "postBill" THEN "posted" ELSE "allocate")
           \/ at = "posted" /\ Becomes(x, "POSTED") /\ Goto(c, next) /\ next = "ledger"
              /\ call[c].op = "postBill"
           \/ at = "ledger" /\ WriteLedger(x) /\ Goto(c, next) /\ next = "write"
              /\ call[c].op = "postReceipt"
    PROVE  ReceivablesInv'
<1>1. PICK q \in ReceivablesCall : q = call[c]
  BY DEF ReceivablesInv, ReceivablesTyped
<1>2. PICK p \in ReceivablesCall : p = [q EXCEPT !.at = next]
  BY DEF ReceivablesCall
<1>3. /\ p.op = q.op /\ p.at = next /\ p.row = x /\ q.row = x /\ q.at = at
      /\ call' = [call EXCEPT ![c] = p] /\ UNCHANGED tidy /\ q # Idle
  BY <1>1, <1>2 DEF ReceivablesCall, Goto, At, Idle, ReceivablesInv, ReceivablesTyped
<1>4. LedgerNumbers /\ LedgerRequest(q)
  BY <1>1, LedgerSums DEF ReceivablesInv
<1>5. /\ q.op = "postBill" => x \in Bills /\ x \notin Settlements
      /\ q.op = "postReceipt" => x \in Settlements /\ x \notin Bills
      /\ db[x].status # "ABSENT" /\ db[x].status \in {"ABSENT", "DRAFT", "POSTED"}
      /\ at # "post" => db[x].entries > 0
  BY <1>1, <1>3, <1>4, ReceivablesAssumption DEF LedgerRequest, Idle, LedgerRows, ReceivablesInv,
     ReceivablesTyped, LedgerRowsTyped, BillRow, SettlementRow
<1>6. tidy' \in BOOLEAN
  BY <1>3 DEF ReceivablesInv, ReceivablesTyped
<1>7. /\ db[x].status = "POSTED" => db[x].entries > 0
      /\ x \in Settlements => db[BillOf[x]].status = "POSTED"
      /\ db[x].entries \in Nat
  BY <1>4, <1>5 DEF ReceivablesInv, PostedFollow, LedgerNumbers
<1>8. \A y \in LedgerRows \ {x} : ~Owes(p, y) /\ ~Owes(q, y) /\ ~Entering(p, y) /\ ~Entering(q, y)
  BY <1>3 DEF Owes, Entering
<1>9. CASE at = "post"
  <2>1. RowGets(x, db[x].status, 1, 0)
    BY <1>1, <1>9, RowWritten DEF ReceivablesInv, ReceivablesTyped
  <2>2. q.op \in {"postBill", "postReceipt"} /\ next = (IF q.op = "postBill" THEN "posted" ELSE "allocate")
    BY <1>1, <1>9
  <2>3. Owes(p, x) /\ ~Owes(q, x) /\ Entering(p, x) /\ ~Entering(q, x)
    BY <1>3, <1>9, <2>2 DEF Owes, Entering
  <2>4. \A i \in Bills : Allots(q, i) = 0 /\ Allots(p, i) = IF x \in Settlements /\ BillOf[x] = i THEN Amount[x] ELSE 0
    BY <1>3, <1>5, <1>6, <1>9, <2>2 DEF Allots
  <2>5. LedgerRequest(p)'
    BY <1>3, <1>5, <1>7, <2>1, <2>2 DEF LedgerRequest, RowGets
  <2>6. LedgerTurn(q) => LedgerTurn(p)'
    <3>1. ASSUME LedgerTurn(q) PROVE db[x].status # "POSTED"
      BY <1>3, <1>9, <3>1 DEF LedgerTurn
    <3> QED BY <1>3, <1>8, <2>1, <2>3, <3>1, LedgerTurnKept
  <2>7. Commits(c, q, p, x, db[x].status, 1, 0)
    BY <1>1, <1>3, <1>5, <1>6, <1>7, <1>8, <2>1, <2>3, <2>4 DEF Commits
  <2> QED BY <2>5, <2>6, <2>7, RowGetsKeeps
<1>10. CASE at = "posted"
  <2>1. RowGets(x, "POSTED", 0, 0) /\ q.op = "postBill" /\ next = "ledger"
    BY <1>1, <1>10, RowWritten DEF ReceivablesInv, ReceivablesTyped
  <2>2. Owes(p, x) /\ Owes(q, x) /\ ~Entering(p, x) /\ Entering(q, x)
    BY <1>3, <1>10, <2>1 DEF Owes, Entering
  <2>3. \A i \in Bills : Allots(p, i) = 0 /\ Allots(q, i) = 0
    BY <1>3, <2>1 DEF Allots
  <2>4. LedgerRequest(p)'
    BY <1>3, <1>5, <1>7, <1>10, <2>1 DEF LedgerRequest, RowGets
  <2>5. LedgerTurn(q) => LedgerTurn(p)'
    BY <1>3, <1>8, <2>1, <2>2, LedgerTurnKept
  <2>6. Commits(c, q, p, x, "POSTED", 0, 0)
    BY <1>1, <1>3, <1>5, <1>6, <1>7, <1>8, <1>10, <2>1, <2>2, <2>3 DEF Commits
  <2> QED BY <2>4, <2>5, <2>6, RowGetsKeeps
<1>11. CASE at = "ledger"
  <2>1. RowGets(x, db[x].status, 0, 1) /\ q.op = "postReceipt" /\ next = "write"
    BY <1>1, <1>11, RowWritten DEF ReceivablesInv, ReceivablesTyped
  <2>2. ~Owes(p, x) /\ Owes(q, x) /\ Entering(p, x) /\ Entering(q, x)
    BY <1>3, <1>11, <2>1 DEF Owes, Entering
  <2>3. \A i \in Bills : Allots(p, i) = 0 /\ Allots(q, i) = 0
    BY <1>3, <1>11, <2>1 DEF Allots
  <2>4. LedgerRequest(p)'
    BY <1>3, <1>5, <1>7, <1>11, <2>1 DEF LedgerRequest, RowGets
  <2>5. LedgerTurn(q) => LedgerTurn(p)'
    BY <1>3, <1>8, <2>1, <2>2, LedgerTurnKept
  <2>6. Commits(c, q, p, x, db[x].status, 0, 1)
    BY <1>1, <1>3, <1>5, <1>6, <1>7, <1>8, <1>11, <2>1, <2>2, <2>3 DEF Commits
  <2> QED BY <2>4, <2>5, <2>6, RowGetsKeeps
<1> QED BY <1>9, <1>10, <1>11

\* A request writes the last of its rows and ends.
LEMMA LedgerEnds ==
    ASSUME ReceivablesInv, NEW c \in Calls, Leave(c), NEW x \in LedgerRows, x = call[c].row,
           \/ At(c, "postBill", "ledger", x, None) /\ WriteLedger(x)
           \/ At(c, "createReceipt", "write", x, None) /\ InsertReceipt(x)
           \/ At(c, "postReceipt", "write", x, None) /\ Becomes(x, "POSTED")
    PROVE  ReceivablesInv'
<1>1. PICK q \in ReceivablesCall : q = call[c]
  BY DEF ReceivablesInv, ReceivablesTyped
<1>2. /\ Idle \in ReceivablesCall /\ call' = [call EXCEPT ![c] = Idle] /\ UNCHANGED tidy /\ q # Idle
  BY <1>1 DEF ReceivablesCall, Leave, At, Idle
<1>3. LedgerNumbers /\ LedgerRequest(q) /\ q.row = x
  BY <1>1, LedgerSums DEF ReceivablesInv
<1>4. /\ db[x].status \in {"ABSENT", "DRAFT", "POSTED"} /\ db[x].entries \in Nat
      /\ db[x].status = "POSTED" => db[x].entries > 0
      /\ x \in Settlements /\ db[x].status # "ABSENT" => db[BillOf[x]].status = "POSTED"
      /\ x \in Settlements <=> x \notin Bills
      /\ tidy' \in BOOLEAN
  BY <1>2, <1>3, ReceivablesFinite, ReceivablesAssumption DEF LedgerRows, ReceivablesInv, PostedFollow,
     LedgerNumbers, ReceivablesTyped, LedgerRowsTyped, BillRow, SettlementRow
<1>5. \A y \in LedgerRows : ~Owes(Idle, y) /\ ~Entering(Idle, y) /\ (y # x => ~Owes(q, y) /\ ~Entering(q, y))
  BY <1>3 DEF Owes, Entering, Idle
<1>6. LedgerRequest(Idle)' /\ Idle.at # "post"
  BY DEF LedgerRequest, Idle
<1>7. \A i \in Bills : Allots(Idle, i) = 0 /\ Allots(q, i) = 0
  BY <1>1 DEF Allots, Idle, At
<1>8. CASE At(c, "postBill", "ledger", x, None) /\ WriteLedger(x)
  <2>1. RowGets(x, db[x].status, 0, 1) /\ Owes(q, x) /\ ~Entering(q, x)
    BY <1>1, <1>8, RowWritten DEF ReceivablesInv, ReceivablesTyped, At, Owes, Entering
  <2>2. LedgerTurn(q) => LedgerTurn(Idle)'
    BY <1>5, <1>6, <2>1, LedgerTurnKept
  <2>3. Commits(c, q, Idle, x, db[x].status, 0, 1)
    BY <1>1, <1>2, <1>4, <1>5, <1>7, <2>1 DEF Commits
  <2> QED BY <1>2, <1>6, <2>2, <2>3, RowGetsKeeps
<1>9. CASE At(c, "createReceipt", "write", x, None) /\ InsertReceipt(x)
  <2>1. x \in Settlements /\ db[BillOf[x]].status = "POSTED" /\ ~Owes(q, x) /\ ~Entering(q, x)
    BY <1>1, <1>3, <1>9 DEF LedgerRequest, At, Idle, Owes, Entering
  <2>2. PICK status \in {"DRAFT", "POSTED"} :
            RowGets(x, status, 0, 0) /\ (status = "POSTED" <=> db[x].status = "POSTED")
    <3>1. CASE db[x].status = "ABSENT"
      BY <1>9, <3>1, RowWritten DEF ReceivablesInv, ReceivablesTyped, InsertReceipt, In
    <3>2. CASE db[x].status # "ABSENT"
      BY <1>4, <1>9, <3>2, RowWritten DEF ReceivablesInv, ReceivablesTyped, InsertReceipt, In
    <3> QED BY <3>1, <3>2
  <2>3. LedgerTurn(q) => LedgerTurn(Idle)'
    BY <1>5, <1>6, <2>1, <2>2, LedgerTurnKept
  <2>4. Commits(c, q, Idle, x, status, 0, 0)
    BY <1>1, <1>2, <1>4, <1>5, <1>7, <2>1, <2>2 DEF Commits
  <2> QED BY <1>2, <1>6, <2>3, <2>4, RowGetsKeeps
<1>10. CASE At(c, "postReceipt", "write", x, None) /\ Becomes(x, "POSTED")
  <2>1. RowGets(x, "POSTED", 0, 0) /\ ~Owes(q, x) /\ Entering(q, x)
    BY <1>1, <1>10, RowWritten DEF ReceivablesInv, ReceivablesTyped, At, Owes, Entering
  <2>2. db[x].status # "ABSENT" /\ db[x].entries > 0 /\ x \in Settlements
    BY <1>1, <1>3, <1>10 DEF LedgerRequest, At, Idle
  <2>3. LedgerTurn(q) => LedgerTurn(Idle)'
    BY <1>5, <1>6, <2>1, LedgerTurnKept
  <2>4. Commits(c, q, Idle, x, "POSTED", 0, 0)
    BY <1>1, <1>2, <1>4, <1>5, <1>7, <2>1, <2>2 DEF Commits
  <2> QED BY <1>2, <1>6, <2>3, <2>4, RowGetsKeeps
<1> QED BY <1>8, <1>9, <1>10

\* A receipt is allocated to its bill.
LEMMA AllocatedKeeps ==
    ASSUME ReceivablesInv, NEW c \in Calls, NEW r \in Settlements,
           At(c, "postReceipt", "allocate", r, None), Allocate(r), Goto(c, "ledger")
    PROVE  ReceivablesInv'
<1>1. PICK q \in ReceivablesCall : q = call[c]
  BY DEF ReceivablesInv, ReceivablesTyped
<1>2. PICK p \in ReceivablesCall : p = [q EXCEPT !.at = "ledger"]
  BY DEF ReceivablesCall
<1>3. /\ p.op = "postReceipt" /\ p.at = "ledger" /\ p.row = r
      /\ q.op = "postReceipt" /\ q.at = "allocate" /\ q.row = r
      /\ call' = [call EXCEPT ![c] = p] /\ UNCHANGED tidy /\ q # Idle
  BY <1>1, <1>2 DEF ReceivablesCall, Goto, At, Idle, ReceivablesInv, ReceivablesTyped
<1>4. LedgerNumbers /\ LedgerRequest(q)
  BY <1>1, LedgerSums DEF ReceivablesInv
<1>5. PICK b \in Bills : b = BillOf[r] /\ Amount[r] \in Nat
  BY ReceivablesFinite
<1>6. PICK v : v = [db[b] EXCEPT !.received = @ + Amount[r]]
  OBVIOUS
<1>7. /\ db' = [db EXCEPT ![b] = v] /\ v \in BillRow /\ v.status = db[b].status
      /\ v.entries = db[b].entries /\ v.ledger = db[b].ledger /\ v.received = db[b].received + Amount[r]
      /\ b \notin Settlements /\ b \in LedgerRows
  BY <1>5, <1>6, ReceivablesAssumption DEF Allocate, ReceivablesInv, ReceivablesTyped, LedgerRowsTyped,
     LedgerRows, BillRow
<1>8. /\ LedgerRowsTyped' /\ db'[b] = v
      /\ \A x \in LedgerRows \ {b} : db'[x] = db[x]
  <2>1. /\ DOMAIN db' = LedgerRows /\ db'[b] = v /\ \A x \in LedgerRows \ {b} : db'[x] = db[x]
        /\ db' = [x \in DOMAIN db' |-> db'[x]]
    BY <1>7 DEF ReceivablesInv, ReceivablesTyped, LedgerRowsTyped
  <2> QED BY <1>7, <2>1 DEF LedgerRowsTyped, LedgerRows, ReceivablesInv, ReceivablesTyped
<1>9. /\ \A x \in LedgerRows : /\ db'[x].status = db[x].status /\ db'[x].entries = db[x].entries
                               /\ db'[x].ledger = db[x].ledger
      /\ \A i \in Bills \ {b} : db'[i].received = db[i].received
      /\ db'[b].received = db[b].received + Amount[r]
  BY <1>7, <1>8 DEF LedgerRows
<1>10. LedgerKept /\ PostedFollow' /\ LedgerRequest(p)'
  <2>1. LedgerKept
    BY <1>4, <1>9 DEF LedgerKept, LedgerNumbers, LedgerRows
  <2>2. PostedFollow'
    <3>1. \A s \in Settlements : BillOf[s] \in LedgerRows
      BY ReceivablesFinite DEF LedgerRows
    <3> QED BY <1>9, <3>1 DEF PostedFollow, LedgerRows, ReceivablesInv
  <2>3. LedgerRequest(p)'
    BY <1>3, <1>4, <1>9 DEF LedgerRequest, LedgerRows, Idle
  <2> QED BY <2>1, <2>2, <2>3
<1>11. \A x \in LedgerRows : OpenRow(p, x)' = OpenRow(q, x) /\ OpenRow(q, x) \in Int
  <2>1. \A x \in LedgerRows : Owes(p, x) <=> Owes(q, x)
    BY <1>3 DEF Owes
  <2>2. \A x \in LedgerRows : OpenRow(p, x)' = db'[x].entries - db'[x].ledger - IF Owes(p, x) THEN 1 ELSE 0
    BY DEF OpenRow, Owes
  <2> QED BY <1>4, <1>9, <2>1, <2>2 DEF OpenRow, LedgerNumbers
<1>12. \A i \in Bills : OpenCash(p, i)' = OpenCash(q, i) /\ OpenCash(q, i) \in Int
  <2> SUFFICES ASSUME NEW i \in Bills
               PROVE  OpenCash(p, i)' = OpenCash(q, i) /\ OpenCash(q, i) \in Int
    OBVIOUS
  <2>1. Journalled' = Journalled
    BY <1>9 DEF Journalled, LedgerRows
  <2>2. OpenCash(p, i)' = SumFunctionOnSet(Journalled, ReceiptsOf(i)) - db'[i].received - Allots(p, i)
    BY <2>1 DEF OpenCash, Allots, ReceiptsOf
  <2>3. Allots(p, i) = 0 /\ Allots(q, i) = IF b = i THEN Amount[r] ELSE 0
    BY <1>3, <1>5 DEF Allots
  <2>4. CASE i = b
    BY <1>4, <1>5, <1>9, <2>2, <2>3, <2>4 DEF OpenCash, LedgerNumbers
  <2>5. CASE i # b
    BY <1>4, <1>9, <2>2, <2>3, <2>5 DEF OpenCash, LedgerNumbers
  <2> QED BY <2>4, <2>5
<1>13. ASSUME LedgerTurn(q) PROVE LedgerTurn(p)'
  <2>1. \A x \in LedgerRows : Entering(p, x) <=> Entering(q, x)
    BY <1>3 DEF Entering
  <2>2. \A x \in LedgerRows :
            EnteredOnce(p, x)' <=> db'[x].entries = IF db'[x].status = "POSTED" \/ Entering(p, x) THEN 1 ELSE 0
    BY DEF EnteredOnce, Entering
  <2> QED BY <1>3, <1>9, <1>13, <2>1, <2>2 DEF LedgerTurn, EnteredOnce, LedgerRows
<1>14. /\ \A x \in LedgerRows : OpenRow(p, x)' >= OpenRow(q, x)
       /\ \A i \in Bills : OpenCash(p, i)' >= OpenCash(q, i)
       /\ tidy' \in BOOLEAN
  BY <1>3, <1>11, <1>12 DEF ReceivablesInv, ReceivablesTyped
<1> QED BY <1>1, <1>3, <1>8, <1>10, <1>11, <1>12, <1>13, <1>14, LedgerStep

\* A request is cut off, and what it owes stays open.
LEMMA LedgerCutOff ==
    ASSUME ReceivablesInv, NEW c \in Calls, CutOff(c)
    PROVE  ReceivablesInv'
<1>1. PICK q \in ReceivablesCall : q = call[c]
  BY DEF ReceivablesInv, ReceivablesTyped
<1>2. PICK p \in ReceivablesCall : p = Idle
  BY DEF ReceivablesCall, Idle
<1>3. call' = [call EXCEPT ![c] = p] /\ tidy' = FALSE /\ UNCHANGED db
  BY <1>2 DEF CutOff
<1>4. LedgerNumbers
  BY LedgerSums DEF ReceivablesInv
<1>5. LedgerRowsTyped' /\ PostedFollow' /\ LedgerKept /\ LedgerRequest(p)'
  BY <1>2, <1>3, <1>4 DEF ReceivablesInv, ReceivablesTyped, LedgerRowsTyped, PostedFollow, LedgerKept,
     LedgerRequest, LedgerNumbers, LedgerRows
<1>6. \A x \in LedgerRows : OpenRow(p, x)' >= OpenRow(q, x)
  <2>1. \A x \in LedgerRows : OpenRow(p, x)' = db[x].entries - db[x].ledger
    BY <1>2, <1>3, <1>4 DEF OpenRow, Owes, Idle, LedgerNumbers
  <2> QED BY <1>4, <2>1 DEF OpenRow, LedgerNumbers
<1>7. \A i \in Bills : OpenCash(p, i)' >= OpenCash(q, i)
  <2> SUFFICES ASSUME NEW i \in Bills PROVE OpenCash(p, i)' >= OpenCash(q, i)
    OBVIOUS
  <2>1. OpenCash(p, i)' = SumFunctionOnSet(Journalled, ReceiptsOf(i)) - db[i].received - Allots(p, i)
    BY <1>3 DEF OpenCash, Allots, ReceiptsOf, Journalled
  <2>2. Allots(p, i) = 0 /\ Allots(q, i) \in Nat
    BY <1>1, <1>2, <1>4 DEF Allots, Idle, LedgerNumbers
  <2> QED BY <1>4, <2>1, <2>2 DEF OpenCash, LedgerNumbers
<1> QED BY <1>1, <1>3, <1>5, <1>6, <1>7, LedgerStep

-----------------------------------------------------------------------------
(* The customer ledger *)

LEMMA ReceivablesStart == ReceivablesInit => ReceivablesInv
<1> SUFFICES ASSUME ReceivablesInit PROVE ReceivablesInv
  OBVIOUS
<1>1. /\ \A i \in Bills : db[i] = NoBill
      /\ \A r \in Settlements : db[r] = NoSettlement
      /\ \A c \in Calls : call[c] = Idle
  BY ReceivablesAssumption DEF ReceivablesInit, CallsStart, LedgerRows
<1>2. ReceivablesTyped
  <2>1. Idle \in ReceivablesCall
    BY DEF Idle, ReceivablesCall
  <2>2. LedgerRowsTyped
    BY <1>1 DEF ReceivablesInit, LedgerRowsTyped, NoBill, NoSettlement, BillRow, SettlementRow
  <2> QED BY <2>1, <2>2 DEF ReceivablesInit, CallsStart, ReceivablesTyped
<1>3. PostedFollow /\ \A c \in Calls : LedgerRequest(call[c])
  BY <1>1 DEF PostedFollow, LedgerRequest, NoBill, NoSettlement, LedgerRows
<1>4. LedgerNumbers
  BY <1>2, <1>3, LedgerSums
<1>5. \A x \in LedgerRows : RowsLost(x) = 0
  <2> SUFFICES ASSUME NEW x \in LedgerRows PROVE RowsLost(x) = 0
    OBVIOUS
  <2>1. \A c \in Calls : Owed(x)[c] = 0
    BY <1>1 DEF Owed, Owes, Idle
  <2>2. SumFunctionOnSet(Owed(x), Calls) = 0
    BY <2>1, ReceivablesFinite, SumOfNone
  <2> QED BY <1>1, <2>2 DEF RowsLost, NoBill, NoSettlement, LedgerRows
<1>6. \A i \in Bills : CashLost(i) = 0
  <2> SUFFICES ASSUME NEW i \in Bills PROVE CashLost(i) = 0
    OBVIOUS
  <2>1. \A c \in Calls : Allotted(i)[c] = 0
    BY <1>1 DEF Allotted, Allots, Idle
  <2>2. \A r \in ReceiptsOf(i) : Journalled[r] = 0
    <3>1. \A r \in Settlements : Journalled[r] = Amount[r] * 0 /\ Amount[r] \in Nat
      BY <1>1, ReceivablesFinite DEF Journalled, NoSettlement
    <3> QED BY <3>1 DEF ReceiptsOf
  <2>3. SumFunctionOnSet(Allotted(i), Calls) = 0 /\ SumFunctionOnSet(Journalled, ReceiptsOf(i)) = 0
    BY <2>1, <2>2, ReceivablesFinite, SumOfNone
  <2> QED BY <1>1, <2>3 DEF CashLost, NoBill
<1>7. LedgerTurn(Idle)
  BY <1>1 DEF LedgerTurn, EnteredOnce, Entering, Idle, NoBill, NoSettlement, LedgerRows
<1> QED BY <1>1, <1>2, <1>3, <1>5, <1>6, <1>7 DEF ReceivablesInv, LostInv, LedgerTurns

LEMMA ReceivablesStepKeeps == ReceivablesInv /\ [ReceivablesStep]_docVars => ReceivablesInv'
<1> SUFFICES ASSUME ReceivablesInv, [ReceivablesStep]_docVars PROVE ReceivablesInv'
  OBVIOUS
<1>0. LedgerRowsTyped /\ tidy \in BOOLEAN /\ \A c \in Calls : LedgerRequest(call[c])
  BY DEF ReceivablesInv, ReceivablesTyped
<1>1. ASSUME NEW i \in Bills, CreateBill(i) PROVE ReceivablesInv'
  <2>1. RowGets(i, "DRAFT", 0, 0) /\ db[i].status = "ABSENT" /\ UNCHANGED call /\ tidy' = (tidy /\ Alone)
    BY <1>0, <1>1, RowWritten DEF CreateBill, Statement, In, LedgerRows
  <2>2. \A x \in LedgerRows : db[x].entries \in Nat /\ db[x].ledger \in Nat
    BY LedgerSums DEF ReceivablesInv, LedgerNumbers
  <2>3. i \notin Settlements
    BY ReceivablesAssumption
  <2> QED BY <1>0, <2>1, <2>2, <2>3, LedgerStatement DEF RowGets, LedgerRows, ReceivablesInv, PostedFollow
<1>2. ASSUME NEW c \in Calls, NEW i \in Bills, PostBill(c, i) PROVE ReceivablesInv'
  <2>1. CASE BeginPostBill(c, i)
    BY <2>1, LedgerEntered DEF BeginPostBill, In, LedgerRows
  <2>2. CASE At(c, "postBill", "post", i, None) /\ PostEntry(i) /\ Goto(c, "posted")
    BY <2>2, LedgerGoesOn DEF At, LedgerRows
  <2>3. CASE At(c, "postBill", "posted", i, None) /\ Becomes(i, "POSTED") /\ Goto(c, "ledger")
    BY <2>3, LedgerGoesOn DEF At, LedgerRows
  <2>4. CASE At(c, "postBill", "ledger", i, None) /\ WriteLedger(i) /\ Leave(c)
    BY <2>4, LedgerEnds DEF At, LedgerRows
  <2> QED BY <1>2, <2>1, <2>2, <2>3, <2>4 DEF PostBill
<1>3. ASSUME NEW c \in Calls, NEW r \in Settlements, CreateSettlement(c, r) PROVE ReceivablesInv'
  <2>1. CASE In(BillOf[r], Posted) /\ Enter(c, "createReceipt", "write", r, None, None)
    BY <2>1, LedgerEntered DEF In, Posted, LedgerRows
  <2>2. CASE At(c, "createReceipt", "write", r, None) /\ InsertReceipt(r) /\ Leave(c)
    BY <2>2, LedgerEnds DEF At, LedgerRows
  <2> QED BY <1>3, <2>1, <2>2 DEF CreateSettlement, Handler
<1>4. ASSUME NEW c \in Calls, NEW r \in Settlements, PostSettlement(c, r) PROVE ReceivablesInv'
  <2>1. CASE In(r, {"DRAFT"}) /\ Enter(c, "postReceipt", "post", r, None, None)
    BY <2>1, LedgerEntered DEF In, LedgerRows
  <2>2. CASE At(c, "postReceipt", "post", r, None) /\ PostEntry(r) /\ Goto(c, "allocate")
    BY <2>2, LedgerGoesOn DEF At, LedgerRows
  <2>3. CASE At(c, "postReceipt", "allocate", r, None) /\ Allocate(r) /\ Goto(c, "ledger")
    BY <2>3, AllocatedKeeps
  <2>4. CASE At(c, "postReceipt", "ledger", r, None) /\ WriteLedger(r) /\ Goto(c, "write")
    BY <2>4, LedgerGoesOn DEF At, LedgerRows
  <2>5. CASE At(c, "postReceipt", "write", r, None) /\ Becomes(r, "POSTED") /\ Leave(c)
    BY <2>5, LedgerEnds DEF At, LedgerRows
  <2> QED BY <1>4, <2>1, <2>2, <2>3, <2>4, <2>5 DEF PostSettlement
<1>5. CASE UNCHANGED docVars
  BY <1>0, <1>5, LedgerStatement DEF docVars, LedgerRowsTyped, ReceivablesInv, PostedFollow
<1> QED BY <1>1, <1>2, <1>3, <1>4, <1>5, LedgerCutOff DEF ReceivablesStep, ReceivablesNext

LEMMA ReceivablesInvSuffices == ReceivablesInv => ReceivablesSound
<1> SUFFICES ASSUME ReceivablesInv PROVE ReceivablesSound
  OBVIOUS
<1>1. LedgerNumbers
  BY LedgerSums DEF ReceivablesInv
<1>2. CallTypeOK
  <2>1. \A c \in Calls : DOMAIN call[c] = DOMAIN Idle
    BY DEF ReceivablesInv, ReceivablesTyped, ReceivablesCall, Idle
  <2>2. \A c \in Calls : call[c].op = "none" <=> call[c].at = "idle"
    BY DEF ReceivablesInv, LedgerRequest, Idle
  <2> QED BY <2>1, <2>2 DEF CallTypeOK, ReceivablesInv, ReceivablesTyped
<1>3. ReceivablesTypeOK
  BY DEF ReceivablesTypeOK, ReceivablesInv, ReceivablesTyped, LedgerRowsTyped, BillRow, SettlementRow
<1>4. CustomerLedgerBacked
  <2>1. \A x \in LedgerRows : db[x].ledger <= db[x].entries
    BY <1>1 DEF ReceivablesInv, LostInv, RowsLost, LedgerNumbers
  <2>2. \A i \in Bills : db[i].received <= SumFunctionOnSet(Journalled, ReceiptsOf(i))
    BY <1>1 DEF ReceivablesInv, LostInv, CashLost, LedgerNumbers
  <2> QED BY <2>1, <2>2 DEF CustomerLedgerBacked, ReceivablesInv, PostedFollow, In, Posted, LedgerRows
<1>5. ASSUME tidy, Alone
      PROVE  /\ \A x \in LedgerRows : db[x].entries = db[x].ledger
                                      /\ db[x].entries = IF In(x, Posted) THEN 1 ELSE 0
             /\ \A i \in Bills : db[i].received = SumFunctionOnSet(Allocated, ReceiptsOf(i))
  <2>1. /\ \A x \in LedgerRows : RowsLost(x) = 0 /\ EnteredOnce(Idle, x)
        /\ \A i \in Bills : CashLost(i) = 0
    BY <1>5 DEF ReceivablesInv, LedgerTurns, LedgerTurn
  <2>2. \A c \in Calls : call[c] = Idle
    BY <1>5 DEF Alone
  <2>3. ASSUME NEW x \in LedgerRows
        PROVE  db[x].entries = db[x].ledger /\ db[x].entries = IF In(x, Posted) THEN 1 ELSE 0
    <3>1. \A c \in Calls : Owed(x)[c] = 0
      BY <2>2 DEF Owed, Owes, Idle
    <3>2. SumFunctionOnSet(Owed(x), Calls) = 0
      BY <3>1, ReceivablesFinite, SumOfNone
    <3> QED BY <1>1, <2>1, <3>2 DEF RowsLost, EnteredOnce, Entering, Idle, In, Posted, LedgerNumbers
  <2>4. ASSUME NEW i \in Bills PROVE db[i].received = SumFunctionOnSet(Allocated, ReceiptsOf(i))
    <3>1. \A c \in Calls : Allotted(i)[c] = 0
      BY <2>2 DEF Allotted, Allots, Idle
    <3>2. SumFunctionOnSet(Allotted(i), Calls) = 0
      BY <3>1, ReceivablesFinite, SumOfNone
    <3>3. \A r \in ReceiptsOf(i) : Journalled[r] = Allocated[r]
      <4>1. ASSUME NEW r \in Settlements PROVE Journalled[r] = Allocated[r]
        <5>1. Journalled[r] = Amount[r] * db[r].entries /\ Amount[r] \in Nat
          BY ReceivablesFinite DEF Journalled
        <5>2. Allocated[r] = IF In(r, Posted) THEN Amount[r] ELSE 0
          BY DEF Allocated
        <5>3. db[r].entries = IF In(r, Posted) THEN 1 ELSE 0
          BY <2>3 DEF LedgerRows
        <5> QED BY <5>1, <5>2, <5>3
      <4> QED BY <4>1 DEF ReceiptsOf
    <3>4. SumFunctionOnSet(Journalled, ReceiptsOf(i)) = SumFunctionOnSet(Allocated, ReceiptsOf(i))
      BY <1>1, <3>3, SumSame DEF LedgerNumbers
    <3> QED BY <1>1, <2>1, <3>2, <3>4 DEF CashLost, LedgerNumbers
  <2> QED BY <2>3, <2>4
<1>6. CustomerLedgerAgrees
  BY <1>5 DEF CustomerLedgerAgrees, LedgerRows
<1> QED BY <1>2, <1>3, <1>4, <1>6 DEF ReceivablesSound

\* Each row of the customer ledger and each amount received stands on a journal
\* entry of its own and receipts settle posted bills only, wherever requests
\* stop and however often they post one document; while requests take turns the
\* customer ledger agrees with the journal (postInvoice and postReceipt write
\* entry, status and ledger row in three commits, in orders of their own).
THEOREM ReceivablesAreAlwaysSound == ReceivablesSpec => []ReceivablesSound
BY ReceivablesStart, ReceivablesStepKeeps, ReceivablesInvSuffices, PTL DEF ReceivablesSpec

-----------------------------------------------------------------------------
(***************************************************************************)
(* The installments of customers and the loans that pay them.              *)
(*                                                                         *)
(* The argument: cash is received before the installment is written, by a  *)
(* request that knows the amount; so cash is never less than what is       *)
(* written as paid, and what a loan brought never less than what it is     *)
(* written to have disbursed.  An amount that is disbursed was approved    *)
(* when the request read it, so it is no more than the most that ever was. *)
(* While requests take turns the amounts differ by what the request under  *)
(* way has received and not yet written.                                   *)
(***************************************************************************)

PaymentRows == Installments \cup Mortgages
InstallmentRow == [status : {"ABSENT", "DUE"}, paid : Nat, cash : Nat]
MortgageRow ==
    [status : {"ABSENT", "DRAFT", "SUBMITTED", "APPROVED", "DECLINED", "DISBURSED", "CLOSED"},
     approved : Nat, most : Nat, disbursed : Nat, lent : Nat]

PaymentsInit ==
    /\ db = [x \in PaymentRows |-> IF x \in Installments THEN NoInstallment ELSE NoMortgage]
    /\ CallsStart
PaymentsStep == PaymentsNext \/ \E c \in Calls : CutOff(c)
PaymentsSpec == PaymentsInit /\ [][PaymentsStep]_docVars

PaymentsCall ==
    [op : {"none", "payment", "submitMortgage", "approveMortgage", "declineMortgage",
           "disburse", "closeMortgage"},
     at : {"idle", "read", "post", "paid", "write"},
     row : PaymentRows \cup {None},
     arg : (Installments \X Payments) \cup Lendable \cup {None}, seen : Nat \cup {None}]

PaymentRowsTyped ==
    /\ DOMAIN db = PaymentRows
    /\ \A l \in Installments : db[l] \in InstallmentRow
    /\ \A m \in Mortgages : db[m] \in MortgageRow
PaymentsTyped ==
    /\ PaymentRowsTyped
    /\ call \in [Calls -> PaymentsCall]
    /\ tidy \in BOOLEAN

\* The installment that a payment is for, and what the payment brings.
PaysFor(q) == q.arg[1]
Brings(q) == q.arg[2]
Pays(q) == q.op \in {"payment", "disburse"}
PaymentOf(q, l, amount) ==
    l \in Installments /\ amount \in Payments /\ q.arg = <<l, amount>>

\* What a payment has read of its installment, whatever was written since.
WithinDue(q) ==
    /\ q.seen \in Nat /\ q.seen + Brings(q) <= Due[PaysFor(q)] + Tolerance
    /\ q.seen <= db[PaysFor(q)].cash
    /\ q.at = "paid" => q.seen + Brings(q) <= db[PaysFor(q)].cash

\* What a request has read, and what loans have of what was approved.
PaymentRequest(q) ==
    \/ q = Idle
    \/ /\ q.op = "payment" /\ q.at \in {"read", "post", "paid"}
       /\ q.arg \in Installments \X Payments /\ q.row = PaysFor(q)
       /\ q.at # "read" => WithinDue(q)
    \/ /\ q.op = "disburse" /\ q.row \in Mortgages /\ q.at \in {"read", "post", "paid", "write"}
       /\ q.arg \in Installments \X Payments /\ Brings(q) <= db[q.row].most
       /\ q.at \in {"post", "paid"} => WithinDue(q)
       /\ q.at \in {"paid", "write"} => Brings(q) <= db[q.row].lent
    \/ /\ q.op \in {"submitMortgage", "approveMortgage", "declineMortgage", "closeMortgage"}
       /\ q.row \in Mortgages /\ q.at = "write"
       /\ q.op = "closeMortgage" => db[q.row].disbursed > 0
LoansApproved ==
    \A m \in Mortgages :
        /\ db[m].approved <= db[m].most
        /\ db[m].disbursed <= db[m].most /\ db[m].disbursed <= db[m].lent
        /\ db[m].status \in {"DISBURSED", "CLOSED"} => db[m].disbursed > 0

\* With q the only request: what it read still stands, and what it has posted
\* and not yet written makes up the difference between cash and paid.
UnderWay(q, l) == IF Pays(q) /\ q.at = "paid" /\ PaysFor(q) = l THEN Brings(q) ELSE 0
LentOut(q, m) ==
    IF q.op = "disburse" /\ q.at \in {"paid", "write"} /\ q.row = m THEN Brings(q) ELSE 0
LoanRead(q) ==
    /\ q.op = "submitMortgage" => db[q.row].status = "DRAFT"
    /\ q.op \in {"approveMortgage", "declineMortgage"} => db[q.row].status = "SUBMITTED"
    /\ q.op = "disburse" => db[q.row].status = "APPROVED" /\ Brings(q) <= db[q.row].approved
    /\ q.op = "closeMortgage" => db[q.row].status = "DISBURSED"
PaymentTurn(q) ==
    /\ LoanRead(q)
    /\ Pays(q) /\ q.at \in {"post", "paid"} => q.seen = db[PaysFor(q)].paid
    /\ \A l \in Installments : db[l].cash = db[l].paid + UnderWay(q, l)
    /\ \A m \in Mortgages :
          /\ db[m].lent = db[m].disbursed + LentOut(q, m)
          /\ db[m].disbursed <= db[m].approved
          /\ db[m].status \notin {"DISBURSED", "CLOSED"} => db[m].disbursed = 0

PaymentTurns ==
    /\ \A c, e \in Calls : call[c] # Idle /\ call[e] # Idle => c = e
    /\ \A c \in Calls : call[c] # Idle => PaymentTurn(call[c])
    /\ Alone => PaymentTurn(Idle)

PaymentsInv ==
    /\ PaymentsTyped /\ LoansApproved /\ PaidWithinDue
    /\ \A c \in Calls : PaymentRequest(call[c])
    /\ tidy => PaymentTurns

-----------------------------------------------------------------------------
(* Steps of a payment, and of a loan *)

LEMMA PaymentsFacts ==
    /\ \A a \in Payments : a \in Nat /\ a > 0
    /\ \A a \in Lendable : a \in Nat
    /\ \A l \in Installments : Due[l] \in Nat /\ l \notin Mortgages
    /\ \A m \in Mortgages : m \notin Installments
BY PaymentsAssumption

\* The amounts are numbers.
PaymentNumbers ==
    /\ \A l \in Installments : db[l].paid \in Nat /\ db[l].cash \in Nat
    /\ \A m \in Mortgages : /\ db[m].approved \in Nat /\ db[m].most \in Nat
                            /\ db[m].disbursed \in Nat /\ db[m].lent \in Nat

LEMMA PaymentSums == PaymentRowsTyped => PaymentNumbers
BY DEF PaymentRowsTyped, InstallmentRow, MortgageRow, PaymentNumbers

LEMMA PaymentSumsNext == (PaymentRowsTyped => PaymentNumbers)'
BY PaymentSums, PTL

\* The installment and the amount of a payment.
LEMMA PaymentParts ==
    ASSUME NEW q, q.arg \in Installments \X Payments
    PROVE  PaysFor(q) \in Installments /\ Brings(q) \in Payments /\ Brings(q) \in Nat /\ Brings(q) > 0
BY PaymentsFacts DEF PaysFor, Brings

\* What no request takes back.
PaymentsKept ==
    /\ \A l \in Installments : db'[l].cash >= db[l].cash
    /\ \A m \in Mortgages : /\ db'[m].most >= db[m].most /\ db'[m].lent >= db[m].lent
                            /\ db[m].disbursed > 0 => db'[m].disbursed > 0

LEMMA PaymentRequestStays ==
    ASSUME PaymentRowsTyped, PaymentRowsTyped', PaymentsKept, NEW q, PaymentRequest(q)
    PROVE  PaymentRequest(q)'
<1>1. PaymentNumbers /\ PaymentNumbers'
  BY PaymentSums, PaymentSumsNext
<1>2. PaysFor(q)' = PaysFor(q) /\ Brings(q)' = Brings(q)
  BY DEF PaysFor, Brings
<1>3. ASSUME q.arg \in Installments \X Payments, WithinDue(q) PROVE WithinDue(q)'
  <2>1. PICK l \in Installments, a \in Nat : PaysFor(q) = l /\ Brings(q) = a
    BY <1>3, PaymentParts
  <2>2. db[l].cash \in Nat /\ db'[l].cash \in Nat /\ db'[l].cash >= db[l].cash /\ Due[l] \in Nat
    BY <1>1, PaymentsFacts DEF PaymentNumbers, PaymentsKept
  <2>3. PaysFor(q)' = l /\ Brings(q)' = a
    BY <1>2, <2>1
  <2> QED BY <1>3, <2>1, <2>2, <2>3 DEF WithinDue
<1>4. ASSUME q.row \in Mortgages, q.arg \in Installments \X Payments
      PROVE  /\ Brings(q) <= db[q.row].most => Brings(q)' <= db'[q.row].most
             /\ Brings(q) <= db[q.row].lent => Brings(q)' <= db'[q.row].lent
  <2>1. PICK m \in Mortgages, a \in Nat : q.row = m /\ Brings(q) = a /\ Brings(q)' = a
    BY <1>2, <1>4, PaymentParts
  <2>2. /\ db[m].most \in Nat /\ db'[m].most \in Nat /\ db'[m].most >= db[m].most
        /\ db[m].lent \in Nat /\ db'[m].lent \in Nat /\ db'[m].lent >= db[m].lent
    BY <1>1 DEF PaymentNumbers, PaymentsKept
  <2> QED BY <2>1, <2>2
<1>5. CASE q = Idle
  BY <1>5 DEF PaymentRequest
<1>6. CASE /\ q.op = "payment" /\ q.at \in {"read", "post", "paid"}
           /\ q.arg \in Installments \X Payments /\ q.row = PaysFor(q)
           /\ q.at # "read" => WithinDue(q)
  BY <1>2, <1>3, <1>6 DEF PaymentRequest
<1>7. CASE /\ q.op = "disburse" /\ q.row \in Mortgages /\ q.at \in {"read", "post", "paid", "write"}
           /\ q.arg \in Installments \X Payments /\ Brings(q) <= db[q.row].most
           /\ q.at \in {"post", "paid"} => WithinDue(q)
           /\ q.at \in {"paid", "write"} => Brings(q) <= db[q.row].lent
  BY <1>3, <1>4, <1>7 DEF PaymentRequest
<1>8. CASE /\ q.op \in {"submitMortgage", "approveMortgage", "declineMortgage", "closeMortgage"}
           /\ q.row \in Mortgages /\ q.at = "write"
           /\ q.op = "closeMortgage" => db[q.row].disbursed > 0
  BY <1>8 DEF PaymentRequest, PaymentsKept
<1> QED BY <1>5, <1>6, <1>7, <1>8 DEF PaymentRequest

\* A step of one request.
LEMMA PaymentStep ==
    ASSUME PaymentsInv, NEW c \in Calls, NEW q, q = call[c], NEW p \in PaymentsCall,
           call' = [call EXCEPT ![c] = p], tidy' \in BOOLEAN,
           PaymentRowsTyped', LoansApproved', PaidWithinDue', PaymentsKept, PaymentRequest(p)',
           tidy' => /\ tidy /\ (call[c] = Idle => Alone)
                    /\ PaymentTurn(q) => PaymentTurn(p)'
    PROVE  PaymentsInv'
<1>1. call' \in [Calls -> PaymentsCall] /\ call'[c] = p /\ \A e \in Calls \ {c} : call'[e] = call[e]
  BY DEF PaymentsInv, PaymentsTyped
<1>2. PaymentsTyped'
  BY <1>1 DEF PaymentsTyped
<1>3. \A e \in Calls : PaymentRequest(call[e])'
  <2>1. TAKE e \in Calls
  <2>2. PICK z : z = call'[e]
    OBVIOUS
  <2>3. PaymentRequest(z)'
    <3>1. CASE e = c
      BY <1>1, <2>2, <3>1
    <3>2. CASE e # c
      <4>1. PaymentRequest(z)
        BY <1>1, <2>2, <3>2 DEF PaymentsInv
      <4> QED BY <4>1, PaymentRequestStays DEF PaymentsInv, PaymentsTyped
    <3> QED BY <3>1, <3>2
  <2> QED BY <2>2, <2>3
<1>4. ASSUME tidy' PROVE PaymentTurns'
  <2>1. PaymentTurns /\ (call[c] = Idle => Alone) /\ (PaymentTurn(q) => PaymentTurn(p)')
    BY <1>4 DEF PaymentsInv
  <2>2. \A e \in Calls \ {c} : call'[e] = Idle
    BY <1>1, <2>1 DEF PaymentTurns, Alone
  <2>3. PaymentTurn(q)
    BY <2>1 DEF PaymentTurns, Alone
  <2>4. PaymentTurn(p)'
    BY <2>1, <2>3
  <2>5. \A d, e \in Calls : call'[d] # Idle /\ call'[e] # Idle => d = e
    BY <2>2
  <2>6. ASSUME NEW e \in Calls, call'[e] # Idle PROVE PaymentTurn(call[e])'
    <3>1. e = c /\ call'[e] = p
      BY <1>1, <2>2, <2>6
    <3> QED BY <2>4, <3>1
  <2>7. ASSUME Alone' PROVE PaymentTurn(Idle)'
    <3>1. p = Idle
      BY <1>1, <2>7 DEF Alone
    <3> QED BY <2>4, <3>1
  <2> QED BY <2>5, <2>6, <2>7 DEF PaymentTurns
<1> QED BY <1>2, <1>3, <1>4 DEF PaymentsInv

\* A step that writes no row.
LEMMA PaymentMoves ==
    ASSUME PaymentsInv, NEW c \in Calls, NEW q, q = call[c], NEW p \in PaymentsCall,
           call' = [call EXCEPT ![c] = p], tidy' \in BOOLEAN, UNCHANGED db, PaymentRequest(p),
           tidy' => /\ tidy /\ (call[c] = Idle => Alone)
                    /\ PaymentTurn(q) => PaymentTurn(p)
    PROVE  PaymentsInv'
<1>1. PaymentRowsTyped' /\ LoansApproved' /\ PaidWithinDue'
  BY DEF PaymentsInv, PaymentsTyped, PaymentRowsTyped, LoansApproved, PaidWithinDue
<1>2. PaymentsKept
  BY PaymentSums DEF PaymentsKept, PaymentNumbers, PaymentsInv, PaymentsTyped
<1>3. PaymentRequest(p)'
  BY <1>1, <1>2, PaymentRequestStays DEF PaymentsInv, PaymentsTyped
<1>4. PaymentTurn(p) => PaymentTurn(p)'
  BY DEF PaymentTurn, LoanRead, UnderWay, LentOut, PaysFor, Brings, Pays
<1> QED BY <1>1, <1>2, <1>3, <1>4, PaymentStep

\* A request that has posted no cash.
NoCash(q) == ~Pays(q) \/ q.at \in {"idle", "read", "post"}

LEMMA NoCashUnderWay ==
    ASSUME NEW q, NoCash(q)
    PROVE  /\ \A l : UnderWay(q, l) = 0 /\ UnderWay(q, l)' = 0
           /\ \A m : LentOut(q, m) = 0 /\ LentOut(q, m)' = 0
BY DEF NoCash, UnderWay, LentOut, Pays

LEMMA NoCashTurn ==
    ASSUME NEW q, NoCash(q), NEW p, NoCash(p), PaymentTurn(q), LoanRead(p),
           Pays(p) /\ p.at = "post" => p.seen = db[PaysFor(p)].paid
    PROVE  PaymentTurn(p)
<1>1. \A l : UnderWay(q, l) = 0 /\ LentOut(q, l) = 0 /\ UnderWay(p, l) = 0 /\ LentOut(p, l) = 0
  BY NoCashUnderWay
<1>2. Pays(p) => p.at # "paid"
  BY DEF NoCash
<1> QED BY <1>1, <1>2 DEF PaymentTurn

\* A request is taken up.
LEMMA PaymentEntered ==
    ASSUME PaymentsInv, NEW c \in Calls, NEW op, NEW at, NEW x, NEW arg, Enter(c, op, at, x, arg, None),
           NEW p \in PaymentsCall, p = [op |-> op, at |-> at, row |-> x, arg |-> arg, seen |-> None],
           PaymentRequest(p), NoCash(p), at # "post", LoanRead(p)
    PROVE  PaymentsInv'
<1>1. call[c] = Idle /\ call' = [call EXCEPT ![c] = p] /\ tidy' = (tidy /\ Alone) /\ UNCHANGED db
  BY DEF Enter
<1>2. NoCash(Idle) /\ p.at # "post"
  BY DEF NoCash, Idle
<1>3. PaymentTurn(Idle) => PaymentTurn(p)
  BY <1>2, NoCashTurn
<1>4. tidy' \in BOOLEAN /\ (tidy' => tidy /\ Alone)
  BY <1>1 DEF PaymentsInv, PaymentsTyped
<1> QED BY <1>1, <1>3, <1>4, PaymentMoves

\* A request ends without having written anything more, or is cut off.
LEMMA PaymentEnds ==
    ASSUME PaymentsInv, NEW c \in Calls, call' = [call EXCEPT ![c] = Idle], UNCHANGED db,
           tidy' \in BOOLEAN, tidy' => tidy /\ call[c] # Idle /\ NoCash(call[c])
    PROVE  PaymentsInv'
<1>1. PICK q \in PaymentsCall : q = call[c]
  BY DEF PaymentsInv, PaymentsTyped
<1>2. PICK p \in PaymentsCall : p = Idle
  BY DEF PaymentsCall, Idle
<1>3. NoCash(p) /\ PaymentRequest(p) /\ LoanRead(p) /\ p.at # "post"
  BY <1>2 DEF NoCash, Idle, PaymentRequest, LoanRead
<1>4. tidy' /\ PaymentTurn(q) => PaymentTurn(p)
  BY <1>1, <1>3, NoCashTurn
<1> QED BY <1>1, <1>2, <1>3, <1>4, PaymentMoves

\* The parts of a payment of amount for l, by a customer or by a loan.
Paying(q, op, row, l, amount) ==
    /\ PaymentOf(q, l, amount) /\ q.op = op /\ q.row = row
    /\ (op = "payment" /\ row = l) \/ (op = "disburse" /\ row \in Mortgages)

\* What a payment that is under way is about.
LEMMA PaymentIs ==
    ASSUME PaymentsInv, NEW c \in Calls, NEW q, q = call[c], NEW op, NEW row, NEW amount, NEW l,
           Paying(q, op, row, l, amount), q.at # "idle"
    PROVE  /\ l \in Installments /\ amount \in Nat /\ amount > 0 /\ Due[l] \in Nat
           /\ db[l].paid \in Nat /\ db[l].cash \in Nat
           /\ PaysFor(q) = l /\ Brings(q) = amount /\ q.arg \in Installments \X Payments
           /\ q.op = op /\ q.row = row /\ q # Idle /\ PaymentRequest(q)
<1>1. /\ l \in Installments /\ amount \in Payments /\ q.arg = <<l, amount>>
      /\ q.op = op /\ q.row = row
  BY DEF Paying, PaymentOf
<1>2. amount \in Nat /\ amount > 0 /\ Due[l] \in Nat /\ db[l].paid \in Nat /\ db[l].cash \in Nat
  BY <1>1, PaymentSums, PaymentsFacts DEF PaymentsInv, PaymentsTyped, PaymentNumbers
<1>3. PaysFor(q) = l /\ Brings(q) = amount /\ q.arg \in Installments \X Payments
  BY <1>1 DEF PaysFor, Brings
<1>4. q # Idle /\ PaymentRequest(q)
  BY DEF Idle, PaymentsInv
<1> QED BY <1>1, <1>2, <1>3, <1>4

LEMMA PaymentReads ==
    ASSUME PaymentsInv, NEW c \in Calls, NEW op, NEW row, NEW amount, NEW l,
           Paying(call[c], op, row, l, amount), call[c].at = "read", UNCHANGED db,
           IF MayPay(l, amount) /\ db[l].cash < MaxCash THEN Keep(c, "post", db[l].paid) ELSE Leave(c)
    PROVE  PaymentsInv'
<1>1. PICK q \in PaymentsCall : q = call[c]
  BY DEF PaymentsInv, PaymentsTyped
<1>2. /\ l \in Installments /\ amount \in Nat /\ Due[l] \in Nat /\ db[l].paid \in Nat /\ db[l].cash \in Nat
      /\ PaysFor(q) = l /\ Brings(q) = amount /\ q.arg \in Installments \X Payments /\ q.op = op
      /\ q.row = row /\ q.at = "read" /\ q # Idle /\ PaymentRequest(q)
  <2>1. Paying(q, op, row, l, amount) /\ q.at = "read" /\ q.at # "idle"
    BY <1>1
  <2> QED BY <1>1, <2>1, PaymentIs
<1>3. PICK paid \in Nat : paid = db[l].paid
  BY <1>2
<1>4. PICK p : p = [q EXCEPT !.at = "post", !.seen = paid]
  OBVIOUS
<1>5. /\ p \in PaymentsCall /\ p.op = op /\ p.at = "post" /\ p.row = row /\ p.arg = q.arg
      /\ p.seen = paid
  BY <1>2, <1>4 DEF PaymentsCall
<1>6. CASE MayPay(l, amount) /\ db[l].cash < MaxCash
  <2>1. call' = [call EXCEPT ![c] = p] /\ UNCHANGED tidy
    BY <1>1, <1>3, <1>4, <1>6 DEF Keep, PaymentsInv, PaymentsTyped
  <2>2. PaysFor(p) = l /\ Brings(p) = amount
    BY <1>2, <1>5 DEF PaysFor, Brings
  <2>3. amount <= Due[l] - paid + Tolerance /\ paid <= db[l].cash
    BY <1>2, <1>3, <1>6 DEF MayPay, PaymentsInv, PaidWithinDue
  <2>4. WithinDue(p)
    BY <1>2, <1>5, <2>2, <2>3 DEF WithinDue, Tolerance
  <2>5. PaymentRequest(p)
    <3>1. CASE op = "payment"
      BY <1>1, <1>2, <1>5, <2>2, <2>4, <3>1 DEF PaymentRequest, Paying
    <3>2. CASE op = "disburse"
      BY <1>1, <1>2, <1>5, <2>2, <2>4, <3>2 DEF PaymentRequest, Paying, Idle
    <3> QED BY <1>1, <3>1, <3>2 DEF Paying
  <2>6. PaymentTurn(q) => PaymentTurn(p)
    <3>1. NoCash(q) /\ NoCash(p)
      BY <1>2, <1>5 DEF NoCash
    <3>2. LoanRead(q) => LoanRead(p)
      BY <1>2, <1>5, <2>2 DEF LoanRead
    <3> QED BY <1>3, <1>5, <2>2, <3>1, <3>2, NoCashTurn DEF PaymentTurn
  <2> QED BY <1>1, <1>2, <1>5, <2>1, <2>5, <2>6, PaymentMoves DEF PaymentsInv, PaymentsTyped
<1>7. CASE ~(MayPay(l, amount) /\ db[l].cash < MaxCash)
  <2>1. call' = [call EXCEPT ![c] = Idle] /\ UNCHANGED tidy
    BY <1>7 DEF Leave
  <2>2. NoCash(call[c]) /\ call[c] # Idle
    BY <1>1, <1>2 DEF NoCash
  <2> QED BY <2>1, <2>2, PaymentEnds DEF PaymentsInv, PaymentsTyped
<1> QED BY <1>6, <1>7

\* The rows are typed and an installment or a mortgage says what v says.
PaymentWritten(x, v) ==
    /\ PaymentRowsTyped' /\ db'[x] = v
    /\ \A y \in PaymentRows \ {x} : db'[y] = db[y]

LEMMA PaymentRowWritten ==
    ASSUME PaymentRowsTyped, NEW x, NEW v, db' = [db EXCEPT ![x] = v],
           \/ x \in Installments /\ v \in InstallmentRow
           \/ x \in Mortgages /\ v \in MortgageRow
    PROVE  PaymentWritten(x, v)
<1>1. x \in PaymentRows
  BY DEF PaymentRows
<1>2. DOMAIN db' = PaymentRows /\ db'[x] = v /\ \A y \in PaymentRows \ {x} : db'[y] = db[y]
  BY <1>1 DEF PaymentRowsTyped
<1>3. PaymentRowsTyped'
  <2>1. ASSUME NEW l \in Installments PROVE db'[l] \in InstallmentRow
    BY <1>2, PaymentsFacts DEF PaymentRowsTyped, PaymentRows
  <2>2. ASSUME NEW m \in Mortgages PROVE db'[m] \in MortgageRow
    BY <1>2, PaymentsFacts DEF PaymentRowsTyped, PaymentRows
  <2> QED BY <1>2, <2>1, <2>2 DEF PaymentRowsTyped
<1> QED BY <1>2, <1>3 DEF PaymentWritten

\* The entry of a payment raises what came in.
CashReceived(op, row, l, amount) ==
    /\ \A k \in Installments :
          db'[k].paid = db[k].paid /\ db'[k].cash = db[k].cash + IF k = l THEN amount ELSE 0
    /\ \A m \in Mortgages :
          /\ db'[m].status = db[m].status /\ db'[m].approved = db[m].approved
          /\ db'[m].most = db[m].most /\ db'[m].disbursed = db[m].disbursed
          /\ db'[m].lent = db[m].lent + IF op = "disburse" /\ m = row THEN amount ELSE 0

CashPosts(op, row, l, amount) ==
    \/ op = "payment" /\ db' = [db EXCEPT ![l].cash = @ + amount]
    \/ op = "disburse" /\ db' = [db EXCEPT ![l].cash = @ + amount, ![row].lent = @ + amount]

LEMMA PaymentReceived ==
    ASSUME PaymentRowsTyped, NEW op, NEW row, NEW l \in Installments, NEW amount \in Nat,
           op = "disburse" => row \in Mortgages, CashPosts(op, row, l, amount)
    PROVE  PaymentRowsTyped' /\ CashReceived(op, row, l, amount)
<1>0. PaymentNumbers
  BY PaymentSums
<1>1. PICK v : v = [db[l] EXCEPT !.cash = @ + amount]
  OBVIOUS
<1>2. v \in InstallmentRow /\ v.paid = db[l].paid /\ v.cash = db[l].cash + amount
  BY <1>0, <1>1 DEF PaymentRowsTyped, InstallmentRow, PaymentNumbers
<1>3. CASE op = "payment"
  <2>1. db' = [db EXCEPT ![l] = v]
    BY <1>1, <1>3 DEF CashPosts
  <2>2. PaymentWritten(l, v)
    BY <1>2, <2>1, PaymentRowWritten
  <2> QED BY <1>0, <1>2, <1>3, <2>2, PaymentsFacts DEF PaymentWritten, CashReceived, PaymentRows, PaymentNumbers
<1>4. CASE op = "disburse"
  <2>1. PICK w : w = [db[row] EXCEPT !.lent = @ + amount]
    OBVIOUS
  <2>2. /\ w \in MortgageRow /\ w.status = db[row].status /\ w.approved = db[row].approved
        /\ w.most = db[row].most /\ w.disbursed = db[row].disbursed /\ w.lent = db[row].lent + amount
    BY <1>0, <1>4, <2>1 DEF PaymentRowsTyped, MortgageRow, PaymentNumbers
  <2>3. l \in PaymentRows /\ row \in PaymentRows /\ l # row
    BY <1>4, PaymentsFacts DEF PaymentRows
  <2>4. db' = [[db EXCEPT ![l] = v] EXCEPT ![row] = w]
    BY <1>1, <1>4, <2>1, <2>3 DEF CashPosts, PaymentRowsTyped
  <2>5. /\ DOMAIN db' = PaymentRows /\ db'[l] = v /\ db'[row] = w
        /\ \A y \in PaymentRows \ {l, row} : db'[y] = db[y]
    BY <2>3, <2>4 DEF PaymentRowsTyped
  <2>6. /\ \A k \in Installments \ {l} : db'[k] = db[k]
        /\ \A m \in Mortgages \ {row} : db'[m] = db[m]
    BY <1>4, <2>5, PaymentsFacts DEF PaymentRows
  <2>7. PaymentRowsTyped'
    BY <1>2, <1>4, <2>2, <2>5, <2>6 DEF PaymentRowsTyped
  <2>8. ASSUME NEW k \in Installments
        PROVE  db'[k].paid = db[k].paid /\ db'[k].cash = db[k].cash + IF k = l THEN amount ELSE 0
    BY <1>0, <1>2, <2>5, <2>6 DEF PaymentNumbers
  <2>9. ASSUME NEW m \in Mortgages
        PROVE  /\ db'[m].status = db[m].status /\ db'[m].approved = db[m].approved
               /\ db'[m].most = db[m].most /\ db'[m].disbursed = db[m].disbursed
               /\ db'[m].lent = db[m].lent + IF op = "disburse" /\ m = row THEN amount ELSE 0
    <3>1. CASE m = row
      BY <1>4, <2>2, <2>5, <3>1
    <3>2. CASE m # row
      BY <1>0, <2>6, <3>2 DEF PaymentNumbers
    <3> QED BY <3>1, <3>2
  <2> QED BY <2>7, <2>8, <2>9 DEF CashReceived
<1> QED BY <1>3, <1>4 DEF CashPosts

\* The entry of a payment.
LEMMA PaymentPosts ==
    ASSUME PaymentsInv, NEW c \in Calls, NEW op, NEW row, NEW amount, NEW l,
           Paying(call[c], op, row, l, amount), call[c].at = "post",
           CashPosts(op, row, l, amount), Goto(c, "paid")
    PROVE  PaymentsInv'
<1>1. PICK q \in PaymentsCall : q = call[c]
  BY DEF PaymentsInv, PaymentsTyped
<1>2. /\ l \in Installments /\ amount \in Nat /\ amount > 0 /\ Due[l] \in Nat
      /\ db[l].paid \in Nat /\ db[l].cash \in Nat
      /\ PaysFor(q) = l /\ Brings(q) = amount /\ q.arg \in Installments \X Payments
      /\ q.op = op /\ q.row = row /\ q # Idle /\ PaymentRequest(q) /\ q.at = "post"
  <2>1. Paying(q, op, row, l, amount) /\ q.at = "post" /\ q.at # "idle"
    BY <1>1
  <2> QED BY <1>1, <2>1, PaymentIs
<1>3. PICK p : p = [q EXCEPT !.at = "paid"]
  OBVIOUS
<1>4. /\ p \in PaymentsCall /\ p.op = op /\ p.at = "paid" /\ p.row = row /\ p.arg = q.arg
      /\ p.seen = q.seen /\ call' = [call EXCEPT ![c] = p] /\ UNCHANGED tidy
  BY <1>1, <1>2, <1>3 DEF PaymentsCall, Goto, PaymentsInv, PaymentsTyped
<1>5. /\ PaysFor(p) = l /\ Brings(p) = amount /\ PaysFor(p)' = l /\ Brings(p)' = amount
      /\ ((op = "payment" /\ row = l) \/ (op = "disburse" /\ row \in Mortgages))
  BY <1>1, <1>2, <1>4 DEF PaysFor, Brings, Paying
<1>6. PaymentNumbers /\ PaymentRowsTyped' /\ PaymentNumbers' /\ CashReceived(op, row, l, amount)
  BY <1>2, <1>5, PaymentReceived, PaymentSums, PaymentSumsNext DEF PaymentsInv, PaymentsTyped
<1>7. LoansApproved' /\ PaidWithinDue' /\ PaymentsKept
  <2>1. PaymentsKept
    BY <1>2, <1>6 DEF PaymentsKept, PaymentNumbers, CashReceived
  <2>2. LoansApproved'
    BY <1>2, <1>6 DEF LoansApproved, PaymentsInv, PaymentNumbers, CashReceived
  <2>3. PaidWithinDue'
    BY <1>2, <1>6 DEF PaidWithinDue, PaymentsInv, PaymentNumbers, CashReceived, Tolerance
  <2> QED BY <2>1, <2>2, <2>3
<1>8. PaymentRequest(p)'
  <2>1. WithinDue(q)
    BY <1>2 DEF PaymentRequest, Idle
  <2>2. WithinDue(p)'
    BY <1>2, <1>4, <1>5, <1>6, <2>1 DEF WithinDue, CashReceived, Tolerance
  <2>3. CASE op = "payment"
    BY <1>2, <1>4, <1>5, <2>2, <2>3 DEF PaymentRequest
  <2>4. CASE op = "disburse"
    <3>1. amount <= db[row].most /\ row \in Mortgages
      BY <1>2, <2>4 DEF PaymentRequest, Idle
    <3>2. amount <= db'[row].most /\ amount <= db'[row].lent
      BY <1>2, <1>6, <2>4, <3>1 DEF CashReceived, PaymentNumbers
    <3> QED BY <1>2, <1>4, <1>5, <2>2, <2>4, <3>1, <3>2 DEF PaymentRequest
  <2> QED BY <1>5, <2>3, <2>4
<1>9. ASSUME PaymentTurn(q) PROVE PaymentTurn(p)'
  <2>1. LoanRead(p)'
    BY <1>2, <1>4, <1>5, <1>6, <1>9 DEF PaymentTurn, LoanRead, CashReceived
  <2>2. p.seen = db'[l].paid
    BY <1>2, <1>4, <1>6, <1>9 DEF PaymentTurn, CashReceived, Pays, Paying
  <2>3. NoCash(q)
    BY <1>2 DEF NoCash
  <2>4. ASSUME NEW k \in Installments PROVE db'[k].cash = db'[k].paid + UnderWay(p, k)'
    <3>1. db[k].cash = db[k].paid + 0
      BY <1>9, <2>3, NoCashUnderWay DEF PaymentTurn
    <3>2. UnderWay(p, k)' = IF k = l THEN amount ELSE 0
      BY <1>4, <1>5 DEF UnderWay, Pays
    <3> QED BY <1>2, <1>6, <3>1, <3>2 DEF CashReceived, PaymentNumbers
  <2>5. ASSUME NEW m \in Mortgages PROVE db'[m].lent = db'[m].disbursed + LentOut(p, m)'
    <3>1. db[m].lent = db[m].disbursed + 0
      BY <1>9, <2>3, NoCashUnderWay DEF PaymentTurn
    <3>2. LentOut(p, m)' = IF op = "disburse" /\ m = row THEN amount ELSE 0
      BY <1>4, <1>5 DEF LentOut
    <3> QED BY <1>2, <1>6, <3>1, <3>2 DEF CashReceived, PaymentNumbers
  <2>6. ASSUME NEW m \in Mortgages
        PROVE  /\ db'[m].disbursed <= db'[m].approved
               /\ db'[m].status \notin {"DISBURSED", "CLOSED"} => db'[m].disbursed = 0
    BY <1>6, <1>9 DEF PaymentTurn, CashReceived
  <2> QED BY <1>5, <2>1, <2>2, <2>4, <2>5, <2>6 DEF PaymentTurn
<1>10. /\ tidy' \in BOOLEAN
       /\ tidy' => /\ tidy /\ (call[c] = Idle => Alone)
                   /\ PaymentTurn(q) => PaymentTurn(p)'
  BY <1>1, <1>2, <1>4, <1>9 DEF PaymentsInv, PaymentsTyped
<1> QED BY <1>1, <1>4, <1>6, <1>7, <1>8, <1>10, PaymentStep

\* What was paid is written, and a loan is then marked as disbursed.
LEMMA PaymentPaid ==
    ASSUME PaymentsInv, NEW c \in Calls, NEW op, NEW row, NEW amount, NEW l,
           Paying(call[c], op, row, l, amount), call[c].at = "paid",
           db' = [db EXCEPT ![l].paid = PaidNow(call[c].seen, amount)],
           IF op = "payment" THEN Leave(c) ELSE Goto(c, "write")
    PROVE  PaymentsInv'
<1>1. PICK q \in PaymentsCall : q = call[c]
  BY DEF PaymentsInv, PaymentsTyped
<1>2. /\ l \in Installments /\ amount \in Nat /\ amount > 0 /\ Due[l] \in Nat
      /\ db[l].paid \in Nat /\ db[l].cash \in Nat
      /\ PaysFor(q) = l /\ Brings(q) = amount /\ q.arg \in Installments \X Payments
      /\ q.op = op /\ q.row = row /\ q # Idle /\ PaymentRequest(q) /\ q.at = "paid"
  <2>1. Paying(q, op, row, l, amount) /\ q.at = "paid" /\ q.at # "idle"
    BY <1>1
  <2> QED BY <1>1, <2>1, PaymentIs
<1>3. (op = "payment" /\ row = l) \/ (op = "disburse" /\ row \in Mortgages)
  BY DEF Paying
<1>4. PICK p : p = IF op = "payment" THEN Idle ELSE [q EXCEPT !.at = "write"]
  OBVIOUS
<1>5. /\ p \in PaymentsCall /\ call' = [call EXCEPT ![c] = p] /\ UNCHANGED tidy
      /\ op = "payment" => p = Idle
      /\ op = "disburse" => p.op = op /\ p.at = "write" /\ p.row = row /\ p.arg = q.arg
  BY <1>1, <1>2, <1>3, <1>4 DEF PaymentsCall, Idle, Goto, Leave, PaymentsInv, PaymentsTyped
<1>6. op = "disburse" =>
          PaysFor(p) = l /\ Brings(p) = amount /\ PaysFor(p)' = l /\ Brings(p)' = amount
  BY <1>2, <1>5 DEF PaysFor, Brings
<1>7. PICK paid \in Nat : /\ paid = q.seen + amount /\ paid <= Due[l] + Tolerance /\ paid <= db[l].cash
                          /\ paid = PaidNow(call[c].seen, amount)
  <2>1. WithinDue(q)
    BY <1>2, <1>3 DEF PaymentRequest, Idle
  <2> QED BY <1>1, <1>2, <2>1 DEF WithinDue, PaidNow
<1>8. PICK v : v = [db[l] EXCEPT !.paid = paid]
  OBVIOUS
<1>9. /\ v \in InstallmentRow /\ v.paid = paid /\ v.cash = db[l].cash /\ db' = [db EXCEPT ![l] = v]
  BY <1>2, <1>7, <1>8 DEF PaymentsInv, PaymentsTyped, PaymentRowsTyped, InstallmentRow, PaymentRows
<1>10. /\ PaymentRowsTyped' /\ db'[l] = v
       /\ \A k \in Installments \ {l} : db'[k] = db[k]
       /\ \A m \in Mortgages : db'[m] = db[m]
  <2>1. PaymentWritten(l, v)
    BY <1>2, <1>9, PaymentRowWritten DEF PaymentsInv, PaymentsTyped
  <2> QED BY <1>2, <2>1, PaymentsFacts DEF PaymentWritten, PaymentRows
<1>11. PaymentNumbers
  BY PaymentSums DEF PaymentsInv, PaymentsTyped
<1>12. LoansApproved' /\ PaidWithinDue' /\ PaymentsKept
  <2>1. PaymentsKept
    BY <1>9, <1>10, <1>11 DEF PaymentsKept, PaymentNumbers
  <2>2. LoansApproved'
    BY <1>10 DEF LoansApproved, PaymentsInv
  <2>3. PaidWithinDue'
    BY <1>7, <1>9, <1>10 DEF PaidWithinDue, PaymentsInv
  <2> QED BY <2>1, <2>2, <2>3
<1>13. PaymentRequest(p)'
  <2>1. CASE op = "payment"
    BY <1>5, <2>1 DEF PaymentRequest
  <2>2. CASE op = "disburse"
    <3>1. amount <= db[row].most /\ amount <= db[row].lent /\ row \in Mortgages
      BY <1>2, <2>2 DEF PaymentRequest, Idle
    <3> QED BY <1>2, <1>5, <1>6, <1>10, <2>2, <3>1 DEF PaymentRequest
  <2> QED BY <1>3, <2>1, <2>2
<1>14. ASSUME PaymentTurn(q) PROVE PaymentTurn(p)'
  <2>1. LoanRead(p)'
    <3>1. CASE op = "payment"
      BY <1>5, <3>1 DEF LoanRead, Idle
    <3>2. CASE op = "disburse"
      BY <1>2, <1>3, <1>5, <1>6, <1>10, <1>14, <3>2 DEF PaymentTurn, LoanRead
    <3> QED BY <1>3, <3>1, <3>2
  <2>2. p.at \notin {"post", "paid"}
    BY <1>3, <1>5 DEF Idle
  <2>3. q.seen = db[l].paid
    BY <1>2, <1>3, <1>14 DEF PaymentTurn, Pays
  <2>4. ASSUME NEW k \in Installments PROVE db'[k].cash = db'[k].paid + UnderWay(p, k)'
    <3>1. db[k].cash = db[k].paid + UnderWay(q, k) /\ UnderWay(p, k)' = 0
      BY <1>14, <2>2 DEF PaymentTurn, UnderWay
    <3>2. UnderWay(q, k) = IF k = l THEN amount ELSE 0
      BY <1>2, <1>3 DEF UnderWay, Pays
    <3>3. db[k].cash \in Nat /\ db[k].paid \in Nat
      BY <1>11 DEF PaymentNumbers
    <3>4. CASE k = l
      BY <1>2, <1>7, <1>9, <1>10, <2>3, <3>1, <3>2, <3>4
    <3>5. CASE k # l
      BY <1>10, <3>1, <3>2, <3>3, <3>5
    <3> QED BY <3>4, <3>5
  <2>5. ASSUME NEW m \in Mortgages PROVE db'[m].lent = db'[m].disbursed + LentOut(p, m)'
    <3>1. db[m].lent = db[m].disbursed + LentOut(q, m)
      BY <1>14 DEF PaymentTurn
    <3>2. LentOut(p, m)' = LentOut(q, m)
      BY <1>2, <1>3, <1>5, <1>6 DEF LentOut, Idle
    <3> QED BY <1>10, <3>1, <3>2
  <2>6. ASSUME NEW m \in Mortgages
        PROVE  /\ db'[m].disbursed <= db'[m].approved
               /\ db'[m].status \notin {"DISBURSED", "CLOSED"} => db'[m].disbursed = 0
    BY <1>10, <1>14 DEF PaymentTurn
  <2> QED BY <2>1, <2>2, <2>4, <2>5, <2>6 DEF PaymentTurn
<1>15. /\ tidy' \in BOOLEAN
       /\ tidy' => /\ tidy /\ (call[c] = Idle => Alone)
                   /\ PaymentTurn(q) => PaymentTurn(p)'
  BY <1>1, <1>2, <1>5, <1>14 DEF PaymentsInv, PaymentsTyped
<1> QED BY <1>1, <1>5, <1>10, <1>12, <1>13, <1>15, PaymentStep

\* A mortgage is written by a request that then ends: what was approved at most
\* grows, and what is disbursed was brought before.
LoanBecomes(c, m, v) ==
    /\ call[c].row = m /\ call[c] # Idle /\ call[c].at = "write"
    /\ db' = [db EXCEPT ![m] = v] /\ Leave(c)
    /\ v.lent = db[m].lent /\ v.most >= db[m].most /\ v.approved <= v.most
    /\ v.disbursed = IF call[c].op = "disburse" THEN Brings(call[c]) ELSE db[m].disbursed
    /\ v.disbursed <= v.most /\ v.disbursed <= v.lent
    /\ v.status \in {"DISBURSED", "CLOSED"} => v.disbursed > 0
    /\ db[m].disbursed > 0 => v.disbursed > 0
    /\ PaymentTurn(call[c]) =>
           /\ call[c].op = "disburse" => db[m].disbursed = 0
           /\ v.disbursed <= v.approved
           /\ v.status \notin {"DISBURSED", "CLOSED"} => v.disbursed = 0

LEMMA LoanWritten ==
    ASSUME PaymentsInv, NEW c \in Calls, NEW m \in Mortgages, NEW v \in MortgageRow,
           LoanBecomes(c, m, v)
    PROVE  PaymentsInv'
<1> USE DEF LoanBecomes
<1>1. PICK q \in PaymentsCall : q = call[c]
  BY DEF PaymentsInv, PaymentsTyped
<1>2. PICK p \in PaymentsCall : p = Idle
  BY DEF PaymentsCall, Idle
<1>3. call' = [call EXCEPT ![c] = p] /\ UNCHANGED tidy /\ tidy \in BOOLEAN
  BY <1>2 DEF Leave, PaymentsInv, PaymentsTyped
<1>4. /\ PaymentNumbers /\ PaymentRequest(q)
      /\ v.disbursed \in Nat /\ v.approved \in Nat /\ v.most \in Nat /\ v.lent \in Nat
  BY <1>1, PaymentSums DEF PaymentsInv, PaymentsTyped, MortgageRow
<1>5. /\ PaymentRowsTyped' /\ db'[m] = v
      /\ \A l \in Installments : db'[l] = db[l]
      /\ \A k \in Mortgages \ {m} : db'[k] = db[k]
  <2>1. PaymentWritten(m, v)
    BY PaymentRowWritten DEF PaymentsInv, PaymentsTyped
  <2> QED BY <2>1, PaymentsFacts DEF PaymentWritten, PaymentRows
<1>6. LoansApproved' /\ PaidWithinDue' /\ PaymentsKept
  <2>1. PaymentsKept
    BY <1>4, <1>5 DEF PaymentsKept, PaymentNumbers
  <2>2. LoansApproved'
    BY <1>5 DEF LoansApproved, PaymentsInv
  <2>3. PaidWithinDue'
    BY <1>5 DEF PaidWithinDue, PaymentsInv
  <2> QED BY <2>1, <2>2, <2>3
<1>7. PaymentRequest(p)'
  BY <1>2 DEF PaymentRequest, Idle
<1>8. ASSUME PaymentTurn(q) PROVE PaymentTurn(p)'
  <2>1. LoanRead(p)' /\ NoCash(p) /\ ~Pays(p) /\ ~Pays(p)'
    BY <1>2 DEF LoanRead, Idle, NoCash, Pays
  <2>2. \A k : UnderWay(p, k)' = 0 /\ LentOut(p, k)' = 0
    BY <2>1, NoCashUnderWay
  <2>3. ASSUME NEW k \in Installments PROVE db'[k].cash = db'[k].paid + UnderWay(p, k)'
    <3>1. UnderWay(q, k) = 0
      BY <1>1 DEF UnderWay
    <3>2. db[k].cash = db[k].paid + 0
      BY <1>8, <3>1 DEF PaymentTurn
    <3> QED BY <1>5, <2>2, <3>2
  <2>4. ASSUME NEW k \in Mortgages
        PROVE  /\ db'[k].lent = db'[k].disbursed + LentOut(p, k)'
               /\ db'[k].disbursed <= db'[k].approved
               /\ db'[k].status \notin {"DISBURSED", "CLOSED"} => db'[k].disbursed = 0
    <3>1. /\ db[k].lent = db[k].disbursed + LentOut(q, k)
          /\ db[k].disbursed <= db[k].approved
          /\ db[k].status \notin {"DISBURSED", "CLOSED"} => db[k].disbursed = 0
          /\ db[k].disbursed \in Nat /\ db[k].lent \in Nat
      BY <1>4, <1>8 DEF PaymentTurn, PaymentNumbers
    <3>2. CASE k # m
      <4>1. LentOut(q, k) = 0
        BY <1>1, <3>2 DEF LentOut
      <4> QED BY <1>5, <2>2, <3>1, <3>2, <4>1
    <3>3. CASE k = m
      <4>1. LentOut(q, k) = IF q.op = "disburse" THEN Brings(q) ELSE 0
        BY <1>1, <3>3 DEF LentOut
      <4>2. v.lent = v.disbursed
        BY <1>1, <1>4, <1>8, <3>1, <3>3, <4>1
      <4>3. v.disbursed <= v.approved /\ (v.status \notin {"DISBURSED", "CLOSED"} => v.disbursed = 0)
        BY <1>1, <1>8
      <4> QED BY <1>4, <1>5, <2>2, <3>3, <4>2, <4>3
    <3> QED BY <3>2, <3>3
  <2> QED BY <2>1, <2>3, <2>4 DEF PaymentTurn
<1>9. tidy' => /\ tidy /\ (call[c] = Idle => Alone)
               /\ PaymentTurn(q) => PaymentTurn(p)'
  BY <1>3, <1>8
<1> QED BY <1>1, <1>3, <1>5, <1>6, <1>7, <1>9, PaymentStep

\* A request of one statement.
LEMMA PaymentStatement ==
    ASSUME PaymentsInv, UNCHANGED call, tidy' \in BOOLEAN, tidy' => tidy, PaymentRowsTyped',
           \A l \in Installments : db'[l].cash = db[l].cash /\ db'[l].paid = db[l].paid,
           \A m \in Mortgages :
               /\ db'[m].approved = db[m].approved /\ db'[m].most = db[m].most
               /\ db'[m].disbursed = db[m].disbursed /\ db'[m].lent = db[m].lent
               /\ \/ db'[m].status = db[m].status
                  \/ db[m].status = "ABSENT" /\ db'[m].status = "DRAFT"
    PROVE  PaymentsInv'
<1>1. PaymentsTyped' /\ PaymentNumbers
  BY PaymentSums DEF PaymentsInv, PaymentsTyped
<1>2. LoansApproved' /\ PaidWithinDue' /\ PaymentsKept
  BY <1>1 DEF LoansApproved, PaidWithinDue, PaymentsKept, PaymentsInv, PaymentNumbers
<1>3. \A c \in Calls : PaymentRequest(call[c])'
  <2>1. TAKE c \in Calls
  <2>2. PICK q : q = call[c]
    OBVIOUS
  <2>3. PaymentRequest(q)'
    BY <1>2, <2>2, PaymentRequestStays DEF PaymentsInv, PaymentsTyped
  <2> QED BY <2>2, <2>3
<1>4. ASSUME NEW q, q \in PaymentsCall, PaymentRequest(q), PaymentTurn(q) PROVE PaymentTurn(q)'
  <2>1. PaysFor(q)' = PaysFor(q) /\ Brings(q)' = Brings(q) /\ Pays(q)' = Pays(q)
    BY DEF PaysFor, Brings, Pays
  <2>2. LoanRead(q)'
    BY <1>4, <2>1 DEF PaymentTurn, LoanRead, PaymentRequest, Idle
  <2>3. \A k : UnderWay(q, k)' = UnderWay(q, k) /\ LentOut(q, k)' = LentOut(q, k)
    BY <2>1 DEF UnderWay, LentOut
  <2>4. Pays(q) => PaysFor(q) \in Installments
    <3>1. Pays(q) => q.arg \in Installments \X Payments
      BY <1>4 DEF PaymentRequest, Pays, Idle
    <3> QED BY <3>1, PaymentParts
  <2> QED BY <1>4, <2>1, <2>2, <2>3, <2>4 DEF PaymentTurn
<1>5. ASSUME tidy' PROVE PaymentTurns'
  <2>1. \A c, e \in Calls : call'[c] # Idle /\ call'[e] # Idle => c = e
    BY <1>5 DEF PaymentsInv, PaymentTurns
  <2>2. ASSUME NEW c \in Calls, call'[c] # Idle PROVE PaymentTurn(call[c])'
    <3>1. PICK q : q = call[c]
      OBVIOUS
    <3>2. q \in PaymentsCall /\ PaymentRequest(q) /\ PaymentTurn(q)
      BY <1>5, <2>2, <3>1 DEF PaymentsInv, PaymentTurns, PaymentsTyped
    <3>3. PaymentTurn(q)'
      BY <1>4, <3>2
    <3> QED BY <3>1, <3>3
  <2>3. ASSUME Alone' PROVE PaymentTurn(Idle)'
    <3>1. PICK q : q = Idle
      OBVIOUS
    <3>2. q \in PaymentsCall /\ PaymentRequest(q) /\ PaymentTurn(q)
      BY <1>5, <2>3, <3>1 DEF PaymentsInv, PaymentTurns, PaymentsCall, Idle, PaymentRequest, Alone
    <3>3. PaymentTurn(q)'
      BY <1>4, <3>2
    <3> QED BY <3>1, <3>3
  <2> QED BY <2>1, <2>2, <2>3 DEF PaymentTurns
<1> QED BY <1>1, <1>2, <1>3, <1>5 DEF PaymentsInv

-----------------------------------------------------------------------------
(* Customer payments *)

LEMMA PaymentsStart == PaymentsInit => PaymentsInv
<1> SUFFICES ASSUME PaymentsInit PROVE PaymentsInv
  OBVIOUS
<1>1. /\ \A l \in Installments : db[l] = NoInstallment
      /\ \A m \in Mortgages : db[m] = NoMortgage
      /\ \A c \in Calls : call[c] = Idle
  BY PaymentsFacts DEF PaymentsInit, CallsStart, PaymentRows
<1>2. PaymentsTyped
  <2>1. Idle \in PaymentsCall
    BY DEF Idle, PaymentsCall
  <2>2. PaymentRowsTyped
    BY <1>1 DEF PaymentsInit, PaymentRowsTyped, NoInstallment, NoMortgage, InstallmentRow, MortgageRow
  <2> QED BY <2>1, <2>2 DEF PaymentsInit, CallsStart, PaymentsTyped
<1>3. LoansApproved /\ PaidWithinDue /\ \A c \in Calls : PaymentRequest(call[c])
  BY <1>1, PaymentsFacts
     DEF LoansApproved, PaidWithinDue, PaymentRequest, NoInstallment, NoMortgage, Tolerance
<1>4. PaymentTurn(Idle)
  <2>1. LoanRead(Idle) /\ NoCash(Idle) /\ ~Pays(Idle)
    BY DEF LoanRead, Idle, NoCash, Pays
  <2>2. \A k : UnderWay(Idle, k) = 0 /\ LentOut(Idle, k) = 0
    BY <2>1, NoCashUnderWay
  <2> QED BY <1>1, <2>1, <2>2 DEF PaymentTurn, NoInstallment, NoMortgage
<1> QED BY <1>1, <1>2, <1>3, <1>4 DEF PaymentsInv, PaymentTurns

\* A mortgage goes from one status to another; an approval brings its amount.
LoanGoes(m, op, to, arg) ==
    IF op = "approveMortgage"
    THEN db' = [db EXCEPT ![m].status = to, ![m].approved = arg,
                          ![m].most = IF arg > @ THEN arg ELSE @]
    ELSE Becomes(m, to)

LoanRequest(c, m, op, from, to, arg) ==
    /\ <<op, from, to>> \in {<<"submitMortgage", "DRAFT", "SUBMITTED">>,
                             <<"approveMortgage", "SUBMITTED", "APPROVED">>,
                             <<"declineMortgage", "SUBMITTED", "DECLINED">>,
                             <<"closeMortgage", "DISBURSED", "CLOSED">>}
    /\ IF op = "approveMortgage" THEN arg \in Lendable ELSE arg = None
    /\ \/ In(m, {from}) /\ Enter(c, op, "write", m, arg, None)
       \/ At(c, op, "write", m, arg) /\ LoanGoes(m, op, to, arg) /\ Leave(c)

\* What a mortgage says after such a request.
LoanWent(m, op, to, v) ==
    /\ db' = [db EXCEPT ![m] = v] /\ v.status = to
    /\ v.disbursed = db[m].disbursed /\ v.lent = db[m].lent
    /\ v.most >= db[m].most /\ v.approved <= v.most /\ v.disbursed <= v.most
    /\ op # "approveMortgage" => v.approved = db[m].approved

LEMMA LoanIsWritten ==
    ASSUME PaymentRowsTyped, LoansApproved, NEW m \in Mortgages, NEW op, NEW arg,
           NEW to \in {"SUBMITTED", "APPROVED", "DECLINED", "CLOSED"},
           op = "approveMortgage" => arg \in Nat, LoanGoes(m, op, to, arg)
    PROVE  \E v \in MortgageRow : LoanWent(m, op, to, v)
<1>1. /\ db[m] \in MortgageRow /\ db[m].approved \in Nat /\ db[m].most \in Nat
      /\ db[m].disbursed \in Nat /\ db[m].approved <= db[m].most /\ db[m].disbursed <= db[m].most
      /\ m \in DOMAIN db
  BY PaymentSums DEF PaymentRowsTyped, PaymentNumbers, LoansApproved, PaymentRows
<1>2. CASE op = "approveMortgage"
  <2>1. PICK most \in Nat : /\ most = IF arg > db[m].most THEN arg ELSE db[m].most
                            /\ arg <= most /\ db[m].most <= most
    BY <1>1, <1>2
  <2>2. PICK v : v = [db[m] EXCEPT !.status = to, !.approved = arg, !.most = most]
    OBVIOUS
  <2>3. /\ v \in MortgageRow /\ v.status = to /\ v.approved = arg /\ v.most = most
        /\ v.disbursed = db[m].disbursed /\ v.lent = db[m].lent
    BY <1>1, <1>2, <2>2 DEF MortgageRow
  <2>4. db' = [db EXCEPT ![m] = v]
    BY <1>1, <1>2, <2>1, <2>2 DEF LoanGoes
  <2>5. /\ v.most >= db[m].most /\ v.approved <= v.most /\ v.disbursed <= v.most
    BY <1>1, <1>2, <2>1, <2>3
  <2>6. LoanWent(m, op, to, v)
    BY <1>2, <2>3, <2>4, <2>5 DEF LoanWent
  <2> QED BY <2>3, <2>6
<1>3. CASE op # "approveMortgage"
  <2>1. PICK v : v = [db[m] EXCEPT !.status = to]
    OBVIOUS
  <2>2. /\ v \in MortgageRow /\ v.status = to /\ v.approved = db[m].approved /\ v.most = db[m].most
        /\ v.disbursed = db[m].disbursed /\ v.lent = db[m].lent
    BY <1>1, <2>1 DEF MortgageRow
  <2>3. db' = [db EXCEPT ![m] = v]
    BY <1>1, <1>3, <2>1 DEF LoanGoes, Becomes
  <2>4. /\ v.most >= db[m].most /\ v.approved <= v.most /\ v.disbursed <= v.most
    BY <1>1, <2>2
  <2>5. LoanWent(m, op, to, v)
    BY <2>2, <2>3, <2>4 DEF LoanWent
  <2> QED BY <2>2, <2>5
<1> QED BY <1>2, <1>3

LEMMA LoanHandler ==
    ASSUME PaymentsInv, NEW c \in Calls, NEW m \in Mortgages, NEW op, NEW from, NEW to, NEW arg,
           LoanRequest(c, m, op, from, to, arg)
    PROVE  PaymentsInv'
<1> USE DEF LoanRequest
<1>0. PaymentNumbers /\ PaymentRowsTyped /\ LoansApproved
  BY PaymentSums DEF PaymentsInv, PaymentsTyped
<1>1. CASE In(m, {from}) /\ Enter(c, op, "write", m, arg, None)
  <2>1. PICK p : p = [op |-> op, at |-> "write", row |-> m, arg |-> arg, seen |-> None]
    OBVIOUS
  <2>2. p \in PaymentsCall /\ NoCash(p) /\ p.op = op /\ p.row = m /\ p.at = "write" /\ p # Idle
    BY <2>1 DEF PaymentsCall, NoCash, Pays, PaymentRows, Idle
  <2>3. db[m].status = from
    BY <1>1 DEF In
  <2>4. LoanRead(p)
    BY <2>2, <2>3 DEF LoanRead
  <2>5. op = "closeMortgage" => db[m].disbursed > 0
    BY <1>0, <2>3 DEF LoansApproved
  <2>6. PaymentRequest(p)
    BY <2>2, <2>5 DEF PaymentRequest
  <2> QED BY <1>1, <2>1, <2>2, <2>4, <2>6, PaymentEntered
<1>2. CASE At(c, op, "write", m, arg) /\ LoanGoes(m, op, to, arg) /\ Leave(c)
  <2>1. call[c].op = op /\ call[c].row = m /\ call[c].at = "write" /\ call[c] # Idle
        /\ op # "disburse"
    BY <1>2 DEF At, Idle
  <2>2. to \in {"SUBMITTED", "APPROVED", "DECLINED", "CLOSED"} /\ (op = "approveMortgage" => arg \in Nat)
    BY PaymentsFacts
  <2>3. PICK v \in MortgageRow :
            /\ db' = [db EXCEPT ![m] = v] /\ v.status = to
            /\ v.disbursed = db[m].disbursed /\ v.lent = db[m].lent
            /\ v.most >= db[m].most /\ v.approved <= v.most /\ v.disbursed <= v.most
            /\ op # "approveMortgage" => v.approved = db[m].approved
    BY <1>0, <1>2, <2>2, LoanIsWritten DEF LoanWent
  <2>4. op = "closeMortgage" => db[m].disbursed > 0
    <3>1. PICK q : q = call[c]
      OBVIOUS
    <3>2. PaymentRequest(q)
      BY <3>1 DEF PaymentsInv
    <3> QED BY <2>1, <3>1, <3>2 DEF PaymentRequest
  <2>5. /\ v.status \in {"DISBURSED", "CLOSED"} => v.disbursed > 0
        /\ v.disbursed <= v.lent
    BY <1>0, <2>3, <2>4 DEF LoansApproved
  <2>6. ASSUME PaymentTurn(call[c])
        PROVE  /\ v.disbursed <= v.approved
               /\ v.status \notin {"DISBURSED", "CLOSED"} => v.disbursed = 0
    <3>1. /\ db[m].disbursed <= db[m].approved /\ db[m].status = from
          /\ db[m].status \notin {"DISBURSED", "CLOSED"} => db[m].disbursed = 0
      BY <2>1, <2>6 DEF PaymentTurn, LoanRead
    <3>2. CASE op = "approveMortgage"
      <4>1. v.disbursed = 0 /\ v.approved \in Nat
        BY <2>3, <3>1, <3>2 DEF MortgageRow
      <4> QED BY <4>1
    <3>3. CASE op # "approveMortgage"
      BY <2>3, <3>1, <3>3
    <3> QED BY <3>2, <3>3
  <2>7. LoanBecomes(c, m, v)
    BY <1>2, <2>1, <2>3, <2>5, <2>6 DEF LoanBecomes
  <2> QED BY <2>7, LoanWritten
<1> QED BY <1>1, <1>2

\* A payment, by a customer or by a loan.
PaidBy(op, row, l) ==
    (op = "payment" /\ row = l) \/ (op = "disburse" /\ row \in Mortgages)
PaymentDone(c, op) == IF op = "payment" THEN Leave(c) ELSE Goto(c, "write")

LEMMA PaymentIsKept ==
    ASSUME PaymentsInv, NEW c \in Calls, NEW op, NEW row, NEW amount \in Payments,
           NEW l \in Installments, NEW post, NEW then,
           PaidBy(op, row, l), post => CashPosts(op, row, l, amount), then => PaymentDone(c, op),
           Pay(c, op, row, l, amount, post, then)
    PROVE  PaymentsInv'
<1>1. ASSUME NEW at, At(c, op, at, row, <<l, amount>>)
      PROVE  Paying(call[c], op, row, l, amount) /\ call[c].at = at
  BY <1>1 DEF At, Paying, PaymentOf, PaidBy
<1>2. CASE At(c, op, "read", row, <<l, amount>>)
           /\ (IF MayPay(l, amount) /\ db[l].cash < MaxCash THEN Keep(c, "post", db[l].paid) ELSE Leave(c))
           /\ UNCHANGED db
  BY <1>1, <1>2, PaymentReads
<1>3. CASE At(c, op, "post", row, <<l, amount>>) /\ post /\ Goto(c, "paid")
  BY <1>1, <1>3, PaymentPosts
<1>4. CASE At(c, op, "paid", row, <<l, amount>>)
           /\ db' = [db EXCEPT ![l].paid = PaidNow(call[c].seen, amount)] /\ then
  BY <1>1, <1>4, PaymentPaid DEF PaymentDone
<1> QED BY <1>2, <1>3, <1>4 DEF Pay

LEMMA PaymentsStepKeeps == PaymentsInv /\ [PaymentsStep]_docVars => PaymentsInv'
<1> SUFFICES ASSUME PaymentsInv, [PaymentsStep]_docVars PROVE PaymentsInv'
  OBVIOUS
<1>0. PaymentRowsTyped /\ tidy \in BOOLEAN /\ PaymentNumbers
  BY PaymentSums DEF PaymentsInv, PaymentsTyped
<1>1. ASSUME NEW l \in Installments, CreateInstallmentSchedule(l) PROVE PaymentsInv'
  <2>1. PICK v : v = [db[l] EXCEPT !.status = "DUE"]
    OBVIOUS
  <2>2. /\ v \in InstallmentRow /\ v.cash = db[l].cash /\ v.paid = db[l].paid
        /\ db' = [db EXCEPT ![l] = v] /\ UNCHANGED call /\ tidy' = (tidy /\ Alone)
    BY <1>0, <1>1, <2>1 DEF CreateInstallmentSchedule, Statement, Becomes, PaymentRowsTyped, InstallmentRow,
       PaymentRows
  <2>3. PaymentWritten(l, v)
    BY <1>0, <2>2, PaymentRowWritten
  <2>4. tidy' \in BOOLEAN /\ (tidy' => tidy) /\ PaymentRowsTyped'
    BY <1>0, <2>2, <2>3 DEF PaymentWritten
  <2>5. /\ \A k \in Installments : db'[k].cash = db[k].cash /\ db'[k].paid = db[k].paid
        /\ \A m \in Mortgages : db'[m] = db[m]
    BY <2>2, <2>3, PaymentsFacts DEF PaymentWritten, PaymentRows
  <2> QED BY <2>2, <2>4, <2>5, PaymentStatement
<1>2. ASSUME NEW l \in Installments, NEW c \in Calls, NEW amount \in Payments,
             RecordCustomerPayment(c, l, amount)
      PROVE  PaymentsInv'
  <2>1. CASE Enter(c, "payment", "read", l, <<l, amount>>, None)
    <3>1. PICK p : p = [op |-> "payment", at |-> "read", row |-> l, arg |-> <<l, amount>>, seen |-> None]
      OBVIOUS
    <3>2. p \in PaymentsCall /\ PaymentRequest(p) /\ NoCash(p) /\ LoanRead(p)
      BY <3>1 DEF PaymentsCall, PaymentRows, PaymentRequest, NoCash, LoanRead, PaysFor
    <3> QED BY <2>1, <3>1, <3>2, PaymentEntered
  <2>2. CASE Pay(c, "payment", l, l, amount, db' = [db EXCEPT ![l].cash = @ + amount], Leave(c))
    <3> DEFINE post == db' = [db EXCEPT ![l].cash = @ + amount]
               then == Leave(c)
    <3>1. /\ PaidBy("payment", l, l) /\ (post => CashPosts("payment", l, l, amount))
          /\ then => PaymentDone(c, "payment")
      <4>1. PaidBy("payment", l, l)
        BY DEF PaidBy
      <4>2. post => CashPosts("payment", l, l, amount)
        BY DEF CashPosts
      <4>3. then => PaymentDone(c, "payment")
        BY DEF PaymentDone
      <4> QED BY <4>1, <4>2, <4>3
    <3>2. Pay(c, "payment", l, l, amount, post, then)
      BY <2>2
    <3> HIDE DEF post, then
    <3> QED BY <3>1, <3>2, PaymentIsKept
  <2> QED BY <1>2, <2>1, <2>2 DEF RecordCustomerPayment
<1>3. ASSUME NEW m \in Mortgages, CreateApplication(m) PROVE PaymentsInv'
  <2>1. PICK v : v = [db[m] EXCEPT !.status = "DRAFT"]
    OBVIOUS
  <2>2. /\ v \in MortgageRow /\ v.status = "DRAFT" /\ v.approved = db[m].approved
        /\ v.most = db[m].most /\ v.lent = db[m].lent
        /\ v.disbursed = db[m].disbursed /\ db[m].status = "ABSENT"
        /\ db' = [db EXCEPT ![m] = v] /\ UNCHANGED call /\ tidy' = (tidy /\ Alone)
    BY <1>0, <1>3, <2>1 DEF CreateApplication, Statement, Becomes, In, PaymentRowsTyped, MortgageRow,
       PaymentRows
  <2>3. PaymentWritten(m, v)
    BY <1>0, <2>2, PaymentRowWritten
  <2>4. tidy' \in BOOLEAN /\ (tidy' => tidy) /\ PaymentRowsTyped'
    BY <1>0, <2>2, <2>3 DEF PaymentWritten
  <2>5. /\ \A l \in Installments : db'[l] = db[l]
        /\ \A k \in Mortgages \ {m} : db'[k] = db[k]
        /\ db'[m] = v
    BY <2>3, PaymentsFacts DEF PaymentWritten, PaymentRows
  <2>6. \A k \in Mortgages :
            /\ db'[k].approved = db[k].approved /\ db'[k].most = db[k].most
            /\ db'[k].disbursed = db[k].disbursed /\ db'[k].lent = db[k].lent
            /\ \/ db'[k].status = db[k].status
               \/ db[k].status = "ABSENT" /\ db'[k].status = "DRAFT"
    BY <2>2, <2>5
  <2> QED BY <2>2, <2>4, <2>5, <2>6, PaymentStatement
<1>4. ASSUME NEW m \in Mortgages, NEW c \in Calls,
             \/ SubmitApplication(c, m) \/ DeclineApplication(c, m) \/ CloseApplication(c, m)
             \/ \E amount \in Lendable : ApproveApplication(c, m, amount)
      PROVE  PaymentsInv'
  <2>1. CASE SubmitApplication(c, m)
    <3>1. LoanRequest(c, m, "submitMortgage", "DRAFT", "SUBMITTED", None)
      BY <2>1 DEF SubmitApplication, Handler, LoanGoes, LoanRequest
    <3> QED BY <3>1, LoanHandler
  <2>2. ASSUME NEW amount \in Lendable, ApproveApplication(c, m, amount) PROVE PaymentsInv'
    <3>1. LoanRequest(c, m, "approveMortgage", "SUBMITTED", "APPROVED", amount)
      BY <2>2 DEF ApproveApplication, Handler, LoanGoes, LoanRequest
    <3> QED BY <3>1, LoanHandler
  <2>3. CASE DeclineApplication(c, m)
    <3>1. LoanRequest(c, m, "declineMortgage", "SUBMITTED", "DECLINED", None)
      BY <2>3 DEF DeclineApplication, Handler, LoanGoes, LoanRequest
    <3> QED BY <3>1, LoanHandler
  <2>4. CASE CloseApplication(c, m)
    <3>1. LoanRequest(c, m, "closeMortgage", "DISBURSED", "CLOSED", None)
      BY <2>4 DEF CloseApplication, Handler, LoanGoes, LoanRequest
    <3> QED BY <3>1, LoanHandler
  <2> QED BY <1>4, <2>1, <2>2, <2>3, <2>4
<1>5. ASSUME NEW m \in Mortgages, NEW c \in Calls, NEW l \in Installments, NEW amount \in Payments,
             Disburse(c, m, l, amount)
      PROVE  PaymentsInv'
  <2>0. /\ amount \in Nat /\ amount > 0 /\ db[m].approved \in Nat /\ db[m].most \in Nat
        /\ db[m].disbursed \in Nat /\ db[m].approved <= db[m].most
    BY <1>0, PaymentsFacts DEF PaymentNumbers, PaymentsInv, LoansApproved
  <2>1. CASE MayDisburse(m, amount) /\ Enter(c, "disburse", "read", m, <<l, amount>>, None)
    <3>1. PICK p : p = [op |-> "disburse", at |-> "read", row |-> m, arg |-> <<l, amount>>, seen |-> None]
      OBVIOUS
    <3>2. Brings(p) = amount /\ p \in PaymentsCall /\ p.op = "disburse" /\ p.row = m /\ p.at = "read"
          /\ p.arg \in Installments \X Payments
      BY <3>1 DEF Brings, PaymentsCall, PaymentRows
    <3>3. db[m].status = "APPROVED" /\ amount <= db[m].approved /\ amount <= db[m].most
      BY <2>0, <2>1 DEF MayDisburse, In
    <3>4. PaymentRequest(p) /\ NoCash(p) /\ LoanRead(p)
      BY <3>2, <3>3 DEF PaymentRequest, NoCash, LoanRead
    <3> QED BY <2>1, <3>1, <3>2, <3>4, PaymentEntered
  <2>2. CASE Pay(c, "disburse", m, l, amount,
                 db' = [db EXCEPT ![l].cash = @ + amount, ![m].lent = @ + amount], Goto(c, "write"))
    <3> DEFINE post == db' = [db EXCEPT ![l].cash = @ + amount, ![m].lent = @ + amount]
               then == Goto(c, "write")
    <3>1. /\ PaidBy("disburse", m, l) /\ (post => CashPosts("disburse", m, l, amount))
          /\ then => PaymentDone(c, "disburse")
      BY DEF CashPosts, PaidBy, PaymentDone
    <3>2. Pay(c, "disburse", m, l, amount, post, then)
      BY <2>2
    <3> HIDE DEF post, then
    <3> QED BY <3>1, <3>2, PaymentIsKept
  <2>3. CASE /\ At(c, "disburse", "write", m, <<l, amount>>)
             /\ db' = [db EXCEPT ![m].status = "DISBURSED", ![m].disbursed = amount]
             /\ Leave(c)
    <3>1. call[c].op = "disburse" /\ call[c].row = m /\ call[c].at = "write" /\ call[c] # Idle
          /\ Brings(call[c]) = amount
      BY <2>3 DEF At, Idle, Brings
    <3>2. PICK v : v = [db[m] EXCEPT !.status = "DISBURSED", !.disbursed = amount]
      OBVIOUS
    <3>3. /\ v \in MortgageRow /\ v.status = "DISBURSED" /\ v.disbursed = amount
          /\ v.approved = db[m].approved /\ v.most = db[m].most /\ v.lent = db[m].lent
          /\ db' = [db EXCEPT ![m] = v]
      BY <1>0, <2>0, <2>3, <3>2 DEF PaymentRowsTyped, MortgageRow, PaymentRows
    <3>4. amount <= db[m].most /\ amount <= db[m].lent
      <4>1. PICK q : q = call[c]
        OBVIOUS
      <4>2. PaymentRequest(q)
        BY <4>1 DEF PaymentsInv
      <4> QED BY <3>1, <4>1, <4>2 DEF PaymentRequest, Idle
    <3>5. PaymentTurn(call[c]) => db[m].disbursed = 0 /\ amount <= db[m].approved
      BY <3>1 DEF PaymentTurn, LoanRead
    <3>6. /\ PaymentTurn(call[c]) => /\ call[c].op = "disburse" => db[m].disbursed = 0
                                     /\ v.disbursed <= v.approved
                                     /\ v.status \notin {"DISBURSED", "CLOSED"} => v.disbursed = 0
          /\ v.disbursed > 0
      BY <2>0, <3>3, <3>5
    <3>7. /\ v.most >= db[m].most /\ v.approved <= v.most
          /\ v.disbursed <= v.most /\ v.disbursed <= v.lent
      BY <2>0, <3>3, <3>4
    <3>8. db' = [db EXCEPT ![m] = v] /\ Leave(c) /\ v.lent = db[m].lent
          /\ v.disbursed = IF call[c].op = "disburse" THEN Brings(call[c]) ELSE db[m].disbursed
      BY <2>3, <3>1, <3>3
    <3>9. LoanBecomes(c, m, v)
      BY <3>1, <3>6, <3>7, <3>8 DEF LoanBecomes
    <3> QED BY <3>3, <3>9, LoanWritten
  <2> QED BY <1>5, <2>1, <2>2, <2>3 DEF Disburse
<1>6. ASSUME NEW c \in Calls, CutOff(c) PROVE PaymentsInv'
  BY <1>6, PaymentEnds DEF CutOff
<1>7. CASE UNCHANGED docVars
  <2>1. UNCHANGED <<db, call, tidy>>
    BY <1>7 DEF docVars
  <2>2. PaymentRowsTyped'
    BY <1>0, <2>1 DEF PaymentRowsTyped
  <2> QED BY <1>0, <2>1, <2>2, PaymentStatement
<1> QED BY <1>1, <1>2, <1>3, <1>4, <1>5, <1>6, <1>7 DEF PaymentsStep, PaymentsNext

LEMMA PaymentsInvSuffices == PaymentsInv => CustomerPaymentsSound
<1> SUFFICES ASSUME PaymentsInv PROVE CustomerPaymentsSound
  OBVIOUS
<1>1. PaymentNumbers
  BY PaymentSums DEF PaymentsInv, PaymentsTyped
<1>2. PaymentsTypeOK
  BY DEF PaymentsTypeOK, PaymentsInv, PaymentsTyped, PaymentRowsTyped, InstallmentRow, MortgageRow
<1>3. DisbursedApproved
  BY DEF DisbursedApproved, In, PaymentsInv, LoansApproved
<1>4. ASSUME tidy, Alone
      PROVE  /\ \A l \in Installments : db[l].paid = db[l].cash
             /\ \A m \in Mortgages : /\ db[m].lent = db[m].disbursed /\ db[m].disbursed <= db[m].approved
                                     /\ db[m].lent > 0 => In(m, {"DISBURSED", "CLOSED"})
  <2>1. PaymentTurn(Idle)
    BY <1>4 DEF PaymentsInv, PaymentTurns
  <2>2. \A k : UnderWay(Idle, k) = 0 /\ LentOut(Idle, k) = 0
    BY NoCashUnderWay DEF NoCash, Idle
  <2>3. /\ \A l \in Installments : db[l].cash = db[l].paid + 0
        /\ \A m \in Mortgages :
              /\ db[m].lent = db[m].disbursed + 0 /\ db[m].disbursed <= db[m].approved
              /\ db[m].status \notin {"DISBURSED", "CLOSED"} => db[m].disbursed = 0
    BY <2>1, <2>2 DEF PaymentTurn
  <2> QED BY <1>1, <2>3 DEF PaymentNumbers, In
<1> QED BY <1>2, <1>3, <1>4 DEF CustomerPaymentsSound, CashIsPaid, PaymentsInv

\* No installment is paid more than a cent beyond what is due or beyond the cash
\* that came in, and a loan disburses no more than it brought and no more than
\* some approval was for, although the amount paid is written from an old read
\* and approvals for other amounts write over each other; while requests take
\* turns, what is counted as paid is the cash, and a loan brings cash once, when
\* it is disbursed, within its approval (recordCustomerPayment reads, posts and
\* writes in three commits, and disburse marks the loan in a fourth).
THEOREM PaymentsAreAlwaysSound == PaymentsSpec => []CustomerPaymentsSound
BY PaymentsStart, PaymentsStepKeeps, PaymentsInvSuffices, PTL DEF PaymentsSpec

-----------------------------------------------------------------------------
(***************************************************************************)
(* Commissions.                                                            *)
(*                                                                         *)
(* The argument: the bands of a plan are in order, so one at most holds    *)
(* any unit of a basis, and a unit more of the basis adds to the walk      *)
(* through the bands what that one pays; the rest is counting.  An entry   *)
(* is posted before the status that says so, and no entry is taken back.   *)
(* While requests take turns, what a request read of a status is so when   *)
(* it writes.                                                              *)
(***************************************************************************)

CommissionRows == Agents \cup Assignments \cup Plans \cup Calculations
AgentRow == [status : {"ABSENT", "PENDING_APPROVAL", "ACTIVE", "SUSPENDED", "TERMINATED"}]
AssignmentRow == [status : {"ABSENT", "ACTIVE", "ENDED"}, role : {"PRIMARY", "REFERRAL", None}]
PlanRow == [status : {"ABSENT", "ACTIVE", "INACTIVE"}, terms : Terms \cup {None}]
CalculationStatus == ActiveStatuses \cup {"ABSENT", "REJECTED", "REVERSED", "CANCELLED"}
CalculationRow ==
    [status : CalculationStatus, assignment : Assignments \cup {None},
     supersedes : Calculations \cup {None}, accrued : Nat, cleared : Nat]

CommissionsInit ==
    /\ db = [x \in CommissionRows |->
                IF x \in Agents THEN NoAgent ELSE IF x \in Assignments THEN NoAssignment
                ELSE IF x \in Plans THEN NoPlan ELSE NoCalculation]
    /\ CallsStart
CommissionsStep == AgentsNext \/ PlansNext \/ CalculationsNext \/ \E c \in Calls : CutOff(c)
CommissionsSpec == CommissionsInit /\ [][CommissionsStep]_docVars

AgentOps == {"approveAgent", "suspendAgent", "reactivateAgent", "terminateAgent"}
StatusOps == {"submit", "approve", "reject", "cancel", "reverse"}
LedgerOps == {"payable", "paid"}
CommissionsCall ==
    [op : {"none", "assign", "endAssignment", "deactivate", "calculate", "adjust"}
             \cup AgentOps \cup StatusOps \cup LedgerOps,
     at : {"idle", "post", "write"}, row : CommissionRows \cup {None},
     arg : {"PRIMARY", "REFERRAL", None} \cup Assignments, seen : {None}]

CommissionRowsTyped ==
    /\ DOMAIN db = CommissionRows
    /\ \A a \in Agents : db[a] \in AgentRow
    /\ \A s \in Assignments : db[s] \in AssignmentRow
    /\ \A p \in Plans : db[p] \in PlanRow
    /\ \A k \in Calculations : db[k] \in CalculationRow
CommissionsTyped ==
    /\ CommissionRowsTyped
    /\ call \in [Calls -> CommissionsCall]
    /\ tidy \in BOOLEAN

\* The terms of a plan were looked at when it was written.
PlansShaped ==
    \A p \in Plans :
        ~In(p, {"ABSENT"}) => db[p].terms \in Terms /\ ValidateRateShape(db[p].terms.bands)

\* What a request relies on: its row is there, and what the
\* entry that the request posted, or the one before it, says.
CommissionRequest(q) ==
    /\ q.op \in StatusOps \cup LedgerOps \cup {"adjust"} =>
          q.row \in Calculations /\ ~In(q.row, {"ABSENT"})
    /\ q.op = "deactivate" => q.row \in Plans /\ ~In(q.row, {"ABSENT"})
    /\ q.op = "payable" /\ q.at = "write" => db[q.row].accrued > 0
    /\ q.op = "paid" => db[q.row].accrued > 0 /\ (q.at = "write" => db[q.row].cleared > 0)

\* With q the only request: what it read is still so, and a calculation is in
\* the journal as its status says, or is the one that q has just entered.
JustEntered(q, op, k) == IF q.op = op /\ q.at = "write" /\ q.row = k THEN 1 ELSE 0
StatusRead(q) ==
    /\ q.op = "submit" => In(q.row, {"CALCULATED"})
    /\ q.op \in {"approve", "reject"} => In(q.row, {"PENDING"})
    /\ q.op = "cancel" => In(q.row, {"CALCULATED", "PENDING"})
    /\ q.op \in {"reverse", "adjust"} => In(q.row, ActiveStatuses)
    /\ q.op = "payable" => In(q.row, {"APPROVED"})
    /\ q.op = "paid" => In(q.row, {"PAYABLE"})
    /\ q.op = "calculate" => ActiveOn(q.row) = {}
    /\ q.op = "assign" /\ q.arg = "PRIMARY" =>
          \A s \in Assignments : ~(In(s, {"ACTIVE"}) /\ db[s].role = "PRIMARY")
EnteredAsSaid(q, k) ==
    /\ db[k].accrued <= 1 /\ db[k].cleared <= 1
    /\ In(k, {"ABSENT", "CALCULATED", "PENDING", "APPROVED"}) =>
          db[k].accrued = JustEntered(q, "payable", k)
    /\ In(k, {"ABSENT", "CALCULATED", "PENDING", "APPROVED", "PAYABLE"}) =>
          db[k].cleared = JustEntered(q, "paid", k)
CommissionTurn(q) == StatusRead(q) /\ \A k \in Calculations : EnteredAsSaid(q, k)

\* Of an assignment, of an adjusted calculation and of the sale there is one.
OneOfEach ==
    /\ \A k, m \in Calculations :
          In(k, ActiveStatuses) /\ In(m, ActiveStatuses) /\ db[k].assignment = db[m].assignment
          /\ db[k].supersedes = None /\ db[m].supersedes = None
              => k = m
    /\ \A k, m \in Calculations :
          db[m].supersedes = k =>
              In(k, {"REVERSED"}) /\ \A n \in Calculations : db[n].supersedes = k => n = m
    /\ \A s, t \in Assignments :
          In(s, {"ACTIVE"}) /\ In(t, {"ACTIVE"}) /\ db[s].role = "PRIMARY" /\ db[t].role = "PRIMARY"
              => s = t

CommissionTurns ==
    /\ \A c, e \in Calls : call[c] # Idle /\ call[e] # Idle => c = e
    /\ \A c \in Calls : call[c] # Idle => CommissionTurn(call[c])
    /\ Alone => CommissionTurn(Idle)
    /\ OneOfEach

CommissionsInv ==
    /\ CommissionsTyped /\ PlansShaped /\ PaidWasAccrued
    /\ \A c \in Calls : CommissionRequest(call[c])
    /\ tidy => CommissionTurns

-----------------------------------------------------------------------------
(* What a plan pays *)

\* The shape of the bands of a plan.
BandOf == [min : Nat, max : Nat \cup {None}, pays : Nat]
Shaped(bands) == bands \in Seq(BandOf) /\ ValidateRateShape(bands)

LEMMA BandFacts ==
    ASSUME NEW bands, Shaped(bands)
    PROVE  /\ DOMAIN bands = 1..Len(bands) /\ Len(bands) \in Nat /\ IsFiniteSet(DOMAIN bands)
           /\ \A i \in DOMAIN bands :
                 /\ bands[i].min \in Nat /\ bands[i].pays \in Nat
                 /\ bands[i].max = None \/ bands[i].max \in Nat
                 /\ bands[i].max = None => i = Len(bands)
                 /\ bands[i].max # None => bands[i].min < bands[i].max
                 /\ i > 1 => bands[i - 1].max = bands[i].min
<1>1. bands \in Seq(BandOf) /\ DOMAIN bands = 1..Len(bands) /\ Len(bands) \in Nat
  BY DEF Shaped
<1>2. IsFiniteSet(1..Len(bands))
  BY <1>1, FS_Interval
<1>3. \A i \in DOMAIN bands : bands[i] \in BandOf
  BY <1>1
<1>4. \A i \in DOMAIN bands :
          /\ bands[i].min \in Nat /\ bands[i].pays \in Nat
          /\ bands[i].max = None \/ bands[i].max \in Nat
  BY <1>3 DEF BandOf
<1>5. \A i \in DOMAIN bands :
          /\ bands[i].max = None => i = Len(bands)
          /\ bands[i].max # None => bands[i].min < bands[i].max
          /\ i > 1 => bands[i - 1].max = bands[i].min
  BY <1>4 DEF Shaped, ValidateRateShape, Adjacent
<1> QED BY <1>1, <1>2, <1>4, <1>5

\* A band ends before the bands after it begin.
LEMMA BandsInOrder ==
    ASSUME NEW bands, Shaped(bands), NEW i \in DOMAIN bands, NEW j \in DOMAIN bands, i < j
    PROVE  /\ bands[i].max \in Nat /\ bands[i].max <= bands[j].min
           /\ bands[i].min < bands[j].min
<1> DEFINE Before(k) == bands[k].max \in Nat /\ bands[k].max <= bands[j].min
           T == {k \in DOMAIN bands : k < j /\ ~Before(k)}
<1>0. /\ DOMAIN bands = 1..Len(bands) /\ Len(bands) \in Nat /\ IsFiniteSet(DOMAIN bands)
      /\ \A k \in DOMAIN bands :
            /\ bands[k].min \in Nat /\ (bands[k].max = None \/ bands[k].max \in Nat)
            /\ bands[k].max = None => k = Len(bands)
            /\ bands[k].max # None => bands[k].min < bands[k].max
            /\ k > 1 => bands[k - 1].max = bands[k].min
  BY BandFacts
<1>1. T = {}
  <2> SUFFICES ASSUME T # {} PROVE FALSE
    OBVIOUS
  <2>1. IsFiniteSet(T) /\ \A k \in T : k \in Int
    BY <1>0, FS_Subset
  <2>2. PICK k \in T : \A m \in T : k >= m
    <3> HIDE DEF T
    <3> QED BY <2>1, HasLargest
  <2>3. /\ k \in 1..Len(bands) /\ k < j /\ ~Before(k) /\ j \in 1..Len(bands)
        /\ k + 1 \in DOMAIN bands /\ k + 1 <= j /\ k + 1 > 1 /\ (k + 1) - 1 = k
    BY <1>0, <2>2
  <2>4. bands[k].max = bands[k + 1].min /\ bands[k + 1].min \in Nat
    BY <1>0, <2>3
  <2>5. CASE k + 1 = j
    BY <2>3, <2>4, <2>5
  <2>6. CASE k + 1 # j
    <3>1. k + 1 < j /\ k + 1 \notin T
      BY <2>2, <2>3, <2>6
    <3>2. Before(k + 1)
      BY <2>3, <3>1
    <3>3. bands[k + 1].max \in Nat /\ bands[k + 1].max # None
      BY <3>1, <3>2, <1>0, <2>3
    <3>4. bands[k + 1].min < bands[k + 1].max
      BY <1>0, <2>3, <3>3
    <3>5. bands[k].max \in Nat /\ bands[k].max <= bands[j].min
      BY <1>0, <2>4, <3>2, <3>4
    <3> QED BY <2>3, <3>5
  <2> QED BY <2>5, <2>6
<1>2. Before(i)
  BY <1>1
<1>3. bands[i].max # None
  BY <1>2, CommissionsAssumption
<1> QED BY <1>0, <1>2, <1>3

LEMMA OneBandAt ==
    ASSUME NEW terms, Shaped(terms.bands), NEW n \in Nat, NEW i \in BandsAt(terms, n),
           NEW j \in BandsAt(terms, n)
    PROVE  i = j
<1> DEFINE bands == terms.bands
<1>1. \A k \in BandsAt(terms, n) :
          k \in DOMAIN bands /\ bands[k].min < n /\ (bands[k].max = None \/ n <= bands[k].max)
  BY DEF BandsAt, AtMostMax
<1>2. \A k, m \in BandsAt(terms, n) : ~(k < m)
  <2> SUFFICES ASSUME NEW k \in BandsAt(terms, n), NEW m \in BandsAt(terms, n), k < m PROVE FALSE
    OBVIOUS
  <2>1. k \in DOMAIN bands /\ m \in DOMAIN bands
    BY <1>1
  <2>2. bands[k].max \in Nat /\ bands[k].max <= bands[m].min
    BY <2>1, BandsInOrder
  <2>3. bands[m].min \in Nat
    BY <2>1, BandFacts
  <2>4. n <= bands[k].max
    BY <1>1, <2>2, CommissionsAssumption
  <2> QED BY <1>1, <2>2, <2>3, <2>4
<1>3. \A k \in BandsAt(terms, n) : k \in Int
  BY <1>1, BandFacts
<1> QED BY <1>2, <1>3

\* The band that holds a unit of the basis, if there is one, pays for it.
LEMMA EarnedByOne ==
    ASSUME NEW terms, Shaped(terms.bands), NEW n \in Nat
    PROVE  /\ Cardinality(BandsAt(terms, n)) <= 1
           /\ BandsAt(terms, n) = {} => Earned(terms, n) = 0
           /\ \A k \in BandsAt(terms, n) : Earned(terms, n) = terms.bands[k].pays
           /\ Earned(terms, n) \in Nat
<1> DEFINE f == [i \in DOMAIN terms.bands |-> terms.bands[i].pays]
<1>1. CASE BandsAt(terms, n) = {}
  <2>1. Cardinality(BandsAt(terms, n)) = 0
    BY <1>1, FS_EmptySet
  <2>2. Earned(terms, n) = 0
    BY <1>1, SumEmpty DEF Earned
  <2> QED BY <1>1, <2>1, <2>2
<1>2. CASE BandsAt(terms, n) # {}
  <2>1. PICK k : k \in BandsAt(terms, n)
    BY <1>2
  <2>2. BandsAt(terms, n) = {k}
    BY <2>1, OneBandAt
  <2>3. k \in DOMAIN terms.bands
    BY <2>1 DEF BandsAt
  <2>4. terms.bands[k].pays \in Nat
    BY <2>3, BandFacts
  <2>5. f[k] = terms.bands[k].pays
    BY <2>3
  <2>6. SumFunctionOnSet(f, {k}) = f[k]
    <3>1. f[k] \in Int
      BY <2>4, <2>5
    <3> HIDE DEF f
    <3> QED BY <3>1, SumOfOne
  <2>7. Earned(terms, n) = terms.bands[k].pays
    BY <2>2, <2>5, <2>6 DEF Earned
  <2>8. Cardinality(BandsAt(terms, n)) = 1
    BY <2>2, FS_Singleton
  <2> QED BY <2>2, <2>4, <2>7, <2>8
<1> QED BY <1>1, <1>2

\* What a basis earns, with a term for every band.
PartOf(terms, n) ==
    [i \in DOMAIN terms.bands |-> IF n > terms.bands[i].min THEN BandPays(terms, n, i) ELSE 0]

LEMMA PartsAreNumbers ==
    ASSUME NEW terms, Shaped(terms.bands), NEW n \in Nat
    PROVE  /\ Numeric(PartOf(terms, n), DOMAIN terms.bands)
           /\ \A i \in DOMAIN terms.bands :
                 n > terms.bands[i].min =>
                     /\ Slice(n, terms.bands[i]) \in Int /\ BandPays(terms, n, i) \in Int
<1>1. ASSUME NEW i \in DOMAIN terms.bands PROVE Slice(n, terms.bands[i]) \in Int
  <2>1. /\ terms.bands[i].min \in Nat
        /\ terms.bands[i].max = None \/ terms.bands[i].max \in Nat
    BY BandFacts
  <2> QED BY <2>1 DEF Slice, AtMostMax
<1>2. ASSUME NEW i \in DOMAIN terms.bands PROVE BandPays(terms, n, i) \in Int
  <2>1. Slice(n, terms.bands[i]) \in Int /\ terms.bands[i].pays \in Nat
    BY <1>1, BandFacts
  <2>2. Slice(n, terms.bands[i]) * terms.bands[i].pays \in Int
    BY <2>1
  <2> QED BY <2>1, <2>2 DEF BandPays
<1>3. \A i \in DOMAIN terms.bands : PartOf(terms, n)[i] \in Int
  BY <1>2 DEF PartOf
<1> QED BY <1>1, <1>2, <1>3, BandFacts DEF Numeric

\* The walk through the bands stops where the rest of them pay nothing.
LEMMA WalkIsSum ==
    ASSUME NEW terms, Shaped(terms.bands), NEW n \in Nat
    PROVE  ApplyPlan(terms, n) = SumFunctionOnSet(PartOf(terms, n), DOMAIN terms.bands)
<1> DEFINE bands == terms.bands
           g == [i \in DOMAIN bands |-> BandPays(terms, n, i)]
           f == PartOf(terms, n)
           D == DOMAIN bands
           reached == {i \in D : \A j \in 1..i : n > bands[j].min}
<1>1. ApplyPlan(terms, n) = SumFunctionOnSet(g, reached)
  BY DEF ApplyPlan
<1>2. D = 1..Len(bands) /\ Len(bands) \in Nat /\ \A i \in D : bands[i].min \in Nat
  BY BandFacts
<1>3. \A i \in D : i \in reached <=> n > bands[i].min
  <2> SUFFICES ASSUME NEW i \in D PROVE i \in reached <=> n > bands[i].min
    OBVIOUS
  <2>1. i \in reached => n > bands[i].min
    BY <1>2
  <2>2. ASSUME n > bands[i].min, NEW j \in 1..i PROVE n > bands[j].min
    <3>1. j \in D /\ (j = i \/ j < i)
      BY <1>2
    <3>2. j < i => bands[j].min < bands[i].min
      BY <3>1, BandsInOrder
    <3> QED BY <1>2, <2>2, <3>1, <3>2
  <2> QED BY <2>1, <2>2
<1>4. /\ reached \subseteq D /\ \A i \in reached : g[i] = f[i]
      /\ \A i \in D \ reached : f[i] = 0
  BY <1>3 DEF PartOf
<1>5. Numeric(f, D) /\ IsFiniteSet(D)
  BY PartsAreNumbers DEF Numeric
<1>6. Numeric(f, reached)
  BY <1>4, <1>5, FS_Subset DEF Numeric
<1> HIDE DEF f, g, D, reached
<1>7. SumFunctionOnSet(f, reached) = SumFunctionOnSet(f, D)
  BY <1>4, <1>5, SumOfRest
<1>8. SumFunctionOnSet(f, reached) = SumFunctionOnSet(g, reached)
  BY <1>4, <1>6, SumSame
<1> QED BY <1>1, <1>7, <1>8 DEF f, D

LEMMA OneMore ==
    ASSUME NEW a \in Int, NEW p \in Nat
    PROVE  (a + 1) * p = a * p + p
OBVIOUS

\* A unit more of the basis adds what the band that holds it pays.
LEMMA PercentageStep ==
    ASSUME NEW terms, Shaped(terms.bands), terms.type = "PERCENTAGE", NEW n \in Nat
    PROVE  SumFunctionOnSet(PartOf(terms, n + 1), DOMAIN terms.bands)
             = SumFunctionOnSet(PartOf(terms, n), DOMAIN terms.bands) + Earned(terms, n + 1)
<1> DEFINE bands == terms.bands
           D == DOMAIN bands
           f == PartOf(terms, n)
           g == PartOf(terms, n + 1)
<1>1. Numeric(f, D) /\ Numeric(g, D)
  BY PartsAreNumbers
<1>2. \A i \in D :
          /\ bands[i].min \in Nat /\ bands[i].pays \in Nat
          /\ bands[i].max = None \/ bands[i].max \in Nat
          /\ bands[i].max # None => bands[i].min < bands[i].max
  BY BandFacts
<1>3. ASSUME NEW i \in D, i \notin BandsAt(terms, n + 1) PROVE g[i] = f[i]
  <2>1. ~(bands[i].min < n + 1) \/ (bands[i].max # None /\ ~(n + 1 <= bands[i].max))
    BY <1>3 DEF BandsAt, AtMostMax
  <2>2. CASE ~(bands[i].min < n + 1)
    <3>1. ~(n + 1 > bands[i].min) /\ ~(n > bands[i].min)
      BY <1>2, <2>2
    <3> QED BY <3>1 DEF PartOf
  <2>3. CASE bands[i].max # None /\ ~(n + 1 <= bands[i].max)
    <3>1. bands[i].max \in Nat /\ bands[i].min < bands[i].max /\ bands[i].min \in Nat
      BY <1>2, <2>3
    <3>2. n + 1 > bands[i].min /\ n > bands[i].min /\ n >= bands[i].max
      BY <2>3, <3>1
    <3>3. Slice(n + 1, bands[i]) = bands[i].max - bands[i].min
      BY <2>3 DEF Slice, AtMostMax
    <3>4. Slice(n, bands[i]) = bands[i].max - bands[i].min
      BY <2>3, <3>1, <3>2 DEF Slice, AtMostMax
    <3> QED BY <3>2, <3>3, <3>4 DEF PartOf, BandPays
  <2> QED BY <2>1, <2>2, <2>3
<1>4. ASSUME NEW k \in BandsAt(terms, n + 1) PROVE g[k] = f[k] + bands[k].pays
  <2>1. k \in D /\ bands[k].min < n + 1 /\ (bands[k].max = None \/ n + 1 <= bands[k].max)
    BY DEF BandsAt, AtMostMax
  <2>2. /\ bands[k].min \in Nat /\ bands[k].pays \in Nat
        /\ bands[k].max = None \/ (bands[k].max \in Nat /\ n <= bands[k].max)
    BY <1>2, <2>1
  <2>3. Slice(n + 1, bands[k]) = (n + 1) - bands[k].min /\ Slice(n, bands[k]) = n - bands[k].min
    BY <2>1, <2>2 DEF Slice, AtMostMax
  <2>4. g[k] = Slice(n + 1, bands[k]) * bands[k].pays
    BY <2>1, <2>2 DEF PartOf, BandPays
  <2>5. f[k] = IF n > bands[k].min THEN Slice(n, bands[k]) * bands[k].pays ELSE 0
    BY <2>1 DEF PartOf, BandPays
  <2>6. PICK a : a = n - bands[k].min
    OBVIOUS
  <2>7. a \in Nat /\ (n + 1) - bands[k].min = a + 1 /\ (n > bands[k].min <=> a > 0)
    BY <2>1, <2>2, <2>6
  <2>8. g[k] = (a + 1) * bands[k].pays
    BY <2>3, <2>4, <2>7
  <2>9. f[k] = a * bands[k].pays
    <3>1. CASE a > 0
      BY <2>3, <2>5, <2>6, <2>7, <3>1
    <3>2. CASE a = 0
      BY <2>2, <2>5, <2>7, <3>2
    <3> QED BY <2>7, <3>1, <3>2
  <2> QED BY <2>2, <2>7, <2>8, <2>9, OneMore
<1>5. n + 1 \in Nat
  OBVIOUS
<1>6. CASE BandsAt(terms, n + 1) = {}
  <2>1. Earned(terms, n + 1) = 0
    BY <1>5, <1>6, EarnedByOne
  <2>2. \A i \in D : f[i] = g[i]
    BY <1>3, <1>6
  <2> HIDE DEF f, g, D
  <2>3. SumFunctionOnSet(f, D) = SumFunctionOnSet(g, D) /\ SumFunctionOnSet(f, D) \in Int
    BY <1>1, <2>2, SumSame, SumTakes
  <2>4. SumFunctionOnSet(g, D) = SumFunctionOnSet(f, D) + Earned(terms, n + 1)
    BY <2>1, <2>3
  <2> QED BY <2>4 DEF f, g, D
<1>7. CASE BandsAt(terms, n + 1) # {}
  <2>1. PICK k : k \in BandsAt(terms, n + 1)
    BY <1>7
  <2>2. k \in D /\ Earned(terms, n + 1) = bands[k].pays /\ g[k] = f[k] + bands[k].pays
    BY <1>4, <1>5, <2>1, EarnedByOne DEF BandsAt
  <2>3. \A i \in D \ {k} : i \notin BandsAt(terms, n + 1)
    BY <1>5, <2>1, OneBandAt
  <2>4. \A i \in D \ {k} : f[i] = g[i]
    BY <1>3, <2>3
  <2>5. f[k] \in Int /\ g[k] \in Int /\ Earned(terms, n + 1) \in Int
    BY <1>1, <1>2, <2>2 DEF Numeric
  <2> HIDE DEF f, g, D
  <2>6. SumFunctionOnSet(g, D) = SumFunctionOnSet(f, D) - f[k] + g[k]
    BY <1>1, <2>2, <2>4, <2>5, SumChanges
  <2>7. SumFunctionOnSet(f, D) \in Int
    BY <1>1, SumTakes
  <2>8. g[k] = f[k] + Earned(terms, n + 1)
    BY <2>2 DEF D
  <2>9. SumFunctionOnSet(g, D) = SumFunctionOnSet(f, D) + Earned(terms, n + 1)
    BY <2>5, <2>6, <2>7, <2>8
  <2> QED BY <2>9 DEF f, g, D
<1> QED BY <1>6, <1>7

\* A percentage plan pays every unit of a basis by the band that holds it.
LEMMA PercentagePlan ==
    ASSUME NEW terms, Shaped(terms.bands), terms.type = "PERCENTAGE", NEW basis \in Nat
    PROVE  ApplyPlan(terms, basis) = SumFunctionOnSet([n \in 1..basis |-> Earned(terms, n)], 1..basis)
<1> DEFINE e == [n \in 1..basis |-> Earned(terms, n)]
           P(n) == SumFunctionOnSet(PartOf(terms, n), DOMAIN terms.bands)
           Good(n) == P(n) = SumFunctionOnSet(e, 1..n)
           T == {n \in 0..basis : \A m \in 0..n : Good(m)}
<1>1. Good(0)
  <2>1. \A i \in DOMAIN terms.bands : PartOf(terms, 0)[i] = 0
    <3>1. \A i \in DOMAIN terms.bands : terms.bands[i].min \in Nat
      BY BandFacts
    <3> QED BY <3>1 DEF PartOf
  <2>2. P(0) = 0
    BY <2>1, BandFacts, SumOfNone
  <2>3. 1..0 = {}
    OBVIOUS
  <2>4. SumFunctionOnSet(e, {}) = 0
    <3> HIDE DEF e
    <3> QED BY SumEmpty
  <2> QED BY <2>2, <2>3, <2>4
<1>2. ASSUME NEW n \in 0..basis, n < basis, Good(n) PROVE Good(n + 1)
  <2>1. n \in Nat /\ n + 1 \in 1..basis
    BY <1>2
  <2>2. P(n + 1) = P(n) + Earned(terms, n + 1)
    BY <2>1, PercentageStep
  <2>3. 1..(n + 1) = (1..n) \cup {n + 1} /\ n + 1 \notin 1..n
    BY <2>1
  <2>4. e[n + 1] = Earned(terms, n + 1) /\ e[n + 1] \in Int
    BY <2>1, EarnedByOne
  <2>5. \A m \in 1..n : e[m] \in Int
    BY <1>2, <2>1, EarnedByOne
  <2>6. Numeric(e, 1..n)
    <3> HIDE DEF e
    <3> QED BY <2>1, <2>5, FS_Interval DEF Numeric
  <2> HIDE DEF e
  <2>7. SumFunctionOnSet(e, (1..n) \cup {n + 1}) = SumFunctionOnSet(e, 1..n) + e[n + 1]
    BY ZenonT(40), <2>3, <2>4, <2>6, SumAdds
  <2> QED BY <1>2, <2>2, <2>3, <2>4, <2>7
<1> HIDE DEF Good
<1>3. 0 \in T /\ IsFiniteSet(T) /\ \A n \in T : n \in Int
  <2>1. IsFiniteSet(0..basis) /\ T \subseteq 0..basis
    BY FS_Interval
  <2>2. IsFiniteSet(T)
    BY <2>1, FS_Subset
  <2> QED BY <1>1, <2>2
<1>4. PICK n \in T : \A m \in T : n >= m
  <2> HIDE DEF T
  <2> QED BY <1>3, HasLargest
<1>5. n = basis
  <2> SUFFICES ASSUME n < basis PROVE FALSE
    BY <1>4
  <2>1. n \in 0..basis /\ \A m \in 0..n : Good(m)
    BY <1>4
  <2>2. Good(n + 1)
    BY <1>2, <2>1
  <2>3. \A m \in 0..(n + 1) : Good(m)
    <3> SUFFICES ASSUME NEW m \in 0..(n + 1) PROVE Good(m)
      OBVIOUS
    <3>1. m \in 0..n \/ m = n + 1
      BY <2>1
    <3> QED BY <2>1, <2>2, <3>1
  <2>4. n + 1 \in T
    BY <2>1, <2>3
  <2> QED BY <1>4, <2>1, <2>4
<1>6. Good(basis)
  BY <1>4, <1>5
<1> QED BY <1>6, WalkIsSum DEF Good

\* An amount plan pays the amount of the band that holds the basis.
LEMMA AmountPlan ==
    ASSUME NEW terms, Shaped(terms.bands), terms.type # "PERCENTAGE", NEW basis \in Nat
    PROVE  ApplyPlan(terms, basis) = Earned(terms, basis)
<1> DEFINE D == DOMAIN terms.bands
           f == PartOf(terms, basis)
           at == BandsAt(terms, basis)
           g == [i \in D |-> terms.bands[i].pays]
<1>1. \A i \in D : f[i] = IF i \in at THEN g[i] ELSE 0
  <2> SUFFICES ASSUME NEW i \in D PROVE f[i] = IF i \in at THEN g[i] ELSE 0
    OBVIOUS
  <2>1. terms.bands[i].min \in Nat
    BY BandFacts
  <2>2. basis > terms.bands[i].min <=> terms.bands[i].min < basis
    BY <2>1
  <2> QED BY <2>2 DEF PartOf, BandPays, BandsAt
<1>2. Numeric(f, D) /\ at \subseteq D
  BY PartsAreNumbers DEF BandsAt
<1>3. Earned(terms, basis) = SumFunctionOnSet(g, at)
  BY DEF Earned
<1>4. Numeric(f, at)
  BY <1>2, FS_Subset DEF Numeric
<1> HIDE DEF f, g, at, D
<1>5. SumFunctionOnSet(f, at) = SumFunctionOnSet(f, D)
  BY <1>1, <1>2, SumOfRest
<1>6. \A i \in at : f[i] = g[i]
  BY <1>1, <1>2
<1>7. SumFunctionOnSet(f, at) = SumFunctionOnSet(g, at)
  BY <1>4, <1>6, SumSame
<1> QED BY <1>3, <1>5, <1>7, WalkIsSum DEF f, D

LEMMA ShapedPlansAreProgressive == PlansShaped => PlansAreProgressive
<1> SUFFICES ASSUME PlansShaped, NEW p \in Plans, NEW basis \in 0..MaxBasis, In(p, {"ACTIVE"})
             PROVE  /\ Cardinality(BandsAt(db[p].terms, basis)) <= 1
                    /\ ApplyPlan(db[p].terms, basis) =
                           IF db[p].terms.type = "PERCENTAGE"
                           THEN SumFunctionOnSet([n \in 1..basis |-> Earned(db[p].terms, n)], 1..basis)
                           ELSE Earned(db[p].terms, basis)
  BY DEF PlansAreProgressive
<1>1. PICK terms : terms = db[p].terms
  OBVIOUS
<1>2. terms \in Terms /\ ValidateRateShape(terms.bands)
  BY <1>1 DEF PlansShaped, In
<1>3. terms.bands \in Seq(BandOf)
  BY Zenon, <1>2, CommissionsAssumption DEF BandOf
<1>4. Shaped(terms.bands)
  BY <1>2, <1>3 DEF Shaped
<1>5. basis \in Nat
  BY CommissionsAssumption
<1> QED BY <1>1, <1>4, <1>5, EarnedByOne, PercentagePlan, AmountPlan

-----------------------------------------------------------------------------
(* Rows, and the requests about them *)

LEMMA CommissionTables ==
    /\ Agents \cap Assignments = {} /\ Agents \cap Plans = {} /\ Agents \cap Calculations = {}
    /\ Assignments \cap Plans = {} /\ Assignments \cap Calculations = {}
    /\ Plans \cap Calculations = {}
    /\ None \notin Calculations /\ IsFiniteSet(Calculations) /\ IsFiniteSet(Assignments)
BY CommissionsAssumption

LEMMA CommissionWritten ==
    ASSUME CommissionRowsTyped, NEW x \in CommissionRows, NEW v, db' = [db EXCEPT ![x] = v]
    PROVE  /\ DOMAIN db' = CommissionRows /\ db'[x] = v
           /\ \A y \in CommissionRows : y # x => db'[y] = db[y]
BY DEF CommissionRowsTyped

LEMMA AgentWritten ==
    ASSUME CommissionRowsTyped, NEW a \in Agents, NEW v \in AgentRow, db' = [db EXCEPT ![a] = v]
    PROVE  /\ CommissionRowsTyped'
           /\ \A x \in Assignments \cup Plans \cup Calculations : db'[x] = db[x]
<1>1. /\ DOMAIN db' = CommissionRows /\ db'[a] = v
      /\ \A y \in CommissionRows : y # a => db'[y] = db[y]
  BY CommissionWritten DEF CommissionRows
<1>2. \A x \in Assignments \cup Plans \cup Calculations : x \in CommissionRows /\ x # a
  BY CommissionTables DEF CommissionRows
<1>3. \A b \in Agents : b \in CommissionRows
  BY DEF CommissionRows
<1> QED BY <1>1, <1>2, <1>3 DEF CommissionRowsTyped

LEMMA AssignmentWritten ==
    ASSUME CommissionRowsTyped, NEW s \in Assignments, NEW v \in AssignmentRow,
           db' = [db EXCEPT ![s] = v]
    PROVE  /\ CommissionRowsTyped' /\ db'[s] = v
           /\ \A x \in Agents \cup Plans \cup Calculations : db'[x] = db[x]
           /\ \A t \in Assignments : t # s => db'[t] = db[t]
<1>1. /\ DOMAIN db' = CommissionRows /\ db'[s] = v
      /\ \A y \in CommissionRows : y # s => db'[y] = db[y]
  BY CommissionWritten DEF CommissionRows
<1>2. \A x \in Agents \cup Plans \cup Calculations : x \in CommissionRows /\ x # s
  BY CommissionTables DEF CommissionRows
<1>3. \A t \in Assignments : t \in CommissionRows
  BY DEF CommissionRows
<1> QED BY <1>1, <1>2, <1>3 DEF CommissionRowsTyped

LEMMA PlanWritten ==
    ASSUME CommissionRowsTyped, NEW p \in Plans, NEW v \in PlanRow, db' = [db EXCEPT ![p] = v]
    PROVE  /\ CommissionRowsTyped' /\ db'[p] = v
           /\ \A x \in Agents \cup Assignments \cup Calculations : db'[x] = db[x]
           /\ \A t \in Plans : t # p => db'[t] = db[t]
<1>1. /\ DOMAIN db' = CommissionRows /\ db'[p] = v
      /\ \A y \in CommissionRows : y # p => db'[y] = db[y]
  BY CommissionWritten DEF CommissionRows
<1>2. \A x \in Agents \cup Assignments \cup Calculations : x \in CommissionRows /\ x # p
  BY CommissionTables DEF CommissionRows
<1>3. \A t \in Plans : t \in CommissionRows
  BY DEF CommissionRows
<1> QED BY <1>1, <1>2, <1>3 DEF CommissionRowsTyped

LEMMA CalculationWritten ==
    ASSUME CommissionRowsTyped, NEW k \in Calculations, NEW v \in CalculationRow,
           db' = [db EXCEPT ![k] = v]
    PROVE  /\ CommissionRowsTyped' /\ db'[k] = v
           /\ \A x \in Agents \cup Assignments \cup Plans : db'[x] = db[x]
           /\ \A m \in Calculations : m # k => db'[m] = db[m]
<1>1. /\ DOMAIN db' = CommissionRows /\ db'[k] = v
      /\ \A y \in CommissionRows : y # k => db'[y] = db[y]
  BY CommissionWritten DEF CommissionRows
<1>2. \A x \in Agents \cup Assignments \cup Plans : x \in CommissionRows /\ x # k
  BY CommissionTables DEF CommissionRows
<1>3. \A m \in Calculations : m \in CommissionRows
  BY DEF CommissionRows
<1> QED BY <1>1, <1>2, <1>3 DEF CommissionRowsTyped

\* A plan or a calculation that is there stays, and so does what a calculation
\* has in the journal.
PlansStay == \A p \in Plans : ~In(p, {"ABSENT"}) => ~In(p, {"ABSENT"})'
CalculationsStay ==
    \A k \in Calculations : ~In(k, {"ABSENT"}) =>
        /\ ~In(k, {"ABSENT"})'
        /\ db[k].accrued > 0 => db'[k].accrued > 0
        /\ db[k].cleared > 0 => db'[k].cleared > 0

LEMMA RequestRelies ==
    ASSUME CalculationsStay, PlansStay, NEW q, CommissionRequest(q)
    PROVE  CommissionRequest(q)'
<1>1. q.op \in StatusOps \cup LedgerOps \cup {"adjust"} =>
          q.row \in Calculations /\ ~In(q.row, {"ABSENT"}) /\ ~In(q.row, {"ABSENT"})'
  BY DEF CommissionRequest, CalculationsStay
<1>2. q.op = "payable" /\ q.at = "write" => db'[q.row].accrued > 0
  BY <1>1 DEF CommissionRequest, CalculationsStay, LedgerOps
<1>3. q.op = "paid" => db'[q.row].accrued > 0 /\ (q.at = "write" => db'[q.row].cleared > 0)
  BY <1>1 DEF CommissionRequest, CalculationsStay, LedgerOps
<1>4. q.op = "deactivate" => q.row \in Plans /\ ~In(q.row, {"ABSENT"})'
  BY DEF CommissionRequest, PlansStay
<1> QED BY <1>1, <1>2, <1>3, <1>4 DEF CommissionRequest

\* A step of one request, which is now p.
LEMMA CommissionMoves ==
    ASSUME CommissionsInv, NEW c \in Calls, NEW p \in CommissionsCall,
           call' = [call EXCEPT ![c] = p], tidy' \in BOOLEAN,
           CommissionRowsTyped', PlansShaped', PaidWasAccrued', CalculationsStay, PlansStay,
           CommissionRequest(p)',
           tidy' => /\ tidy /\ \A e \in Calls : e # c => call[e] = Idle
                    /\ CommissionTurn(p)' /\ OneOfEach'
    PROVE  CommissionsInv'
<1>1. call \in [Calls -> CommissionsCall]
  BY DEF CommissionsInv, CommissionsTyped
<1>2. call'[c] = p /\ \A e \in Calls : e # c => call'[e] = call[e]
  BY <1>1
<1>3. CommissionsTyped'
  BY <1>1 DEF CommissionsTyped
<1>4. \A e \in Calls : CommissionRequest(call[e])'
  <2> SUFFICES ASSUME NEW e \in Calls PROVE CommissionRequest(call[e])'
    OBVIOUS
  <2>1. CASE e = c
    BY <1>2, <2>1 DEF CommissionRequest
  <2>2. CASE e # c
    <3>1. PICK q : q = call[e]
      OBVIOUS
    <3>2. CommissionRequest(q)
      BY <3>1 DEF CommissionsInv
    <3>3. CommissionRequest(q)'
      BY <3>2, RequestRelies
    <3>4. call'[e] = q
      BY <1>2, <2>2, <3>1
    <3> QED BY <3>3, <3>4 DEF CommissionRequest
  <2> QED BY <2>1, <2>2
<1>5. ASSUME tidy' PROVE CommissionTurns'
  <2>1. \A e, f \in Calls : call'[e] # Idle /\ call'[f] # Idle => e = f
    BY <1>2, <1>5
  <2>2. ASSUME NEW e \in Calls, call'[e] # Idle PROVE CommissionTurn(call[e])'
    <3>1. e = c /\ call'[e] = p
      BY <1>2, <1>5, <2>2
    <3> QED BY <1>5, <3>1 DEF CommissionTurn, StatusRead, EnteredAsSaid, JustEntered
  <2>3. ASSUME Alone' PROVE CommissionTurn(Idle)'
    <3>1. p = Idle
      BY <1>2, <2>3 DEF Alone
    <3> QED BY <1>5, <3>1
  <2> QED BY <1>5, <2>1, <2>2, <2>3 DEF CommissionTurns
<1> QED BY <1>3, <1>4, <1>5 DEF CommissionsInv

\* A request that was at work was the only one.
LEMMA CommissionAlone ==
    ASSUME CommissionsInv, NEW c \in Calls, call[c] # Idle, tidy
    PROVE  /\ \A e \in Calls : e # c => call[e] = Idle
           /\ CommissionTurn(call[c]) /\ OneOfEach
BY DEF CommissionsInv, CommissionTurns

LEMMA CommissionEnters ==
    ASSUME CommissionsInv, NEW c \in Calls, NEW op, NEW at, NEW x, NEW arg,
           Enter(c, op, at, x, arg, None), NEW p \in CommissionsCall,
           p = [op |-> op, at |-> at, row |-> x, arg |-> arg, seen |-> None],
           CommissionRequest(p), p.op \in LedgerOps => p.at = "post",
           tidy /\ Alone /\ OneOfEach => StatusRead(p)
    PROVE  CommissionsInv'
<1>1. call' = [call EXCEPT ![c] = p] /\ tidy' = (tidy /\ Alone) /\ db' = db
  BY DEF Enter
<1>2. /\ CommissionRowsTyped' /\ PlansShaped' /\ PaidWasAccrued' /\ CalculationsStay /\ PlansStay
      /\ CommissionRequest(p)'
  BY <1>1 DEF CommissionsInv, CommissionsTyped, CommissionRowsTyped, PlansShaped, PaidWasAccrued,
              CalculationsStay, PlansStay, CommissionRequest, In
<1>3. tidy' \in BOOLEAN
  BY <1>1 DEF CommissionsInv, CommissionsTyped
<1>4. ASSUME tidy' PROVE CommissionTurn(p)' /\ OneOfEach'
  <2>1. CommissionTurn(Idle) /\ OneOfEach /\ StatusRead(p)
    BY <1>1, <1>4 DEF CommissionsInv, CommissionTurns
  <2>2. StatusRead(p)' /\ OneOfEach'
    BY <1>1, <2>1 DEF StatusRead, OneOfEach, In, ActiveOn
  <2>3. ASSUME NEW k \in Calculations PROVE EnteredAsSaid(p, k)'
    <3>1. \A o \in LedgerOps : JustEntered(p, o, k) = 0 /\ JustEntered(Idle, o, k) = 0
      BY DEF JustEntered, Idle, LedgerOps
    <3>2. EnteredAsSaid(Idle, k)
      BY <2>1 DEF CommissionTurn
    <3>3. \A o : JustEntered(p, o, k)' = JustEntered(p, o, k)
      BY DEF JustEntered
    <3> QED BY <1>1, <3>1, <3>2, <3>3 DEF EnteredAsSaid, In, LedgerOps
  <2> QED BY <2>2, <2>3 DEF CommissionTurn
<1>5. tidy' => tidy /\ \A e \in Calls : e # c => call[e] = Idle
  BY <1>1 DEF Alone
<1> QED BY <1>1, <1>2, <1>3, <1>4, <1>5, CommissionMoves

\* A request ends that has written no calculation and no assignment.
LEMMA CommissionEnds ==
    ASSUME CommissionsInv, NEW c \in Calls, call[c] # Idle, call' = [call EXCEPT ![c] = Idle],
           tidy' \in BOOLEAN, tidy' => tidy /\ call[c].op \notin LedgerOps,
           CommissionRowsTyped', PlansShaped', PlansStay,
           \A x \in Assignments \cup Calculations : db'[x] = db[x]
    PROVE  CommissionsInv'
<1>1. PaidWasAccrued' /\ CalculationsStay
  BY DEF CommissionsInv, PaidWasAccrued, CalculationsStay, In
<1>2. Idle \in CommissionsCall /\ CommissionRequest(Idle)' /\ StatusRead(Idle)'
  BY DEF Idle, CommissionsCall, CommissionRequest, StatusRead, StatusOps, LedgerOps
<1>3. ASSUME tidy'
      PROVE  /\ \A e \in Calls : e # c => call[e] = Idle
             /\ CommissionTurn(Idle)' /\ OneOfEach'
  <2>1. PICK q : q = call[c]
    OBVIOUS
  <2>2. CommissionTurn(q) /\ OneOfEach /\ \A e \in Calls : e # c => call[e] = Idle
    BY <1>3, <2>1, CommissionAlone
  <2>3. OneOfEach'
    BY <2>2 DEF OneOfEach, In
  <2>4. ASSUME NEW k \in Calculations PROVE EnteredAsSaid(Idle, k)'
    <3>1. \A o \in LedgerOps : JustEntered(q, o, k) = 0 /\ JustEntered(Idle, o, k)' = 0
      BY <1>3, <2>1 DEF JustEntered, Idle, LedgerOps
    <3>2. EnteredAsSaid(q, k)
      BY <2>2 DEF CommissionTurn
    <3> QED BY <3>1, <3>2 DEF EnteredAsSaid, In, LedgerOps
  <2> QED BY <1>2, <2>2, <2>3, <2>4 DEF CommissionTurn
<1> QED BY <1>1, <1>2, <1>3, CommissionMoves

\* A request of one statement.
LEMMA CommissionStatement ==
    ASSUME CommissionsInv, UNCHANGED call, tidy' = (tidy /\ Alone),
           CommissionRowsTyped', PlansShaped', PlansStay,
           \A x \in Assignments \cup Calculations : db'[x] = db[x]
    PROVE  CommissionsInv'
<1>1. PaidWasAccrued' /\ CalculationsStay
  BY DEF CommissionsInv, PaidWasAccrued, CalculationsStay, In
<1>2. CommissionsTyped'
  BY DEF CommissionsInv, CommissionsTyped
<1>3. \A c \in Calls : CommissionRequest(call[c])'
  <2> SUFFICES ASSUME NEW c \in Calls PROVE CommissionRequest(call[c])'
    OBVIOUS
  <2>1. PICK q : q = call[c]
    OBVIOUS
  <2>2. CommissionRequest(q)
    BY <2>1 DEF CommissionsInv
  <2>3. CommissionRequest(q)' /\ call'[c] = q
    BY <1>1, <2>1, <2>2, RequestRelies
  <2> QED BY <2>3 DEF CommissionRequest
<1>4. ASSUME tidy' PROVE CommissionTurns'
  <2>1. \A c \in Calls : call'[c] = Idle
    BY <1>4 DEF Alone
  <2>2. CommissionTurn(Idle) /\ OneOfEach
    BY <1>4 DEF CommissionsInv, CommissionTurns
  <2>3. OneOfEach' /\ StatusRead(Idle)'
    BY <2>2 DEF OneOfEach, In, StatusRead, Idle
  <2>4. ASSUME NEW k \in Calculations PROVE EnteredAsSaid(Idle, k)'
    <3>1. EnteredAsSaid(Idle, k) /\ \A o : JustEntered(Idle, o, k)' = JustEntered(Idle, o, k)
      BY <2>2 DEF CommissionTurn, JustEntered
    <3> QED BY <3>1 DEF EnteredAsSaid, In
  <2> QED BY <2>1, <2>3, <2>4 DEF CommissionTurns, CommissionTurn
<1> QED BY <1>1, <1>2, <1>3, <1>4 DEF CommissionsInv

-----------------------------------------------------------------------------
(* Calculations *)

\* A request writes the row of its calculation, and is p from then on.
Recorded(k, v) ==
    /\ v.assignment = db[k].assignment /\ v.supersedes = db[k].supersedes
    /\ v.accrued >= db[k].accrued /\ v.cleared >= db[k].cleared
    /\ v.status # "ABSENT"
    /\ v.cleared > 0 \/ v.status \in {"PAYABLE", "PAID"} => v.accrued > 0
    /\ v.status = "PAID" => v.cleared > 0
RecordedInTurn(p, k, v) ==
    /\ v.status \in ActiveStatuses => In(k, ActiveStatuses)
    /\ ~In(k, {"REVERSED"})
    /\ v.accrued <= 1 /\ v.cleared <= 1
    /\ v.status \in {"ABSENT", "CALCULATED", "PENDING", "APPROVED"} =>
          v.accrued = JustEntered(p, "payable", k)
    /\ v.status \in {"ABSENT", "CALCULATED", "PENDING", "APPROVED", "PAYABLE"} =>
          v.cleared = JustEntered(p, "paid", k)

LEMMA CalculationRecorded ==
    ASSUME CommissionsInv, NEW c \in Calls, NEW k \in Calculations, NEW p \in CommissionsCall,
           NEW v \in CalculationRow,
           call[c] # Idle, call[c].row = k, p.row \in {k, None},
           call' = [call EXCEPT ![c] = p], UNCHANGED tidy, db' = [db EXCEPT ![k] = v],
           Recorded(k, v),
           CommissionRequest(p)', StatusRead(call[c]) => StatusRead(p)',
           CommissionTurn(call[c]) => RecordedInTurn(p, k, v)
    PROVE  CommissionsInv'
<1>1. /\ CommissionRowsTyped /\ tidy' \in BOOLEAN /\ db[k] \in CalculationRow
      /\ \A m \in Calculations : db[m] \in CalculationRow
  BY DEF CommissionsInv, CommissionsTyped, CommissionRowsTyped
<1>2. /\ CommissionRowsTyped' /\ db'[k] = v
      /\ \A x \in Agents \cup Assignments \cup Plans : db'[x] = db[x]
      /\ \A m \in Calculations : m # k => db'[m] = db[m]
  BY <1>1, CalculationWritten
<1>3. PlansShaped' /\ PlansStay
  BY <1>2 DEF CommissionsInv, PlansShaped, PlansStay, In
<1>4. PaidWasAccrued'
  BY <1>2 DEF CommissionsInv, PaidWasAccrued, Recorded, In
<1>5. CalculationsStay
  <2>1. db[k].accrued \in Nat /\ db[k].cleared \in Nat /\ v.accrued \in Nat /\ v.cleared \in Nat
    BY <1>1 DEF CalculationRow
  <2> QED BY <1>2, <2>1 DEF CalculationsStay, Recorded, In
<1>6. ASSUME tidy'
      PROVE  /\ tidy /\ \A e \in Calls : e # c => call[e] = Idle
             /\ CommissionTurn(p)' /\ OneOfEach'
  <2>1. PICK q : q = call[c]
    OBVIOUS
  <2>2. CommissionTurn(q) /\ OneOfEach /\ \A e \in Calls : e # c => call[e] = Idle
    BY <1>6, <2>1, CommissionAlone
  <2>3. RecordedInTurn(p, k, v) /\ StatusRead(p)'
    BY <2>1, <2>2 DEF CommissionTurn
  <2>4. ASSUME NEW m \in Calculations PROVE EnteredAsSaid(p, m)'
    <3>1. \A o : JustEntered(p, o, m)' = JustEntered(p, o, m)
      BY DEF JustEntered
    <3>2. CASE m = k
      BY <1>2, <2>3, <3>1, <3>2 DEF RecordedInTurn, EnteredAsSaid, In
    <3>3. CASE m # k
      <4>1. EnteredAsSaid(q, m)
        BY <2>2 DEF CommissionTurn
      <4>2. \A o : JustEntered(p, o, m) = 0 /\ JustEntered(q, o, m) = 0
        BY <2>1, <3>3, CommissionTables DEF JustEntered
      <4> QED BY <1>2, <3>1, <3>3, <4>1, <4>2 DEF EnteredAsSaid, In
    <3> QED BY <3>2, <3>3
  <2>5. \A m \in Calculations :
            /\ In(m, ActiveStatuses)' => In(m, ActiveStatuses)
            /\ In(m, {"REVERSED"}) => In(m, {"REVERSED"})'
            /\ db'[m].assignment = db[m].assignment /\ db'[m].supersedes = db[m].supersedes
    BY <1>2, <2>3 DEF Recorded, RecordedInTurn, In
  <2>6. \A s \in Assignments : db'[s] = db[s]
    BY <1>2
  <2>7. OneOfEach'
    BY <2>2, <2>5, <2>6 DEF OneOfEach, In
  <2> QED BY <1>6, <2>2, <2>3, <2>4, <2>7 DEF CommissionTurn
<1> QED BY <1>1, <1>2, <1>3, <1>4, <1>5, <1>6, CommissionMoves

\* A request that has ended relies on nothing.
LEMMA EndedRelies ==
    /\ Idle \in CommissionsCall /\ Idle.row = None
    /\ CommissionRequest(Idle)' /\ StatusRead(Idle)'
    /\ \A o \in LedgerOps, k \in Calculations : JustEntered(Idle, o, k) = 0
BY DEF Idle, CommissionsCall, CommissionRequest, StatusRead, StatusOps, LedgerOps, JustEntered

\* The status of a calculation goes from what was read to another.
Goes(op) ==
    CASE op = "submit" -> "PENDING"
      [] op = "approve" -> "APPROVED"
      [] op = "reject" -> "REJECTED"
      [] op = "cancel" -> "CANCELLED"
      [] op = "reverse" -> "REVERSED"
LeavesFrom(op) ==
    CASE op = "submit" -> {"CALCULATED"}
      [] op = "approve" -> {"PENDING"}
      [] op = "reject" -> {"PENDING"}
      [] op = "cancel" -> {"CALCULATED", "PENDING"}
      [] op = "reverse" -> ActiveStatuses

LEMMA StatusHandler ==
    ASSUME CommissionsInv, NEW c \in Calls, NEW k \in Calculations, NEW op \in StatusOps,
           Handler(c, op, k, None, In(k, LeavesFrom(op)), Becomes(k, Goes(op)))
    PROVE  CommissionsInv'
<1>0. /\ CommissionRowsTyped /\ db[k] \in CalculationRow
      /\ \A m \in Calculations : db[m] \in CalculationRow
  BY DEF CommissionsInv, CommissionsTyped, CommissionRowsTyped
<1>1. CASE In(k, LeavesFrom(op)) /\ Enter(c, op, "write", k, None, None)
  <2>1. PICK p : p = [op |-> op, at |-> "write", row |-> k, arg |-> None, seen |-> None]
    OBVIOUS
  <2>2. p \in CommissionsCall /\ p.op = op /\ p.row = k
    BY <2>1 DEF CommissionsCall, CommissionRows
  <2>3. op \notin LedgerOps
    BY DEF StatusOps, LedgerOps
  <2>4. StatusRead(p)
    BY <1>1, <2>2 DEF StatusRead, LeavesFrom, StatusOps
  <2>5. ~In(k, {"ABSENT"})
    BY <1>1 DEF In, LeavesFrom, StatusOps, ActiveStatuses
  <2>6. CommissionRequest(p)
    BY <2>2, <2>3, <2>5 DEF CommissionRequest, StatusOps, LedgerOps
  <2> QED BY <1>1, <2>1, <2>2, <2>3, <2>4, <2>6, CommissionEnters
<1>2. CASE At(c, op, "write", k, None) /\ Becomes(k, Goes(op)) /\ Leave(c)
  <2>1. call[c].op = op /\ call[c].row = k /\ call[c] # Idle
    BY <1>2 DEF At, Idle, StatusOps
  <2>2. PICK v : v = [db[k] EXCEPT !.status = Goes(op)]
    OBVIOUS
  <2>3. Goes(op) \in {"PENDING", "APPROVED", "REJECTED", "CANCELLED", "REVERSED"}
    BY DEF Goes, StatusOps
  <2>4. /\ v \in CalculationRow /\ v.status = Goes(op) /\ v.accrued = db[k].accrued
        /\ v.cleared = db[k].cleared /\ v.assignment = db[k].assignment
        /\ v.supersedes = db[k].supersedes /\ db[k].accrued \in Nat /\ db[k].cleared \in Nat
    BY <1>0, <2>2, <2>3 DEF CalculationRow, CalculationStatus, ActiveStatuses
  <2>5. db' = [db EXCEPT ![k] = v]
    BY <1>0, <1>2, <2>2 DEF Becomes, CommissionRowsTyped, CommissionRows
  <2>6. db[k].cleared > 0 => db[k].accrued > 0
    BY DEF CommissionsInv, PaidWasAccrued
  <2>7. Recorded(k, v)
    BY <2>3, <2>4, <2>6 DEF Recorded
  <2>8. ASSUME CommissionTurn(call[c]) PROVE RecordedInTurn(Idle, k, v)
    <3>1. In(k, LeavesFrom(op)) /\ EnteredAsSaid(call[c], k)
      BY <2>1, <2>8 DEF CommissionTurn, StatusRead, LeavesFrom, StatusOps
    <3>2. \A o \in LedgerOps : JustEntered(call[c], o, k) = 0
      BY <2>1 DEF JustEntered, StatusOps, LedgerOps
    <3>3. In(k, ActiveStatuses) /\ ~In(k, {"REVERSED"})
      BY <3>1 DEF In, LeavesFrom, StatusOps, ActiveStatuses
    <3>4. v.status \in {"PENDING", "APPROVED"} => In(k, {"CALCULATED", "PENDING"})
      BY <2>4, <3>1 DEF Goes, LeavesFrom, StatusOps, In
    <3>5. v.accrued <= 1 /\ v.cleared <= 1
      BY <2>4, <3>1 DEF EnteredAsSaid
    <3>6. In(k, {"CALCULATED", "PENDING"}) => v.accrued = 0 /\ v.cleared = 0
      BY <2>4, <3>1, <3>2 DEF EnteredAsSaid, In, LedgerOps
    <3>7. JustEntered(Idle, "payable", k) = 0 /\ JustEntered(Idle, "paid", k) = 0
      BY EndedRelies DEF LedgerOps
    <3> QED BY <2>3, <2>4, <3>3, <3>4, <3>5, <3>6, <3>7 DEF RecordedInTurn
  <2>9. call' = [call EXCEPT ![c] = Idle] /\ UNCHANGED tidy
    BY <1>2 DEF Leave
  <2> QED BY <2>1, <2>4, <2>5, <2>7, <2>8, <2>9, EndedRelies, CalculationRecorded
<1> QED BY <1>1, <1>2 DEF Handler

\* The entry of an accrual or a payment, and the status after it.
LEMMA LedgerEnters ==
    ASSUME CommissionsInv, NEW c \in Calls, NEW k \in Calculations, NEW op \in LedgerOps,
           In(k, {IF op = "payable" THEN "APPROVED" ELSE "PAYABLE"}),
           Enter(c, op, "post", k, None, None)
    PROVE  CommissionsInv'
<1>1. PICK p : p = [op |-> op, at |-> "post", row |-> k, arg |-> None, seen |-> None]
  OBVIOUS
<1>2. p \in CommissionsCall /\ p.op = op /\ p.row = k /\ p.at = "post"
  BY <1>1 DEF CommissionsCall, CommissionRows
<1>3. op \in {"payable", "paid"} /\ op \notin StatusOps
  BY DEF LedgerOps, StatusOps
<1>4. ~In(k, {"ABSENT"}) /\ (op = "paid" => db[k].accrued > 0)
  BY <1>3 DEF In, CommissionsInv, PaidWasAccrued
<1>5. CommissionRequest(p)
  BY <1>2, <1>3, <1>4 DEF CommissionRequest
<1>6. StatusRead(p)
  BY <1>2, <1>3 DEF StatusRead
<1> QED BY <1>1, <1>2, <1>5, <1>6, CommissionEnters

LEMMA LedgerPosts ==
    ASSUME CommissionsInv, NEW c \in Calls, NEW k \in Calculations, NEW op \in LedgerOps,
           At(c, op, "post", k, None), Goto(c, "write"),
           db' = IF op = "payable" THEN [db EXCEPT ![k].accrued = @ + 1]
                 ELSE [db EXCEPT ![k].cleared = @ + 1]
    PROVE  CommissionsInv'
<1>0. /\ CommissionRowsTyped /\ db[k] \in CalculationRow /\ call[c] \in CommissionsCall
      /\ CommissionRequest(call[c])
  BY DEF CommissionsInv, CommissionsTyped, CommissionRowsTyped
<1>1. PICK p : p = [call[c] EXCEPT !.at = "write"]
  OBVIOUS
<1>2. /\ call[c].op = op /\ call[c].row = k /\ call[c].at = "post" /\ call[c] # Idle
      /\ p \in CommissionsCall /\ p.op = op /\ p.row = k /\ p.at = "write"
      /\ call' = [call EXCEPT ![c] = p] /\ UNCHANGED tidy
  BY <1>0, <1>1 DEF At, Goto, Idle, CommissionsCall, LedgerOps
<1>3. op \in {"payable", "paid"} /\ op \notin StatusOps /\ op # "adjust"
  BY DEF LedgerOps, StatusOps
<1>4. PICK v : v = IF op = "payable" THEN [db[k] EXCEPT !.accrued = @ + 1]
                   ELSE [db[k] EXCEPT !.cleared = @ + 1]
  OBVIOUS
<1>5. /\ v \in CalculationRow /\ v.status = db[k].status
      /\ db[k].accrued \in Nat /\ db[k].cleared \in Nat
      /\ v.accrued = (IF op = "payable" THEN db[k].accrued + 1 ELSE db[k].accrued)
      /\ v.cleared = (IF op = "payable" THEN db[k].cleared ELSE db[k].cleared + 1)
      /\ v.assignment = db[k].assignment /\ v.supersedes = db[k].supersedes
  BY <1>0, <1>4 DEF CalculationRow
<1>6. db' = [db EXCEPT ![k] = v]
  BY <1>0, <1>4 DEF CommissionRowsTyped, CommissionRows
<1>7. db'[k] = v
  BY <1>0, <1>6 DEF CommissionRowsTyped, CommissionRows
<1>8. /\ db[k].status # "ABSENT" /\ (op = "paid" => db[k].accrued > 0)
      /\ db[k].cleared > 0 \/ db[k].status \in {"PAYABLE", "PAID"} => db[k].accrued > 0
      /\ db[k].status = "PAID" => db[k].cleared > 0
  BY <1>0, <1>2 DEF CommissionRequest, CommissionsInv, PaidWasAccrued, In
<1>9. Recorded(k, v)
  BY <1>3, <1>5, <1>8 DEF Recorded
<1>10. v.accrued > 0 /\ (op = "paid" => v.cleared > 0)
  BY <1>3, <1>5, <1>8
<1>11. CommissionRequest(p)'
  BY <1>2, <1>3, <1>5, <1>7, <1>8, <1>10 DEF CommissionRequest, In
<1>12. StatusRead(call[c]) => StatusRead(p)'
  BY <1>2, <1>3, <1>5, <1>7 DEF StatusRead, In
<1>13. ASSUME CommissionTurn(call[c]) PROVE RecordedInTurn(p, k, v)
  <2>1. EnteredAsSaid(call[c], k) /\ In(k, {IF op = "payable" THEN "APPROVED" ELSE "PAYABLE"})
    BY <1>2, <1>3, <1>13 DEF CommissionTurn, StatusRead
  <2>2. \A o : JustEntered(call[c], o, k) = 0
    BY <1>2 DEF JustEntered
  <2>3. \A o : JustEntered(p, o, k) = IF o = op THEN 1 ELSE 0
    BY <1>2 DEF JustEntered
  <2>4. db[k].cleared = 0 /\ (op = "payable" => db[k].accrued = 0) /\ db[k].accrued <= 1
    BY <1>3, <2>1, <2>2 DEF EnteredAsSaid, In
  <2>5. v.status = IF op = "payable" THEN "APPROVED" ELSE "PAYABLE"
    BY <1>5, <2>1 DEF In
  <2>6. /\ op = "payable" => v.accrued = 1 /\ v.cleared = 0
        /\ op = "paid" => v.accrued <= 1 /\ v.cleared = 1
    BY <1>5, <2>4
  <2>7. In(k, ActiveStatuses) /\ ~In(k, {"REVERSED"})
    BY <2>1 DEF In, ActiveStatuses
  <2> QED BY <1>3, <2>3, <2>5, <2>6, <2>7 DEF RecordedInTurn
<1> QED BY <1>2, <1>5, <1>6, <1>9, <1>11, <1>12, <1>13, CalculationRecorded

LEMMA LedgerWrites ==
    ASSUME CommissionsInv, NEW c \in Calls, NEW k \in Calculations, NEW op \in LedgerOps,
           At(c, op, "write", k, None), Leave(c),
           Becomes(k, IF op = "payable" THEN "PAYABLE" ELSE "PAID")
    PROVE  CommissionsInv'
<1>0. /\ CommissionRowsTyped /\ db[k] \in CalculationRow /\ CommissionRequest(call[c])
  BY DEF CommissionsInv, CommissionsTyped, CommissionRowsTyped
<1>1. /\ call[c].op = op /\ call[c].row = k /\ call[c].at = "write" /\ call[c] # Idle
      /\ call' = [call EXCEPT ![c] = Idle] /\ UNCHANGED tidy
  BY DEF At, Leave, Idle, LedgerOps
<1>2. op \in {"payable", "paid"}
  BY DEF LedgerOps
<1>3. PICK v : v = [db[k] EXCEPT !.status = IF op = "payable" THEN "PAYABLE" ELSE "PAID"]
  OBVIOUS
<1>4. /\ v \in CalculationRow /\ v.status = (IF op = "payable" THEN "PAYABLE" ELSE "PAID")
      /\ v.accrued = db[k].accrued /\ v.cleared = db[k].cleared
      /\ db[k].accrued \in Nat /\ db[k].cleared \in Nat
      /\ v.assignment = db[k].assignment /\ v.supersedes = db[k].supersedes
  BY <1>0, <1>3 DEF CalculationRow, CalculationStatus, ActiveStatuses
<1>5. db' = [db EXCEPT ![k] = v]
  BY <1>0, <1>3 DEF Becomes, CommissionRowsTyped, CommissionRows
<1>6. db[k].accrued > 0 /\ (op = "paid" => db[k].cleared > 0)
  BY <1>0, <1>1, <1>2 DEF CommissionRequest
<1>7. Recorded(k, v)
  BY <1>2, <1>4, <1>6 DEF Recorded
<1>8. ASSUME CommissionTurn(call[c]) PROVE RecordedInTurn(Idle, k, v)
  <2>1. EnteredAsSaid(call[c], k) /\ In(k, {IF op = "payable" THEN "APPROVED" ELSE "PAYABLE"})
    BY <1>1, <1>2, <1>8 DEF CommissionTurn, StatusRead
  <2>2. JustEntered(call[c], "paid", k) = IF op = "paid" THEN 1 ELSE 0
    BY <1>1, <1>2 DEF JustEntered
  <2>3. v.accrued <= 1 /\ v.cleared <= 1 /\ (op = "payable" => v.cleared = 0)
    BY <1>2, <1>4, <2>1, <2>2 DEF EnteredAsSaid, In
  <2>4. In(k, ActiveStatuses) /\ ~In(k, {"REVERSED"})
    BY <2>1 DEF In, ActiveStatuses
  <2>5. JustEntered(Idle, "paid", k) = 0
    BY EndedRelies DEF LedgerOps
  <2> QED BY <1>2, <1>4, <2>3, <2>4, <2>5 DEF RecordedInTurn
<1> QED BY <1>1, <1>4, <1>5, <1>7, <1>8, EndedRelies, CalculationRecorded

\* A new calculation goes to a row that is not there yet.
LEMMA NewCalculationTyped ==
    ASSUME NEW s \in Assignments, NEW old \in Calculations \cup {None}
    PROVE  /\ NewCalculation(s, old) \in CalculationRow
           /\ NewCalculation(s, old).status = "CALCULATED"
           /\ NewCalculation(s, old).accrued = 0 /\ NewCalculation(s, old).cleared = 0
           /\ NewCalculation(s, old).assignment = s /\ NewCalculation(s, old).supersedes = old
BY DEF NewCalculation, NoCalculation, CalculationRow, CalculationStatus, ActiveStatuses

LEMMA CalculateKeeps ==
    ASSUME CommissionsInv, NEW c \in Calls, NEW s \in Assignments, Calculate(c, s)
    PROVE  CommissionsInv'
<1>0. CommissionRowsTyped /\ tidy \in BOOLEAN
  BY DEF CommissionsInv, CommissionsTyped
<1>1. CASE MayCalculate(s) /\ Enter(c, "calculate", "write", s, None, None)
  <2>1. PICK p : p = [op |-> "calculate", at |-> "write", row |-> s, arg |-> None, seen |-> None]
    OBVIOUS
  <2>2. p \in CommissionsCall /\ CommissionRequest(p) /\ p.op \notin LedgerOps
    BY <2>1 DEF CommissionsCall, CommissionRows, CommissionRequest, StatusOps, LedgerOps
  <2>3. StatusRead(p)
    BY <1>1, <2>1 DEF StatusRead, MayCalculate
  <2> QED BY <1>1, <2>1, <2>2, <2>3, CommissionEnters
<1>2. ASSUME At(c, "calculate", "write", s, None), Leave(c), NEW k \in Calculations,
             In(k, {"ABSENT"}), db' = [db EXCEPT ![k] = NewCalculation(s, None)]
      PROVE  CommissionsInv'
  <2>1. /\ call[c].op = "calculate" /\ call[c].row = s /\ call[c] # Idle
        /\ call' = [call EXCEPT ![c] = Idle] /\ UNCHANGED tidy
    BY <1>2 DEF At, Leave, Idle
  <2>2. PICK v : v = NewCalculation(s, None)
    OBVIOUS
  <2>3. /\ v \in CalculationRow /\ v.status = "CALCULATED" /\ v.accrued = 0 /\ v.cleared = 0
        /\ v.assignment = s /\ v.supersedes = None
    BY <2>2, NewCalculationTyped
  <2>4. /\ CommissionRowsTyped' /\ db'[k] = v
        /\ \A x \in Agents \cup Assignments \cup Plans : db'[x] = db[x]
        /\ \A m \in Calculations : m # k => db'[m] = db[m]
    BY <1>0, <1>2, <2>2, <2>3, CalculationWritten
  <2>5. PlansShaped' /\ PlansStay /\ PaidWasAccrued' /\ CalculationsStay
    BY <1>2, <2>3, <2>4 DEF CommissionsInv, PlansShaped, PlansStay, PaidWasAccrued, CalculationsStay, In
  <2>6. ASSUME tidy'
        PROVE  /\ tidy /\ \A e \in Calls : e # c => call[e] = Idle
               /\ CommissionTurn(Idle)' /\ OneOfEach'
    <3>1. PICK q : q = call[c]
      OBVIOUS
    <3>2. tidy /\ CommissionTurn(q) /\ OneOfEach /\ \A e \in Calls : e # c => call[e] = Idle
      BY <2>1, <2>6, <3>1, CommissionAlone
    <3>3. ASSUME NEW m \in Calculations PROVE EnteredAsSaid(Idle, m)'
      <4>1. \A o \in LedgerOps : JustEntered(Idle, o, m)' = 0 /\ JustEntered(q, o, m) = 0
        BY <2>1, <3>1 DEF JustEntered, Idle, LedgerOps
      <4>2. EnteredAsSaid(q, m)
        BY <3>2 DEF CommissionTurn
      <4>3. CASE m = k
        BY <2>3, <2>4, <4>1, <4>3 DEF EnteredAsSaid, In, LedgerOps
      <4>4. CASE m # k
        BY <2>4, <4>1, <4>2, <4>4 DEF EnteredAsSaid, In, LedgerOps
      <4> QED BY <4>3, <4>4
    <3>4. ActiveOn(s) = {}
      BY <2>1, <3>1, <3>2 DEF CommissionTurn, StatusRead
    <3>5. \A m \in Calculations : ~(In(m, ActiveStatuses) /\ db[m].assignment = s)
      BY <3>4 DEF ActiveOn
    <3>6. ASSUME NEW m \in Calculations, NEW n \in Calculations,
                 In(m, ActiveStatuses)', In(n, ActiveStatuses)',
                 db'[m].assignment = db'[n].assignment,
                 db'[m].supersedes = None, db'[n].supersedes = None
          PROVE  m = n
      <4>1. CASE m = k
        BY <2>3, <2>4, <3>5, <3>6, <4>1 DEF In
      <4>2. CASE n = k
        BY <2>3, <2>4, <3>5, <3>6, <4>2 DEF In
      <4>3. CASE m # k /\ n # k
        BY <2>4, <3>2, <3>6, <4>3 DEF In, OneOfEach
      <4> QED BY <4>1, <4>2, <4>3
    <3>7. ASSUME NEW m \in Calculations, NEW n \in Calculations, db'[n].supersedes = m
          PROVE  In(m, {"REVERSED"})' /\ \A o \in Calculations : db'[o].supersedes = m => o = n
      <4>1. \A o \in Calculations : db'[o].supersedes = m => o # k /\ db[o].supersedes = m
        BY <2>3, <2>4, CommissionTables
      <4>2. In(m, {"REVERSED"}) /\ \A o \in Calculations : db[o].supersedes = m => o = n
        BY <3>2, <3>7, <4>1 DEF OneOfEach
      <4>3. m # k
        BY <1>2, <4>2 DEF In
      <4> QED BY <2>4, <4>1, <4>2, <4>3 DEF In
    <3>8. OneOfEach'
      <4>1. \A t \in Assignments : db'[t] = db[t]
        BY <2>4
      <4>2. \A t, u \in Assignments :
                (In(t, {"ACTIVE"}) /\ In(u, {"ACTIVE"}) /\ db[t].role = "PRIMARY" /\ db[u].role = "PRIMARY")'
                    => t = u
        BY <3>2, <4>1 DEF OneOfEach, In
      <4> QED BY <3>6, <3>7, <4>2 DEF OneOfEach
    <3> QED BY <3>2, <3>3, <3>8, EndedRelies DEF CommissionTurn
  <2> QED BY <1>0, <2>1, <2>4, <2>5, <2>6, EndedRelies, CommissionMoves
<1> QED BY <1>1, <1>2 DEF Calculate, Handler

LEMMA AdjustKeeps ==
    ASSUME CommissionsInv, NEW c \in Calls, NEW k \in Calculations, NEW s \in Assignments,
           Adjust(c, k, s)
    PROVE  CommissionsInv'
<1>0. CommissionRowsTyped /\ tidy \in BOOLEAN
  BY DEF CommissionsInv, CommissionsTyped
<1>1. CASE MayAdjust(k) /\ Enter(c, "adjust", "write", k, s, None)
  <2>1. PICK p : p = [op |-> "adjust", at |-> "write", row |-> k, arg |-> s, seen |-> None]
    OBVIOUS
  <2>2. In(k, ActiveStatuses) /\ ~In(k, {"ABSENT"})
    BY <1>1 DEF MayAdjust, In, ActiveStatuses
  <2>3. p \in CommissionsCall /\ CommissionRequest(p) /\ p.op \notin LedgerOps
    BY <2>1, <2>2 DEF CommissionsCall, CommissionRows, CommissionRequest, LedgerOps
  <2>4. StatusRead(p)
    BY <2>1, <2>2 DEF StatusRead
  <2> QED BY <1>1, <2>1, <2>3, <2>4, CommissionEnters
<1>2. ASSUME At(c, "adjust", "write", k, s), Leave(c), NEW new \in Calculations, In(new, {"ABSENT"}),
             db' = [db EXCEPT ![k].status = "REVERSED", ![new] = NewCalculation(s, k)]
      PROVE  CommissionsInv'
  <2>1. /\ call[c].op = "adjust" /\ call[c].row = k /\ call[c] # Idle
        /\ call' = [call EXCEPT ![c] = Idle] /\ UNCHANGED tidy
    BY <1>2 DEF At, Leave, Idle
  <2>2. ~In(k, {"ABSENT"}) /\ new # k
    BY <1>2, <2>1 DEF CommissionsInv, CommissionRequest, In
  <2>3. PICK v : v = NewCalculation(s, k)
    OBVIOUS
  <2>4. /\ v \in CalculationRow /\ v.status = "CALCULATED" /\ v.accrued = 0 /\ v.cleared = 0
        /\ v.assignment = s /\ v.supersedes = k
    BY <2>3, NewCalculationTyped
  <2>5. PICK w : w = [db[k] EXCEPT !.status = "REVERSED"]
    OBVIOUS
  <2>6. /\ w \in CalculationRow /\ w.status = "REVERSED" /\ w.accrued = db[k].accrued
        /\ w.cleared = db[k].cleared /\ w.supersedes = db[k].supersedes
    BY <1>0, <2>5 DEF CommissionRowsTyped, CalculationRow, CalculationStatus
  <2>7. /\ DOMAIN db' = CommissionRows /\ db'[k] = w /\ db'[new] = v
        /\ \A x \in CommissionRows : x # k /\ x # new => db'[x] = db[x]
    BY <1>0, <1>2, <2>2, <2>3, <2>5 DEF CommissionRowsTyped, CommissionRows
  <2>8. /\ \A x \in Agents \cup Assignments \cup Plans : x \in CommissionRows /\ x # k /\ x # new
        /\ \A m \in Calculations : m \in CommissionRows
    BY CommissionTables DEF CommissionRows
  <2>9. /\ \A x \in Agents \cup Assignments \cup Plans : db'[x] = db[x]
        /\ \A m \in Calculations : m # k /\ m # new => db'[m] = db[m]
    BY <2>7, <2>8
  <2>10. CommissionRowsTyped'
    BY <1>0, <2>4, <2>6, <2>7, <2>9 DEF CommissionRowsTyped
  <2>11. PlansShaped' /\ PlansStay
    BY <2>9 DEF CommissionsInv, PlansShaped, PlansStay, In
  <2>12. PaidWasAccrued' /\ CalculationsStay
    <3>1. /\ \A m \in Calculations : m = k \/ m = new \/ db'[m] = db[m]
          /\ db[new].status = "ABSENT" /\ PaidWasAccrued
      BY <1>2, <2>9 DEF CommissionsInv, In
    <3> QED BY <2>4, <2>6, <2>7, <3>1 DEF PaidWasAccrued, CalculationsStay, In
  <2>13. ASSUME tidy'
         PROVE  /\ tidy /\ \A e \in Calls : e # c => call[e] = Idle
                /\ CommissionTurn(Idle)' /\ OneOfEach'
    <3>1. PICK q : q = call[c]
      OBVIOUS
    <3>2. tidy /\ CommissionTurn(q) /\ OneOfEach /\ \A e \in Calls : e # c => call[e] = Idle
      BY <2>1, <2>13, <3>1, CommissionAlone
    <3>3. ASSUME NEW m \in Calculations PROVE EnteredAsSaid(Idle, m)'
      <4>1. \A o \in LedgerOps : JustEntered(Idle, o, m)' = 0 /\ JustEntered(q, o, m) = 0
        BY <2>1, <3>1 DEF JustEntered, Idle, LedgerOps
      <4>2. EnteredAsSaid(q, m)
        BY <3>2 DEF CommissionTurn
      <4>3. CASE m = new
        BY <2>4, <2>7, <4>1, <4>3 DEF EnteredAsSaid, In, LedgerOps
      <4>4. CASE m = k
        BY <2>6, <2>7, <4>2, <4>4 DEF EnteredAsSaid, In
      <4>5. CASE m # k /\ m # new
        BY <2>9, <4>1, <4>2, <4>5 DEF EnteredAsSaid, In, LedgerOps
      <4> QED BY <4>3, <4>4, <4>5
    <3>4. In(k, ActiveStatuses) /\ ~In(k, {"REVERSED"})
      BY <2>1, <3>1, <3>2 DEF CommissionTurn, StatusRead, In, ActiveStatuses
    <3>5. \A m \in Calculations : db[m].supersedes # k
      BY <3>2, <3>4 DEF OneOfEach
    <3>6. ASSUME NEW m \in Calculations, NEW n \in Calculations,
                 In(m, ActiveStatuses)', In(n, ActiveStatuses)',
                 db'[m].assignment = db'[n].assignment,
                 db'[m].supersedes = None, db'[n].supersedes = None
          PROVE  m = n
      <4>1. \A o \in {m, n} : o # k /\ o # new
        BY <2>4, <2>6, <2>7, <3>6, CommissionTables DEF In, ActiveStatuses
      <4> QED BY <2>9, <3>2, <3>6, <4>1 DEF In, OneOfEach
    <3>7. ASSUME NEW m \in Calculations, NEW n \in Calculations, db'[n].supersedes = m
          PROVE  In(m, {"REVERSED"})' /\ \A o \in Calculations : db'[o].supersedes = m => o = n
      <4>1. CASE m = k
        <5>1. \A o \in Calculations : o # new => db'[o].supersedes # k
          BY <2>6, <2>7, <2>9, <3>5
        <5> QED BY <2>6, <2>7, <3>7, <4>1, <5>1 DEF In
      <4>2. CASE m # k
        <5>1. \A o \in Calculations : db'[o].supersedes = m => db[o].supersedes = m
          BY <2>4, <2>6, <2>7, <2>9, <4>2
        <5>2. In(m, {"REVERSED"}) /\ \A o \in Calculations : db[o].supersedes = m => o = n
          BY <3>2, <3>7, <5>1 DEF OneOfEach
        <5>3. m # new
          BY <1>2, <5>2 DEF In
        <5> QED BY <2>9, <4>2, <5>1, <5>2, <5>3 DEF In
      <4> QED BY <4>1, <4>2
    <3>8. OneOfEach'
      <4>1. \A t \in Assignments : db'[t] = db[t]
        BY <2>9
      <4>2. \A t, u \in Assignments :
                (In(t, {"ACTIVE"}) /\ In(u, {"ACTIVE"}) /\ db[t].role = "PRIMARY" /\ db[u].role = "PRIMARY")'
                    => t = u
        BY <3>2, <4>1 DEF OneOfEach, In
      <4> QED BY <3>6, <3>7, <4>2 DEF OneOfEach
    <3> QED BY <3>2, <3>3, <3>8, EndedRelies DEF CommissionTurn
  <2> QED BY <1>0, <2>1, <2>10, <2>11, <2>12, <2>13, EndedRelies, CommissionMoves
<1> QED BY <1>1, <1>2 DEF Adjust, Handler

-----------------------------------------------------------------------------
(* Assignments *)

LEMMA AssignmentBecomes ==
    ASSUME CommissionsInv, NEW c \in Calls, NEW s \in Assignments, NEW v \in AssignmentRow,
           call[c] # Idle, call[c].op \in {"assign", "endAssignment"}, Leave(c),
           db' = [db EXCEPT ![s] = v],
           v.status = "ACTIVE" /\ v.role = "PRIMARY" /\ StatusRead(call[c]) =>
               \A t \in Assignments : ~(In(t, {"ACTIVE"}) /\ db[t].role = "PRIMARY")
    PROVE  CommissionsInv'
<1>0. CommissionRowsTyped /\ tidy \in BOOLEAN
  BY DEF CommissionsInv, CommissionsTyped
<1>1. call' = [call EXCEPT ![c] = Idle] /\ tidy' = tidy
  BY DEF Leave
<1>2. /\ CommissionRowsTyped' /\ db'[s] = v
      /\ \A x \in Agents \cup Plans \cup Calculations : db'[x] = db[x]
      /\ \A t \in Assignments : t # s => db'[t] = db[t]
  BY <1>0, AssignmentWritten
<1>3. /\ \A x \in Plans : db'[x] = db[x]
      /\ \A k \in Calculations : db'[k] = db[k]
  BY <1>2
<1>4. PlansShaped' /\ PlansStay /\ PaidWasAccrued' /\ CalculationsStay
  BY <1>3 DEF CommissionsInv, PlansShaped, PlansStay, PaidWasAccrued, CalculationsStay, In
<1>5. ASSUME tidy'
      PROVE  /\ tidy /\ \A e \in Calls : e # c => call[e] = Idle
             /\ CommissionTurn(Idle)' /\ OneOfEach'
  <2>1. PICK q : q = call[c]
    OBVIOUS
  <2>2. tidy /\ CommissionTurn(q) /\ OneOfEach /\ \A e \in Calls : e # c => call[e] = Idle
    BY <1>1, <1>5, <2>1, CommissionAlone
  <2>3. ASSUME NEW m \in Calculations PROVE EnteredAsSaid(Idle, m)'
    <3>1. \A o \in LedgerOps : JustEntered(Idle, o, m)' = 0 /\ JustEntered(q, o, m) = 0
      BY <2>1 DEF JustEntered, Idle, LedgerOps
    <3>2. EnteredAsSaid(q, m)
      BY <2>2 DEF CommissionTurn
    <3> QED BY <1>3, <3>1, <3>2 DEF EnteredAsSaid, In, LedgerOps
  <2>4. ASSUME NEW t \in Assignments, NEW u \in Assignments,
               In(t, {"ACTIVE"})', In(u, {"ACTIVE"})', db'[t].role = "PRIMARY", db'[u].role = "PRIMARY"
        PROVE  t = u
    <3>1. StatusRead(call[c])
      BY <2>1, <2>2 DEF CommissionTurn
    <3>2. CASE t # s /\ u # s
      BY <1>2, <2>2, <2>4, <3>2 DEF OneOfEach, In
    <3>3. CASE t = s /\ u # s
      BY <1>2, <2>4, <3>1, <3>3 DEF In
    <3>4. CASE u = s /\ t # s
      BY <1>2, <2>4, <3>1, <3>4 DEF In
    <3> QED BY <3>2, <3>3, <3>4
  <2>5. OneOfEach'
    <3>1. \A k, m \in Calculations :
              In(k, ActiveStatuses)' /\ In(m, ActiveStatuses)' /\ db'[k].assignment = db'[m].assignment
              /\ db'[k].supersedes = None /\ db'[m].supersedes = None
                  => k = m
      BY <1>3, <2>2 DEF OneOfEach, In
    <3>2. \A k, m \in Calculations :
              db'[m].supersedes = k =>
                  In(k, {"REVERSED"})' /\ \A n \in Calculations : db'[n].supersedes = k => n = m
      BY <1>3, <2>2 DEF OneOfEach, In
    <3> QED BY <2>4, <3>1, <3>2 DEF OneOfEach
  <2> QED BY <2>2, <2>3, <2>5, EndedRelies DEF CommissionTurn
<1> QED BY <1>0, <1>1, <1>2, <1>4, <1>5, EndedRelies, CommissionMoves

LEMMA AssignKeeps ==
    ASSUME CommissionsInv, NEW c \in Calls, NEW s \in Assignments, NEW role \in {"PRIMARY", "REFERRAL"},
           CreateAssignment(c, s, role)
    PROVE  CommissionsInv'
<1>1. CASE MayAssign(s, role) /\ Enter(c, "assign", "write", s, role, None)
  <2>1. PICK p : p = [op |-> "assign", at |-> "write", row |-> s, arg |-> role, seen |-> None]
    OBVIOUS
  <2>2. p \in CommissionsCall /\ CommissionRequest(p) /\ p.op \notin LedgerOps
    BY <2>1 DEF CommissionsCall, CommissionRows, CommissionRequest, StatusOps, LedgerOps
  <2>3. StatusRead(p)
    BY <1>1, <2>1 DEF StatusRead, MayAssign
  <2> QED BY <1>1, <2>1, <2>2, <2>3, CommissionEnters
<1>2. CASE /\ At(c, "assign", "write", s, role) /\ Leave(c)
           /\ db' = [db EXCEPT ![s] = [status |-> "ACTIVE", role |-> role]]
  <2>1. call[c].op = "assign" /\ call[c].arg = role /\ call[c] # Idle
    BY <1>2 DEF At, Idle
  <2>2. PICK v : v = [status |-> "ACTIVE", role |-> role]
    OBVIOUS
  <2>3. v \in AssignmentRow /\ v.role = role
    BY <2>2 DEF AssignmentRow
  <2>4. v.role = "PRIMARY" /\ StatusRead(call[c]) =>
            \A t \in Assignments : ~(In(t, {"ACTIVE"}) /\ db[t].role = "PRIMARY")
    BY <2>1, <2>3 DEF StatusRead
  <2> QED BY <1>2, <2>1, <2>2, <2>3, <2>4, AssignmentBecomes
<1> QED BY <1>1, <1>2 DEF CreateAssignment, Handler

LEMMA EndAssignmentKeeps ==
    ASSUME CommissionsInv, NEW c \in Calls, NEW s \in Assignments, EndAssignment(c, s)
    PROVE  CommissionsInv'
<1>0. CommissionRowsTyped /\ db[s] \in AssignmentRow /\ s \in CommissionRows
  BY DEF CommissionsInv, CommissionsTyped, CommissionRowsTyped, CommissionRows
<1>1. CASE Enter(c, "endAssignment", "write", s, None, None)
  <2>1. PICK p : p = [op |-> "endAssignment", at |-> "write", row |-> s, arg |-> None, seen |-> None]
    OBVIOUS
  <2>2. p \in CommissionsCall /\ CommissionRequest(p) /\ p.op \notin LedgerOps /\ StatusRead(p)
    BY <2>1 DEF CommissionsCall, CommissionRows, CommissionRequest, StatusOps, LedgerOps, StatusRead
  <2> QED BY <1>1, <2>1, <2>2, CommissionEnters
<1>2. CASE At(c, "endAssignment", "write", s, None) /\ Leave(c) /\ Becomes(s, "ENDED")
  <2>1. call[c].op = "endAssignment" /\ call[c] # Idle
    BY <1>2 DEF At, Idle
  <2>2. PICK v : v = [db[s] EXCEPT !.status = "ENDED"]
    OBVIOUS
  <2>3. v \in AssignmentRow /\ v.status = "ENDED" /\ db' = [db EXCEPT ![s] = v]
    BY <1>0, <1>2, <2>2 DEF AssignmentRow, Becomes, CommissionRowsTyped
  <2> QED BY <1>2, <2>1, <2>3, AssignmentBecomes
<1> QED BY <1>1, <1>2 DEF EndAssignment, Handler

-----------------------------------------------------------------------------
(* Agents and plans *)

LEMMA AgentHandler ==
    ASSUME CommissionsInv, NEW c \in Calls, NEW a \in Agents, NEW op \in AgentOps, NEW check,
           NEW to \in {"ACTIVE", "SUSPENDED", "TERMINATED"},
           Handler(c, op, a, None, check, Becomes(a, to))
    PROVE  CommissionsInv'
<1>0. CommissionRowsTyped /\ tidy \in BOOLEAN /\ db[a] \in AgentRow /\ a \in CommissionRows
  BY DEF CommissionsInv, CommissionsTyped, CommissionRowsTyped, CommissionRows
<1>1. CASE Enter(c, op, "write", a, None, None)
  <2>1. PICK p : p = [op |-> op, at |-> "write", row |-> a, arg |-> None, seen |-> None]
    OBVIOUS
  <2>2. p \in CommissionsCall /\ p.op \in AgentOps
    BY <1>0, <2>1 DEF CommissionsCall
  <2>3. CommissionRequest(p) /\ p.op \notin LedgerOps /\ StatusRead(p)
    BY <2>2 DEF CommissionRequest, AgentOps, StatusOps, LedgerOps, StatusRead
  <2> QED BY <1>1, <2>1, <2>2, <2>3, CommissionEnters
<1>2. CASE At(c, op, "write", a, None) /\ Becomes(a, to) /\ Leave(c)
  <2>1. call[c].op \notin LedgerOps /\ call[c] # Idle
    BY <1>2 DEF At, Idle, AgentOps, LedgerOps
  <2>2. PICK v : v = [db[a] EXCEPT !.status = to]
    OBVIOUS
  <2>3. v \in AgentRow /\ db' = [db EXCEPT ![a] = v]
    BY <1>0, <1>2, <2>2 DEF AgentRow, Becomes, CommissionRowsTyped
  <2>4. CommissionRowsTyped' /\ \A x \in Assignments \cup Plans \cup Calculations : db'[x] = db[x]
    BY <1>0, <2>3, AgentWritten
  <2>5. PlansShaped' /\ PlansStay
    BY <2>4 DEF CommissionsInv, PlansShaped, PlansStay, In
  <2>6. call' = [call EXCEPT ![c] = Idle] /\ tidy' = tidy
    BY <1>2 DEF Leave
  <2> QED BY <1>0, <2>1, <2>4, <2>5, <2>6, CommissionEnds
<1> QED BY <1>1, <1>2 DEF Handler

LEMMA DeactivateKeeps ==
    ASSUME CommissionsInv, NEW c \in Calls, NEW p \in Plans, DeactivatePlan(c, p)
    PROVE  CommissionsInv'
<1>0. CommissionRowsTyped /\ tidy \in BOOLEAN /\ db[p] \in PlanRow /\ p \in CommissionRows
  BY DEF CommissionsInv, CommissionsTyped, CommissionRowsTyped, CommissionRows
<1>1. CASE In(p, {"ACTIVE"}) /\ Enter(c, "deactivate", "write", p, None, None)
  <2>1. PICK q : q = [op |-> "deactivate", at |-> "write", row |-> p, arg |-> None, seen |-> None]
    OBVIOUS
  <2>2. q \in CommissionsCall /\ CommissionRequest(q) /\ q.op \notin LedgerOps /\ StatusRead(q)
    BY <1>0, <1>1, <2>1 DEF CommissionsCall, CommissionRequest, StatusOps, LedgerOps, StatusRead, In
  <2> QED BY <1>1, <2>1, <2>2, CommissionEnters
<1>2. CASE At(c, "deactivate", "write", p, None) /\ Becomes(p, "INACTIVE") /\ Leave(c)
  <2>1. call[c].op \notin LedgerOps /\ call[c] # Idle /\ call[c].op = "deactivate" /\ call[c].row = p
    BY <1>2 DEF At, Idle, LedgerOps
  <2>2. PICK v : v = [db[p] EXCEPT !.status = "INACTIVE"]
    OBVIOUS
  <2>3. v \in PlanRow /\ v.terms = db[p].terms /\ v.status = "INACTIVE" /\ db' = [db EXCEPT ![p] = v]
    BY <1>0, <1>2, <2>2 DEF PlanRow, Becomes, CommissionRowsTyped
  <2>4. /\ CommissionRowsTyped' /\ db'[p] = v
        /\ \A x \in Agents \cup Assignments \cup Calculations : db'[x] = db[x]
        /\ \A t \in Plans : t # p => db'[t] = db[t]
    BY <1>0, <2>3, PlanWritten
  <2>5. db[p].status # "ABSENT"
    BY <2>1 DEF CommissionsInv, CommissionRequest, In
  <2>6. PlansShaped' /\ PlansStay
    BY <2>3, <2>4, <2>5 DEF CommissionsInv, PlansShaped, PlansStay, In
  <2>7. call' = [call EXCEPT ![c] = Idle] /\ tidy' = tidy
    BY <1>2 DEF Leave
  <2> QED BY <1>0, <2>1, <2>4, <2>6, <2>7, CommissionEnds
<1> QED BY <1>1, <1>2 DEF DeactivatePlan, Handler

LEMMA TermsAreSet ==
    ASSUME CommissionsInv, NEW p \in Plans, NEW terms \in Terms, ValidateRateShape(terms.bands),
           NEW v \in PlanRow, v.terms = terms, v.status # "ABSENT", db' = [db EXCEPT ![p] = v],
           UNCHANGED call, tidy' = (tidy /\ Alone)
    PROVE  CommissionsInv'
<1>1. CommissionRowsTyped
  BY DEF CommissionsInv, CommissionsTyped
<1>2. /\ CommissionRowsTyped' /\ db'[p] = v
      /\ \A x \in Agents \cup Assignments \cup Calculations : db'[x] = db[x]
      /\ \A t \in Plans : t # p => db'[t] = db[t]
  BY <1>1, PlanWritten
<1>3. PlansShaped' /\ PlansStay
  BY <1>2 DEF CommissionsInv, PlansShaped, PlansStay, In
<1> QED BY <1>2, <1>3, CommissionStatement

-----------------------------------------------------------------------------
(* Commissions *)

LEMMA CommissionsStart == CommissionsInit => CommissionsInv
<1> SUFFICES ASSUME CommissionsInit PROVE CommissionsInv
  OBVIOUS
<1>1. /\ \A a \in Agents : db[a] = NoAgent
      /\ \A s \in Assignments : db[s] = NoAssignment
      /\ \A p \in Plans : db[p] = NoPlan
      /\ \A k \in Calculations : db[k] = NoCalculation
      /\ \A c \in Calls : call[c] = Idle
      /\ DOMAIN db = CommissionRows
  BY CommissionTables DEF CommissionsInit, CallsStart, CommissionRows
<1>2. /\ NoAgent \in AgentRow /\ NoAssignment \in AssignmentRow /\ NoPlan \in PlanRow
      /\ NoCalculation \in CalculationRow
  BY DEF NoAgent, NoAssignment, NoPlan, NoCalculation, AgentRow, AssignmentRow, PlanRow,
         CalculationRow, CalculationStatus
<1>3. CommissionRowsTyped
  BY <1>1, <1>2 DEF CommissionRowsTyped
<1>4. CommissionsTyped
  BY <1>3, EndedRelies DEF CommissionsTyped, CommissionsInit, CallsStart
<1>5. PlansShaped /\ PaidWasAccrued
  BY <1>1 DEF PlansShaped, PaidWasAccrued, In, NoPlan, NoCalculation
<1>6. CommissionRequest(Idle) /\ StatusRead(Idle)
  BY DEF Idle, CommissionRequest, StatusRead, StatusOps, LedgerOps
<1>7. \A k \in Calculations : EnteredAsSaid(Idle, k)
  BY <1>1, EndedRelies DEF EnteredAsSaid, In, NoCalculation, LedgerOps
<1>8. OneOfEach
  BY <1>1, CommissionTables DEF OneOfEach, In, NoCalculation, NoAssignment, ActiveStatuses
<1> QED BY <1>1, <1>4, <1>5, <1>6, <1>7, <1>8 DEF CommissionsInv, CommissionTurns, CommissionTurn

LEMMA AgentsKeep == CommissionsInv /\ AgentsNext => CommissionsInv'
<1> SUFFICES ASSUME CommissionsInv, AgentsNext PROVE CommissionsInv'
  OBVIOUS
<1>1. ASSUME NEW a \in Agents, CreateAgent(a) PROVE CommissionsInv'
  <2>0. CommissionRowsTyped /\ db[a] \in AgentRow /\ a \in CommissionRows
    BY DEF CommissionsInv, CommissionsTyped, CommissionRowsTyped, CommissionRows
  <2>1. PICK v : v = [db[a] EXCEPT !.status = "PENDING_APPROVAL"]
    OBVIOUS
  <2>2. v \in AgentRow /\ db' = [db EXCEPT ![a] = v] /\ UNCHANGED call /\ tidy' = (tidy /\ Alone)
    BY <1>1, <2>0, <2>1 DEF CreateAgent, Statement, Becomes, AgentRow, CommissionRowsTyped
  <2>3. CommissionRowsTyped' /\ \A x \in Assignments \cup Plans \cup Calculations : db'[x] = db[x]
    BY <2>0, <2>2, AgentWritten
  <2>4. PlansShaped' /\ PlansStay
    BY <2>3 DEF CommissionsInv, PlansShaped, PlansStay, In
  <2> QED BY <2>2, <2>3, <2>4, CommissionStatement
<1>2. ASSUME NEW a \in Agents, NEW c \in Calls,
             \/ ApproveAgent(c, a) \/ SuspendAgent(c, a) \/ ReactivateAgent(c, a) \/ TerminateAgent(c, a)
      PROVE  CommissionsInv'
  <2>1. CASE ApproveAgent(c, a)
    BY <2>1, AgentHandler DEF ApproveAgent, AgentOps
  <2>2. CASE SuspendAgent(c, a)
    BY <2>2, AgentHandler DEF SuspendAgent, AgentOps
  <2>3. CASE ReactivateAgent(c, a)
    BY <2>3, AgentHandler DEF ReactivateAgent, AgentOps
  <2>4. CASE TerminateAgent(c, a)
    BY <2>4, AgentHandler DEF TerminateAgent, AgentOps
  <2> QED BY <1>2, <2>1, <2>2, <2>3, <2>4
<1> QED BY <1>1, <1>2, AssignKeeps, EndAssignmentKeeps DEF AgentsNext

LEMMA PlansKeep == CommissionsInv /\ PlansNext => CommissionsInv'
<1> SUFFICES ASSUME CommissionsInv, NEW p \in Plans,
                    \/ \E terms \in Terms : CreatePlan(p, terms) \/ UpdatePlan(p, terms)
                    \/ \E c \in Calls : DeactivatePlan(c, p)
             PROVE  CommissionsInv'
  BY DEF PlansNext
<1>0. CommissionRowsTyped /\ db[p] \in PlanRow /\ p \in CommissionRows
  BY DEF CommissionsInv, CommissionsTyped, CommissionRowsTyped, CommissionRows
<1>1. ASSUME NEW terms \in Terms, CreatePlan(p, terms) PROVE CommissionsInv'
  <2>1. PICK v : v = [status |-> "ACTIVE", terms |-> terms]
    OBVIOUS
  <2>2. /\ v \in PlanRow /\ v.terms = terms /\ v.status # "ABSENT" /\ ValidateRateShape(terms.bands)
        /\ db' = [db EXCEPT ![p] = v] /\ UNCHANGED call /\ tidy' = (tidy /\ Alone)
    BY <1>1, <2>1 DEF CreatePlan, SetTerms, Statement, PlanRow
  <2> QED BY <2>2, TermsAreSet
<1>2. ASSUME NEW terms \in Terms, UpdatePlan(p, terms) PROVE CommissionsInv'
  <2>1. PICK v : v = [db[p] EXCEPT !.terms = terms]
    OBVIOUS
  <2>2. v \in PlanRow /\ v.terms = terms /\ v.status # "ABSENT"
    BY <1>0, <1>2, <2>1 DEF PlanRow, UpdatePlan, Statement, In
  <2>3. /\ ValidateRateShape(terms.bands)
        /\ db' = [db EXCEPT ![p] = v] /\ UNCHANGED call /\ tidy' = (tidy /\ Alone)
    BY <1>0, <1>2, <2>1 DEF UpdatePlan, Statement, CommissionRowsTyped
  <2> QED BY <2>2, <2>3, TermsAreSet
<1> QED BY <1>1, <1>2, DeactivateKeeps

LEMMA CalculationsKeep == CommissionsInv /\ CalculationsNext => CommissionsInv'
<1> SUFFICES ASSUME CommissionsInv, NEW c \in Calls,
                    \/ \E s \in Assignments : Calculate(c, s)
                    \/ \E k \in Calculations :
                          \/ Submit(c, k) \/ Approve(c, k) \/ Reject(c, k) \/ Cancel(c, k)
                          \/ Reverse(c, k) \/ MarkPayable(c, k) \/ MarkPaid(c, k)
                          \/ \E s \in Assignments : Adjust(c, k, s)
             PROVE  CommissionsInv'
  BY DEF CalculationsNext
<1>1. ASSUME NEW k \in Calculations,
             Submit(c, k) \/ Approve(c, k) \/ Reject(c, k) \/ Cancel(c, k) \/ Reverse(c, k)
      PROVE  CommissionsInv'
  <2>1. \E op \in StatusOps : Handler(c, op, k, None, In(k, LeavesFrom(op)), Becomes(k, Goes(op)))
    BY <1>1 DEF Submit, Approve, Reject, Cancel, Reverse, StatusOps, LeavesFrom, Goes
  <2> QED BY <2>1, StatusHandler
<1>2. ASSUME NEW k \in Calculations, MarkPayable(c, k) PROVE CommissionsInv'
  <2>1. CASE MayMarkPayable(k) /\ Enter(c, "payable", "post", k, None, None)
    BY <2>1, LedgerEnters DEF MayMarkPayable, LedgerOps
  <2>2. CASE /\ At(c, "payable", "post", k, None)
             /\ db' = [db EXCEPT ![k].accrued = @ + 1] /\ Goto(c, "write")
    BY <2>2, LedgerPosts DEF LedgerOps
  <2>3. CASE At(c, "payable", "write", k, None) /\ Becomes(k, "PAYABLE") /\ Leave(c)
    BY <2>3, LedgerWrites DEF LedgerOps
  <2> QED BY <1>2, <2>1, <2>2, <2>3 DEF MarkPayable
<1>3. ASSUME NEW k \in Calculations, MarkPaid(c, k) PROVE CommissionsInv'
  <2>1. CASE MayMarkPaid(k) /\ Enter(c, "paid", "post", k, None, None)
    BY <2>1, LedgerEnters DEF MayMarkPaid, LedgerOps
  <2>2. CASE /\ At(c, "paid", "post", k, None)
             /\ db' = [db EXCEPT ![k].cleared = @ + 1] /\ Goto(c, "write")
    BY <2>2, LedgerPosts DEF LedgerOps
  <2>3. CASE At(c, "paid", "write", k, None) /\ Becomes(k, "PAID") /\ Leave(c)
    BY <2>3, LedgerWrites DEF LedgerOps
  <2> QED BY <1>3, <2>1, <2>2, <2>3 DEF MarkPaid
<1> QED BY <1>1, <1>2, <1>3, CalculateKeeps, AdjustKeeps

LEMMA CommissionsStepKeeps == CommissionsInv /\ [CommissionsStep]_docVars => CommissionsInv'
<1> SUFFICES ASSUME CommissionsInv, [CommissionsStep]_docVars PROVE CommissionsInv'
  OBVIOUS
<1>1. ASSUME NEW c \in Calls, CutOff(c) PROVE CommissionsInv'
  <2>1. /\ call[c] # Idle /\ call' = [call EXCEPT ![c] = Idle] /\ tidy' = FALSE /\ db' = db
    BY <1>1 DEF CutOff
  <2>2. CommissionRowsTyped' /\ PlansShaped' /\ PlansStay
    BY <2>1 DEF CommissionsInv, CommissionsTyped, CommissionRowsTyped, PlansShaped, PlansStay, In
  <2> QED BY <2>1, <2>2, CommissionEnds
<1>2. CASE UNCHANGED docVars
  <2>1. UNCHANGED <<db, call, tidy>>
    BY <1>2 DEF docVars
  <2>2. CommissionsTyped' /\ PlansShaped' /\ PaidWasAccrued'
    BY <2>1 DEF CommissionsInv, CommissionsTyped, CommissionRowsTyped, PlansShaped, PaidWasAccrued, In
  <2>3. \A q : /\ CommissionRequest(q)' <=> CommissionRequest(q)
               /\ CommissionTurn(q)' <=> CommissionTurn(q)
    BY <2>1 DEF CommissionRequest, CommissionTurn, StatusRead, EnteredAsSaid, JustEntered, In, ActiveOn
  <2>4. OneOfEach' <=> OneOfEach
    BY <2>1 DEF OneOfEach, In
  <2>5. \A c \in Calls : CommissionRequest(call[c])'
    <3> SUFFICES ASSUME NEW c \in Calls PROVE CommissionRequest(call[c])'
      OBVIOUS
    <3>1. PICK q : q = call[c]
      OBVIOUS
    <3>2. CommissionRequest(q)' /\ call'[c] = q
      BY <2>1, <2>3, <3>1 DEF CommissionsInv
    <3> QED BY <3>2 DEF CommissionRequest
  <2>6. ASSUME tidy' PROVE CommissionTurns'
    <3>1. CommissionTurns
      BY <2>1, <2>6 DEF CommissionsInv
    <3>2. ASSUME NEW c \in Calls, call'[c] # Idle PROVE CommissionTurn(call[c])'
      <4>1. PICK q : q = call[c]
        OBVIOUS
      <4>2. CommissionTurn(q)' /\ call'[c] = q
        BY <2>1, <2>3, <3>1, <3>2, <4>1 DEF CommissionTurns
      <4> QED BY <4>2 DEF CommissionTurn, StatusRead, EnteredAsSaid, JustEntered
    <3>3. Alone' => CommissionTurn(Idle)'
      BY <2>1, <2>3, <3>1 DEF CommissionTurns, Alone
    <3> QED BY <2>1, <2>4, <3>1, <3>2, <3>3 DEF CommissionTurns
  <2> QED BY <2>2, <2>5, <2>6 DEF CommissionsInv
<1> QED BY <1>1, <1>2, AgentsKeep, PlansKeep, CalculationsKeep DEF CommissionsStep

\* A set whose members are all the same has one of them at most.
LEMMA AtMostOne ==
    ASSUME NEW S, \A x, y \in S : x = y
    PROVE  Cardinality(S) <= 1
<1>1. CASE S = {}
  BY <1>1, FS_EmptySet
<1>2. CASE S # {}
  <2>1. PICK x : S = {x}
    BY <1>2
  <2> QED BY <2>1, FS_Singleton
<1> QED BY <1>1, <1>2

LEMMA CommissionsInvSuffices == CommissionsInv => CommissionsSound
<1> SUFFICES ASSUME CommissionsInv PROVE CommissionsSound
  OBVIOUS
<1>1. CommissionsTypeOK
  BY DEF CommissionsInv, CommissionsTyped, CommissionRowsTyped, CommissionsTypeOK, AgentRow,
         AssignmentRow, CalculationRow, CalculationStatus
<1>2. PlansAreProgressive /\ PaidWasAccrued
  BY ShapedPlansAreProgressive DEF CommissionsInv
<1>3. ASSUME tidy, Alone PROVE (\A k \in Calculations : EnteredAsSaid(Idle, k)) /\ OneOfEach
  BY <1>3 DEF CommissionsInv, CommissionTurns, CommissionTurn
<1>4. CommissionOnce
  BY <1>3, EndedRelies DEF CommissionOnce, EnteredAsSaid, In, LedgerOps
<1>5. OneActive
  <2> SUFFICES ASSUME tidy, Alone, NEW s \in Assignments
               PROVE  Cardinality({k \in ActiveOn(s) : db[k].supersedes = None}) <= 1
    BY DEF OneActive
  <2>1. \A k, m \in {k \in ActiveOn(s) : db[k].supersedes = None} : k = m
    BY <1>3 DEF OneOfEach, ActiveOn
  <2> QED BY <2>1, AtMostOne
<1>6. OneSuccessor
  BY <1>3 DEF OneSuccessor, OneOfEach
<1>7. OnePrimary
  <2> SUFFICES ASSUME tidy, Alone
               PROVE  Cardinality({s \in Assignments : In(s, {"ACTIVE"}) /\ db[s].role = "PRIMARY"}) <= 1
    BY DEF OnePrimary
  <2>1. \A s, t \in {s \in Assignments : In(s, {"ACTIVE"}) /\ db[s].role = "PRIMARY"} : s = t
    BY <1>3 DEF OneOfEach
  <2> QED BY <2>1, AtMostOne
<1> QED BY <1>1, <1>2, <1>4, <1>5, <1>6, <1>7 DEF CommissionsSound

\* For any agents, plans, calculations and requests: a plan in force pays every
\* part of a basis by the one band that it falls in (applyPlan walks the bands
\* that validateRateShape let through), and a commission is paid only after it
\* was accrued, however requests overlap and wherever they are cut off.  While
\* requests take turns a commission is accrued and paid once, an assignment has
\* one calculation in force, an adjusted one has one successor and a sale has
\* one primary agent.
THEOREM CommissionsAreAlwaysSound == CommissionsSpec => []CommissionsSound
BY CommissionsStart, CommissionsStepKeeps, CommissionsInvSuffices, PTL DEF CommissionsSpec
==============================================================================
