-------------------------------- MODULE Leads --------------------------------
(***************************************************************************)
(* From a lead to a prospect to the reservation of a unit.  Assignments,   *)
(* activities other than the first contact and the notifications are left  *)
(* out.  At the end the notifications of Messages join: what is promised   *)
(* to those whom the company wants to reach, in one specification.         *)
(***************************************************************************)
EXTENDS UnitSales, Messages

CONSTANTS
    LeadRows,
    MostCustomers   \* bound: customers created for a prospect

\* The prospect of a lead has a unique key on the lead, and is part of its row:
\* stage is "none" before the lead is converted.  customers: rows created for the
\* prospect; linked: it names one; reservation: the one it was given.
NoLead == [status |-> "ABSENT", stage |-> "none", customers |-> 0, linked |-> FALSE,
           reservation |-> None, won |-> FALSE]

OpenStages == {"ACTIVE", "SITE_VISIT_SCHEDULED", "SITE_VISIT_DONE", "NEGOTIATING", "RESERVED"}

LeadsTypeOK ==
    \A d \in LeadRows :
        /\ db[d].status \in {"ABSENT", "NEW", "CONTACTED", "QUALIFIED", "DISQUALIFIED", "CONVERTED"}
        /\ db[d].stage \in OpenStages \cup {"none", "WON", "LOST"}
        /\ db[d].customers \in 0..MostCustomers
        /\ db[d].reservation \in Reservations \cup {None}

CreateLead(d) == Statement(In(d, {"ABSENT"}), Becomes(d, "NEW"))

Unconverted == {"NEW", "CONTACTED", "QUALIFIED", "DISQUALIFIED"}

MayQualify(d) == In(d, Unconverted \ {"DISQUALIFIED"})

QualifyLead(c, d) == Handler(c, "qualify", d, None, MayQualify(d), Becomes(d, "QUALIFIED"))

DisqualifyLead(c, d) ==
    Handler(c, "disqualify", d, None, In(d, Unconverted), Becomes(d, "DISQUALIFIED"))

\* The first contact, from the lead as it was read.
LogLeadActivity(c, d) == Handler(c, "contact", d, None, In(d, {"NEW"}), Becomes(d, "CONTACTED"))

\* The unique key on the lead refuses a second prospect, and the lead with it.
ConvertLeadToProspect(c, d) ==
    Handler(c, "convertLead", d, None,
        In(d, Unconverted \ {"DISQUALIFIED"}) /\ db[d].stage = "none",
        IF db[d].stage # "none" THEN UNCHANGED db
        ELSE db' = [db EXCEPT ![d].status = "CONVERTED", ![d].stage = "ACTIVE"])

ProspectOpen(d) == db[d].stage \in OpenStages

\* scheduleSiteVisit, recordSiteVisitDone, startNegotiation and markProspectLost.
MoveProspect(c, d, stage) ==
    Handler(c, "move", d, stage, ProspectOpen(d), db' = [db EXCEPT ![d].stage = stage])

\* Mutated form of MayWin: any open prospect.
MayWinOpen(d) == ProspectOpen(d)

MayWin(d) == db[d].stage = "RESERVED"

MarkProspectWon(c, d) ==
    Handler(c, "win", d, None, MayWin(d), db' = [db EXCEPT ![d].stage = "WON", ![d].won = TRUE])

\* Three commits: the customer, where there is none (a code that is taken is
\* refused), the reservation with its own check, and the prospect.
ReserveUnitForProspect(c, d, r) ==
    LET here(at) == At(c, "reserveFor", at, d, r)
    IN  \/ /\ ProspectOpen(d)
           /\ Enter(c, "reserveFor", IF db[d].linked THEN "check" ELSE "customer", d, r, None)
        \/ /\ here("customer") /\ db[d].customers < MostCustomers
           /\ db' = [db EXCEPT ![d].customers = @ + 1]
           /\ Goto(c, "check")
        \/ /\ here("check") /\ UNCHANGED db
           /\ IF MayReserve(r) THEN Goto(c, "reserve") ELSE Leave(c)
        \/ here("reserve") /\ MakeReservation(r) /\ Goto(c, "prospect")
        \/ /\ here("prospect")
           /\ db' = [db EXCEPT ![d].stage = "RESERVED", ![d].linked = TRUE, ![d].reservation = r]
           /\ Leave(c)

LeadsNext ==
    \E d \in LeadRows :
        \/ CreateLead(d)
        \/ \E c \in Calls :
              \/ QualifyLead(c, d) \/ DisqualifyLead(c, d) \/ LogLeadActivity(c, d)
              \/ ConvertLeadToProspect(c, d) \/ MarkProspectWon(c, d)
              \/ \E stage \in (OpenStages \ {"ACTIVE", "RESERVED"}) \cup {"LOST"} :
                    MoveProspect(c, d, stage)
              \/ \E r \in Reservations : ReserveUnitForProspect(c, d, r)

-----------------------------------------------------------------------------
\* A lead that is converted has its prospect, and as long as requests take turns
\* one with a prospect is converted, and a prospect that was won stays won.
LeadsBecomeProspects ==
    \A d \in LeadRows :
        /\ In(d, {"CONVERTED"}) => db[d].stage # "none"
        /\ tidy /\ db[d].stage # "none" => In(d, {"CONVERTED"})
        /\ tidy /\ db[d].won => db[d].stage = "WON"

\* No prospect is reserved or won without a customer and the reservation of a
\* unit that was made for it.
WonWasReserved ==
    \A d \in LeadRows :
        db[d].stage \in {"RESERVED", "WON"} =>
            /\ db[d].linked /\ db[d].customers > 0
            /\ db[d].reservation # None /\ ~In(db[d].reservation, {"ABSENT"})

\* Leads end where they should: LeadsBecomeProspects, WonWasReserved.
LeadsSound == LeadsTypeOK /\ LeadsBecomeProspects /\ WonWasReserved

-----------------------------------------------------------------------------
(* Outreach: the requests on leads and on notifications, interleaved in    *)
(* any way.  They share no rows.                                           *)

ASSUME OutreachAssumption ==
    /\ MostCustomers \in Nat /\ None \notin Reservations
    /\ LeadRows \cap (Reservations \cup Units \cup Notices) = {}
    /\ Notices \cap (Reservations \cup Units) = {}

OutreachRows == LeadRows \cup Reservations \cup Units \cup Notices

OutreachInit ==
    /\ db = [x \in OutreachRows |->
                IF x \in LeadRows THEN NoLead ELSE IF x \in Reservations THEN NoReservation
                ELSE IF x \in Units THEN NoUnitSold ELSE NoNotice]
    /\ CallsStart
OutreachNext == LeadsNext \/ MessagesNext \/ \E c \in Calls : CutOff(c)
OutreachSpec == OutreachInit /\ [][OutreachNext]_docVars

\* What the component on leads promises, and what users are told.
OutreachSound == LeadsSound /\ MessagesSound
=============================================================================
