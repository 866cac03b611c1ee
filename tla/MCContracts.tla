----------------------------- MODULE MCContracts -----------------------------
(***************************************************************************)
(* Instances for TLC of the modules on customers, property and people.  A  *)
(* behaviour is one of the scenes below, so that requests which share no   *)
(* row do not multiply.                                                    *)
(***************************************************************************)
EXTENDS Handover, CustomerPayments, Commissions, Leads, Property, Recruitment, Payroll,
        Safety, Workforce, Messages, TLC

CONSTANTS i1, i2, y1, y2, x1, x2, s1, s2, s3, h1, h2, l1,
          a1, a2, t1, t2, p1, f1, n1, n2, n3, g1, g2, e1, v1, v2, k1, k2, k3,
          b1, b2, b3, b4, b5, o2, z1, z2, u1, q2, q3,
          f2, r2, r3, c3, c4, i3, d2, d3, p2, p3, r4, r5, y3,
          n4, n5, n6, n7

VARIABLE scene

allVars == <<docVars, scene>>

Sym == Permutations(Calls)
TwoEach == [i \in Bills |-> 2]
ForFirst == [y \in Settlements |-> i1]
Halves == y1 :> 1 @@ y2 :> 2
AllFirstUnit == [v \in Reservations |-> x1]
FirstTwoSales == h1 :> s1 @@ h2 :> s2
FirstRecord == [n \in Snags |-> h1]
TwoDue == [l \in Installments |-> 2]
OneEach == t1 :> a1 @@ t2 :> a2

OneFlat == [n \in Tenants |-> f1]
Hers == [l \in Leases |-> n2]
OneEstate == [m \in MasterPlans |-> e1]

ForB1 == [v \in Vacancies |-> b1]
ForB2 == [a \in Applications |-> b2]
ForB3 == [m \in Interviews |-> b3]
EachCopy == b4 :> "calendar" @@ b5 :> "teams"
OfferToB3 == [x \in JobOffers |-> b3]
PayOf == z1 :> 2 @@ z2 :> 3
YearlyEarnings == {400 * n : n \in 0..30}
OneBalance == [q \in Requests |-> u1]
DaysAsked == q2 :> {d2, d3} @@ q3 :> {d3}
AllOfI3 == [a \in Corrections |-> i3]
Channels == n4 :> "WHATSAPP" @@ n5 :> "EMAIL" @@ n6 :> "IN_APP" @@ n7 :> "SMS"
OnDays == p2 :> d2 @@ p3 :> d3
OneCycle == [r \in Reviews |-> y3]
AllOfF2 == [r \in Repairs |-> f2]

Band(min, max, pays) == [min |-> min, max |-> max, pays |-> pays]
TermsAsked ==
    [type : {"PERCENTAGE", "FIXED_AMOUNT"},
     bands : {<<>>, <<Band(0, None, 1)>>, <<Band(1, None, 1)>>,
              <<Band(0, 1, 1), Band(1, None, 2)>>, <<Band(0, 1, 1), Band(1, 2, 3)>>,
              <<Band(0, 2, 1), Band(1, None, 2)>>, <<Band(0, None, 1), Band(1, None, 2)>>}]

NewRow(x) ==
    CASE x \in Bills -> NoBill
      [] x \in Settlements -> NoSettlement
      [] x \in Units -> NoUnitSold
      [] x \in Reservations -> NoReservation
      [] x \in Sales -> NoSale
      [] x \in Handovers -> NoHandover
      [] x \in Snags -> NoSnag
      [] x \in Installments -> NoInstallment
      [] x \in Mortgages -> NoMortgage
      [] x \in Agents -> NoAgent
      [] x \in Assignments -> NoAssignment
      [] x \in Plans -> NoPlan
      [] x \in Calculations -> NoCalculation
      [] x \in LeadRows -> NoLead
      [] x \in Tenants -> NoTenant
      [] x \in Leases -> NoLease
      [] x \in Plots -> NoPlot
      [] x \in MasterPlans -> NoMasterPlan
      [] x \in JobOffers -> NoOffer
      [] x \in Openings -> NoOpening
      [] x \in Vacancies -> NoVacancy
      [] x \in Applications -> NoApplication
      [] x \in Interviews -> NoInterview
      [] x \in Candidates -> NoCandidate
      [] x \in Payrolls -> NoPayroll
      [] x \in Staff -> NoStaff
      [] x \in Balances -> NoBalance
      [] x \in Requests -> NoRequest
      [] x \in Exits -> NoExit
      [] x \in Facilities -> NoFacility
      [] x \in Repairs -> NoRepair
      [] x \in Incidents -> NoIncident
      [] x \in Corrections -> NoCorrection
      [] x \in Checklists -> NoChecklist
      [] x \in WorkDays -> NoDay
      [] x \in Punches -> NoPunch
      [] x \in Cycles -> NoCycle
      [] x \in Reviews -> NoReview
      [] x \in Notices -> NoNotice

Rows == Bills \cup Settlements \cup Units \cup Reservations \cup Sales \cup Handovers
        \cup Snags \cup Installments \cup Mortgages \cup Agents \cup Assignments
        \cup Plans \cup Calculations \cup LeadRows \cup Tenants \cup Leases \cup Plots
        \cup MasterPlans \cup JobOffers \cup Openings \cup Vacancies \cup Applications
        \cup Interviews \cup Candidates \cup Payrolls \cup Staff \cup Balances \cup Requests
        \cup Exits \cup Facilities \cup Repairs \cup Incidents \cup Corrections \cup Checklists
        \cup WorkDays \cup Punches \cup Cycles \cup Reviews \cup Notices

InitDb == [x \in Rows |-> NewRow(x)]

\* What the components on applicants and employees promise.
PeopleSound ==
    /\ ContactsSound /\ RecruitmentSound /\ OffersSound
    /\ PayrollSound /\ EmploymentSound /\ SafetySound /\ WorkforceSound

\* A unit that was sold to one customer after another, and one that was sold.
Resold == [InitDb EXCEPT
    ![s1] = [NewSale(x1, "ALLOCATED") EXCEPT !.cancelled = TRUE],
    ![s2] = NewSale(x1, "ALLOCATED"),
    ![s3] = NewSale(x2, "RESERVED"),
    ![x1].status = "ALLOCATED", ![x2].status = "RESERVED"]

Assigned == [InitDb EXCEPT
    ![a1].status = "ACTIVE", ![a2].status = "ACTIVE",
    ![t1] = [status |-> "ACTIVE", role |-> "PRIMARY"],
    ![t2] = [status |-> "ACTIVE", role |-> "REFERRAL"],
    ![p1] = [status |-> "ACTIVE",
             terms |-> [type |-> "PERCENTAGE", bands |-> <<Band(0, 1, 1), Band(1, None, 2)>>]]]

Applied == [InitDb EXCEPT
    ![b1] = [status |-> "APPROVED", instance |-> "APPROVED", approvals |-> 1],
    ![b2].status = "OPEN", ![b3].status = "APPLIED"]
Offered == [Applied EXCEPT
    ![o2].status = "APPROVED", ![o2].instance = "APPROVED", ![o2].approvals = 1]
Accepted == [Offered EXCEPT
    ![o2].status = "ACCEPTED", ![o2].accepted = TRUE, ![o2].sends = 1,
    ![o2].known = TRUE, ![o2].live = 1, ![b3].status = "OFFER"]

MCInit ==
    /\ CallsStart
    /\ \/ /\ scene \in {"receivables", "reservations", "sales", "payments", "agents", "plans",
                       "leads", "lettings", "rents", "plots", "estates", "payroll", "leave", "absence", "exits", "posts",
                       "contacts", "facility", "repairs", "works",
                       "actions", "incidents", "checklists", "clocking",
                       "punches", "cycles", "peers", "sending",
                       "receipts", "estate"}
          /\ db = InitDb
       \/ scene \in {"handover", "snags"} /\ db = Resold
       \/ scene \in {"calculations", "commissions"} /\ db = Assigned
       \/ scene \in {"offers", "events", "meetings", "feedback"} /\ db = Applied
       \/ scene = "stages" /\ db = Offered
       \/ scene = "hiring" /\ db = Accepted

\* Rows of one kind are alike: the first is used before the second.
UsedBefore(x, y) == db'[y] # NewRow(y) => db'[x] # NewRow(x)

\* One notification, of any channel.
OneNotice ==
    \E n \in Notices : \A m \in Notices \ {n} :
        db'[m] = NoNotice /\ \A c \in Calls : call'[c].row # m

MCNext ==
    /\ scene' = scene
    /\ \/ scene = "receivables" /\ ReceivablesNext /\ db'[i2] = NoBill
       \/ /\ scene = "reservations" /\ ReservationsNext /\ db'[s3] = NoSale
          /\ UsedBefore(s1, s2) /\ UsedBefore(i1, i2) /\ UsedBefore(v1, v2)
          /\ ~db'[v2].late
       \* Only the first unit is ever set by hand.
       \/ /\ scene = "sales" /\ SalesNext /\ db'[s3] = NoSale /\ UsedBefore(s1, s2)
          /\ call' = call => db'[x2] = db[x2]
       \* Two handovers of the unit of their sales, or one, with a snag, of another unit.
       \/ /\ scene \in {"handover", "snags"} /\ HandoverNext
          /\ \E x \in Units :
                /\ db'[x] = db[x] /\ \A c \in Calls : call'[c].row # x
                /\ \A h \in Handovers : db'[h].unit # x
                /\ \/ scene = "handover" /\ x = x2 /\ db'[n1] = NoSnag
                   \/ scene = "snags" /\ x = x1 /\ db'[h2] = NoHandover
       \* One unit is reserved, sold and handed over; conversions and completions race.
       \/ /\ scene = "estate" /\ EstateNext
          /\ db'[x2] = NoUnitSold /\ db'[v2] = NoReservation /\ db'[s3] = NoSale
          /\ db'[i2] = NoBill /\ db'[h2] = NoHandover /\ db'[n1] = NoSnag
          /\ UsedBefore(s1, s2) /\ db'[h1].unit # x2
          /\ call' = call => db'[x1].status = db[x1].status
          /\ \A c \in Calls :
                /\ call'[c].op \notin {"inspect", "cancelHandover", "swapSale"}
                /\ tidy' \/ (db'[s2] = NoSale /\ call'[c].op \in {"none", "convert", "complete", "recognizeUnit"})
       \/ /\ scene = "payments" /\ PaymentsNext
          /\ \A c \in Calls : tidy' \/ call'[c].op \notin {"submitMortgage", "closeMortgage"}
       \* The second agent stays, and below the second tenant and the second lease.
       \/ scene = "agents" /\ AgentsNext /\ db'[a2].status \notin {"SUSPENDED", "TERMINATED"}
       \/ scene = "plans" /\ PlansNext
       \/ /\ scene = "calculations" /\ CalculationsNext /\ UsedBefore(k1, k2) /\ UsedBefore(k2, k3)
          /\ \A c \in Calls : /\ call'[c].op \notin {"approve", "reject", "payable", "paid"}
                              /\ call'[c].op = "adjust" => call'[c].arg = t2
                              /\ call'[c].row # k3
       \/ /\ scene = "commissions" /\ CalculationsNext
          /\ Cardinality({k \in Calculations : db'[k] # NoCalculation}) <= 1
          /\ \A c \in Calls : call'[c].op # "adjust"
       \/ scene = "leads" /\ LeadsNext /\ UsedBefore(v1, v2)
       \/ /\ scene = "lettings" /\ LeasingNext /\ UsedBefore(g1, g2)
          /\ db'[n3].status # "FORMER" /\ db'[g2].status # "EXPIRED"
          /\ \A c \in Calls : call'[c].op # "rent"
       \/ scene = "rents" /\ LeasingNext /\ db'[n3] = NoTenant /\ db'[g2] = NoLease
       \/ scene = "plots" /\ LandNext /\ \A m \in MasterPlans : db'[m] = NoMasterPlan
       \/ scene = "estates" /\ LandNext /\ \A p \in Plots : db'[p] = NoPlot
       \/ scene = "contacts" /\ ContactsNext
       \/ scene = "posts" /\ PostsNext
       \* An interview is moved to another time.
       \/ /\ scene \in {"events", "meetings"} /\ InterviewsNext
          /\ \/ scene = "events" /\ db'[b5] = NoInterview
             \/ scene = "meetings" /\ db'[b4] = NoInterview
          /\ \A c \in Calls : call'[c].op = "reschedule" => call'[c].arg = 2
       \/ scene = "feedback" /\ FeedbackNext /\ db'[b5] = NoInterview /\ ~db'[b4].failed
       \* An answer of the customer and one of the provider differ.
       \/ /\ scene = "offers" /\ OffersNext /\ db'[o2].approvals <= 1
          /\ \A c \in Calls : /\ call'[c].op = "check" => call'[c].arg = "DECLINED"
                              /\ call'[c].op = "respond" => call'[c].arg = "ACCEPTED"
                              /\ call'[c].op \in {"withdraw", "retry"} => db'[o2].sends <= 1
       \/ /\ scene = "stages" /\ StagesNext /\ db'[b5] = NoInterview /\ db'[o2].sends <= 1
          /\ \A x \in {b4, o2, b3} : ~db'[x].failed
          /\ \A c \in Calls : call'[c].op = "advance" => call'[c].arg = "REJECTED"
       \/ scene = "hiring" /\ HiringNext
       \/ scene = "payroll" /\ PayrollNext
       \/ scene = "leave" /\ LeaveNext
       \* A leave and a clock-in or a punch meet on a day.
       \/ /\ scene = "absence" /\ (LeaveNext \/ AttendanceNext)
          /\ db'[q2] = NoRequest /\ db'[p2] = NoPunch /\ db'[d2].shift = None /\ db'[d3].shift = None
          /\ db'[u1].entitled \in {0, 2} /\ db'[p3].time # 2
          /\ \A c \in Calls : call'[c].row # d2 /\ call'[c].op # "clockOut"
       \/ scene = "exits" /\ ExitsNext
       \/ /\ scene = "facility" /\ FacilitiesNext /\ db'[r3] = NoRepair
          /\ \A c \in Calls : call'[c].op \notin {"startWork", "hold", "resume", "cancelRepair",
                                                "billVendor"}
       \/ /\ scene = "repairs" /\ RepairsNext /\ UsedBefore(r2, r3)
          /\ \A c \in Calls : call'[c].op \notin {"startWork", "hold", "resume", "billVendor"}
       \/ scene = "works" /\ RepairsNext /\ db'[r3] = NoRepair
       \/ scene = "actions" /\ IncidentsNext /\ db'[c4] = NoCorrection
       \/ /\ scene = "incidents" /\ IncidentsNext /\ UsedBefore(c3, c4)
          /\ db'[i3].status # "INVESTIGATING"
          /\ \A a \in {c3, c4} : ~db'[a].failed /\ db'[a].status # "OVERDUE"
       \/ scene = "checklists" /\ ChecklistsNext
       \* On the second day nobody comes, or only the punch is known.
       \/ /\ scene = "clocking" /\ AttendanceNext /\ db'[p3] = NoPunch
          /\ db'[d3].shift = None /\ \A c \in Calls : call'[c].row # d3
          /\ db'[d2].shift # 2
       \/ /\ scene = "punches" /\ AttendanceNext /\ db'[d3].shift = None /\ UsedBefore(p2, p3)
          /\ db'[d2].shift # 2 /\ db'[p3].time # 2
          /\ \A c \in Calls : call'[c].op \notin {"clockIn", "clockOut"}
       \* Nobody comments on the reviews, or there is one, on which they do.
       \/ scene = "cycles" /\ ReviewsNext /\ \A c \in Calls : call'[c].op # "peer"
       \/ scene = "peers" /\ ReviewsNext /\ db'[r5] = NoReview
       \/ /\ scene = "sending" /\ MessagesNext /\ OneNotice
          /\ \A n \in Notices : db'[n].reports = {} /\ (db'[n].seen => n = n6)
          \* Of an e-mail the job that hands it on is tried again, of a message by
          \* phone the one that delivers it; an e-mail that is skipped is not sent.
          /\ db'[n4].left[0] # 1 /\ (db'[n5].skipped => db'[n5].messages = 0)
       \/ /\ scene = "receipts" /\ MessagesNext /\ OneNotice
          /\ \A n \in Notices : db'[n].queued <= 1 /\ ~db'[n].skipped /\ db'[n].left[0] # 1
                              /\ Cardinality(db'[n].reports) <= 2
                              /\ <<2, "failed">> \notin db'[n].reports
          /\ db'[n5] = NoNotice /\ db'[n6] = NoNotice
          /\ \A c \in Calls : call'[c].op # "markRead"
       \/ \E c \in Calls : CutOff(c)

MCSpec == MCInit /\ [][MCNext]_allVars
=============================================================================
