----------------------------- MODULE Commissions -----------------------------
(***************************************************************************)
(* Agents, their assignments to sales, the plans that say what a sale      *)
(* earns, and the calculations that are approved, accrued and paid.        *)
(* Withholding tax, effective dates, the search for the plan by scope and  *)
(* what a calculation amounts to are left out.                             *)
(***************************************************************************)
EXTENDS Documents, Functions, Sequences

CONSTANTS
    Agents, Assignments, Plans,
    AgentOf,       \* the agent of an assignment; all are to one sale
    MaxBasis,      \* the largest amount that a sale gives to earn on
    Terms,         \* the terms a request may ask of a plan: bands, and how they pay
    Calculations,  \* bound: calculations ever made
    MaxAccrued     \* bound: accruals of a calculation before it is left alone

ASSUME CommissionsAssumption ==
    /\ AgentOf \in [Assignments -> Agents] /\ MaxBasis \in Nat /\ MaxAccrued \in Nat
    /\ \A terms \in Terms :
          terms.bands \in Seq([min : Nat, max : Nat \cup {None}, pays : Nat])
    /\ None \notin Nat \cup Calculations
    /\ IsFiniteSet(Assignments) /\ IsFiniteSet(Calculations)
    \* They are rows of four tables.
    /\ Agents \cap (Assignments \cup Plans \cup Calculations) = {}
    /\ Assignments \cap (Plans \cup Calculations) = {} /\ Plans \cap Calculations = {}

NoAgent == [status |-> "ABSENT"]
NoAssignment == [status |-> "ABSENT", role |-> None]
NoPlan == [status |-> "ABSENT", terms |-> None]
NoCalculation == [status |-> "ABSENT", assignment |-> None, supersedes |-> None,
                  accrued |-> 0, cleared |-> 0]

ActiveStatuses == {"CALCULATED", "PENDING", "APPROVED", "PAYABLE", "PAID"}

CommissionsTypeOK ==
    /\ \A a \in Agents :
          db[a].status \in {"ABSENT", "PENDING_APPROVAL", "ACTIVE", "SUSPENDED", "TERMINATED"}
    /\ \A s \in Assignments : db[s].status \in {"ABSENT", "ACTIVE", "ENDED"}
    /\ \A k \in Calculations :
          /\ db[k].status \in ActiveStatuses \cup {"ABSENT", "REJECTED", "REVERSED", "CANCELLED"}
          /\ db[k].accrued \in Nat /\ db[k].cleared \in Nat

-----------------------------------------------------------------------------
\* Terms: bands [min, max, pays] in order, a percentage of the slice of the
\* basis in each or an amount for the one that holds it.  max None is no limit.
AtMostMax(amount, band) == band.max = None \/ amount <= band.max
Adjacent(bands, i) == bands[i - 1].max = bands[i].min

ValidateRateShape(bands) ==
    /\ bands # <<>> /\ bands[1].min = 0
    /\ \A i \in DOMAIN bands :
          /\ IF bands[i].max = None THEN i = Len(bands) ELSE bands[i].max > bands[i].min
          /\ i > 1 => Adjacent(bands, i)

\* The part of a basis that lies in a band which it exceeds the minimum of, and
\* what it pays.
Slice(basis, band) == (IF AtMostMax(basis, band) THEN basis ELSE band.max) - band.min
BandPays(terms, basis, i) ==
    LET band == terms.bands[i]
    IN  IF terms.type = "PERCENTAGE" THEN Slice(basis, band) * band.pays
        ELSE IF AtMostMax(basis, band) THEN band.pays ELSE 0

\* The bands are walked until the basis does not exceed one.
ApplyPlan(terms, basis) ==
    LET reached == {i \in DOMAIN terms.bands :
                       \A j \in 1..i : basis > terms.bands[j].min}
    IN  SumFunctionOnSet([i \in DOMAIN terms.bands |-> BandPays(terms, basis, i)], reached)

-----------------------------------------------------------------------------
CreateAgent(a) == Statement(In(a, {"ABSENT"}), Becomes(a, "PENDING_APPROVAL"))
ApproveAgent(c, a) ==
    Handler(c, "approveAgent", a, None, In(a, {"PENDING_APPROVAL"}), Becomes(a, "ACTIVE"))
SuspendAgent(c, a) ==
    Handler(c, "suspendAgent", a, None, In(a, {"ACTIVE"}), Becomes(a, "SUSPENDED"))
ReactivateAgent(c, a) ==
    Handler(c, "reactivateAgent", a, None, In(a, {"SUSPENDED"}), Becomes(a, "ACTIVE"))
TerminateAgent(c, a) ==
    Handler(c, "terminateAgent", a, None, ~In(a, {"ABSENT", "TERMINATED"}),
            Becomes(a, "TERMINATED"))

MayAssign(s, role) ==
    /\ In(s, {"ABSENT"}) /\ ~In(AgentOf[s], {"ABSENT"})
    /\ \A t \in Assignments :
          In(t, {"ACTIVE"}) /\ db[t].role = role =>
              AgentOf[t] # AgentOf[s] /\ role # "PRIMARY"

CreateAssignment(c, s, role) ==
    Handler(c, "assign", s, role, MayAssign(s, role),
            db' = [db EXCEPT ![s] = [status |-> "ACTIVE", role |-> role]])

EndAssignment(c, s) ==
    Handler(c, "endAssignment", s, None, In(s, {"ACTIVE"}), Becomes(s, "ENDED"))

SetTerms(p, terms) ==
    db' = [db EXCEPT ![p] = [status |-> "ACTIVE", terms |-> terms]]
\* The code of a plan is unique: the check before the insert decides no more.
CreatePlan(p, terms) ==
    Statement(In(p, {"ABSENT"}) /\ ValidateRateShape(terms.bands), SetTerms(p, terms))
\* The type stays; the status is not looked at.
UpdatePlan(p, terms) ==
    Statement(/\ ~In(p, {"ABSENT"}) /\ terms.type = db[p].terms.type
              /\ ValidateRateShape(terms.bands),
              db' = [db EXCEPT ![p].terms = terms])
DeactivatePlan(c, p) ==
    Handler(c, "deactivate", p, None, In(p, {"ACTIVE"}), Becomes(p, "INACTIVE"))

-----------------------------------------------------------------------------
ActiveOn(s) ==
    {k \in Calculations : In(k, ActiveStatuses) /\ db[k].assignment = s}

\* computeAll refuses when one of them is missing.
Computes(s) ==
    In(s, {"ACTIVE"}) /\ In(AgentOf[s], {"ACTIVE"}) /\ \E p \in Plans : In(p, {"ACTIVE"})

NewCalculation(s, old) ==
    [NoCalculation EXCEPT !.status = "CALCULATED", !.assignment = s, !.supersedes = old]

MayCalculate(s) == ActiveOn(s) = {}

Calculate(c, s) ==
    Handler(c, "calculate", s, None, MayCalculate(s) /\ Computes(s),
        \E k \in Calculations :
            In(k, {"ABSENT"}) /\ db' = [db EXCEPT ![k] = NewCalculation(s, None)])

Submit(c, k) ==
    Handler(c, "submit", k, None, In(k, {"CALCULATED"}), Becomes(k, "PENDING"))
Approve(c, k) ==
    Handler(c, "approve", k, None, In(k, {"PENDING"}), Becomes(k, "APPROVED"))
Reject(c, k) ==
    Handler(c, "reject", k, None, In(k, {"PENDING"}), Becomes(k, "REJECTED"))
Cancel(c, k) ==
    Handler(c, "cancel", k, None, In(k, {"CALCULATED", "PENDING"}), Becomes(k, "CANCELLED"))
Reverse(c, k) ==
    Handler(c, "reverse", k, None, In(k, ActiveStatuses), Becomes(k, "REVERSED"))

MayMarkPayable(k) == In(k, {"APPROVED"}) /\ db[k].accrued < MaxAccrued

\* The entry is a commit before the status.
MarkPayable(c, k) ==
    \/ MayMarkPayable(k) /\ Enter(c, "payable", "post", k, None, None)
    \/ /\ At(c, "payable", "post", k, None)
       /\ db' = [db EXCEPT ![k].accrued = @ + 1] /\ Goto(c, "write")
    \/ At(c, "payable", "write", k, None) /\ Becomes(k, "PAYABLE") /\ Leave(c)

MayMarkPaid(k) == In(k, {"PAYABLE"}) /\ db[k].cleared < MaxAccrued

MarkPaid(c, k) ==
    \/ MayMarkPaid(k) /\ Enter(c, "paid", "post", k, None, None)
    \/ /\ At(c, "paid", "post", k, None)
       /\ db' = [db EXCEPT ![k].cleared = @ + 1] /\ Goto(c, "write")
    \/ At(c, "paid", "write", k, None) /\ Becomes(k, "PAID") /\ Leave(c)

\* Mutated form of MayAdjust: whatever became of the calculation.
MayAdjustAny(k) == ~In(k, {"ABSENT"})

MayAdjust(k) == In(k, ActiveStatuses)

\* The old calculation is reversed and a new one inserted, on the assignment
\* that the request names, in one transaction.
Adjust(c, k, s) ==
    Handler(c, "adjust", k, s, MayAdjust(k) /\ Computes(s),
        \E new \in Calculations :
            /\ In(new, {"ABSENT"})
            /\ db' = [db EXCEPT ![k].status = "REVERSED", ![new] = NewCalculation(s, k)])

AgentsNext ==
    \/ \E a \in Agents :
          \/ CreateAgent(a)
          \/ \E c \in Calls : \/ ApproveAgent(c, a) \/ SuspendAgent(c, a)
                              \/ ReactivateAgent(c, a) \/ TerminateAgent(c, a)
    \/ \E c \in Calls, s \in Assignments :
          EndAssignment(c, s) \/ \E role \in {"PRIMARY", "REFERRAL"} : CreateAssignment(c, s, role)

PlansNext ==
    \E p \in Plans :
        \/ \E terms \in Terms : CreatePlan(p, terms) \/ UpdatePlan(p, terms)
        \/ \E c \in Calls : DeactivatePlan(c, p)

CalculationsNext ==
    \E c \in Calls :
        \/ \E s \in Assignments : Calculate(c, s)
        \/ \E k \in Calculations :
              \/ Submit(c, k) \/ Approve(c, k) \/ Reject(c, k) \/ Cancel(c, k)
              \/ Reverse(c, k) \/ MarkPayable(c, k) \/ MarkPaid(c, k)
              \/ \E s \in Assignments : Adjust(c, k, s)

-----------------------------------------------------------------------------
\* The bands that hold the n-th unit of a basis, and what they pay for it.
BandsAt(terms, n) ==
    {i \in DOMAIN terms.bands : terms.bands[i].min < n /\ AtMostMax(n, terms.bands[i])}
Earned(terms, n) ==
    SumFunctionOnSet([i \in DOMAIN terms.bands |-> terms.bands[i].pays], BandsAt(terms, n))

\* The bands of a stored plan say what every part of a basis earns: a percentage
\* plan pays each unit of the basis by the one band it falls in, and an amount
\* plan pays the amount of the one band that the basis falls in.
PlansAreProgressive ==
    \A p \in Plans, basis \in 0..MaxBasis :
        In(p, {"ACTIVE"}) =>
            /\ Cardinality(BandsAt(db[p].terms, basis)) <= 1
            /\ ApplyPlan(db[p].terms, basis) =
                   IF db[p].terms.type = "PERCENTAGE"
                   THEN SumFunctionOnSet([n \in 1..basis |-> Earned(db[p].terms, n)], 1..basis)
                   ELSE Earned(db[p].terms, basis)

\* A commission is paid only after it was accrued, wherever requests stop and
\* however its status is overwritten.
PaidWasAccrued ==
    \A k \in Calculations :
        /\ db[k].cleared > 0 \/ In(k, {"PAYABLE", "PAID"}) => db[k].accrued > 0
        /\ In(k, {"PAID"}) => db[k].cleared > 0

\* While requests take turns, a commission is accrued and paid once.
CommissionOnce ==
    tidy /\ Alone =>
        \A k \in Calculations :
            /\ In(k, {"CALCULATED", "PENDING", "APPROVED"}) => db[k].accrued = 0
            /\ db[k].accrued <= 1 /\ db[k].cleared <= 1

\* While requests take turns, an assignment has one active calculation, save
\* for those that an adjustment moved to it.
OneActive ==
    tidy /\ Alone =>
        \A s \in Assignments :
            Cardinality({k \in ActiveOn(s) : db[k].supersedes = None}) <= 1

\* While requests take turns, an adjusted calculation stays reversed and has one
\* successor, so that what was sold is never counted along a fork.
OneSuccessor ==
    tidy /\ Alone =>
        \A k, m \in Calculations :
            db[m].supersedes = k =>
                /\ In(k, {"REVERSED"})
                /\ \A n \in Calculations : db[n].supersedes = k => n = m

\* While requests take turns, a sale has one primary agent.
OnePrimary ==
    tidy /\ Alone =>
        Cardinality({s \in Assignments : In(s, {"ACTIVE"}) /\ db[s].role = "PRIMARY"}) <= 1

\* Commissions are computed by sound plans, accrued before they are paid, and
\* counted once: the six properties above.
CommissionsSound ==
    /\ CommissionsTypeOK
    /\ PlansAreProgressive /\ PaidWasAccrued
    /\ CommissionOnce /\ OneActive /\ OneSuccessor /\ OnePrimary
=============================================================================
