------------------------------- MODULE Payroll -------------------------------
(***************************************************************************)
(* Payroll runs: the payslips are written one by one, then the run is      *)
(* approved and its totals posted to the ledger.  A run may be calculated  *)
(* by a request and by a job of the worker at once.  A payslip is known by *)
(* its gross pay; the tax taken from it is the function below.             *)
(***************************************************************************)
EXTENDS Documents, Functions
LOCAL INSTANCE SequencesExt

CONSTANTS
    Payrolls,
    Staff,
    Gross,       \* the gross pay of an employee, of the salary structure
    Earnings,    \* the yearly gross incomes the tax is checked for, in units of 500 naira
    MostCharged  \* bound: entries posted for a run

ASSUME PayAssumption == Gross \in [Staff -> Nat \ {0}] /\ Earnings \subseteq Nat

\* slips: gross pay by employee, 0 where there is none; charged: what the
\* entries took; approvals and entries count what happened.
NoPayroll == [status |-> "ABSENT", slips |-> [e \in Staff |-> 0], charged |-> 0,
              approvals |-> 0, entries |-> 0]
NoStaff == [status |-> "ABSENT"]

PayrollTypeOK ==
    /\ \A e \in Staff : db[e].status \in {"ABSENT", "ACTIVE"}
    /\ \A x \in Payrolls :
          /\ db[x].status \in {"ABSENT", "DRAFT", "CALCULATED", "APPROVED", "POSTED"}
          /\ \A e \in Staff : db[x].slips[e] \in {0, Gross[e]}
          /\ db[x].charged \in Nat

-----------------------------------------------------------------------------
\* The tax of a year.  upTo in units of 500 naira, the last one beyond any
\* income; rate in percent.
PAYEBands == <<[upTo |-> 600, rate |-> 7], [upTo |-> 1200, rate |-> 11],
               [upTo |-> 2200, rate |-> 15], [upTo |-> 3200, rate |-> 19],
               [upTo |-> 6400, rate |-> 21], [upTo |-> 20000000, rate |-> 24]>>

\* Consolidated relief: 200 000 naira or a hundredth of the gross income, and a
\* fifth of it.  In hundredths of the unit, as all that follows.
Relief(gross) == Max({40000, gross}) + 20 * gross
Taxable(gross, contributions) == Max({0, 100 * gross - Relief(gross) - contributions})

\* The state of the loop over the bands: what is left to tax, where the last
\* band ended, the tax so far.
TaxBand(loop, band) ==
    LET taxed == Min({loop.remaining, 100 * band.upTo - loop.cap})
    IN  IF taxed <= 0 THEN loop
        ELSE [remaining |-> loop.remaining - taxed, cap |-> 100 * band.upTo,
              tax |-> loop.tax + taxed * band.rate]

AnnualPAYE(gross, contributions) ==
    FoldLeft(TaxBand, [remaining |-> Taxable(gross, contributions), cap |-> 0, tax |-> 0],
             PAYEBands).tax

\* Pension of 8 % and housing fund of 2.5 %, where the whole pay is basic salary,
\* rounded down.
Contributions(gross) == (105 * gross) \div 10
AnnualNet(gross) ==
    10000 * gross - AnnualPAYE(gross, Contributions(gross)) - 100 * Contributions(gross)

-----------------------------------------------------------------------------
Working == {e \in Staff : In(e, {"ACTIVE"})}
TotalPay(x) == FoldFunction(+, 0, db[x].slips)

CreateEmployee(e) == Statement(In(e, {"ABSENT"}), Becomes(e, "ACTIVE"))

CreatePayrollRun(x) == Statement(In(x, {"ABSENT"}), Becomes(x, "DRAFT"))

MayCalculateRun(x) == In(x, {"DRAFT"}) /\ Working # {}

\* One payslip after the other, then the status; all of it from the first read.
CalculatePayrollRun(c, x) ==
    LET here(at) == At(c, "calculate", at, x, None)
        left == call[c].seen
    IN  \/ MayCalculateRun(x) /\ Enter(c, "calculate", "slips", x, None, Working)
        \/ /\ here("slips")
           /\ \E e \in left :
                 /\ db' = [db EXCEPT ![x].slips[e] = Gross[e]]
                 /\ IF left = {e} THEN Goto(c, "status") ELSE Keep(c, "slips", left \ {e})
        \/ here("status") /\ Becomes(x, "CALCULATED") /\ Leave(c)

ApprovePayrollRun(c, x) ==
    Handler(c, "approveRun", x, None, In(x, {"CALCULATED"}),
            db' = [db EXCEPT ![x].status = "APPROVED", ![x].approvals = @ + 1])

PostPayrollRun(c, x) ==
    LET here(at) == At(c, "postRun", at, x, None)
    IN  \/ In(x, {"APPROVED"}) /\ TotalPay(x) > 0 /\ Enter(c, "postRun", "entry", x, None, TotalPay(x))
        \/ /\ here("entry") /\ db[x].entries < MostCharged
           /\ db' = [db EXCEPT ![x].entries = @ + 1, ![x].charged = @ + call[c].seen]
           /\ Goto(c, "status")
        \/ here("status") /\ Becomes(x, "POSTED") /\ Leave(c)

PayrollNext ==
    \/ \E e \in Staff : CreateEmployee(e)
    \/ \E x \in Payrolls :
          \/ CreatePayrollRun(x)
          \/ \E c \in Calls :
                \/ CalculatePayrollRun(c, x) \/ ApprovePayrollRun(c, x) \/ PostPayrollRun(c, x)

-----------------------------------------------------------------------------
\* The tax is what the definition of a progressive tax says: the sum over the
\* bands of the part of the income that lies in each.  It leaves nobody who
\* earns more with less.
TaxIsProgressive ==
    LET inBand(i, taxable) ==
            LET from == IF i = 1 THEN 0 ELSE 100 * PAYEBands[i - 1].upTo
            IN  Max({0, Min({taxable, 100 * PAYEBands[i].upTo}) - from}) * PAYEBands[i].rate
    IN  \A g \in Earnings :
          /\ AnnualPAYE(g, Contributions(g))
                = LET taxed == [i \in DOMAIN PAYEBands |-> inBand(i, Taxable(g, Contributions(g)))]
                  IN  FoldFunction(+, 0, taxed)
          /\ \A h \in Earnings : g < h => AnnualNet(g) < AnnualNet(h)

\* A run is posted only after an approval, and never charges the ledger more for
\* an entry than its payslips add up to.  As long as requests take turns a run
\* that is posted has charged exactly its payslips, once.
PayrollCharged ==
    \A x \in Payrolls :
        /\ In(x, {"POSTED"}) => db[x].entries > 0
        /\ db[x].entries > 0 => db[x].approvals > 0
        /\ db[x].charged <= db[x].entries * TotalPay(x)
        /\ tidy /\ In(x, {"POSTED"}) => db[x].charged = TotalPay(x) /\ db[x].entries = 1

\* What is paid was earned, taxed and approved: TaxIsProgressive, PayrollCharged.
PayrollSound == PayrollTypeOK /\ TaxIsProgressive /\ PayrollCharged
=============================================================================
