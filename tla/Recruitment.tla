---------------------------- MODULE Recruitment -----------------------------
(***************************************************************************)
(* From the request for a post to the hire: openings approved by the       *)
(* workflow engine, vacancies, applications and their stages, background   *)
(* checks, interviews with the feedback of a panel; then offers, approved  *)
(* by the workflow engine, sent for signature to a provider that may fail, *)
(* answered or withdrawn, and the hire, which makes an employee with an    *)
(* account at the directory. The envelope of an offer and the account are  *)
(* copies. The budget line of an opening, scores and documents are left    *)
(* out.                                                                    *)
(***************************************************************************)
EXTENDS ExternalCopies

CONSTANTS
    Openings,      \* job requisitions
    Vacancies, OpeningOf,
    Applications, VacancyOf,
    Interviews, ApplicationOf,
    CopyOf,        \* which of an interview's copies is followed here
    Panel          \* the interviewers

ASSUME RecruitmentAssumption ==
    /\ OpeningOf \in [Vacancies -> Openings] /\ VacancyOf \in [Applications -> Vacancies]
    /\ ApplicationOf \in [Interviews -> Applications]
    /\ CopyOf \in [Interviews -> {"calendar", "teams"}]

\* instance: the workflow instance that a row names; approvals counts its approvals.
NoOpening == [status |-> "ABSENT", instance |-> "none", approvals |-> 0]
NoVacancy == [status |-> "ABSENT"]
\* hires: employees made of the application, whose account is the copy;
\* check: the background check.
NoApplication == [check |-> "none", hires |-> 0] @@ NoCopy
NoInterview == [feedback |-> {}] @@ NoCopy

Pipeline == <<"APPLIED", "SCREENING", "SHORTLISTED", "INTERVIEW", "OFFER", "HIRED">>
Rank(stage) == CHOOSE n \in DOMAIN Pipeline : Pipeline[n] = stage
Stages == {Pipeline[n] : n \in DOMAIN Pipeline} \cup {"REJECTED", "WITHDRAWN"}

RecruitmentTypeOK ==
    /\ \A o \in Openings : db[o].status \in {"ABSENT", "DRAFT", "PENDING_APPROVAL", "APPROVED",
                                             "REJECTED", "CLOSED"}
    /\ \A v \in Vacancies : db[v].status \in {"ABSENT", "DRAFT", "OPEN", "FILLED", "CLOSED"}
    /\ \A a \in Applications :
          /\ db[a].status \in Stages \cup {"ABSENT"} /\ CopyTypeOK(a)
          /\ db[a].check \in {"none", "IN_PROGRESS", "CLEARED", "FLAGGED"}
    /\ \A m \in Interviews :
          /\ db[m].status \in {"ABSENT", "SCHEDULED", "RESCHEDULED", "COMPLETED", "CANCELLED",
                               "NO_SHOW"}
          /\ db[m].feedback \subseteq Panel /\ CopyTypeOK(m)

\* startInstance, then the row: the instance is known once the row names it.
SubmitForApproval(c, x) ==
    LET here(at) == At(c, "submit", at, x, None)
    IN  \/ In(x, {"DRAFT"}) /\ Enter(c, "submit", "start", x, None, None)
        \/ here("start") /\ UNCHANGED db /\ Goto(c, "write")
        \/ /\ here("write")
           /\ db' = [db EXCEPT ![x].status = "PENDING_APPROVAL", ![x].instance = "PENDING"]
           /\ Leave(c)

\* The approvers decide in the workflow engine.
Decide(x, outcome) ==
    Statement(db[x].instance = "PENDING",
        db' = [db EXCEPT ![x].instance = outcome,
                         ![x].approvals = IF outcome = "APPROVED" THEN @ + 1 ELSE @])

\* resubmit, after a return.
Resubmit(x) == Statement(db[x].instance = "RETURNED", db' = [db EXCEPT ![x].instance = "PENDING"])

Approvals(x) ==
    \/ Resubmit(x)
    \/ \E outcome \in {"APPROVED", "REJECTED", "RETURNED"} : Decide(x, outcome)
    \/ \E c \in Calls : SubmitForApproval(c, x)

\* The status that a row is given for the state of its instance, as it was read.
Refresh(c, x, status) ==
    \/ status # db[x].status /\ Enter(c, "refresh", "write", x, None, status)
    \/ At(c, "refresh", "write", x, None) /\ Becomes(x, call[c].seen) /\ Leave(c)

-----------------------------------------------------------------------------
CreateOpening(o) == Statement(In(o, {"ABSENT"}), Becomes(o, "DRAFT"))

\* An approved instance makes any opening APPROVED, one that was closed too.
RefreshedOpening(o) ==
    IF db[o].instance = "APPROVED" THEN "APPROVED"
    ELSE IF db[o].instance \in {"REJECTED", "RETURNED"} THEN "REJECTED"
    ELSE db[o].status

CloseOpening(c, o) ==
    Handler(c, "closeOpening", o, None, ~In(o, {"ABSENT"}), Becomes(o, "CLOSED"))

CreateVacancy(c, v) ==
    Insertion(c, "vacancy", v, None, In(OpeningOf[v], {"APPROVED"}),
            Becomes(v, "DRAFT"))

PublishVacancy(c, v) == Handler(c, "publish", v, None, In(v, {"DRAFT"}), Becomes(v, "OPEN"))

CloseVacancy(c, v, as) ==
    Handler(c, "closeVacancy", v, as, ~In(v, {"ABSENT"}), Becomes(v, as))

\* One application of a candidate to a vacancy: the second insert is refused.
Apply(c, a) ==
    Handler(c, "apply", a, None, In(a, {"ABSENT"}) /\ In(VacancyOf[a], {"OPEN"}),
            IF In(a, {"ABSENT"}) THEN Becomes(a, "APPLIED") ELSE UNCHANGED db)

\* Also a hired application may still be rejected or withdrawn.
MayAdvance(a, stage) ==
    /\ ~In(a, {"ABSENT", "REJECTED", "WITHDRAWN"})
    /\ \/ stage \in {"REJECTED", "WITHDRAWN"}
       \/ stage \in Stages \ {"HIRED", "REJECTED", "WITHDRAWN"} /\ Rank(stage) >= Rank(db[a].status)

AdvanceStage(c, a, stage) ==
    Handler(c, "advance", a, stage, MayAdvance(a, stage), Becomes(a, stage))

StartCheck(c, a) ==
    Handler(c, "startCheck", a, None, ~In(a, {"ABSENT"}) /\ db[a].check = "none",
            db' = [db EXCEPT ![a].check = IF @ = "none" THEN "IN_PROGRESS" ELSE @])

CompleteCheck(c, a, outcome) ==
    Handler(c, "check", a, outcome, db[a].check # "none", db' = [db EXCEPT ![a].check = outcome])

PostsNext ==
    \/ \E o \in Openings :
          \/ CreateOpening(o) \/ Approvals(o)
          \/ \E c \in Calls : Refresh(c, o, RefreshedOpening(o)) \/ CloseOpening(c, o)
    \/ \E v \in Vacancies, c \in Calls :
          \/ CreateVacancy(c, v) \/ PublishVacancy(c, v)
          \/ \E as \in {"FILLED", "CLOSED"} : CloseVacancy(c, v, as)
    \/ \E a \in Applications, c \in Calls : Apply(c, a)

-----------------------------------------------------------------------------
Early == {"APPLIED", "SCREENING", "SHORTLISTED"}

FirstTime == CHOOSE time \in Versions : TRUE

\* The interview, the stage of the application as it was read, the event.
Schedule(c, m) ==
    LET a == ApplicationOf[m]
        here(at) == At(c, "schedule", at, m, None)
    IN  \/ /\ In(m, {"ABSENT"}) /\ ~In(a, {"ABSENT"})
           /\ Enter(c, "schedule", "insert", m, None, db[a].status)
        \/ /\ here("insert") /\ In(m, {"ABSENT"})
           /\ db' = [db EXCEPT ![m].status = "SCHEDULED", ![m].version = FirstTime]
           /\ IF call[c].seen \in Early THEN Goto(c, "stage") ELSE Goto(c, "create")
        \/ here("stage") /\ Becomes(a, "INTERVIEW") /\ Goto(c, "create")
        \/ here("create") /\ TryCreate(c, m, FirstTime)

Reschedule(c, m, time) ==
    LET here(at) == At(c, "reschedule", at, m, time)
        read == call[c].seen
    IN  \/ ~In(m, {"ABSENT"}) /\ Enter(c, "reschedule", "write", m, time, Read(m))
        \/ /\ here("write")
           /\ db' = [db EXCEPT ![m].status = "RESCHEDULED", ![m].version = time]
           /\ IF read.known /\ CopyOf[m] = "calendar" THEN Goto(c, "update") ELSE Leave(c)
        \/ here("update") /\ TryUpdate(c, m, time, read.failed)

CancelInterview(c, m) ==
    LET here(at) == At(c, "cancel", at, m, None)
    IN  \/ ~In(m, {"ABSENT"}) /\ Enter(c, "cancel", "write", m, None, Read(m))
        \/ /\ here("write") /\ Becomes(m, "CANCELLED")
           /\ IF call[c].seen.known THEN Goto(c, "remove") ELSE Leave(c)
        \/ here("remove") /\ TryRemove(c, m, FALSE)

\* Meetings are never changed: what failed of one that is known was its removal.
RetrySync(c, m) ==
    LET read == call[c].seen
    IN  \/ db[m].failed /\ Enter(c, "retrySync", "call", m, None, Read(m))
        \/ /\ At(c, "retrySync", "call", m, None)
           /\ IF CreateAgain(read) THEN TryCreate(c, m, read.version)
              ELSE IF CopyOf[m] = "teams" \/ read.status = "CANCELLED" THEN TryRemove(c, m, TRUE)
              ELSE TryUpdate(c, m, read.version, TRUE)

Conclude(c, m, status) ==
    Handler(c, "conclude", m, status, ~In(m, {"ABSENT"}), Becomes(m, status))

\* One feedback of an interviewer: the second insert is refused.
SubmitFeedback(c, m, by) ==
    LET here(at) == At(c, "feedback", at, m, by)
    IN  \/ /\ ~In(m, {"ABSENT"}) /\ by \notin db[m].feedback
           /\ Enter(c, "feedback", "insert", m, by, None)
        \/ /\ here("insert")
           /\ IF by \in db[m].feedback THEN UNCHANGED db /\ Leave(c)
              ELSE db' = [db EXCEPT ![m].feedback = @ \cup {by}] /\ Goto(c, "count")
        \/ /\ here("count") /\ UNCHANGED db
           /\ IF db[m].feedback = Panel THEN Goto(c, "complete") ELSE Leave(c)
        \/ here("complete") /\ Becomes(m, "COMPLETED") /\ Leave(c)

InterviewsNext ==
    \E m \in Interviews, c \in Calls :
        \/ Schedule(c, m) \/ CancelInterview(c, m) \/ RetrySync(c, m)
        \/ \E time \in Versions : Reschedule(c, m, time)

FeedbackNext ==
    \E m \in Interviews, c \in Calls :
        \/ Schedule(c, m) \/ CancelInterview(c, m)
        \/ \E status \in {"COMPLETED", "NO_SHOW"} : Conclude(c, m, status)
        \/ \E by \in Panel : SubmitFeedback(c, m, by)

-----------------------------------------------------------------------------
\* Nobody applies, and no vacancy exists, but for an opening that was approved,
\* whatever requests interleave.
PostsWereApproved ==
    /\ \A v \in Vacancies : ~In(v, {"ABSENT"}) => db[OpeningOf[v]].approvals > 0
    /\ \A a \in Applications : ~In(a, {"ABSENT"}) => ~In(VacancyOf[a], {"ABSENT"})

\* While requests take turns and no answer is lost: an interview that was not
\* touched since it was scheduled still waits for feedback; its event agrees with
\* it unless it is flagged; and its event or meeting is gone when it is cancelled,
\* unless it is flagged or a retry made it only then.
InterviewsAgree ==
    tidy /\ Alone =>
        \A m \in Interviews : ~In(m, {"ABSENT"}) =>
            /\ In(m, {"SCHEDULED"}) => db[m].feedback # Panel
            /\ db[m].live <= 1
            /\ In(m, {"CANCELLED"}) => db[m].live = 0 \/ db[m].failed \/ db[m].late
            /\ In(m, {"SCHEDULED", "RESCHEDULED"}) /\ CopyOf[m] = "calendar" => CopyAgrees(m)

\* Posts, applications and interviews: PostsWereApproved, InterviewsAgree.
RecruitmentSound == RecruitmentTypeOK /\ PostsWereApproved /\ InterviewsAgree

-----------------------------------------------------------------------------
(* Offers *)

CONSTANTS
    JobOffers,
    OfferTo,   \* the application of an offer
    MostSent   \* bound: times an offer is sent

ASSUME OffersAssumption ==
    /\ OfferTo \in [JobOffers -> Applications] /\ MostSent \in Nat
    /\ \A x, y \in JobOffers : OfferTo[x] = OfferTo[y] => x = y

\* approvals and sends count what happened; accepted: it was ACCEPTED once; the
\* copy is the envelope.
NoOffer == [instance |-> "none", approvals |-> 0, sends |-> 0, accepted |-> FALSE] @@ NoCopy

OffersTypeOK ==
    \A x \in JobOffers :
        /\ db[x].status \in {"ABSENT", "DRAFT", "PENDING_APPROVAL", "APPROVED", "SENT", "ACCEPTED",
                             "DECLINED", "WITHDRAWN"}
        /\ db[x].instance \in {"none", "PENDING", "APPROVED", "REJECTED", "RETURNED"}
        /\ CopyTypeOK(x)

CreateOffer(x) ==
    Statement(In(x, {"ABSENT"}) /\ ~In(OfferTo[x], {"ABSENT"}), Becomes(x, "DRAFT"))

\* An approved instance makes any offer APPROVED, one that was answered too.
Refreshed(x) ==
    IF db[x].instance = "APPROVED" THEN "APPROVED"
    ELSE IF db[x].instance \in {"REJECTED", "RETURNED"} THEN "WITHDRAWN"
    ELSE db[x].status

\* The offer, the stage of its application whatever it is, the envelope.
Send(c, x) ==
    LET here(at) == At(c, "send", at, x, None)
    IN  \/ In(x, {"APPROVED"}) /\ db[x].sends < MostSent /\ Enter(c, "send", "write", x, None, None)
        \/ /\ here("write")
           /\ db' = [db EXCEPT ![x].status = "SENT", ![x].sends = @ + 1]
           /\ Goto(c, "stage")
        \/ here("stage") /\ Becomes(OfferTo[x], "OFFER") /\ Goto(c, "sign")
        \/ here("sign") /\ TryCreate(c, x, None)

RetrySignatureSync(c, x) ==
    \/ db[x].failed /\ ~db[x].known /\ Enter(c, "retry", "call", x, None, None)
    \/ At(c, "retry", "call", x, None) /\ TryCreate(c, x, None)

MayRespond(x) == In(x, {"SENT"})

Answered(x, answer) ==
    db' = [db EXCEPT ![x].status = answer, ![x].accepted = @ \/ answer = "ACCEPTED"]

Respond(c, x, answer) == Handler(c, "respond", x, answer, MayRespond(x), Answered(x, answer))

\* The provider tells what became of the envelope; then respond.
CheckSignatureStatus(c, x, answer) ==
    LET here(at) == At(c, "check", at, x, answer)
    IN  \/ /\ db[x].known /\ In(x, {"SENT"})
           /\ Enter(c, "check", "respond", x, answer, None)
        \/ /\ here("respond") /\ UNCHANGED db
           /\ IF MayRespond(x) THEN Goto(c, "write") ELSE Leave(c)
        \/ here("write") /\ Answered(x, answer) /\ Leave(c)

\* An envelope that cannot be voided is not flagged.
Withdraw(c, x) ==
    LET here(at) == At(c, "withdraw", at, x, None)
    IN  \/ ~In(x, {"ABSENT"}) /\ Enter(c, "withdraw", "write", x, None, Read(x))
        \/ /\ here("write") /\ Becomes(x, "WITHDRAWN")
           /\ IF call[c].seen.known THEN Goto(c, "void") ELSE Leave(c)
        \/ /\ here("void") /\ Leave(c)
           /\ \/ db[x].live > 0 /\ db' = [db EXCEPT ![x].live = @ - 1]
              \/ UNCHANGED db

\* Mutated form of MayHire: the answer of the candidate is not awaited.
MayHireUnanswered(x) ==
    /\ In(OfferTo[x], {"OFFER"})
    /\ db[OfferTo[x]].check \in {"none", "CLEARED"}

MayHire(x) ==
    /\ In(OfferTo[x], {"OFFER"}) /\ In(x, {"ACCEPTED"})
    /\ db[OfferTo[x]].check \in {"none", "CLEARED"}

\* The employee and the stage in one transaction, then the account.
Hire(c, x) ==
    LET a == OfferTo[x]
        here(at) == At(c, "hire", at, x, None)
    IN  \/ MayHire(x) /\ Enter(c, "hire", "write", x, None, None)
        \/ /\ here("write")
           /\ db' = [db EXCEPT ![a].status = "HIRED", ![a].hires = @ + 1]
           /\ Goto(c, "account")
        \/ here("account") /\ TryCreate(c, a, None)

RetryDirectorySync(c, a) ==
    \/ db[a].failed /\ ~db[a].known /\ Enter(c, "retryAccount", "call", a, None, None)
    \/ At(c, "retryAccount", "call", a, None) /\ TryCreate(c, a, None)

OffersNext ==
    \E x \in JobOffers :
        \/ CreateOffer(x) \/ Approvals(x)
        \/ \E c \in Calls :
              \/ Refresh(c, x, Refreshed(x)) \/ Send(c, x)
              \/ RetrySignatureSync(c, x) \/ Withdraw(c, x)
              \/ \E answer \in {"ACCEPTED", "DECLINED"} :
                    Respond(c, x, answer) \/ CheckSignatureStatus(c, x, answer)

\* What moves an application whose offer is out, and what hires it.
StagesNext ==
    \E x \in JobOffers, c \in Calls :
        \/ Refresh(c, x, Refreshed(x)) \/ Send(c, x) \/ Respond(c, x, "ACCEPTED") \/ Hire(c, x)
        \/ \E stage \in Stages : AdvanceStage(c, OfferTo[x], stage)
        \/ \E m \in Interviews : Schedule(c, m)

HiringNext ==
    \E x \in JobOffers, c \in Calls :
        LET a == OfferTo[x] IN
        \/ Hire(c, x) \/ RetryDirectorySync(c, a) \/ StartCheck(c, a)
        \/ \E outcome \in {"CLEARED", "FLAGGED"} : CompleteCheck(c, a, outcome)

-----------------------------------------------------------------------------
\* No offer goes out, is answered or has an envelope at the provider unless an
\* approver approved it and it was sent, whatever overtakes what.
SentWasApproved ==
    \A x \in JobOffers :
        /\ In(x, {"APPROVED", "SENT", "ACCEPTED", "DECLINED"}) => db[x].approvals > 0
        /\ In(x, {"ACCEPTED", "DECLINED"}) \/ db[x].live > 0 \/ db[x].failed => db[x].sends > 0

\* Nobody is hired without an offer that was approved, sent and accepted, whatever
\* requests interleave.  While they take turns there is one hire at most for each time the
\* offer went out, and an application whose offer is out does not fall back to
\* an earlier stage.
HiredOnOffer ==
    \A x \in JobOffers :
        LET a == OfferTo[x] IN
        /\ db[a].hires > 0 => db[x].approvals > 0 /\ db[x].sends > 0 /\ db[x].accepted
        /\ In(a, {"HIRED"}) => db[a].hires > 0
        /\ tidy => db[a].hires <= db[x].sends
        /\ tidy /\ Alone /\ db[x].sends > 0 => In(a, {"OFFER", "HIRED", "REJECTED", "WITHDRAWN"})

\* Offers follow their approval and hires follow offers: SentWasApproved,
\* HiredOnOffer.
OffersSound == OffersTypeOK /\ SentWasApproved /\ HiredOnOffer
=============================================================================
