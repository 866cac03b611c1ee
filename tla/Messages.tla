-------------------------------- MODULE Messages --------------------------------
(***************************************************************************)
(* Notifications to users.  The API inserts one and queues a job, which    *)
(* hands it on to the queue of its channel; a worker takes that job, asks  *)
(* the provider to send, and the provider reports what became of the       *)
(* message.  The queues repeat a job that throws or whose worker stops.    *)
(* A provider is configured for every channel.  Templates, addresses and   *)
(* signatures of callbacks are left out.                                   *)
(***************************************************************************)
EXTENDS Documents

CONSTANTS
    Notices,
    ChannelOf,     \* IN_APP, EMAIL, SMS or WHATSAPP
    Phoneless,     \* their user has no phone number
    Attempts,      \* bound: how often a job that throws is tried
    MostJobs,      \* bound: jobs queued for one notification
    MostMessages   \* bound: messages sent for one

ASSUME MessagesAssumption ==
    /\ ChannelOf \in [Notices -> {"IN_APP", "EMAIL", "SMS", "WHATSAPP"}]
    /\ Phoneless \subseteq Notices
    /\ Attempts \in Nat \ {0} /\ MostJobs \in Nat \ {0} /\ MostMessages \in Nat

\* Job 0 hands the notification on, the others deliver it; left says how often a
\* job may still be tried, 0 of one that is not there or over.
Jobs == 0..MostJobs

\* seen, delivered: readAt and deliveredAt; known: the message that it names;
\* messages: those the provider took; reports: what it says of them; skipped: a job was
\* dropped because its queue was switched off.
NoNotice ==
    [status |-> "ABSENT", seen |-> FALSE, delivered |-> FALSE, known |-> 0,
     queued |-> 0, left |-> [j \in Jobs |-> 0], messages |-> 0, reports |-> {},
     skipped |-> FALSE]

MessagesTypeOK ==
    \A n \in Notices :
        /\ db[n].status \in {"ABSENT", "PENDING", "SENT", "FAILED", "READ", "DELIVERED"}
        /\ db[n].left \in [Jobs -> 0..Attempts] /\ db[n].queued \in 0..MostJobs
        /\ db[n].known \in 0..db[n].messages

\* The row, and then its job.
CreateNotification(c, n) ==
    LET here(at) == At(c, "notification", at, n, None)
    IN  \/ In(n, {"ABSENT"}) /\ Enter(c, "notification", "insert", n, None, None)
        \/ here("insert") /\ In(n, {"ABSENT"}) /\ Becomes(n, "PENDING") /\ Goto(c, "enqueue")
        \/ here("enqueue") /\ db' = [db EXCEPT ![n].left[0] = Attempts] /\ Leave(c)

Waiting(n, j) ==
    db[n].left[j] > 0
    /\ \A c \in Calls : ~(call[c].op = "job" /\ call[c].row = n /\ call[c].arg = j)
Take(c, n, j) == Waiting(n, j) /\ Enter(c, "job", "run", n, j, None)
Over(n, j) == db' = [db EXCEPT ![n].left[j] = 0]
TryAgain(n, j) == db' = [db EXCEPT ![n].left[j] = @ - 1]

\* A job of a queue that is switched off ends without having done anything.
Skip(n, j) == Statement(Waiting(n, j), db' = [db EXCEPT ![n].left[j] = 0, ![n].skipped = TRUE])

\* The job for the e-mail is queued without options.
AttemptsAt(n) == IF ChannelOf[n] = "EMAIL" THEN 1 ELSE Attempts
ByPhone(n) == ChannelOf[n] \in {"SMS", "WHATSAPP"}

HandOn(n) ==
    IF ChannelOf[n] = "IN_APP" THEN Becomes(n, "SENT")
    ELSE IF ByPhone(n) /\ n \in Phoneless THEN Becomes(n, "FAILED")
    ELSE /\ db[n].queued < MostJobs
         /\ LET j == db[n].queued + 1
            IN  db' = [db EXCEPT ![n].queued = j, ![n].left[j] = AttemptsAt(n)]

\* NotificationProcessor; a statement of it that fails makes it throw.
ProcessNotification(c, n) ==
    LET here(at) == At(c, "job", at, n, 0)
    IN  \/ Take(c, n, 0)
        \/ here("run") /\ HandOn(n) /\ Goto(c, "end")
        \/ here("end") /\ Over(n, 0) /\ Leave(c)
        \/ /\ here("run") \/ here("end")
           /\ TryAgain(n, 0)
           /\ call' = [call EXCEPT ![c] = Idle] /\ tidy' = FALSE

\* EmailProcessor, SmsProcessor and WhatsAppProcessor.  The provider takes the
\* message, refuses it, or takes it and the answer is lost; what fails after
\* that is caught like a refusal.
Deliver(c, n, j) ==
    LET here(at) == At(c, "job", at, n, j)
        taken == /\ db[n].messages < MostMessages
                 /\ db' = [db EXCEPT ![n].messages = @ + 1]
        fails == call' = [call EXCEPT ![c].at = "failed"] /\ tidy' = FALSE
    IN  \/ Take(c, n, j)
        \/ here("run") /\ taken /\ Keep(c, "record", db[n].messages + 1)
        \/ here("run") /\ UNCHANGED db /\ Goto(c, "failed")
        \/ here("run") /\ taken /\ fails
        \/ /\ here("record")
           /\ db' = [db EXCEPT ![n].status = "SENT",
                               ![n].known = IF ByPhone(n) THEN call[c].seen ELSE @]
           /\ Goto(c, "end")
        \/ here("end") /\ Over(n, j) /\ Leave(c)
        \/ (here("record") \/ here("end")) /\ UNCHANGED db /\ fails
        \/ here("failed") /\ Becomes(n, "FAILED") /\ Goto(c, "rethrow")
        \/ here("rethrow") /\ TryAgain(n, j) /\ Leave(c)

-----------------------------------------------------------------------------
\* What the provider says of a message; only of the one service it is read.
Report(n, k, report) ==
    /\ ByPhone(n)
    /\ \/ report \in {"delivered", "failed"} /\ ~\E r \in db[n].reports : r[1] = k
       \/ report = "read" /\ ChannelOf[n] = "WHATSAPP" /\ <<k, "delivered">> \in db[n].reports
    /\ db' = [db EXCEPT ![n].reports = @ \cup {<<k, report>>}]
    /\ UNCHANGED <<call, tidy>>

\* A callback may come late, more than once or never; it is for the row that
\* names the message, if there is one yet.
ApplyStatus(c, n, k, report) ==
    Handler(c, "callback", n, <<k, report>>,
        <<k, report>> \in db[n].reports /\ db[n].known = k,
        CASE report = "delivered" ->
                db' = [db EXCEPT ![n].status = "DELIVERED", ![n].delivered = TRUE]
          [] report = "read" ->
                db' = [db EXCEPT ![n].status = "READ", ![n].seen = TRUE, ![n].delivered = TRUE]
          [] report = "failed" -> Becomes(n, "FAILED"))

MarkedRead(notices) ==
    db' = [x \in DOMAIN db |->
              IF x \in notices THEN [db[x] EXCEPT !.status = "READ", !.seen = TRUE] ELSE db[x]]

MarkRead(c, n) ==
    Handler(c, "markRead", n, None, ~In(n, {"ABSENT"}) /\ ~db[n].seen, MarkedRead({n}))
\* The notifications here are of one user.
MarkAllRead ==
    LET unread == {n \in Notices : ~In(n, {"ABSENT"}) /\ ~db[n].seen}
    IN  Statement(unread # {}, MarkedRead(unread))

MessagesNext ==
    \/ MarkAllRead
    \/ \E n \in Notices :
          \/ \E j \in Jobs : Skip(n, j)
          \/ \E k \in 1..db[n].messages, report \in {"delivered", "read", "failed"} :
                Report(n, k, report) \/ \E c \in Calls : ApplyStatus(c, n, k, report)
          \/ \E c \in Calls :
                \/ CreateNotification(c, n) \/ ProcessNotification(c, n) \/ MarkRead(c, n)
                \/ \E j \in Jobs \ {0} : Deliver(c, n, j)

-----------------------------------------------------------------------------
\* A notification says that it was sent or delivered only if the provider took it,
\* and that it was delivered only if the provider said so, in any interleaving.
StatusIsTrue ==
    \A n \in Notices :
        /\ In(n, {"SENT", "DELIVERED"}) /\ ChannelOf[n] # "IN_APP" => db[n].messages > 0
        /\ In(n, {"DELIVERED"}) => db[n].delivered
        /\ db[n].delivered => \E k \in 1..db[n].messages : <<k, "delivered">> \in db[n].reports

\* While workers and requests take turns and none fails on the way, a
\* notification is sent once, however often the provider refuses; and it waits
\* only as long as a job is left for it, unless its queue was switched off.
SentOnce ==
    tidy => \A n \in Notices :
        /\ db[n].messages <= 1
        /\ Alone /\ In(n, {"PENDING"}) => db[n].skipped \/ \E j \in Jobs : db[n].left[j] > 0

\* Messages are sent and reported on: the two properties above.
MessagesSound == MessagesTypeOK /\ StatusIsTrue /\ SentOnce
=============================================================================
