------------------------- MODULE MoneyMovementsProofs -------------------------
(***************************************************************************)
(* The rows of payments, refunds and transfers tell the truth, only what   *)
(* was paid is refunded, and no transfer is ordered more often than        *)
(* overlapping requests and faults explain.                                *)
(*                                                                         *)
(* The argument for the first two: the provider only moves on, and what is *)
(* under way, in a webhook or in the answer a request has yet to write, it *)
(* has said (Said).  What it has said stays said, so whatever is written,  *)
(* however late, is true.  For the third: an order that has not been       *)
(* recorded is held by a request that is to record it, or was paid for     *)
(* with a fault; once it is recorded no request begins to order again.     *)
(***************************************************************************)
EXTENDS MoneyMovements, FiniteSetTheorems, TLAPS

\* Where a payment, a refund and a transfer may stand at the provider.
Standing(x) ==
    {"none", "pending"} \cup
        (IF x \in Payments THEN {"success", "failed", "abandoned", "reversed"}
         ELSE IF x \in Refunds THEN {"processed", "failed"}
         ELSE {"success", "failed", "reversed"})

\* The provider has once said this of x.
Said(x, state) ==
    /\ state # "none" /\ provider[x] # "none"
    /\ \/ state \in {"pending", provider[x]}
       \/ state = "success" /\ provider[x] = "reversed"

Received(x) == provider[x] \in {"success", "reversed"}

\* What a status claims of x is so.
Claims(x, state) ==
    /\ state = "SUCCESSFUL" => provider[x] \in {"success", "processed", "reversed"}
    /\ state = "FAILED" => provider[x] \in {"failed", "reversed"} \/ x \in Transfers
    /\ state \in {"ABANDONED", "REVERSED"} => StatusOf(x, provider[x]) = state

CallRecord ==
    [op : {"none", "initialize", "refund", "initiate", "verify"},
     at : {"idle", "ask", "write", "fail"},
     row : Rows \cup {None}, answer : ProviderState]

\* What a request is about and what it carries.
CallTrue(c) ==
    LET x == call[c].row
    IN  /\ call[c].op = "none" => call[c] = Idle
        /\ call[c].op # "none" => x \in Rows /\ call[c].at # "idle"
        /\ call[c].op = "initialize" => x \in Payments /\ call[c].at # "fail"
        /\ call[c].op = "refund" => x \in Refunds /\ Received(PaymentOf[x]) /\ call[c].at # "fail"
        /\ call[c].op = "initiate" => x \in Transfers /\ c \in Calls
        /\ call[c].op = "verify" => call[c].at # "fail"
        /\ call[c].at = "write" => Said(x, call[c].answer)

MoneyInv ==
    /\ MoneyTypeOK
    /\ \A x \in Rows : provider[x] \in Standing(x) /\ Claims(x, status[x])
    /\ \A m \in mail : Said(m.row, m.state)
    /\ \A c \in Calls \cup Sweeps : CallTrue(c)
    /\ RefundsWhatWasPaid

-----------------------------------------------------------------------------
(* What the provider says, and what is recorded of it *)

\* Whatever is said of a row, one of the statuses is recorded.
LEMMA StatusTyped ==
    ASSUME NEW x, NEW state
    PROVE  /\ StatusOf(x, state) \in Status
           /\ RefundStatus(state) \in Status
BY DEF StatusOf, PaymentStatus, RefundStatus, TransferStatus, Status

\* A status recorded of what the provider has said once is so.
LEMMA SaidIsSo ==
    ASSUME NEW x \in Rows, NEW state, provider[x] \in Standing(x), Said(x, state)
    PROVE  Claims(x, StatusOf(x, state))
<1>1. CASE x \in Payments
  <2>1. StatusOf(x, state) = PaymentStatus(state) /\ StatusOf(x, provider[x]) = PaymentStatus(provider[x])
    BY <1>1 DEF StatusOf
  <2>2. state \in {"pending", "success", "failed", "abandoned", "reversed"}
    BY <1>1 DEF Said, Standing
  <2>3. QED
    BY <1>1, <2>1, <2>2 DEF PaymentStatus, Claims, Said, Standing
<1>2. CASE x \in Refunds
  <2>1. x \notin Payments /\ StatusOf(x, state) = RefundStatus(state)
    BY <1>2, MoneyAssumption DEF StatusOf
  <2>2. state \in {"pending", "processed", "failed"} /\ provider[x] \in {"pending", "processed", "failed"}
    BY <1>2, <2>1 DEF Said, Standing
  <2>3. QED
    BY <1>2, <2>1, <2>2 DEF RefundStatus, Claims, Said
<1>3. CASE x \in Transfers
  <2>1. x \notin Payments /\ x \notin Refunds
    BY <1>3, MoneyAssumption
  <2>2. StatusOf(x, state) = TransferStatus(state) /\ StatusOf(x, provider[x]) = TransferStatus(provider[x])
    BY <2>1 DEF StatusOf
  <2>3. state \in {"pending", "success", "failed", "reversed"}
    BY <2>1 DEF Said, Standing
  <2>4. QED
    BY <1>3, <2>1, <2>2, <2>3 DEF TransferStatus, Claims, Said, Standing
<1>4. QED
  BY <1>1, <1>2, <1>3 DEF Rows

\* How the provider moves a row on.
MovesOn(x) ==
    /\ provider'[x] \in Standing(x)
    /\ \/ provider'[x] = provider[x]
       \/ provider[x] \in {"none", "pending"} /\ provider'[x] # "none"
       \/ provider[x] = "success" /\ provider'[x] = "reversed"

\* What was said stays said, and what is so stays so.
LEMMA MovesOnKeeps ==
    ASSUME NEW x \in Rows, provider[x] \in Standing(x), MovesOn(x)
    PROVE  /\ \A state : Said(x, state) => Said(x, state)'
           /\ Received(x) => Received(x)'
           /\ \A state : Claims(x, state) => Claims(x, state)'
<1>1. \A state : Said(x, state) => Said(x, state)'
  BY DEF Said, MovesOn, Standing
<1>2. Received(x) => Received(x)'
  BY DEF Received, MovesOn
<1>3. ASSUME NEW state, Claims(x, state) PROVE Claims(x, state)'
  <2>1. CASE provider'[x] = provider[x]
    <3>1. StatusOf(x, provider[x])' = StatusOf(x, provider[x])
      BY <2>1 DEF StatusOf, PaymentStatus, RefundStatus, TransferStatus
    <3>2. QED
      BY <1>3, <2>1, <3>1 DEF Claims
  <2>2. CASE provider[x] \in {"none", "pending"}
    <3>1. StatusOf(x, provider[x]) = "PENDING"
      BY <2>2 DEF StatusOf, PaymentStatus, RefundStatus, TransferStatus
    <3>2. QED
      BY <1>3, <2>2, <3>1 DEF Claims
  <2>3. CASE provider[x] = "success" /\ provider'[x] = "reversed"
    <3>1. x \notin Refunds
      BY <2>3, MoneyAssumption DEF Standing
    <3>2. StatusOf(x, provider[x]) = "SUCCESSFUL"
      BY <2>3, <3>1 DEF StatusOf, PaymentStatus, TransferStatus
    <3>3. QED
      BY <1>3, <2>3, <3>2 DEF Claims
  <2>4. QED
    BY <2>1, <2>2, <2>3 DEF MovesOn
<1>4. QED
  BY <1>1, <1>2, <1>3

-----------------------------------------------------------------------------
(* Steps *)

\* The parts of a step from which the invariant follows.
LEMMA Assembled ==
    ASSUME MoneyInv, MoneyTypeOK',
           \A x \in Rows : MovesOn(x),
           \A x \in Rows : status'[x] = status[x] \/ Claims(x, status'[x]),
           \A m \in mail' : m \in mail \/ Said(m.row, m.state),
           \A c \in Calls \cup Sweeps : call'[c] = call[c] \/ CallTrue(c)',
           \A x \in Refunds : provider'[x] = provider[x] \/ Received(PaymentOf[x])
    PROVE  MoneyInv'
<1>1. \A x \in Rows : /\ \A state : Said(x, state) => Said(x, state)'
                      /\ Received(x) => Received(x)'
                      /\ \A state : Claims(x, state) => Claims(x, state)'
  BY MovesOnKeeps DEF MoneyInv
<1>2. \A x \in Rows : provider'[x] \in Standing(x) /\ Claims(x, status[x])'
  <2> SUFFICES ASSUME NEW x \in Rows PROVE provider'[x] \in Standing(x) /\ Claims(x, status[x])'
    OBVIOUS
  <2>1. Claims(x, status'[x])
    BY DEF MoneyInv
  <2>2. \A state : Claims(x, state) => Claims(x, state)'
    BY <1>1
  <2>3. PICK state : state = status'[x]
    OBVIOUS
  <2>4. Claims(x, state)
    BY <2>1, <2>3 DEF Claims
  <2>5. Claims(x, status[x])'
    <3>1. Claims(x, state)'
      BY <2>2, <2>4
    <3>2. QED
      BY <2>3, <3>1 DEF Claims
  <2>6. QED
    BY <2>5 DEF MovesOn
<1>3. \A m \in mail' : Said(m.row, m.state)'
  <2> SUFFICES ASSUME NEW m \in mail' PROVE Said(m.row, m.state)'
    OBVIOUS
  <2>1. m.row \in Rows
    BY DEF MoneyTypeOK, Message, Rows
  <2>2. Said(m.row, m.state)
    BY DEF MoneyInv
  <2>3. QED
    BY <1>1, <2>1, <2>2
<1>4. \A c \in Calls \cup Sweeps : CallTrue(c)'
  <2> SUFFICES ASSUME NEW c \in Calls \cup Sweeps, call'[c] = call[c] PROVE CallTrue(c)'
    OBVIOUS
  <2>1. CallTrue(c)
    BY DEF MoneyInv
  <2>2. CASE call[c].op = "none"
    BY <2>1, <2>2 DEF CallTrue, Idle
  <2>3. CASE call[c].op # "none"
    <3>1. call[c].row \in Rows
      BY <2>1, <2>3 DEF CallTrue
    <3>2. call[c].at = "write" => Said(call[c].row, call[c].answer)'
      <4>1. call[c].at = "write" => Said(call[c].row, call[c].answer)
        BY <2>1 DEF CallTrue
      <4>2. PICK x, state : x = call[c].row /\ state = call[c].answer
        OBVIOUS
      <4>3. call[c].at = "write" => Said(x, state)'
        BY <1>1, <3>1, <4>1, <4>2
      <4>4. QED
        BY <4>2, <4>3 DEF Said
    <3>3. call[c].op = "refund" => Received(PaymentOf[call[c].row])'
      <4> SUFFICES ASSUME call[c].op = "refund" PROVE Received(PaymentOf[call[c].row])'
        OBVIOUS
      <4>1. PaymentOf[call[c].row] \in Rows /\ Received(PaymentOf[call[c].row])
        BY <2>1, MoneyAssumption DEF CallTrue, Rows
      <4>2. QED
        BY <1>1, <4>1
    <3>4. QED
      BY <2>1, <2>3, <3>2, <3>3 DEF CallTrue
  <2>4. QED
    BY <2>2, <2>3
<1>5. RefundsWhatWasPaid'
  <2> SUFFICES ASSUME NEW x \in Refunds, provider'[x] # "none"
               PROVE  provider'[PaymentOf[x]] \in {"success", "reversed"}
    BY DEF RefundsWhatWasPaid
  <2>1. PaymentOf[x] \in Rows
    BY MoneyAssumption DEF Rows
  <2>2. Received(PaymentOf[x])
    BY DEF MoneyInv, RefundsWhatWasPaid, Received
  <2>3. QED
    BY <1>1, <2>1, <2>2 DEF Received
<1>6. QED
  BY <1>2, <1>3, <1>4, <1>5 DEF MoneyInv

\* Where the provider is not asked, it says what it said.
LEMMA NothingMoves ==
    ASSUME MoneyInv, UNCHANGED provider
    PROVE  \A x \in Rows : MovesOn(x)
BY DEF MoneyInv, MovesOn

\* One request goes on, the others stay.
LEMMA OneCall ==
    ASSUME MoneyTypeOK, NEW c \in Calls \cup Sweeps, NEW new \in CallRecord,
           call' = [call EXCEPT ![c] = new]
    PROVE  /\ call' \in [Calls \cup Sweeps -> CallRecord]
           /\ call'[c] = new
           /\ \A d \in Calls \cup Sweeps : d # c => call'[d] = call[d]
BY DEF MoneyTypeOK, CallRecord

\* A request that has asked nobody and writes nothing.
LEMMA OnlyTheCall ==
    ASSUME MoneyInv, NEW c \in Calls \cup Sweeps, NEW new \in CallRecord,
           call' = [call EXCEPT ![c] = new], CallTrue(c)',
           UNCHANGED <<status, known, provider, ordered, mail, events>>,
           sweep' \in [Sweeps -> SUBSET Rows], faults' \in 0 .. MaxFaults
    PROVE  MoneyInv'
<1>1. /\ call' \in [Calls \cup Sweeps -> CallRecord]
      /\ \A d \in Calls \cup Sweeps : d # c => call'[d] = call[d]
  BY OneCall DEF MoneyInv
<1>2. MoneyTypeOK'
  BY <1>1 DEF MoneyInv, MoneyTypeOK, CallRecord
<1>3. QED
  BY <1>1, <1>2, NothingMoves, Assembled

\* A request ends.
LEMMA LeaveTrue ==
    ASSUME MoneyInv, NEW c \in Calls \cup Sweeps, Leave(c)
    PROVE  /\ Idle \in CallRecord /\ call' = [call EXCEPT ![c] = Idle] /\ CallTrue(c)'
           /\ call' \in [Calls \cup Sweeps -> CallRecord]
           /\ \A d \in Calls \cup Sweeps : d # c => call'[d] = call[d]
<1>1. Idle \in CallRecord /\ call' = [call EXCEPT ![c] = Idle]
  BY DEF Leave, Idle, CallRecord, ProviderState
<1>2. /\ call' \in [Calls \cup Sweeps -> CallRecord] /\ call'[c] = Idle
      /\ \A d \in Calls \cup Sweeps : d # c => call'[d] = call[d]
  BY <1>1, OneCall DEF MoneyInv
<1>3. QED
  BY <1>1, <1>2 DEF CallTrue, Idle

\* A request begins.
LEMMA BeginsTrue ==
    ASSUME MoneyInv, NEW c \in Calls \cup Sweeps, NEW x \in Rows,
           NEW op \in {"initialize", "refund", "initiate", "verify"}, Enter(c, op, "ask", x),
           op = "initialize" => x \in Payments,
           op = "refund" => x \in Refunds /\ Received(PaymentOf[x]),
           op = "initiate" => x \in Transfers /\ c \in Calls,
           UNCHANGED <<status, known, provider, ordered, mail, events, faults>>,
           sweep' \in [Sweeps -> SUBSET Rows]
    PROVE  MoneyInv'
<1>1. PICK new \in CallRecord : new = [op |-> op, at |-> "ask", row |-> x, answer |-> "none"]
  BY DEF CallRecord, ProviderState
<1>2. call' = [call EXCEPT ![c] = new]
  BY <1>1 DEF Enter
<1>3. call'[c] = new
  BY <1>2, OneCall DEF MoneyInv
<1>4. CallTrue(c)'
  BY <1>1, <1>3 DEF CallTrue, Received
<1>5. QED
  BY <1>2, <1>4, OnlyTheCall DEF MoneyInv, MoneyTypeOK

\* The exception that a request sees.
LEMMA ThrowsTrue ==
    ASSUME MoneyInv, NEW c \in Calls \cup Sweeps, call[c].at = "ask", Throws(c),
           \A x \in Rows : Received(x) => Received(x)'
    PROVE  /\ CallTrue(c)'
           /\ \E new \in CallRecord : call' = [call EXCEPT ![c] = new]
           /\ call' \in [Calls \cup Sweeps -> CallRecord]
           /\ \A d \in Calls \cup Sweeps : d # c => call'[d] = call[d]
<1>1. CASE Leave(c)
  BY <1>1, LeaveTrue
<1>2. CASE call[c].op = "initiate" /\ call' = [call EXCEPT ![c].at = "fail"]
  <2>1. PICK new \in CallRecord : new = [call[c] EXCEPT !.at = "fail"]
    BY DEF MoneyInv, MoneyTypeOK, CallRecord
  <2>2. call' = [call EXCEPT ![c] = new]
    BY <1>2, <2>1
  <2>3. /\ call' \in [Calls \cup Sweeps -> CallRecord] /\ call'[c] = new
        /\ \A d \in Calls \cup Sweeps : d # c => call'[d] = call[d]
    BY <2>2, OneCall DEF MoneyInv
  <2>4. CallTrue(c) /\ new.op = "initiate" /\ new.at = "fail" /\ new.row = call[c].row
    BY <1>2, <2>1 DEF MoneyInv, CallRecord, MoneyTypeOK
  <2>5. CallTrue(c)'
    BY <1>2, <2>3, <2>4 DEF CallTrue
  <2>6. QED
    BY <2>2, <2>3, <2>5
<1>3. QED
  BY <1>1, <1>2 DEF Throws

\* The answer that a request has received: the provider said it.
LEMMA AnsweredTrue ==
    ASSUME MoneyInv, NEW c \in Calls \cup Sweeps, call[c].at = "ask",
           NEW state \in ProviderState, Answered(c, state),
           Said(call[c].row, state)', \A x \in Rows : Received(x) => Received(x)'
    PROVE  /\ CallTrue(c)'
           /\ \E new \in CallRecord : call' = [call EXCEPT ![c] = new]
           /\ call' \in [Calls \cup Sweeps -> CallRecord]
           /\ \A d \in Calls \cup Sweeps : d # c => call'[d] = call[d]
<1>1. PICK new \in CallRecord : new = [call[c] EXCEPT !.at = "write", !.answer = state]
  BY DEF MoneyInv, MoneyTypeOK, CallRecord
<1>2. call' = [call EXCEPT ![c] = new]
  BY <1>1 DEF Answered
<1>3. /\ call' \in [Calls \cup Sweeps -> CallRecord] /\ call'[c] = new
      /\ \A d \in Calls \cup Sweeps : d # c => call'[d] = call[d]
  BY <1>2, OneCall DEF MoneyInv
<1>4. /\ CallTrue(c)
      /\ new.op = call[c].op /\ new.at = "write" /\ new.row = call[c].row /\ new.answer = state
  BY <1>1 DEF MoneyInv, CallRecord, MoneyTypeOK
<1>5. call[c].op \in {"initialize", "refund", "initiate", "verify"} /\ call[c].row \in Rows
  BY <1>4 DEF CallTrue, Idle, MoneyInv, MoneyTypeOK
<1>6. call[c].op = "refund" => Received(PaymentOf[call[c].row])'
  BY <1>3, <1>4, MoneyAssumption DEF CallTrue, Rows
<1>7. CallTrue(c)'
  BY <1>3, <1>4, <1>5, <1>6 DEF CallTrue
<1>8. QED
  BY <1>2, <1>3, <1>7

-----------------------------------------------------------------------------
(* The provider's own steps, and what becomes of a request to it *)

\* A row that the provider knows moves on.
LEMMA ProviderMoves ==
    ASSUME MoneyInv, NEW x \in Rows, NEW state \in Standing(x) \cap ProviderState,
           provider' = [provider EXCEPT ![x] = state],
           \/ provider[x] = "pending" /\ state # "none"
           \/ provider[x] = "success" /\ state = "reversed",
           UNCHANGED <<status, known, ordered, mail, events, call, sweep, faults>>
    PROVE  MoneyInv'
<1>1. MoneyTypeOK'
  BY DEF MoneyInv, MoneyTypeOK
<1>2. \A y \in Rows : MovesOn(y)
  BY DEF MoneyInv, MoneyTypeOK, MovesOn
<1>3. \A y \in Refunds : provider'[y] = provider[y] \/ Received(PaymentOf[y])
  BY DEF MoneyInv, MoneyTypeOK, RefundsWhatWasPaid, Received, Rows
<1>4. QED
  BY <1>1, <1>2, <1>3, Assembled

LEMMA SettleKeeps ==
    ASSUME MoneyInv, NEW x \in Rows, Settle(x) \/ (x \in Payments \cup Transfers /\ Reverse(x))
    PROVE  MoneyInv'
<1>1. CASE Settle(x)
  <2>1. PICK state : /\ state \in (IF x \in Refunds THEN {"processed", "failed"}
                                   ELSE IF x \in Payments THEN {"success", "failed", "abandoned"}
                                   ELSE {"success", "failed"})
                     /\ provider' = [provider EXCEPT ![x] = state]
    BY <1>1 DEF Settle
  <2>2. state \in Standing(x) \cap ProviderState /\ state # "none"
    BY <2>1, MoneyAssumption DEF Standing, ProviderState
  <2>3. QED
    BY <1>1, <2>1, <2>2, ProviderMoves DEF Settle, rowVars
<1>2. CASE x \in Payments \cup Transfers /\ Reverse(x)
  <2>1. "reversed" \in Standing(x) \cap ProviderState
    BY <1>2, MoneyAssumption DEF Standing, ProviderState
  <2>2. QED
    BY <1>2, <2>1, ProviderMoves DEF Reverse, rowVars
<1>3. QED
  BY <1>1, <1>2

\* A webhook tells what the provider says when it is sent.
LEMMA NotifyKeeps ==
    ASSUME MoneyInv, NEW x \in Payments \cup Refunds, Notify(x)
    PROVE  MoneyInv'
<1>1. provider[x] \in ProviderState /\ x \in Rows
  BY DEF MoneyInv, MoneyTypeOK, Rows
<1>2. Said(x, provider[x])
  BY DEF Notify, Said
<1>3. MoneyTypeOK'
  BY <1>1, MoneyAssumption DEF Notify, rowVars, MoneyInv, MoneyTypeOK, Message
<1>4. UNCHANGED <<status, provider, call>>
  BY DEF Notify, rowVars
<1>5. \A m \in mail' : m \in mail \/ Said(m.row, m.state)
  BY <1>2 DEF Notify
<1>6. QED
  BY <1>3, <1>4, <1>5, NothingMoves, Assembled

LEMMA LoseKeeps ==
    ASSUME MoneyInv, NEW m \in mail, LoseWebhook(m)
    PROVE  MoneyInv'
<1>1. MoneyTypeOK' /\ UNCHANGED <<status, provider, call>> /\ \A n \in mail' : n \in mail
  BY DEF LoseWebhook, rowVars, MoneyInv, MoneyTypeOK
<1>2. QED
  BY <1>1, NothingMoves, Assembled

\* A request reaches the provider: it answers, or the answer is lost.
LEMMA RepliesKeeps ==
    ASSUME MoneyInv, NEW c \in Calls, call[c].at = "ask", call[c].op # "verify",
           NEW state \in ProviderState, Replies(c, state), state # "none",
           state \in Standing(call[c].row), provider[call[c].row] \in {"none", state},
           ordered' \in [Transfers -> Nat],
           UNCHANGED <<status, known, mail, events, sweep>>
    PROVE  MoneyInv'
<1>1. PICK x : x = call[c].row
  OBVIOUS
<1>2. CallTrue(c) /\ call[c].op # "none"
  BY DEF MoneyInv, CallTrue, Idle
<1>3. x \in Rows /\ (x \in Refunds /\ provider[x] = "none" => call[c].op # "initialize" /\ call[c].op # "initiate")
  BY <1>1, <1>2, MoneyAssumption DEF CallTrue
<1>4. provider' = [provider EXCEPT ![x] = state]
  BY <1>1 DEF Replies
<1>5. \A y \in Rows : MovesOn(y)
  BY <1>1, <1>3, <1>4 DEF MoneyInv, MoneyTypeOK, MovesOn
<1>6. \A y \in Rows : Received(y) => Received(y)'
  BY <1>5, MovesOnKeeps DEF MoneyInv
<1>7. Said(x, state)'
  BY <1>3, <1>4 DEF Said, MoneyInv, MoneyTypeOK
<1>8. /\ CallTrue(c)'
      /\ call' \in [Calls \cup Sweeps -> CallRecord]
      /\ \A d \in Calls \cup Sweeps : d # c => call'[d] = call[d]
      /\ faults' \in 0 .. MaxFaults
  <2>1. CASE Answered(c, state) /\ UNCHANGED faults
    <3>1. call'[c].row = x
      BY <1>1, <2>1 DEF Answered, MoneyInv, MoneyTypeOK
    <3>2. Said(call[c].row, state)'
      BY <1>7, <3>1 DEF Said
    <3>3. QED
      BY <1>6, <2>1, <3>2, AnsweredTrue DEF MoneyInv, MoneyTypeOK
  <2>2. CASE Fault /\ Throws(c)
    <3>1. faults' \in 0 .. MaxFaults
      BY <2>2, MoneyAssumption DEF Fault, MoneyInv, MoneyTypeOK
    <3>2. QED
      BY <1>6, <2>2, <3>1, ThrowsTrue
  <2>3. QED
    BY <2>1, <2>2 DEF Replies
<1>9. MoneyTypeOK'
  BY <1>4, <1>8 DEF MoneyInv, MoneyTypeOK, CallRecord
<1>10. \A y \in Refunds : provider'[y] = provider[y] \/ Received(PaymentOf[y])
  <2> SUFFICES ASSUME NEW y \in Refunds, provider'[y] # provider[y] PROVE Received(PaymentOf[y])
    OBVIOUS
  <2>1. y \in Rows /\ provider \in [Rows -> ProviderState]
    BY DEF MoneyInv, MoneyTypeOK, Rows
  <2>2. y = x
    BY <1>4, <2>1
  <2>3. provider[x] = "none"
    BY <1>1, <1>3, <1>4, <2>1, <2>2
  <2>4. call[c].op = "refund"
    BY <1>2, <1>3, <2>2, <2>3 DEF MoneyInv, MoneyTypeOK
  <2>5. QED
    BY <1>1, <1>2, <2>2, <2>4 DEF CallTrue
<1>11. QED
  BY <1>5, <1>8, <1>9, <1>10, Assembled

-----------------------------------------------------------------------------
(* PaymentsService, BankTransferService and the sweeps *)

LEMMA AskInitializeKeeps ==
    ASSUME MoneyInv, NEW c \in Calls, AskInitialize(c)
    PROVE  MoneyInv'
<1>1. call[c].at = "ask" /\ call[c].op = "initialize" /\ Replies(c, "pending")
  BY DEF AskInitialize, At
<1>2. "pending" \in ProviderState /\ "pending" \in Standing(call[c].row)
  BY DEF ProviderState, Standing
<1>3. /\ ordered' \in [Transfers -> Nat] /\ provider[call[c].row] = "none"
      /\ UNCHANGED <<status, known, mail, events, sweep>>
  BY DEF AskInitialize, rowVars, MoneyInv, MoneyTypeOK
<1>4. QED
  BY <1>1, <1>2, <1>3, RepliesKeeps

LEMMA AskRefundKeeps ==
    ASSUME MoneyInv, NEW c \in Calls, AskRefund(c)
    PROVE  MoneyInv'
<1>1. call[c].at = "ask" /\ call[c].op = "refund" /\ provider[call[c].row] = "none"
  BY DEF AskRefund, At
<1>2. PICK state \in {"pending", "processed"} : Replies(c, state)
  BY DEF AskRefund
<1>3. call[c].row \in Refunds /\ call[c].row \notin Payments
  BY <1>1, MoneyAssumption DEF MoneyInv, CallTrue
<1>4. state \in ProviderState /\ state \in Standing(call[c].row)
  BY <1>3 DEF ProviderState, Standing
<1>5. /\ ordered' \in [Transfers -> Nat]
      /\ UNCHANGED <<status, known, mail, events, sweep>>
  BY DEF AskRefund, rowVars, MoneyInv, MoneyTypeOK
<1>6. QED
  BY <1>1, <1>2, <1>4, <1>5, RepliesKeeps

LEMMA AskInitiateKeeps ==
    ASSUME MoneyInv, NEW c \in Calls, AskInitiate(c)
    PROVE  MoneyInv'
<1>1. call[c].at = "ask" /\ call[c].op = "initiate"
  BY DEF AskInitiate, At
<1>2. PICK x : x = call[c].row
  OBVIOUS
<1>3. x \in Transfers /\ x \in Rows /\ x \notin Payments /\ x \notin Refunds
  BY <1>1, <1>2, MoneyAssumption DEF MoneyInv, CallTrue, Rows
<1>4. PICK state \in IF provider[x] = "none" THEN {"pending", "success", "failed"} ELSE {provider[x]} :
          Replies(c, state)
  BY <1>2 DEF AskInitiate
<1>5. /\ state \in ProviderState /\ state \in Standing(x)
      /\ state # "none" /\ provider[x] \in {"none", state}
  BY <1>3, <1>4 DEF ProviderState, Standing, MoneyInv, MoneyTypeOK
<1>6. /\ ordered' \in [Transfers -> Nat]
      /\ UNCHANGED <<status, known, mail, events, sweep>>
  BY <1>2, <1>3 DEF AskInitiate, rowVars, MoneyInv, MoneyTypeOK
<1>7. QED
  BY <1>1, <1>2, <1>4, <1>5, <1>6, RepliesKeeps

LEMMA AskFailsKeeps ==
    ASSUME MoneyInv, NEW c \in Calls \cup Sweeps, AskFails(c)
    PROVE  MoneyInv'
<1>1. call[c].at = "ask" /\ Throws(c) /\ UNCHANGED provider
  BY DEF AskFails, providerVars
<1>2. \A x \in Rows : Received(x) => Received(x)'
  BY <1>1 DEF Received
<1>3. CallTrue(c)' /\ \E new \in CallRecord : call' = [call EXCEPT ![c] = new]
  BY <1>1, <1>2, ThrowsTrue
<1>4. UNCHANGED <<status, known, provider, ordered, mail, events, sweep, faults>>
  BY DEF AskFails, rowVars, providerVars
<1>5. QED
  BY <1>3, <1>4, OnlyTheCall DEF MoneyInv, MoneyTypeOK

LEMMA AskVerifyKeeps ==
    ASSUME MoneyInv, NEW c \in Calls \cup Sweeps, AskVerify(c)
    PROVE  MoneyInv'
<1>1. /\ call[c].at = "ask" /\ call[c].op = "verify"
      /\ UNCHANGED <<status, known, provider, ordered, mail, events, sweep, faults>>
  BY DEF AskVerify, At, rowVars, providerVars
<1>2. PICK x, state : x = call[c].row /\ state = provider[x]
  OBVIOUS
<1>3. x \in Rows /\ state \in ProviderState /\ state # "none" /\ Answered(c, state)
  BY <1>1, <1>2 DEF AskVerify, MoneyInv, MoneyTypeOK, CallTrue
<1>4. Said(x, state)'
  BY <1>1, <1>2, <1>3 DEF Said
<1>5. call'[c].row = x
  BY <1>2, <1>3 DEF Answered, MoneyInv, MoneyTypeOK
<1>6. Said(call[c].row, state)'
  BY <1>4, <1>5 DEF Said
<1>7. \A y \in Rows : Received(y) => Received(y)'
  BY <1>1 DEF Received
<1>8. CallTrue(c)' /\ \E new \in CallRecord : call' = [call EXCEPT ![c] = new]
  BY <1>1, <1>3, <1>6, <1>7, AnsweredTrue
<1>9. QED
  BY <1>1, <1>8, OnlyTheCall DEF MoneyInv, MoneyTypeOK

\* A request writes a status that is so, and ends.
LEMMA StatusKeeps ==
    ASSUME MoneyInv, NEW c \in Calls \cup Sweeps, NEW x \in Rows, NEW state \in Status,
           status' = [status EXCEPT ![x] = state], Claims(x, state) \/ state = status[x],
           Leave(c), known' \subseteq Transfers,
           UNCHANGED <<provider, ordered, mail, events, sweep, faults>>
    PROVE  MoneyInv'
<1>1. /\ CallTrue(c)' /\ call' \in [Calls \cup Sweeps -> CallRecord]
      /\ \A d \in Calls \cup Sweeps : d # c => call'[d] = call[d]
  BY LeaveTrue
<1>2. MoneyTypeOK'
  BY <1>1 DEF MoneyInv, MoneyTypeOK, CallRecord
<1>3. \A y \in Rows : status'[y] = status[y] \/ Claims(y, status'[y])
  <2> SUFFICES ASSUME NEW y \in Rows, status'[y] # status[y] PROVE Claims(y, status'[y])
    OBVIOUS
  <2>1. y = x /\ status'[y] = state /\ state # status[x]
    BY DEF MoneyInv, MoneyTypeOK
  <2>2. QED
    BY <2>1
<1>4. QED
  BY <1>1, <1>2, <1>3, NothingMoves, Assembled

LEMMA InsertPaymentKeeps ==
    ASSUME MoneyInv, NEW c \in Calls, InsertPayment(c)
    PROVE  MoneyInv'
<1>1. PICK x : x = call[c].row
  OBVIOUS
<1>2. x \in Rows
  BY <1>1 DEF InsertPayment, At, MoneyInv, CallTrue
<1>3. PICK state : state = IF status[x] = "ABSENT" THEN "PENDING" ELSE status[x]
  OBVIOUS
<1>4. state \in Status /\ status' = [status EXCEPT ![x] = state]
  BY <1>1, <1>2, <1>3 DEF InsertPayment, MoneyInv, MoneyTypeOK, Status
<1>5. Claims(x, state) \/ state = status[x]
  BY <1>3 DEF Claims
<1>6. /\ Leave(c) /\ known' \subseteq Transfers
      /\ UNCHANGED <<provider, ordered, mail, events, sweep, faults>>
  BY DEF InsertPayment, providerVars, MoneyInv, MoneyTypeOK
<1>7. QED
  BY <1>2, <1>4, <1>5, <1>6, StatusKeeps

LEMMA InsertRefundKeeps ==
    ASSUME MoneyInv, NEW c \in Calls, InsertRefund(c)
    PROVE  MoneyInv'
<1>1. PICK x, state : x = call[c].row /\ state = call[c].answer
  OBVIOUS
<1>2. x \in Rows /\ x \in Refunds /\ x \notin Payments /\ Said(x, state)
  BY <1>1, MoneyAssumption DEF InsertRefund, At, MoneyInv, CallTrue
<1>3. StatusOf(x, state) = RefundStatus(state)
  BY <1>2 DEF StatusOf
<1>4. Claims(x, RefundStatus(state)) /\ RefundStatus(state) \in Status
  BY <1>2, <1>3, SaidIsSo, StatusTyped DEF MoneyInv
<1>5. status' = [status EXCEPT ![x] = RefundStatus(state)]
  BY <1>1 DEF InsertRefund
<1>6. /\ Leave(c) /\ known' \subseteq Transfers
      /\ UNCHANGED <<provider, ordered, mail, events, sweep, faults>>
  BY DEF InsertRefund, providerVars, MoneyInv, MoneyTypeOK
<1>7. QED
  BY <1>2, <1>4, <1>5, <1>6, StatusKeeps

\* What a verification, or an initiation, has been told is written.
LEMMA WriteKeeps ==
    ASSUME MoneyInv, NEW c \in Calls \cup Sweeps, call[c].at = "write", WriteStatus(c),
           call[c].row \in Rows, known' \subseteq Transfers
    PROVE  MoneyInv'
<1>1. PICK x, state : x = call[c].row /\ state = call[c].answer
  OBVIOUS
<1>2. x \in Rows /\ Said(x, state)
  BY <1>1 DEF MoneyInv, CallTrue
<1>3. Claims(x, StatusOf(x, state)) /\ StatusOf(x, state) \in Status
  BY <1>2, SaidIsSo, StatusTyped DEF MoneyInv
<1>4. status' = [status EXCEPT ![x] = StatusOf(x, state)]
  BY <1>1 DEF WriteStatus
<1>5. Leave(c) /\ UNCHANGED <<provider, ordered, mail, events, sweep, faults>>
  BY DEF WriteStatus, providerVars
<1>6. QED
  BY <1>2, <1>3, <1>4, <1>5, StatusKeeps

LEMMA MarkFailedKeeps ==
    ASSUME MoneyInv, NEW c \in Calls, MarkFailed(c)
    PROVE  MoneyInv'
<1>1. PICK x : x = call[c].row
  OBVIOUS
<1>2. x \in Rows /\ x \in Transfers
  BY <1>1 DEF MarkFailed, At, MoneyInv, CallTrue
<1>3. Claims(x, "FAILED") /\ "FAILED" \in Status /\ status' = [status EXCEPT ![x] = "FAILED"]
  BY <1>1, <1>2 DEF MarkFailed, Claims, Status
<1>4. /\ Leave(c) /\ known' \subseteq Transfers
      /\ UNCHANGED <<provider, ordered, mail, events, sweep, faults>>
  BY DEF MarkFailed, providerVars, MoneyInv, MoneyTypeOK
<1>5. QED
  BY <1>2, <1>3, <1>4, StatusKeeps

\* A webhook, however old, is written over whatever the row says.
LEMMA DeliverKeeps ==
    ASSUME MoneyInv, NEW m \in mail, Deliver(m)
    PROVE  MoneyInv'
<1>1. PICK x, state : x = m.row /\ state = m.state
  OBVIOUS
<1>2. x \in Rows /\ Said(x, state)
  BY <1>1 DEF MoneyInv, MoneyTypeOK, Message, Rows
<1>3. Claims(x, StatusOf(x, state)) /\ StatusOf(x, state) \in Status
  BY <1>2, SaidIsSo, StatusTyped DEF MoneyInv
<1>4. status' = [status EXCEPT ![x] = IF status[x] = "ABSENT" THEN status[x] ELSE StatusOf(x, state)]
  BY <1>1, <1>2 DEF Deliver, MoneyInv, MoneyTypeOK
<1>5. /\ mail' \subseteq mail /\ faults' \in 0 .. MaxFaults
      /\ UNCHANGED <<known, provider, ordered, events, call, sweep>>
  BY MoneyAssumption DEF Deliver, Fault, MoneyInv, MoneyTypeOK
<1>6. MoneyTypeOK'
  BY <1>2, <1>3, <1>4, <1>5 DEF MoneyInv, MoneyTypeOK
<1>7. \A y \in Rows : status'[y] = status[y] \/ Claims(y, status'[y])
  <2> SUFFICES ASSUME NEW y \in Rows, status'[y] # status[y] PROVE Claims(y, status'[y])
    OBVIOUS
  <2>1. y = x /\ status'[y] = StatusOf(x, state)
    BY <1>4 DEF MoneyInv, MoneyTypeOK
  <2>2. QED
    BY <1>3, <2>1
<1>8. QED
  BY <1>5, <1>6, <1>7, NothingMoves, Assembled

LEMMA CreateRecordKeeps ==
    ASSUME MoneyInv, NEW x \in Transfers, CreateRecord(x)
    PROVE  MoneyInv'
<1>1. /\ status' = [status EXCEPT ![x] = "PENDING"] /\ x \in Rows /\ "PENDING" \in Status
      /\ UNCHANGED <<known, provider, ordered, mail, events, call, sweep, faults>>
  BY DEF CreateRecord, providerVars, Rows, Status
<1>2. MoneyTypeOK'
  BY <1>1 DEF MoneyInv, MoneyTypeOK
<1>3. \A y \in Rows : status'[y] = status[y] \/ Claims(y, status'[y])
  BY <1>1 DEF MoneyInv, MoneyTypeOK, Claims
<1>4. QED
  BY <1>1, <1>2, <1>3, NothingMoves, Assembled

\* A request begins about a row that it found in the status it needs.
LEMMA BeginKeeps ==
    ASSUME MoneyInv, NEW c \in Calls, NEW x \in Rows,
           \/ x \in Payments /\ BeginInitialize(c, x)
           \/ x \in Refunds /\ BeginRefund(c, x)
           \/ x \in Transfers /\ BeginInitiate(c, x)
           \/ BeginVerify(c, x)
    PROVE  MoneyInv'
<1>1. /\ UNCHANGED <<status, known, provider, ordered, mail, events, sweep, faults>>
      /\ sweep' \in [Sweeps -> SUBSET Rows]
  BY DEF BeginInitialize, BeginRefund, BeginInitiate, BeginVerify, rowVars, providerVars, MoneyInv, MoneyTypeOK
<1>2. CASE x \in Payments /\ BeginInitialize(c, x)
  BY <1>1, <1>2, BeginsTrue DEF BeginInitialize
<1>3. CASE x \in Refunds /\ BeginRefund(c, x)
  <2>1. PaymentOf[x] \in Payments /\ PaymentOf[x] \in Rows /\ PaymentOf[x] \notin Refunds
    BY <1>3, MoneyAssumption DEF Rows
  <2>2. Received(PaymentOf[x])
    BY <1>3, <2>1 DEF BeginRefund, MoneyInv, Claims, Received, Standing
  <2>3. QED
    BY <1>1, <1>3, <2>2, BeginsTrue DEF BeginRefund
<1>4. CASE x \in Transfers /\ BeginInitiate(c, x)
  BY <1>1, <1>4, BeginsTrue DEF BeginInitiate
<1>5. CASE BeginVerify(c, x)
  BY <1>1, <1>5, BeginsTrue DEF BeginVerify
<1>6. QED
  BY <1>2, <1>3, <1>4, <1>5

LEMMA StopKeeps ==
    ASSUME MoneyInv, NEW c \in Calls \cup Sweeps, Stop(c)
    PROVE  MoneyInv'
<1>1. /\ Leave(c) /\ faults' \in 0 .. MaxFaults
      /\ UNCHANGED <<status, known, provider, ordered, mail, events, sweep>>
  BY MoneyAssumption DEF Stop, Fault, rowVars, providerVars, MoneyInv, MoneyTypeOK
<1>2. Idle \in CallRecord /\ call' = [call EXCEPT ![c] = Idle] /\ CallTrue(c)'
  BY <1>1, LeaveTrue
<1>3. QED
  BY <1>1, <1>2, OnlyTheCall DEF MoneyInv, MoneyTypeOK

LEMMA SweepKeeps ==
    ASSUME MoneyInv, NEW s \in Sweeps, StartSweep(s) \/ \E x \in Rows : SweepRow(s, x)
    PROVE  MoneyInv'
<1>1. UNCHANGED <<status, known, provider, ordered, mail, events, faults>>
  BY DEF StartSweep, SweepRow, rowVars, providerVars
<1>2. sweep' \in [Sweeps -> SUBSET Rows]
  BY DEF StartSweep, SweepRow, Swept, Rows, MoneyInv, MoneyTypeOK
<1>3. CASE UNCHANGED call
  <2>1. MoneyTypeOK'
    BY <1>1, <1>2, <1>3 DEF MoneyInv, MoneyTypeOK
  <2>2. QED
    BY <1>1, <1>3, <2>1, NothingMoves, Assembled
<1>4. ASSUME NEW x \in Rows, Enter(s, "verify", "ask", x)
      PROVE  MoneyInv'
  BY <1>1, <1>2, <1>4, BeginsTrue
<1>5. QED
  BY <1>3, <1>4 DEF StartSweep, SweepRow

LEMMA MoneyInitInv == MoneyInit => MoneyInv
<1> SUFFICES ASSUME MoneyInit PROVE MoneyInv
  OBVIOUS
<1>1. /\ status = [x \in Rows |-> "ABSENT"] /\ provider = [x \in Rows |-> "none"]
      /\ call = [c \in Calls \cup Sweeps |-> Idle] /\ mail = {}
  BY DEF MoneyInit
<1>2. MoneyTypeOK
  BY MoneyAssumption DEF MoneyInit, MoneyTypeOK, Status, ProviderState, Idle
<1>3. \A c \in Calls \cup Sweeps : CallTrue(c)
  BY <1>1 DEF CallTrue, Idle
<1>4. RefundsWhatWasPaid
  BY <1>1 DEF RefundsWhatWasPaid, Rows
<1>5. QED
  BY <1>1, <1>2, <1>3, <1>4 DEF MoneyInv, Standing, Claims

LEMMA MoneyStep == MoneyInv /\ [MoneyNext]_moneyVars => MoneyInv'
<1> SUFFICES ASSUME MoneyInv, [MoneyNext]_moneyVars PROVE MoneyInv'
  OBVIOUS
<1>1. ASSUME NEW x \in Rows, Settle(x) \/ (x \in Payments \cup Transfers /\ Reverse(x))
      PROVE  MoneyInv'
  BY <1>1, SettleKeeps
<1>2. ASSUME NEW x \in Payments \cup Refunds, Notify(x) PROVE MoneyInv'
  BY <1>2, NotifyKeeps
<1>3. ASSUME NEW m \in mail, Deliver(m) \/ LoseWebhook(m) PROVE MoneyInv'
  BY <1>3, DeliverKeeps, LoseKeeps
<1>4. ASSUME NEW x \in Transfers, CreateRecord(x) PROVE MoneyInv'
  BY <1>4, CreateRecordKeeps
<1>5. ASSUME NEW c \in Calls, NEW x \in Rows,
             \/ x \in Payments /\ BeginInitialize(c, x)
             \/ x \in Refunds /\ BeginRefund(c, x)
             \/ x \in Transfers /\ BeginInitiate(c, x)
             \/ BeginVerify(c, x)
      PROVE  MoneyInv'
  BY <1>5, BeginKeeps
<1>6. ASSUME NEW c \in Calls,
             \/ AskInitialize(c) \/ AskRefund(c) \/ AskInitiate(c)
             \/ InsertPayment(c) \/ InsertRefund(c) \/ MarkFailed(c)
      PROVE  MoneyInv'
  BY <1>6, AskInitializeKeeps, AskRefundKeeps, AskInitiateKeeps, InsertPaymentKeeps,
     InsertRefundKeeps, MarkFailedKeeps
<1>7. ASSUME NEW c \in Calls \cup Sweeps, WritePayment(c) \/ WriteRefund(c) \/ ApplyProviderResult(c)
      PROVE  MoneyInv'
  BY <1>7, WriteKeeps DEF WritePayment, WriteRefund, ApplyProviderResult, At, Rows, MoneyInv, MoneyTypeOK
<1>8. ASSUME NEW c \in Calls \cup Sweeps, AskVerify(c) \/ AskFails(c) \/ Stop(c)
      PROVE  MoneyInv'
  BY <1>8, AskVerifyKeeps, AskFailsKeeps, StopKeeps
<1>9. ASSUME NEW s \in Sweeps, StartSweep(s) \/ \E x \in Rows : SweepRow(s, x)
      PROVE  MoneyInv'
  BY <1>9, SweepKeeps
<1>10. CASE UNCHANGED moneyVars
  <2>1. MoneyTypeOK' /\ UNCHANGED <<status, provider, mail, call>>
    BY <1>10 DEF moneyVars, MoneyInv, MoneyTypeOK
  <2>2. QED
    BY <2>1, NothingMoves, Assembled
<1>11. QED
  BY <1>1, <1>2, <1>3, <1>4, <1>5, <1>6, <1>7, <1>8, <1>9, <1>10
     DEF MoneyNext, ApplyWebhookEvent, ApplyRefundWebhookEvent, Rows

\* Whatever is lost, late, repeated or out of order, and however many requests
\* overlap, no row of payments, refunds or transfers tells of an outcome that the
\* provider never reached.
THEOREM RowsTellTheTruth == MoneySpec => []Truthful
<1>1. MoneyInv => Truthful
  BY DEF MoneyInv, Truthful, Claims
<1>2. QED
  BY <1>1, MoneyInitInv, MoneyStep, PTL DEF MoneySpec

\* The provider is never told to refund a payment that it did not receive,
\* although the handler read the status of the payment long before.
THEOREM RefundsReturnWhatWasPaid == MoneySpec => []RefundsWhatWasPaid
<1>1. MoneyInv => RefundsWhatWasPaid
  BY DEF MoneyInv
<1>2. QED
  BY <1>1, MoneyInitInv, MoneyStep, PTL DEF MoneySpec

-----------------------------------------------------------------------------
(* How often a transfer is ordered *)

\* The requests that are still to order a transfer, and those that have ordered
\* it and have yet to record the answer.
Asking(x) == {c \in Calls : At(c, "initiate", "ask") /\ call[c].row = x}
Placed(x) == {c \in Calls : At(c, "initiate", "write") /\ call[c].row = x}

\* No request begins to order a transfer once an order is recorded.
OrderBound(x) ==
    IF x \in known THEN ordered[x] + Cardinality(Asking(x)) <= Cardinality(Calls) + faults
    ELSE ordered[x] <= Cardinality(Placed(x)) + faults

OrderInv == MoneyInv /\ \A x \in Transfers : OrderBound(x)

\* One element comes or goes.
LEMMA OneElement ==
    ASSUME NEW S, IsFiniteSet(S), NEW T, NEW c, S \ {c} = T \ {c}
    PROVE  /\ IsFiniteSet(T) /\ Cardinality(S) \in Nat /\ Cardinality(T) \in Nat
           /\ c \in S /\ c \notin T => Cardinality(T) = Cardinality(S) - 1
           /\ c \notin S /\ c \in T => Cardinality(T) = Cardinality(S) + 1
           /\ (c \in S <=> c \in T) => Cardinality(T) = Cardinality(S)
<1>1. CASE c \in S /\ c \notin T
  <2>1. T = S \ {c}
    BY <1>1
  <2>2. QED
    BY <1>1, <2>1, FS_RemoveElement, FS_CardinalityType
<1>2. CASE c \notin S /\ c \in T
  <2>1. T = S \cup {c}
    BY <1>2
  <2>2. QED
    BY <1>2, <2>1, FS_AddElement, FS_CardinalityType
<1>3. CASE c \in S <=> c \in T
  <2>1. S = T
    BY <1>3
  <2>2. QED
    BY <2>1, FS_CardinalityType
<1>4. QED
  BY <1>1, <1>2, <1>3

\* A request either asks or has been answered.
LEMMA AskingOrPlaced ==
    ASSUME NEW x
    PROVE  /\ IsFiniteSet(Asking(x)) /\ IsFiniteSet(Placed(x))
           /\ Cardinality(Asking(x)) \in Nat /\ Cardinality(Placed(x)) \in Nat
           /\ Cardinality(Calls) \in Nat
           /\ Cardinality(Asking(x)) + Cardinality(Placed(x)) <= Cardinality(Calls)
<1>1. /\ IsFiniteSet(Calls) /\ Asking(x) \in SUBSET Calls /\ Placed(x) \in SUBSET Calls
      /\ Asking(x) \cup Placed(x) \in SUBSET Calls
  BY MoneyAssumption DEF Asking, Placed
<1>2. Asking(x) \cap Placed(x) = {}
  BY DEF Asking, Placed, At
<1>3. IsFiniteSet(Asking(x)) /\ IsFiniteSet(Placed(x))
  BY <1>1, FS_Subset
<1>4. Cardinality(Asking(x) \cup Placed(x)) <= Cardinality(Calls)
  BY <1>1, FS_Subset
<1>5. Cardinality(Asking(x) \cup Placed(x)) = Cardinality(Asking(x)) + Cardinality(Placed(x)) - Cardinality({})
  BY <1>2, <1>3, FS_Union
<1>6. QED
  BY <1>1, <1>3, <1>4, <1>5, FS_CardinalityType, FS_EmptySet

\* The step of one request: it may leave the requests that have ordered x only
\* by recording the answer or by a fault, and it may order x once.
LEMMA OrderKeeps ==
    ASSUME MoneyTypeOK, MoneyTypeOK', NEW c, NEW x \in Transfers, OrderBound(x),
           \A d \in Calls : d # c => call'[d] = call[d],
           known \subseteq known', faults' \in {faults, faults + 1},
           \/ /\ ordered'[x] = ordered[x]
              /\ c \in Asking(x)' => c \in Asking(x) \/ x \notin known'
              /\ c \in Placed(x) => c \in Placed(x)' \/ faults' = faults + 1 \/ x \in known'
           \/ /\ ordered'[x] = ordered[x] + 1 /\ (x \in known' => x \in known)
              /\ c \in Asking(x) /\ c \notin Asking(x)'
              /\ c \in Placed(x)' \/ faults' = faults + 1
    PROVE  OrderBound(x)'
<1> DEFINE a == Cardinality(Asking(x))
           p == Cardinality(Placed(x))
           n == Cardinality(Calls)
           a1 == Cardinality(Asking(x)')
           p1 == Cardinality(Placed(x)')
<1>1. Asking(x) \ {c} = Asking(x)' \ {c} /\ Placed(x) \ {c} = Placed(x)' \ {c}
  BY DEF Asking, Placed, At
<1>2. a \in Nat /\ p \in Nat /\ n \in Nat /\ a + p <= n
  BY AskingOrPlaced
<1>3. /\ a1 \in Nat
      /\ c \in Asking(x) /\ c \notin Asking(x)' => a1 = a - 1
      /\ (c \in Asking(x)' => c \in Asking(x)) => a1 <= a
  BY <1>1, AskingOrPlaced, OneElement
<1>4. /\ p1 \in Nat
      /\ c \notin Placed(x) /\ c \in Placed(x)' => p1 = p + 1
      /\ (c \in Placed(x) => c \in Placed(x)') => p1 >= p
      /\ p1 >= p - 1
  BY <1>1, AskingOrPlaced, OneElement
<1>5. c \in Asking(x) => c \notin Placed(x)
  BY DEF Asking, Placed, At
<1>6. /\ IF x \in known THEN ordered[x] + a <= n + faults ELSE ordered[x] <= p + faults
      /\ OrderBound(x)' <=> IF x \in known' THEN ordered'[x] + a1 <= n + faults' ELSE ordered'[x] <= p1 + faults'
  BY DEF OrderBound
<1>7. ordered[x] \in Nat /\ ordered'[x] \in Nat /\ faults \in Nat /\ faults' \in Nat
  BY MoneyAssumption DEF MoneyTypeOK
<1> HIDE DEF a, p, n, a1, p1
<1>8. CASE /\ ordered'[x] = ordered[x]
           /\ c \in Asking(x)' => c \in Asking(x) \/ x \notin known'
           /\ c \in Placed(x) => c \in Placed(x)' \/ faults' = faults + 1 \/ x \in known'
  <2>1. CASE x \in known'
    <3>1. a1 <= a
      BY <1>3, <1>8, <2>1
    <3>2. CASE x \in known
      BY <1>2, <1>3, <1>6, <1>7, <1>8, <2>1, <3>1, <3>2
    <3>3. CASE x \notin known
      BY <1>2, <1>3, <1>6, <1>7, <1>8, <2>1, <3>1, <3>3
    <3>4. QED
      BY <3>2, <3>3
  <2>2. CASE x \notin known'
    <3>1. p1 >= p \/ faults' = faults + 1
      BY <1>4, <1>8, <2>2
    <3>2. CASE faults' = faults
      BY <1>2, <1>4, <1>6, <1>7, <1>8, <2>2, <3>1, <3>2
    <3>3. CASE faults' = faults + 1
      BY <1>2, <1>4, <1>6, <1>7, <1>8, <2>2, <3>3
    <3>4. QED
      BY <3>2, <3>3
  <2>3. QED
    BY <2>1, <2>2
<1>9. CASE /\ ordered'[x] = ordered[x] + 1 /\ (x \in known' => x \in known)
           /\ c \in Asking(x) /\ c \notin Asking(x)'
           /\ c \in Placed(x)' \/ faults' = faults + 1
  <2>1. a1 = a - 1
    BY <1>3, <1>9
  <2>2. p1 = p + 1 \/ (p1 >= p /\ faults' = faults + 1)
    BY <1>4, <1>5, <1>9
  <2>3. CASE faults' = faults
    BY <1>2, <1>3, <1>4, <1>6, <1>7, <1>9, <2>1, <2>2, <2>3
  <2>4. CASE faults' = faults + 1
    BY <1>2, <1>3, <1>4, <1>6, <1>7, <1>9, <2>1, <2>2, <2>4
  <2>5. QED
    BY <2>3, <2>4
<1>10. QED
  BY <1>8, <1>9

\* Steps at which no request orders, or begins to.
LEMMA NobodyOrders ==
    ASSUME MoneyTypeOK, MoneyTypeOK', NEW c,
           \A d \in Calls : d # c => call'[d] = call[d],
           known \subseteq known', faults' \in {faults, faults + 1}, UNCHANGED ordered,
           c \in Calls =>
               \/ UNCHANGED call
               \/ /\ ~At(c, "initiate", "ask")'
                  /\ At(c, "initiate", "write") => faults' = faults + 1 \/ call[c].row \in known',
           \A x \in Transfers : OrderBound(x)
    PROVE  \A x \in Transfers : OrderBound(x)'
<1> SUFFICES ASSUME NEW x \in Transfers PROVE OrderBound(x)'
  OBVIOUS
<1>1. CASE UNCHANGED call
  <2>1. Asking(x)' = Asking(x) /\ Placed(x)' = Placed(x)
    BY <1>1 DEF Asking, Placed, At
  <2>2. QED
    BY <2>1, OrderKeeps
<1>2. CASE ~UNCHANGED call
  <2>1. c \notin Asking(x)'
    BY <1>2 DEF Asking, At
  <2>2. c \in Placed(x) => faults' = faults + 1 \/ x \in known'
    BY <1>2 DEF Placed, At
  <2>3. QED
    BY <2>1, <2>2, OrderKeeps
<1>3. QED
  BY <1>1, <1>2

\* A request other than an initiation goes on, and remains one.
LEMMA OthersOrderNothing ==
    ASSUME OrderInv, MoneyTypeOK', NEW c \in Calls \cup Sweeps, UNCHANGED <<known, ordered>>,
           faults' \in {faults, faults + 1},
           \A d \in Calls \cup Sweeps : d # c => call'[d] = call[d],
           call[c].op # "initiate", call'[c].op # "initiate"
    PROVE  \A x \in Transfers : OrderBound(x)'
<1>1. ~At(c, "initiate", "ask")' /\ ~At(c, "initiate", "write")
  BY DEF At
<1>2. QED
  BY <1>1, NobodyOrders DEF OrderInv, MoneyInv

\* initiate tells the provider to make the transfer: the request counts no
\* more among those that are to order, and among those that have ordered unless
\* the answer is lost.
LEMMA AskInitiateOrders ==
    ASSUME OrderInv, MoneyTypeOK', NEW c \in Calls, AskInitiate(c)
    PROVE  \A x \in Transfers : OrderBound(x)'
<1>1. PICK y : y = call[c].row
  OBVIOUS
<1>2. /\ call[c].op = "initiate" /\ call[c].at = "ask" /\ y \in Transfers
      /\ call \in [Calls \cup Sweeps -> CallRecord]
  BY <1>1 DEF AskInitiate, At, OrderInv, MoneyInv, MoneyTypeOK, CallTrue, CallRecord
<1>3. ordered' = [ordered EXCEPT ![y] = ordered[y] + 1] /\ UNCHANGED known
  BY <1>1, <1>2 DEF AskInitiate, rowVars, OrderInv, MoneyInv, MoneyTypeOK
<1>4. PICK state : Replies(c, state)
  BY DEF AskInitiate
<1>5. /\ \A d \in Calls : d # c => call'[d] = call[d]
      /\ call'[c].op = "initiate" /\ call'[c].row = y
      /\ \/ call'[c].at = "write" /\ faults' = faults
         \/ call'[c].at = "fail" /\ faults' = faults + 1
  <2>1. CASE Answered(c, state) /\ UNCHANGED faults
    BY <1>1, <1>2, <2>1 DEF Answered, CallRecord
  <2>2. CASE Fault /\ Throws(c)
    BY <1>1, <1>2, <2>2 DEF Fault, Throws, CallRecord
  <2>3. QED
    BY <1>4, <2>1, <2>2 DEF Replies
<1>6. ASSUME NEW x \in Transfers, x # y PROVE OrderBound(x)'
  <2>1. c \notin Asking(x)' /\ c \notin Placed(x) /\ ordered'[x] = ordered[x]
    BY <1>1, <1>3, <1>5, <1>6 DEF Asking, Placed, OrderInv, MoneyInv, MoneyTypeOK
  <2>2. QED
    BY <1>3, <1>5, <2>1, OrderKeeps DEF OrderInv, MoneyInv
<1>7. OrderBound(y)'
  <2>1. ordered'[y] = ordered[y] + 1
    BY <1>2, <1>3 DEF OrderInv, MoneyInv, MoneyTypeOK
  <2>2. c \in Asking(y) /\ c \notin Asking(y)'
    BY <1>1, <1>2, <1>5 DEF Asking, At
  <2>3. c \in Placed(y)' \/ faults' = faults + 1
    BY <1>5 DEF Placed, At
  <2>4. QED
    BY <1>2, <1>3, <1>5, <2>1, <2>2, <2>3, OrderKeeps DEF OrderInv, MoneyInv
<1>8. QED
  BY <1>6, <1>7

\* initiate begins only while no order is recorded.
LEMMA BeginInitiateOrders ==
    ASSUME OrderInv, MoneyTypeOK', NEW c \in Calls, NEW y \in Transfers, BeginInitiate(c, y)
    PROVE  \A x \in Transfers : OrderBound(x)'
<1>1. /\ \A d \in Calls : d # c => call'[d] = call[d]
      /\ call[c] = Idle /\ call'[c].row = y /\ y \notin known
      /\ UNCHANGED <<known, ordered, faults>>
  BY DEF BeginInitiate, Enter, rowVars, providerVars, OrderInv, MoneyInv, MoneyTypeOK
<1>2. ASSUME NEW x \in Transfers PROVE OrderBound(x)'
  <2>1. c \notin Placed(x) /\ (c \in Asking(x)' => x \notin known')
    BY <1>1 DEF Placed, Asking, At, Idle
  <2>2. QED
    BY <1>1, <2>1, OrderKeeps DEF OrderInv, MoneyInv
<1>3. QED
  BY <1>2

\* The steps of a request that leave it or end it, without an order.
LEMMA RequestOrdersNothing ==
    ASSUME OrderInv, MoneyTypeOK', NEW c \in Calls \cup Sweeps,
           \/ c \in Calls /\ \E x \in Payments : BeginInitialize(c, x)
           \/ c \in Calls /\ \E x \in Refunds : BeginRefund(c, x)
           \/ c \in Calls /\ \E x \in Rows : BeginVerify(c, x)
           \/ AskInitialize(c) \/ AskRefund(c) \/ AskVerify(c)
           \/ InsertPayment(c) \/ InsertRefund(c)
           \/ WritePayment(c) \/ WriteRefund(c)
    PROVE  \A x \in Transfers : OrderBound(x)'
<1>1. UNCHANGED <<known, ordered>> /\ faults' \in {faults, faults + 1}
  BY DEF BeginInitialize, BeginRefund, BeginVerify, AskInitialize, AskRefund, AskVerify,
         InsertPayment, InsertRefund, WritePayment, WriteRefund, WriteStatus, Replies, Fault,
         rowVars, providerVars
<1>2. call \in [Calls \cup Sweeps -> CallRecord]
  BY DEF OrderInv, MoneyInv, MoneyTypeOK, CallRecord
<1>3. call[c].op # "initiate"
  BY DEF BeginInitialize, BeginRefund, BeginVerify, Enter, Idle, AskInitialize, AskRefund, AskVerify,
         InsertPayment, InsertRefund, WritePayment, WriteRefund, At
<1>4. \/ \E op \in {"initialize", "refund", "verify"}, x \in Rows : Enter(c, op, "ask", x)
      \/ \E state : Answered(c, state)
      \/ Leave(c)
  BY <1>3 DEF BeginInitialize, BeginRefund, BeginVerify, AskInitialize, AskRefund, AskVerify,
         InsertPayment, InsertRefund, WritePayment, WriteRefund, WriteStatus, Replies, Throws, Rows
<1>5. /\ \A d \in Calls \cup Sweeps : d # c => call'[d] = call[d]
      /\ call'[c].op # "initiate"
  <2>1. CASE \E op \in {"initialize", "refund", "verify"}, x \in Rows : Enter(c, op, "ask", x)
    BY <1>2, <2>1 DEF Enter
  <2>2. CASE \E state : Answered(c, state)
    BY <1>2, <1>3, <2>2 DEF Answered, CallRecord
  <2>3. CASE Leave(c)
    BY <1>2, <2>3 DEF Leave, Idle
  <2>4. QED
    BY <1>4, <2>1, <2>2, <2>3
<1>6. QED
  BY <1>1, <1>3, <1>5, OthersOrderNothing

\* The steps that end an initiation: the order is recorded, or was lost before.
LEMMA RequestEnds ==
    ASSUME OrderInv, MoneyTypeOK', NEW c \in Calls \cup Sweeps,
           AskFails(c) \/ Stop(c) \/ (c \in Calls /\ MarkFailed(c)) \/ ApplyProviderResult(c)
    PROVE  \A x \in Transfers : OrderBound(x)'
<1>1. call \in [Calls \cup Sweeps -> CallRecord]
  BY DEF OrderInv, MoneyInv, MoneyTypeOK, CallRecord
<1>2. UNCHANGED ordered /\ known \subseteq known' /\ faults' \in {faults, faults + 1}
  BY DEF AskFails, Stop, MarkFailed, ApplyProviderResult, WriteStatus, Fault, rowVars, providerVars
<1>3. /\ \A d \in Calls \cup Sweeps : d # c => call'[d] = call[d]
      /\ call'[c].at \in {"fail", "idle"}
  <2>1. CASE Leave(c)
    BY <1>1, <2>1 DEF Leave, Idle
  <2>2. CASE call' = [call EXCEPT ![c].at = "fail"]
    BY <1>1, <2>2 DEF CallRecord
  <2>3. QED
    BY <2>1, <2>2 DEF AskFails, Throws, Stop, MarkFailed, ApplyProviderResult, WriteStatus
<1>4. ~At(c, "initiate", "ask")'
  BY <1>3 DEF At
<1>5. At(c, "initiate", "write") => faults' = faults + 1 \/ call[c].row \in known'
  BY DEF At, AskFails, Stop, Fault, MarkFailed, ApplyProviderResult
<1>6. QED
  BY <1>2, <1>3, <1>4, <1>5, NobodyOrders DEF OrderInv, MoneyInv

\* Steps in which no request of a user takes part.
LEMMA ElsewhereOrdersNothing ==
    ASSUME OrderInv, MoneyTypeOK',
           \/ \E x \in Rows : Settle(x) \/ Reverse(x) \/ Notify(x) \/ CreateRecord(x)
           \/ \E m \in mail : Deliver(m) \/ LoseWebhook(m)
           \/ \E s \in Sweeps : StartSweep(s) \/ \E x \in Rows : SweepRow(s, x)
           \/ UNCHANGED moneyVars
    PROVE  \A x \in Transfers : OrderBound(x)'
<1>1. UNCHANGED <<known, ordered>> /\ faults' \in {faults, faults + 1}
  BY DEF Settle, Reverse, Notify, CreateRecord, Deliver, LoseWebhook, Fault, StartSweep, SweepRow,
         rowVars, providerVars, moneyVars
<1>2. CASE UNCHANGED call
  BY <1>1, <1>2, NobodyOrders DEF OrderInv, MoneyInv
<1>3. ASSUME NEW s \in Sweeps, NEW x \in Rows, Enter(s, "verify", "ask", x)
      PROVE  \A y \in Transfers : OrderBound(y)'
  <2>1. s \notin Calls /\ \A d \in Calls : d # s => call'[d] = call[d]
    BY <1>3, MoneyAssumption DEF Enter, OrderInv, MoneyInv, MoneyTypeOK
  <2>2. QED
    BY <1>1, <2>1, NobodyOrders DEF OrderInv, MoneyInv
<1>4. UNCHANGED call \/ \E s \in Sweeps, x \in Rows : Enter(s, "verify", "ask", x)
  BY DEF Settle, Reverse, Notify, CreateRecord, Deliver, LoseWebhook, StartSweep, SweepRow, moneyVars
<1>5. QED
  BY <1>2, <1>3, <1>4

LEMMA OrderInitInv == MoneyInit => OrderInv
<1> SUFFICES ASSUME MoneyInit PROVE OrderInv
  OBVIOUS
<1>1. MoneyInv
  BY MoneyInitInv
<1>2. ASSUME NEW x \in Transfers PROVE OrderBound(x)
  <2>1. ordered[x] = 0 /\ known = {} /\ faults = 0 /\ Cardinality(Placed(x)) \in Nat
    BY AskingOrPlaced DEF MoneyInit
  <2>2. QED
    BY <2>1 DEF OrderBound
<1>3. QED
  BY <1>1, <1>2 DEF OrderInv

LEMMA OrderStep == OrderInv /\ [MoneyNext]_moneyVars => OrderInv'
<1> SUFFICES ASSUME OrderInv, [MoneyNext]_moneyVars PROVE OrderInv'
  OBVIOUS
<1>1. MoneyInv' /\ MoneyTypeOK'
  BY MoneyStep DEF OrderInv, MoneyInv
<1>2. \A x \in Transfers : OrderBound(x)'
  BY <1>1, AskInitiateOrders, BeginInitiateOrders, RequestOrdersNothing, RequestEnds, ElsewhereOrdersNothing
     DEF MoneyNext, ApplyWebhookEvent, ApplyRefundWebhookEvent, Rows
<1>3. QED
  BY <1>1, <1>2 DEF OrderInv

\* The provider is told to make a transfer no more often than requests overlap
\* and requests were cut off, for any number of requests and faults.
THEOREM TransfersAreOrderedOnce == MoneySpec => []OrderedOnce
<1>1. OrderInv => OrderedOnce
  <2> SUFFICES ASSUME OrderInv, NEW x \in Transfers
               PROVE  ordered[x] <= Cardinality(Calls) + faults
    BY DEF OrderedOnce
  <2>1. /\ Cardinality(Asking(x)) \in Nat /\ Cardinality(Placed(x)) \in Nat /\ Cardinality(Calls) \in Nat
        /\ Cardinality(Asking(x)) + Cardinality(Placed(x)) <= Cardinality(Calls)
    BY AskingOrPlaced
  <2>2. ordered[x] \in Nat /\ faults \in Nat
    BY MoneyAssumption DEF OrderInv, MoneyInv, MoneyTypeOK
  <2>3. CASE x \in known
    BY <2>1, <2>2, <2>3 DEF OrderInv, OrderBound
  <2>4. CASE x \notin known
    BY <2>1, <2>2, <2>4 DEF OrderInv, OrderBound
  <2>5. QED
    BY <2>3, <2>4
<1>2. QED
  BY <1>1, OrderInitInv, OrderStep, PTL DEF MoneySpec
=============================================================================
