--------------------------- MODULE PropertyProofs ----------------------------
(***************************************************************************)
(* What is let, what is built on and what is repaired stays in order,      *)
(* whatever requests interleave.                                           *)
(*                                                                         *)
(* The argument: that a lease was begun, a retirement approved and a       *)
(* repair done is never taken back, so a request may be as late as it      *)
(* likes in writing what follows from it; and a link is written by a       *)
(* request that has made its bill, so the links and those to come are      *)
(* covered by the bills.  A request that is alone finds at each commit     *)
(* what it read (Turn).  The three components touch no row of one another, *)
(* so that each step is argued in its own.                                 *)
(*                                                                         *)
(* Then, in the same way, the money that property is bought and kept with: *)
(* loans, placements and the statements of the bank.                       *)
(* At the end, those who ask for property and are told about it: leads and *)
(* notifications.                                                          *)
(***************************************************************************)
EXTENDS Property, BankReconciliation, Leads, SumTheorems

TenantRow == [status : {"ABSENT", "ACTIVE", "FORMER"}]
LeaseRow == [status : {"ABSENT", "DRAFT", "ACTIVE", "EXPIRED", "TERMINATED"},
             revived : BOOLEAN, started : BOOLEAN, ended : BOOLEAN, bills : Nat, links : Nat]
PlotRow == [status : PlotStatus, release : {"none", "active", "cancelled"},
            project : Projects \cup {None}, handled : BOOLEAN]
PlanRow == [status : {"ABSENT", "DRAFT", "APPROVED", "SUPERSEDED"}]
Decisions == {"none", "PENDING", "APPROVED", "REJECTED", "RETURNED"}
FacilityRow == [status : ActiveFacility \cup {"DECOMMISSIONED"}, decision : Decisions,
                approved : BOOLEAN, retired : BOOLEAN]
RepairRow == [status : OpenMaintenance \cup {"ABSENT", "RESOLVED", "CLOSED", "CANCELLED"},
              done : BOOLEAN, bills : Nat, links : Nat]

LeasingOps == {"createTenant", "endTenancy", "createLease", "activate", "renew", "expireLease",
               "terminate", "rent"}
LandOps == {"releasePlot", "cancelPlot", "approvePlan"}
FacilityOps == {"service", "outOfService", "requestDecommission", "refreshDecommission",
                "createRepair", "assign", "resolve", "startWork", "hold", "resume",
                "cancelRepair", "closeRepair", "billVendor"}

PropertyCall ==
    [op : {"none"} \cup LeasingOps \cup LandOps \cup FacilityOps,
     at : {"idle", "write", "bill", "link", "find", "commit", "facility", "follow"},
     row : PropertyRows \cup {None}, arg : Projects \cup {None},
     seen : {None, "active", "cancelled"} \cup Decisions \cup SUBSET MasterPlans]

LettingTyped ==
    /\ \A n \in Tenants : db[n] \in TenantRow
    /\ \A l \in Leases : db[l] \in LeaseRow /\ db[l].bills <= MostRents
LandTyped ==
    /\ \A p \in Plots : db[p] \in PlotRow
    /\ \A m \in MasterPlans : db[m] \in PlanRow
UpkeepTyped ==
    /\ \A f \in Facilities : db[f] \in FacilityRow
    /\ \A r \in Repairs : db[r] \in RepairRow /\ db[r].bills <= MostBilled
RowsTyped ==
    /\ DOMAIN db = PropertyRows
    /\ db = [x \in DOMAIN db |-> db[x]]
    /\ LettingTyped /\ LandTyped /\ UpkeepTyped
PropertyTyped ==
    /\ RowsTyped
    /\ call \in [Calls -> PropertyCall]
    /\ tidy \in BOOLEAN

\* What holds of the rows however requests interleave.
LeasesOK ==
    \A l \in Leases : db[l].status \in {"ACTIVE", "EXPIRED"} \/ db[l].bills > 0 => db[l].started
LandOK ==
    /\ AllocatedWhileReleased
    /\ \A m \in MasterPlans : db[m].status = "SUPERSEDED" =>
          \E n \in MasterPlans : EstateOf[n] = EstateOf[m] /\ db[n].status = "APPROVED"
UpkeepOK ==
    /\ \A f \in Facilities : db[f].decision = "APPROVED" \/ db[f].retired => db[f].approved
    /\ \A r \in Repairs : db[r].status \in {"RESOLVED", "CLOSED"} \/ db[r].bills > 0 => db[r].done

\* What a request has read or done, and will hold whenever it goes on.
LettingRequest(q) ==
    \/ q.op \in {"createTenant", "endTenancy"} /\ q.at = "write" /\ q.row \in Tenants
    \/ /\ q.row \in Leases
       /\ \/ q.op \in {"createLease", "activate", "terminate"} /\ q.at = "write"
          \/ q.op \in {"renew", "expireLease"} /\ q.at = "write" /\ db[q.row].started
          \/ q.op = "rent" /\ q.at \in {"bill", "link"} /\ db[q.row].started
PlansOf(m) == {n \in MasterPlans : EstateOf[n] = EstateOf[m]}
LandRequest(q) ==
    \/ q.op \in {"releasePlot", "cancelPlot"} /\ q.at = "write" /\ q.row \in Plots
          /\ (q.op = "releasePlot" => q.arg \in Projects)
    \/ q.op = "approvePlan" /\ q.at \in {"find", "commit"} /\ q.row \in MasterPlans
          /\ q.seen \subseteq PlansOf(q.row)
UpkeepRequest(q) ==
    \/ /\ q.row \in Facilities /\ q.at = "write"
       /\ \/ q.op \in {"service", "outOfService", "requestDecommission"}
          \/ q.op = "refreshDecommission" /\ (q.seen = "APPROVED" => db[q.row].approved)
    \/ /\ q.row \in Repairs
       /\ \/ q.op \in {"createRepair", "resolve", "startWork", "hold", "resume", "cancelRepair"}
             /\ q.at = "write"
          \/ q.op = "assign" /\ q.at \in {"write", "facility", "follow"}
          \/ q.op = "closeRepair" /\ q.at \in {"write", "facility", "follow"} /\ db[q.row].done
          \/ q.op = "billVendor" /\ q.at \in {"bill", "link"} /\ db[q.row].done
RequestOK(q) == q = Idle \/ LettingRequest(q) \/ LandRequest(q) \/ UpkeepRequest(q)

\* The link that a request still owes to a bill.
Links(q, op, x) == q.op = op /\ q.at = "link" /\ q.row = x
Owed(q, op, x) == IF Links(q, op, x) THEN 1 ELSE 0
Linking(op, x) == {c \in Calls : Links(call[c], op, x)}
LinksCovered ==
    /\ \A l \in Leases : db[l].links + Cardinality(Linking("rent", l)) <= db[l].bills
    /\ \A r \in Repairs : db[r].links + Cardinality(Linking("billVendor", r)) <= db[r].bills

\* What holds while q is the only request; q is Idle when there is none.
SameFlat(l, k) == FlatOf[TenantOf[l]] = FlatOf[TenantOf[k]]
HoldsFlat(l) == db[l].status \in OpenLease /\ ~db[l].revived
LettingRead(q) ==
    /\ q.op = "createTenant" =>
          \A n \in Tenants : FlatOf[n] = FlatOf[q.row] => db[n].status # "ACTIVE"
    /\ q.op = "endTenancy" => \A l \in Leases : TenantOf[l] = q.row => db[l].status \notin OpenLease
    /\ q.op = "createLease" =>
          /\ db[TenantOf[q.row]].status = "ACTIVE"
          /\ \A l \in Leases : SameFlat(l, q.row) => db[l].status \notin OpenLease
    /\ q.op = "activate" => db[q.row].status = "DRAFT"
    /\ q.op = "renew" => db[q.row].status \in {"ACTIVE", "EXPIRED"}
    /\ q.op = "expireLease" => db[q.row].status = "ACTIVE"
LetOnce ==
    /\ \A n, m \in Tenants :
          db[n].status = "ACTIVE" /\ db[m].status = "ACTIVE" /\ FlatOf[n] = FlatOf[m] => n = m
    /\ \A l, k \in Leases : HoldsFlat(l) /\ HoldsFlat(k) /\ SameFlat(l, k) => l = k
    /\ \A l \in Leases : HoldsFlat(l) => db[TenantOf[l]].status = "ACTIVE"
    /\ \A l \in Leases : db[l].ended => db[l].status = "TERMINATED"
RentsLinked(q) == \A l \in Leases : db[l].links + Owed(q, "rent", l) = db[l].bills
LettingTurn(q) == LettingRead(q) /\ LetOnce /\ RentsLinked(q)

LandTurn(q) ==
    /\ q.op = "approvePlan" /\ q.at = "commit" => q.seen = InForce(EstateOf[q.row])
    /\ \A m, n \in MasterPlans :
          db[m].status = "APPROVED" /\ db[n].status = "APPROVED" /\ EstateOf[m] = EstateOf[n] => m = n

Closing(q, f) ==
    q.op = "closeRepair" /\ q.at \in {"facility", "follow"} /\ FacilityOf[q.row] = f
UpkeepRead(q) ==
    /\ q.op \in {"service", "outOfService"} => db[q.row].status # "DECOMMISSIONED"
    /\ q.op = "assign" /\ q.at \in {"facility", "follow"} => db[q.row].status = "ASSIGNED"
    /\ q.op \in {"assign", "closeRepair"} /\ q.at = "follow" =>
          db[FacilityOf[q.row]].status # "DECOMMISSIONED"
    /\ q.op = "billVendor" /\ q.at = "bill" => db[q.row].bills = 0
Attended(f) ==
    \E r \in Repairs : FacilityOf[r] = f /\ db[r].status \notin {"ABSENT", "OPEN", "CLOSED"}
RepairsLinked(q) ==
    \A r \in Repairs : db[r].links + Owed(q, "billVendor", r) = db[r].bills /\ db[r].bills <= 1
UpkeepTurn(q) ==
    /\ UpkeepRead(q) /\ RepairsLinked(q)
    /\ \A f \in Facilities :
          /\ db[f].retired => db[f].status = "DECOMMISSIONED"
          /\ db[f].status = "UNDER_MAINTENANCE" => Closing(q, f) \/ Attended(f)

Turn(q) == LettingTurn(q) /\ LandTurn(q) /\ UpkeepTurn(q)
TurnsTaken ==
    /\ \A c, e \in Calls : call[c] # Idle /\ call[e] # Idle => c = e
    /\ \A c \in Calls : call[c] # Idle => Turn(call[c])
    /\ Alone => Turn(Idle)

PropertyInv ==
    /\ PropertyTyped /\ LeasesOK /\ LandOK /\ UpkeepOK /\ LinksCovered
    /\ \A c \in Calls : RequestOK(call[c])
    /\ tidy => TurnsTaken

-----------------------------------------------------------------------------
(* Requests and the links they owe *)

\* What no request ever takes back.
Kept ==
    /\ \A l \in Leases : db[l].started => db'[l].started
    /\ \A f \in Facilities : db[f].approved => db'[f].approved
    /\ \A r \in Repairs : db[r].done => db'[r].done

LEMMA RequestStays ==
    ASSUME Kept, NEW q \in PropertyCall, RequestOK(q)
    PROVE  RequestOK(q)'
<1>1. LettingRequest(q) => LettingRequest(q)'
  BY DEF LettingRequest, Kept
<1>2. LandRequest(q) => LandRequest(q)'
  BY DEF LandRequest, PlansOf
<1>3. UpkeepRequest(q) => UpkeepRequest(q)'
  BY DEF UpkeepRequest, Kept
<1> QED  BY <1>1, <1>2, <1>3 DEF RequestOK

\* Links and those to come, less the bills, as one request goes from p to q.
Balanced(op, p, q, x) ==
    db'[x].links + Owed(q, op, x) + db[x].bills = db[x].links + Owed(p, op, x) + db'[x].bills
AllBalanced(p, q) ==
    /\ \A l \in Leases : Balanced("rent", p, q, l)
    /\ \A r \in Repairs : Balanced("billVendor", p, q, r)

LEMMA CountIsNat == \A op, x : IsFiniteSet(Linking(op, x)) /\ Cardinality(Linking(op, x)) \in Nat
<1>1. \A op, x : Linking(op, x) \subseteq Calls
  BY DEF Linking
<1> QED  BY <1>1, FS_Subset, FS_CardinalityType, PropertyAssumption

\* Of the requests that owe a link, c at most comes or goes.
LEMMA CountMoves ==
    ASSUME call \in [Calls -> PropertyCall], NEW c \in Calls, NEW q \in PropertyCall,
           call' = [call EXCEPT ![c] = q], NEW op, NEW x
    PROVE  Cardinality(Linking(op, x)') + Owed(call[c], op, x)
               = Cardinality(Linking(op, x)) + Owed(q, op, x)
<1> DEFINE before == Linking(op, x)
           after == Linking(op, x)'
<1>1. /\ IsFiniteSet(before) /\ Cardinality(before) \in Nat
      /\ c \in before <=> Links(call[c], op, x)
  BY CountIsNat DEF Linking
<1>2. PICK p \in PropertyCall : p = call[c]
  OBVIOUS
<1>3. after = (before \ {c}) \cup (IF Links(q, op, x) THEN {c} ELSE {})
  BY DEF Linking, Links
<1>4. /\ IsFiniteSet(before \ {c})
      /\ Cardinality(before \ {c}) = Cardinality(before) - (IF c \in before THEN 1 ELSE 0)
  BY <1>1, FS_RemoveElement
<1>5. Cardinality((before \ {c}) \cup {c}) = Cardinality(before \ {c}) + 1
  BY <1>4, FS_AddElement
<1>6. Cardinality(after) = Cardinality(before \ {c}) + (IF Links(q, op, x) THEN 1 ELSE 0)
  <2>1. CASE Links(q, op, x)
    BY <1>3, <1>5, <2>1
  <2>2. CASE ~Links(q, op, x)
    <3>1. after = before \ {c}
      BY <1>3, <2>2
    <3> QED  BY <1>1, <1>4, <2>2, <3>1
  <2> QED  BY <2>1, <2>2
<1>7. Owed(call[c], op, x) = (IF c \in before THEN 1 ELSE 0) /\ Owed(q, op, x) = (IF Links(q, op, x) THEN 1 ELSE 0)
  BY <1>1 DEF Owed
<1> QED  BY <1>1, <1>4, <1>6, <1>7

LEMMA OwedIsNat == \A q, op, x : Owed(q, op, x) \in {0, 1}
  BY DEF Owed

LEMMA LinksStayCovered ==
    ASSUME PropertyInv, NEW c \in Calls, NEW q \in PropertyCall, call' = [call EXCEPT ![c] = q],
           RowsTyped', AllBalanced(call[c], q)
    PROVE  LinksCovered'
<1>1. call \in [Calls -> PropertyCall] /\ RowsTyped /\ LinksCovered
  BY DEF PropertyInv, PropertyTyped
<1>2. ASSUME NEW op, NEW x, db[x].links \in Nat, db[x].bills \in Nat, db'[x].links \in Nat,
             db'[x].bills \in Nat, Balanced(op, call[c], q, x),
             db[x].links + Cardinality(Linking(op, x)) <= db[x].bills
      PROVE  db'[x].links + Cardinality(Linking(op, x)') <= db'[x].bills
  <2>1. Cardinality(Linking(op, x)) \in Nat /\ Cardinality(Linking(op, x)') \in Nat
    <3>1. Cardinality(Linking(op, x)) \in Nat
      BY CountIsNat
    <3>2. IsFiniteSet(Linking(op, x)') /\ Linking(op, x)' \subseteq Calls
      BY FS_Subset, PropertyAssumption DEF Linking
    <3> QED  BY <3>1, <3>2, FS_CardinalityType
  <2>2. Cardinality(Linking(op, x)') + Owed(call[c], op, x)
            = Cardinality(Linking(op, x)) + Owed(q, op, x)
    <3>1. call \in [Calls -> PropertyCall]
      BY <1>1
    <3> QED  BY ZenonT(40), <3>1, CountMoves
  <2>3. Owed(call[c], op, x) \in {0, 1} /\ Owed(q, op, x) \in {0, 1}
    BY OwedIsNat
  <2> QED  BY <1>2, <2>1, <2>2, <2>3 DEF Balanced
<1>3. \A l \in Leases : db'[l].links + Cardinality(Linking("rent", l)') <= db'[l].bills
  BY <1>1, <1>2 DEF RowsTyped, LettingTyped, LeaseRow, AllBalanced, LinksCovered
<1>4. \A r \in Repairs : db'[r].links + Cardinality(Linking("billVendor", r)') <= db'[r].bills
  BY <1>1, <1>2 DEF RowsTyped, UpkeepTyped, RepairRow, AllBalanced, LinksCovered
<1> QED  BY <1>3, <1>4 DEF LinksCovered

\* A commit of one request, or the first step of one.
LEMMA StepKeeps ==
    ASSUME PropertyInv, NEW c \in Calls, NEW q \in PropertyCall, call' = [call EXCEPT ![c] = q],
           tidy' \in BOOLEAN, RowsTyped', LeasesOK', LandOK', UpkeepOK', Kept, RequestOK(q)',
           AllBalanced(call[c], q),
           tidy' => tidy /\ (call[c] = Idle => Alone) /\ (Turn(call[c]) => Turn(q)')
    PROVE  PropertyInv'
<1>1. call' \in [Calls -> PropertyCall] /\ call'[c] = q /\ \A e \in Calls \ {c} : call'[e] = call[e]
  BY DEF PropertyInv, PropertyTyped
<1>2. PropertyTyped'
  BY <1>1 DEF PropertyTyped
<1>3. \A e \in Calls : RequestOK(call[e])'
  <2>1. TAKE e \in Calls
  <2>2. PICK z \in PropertyCall : z = call'[e]
    BY <1>1
  <2>3. RequestOK(z)'
    <3>1. CASE e = c
      BY <1>1, <2>2, <3>1
    <3>2. CASE e # c
      BY <1>1, <2>2, <3>2, RequestStays DEF PropertyInv
    <3> QED  BY <3>1, <3>2
  <2> QED  BY <2>2, <2>3
<1>4. ASSUME tidy' PROVE TurnsTaken'
  <2>1. TurnsTaken /\ (call[c] = Idle => Alone) /\ (Turn(call[c]) => Turn(q)')
    BY <1>4 DEF PropertyInv
  <2>2. \A e \in Calls \ {c} : call'[e] = Idle
    BY <1>1, <2>1 DEF TurnsTaken, Alone
  <2>3. Turn(call[c])
    BY <2>1 DEF TurnsTaken, Alone
  <2>4. Turn(q)'
    BY <2>1, <2>3
  <2>5. \A d, e \in Calls : call'[d] # Idle /\ call'[e] # Idle => d = e
    BY <2>2
  <2>6. ASSUME NEW e \in Calls, call'[e] # Idle PROVE Turn(call[e])'
    <3>1. e = c /\ call'[e] = q
      BY <1>1, <2>2, <2>6
    <3> QED  BY <2>4, <3>1
  <2>7. ASSUME Alone' PROVE Turn(Idle)'
    <3>1. q = Idle
      BY <1>1, <2>7 DEF Alone
    <3> QED  BY <2>4, <3>1
  <2> QED  BY <2>5, <2>6, <2>7 DEF TurnsTaken
<1>5. LinksCovered'
  BY LinksStayCovered
<1> QED  BY <1>2, <1>3, <1>4, <1>5 DEF PropertyInv

\* What needs no request: a statement, or a change that comes from outside.
LEMMA StatementKeeps ==
    ASSUME PropertyInv, call' = call, tidy' = (tidy /\ Alone),
           RowsTyped', LeasesOK', LandOK', UpkeepOK', Kept, AllBalanced(Idle, Idle),
           Turn(Idle) /\ tidy' => Turn(Idle)'
    PROVE  PropertyInv'
<1>1. PropertyTyped'
  BY DEF PropertyInv, PropertyTyped
<1>2. \A e \in Calls : RequestOK(call[e])'
  <2>1. TAKE e \in Calls
  <2>2. PICK z \in PropertyCall : z = call[e] /\ RequestOK(z)
    BY DEF PropertyInv, PropertyTyped
  <2>3. RequestOK(z)'
    BY <2>2, RequestStays
  <2> QED  BY <2>2, <2>3
<1>3. ASSUME tidy' PROVE TurnsTaken'
  BY <1>3 DEF PropertyInv, TurnsTaken, Alone
<1>4. LinksCovered'
  <2>1. RowsTyped /\ LinksCovered
    BY DEF PropertyInv, PropertyTyped
  <2>2. \A op, x : Linking(op, x)' = Linking(op, x) /\ Owed(Idle, op, x) = 0
    BY DEF Linking, Owed, Links, Idle
  <2>3. \A op, x : Cardinality(Linking(op, x)') = Cardinality(Linking(op, x))
    BY <2>2
  <2>4. \A op, x : Cardinality(Linking(op, x)) \in Nat
    BY CountIsNat
  <2>5. \A l \in Leases : db'[l].links + Cardinality(Linking("rent", l)) <= db'[l].bills
    BY <2>1, <2>2, <2>4 DEF LinksCovered, AllBalanced, Balanced, RowsTyped, LettingTyped, LeaseRow
  <2>6. \A r \in Repairs : db'[r].links + Cardinality(Linking("billVendor", r)) <= db'[r].bills
    BY <2>1, <2>2, <2>4 DEF LinksCovered, AllBalanced, Balanced, RowsTyped, UpkeepTyped, RepairRow
  <2> QED  BY <2>3, <2>5, <2>6 DEF LinksCovered
<1> QED  BY <1>1, <1>2, <1>3, <1>4 DEF PropertyInv

\* A request that is cut off owes its link for good: the bill stays without one.
LEMMA CutOffKeeps == ASSUME PropertyInv, NEW c \in Calls, CutOff(c) PROVE PropertyInv'
<1>1. /\ db' = db /\ tidy' = FALSE
      /\ call' = [call EXCEPT ![c] = Idle] /\ call \in [Calls -> PropertyCall]
  BY DEF CutOff, PropertyInv, PropertyTyped
<1>2. Idle \in PropertyCall /\ RequestOK(Idle)
  BY DEF PropertyCall, Idle, RequestOK
<1>3. PropertyTyped' /\ LeasesOK' /\ LandOK' /\ UpkeepOK'
  <2>1. RowsTyped'
    BY <1>1 DEF PropertyInv, PropertyTyped, RowsTyped, LettingTyped, LandTyped, UpkeepTyped
  <2>2. PropertyTyped'
    BY <1>1, <1>2, <2>1 DEF PropertyTyped
  <2>3. LeasesOK' /\ LandOK' /\ UpkeepOK'
    BY <1>1 DEF PropertyInv, LeasesOK, LandOK, UpkeepOK, AllocatedWhileReleased, In
  <2> QED  BY <2>2, <2>3
<1>4. \A e \in Calls : RequestOK(call[e])'
  <2>1. TAKE e \in Calls
  <2>2. PICK z \in PropertyCall : z = call'[e] /\ RequestOK(z)
    BY <1>1, <1>2 DEF PropertyInv
  <2>3. RequestOK(z)'
    BY <1>1, <2>2, RequestStays DEF Kept
  <2> QED  BY <2>2, <2>3
<1>5. LinksCovered'
  <2>1. \A op, x : Cardinality(Linking(op, x)') <= Cardinality(Linking(op, x))
                   /\ Cardinality(Linking(op, x)') \in Nat /\ Cardinality(Linking(op, x)) \in Nat
    <3>1. TAKE op, x
    <3>2. Linking(op, x)' \subseteq Linking(op, x)
      BY <1>1 DEF Linking, Links, Idle
    <3>3. IsFiniteSet(Linking(op, x)) /\ Cardinality(Linking(op, x)) \in Nat
      BY CountIsNat
    <3> QED  BY <3>2, <3>3, FS_Subset, FS_CardinalityType
  <2>2. RowsTyped /\ LinksCovered
    BY DEF PropertyInv, PropertyTyped
  <2>3. \A l \in Leases : db[l].links + Cardinality(Linking("rent", l)') <= db[l].bills
    BY <2>1, <2>2 DEF LinksCovered, RowsTyped, LettingTyped, LeaseRow
  <2>4. \A r \in Repairs : db[r].links + Cardinality(Linking("billVendor", r)') <= db[r].bills
    BY <2>1, <2>2 DEF LinksCovered, RowsTyped, UpkeepTyped, RepairRow
  <2> QED  BY <1>1, <2>3, <2>4 DEF LinksCovered
<1> QED  BY <1>1, <1>3, <1>4, <1>5 DEF PropertyInv

-----------------------------------------------------------------------------
(* The components touch no row of one another *)

OnlyTheseChange(rows) ==
    /\ DOMAIN db' = PropertyRows /\ db' = [x \in DOMAIN db' |-> db'[x]]
    /\ \A x \in PropertyRows \ rows : db'[x] = db[x]
LettingApart == \A x \in Tenants \cup Leases : db'[x] = db[x]
LandApart == \A x \in Plots \cup MasterPlans : db'[x] = db[x]
UpkeepApart == \A x \in Facilities \cup Repairs : db'[x] = db[x]

LEMMA OthersApart ==
    /\ OnlyTheseChange(Tenants \cup Leases) => LandApart /\ UpkeepApart
    /\ OnlyTheseChange(Plots \cup MasterPlans) => LettingApart /\ UpkeepApart
    /\ OnlyTheseChange(Facilities \cup Repairs) => LettingApart /\ LandApart
  BY PropertyAssumption DEF OnlyTheseChange, LettingApart, LandApart, UpkeepApart, PropertyRows

LEMMA LettingStays ==
    ASSUME LettingApart
    PROVE  /\ LettingTyped => LettingTyped'
           /\ LeasesOK => LeasesOK'
           /\ \A l \in Leases : db[l].started => db'[l].started
           /\ \A p, q : p.op \notin LeasingOps /\ q.op \notin LeasingOps =>
                 /\ \A l \in Leases : db[l].links \in Nat /\ db[l].bills \in Nat =>
                       Balanced("rent", p, q, l)
                 /\ LettingTurn(p) => LettingTurn(q)'
<1>1. /\ \A n \in Tenants : db'[n] = db[n]
      /\ \A l \in Leases : db'[l] = db[l]
  BY DEF LettingApart
<1>2. LettingTyped => LettingTyped'
  BY <1>1 DEF LettingTyped
<1>3. LeasesOK => LeasesOK'
  BY <1>1 DEF LeasesOK
<1>4. ASSUME NEW p, NEW q, p.op \notin LeasingOps, q.op \notin LeasingOps
      PROVE  /\ \A l \in Leases : db[l].links \in Nat /\ db[l].bills \in Nat =>
                   Balanced("rent", p, q, l)
             /\ LettingTurn(p) => LettingTurn(q)'
  <2>1. \A l \in Leases : Owed(p, "rent", l) = 0 /\ Owed(q, "rent", l) = 0
    BY <1>4 DEF Owed, Links, LeasingOps
  <2>2. \A l \in Leases : db[l].links \in Nat /\ db[l].bills \in Nat => Balanced("rent", p, q, l)
    BY <1>1, <2>1 DEF Balanced
  <2>3. LettingRead(q)'
    BY <1>4 DEF LettingRead, LeasingOps
  <2>4. LetOnce => LetOnce'
    BY <1>1, LeasingAssumption DEF LetOnce, HoldsFlat
  <2>5. RentsLinked(p) => RentsLinked(q)'
    BY <1>1, <2>1 DEF RentsLinked
  <2> QED  BY <2>2, <2>3, <2>4, <2>5 DEF LettingTurn
<1> QED  BY <1>1, <1>2, <1>3, <1>4

LEMMA LandStays ==
    ASSUME LandApart
    PROVE  /\ LandTyped => LandTyped'
           /\ LandOK => LandOK'
           /\ \A p, q : p.op \notin LandOps /\ q.op \notin LandOps /\ LandTurn(p) => LandTurn(q)'
<1>1. /\ \A p \in Plots : db'[p] = db[p]
      /\ \A m \in MasterPlans : db'[m] = db[m]
  BY DEF LandApart
<1> QED  BY <1>1 DEF LandTyped, LandOK, AllocatedWhileReleased, In, LandTurn, LandOps

LEMMA UpkeepStays ==
    ASSUME UpkeepApart
    PROVE  /\ UpkeepTyped => UpkeepTyped'
           /\ UpkeepOK => UpkeepOK'
           /\ \A f \in Facilities : db[f].approved => db'[f].approved
           /\ \A r \in Repairs : db[r].done => db'[r].done
           /\ \A p, q : p.op \notin FacilityOps /\ q.op \notin FacilityOps =>
                 /\ \A r \in Repairs : db[r].links \in Nat /\ db[r].bills \in Nat =>
                       Balanced("billVendor", p, q, r)
                 /\ UpkeepTurn(p) => UpkeepTurn(q)'
<1>1. /\ \A f \in Facilities : db'[f] = db[f]
      /\ \A r \in Repairs : db'[r] = db[r]
  BY DEF UpkeepApart
<1>2. UpkeepTyped => UpkeepTyped'
  BY <1>1 DEF UpkeepTyped
<1>3. UpkeepOK => UpkeepOK'
  BY <1>1 DEF UpkeepOK
<1>4. ASSUME NEW p, NEW q, p.op \notin FacilityOps, q.op \notin FacilityOps
      PROVE  /\ \A r \in Repairs : db[r].links \in Nat /\ db[r].bills \in Nat =>
                   Balanced("billVendor", p, q, r)
             /\ UpkeepTurn(p) => UpkeepTurn(q)'
  <2>1. \A r \in Repairs : Owed(p, "billVendor", r) = 0 /\ Owed(q, "billVendor", r) = 0
    BY <1>4 DEF Owed, Links, FacilityOps
  <2>2. \A r \in Repairs : db[r].links \in Nat /\ db[r].bills \in Nat =>
            Balanced("billVendor", p, q, r)
    BY <1>1, <2>1 DEF Balanced
  <2>3. UpkeepRead(q)'
    BY <1>4 DEF UpkeepRead, FacilityOps
  <2>4. RepairsLinked(p) => RepairsLinked(q)'
    BY <1>1, <2>1 DEF RepairsLinked
  <2>5. \A f \in Facilities : ~Closing(p, f) /\ (Attended(f) => Attended(f)')
    BY <1>1, <1>4 DEF Closing, Attended, FacilityOps
  <2> QED  BY <1>1, <2>2, <2>3, <2>4, <2>5 DEF UpkeepTurn
<1> QED  BY <1>1, <1>2, <1>3, <1>4

\* One step of a request of one component; its turn is argued with its own rows.
Steps(c, q, ops) ==
    /\ call' = [call EXCEPT ![c] = q]
    /\ call[c].op \in ops \cup {"none"} /\ q.op \in ops \cup {"none"}
    /\ tidy' \in BOOLEAN
    /\ tidy' => tidy /\ (call[c] = Idle => Alone)

LEMMA LettingStep ==
    ASSUME PropertyInv, NEW c \in Calls, NEW q \in PropertyCall, Steps(c, q, LeasingOps),
           OnlyTheseChange(Tenants \cup Leases), LettingTyped', LeasesOK', RequestOK(q)',
           \A l \in Leases : /\ db[l].started => db'[l].started
                             /\ Balanced("rent", call[c], q, l),
           tidy' /\ LettingTurn(call[c]) => LettingTurn(q)'
    PROVE  PropertyInv'
<1>1. call[c] \in PropertyCall /\ RowsTyped /\ LandOK /\ UpkeepOK
  BY DEF PropertyInv, PropertyTyped
<1>2. LandApart /\ UpkeepApart
  BY OthersApart
<1>3. call[c].op \notin LandOps \cup FacilityOps /\ q.op \notin LandOps \cup FacilityOps
  BY DEF Steps, LeasingOps, LandOps, FacilityOps
<1>4. RowsTyped' /\ LandOK' /\ UpkeepOK'
  BY <1>1, <1>2, LandStays, UpkeepStays DEF RowsTyped, OnlyTheseChange
<1>5. Kept
  BY <1>2, UpkeepStays DEF Kept
<1>6. AllBalanced(call[c], q)
  BY <1>1, <1>2, <1>3, UpkeepStays DEF AllBalanced, RowsTyped, UpkeepTyped, RepairRow
<1>7. LandTurn(call[c]) => LandTurn(q)'
  BY <1>2, <1>3, LandStays
<1>8. UpkeepTurn(call[c]) => UpkeepTurn(q)'
  BY <1>2, <1>3, UpkeepStays
<1>9. tidy' => tidy /\ (call[c] = Idle => Alone) /\ (Turn(call[c]) => Turn(q)')
  BY <1>7, <1>8 DEF Steps, Turn
<1>10. call' = [call EXCEPT ![c] = q] /\ tidy' \in BOOLEAN
  BY DEF Steps
<1> QED  BY <1>4, <1>5, <1>6, <1>9, <1>10, StepKeeps

LEMMA LandStep ==
    ASSUME PropertyInv, NEW c \in Calls, NEW q \in PropertyCall, Steps(c, q, LandOps),
           OnlyTheseChange(Plots \cup MasterPlans), LandTyped', LandOK', RequestOK(q)',
           tidy' /\ LandTurn(call[c]) => LandTurn(q)'
    PROVE  PropertyInv'
<1>1. call[c] \in PropertyCall /\ RowsTyped /\ LeasesOK /\ UpkeepOK
  BY DEF PropertyInv, PropertyTyped
<1>2. LettingApart /\ UpkeepApart
  BY OthersApart
<1>3. call[c].op \notin LeasingOps \cup FacilityOps /\ q.op \notin LeasingOps \cup FacilityOps
  BY DEF Steps, LeasingOps, LandOps, FacilityOps
<1>4. RowsTyped' /\ LeasesOK' /\ UpkeepOK'
  BY <1>1, <1>2, LettingStays, UpkeepStays DEF RowsTyped, OnlyTheseChange
<1>5. Kept
  BY <1>2, LettingStays, UpkeepStays DEF Kept
<1>6. AllBalanced(call[c], q)
  BY <1>1, <1>2, <1>3, LettingStays, UpkeepStays
     DEF AllBalanced, RowsTyped, LettingTyped, LeaseRow, UpkeepTyped, RepairRow
<1>7. LettingTurn(call[c]) => LettingTurn(q)'
  BY <1>2, <1>3, LettingStays
<1>8. UpkeepTurn(call[c]) => UpkeepTurn(q)'
  BY <1>2, <1>3, UpkeepStays
<1>9. tidy' => tidy /\ (call[c] = Idle => Alone) /\ (Turn(call[c]) => Turn(q)')
  BY <1>7, <1>8 DEF Steps, Turn
<1>10. call' = [call EXCEPT ![c] = q] /\ tidy' \in BOOLEAN
  BY DEF Steps
<1> QED  BY <1>4, <1>5, <1>6, <1>9, <1>10, StepKeeps

LEMMA UpkeepStep ==
    ASSUME PropertyInv, NEW c \in Calls, NEW q \in PropertyCall, Steps(c, q, FacilityOps),
           OnlyTheseChange(Facilities \cup Repairs), UpkeepTyped', UpkeepOK', RequestOK(q)',
           \A f \in Facilities : db[f].approved => db'[f].approved,
           \A r \in Repairs : /\ db[r].done => db'[r].done
                              /\ Balanced("billVendor", call[c], q, r),
           tidy' /\ UpkeepTurn(call[c]) => UpkeepTurn(q)'
    PROVE  PropertyInv'
<1>1. call[c] \in PropertyCall /\ RowsTyped /\ LeasesOK /\ LandOK
  BY DEF PropertyInv, PropertyTyped
<1>2. LettingApart /\ LandApart
  BY OthersApart
<1>3. call[c].op \notin LeasingOps \cup LandOps /\ q.op \notin LeasingOps \cup LandOps
  BY DEF Steps, LeasingOps, LandOps, FacilityOps
<1>4. RowsTyped' /\ LeasesOK' /\ LandOK'
  BY <1>1, <1>2, LettingStays, LandStays DEF RowsTyped, OnlyTheseChange
<1>5. Kept
  BY <1>2, LettingStays DEF Kept
<1>6. AllBalanced(call[c], q)
  BY <1>1, <1>2, <1>3, LettingStays DEF AllBalanced, RowsTyped, LettingTyped, LeaseRow
<1>7. LettingTurn(call[c]) => LettingTurn(q)'
  BY <1>2, <1>3, LettingStays
<1>8. LandTurn(call[c]) => LandTurn(q)'
  BY <1>2, <1>3, LandStays
<1>9. tidy' => tidy /\ (call[c] = Idle => Alone) /\ (Turn(call[c]) => Turn(q)')
  BY <1>7, <1>8 DEF Steps, Turn
<1>10. call' = [call EXCEPT ![c] = q] /\ tidy' \in BOOLEAN
  BY DEF Steps
<1> QED  BY <1>4, <1>5, <1>6, <1>9, <1>10, StepKeeps

\* A first step changes no row, and owes no link yet.
LEMMA FirstStep ==
    ASSUME PropertyInv, NEW c \in Calls, NEW q \in PropertyCall,
           Enter(c, q.op, q.at, q.row, q.arg, q.seen), q.at # "link", RequestOK(q),
           tidy /\ Alone /\ Turn(Idle) => Turn(q)
    PROVE  PropertyInv'
<1>1. /\ db' = db /\ call[c] = Idle /\ tidy' = (tidy /\ Alone)
      /\ call' = [call EXCEPT ![c] = q] /\ tidy' \in BOOLEAN
  BY DEF Enter, PropertyInv, PropertyTyped, PropertyCall
<1>2. RowsTyped' /\ Kept /\ RequestOK(q)'
  <2>1. RowsTyped'
    BY <1>1 DEF PropertyInv, PropertyTyped, RowsTyped, LettingTyped, LandTyped, UpkeepTyped
  <2>2. Kept
    BY <1>1 DEF Kept
  <2> QED  BY <2>1, <2>2, RequestStays
<1>3. LeasesOK' /\ LandOK' /\ UpkeepOK'
  BY <1>1 DEF PropertyInv, LeasesOK, LandOK, UpkeepOK, AllocatedWhileReleased, In
<1>4. AllBalanced(call[c], q)
  BY <1>1 DEF AllBalanced, Balanced, Owed, Links, Idle
<1>5. Turn(q) => Turn(q)'
  BY <1>1 DEF Turn, LettingTurn, LettingRead, LetOnce, HoldsFlat, RentsLinked, LandTurn, InForce,
     In, UpkeepTurn, UpkeepRead, RepairsLinked, Attended
<1> QED  BY <1>1, <1>2, <1>3, <1>4, <1>5, StepKeeps

LEMMA FirstStepOf ==
    ASSUME NEW q, q.at # "link"
    PROVE  /\ q.op \in LeasingOps /\ Turn(Idle) /\ LettingRead(q) => Turn(q)
           /\ q.op \in LandOps /\ q.at # "commit" /\ Turn(Idle) => Turn(q)
           /\ q.op \in FacilityOps /\ q.at \notin {"facility", "follow"} /\ Turn(Idle)
                 /\ UpkeepRead(q) => Turn(q)
<1>1. \A op, x : Owed(q, op, x) = 0 /\ Owed(Idle, op, x) = 0
  BY DEF Owed, Links, Idle
<1>2. \A f : ~Closing(Idle, f)
  BY DEF Closing, Idle
<1>3. RentsLinked(Idle) => RentsLinked(q)
  BY <1>1 DEF RentsLinked
<1>4. RepairsLinked(Idle) => RepairsLinked(q)
  BY <1>1 DEF RepairsLinked
<1>5. q.op \notin FacilityOps /\ UpkeepTurn(Idle) => UpkeepTurn(q)
  BY <1>2, <1>4 DEF UpkeepTurn, UpkeepRead, FacilityOps
<1>6. q.op \notin LandOps /\ LandTurn(Idle) => LandTurn(q)
  BY DEF LandTurn, LandOps
<1>7. q.op \notin LeasingOps /\ LettingTurn(Idle) => LettingTurn(q)
  BY <1>3 DEF LettingTurn, LettingRead, LeasingOps
<1>8. q.op \in LeasingOps => q.op \notin LandOps \cup FacilityOps
  BY DEF LeasingOps, LandOps, FacilityOps
<1>9. q.op \in LandOps => q.op \notin LeasingOps \cup FacilityOps
  BY DEF LeasingOps, LandOps, FacilityOps
<1>10. q.op \in FacilityOps => q.op \notin LeasingOps \cup LandOps
  BY DEF LeasingOps, LandOps, FacilityOps
<1>11. q.op \in LeasingOps /\ Turn(Idle) /\ LettingRead(q) => Turn(q)
  BY <1>3, <1>5, <1>6, <1>8 DEF Turn, LettingTurn
<1>12. q.op \in LandOps /\ q.at # "commit" /\ Turn(Idle) => Turn(q)
  BY <1>5, <1>7, <1>9 DEF Turn, LandTurn
<1>13. q.op \in FacilityOps /\ q.at \notin {"facility", "follow"} /\ Turn(Idle) /\ UpkeepRead(q)
          => Turn(q)
  BY <1>2, <1>4, <1>6, <1>7, <1>10 DEF Turn, UpkeepTurn
<1> QED  BY <1>11, <1>12, <1>13

\* A request that is at work goes on, or ends.
LEMMA GoesOn ==
    ASSUME PropertyInv, NEW c \in Calls, NEW ops, "none" \notin ops, call[c].op \in ops
    PROVE  /\ Leave(c) => Idle \in PropertyCall /\ Steps(c, Idle, ops)
           /\ \A at \in {"link", "commit", "facility", "follow"} : Goto(c, at) =>
                 \E q \in PropertyCall : q = [call[c] EXCEPT !.at = at] /\ Steps(c, q, ops)
<1>1. call \in [Calls -> PropertyCall] /\ tidy \in BOOLEAN /\ call[c] # Idle
  BY DEF PropertyInv, PropertyTyped, Idle
<1>2. Idle \in PropertyCall /\ Idle.op = "none"
  BY DEF Idle, PropertyCall
<1>3. Leave(c) => Steps(c, Idle, ops)
  BY <1>1, <1>2 DEF Leave, Steps
<1>4. ASSUME NEW at \in {"link", "commit", "facility", "follow"}, Goto(c, at)
      PROVE  \E q \in PropertyCall : q = [call[c] EXCEPT !.at = at] /\ Steps(c, q, ops)
  <2>1. PICK q : q = [call[c] EXCEPT !.at = at]
    OBVIOUS
  <2>2. q \in PropertyCall /\ q.op = call[c].op
    BY <1>1, <2>1 DEF PropertyCall
  <2>3. call' = [call EXCEPT ![c] = q] /\ tidy' = tidy
    BY <1>1, <1>4, <2>1 DEF Goto
  <2> QED  BY <1>1, <2>1, <2>2, <2>3 DEF Steps
<1> QED  BY <1>2, <1>3, <1>4

-----------------------------------------------------------------------------
(* Tenants and leases *)

LEMMA LettingEnters ==
    ASSUME PropertyInv, NEW c \in Calls, NEW op \in LeasingOps, NEW at \in {"write", "bill"},
           NEW x \in Tenants \cup Leases, Enter(c, op, at, x, None, None),
           NEW q, q = [op |-> op, at |-> at, row |-> x, arg |-> None, seen |-> None],
           LettingRequest(q), tidy /\ LetOnce => LettingRead(q)
    PROVE  PropertyInv'
<1>1. q \in PropertyCall
  BY DEF PropertyCall, PropertyRows
<1>2. q.op = op /\ q.at = at /\ q.row = x /\ q.arg = None /\ q.seen = None
  OBVIOUS
<1>3. RequestOK(q)
  BY DEF RequestOK
<1>4. tidy /\ Turn(Idle) => Turn(q)
  BY <1>2, FirstStepOf DEF Turn, LettingTurn
<1> QED  BY <1>1, <1>2, <1>3, <1>4, FirstStep

TenantChanges(n) ==
    /\ OnlyTheseChange(Tenants \cup Leases)
    /\ \A m \in Tenants \ {n} : db'[m] = db[m]
    /\ \A l \in Leases : db'[l] = db[l]

LEMMA TenantWritten ==
    ASSUME RowsTyped, NEW n \in Tenants, NEW status, Becomes(n, status)
    PROVE  TenantChanges(n) /\ db'[n] = [status |-> status]
<1>1. \A l \in Leases : l # n /\ l \in PropertyRows
  BY PropertyAssumption DEF PropertyRows
<1> QED  BY <1>1 DEF RowsTyped, LettingTyped, TenantRow, Becomes, TenantChanges, OnlyTheseChange,
         PropertyRows

LEMMA TenantCommit ==
    ASSUME PropertyInv, NEW c \in Calls, NEW n \in Tenants, NEW status \in {"ACTIVE", "FORMER"},
           call[c].op \in {"createTenant", "endTenancy"}, Becomes(n, status), Leave(c),
           tidy' /\ LettingRead(call[c]) /\ LetOnce => LetOnce'
    PROVE  PropertyInv'
<1>1. call[c].op \in LeasingOps /\ "none" \notin LeasingOps
  BY DEF LeasingOps
<1>2. Idle \in PropertyCall /\ Steps(c, Idle, LeasingOps)
  BY <1>1, GoesOn
<1>3. RowsTyped /\ LeasesOK
  BY DEF PropertyInv, PropertyTyped
<1>4. TenantChanges(n) /\ db'[n] = [status |-> status]
  BY <1>3, TenantWritten
<1>5. LettingTyped' /\ LeasesOK'
  BY <1>3, <1>4 DEF RowsTyped, LettingTyped, TenantRow, LeasesOK, TenantChanges
<1>6. RequestOK(Idle)'
  BY DEF RequestOK
<1>7. \A l \in Leases : Owed(call[c], "rent", l) = 0 /\ Owed(Idle, "rent", l) = 0
  BY DEF Owed, Links, Idle
<1>8. \A l \in Leases : (db[l].started => db'[l].started) /\ Balanced("rent", call[c], Idle, l)
  BY <1>3, <1>4, <1>7 DEF Balanced, TenantChanges, RowsTyped, LettingTyped, LeaseRow
<1>9. RentsLinked(call[c]) => RentsLinked(Idle)'
  BY <1>4, <1>7 DEF RentsLinked, TenantChanges
<1>10. LettingRead(Idle)'
  BY DEF LettingRead, Idle
<1>11. OnlyTheseChange(Tenants \cup Leases)
  BY <1>4 DEF TenantChanges
<1> QED  BY <1>2, <1>5, <1>6, <1>8, <1>9, <1>10, <1>11, LettingStep DEF LettingTurn

LEMMA CreateTenantKeeps ==
    ASSUME PropertyInv, NEW c \in Calls, NEW n \in Tenants, CreateTenant(c, n)
    PROVE  PropertyInv'
<1>1. PICK q : q = [op |-> "createTenant", at |-> "write", row |-> n, arg |-> None, seen |-> None]
  OBVIOUS
<1>2. CASE /\ \A other \in TenantsOf(FlatOf[n]) : ~In(other, {"ACTIVE"})
           /\ Enter(c, "createTenant", "write", n, None, None)
  <2>1. LettingRequest(q) /\ LettingRead(q)
    BY <1>1, <1>2 DEF LettingRequest, LettingRead, TenantsOf, In
  <2> QED  BY <1>1, <1>2, <2>1, LettingEnters DEF LeasingOps
<1>3. CASE At(c, "createTenant", "write", n, None) /\ Becomes(n, "ACTIVE") /\ Leave(c)
  <2>1. ASSUME LettingRead(call[c]), LetOnce PROVE LetOnce'
    <3>1. \A m \in Tenants : FlatOf[m] = FlatOf[n] => db[m].status # "ACTIVE"
      BY <1>3, <2>1 DEF At, LettingRead
    <3>2. TenantChanges(n) /\ db'[n] = [status |-> "ACTIVE"]
      BY <1>3, TenantWritten DEF PropertyInv, PropertyTyped
    <3>3. \A m \in Tenants : db[m].status = "ACTIVE" => db'[m].status = "ACTIVE"
      BY <3>2 DEF TenantChanges
    <3>4. \A m \in Tenants : m # n => db'[m] = db[m]
      BY <3>2 DEF TenantChanges
    <3>5. \A l \in Leases : db'[l] = db[l] /\ TenantOf[l] \in Tenants
      BY <3>2, LeasingAssumption DEF TenantChanges
    <3> QED  BY <2>1, <3>1, <3>2, <3>3, <3>4, <3>5 DEF LetOnce, HoldsFlat
  <2> QED  BY <1>3, <2>1, TenantCommit DEF At
<1> QED  BY <1>2, <1>3 DEF CreateTenant, Insertion, Handler

LEMMA EndTenancyKeeps ==
    ASSUME PropertyInv, NEW c \in Calls, NEW n \in Tenants, EndTenancy(c, n)
    PROVE  PropertyInv'
<1>1. PICK q : q = [op |-> "endTenancy", at |-> "write", row |-> n, arg |-> None, seen |-> None]
  OBVIOUS
<1>2. CASE /\ \A l \in Leases : TenantOf[l] = n => ~In(l, OpenLease)
           /\ Enter(c, "endTenancy", "write", n, None, None)
  <2>1. LettingRequest(q) /\ LettingRead(q)
    BY <1>1, <1>2 DEF LettingRequest, LettingRead, In
  <2> QED  BY <1>1, <1>2, <2>1, LettingEnters DEF LeasingOps
<1>3. CASE At(c, "endTenancy", "write", n, None) /\ Becomes(n, "FORMER") /\ Leave(c)
  <2>1. ASSUME LettingRead(call[c]), LetOnce PROVE LetOnce'
    <3>1. \A l \in Leases : TenantOf[l] = n => db[l].status \notin OpenLease
      BY <1>3, <2>1 DEF At, LettingRead
    <3>2. TenantChanges(n) /\ db'[n] = [status |-> "FORMER"]
      BY <1>3, TenantWritten DEF PropertyInv, PropertyTyped
    <3>3. \A m \in Tenants : m # n => db'[m] = db[m]
      BY <3>2 DEF TenantChanges
    <3>4. \A l \in Leases : db'[l] = db[l] /\ TenantOf[l] \in Tenants
      BY <3>2, LeasingAssumption DEF TenantChanges
    <3> QED  BY <2>1, <3>1, <3>2, <3>3, <3>4 DEF LetOnce, HoldsFlat
  <2> QED  BY <1>3, <2>1, TenantCommit DEF At
<1> QED  BY <1>2, <1>3 DEF EndTenancy, Handler

LeaseChanges(l) ==
    /\ OnlyTheseChange(Tenants \cup Leases)
    /\ \A n \in Tenants : db'[n] = db[n]
    /\ \A k \in Leases \ {l} : db'[k] = db[k]
LeaseAs(l, status, revived, started, ended, bills, links) ==
    db'[l] = [status |-> status, revived |-> revived, started |-> started, ended |-> ended,
              bills |-> bills, links |-> links]

LEMMA LeaseWritten ==
    ASSUME RowsTyped, NEW l \in Leases, NEW v, db' = [db EXCEPT ![l] = v]
    PROVE  LeaseChanges(l) /\ db'[l] = v
<1>1. \A n \in Tenants : l # n /\ n \in PropertyRows
  BY PropertyAssumption DEF PropertyRows
<1> QED  BY <1>1 DEF RowsTyped, LeaseChanges, OnlyTheseChange, PropertyRows

LEMMA LeaseRewritten ==
    ASSUME RowsTyped, NEW l \in Leases, NEW row, row = db[l]
    PROVE  /\ \A status : Becomes(l, status) =>
                 LeaseChanges(l) /\ LeaseAs(l, status, row.revived, row.started, row.ended, row.bills, row.links)
           /\ Start(l) =>
                 LeaseChanges(l) /\ LeaseAs(l, "ACTIVE", row.revived, TRUE, row.ended, row.bills, row.links)
           /\ \A revived : db' = [db EXCEPT ![l].status = "ACTIVE", ![l].revived = revived] =>
                 LeaseChanges(l) /\ LeaseAs(l, "ACTIVE", revived, row.started, row.ended, row.bills, row.links)
           /\ db' = [db EXCEPT ![l].status = "TERMINATED", ![l].ended = TRUE] =>
                 LeaseChanges(l) /\ LeaseAs(l, "TERMINATED", row.revived, row.started, TRUE, row.bills, row.links)
           /\ db' = [db EXCEPT ![l].bills = @ + 1] =>
                 LeaseChanges(l) /\ LeaseAs(l, row.status, row.revived, row.started, row.ended, row.bills + 1, row.links)
           /\ db' = [db EXCEPT ![l].links = @ + 1] =>
                 LeaseChanges(l) /\ LeaseAs(l, row.status, row.revived, row.started, row.ended, row.bills, row.links + 1)
<1>1. row \in LeaseRow /\ l \in DOMAIN db
  BY DEF RowsTyped, LettingTyped, PropertyRows
<1>2. ASSUME NEW status, Becomes(l, status)
      PROVE  LeaseChanges(l) /\ LeaseAs(l, status, row.revived, row.started, row.ended, row.bills, row.links)
  <2>1. PICK v : v = [row EXCEPT !.status = status]
    OBVIOUS
  <2>2. db' = [db EXCEPT ![l] = v]
    BY <1>1, <1>2, <2>1 DEF Becomes, Start
  <2> QED  BY <1>1, <2>1, <2>2, LeaseWritten DEF LeaseRow, LeaseAs
<1>3. ASSUME Start(l)
      PROVE  LeaseChanges(l) /\ LeaseAs(l, "ACTIVE", row.revived, TRUE, row.ended, row.bills, row.links)
  <2>1. PICK v : v = [row EXCEPT !.status = "ACTIVE", !.started = TRUE]
    OBVIOUS
  <2>2. db' = [db EXCEPT ![l] = v]
    BY <1>1, <1>3, <2>1 DEF Becomes, Start
  <2> QED  BY <1>1, <2>1, <2>2, LeaseWritten DEF LeaseRow, LeaseAs
<1>4. ASSUME NEW revived, db' = [db EXCEPT ![l].status = "ACTIVE", ![l].revived = revived]
      PROVE  LeaseChanges(l) /\ LeaseAs(l, "ACTIVE", revived, row.started, row.ended, row.bills, row.links)
  <2>1. PICK v : v = [row EXCEPT !.status = "ACTIVE", !.revived = revived]
    OBVIOUS
  <2>2. db' = [db EXCEPT ![l] = v]
    BY <1>1, <1>4, <2>1 DEF Becomes, Start
  <2> QED  BY <1>1, <2>1, <2>2, LeaseWritten DEF LeaseRow, LeaseAs
<1>5. ASSUME db' = [db EXCEPT ![l].status = "TERMINATED", ![l].ended = TRUE]
      PROVE  LeaseChanges(l) /\ LeaseAs(l, "TERMINATED", row.revived, row.started, TRUE, row.bills, row.links)
  <2>1. PICK v : v = [row EXCEPT !.status = "TERMINATED", !.ended = TRUE]
    OBVIOUS
  <2>2. db' = [db EXCEPT ![l] = v]
    BY <1>1, <1>5, <2>1 DEF Becomes, Start
  <2> QED  BY <1>1, <2>1, <2>2, LeaseWritten DEF LeaseRow, LeaseAs
<1>6. ASSUME db' = [db EXCEPT ![l].bills = @ + 1]
      PROVE  LeaseChanges(l) /\ LeaseAs(l, row.status, row.revived, row.started, row.ended, row.bills + 1, row.links)
  <2>1. PICK v : v = [row EXCEPT !.bills = @ + 1]
    OBVIOUS
  <2>2. db' = [db EXCEPT ![l] = v]
    BY <1>1, <1>6, <2>1 DEF Becomes, Start
  <2> QED  BY <1>1, <2>1, <2>2, LeaseWritten DEF LeaseRow, LeaseAs
<1>7. ASSUME db' = [db EXCEPT ![l].links = @ + 1]
      PROVE  LeaseChanges(l) /\ LeaseAs(l, row.status, row.revived, row.started, row.ended, row.bills, row.links + 1)
  <2>1. PICK v : v = [row EXCEPT !.links = @ + 1]
    OBVIOUS
  <2>2. db' = [db EXCEPT ![l] = v]
    BY <1>1, <1>7, <2>1 DEF Becomes, Start
  <2> QED  BY <1>1, <2>1, <2>2, LeaseWritten DEF LeaseRow, LeaseAs
<1> QED  BY <1>2, <1>3, <1>4, <1>5, <1>6, <1>7

\* Nobody is in the way of a lease.
FreeFor(l) ==
    /\ db[TenantOf[l]].status = "ACTIVE"
    /\ \A k \in Leases : SameFlat(k, l) => db[k].status \notin OpenLease

LEMMA LetOnceStays ==
    ASSUME NEW l \in Leases, LeaseChanges(l), LetOnce,
           HoldsFlat(l)' => HoldsFlat(l) \/ FreeFor(l),
           db'[l].ended => db'[l].status = "TERMINATED"
    PROVE  LetOnce'
<1>1. \A n \in Tenants : db'[n] = db[n]
  BY DEF LeaseChanges
<1>2. \A k \in Leases \ {l} : db'[k] = db[k] /\ HoldsFlat(k)' = HoldsFlat(k)
  BY DEF LeaseChanges, HoldsFlat
<1>3. \A k \in Leases : TenantOf[k] \in Tenants
  BY LeasingAssumption
<1>4. \A k \in Leases : HoldsFlat(k)' => db'[TenantOf[k]].status = "ACTIVE"
  BY <1>1, <1>2, <1>3 DEF LetOnce, FreeFor
<1>5. ASSUME NEW k \in Leases, NEW j \in Leases, HoldsFlat(k)', HoldsFlat(j)', SameFlat(k, j) PROVE k = j
  <2>1. CASE HoldsFlat(l)
    BY <1>2, <1>5, <2>1 DEF LetOnce
  <2>2. CASE ~HoldsFlat(l)
    <3>1. HoldsFlat(l)' => \A i \in Leases : SameFlat(i, l) => ~HoldsFlat(i)
      BY <2>2 DEF FreeFor, HoldsFlat
    <3>2. SameFlat(j, k)
      BY <1>5 DEF SameFlat
    <3> QED  BY <1>2, <1>5, <3>1, <3>2 DEF LetOnce
  <2> QED  BY <2>1, <2>2
<1>6. \A k, j \in Leases : HoldsFlat(k)' /\ HoldsFlat(j)' /\ SameFlat(k, j)' => k = j
  BY <1>5 DEF SameFlat
<1> QED  BY <1>1, <1>2, <1>4, <1>6 DEF LetOnce

LEMMA LeaseCommit ==
    ASSUME PropertyInv, NEW c \in Calls, NEW l \in Leases, NEW q \in PropertyCall,
           Steps(c, q, LeasingOps), call[c].op \in LeasingOps, call[c].row = l,
           q = Idle \/ (q.op = "rent" /\ q.row = l),
           LeaseChanges(l), db'[l] \in LeaseRow, db'[l].bills <= MostRents, RequestOK(q)',
           db'[l].status \in {"ACTIVE", "EXPIRED"} \/ db'[l].bills > 0 => db'[l].started,
           db[l].started => db'[l].started, Balanced("rent", call[c], q, l),
           tidy' /\ LettingRead(call[c]) /\ LetOnce =>
               /\ HoldsFlat(l)' => HoldsFlat(l) \/ FreeFor(l)
               /\ db'[l].ended => db'[l].status = "TERMINATED"
    PROVE  PropertyInv'
<1>1. RowsTyped /\ LeasesOK
  BY DEF PropertyInv, PropertyTyped
<1>2. /\ \A n \in Tenants : db'[n] = db[n]
      /\ \A k \in Leases \ {l} : db'[k] = db[k]
  BY DEF LeaseChanges
<1>3. LettingTyped' /\ LeasesOK'
  BY <1>1, <1>2 DEF RowsTyped, LettingTyped, LeasesOK
<1>4. \A k \in Leases \ {l} : Owed(call[c], "rent", k) = 0 /\ Owed(q, "rent", k) = 0
  BY DEF Owed, Links, Idle
<1>5. \A k \in Leases : Balanced("rent", call[c], q, k)
  BY <1>1, <1>2, <1>4 DEF Balanced, RowsTyped, LettingTyped, LeaseRow
<1>6. \A k \in Leases : db[k].started => db'[k].started
  BY <1>2
<1>7. ASSUME tidy', LettingTurn(call[c]) PROVE LettingTurn(q)'
  <2>1. LettingRead(q)'
    BY DEF LettingRead, Idle
  <2>2. LetOnce'
    BY <1>7, LetOnceStays DEF LettingTurn
  <2>3. RentsLinked(q)'
    <3>1. \A k \in Leases : db[k].links + Owed(call[c], "rent", k) = db[k].bills
      BY <1>7 DEF LettingTurn, RentsLinked
    <3>2. \A k \in Leases : /\ db[k].links \in Nat /\ db[k].bills \in Nat
                            /\ db'[k].links \in Nat /\ db'[k].bills \in Nat
      BY <1>1, <1>3 DEF RowsTyped, LettingTyped, LeaseRow
    <3>3. \A k \in Leases : Owed(call[c], "rent", k) \in {0, 1} /\ Owed(q, "rent", k) \in {0, 1}
      BY OwedIsNat
    <3>4. \A k \in Leases : Owed(q, "rent", k)' = Owed(q, "rent", k)
      BY DEF Owed, Links
    <3>5. ASSUME NEW k \in Leases PROVE db'[k].links + Owed(q, "rent", k) = db'[k].bills
      <4>1. db'[k].links + Owed(q, "rent", k) + db[k].bills
                = db[k].links + Owed(call[c], "rent", k) + db'[k].bills
        BY <1>5 DEF Balanced
      <4> QED  BY <3>1, <3>2, <3>3, <4>1
    <3> QED  BY <3>4, <3>5 DEF RentsLinked
  <2> QED  BY <2>1, <2>2, <2>3 DEF LettingTurn
<1> QED  BY <1>3, <1>5, <1>6, <1>7, LettingStep DEF LeaseChanges

LEMMA LeaseEnds ==
    ASSUME PropertyInv, NEW c \in Calls, NEW l \in Leases, NEW op \in LeasingOps \ {"rent"},
           At(c, op, "write", l, None), Leave(c),
           NEW status \in {"DRAFT", "ACTIVE", "EXPIRED", "TERMINATED"}, NEW revived \in BOOLEAN,
           NEW started \in BOOLEAN, NEW ended \in BOOLEAN,
           LeaseChanges(l), LeaseAs(l, status, revived, started, ended, db[l].bills, db[l].links),
           status \in {"ACTIVE", "EXPIRED"} \/ db[l].started => started,
           tidy' /\ LettingRead(call[c]) /\ LetOnce =>
               /\ HoldsFlat(l)' => HoldsFlat(l) \/ FreeFor(l)
               /\ ended => status = "TERMINATED"
    PROVE  PropertyInv'
<1>1. call[c].op = op /\ call[c].row = l /\ call[c].op \in LeasingOps /\ "none" \notin LeasingOps
  BY DEF At, LeasingOps
<1>2. Idle \in PropertyCall /\ Steps(c, Idle, LeasingOps) /\ RequestOK(Idle)'
  BY <1>1, GoesOn DEF RequestOK
<1>3. /\ db[l] \in LeaseRow /\ db[l].bills <= MostRents /\ db[l].bills \in Nat /\ db[l].links \in Nat
      /\ db[l].bills > 0 => db[l].started
  BY DEF PropertyInv, PropertyTyped, RowsTyped, LettingTyped, LeaseRow, LeasesOK
<1>4. /\ db'[l] \in LeaseRow /\ db'[l].status = status /\ db'[l].started = started
      /\ db'[l].ended = ended /\ db'[l].bills = db[l].bills /\ db'[l].links = db[l].links
  BY <1>3 DEF LeaseAs, LeaseRow
<1>5. Balanced("rent", call[c], Idle, l)
  <2>1. Owed(call[c], "rent", l) = 0 /\ Owed(Idle, "rent", l) = 0
    BY <1>1 DEF Owed, Links, Idle
  <2> QED  BY <1>3, <1>4, <2>1 DEF Balanced
<1> QED  BY <1>1, <1>2, <1>3, <1>4, <1>5, LeaseCommit

LEMMA CreateLeaseKeeps ==
    ASSUME PropertyInv, NEW c \in Calls, NEW l \in Leases, CreateLease(c, l)
    PROVE  PropertyInv'
<1>1. PICK q : q = [op |-> "createLease", at |-> "write", row |-> l, arg |-> None, seen |-> None]
  OBVIOUS
<1>2. CASE MayLease(l) /\ Enter(c, "createLease", "write", l, None, None)
  <2>1. LettingRequest(q) /\ LettingRead(q)
    BY <1>1, <1>2 DEF LettingRequest, LettingRead, MayLease, LeasesOn, SameFlat, In
  <2> QED  BY <1>1, <1>2, <2>1, LettingEnters DEF LeasingOps
<1>3. CASE /\ At(c, "createLease", "write", l, None) /\ In(l, {"ABSENT"})
           /\ Becomes(l, "DRAFT") /\ Leave(c)
  <2>1. RowsTyped /\ db[l] \in LeaseRow
    BY DEF PropertyInv, PropertyTyped, RowsTyped, LettingTyped
  <2>2. /\ LeaseChanges(l)
        /\ LeaseAs(l, "DRAFT", db[l].revived, db[l].started, db[l].ended, db[l].bills, db[l].links)
    BY <1>3, <2>1, LeaseRewritten
  <2>3. LettingRead(call[c]) => FreeFor(l)
    BY <1>3 DEF LettingRead, FreeFor, At
  <2>4. LetOnce => ~db[l].ended
    BY <1>3 DEF LetOnce, In
  <2> QED  BY <1>3, <2>1, <2>2, <2>3, <2>4, LeaseEnds DEF LeasingOps, LeaseRow
<1> QED  BY <1>2, <1>3 DEF CreateLease, Insertion, Handler

LEMMA ActivateLeaseKeeps ==
    ASSUME PropertyInv, NEW c \in Calls, NEW l \in Leases, ActivateLease(c, l)
    PROVE  PropertyInv'
<1>1. PICK q : q = [op |-> "activate", at |-> "write", row |-> l, arg |-> None, seen |-> None]
  OBVIOUS
<1>2. CASE In(l, {"DRAFT"}) /\ Enter(c, "activate", "write", l, None, None)
  <2>1. LettingRequest(q) /\ LettingRead(q)
    BY <1>1, <1>2 DEF LettingRequest, LettingRead, In
  <2> QED  BY <1>1, <1>2, <2>1, LettingEnters DEF LeasingOps
<1>3. CASE At(c, "activate", "write", l, None) /\ Start(l) /\ Leave(c)
  <2>1. RowsTyped /\ db[l] \in LeaseRow
    BY DEF PropertyInv, PropertyTyped, RowsTyped, LettingTyped
  <2>2. /\ LeaseChanges(l)
        /\ LeaseAs(l, "ACTIVE", db[l].revived, TRUE, db[l].ended, db[l].bills, db[l].links)
    BY <1>3, <2>1, LeaseRewritten
  <2>3. ASSUME LettingRead(call[c]), LetOnce PROVE (HoldsFlat(l)' => HoldsFlat(l)) /\ ~db[l].ended
    <3>1. db[l].status = "DRAFT"
      BY <1>3, <2>3 DEF LettingRead, At
    <3>2. ~db[l].ended
      BY <2>3, <3>1 DEF LetOnce
    <3> QED  BY <2>2, <3>1, <3>2 DEF LeaseAs, HoldsFlat, OpenLease
  <2> QED  BY <1>3, <2>1, <2>2, <2>3, LeaseEnds DEF LeasingOps, LeaseRow
<1> QED  BY <1>2, <1>3 DEF ActivateLease, Handler

\* A lease that is renewed was begun before, and one that had ended is revived.
LEMMA RenewLeaseKeeps ==
    ASSUME PropertyInv, NEW c \in Calls, NEW l \in Leases, RenewLease(c, l)
    PROVE  PropertyInv'
<1>1. PICK q : q = [op |-> "renew", at |-> "write", row |-> l, arg |-> None, seen |-> None]
  OBVIOUS
<1>2. CASE In(l, {"ACTIVE", "EXPIRED"}) /\ Enter(c, "renew", "write", l, None, None)
  <2>1. LettingRequest(q) /\ LettingRead(q)
    BY <1>1, <1>2 DEF LettingRequest, LettingRead, In, PropertyInv, LeasesOK
  <2> QED  BY <1>1, <1>2, <2>1, LettingEnters DEF LeasingOps
<1>3. CASE /\ At(c, "renew", "write", l, None) /\ Leave(c)
           /\ db' = [db EXCEPT ![l].status = "ACTIVE", ![l].revived = @ \/ ~In(l, {"ACTIVE"})]
  <2>1. RowsTyped /\ db[l] \in LeaseRow /\ l \in DOMAIN db
    BY DEF PropertyInv, PropertyTyped, RowsTyped, LettingTyped, PropertyRows
  <2>2. PICK revived \in BOOLEAN : revived = (db[l].revived \/ db[l].status # "ACTIVE")
    OBVIOUS
  <2>3. db' = [db EXCEPT ![l].status = "ACTIVE", ![l].revived = revived]
    BY <1>3, <2>1, <2>2 DEF In, LeaseRow
  <2>4. /\ LeaseChanges(l)
        /\ LeaseAs(l, "ACTIVE", revived, db[l].started, db[l].ended, db[l].bills, db[l].links)
    BY <2>1, <2>3, LeaseRewritten
  <2>5. db[l].started
    <3>1. PICK p \in PropertyCall : p = call[c] /\ RequestOK(p)
      BY DEF PropertyInv, PropertyTyped
    <3>2. p.op = "renew" /\ p.row = l
      BY <1>3, <3>1 DEF At
    <3> QED  BY <3>1, <3>2 DEF RequestOK, Idle, LettingRequest, LandRequest, UpkeepRequest
  <2>6. ASSUME LettingRead(call[c]), LetOnce PROVE (HoldsFlat(l)' => HoldsFlat(l)) /\ ~db[l].ended
    <3>1. db[l].status \in {"ACTIVE", "EXPIRED"}
      BY <1>3, <2>6 DEF LettingRead, At
    <3>2. ~db[l].ended
      BY <2>6, <3>1 DEF LetOnce
    <3>3. HoldsFlat(l)' => ~revived
      BY <2>4 DEF LeaseAs, HoldsFlat
    <3>4. ~revived => db[l].status = "ACTIVE" /\ ~db[l].revived
      BY <2>2
    <3> QED  BY <3>2, <3>3, <3>4 DEF HoldsFlat, OpenLease
  <2> QED  BY <1>3, <2>1, <2>4, <2>5, <2>6, LeaseEnds DEF LeasingOps, LeaseRow
<1> QED  BY <1>2, <1>3 DEF RenewLease, Handler

LEMMA MarkExpiredKeeps ==
    ASSUME PropertyInv, NEW c \in Calls, NEW l \in Leases, MarkExpired(c, l)
    PROVE  PropertyInv'
<1>1. PICK q : q = [op |-> "expireLease", at |-> "write", row |-> l, arg |-> None, seen |-> None]
  OBVIOUS
<1>2. CASE In(l, {"ACTIVE"}) /\ Enter(c, "expireLease", "write", l, None, None)
  <2>1. LettingRequest(q) /\ LettingRead(q)
    BY <1>1, <1>2 DEF LettingRequest, LettingRead, In, PropertyInv, LeasesOK
  <2> QED  BY <1>1, <1>2, <2>1, LettingEnters DEF LeasingOps
<1>3. CASE At(c, "expireLease", "write", l, None) /\ Becomes(l, "EXPIRED") /\ Leave(c)
  <2>1. RowsTyped /\ db[l] \in LeaseRow
    BY DEF PropertyInv, PropertyTyped, RowsTyped, LettingTyped
  <2>2. /\ LeaseChanges(l)
        /\ LeaseAs(l, "EXPIRED", db[l].revived, db[l].started, db[l].ended, db[l].bills, db[l].links)
    BY <1>3, <2>1, LeaseRewritten
  <2>3. db[l].started
    <3>1. PICK p \in PropertyCall : p = call[c] /\ RequestOK(p)
      BY DEF PropertyInv, PropertyTyped
    <3>2. p.op = "expireLease" /\ p.row = l
      BY <1>3, <3>1 DEF At
    <3> QED  BY <3>1, <3>2 DEF RequestOK, Idle, LettingRequest, LandRequest, UpkeepRequest
  <2>4. ASSUME LettingRead(call[c]), LetOnce PROVE ~db[l].ended
    BY <1>3, <2>4 DEF LettingRead, At, LetOnce
  <2>5. ~HoldsFlat(l)'
    BY <2>2 DEF LeaseAs, HoldsFlat, OpenLease
  <2> QED  BY <1>3, <2>1, <2>2, <2>3, <2>4, <2>5, LeaseEnds DEF LeasingOps, LeaseRow
<1> QED  BY <1>2, <1>3 DEF MarkExpired, Handler

LEMMA TerminateLeaseKeeps ==
    ASSUME PropertyInv, NEW c \in Calls, NEW l \in Leases, TerminateLease(c, l)
    PROVE  PropertyInv'
<1>1. PICK q : q = [op |-> "terminate", at |-> "write", row |-> l, arg |-> None, seen |-> None]
  OBVIOUS
<1>2. CASE Enter(c, "terminate", "write", l, None, None)
  <2>1. LettingRequest(q) /\ LettingRead(q)
    BY <1>1 DEF LettingRequest, LettingRead
  <2> QED  BY <1>1, <1>2, <2>1, LettingEnters DEF LeasingOps
<1>3. CASE /\ At(c, "terminate", "write", l, None) /\ Leave(c)
           /\ db' = [db EXCEPT ![l].status = "TERMINATED", ![l].ended = TRUE]
  <2>1. RowsTyped /\ db[l] \in LeaseRow
    BY DEF PropertyInv, PropertyTyped, RowsTyped, LettingTyped
  <2>2. /\ LeaseChanges(l)
        /\ LeaseAs(l, "TERMINATED", db[l].revived, db[l].started, TRUE, db[l].bills, db[l].links)
    BY <1>3, <2>1, LeaseRewritten
  <2>3. ~HoldsFlat(l)'
    BY <2>2 DEF LeaseAs, HoldsFlat, OpenLease
  <2> QED  BY <1>3, <2>1, <2>2, <2>3, LeaseEnds DEF LeasingOps, LeaseRow
<1> QED  BY <1>2, <1>3 DEF TerminateLease, Handler

\* The link comes to a bill that the request has made.
LEMMA GenerateRentInvoiceKeeps ==
    ASSUME PropertyInv, NEW c \in Calls, NEW l \in Leases, GenerateRentInvoice(c, l)
    PROVE  PropertyInv'
<1>1. RowsTyped /\ LeasesOK /\ LinksCovered
  BY DEF PropertyInv, PropertyTyped
<1>2. /\ db[l] \in LeaseRow /\ db[l].bills <= MostRents /\ db[l].bills \in Nat /\ db[l].links \in Nat
      /\ db[l].bills > 0 => db[l].started
  BY <1>1 DEF RowsTyped, LettingTyped, LeaseRow, LeasesOK
<1>3. PICK p \in PropertyCall : p = call[c] /\ RequestOK(p)
  BY DEF PropertyInv, PropertyTyped
<1>4. ASSUME p.op = "rent", p.row = l
      PROVE  db[l].started /\ call[c].op \in LeasingOps /\ "none" \notin LeasingOps
  <2>1. db[l].started
    BY <1>3, <1>4 DEF RequestOK, Idle, LettingRequest, LandRequest, UpkeepRequest
  <2> QED  BY <1>3, <1>4, <2>1 DEF LeasingOps
<1>5. ASSUME LeaseAs(l, db[l].status, db[l].revived, db[l].started, db[l].ended, db'[l].bills,
                     db'[l].links), db'[l].bills \in Nat, db'[l].links \in Nat
      PROVE  /\ db'[l] \in LeaseRow /\ db'[l].status = db[l].status
             /\ db'[l].started = db[l].started /\ db'[l].ended = db[l].ended
             /\ HoldsFlat(l)' => HoldsFlat(l)
  BY <1>2, <1>5 DEF LeaseAs, LeaseRow, HoldsFlat
<1>6. ASSUME In(l, {"ACTIVE"}), Enter(c, "rent", "bill", l, None, None) PROVE PropertyInv'
  <2>1. PICK q : q = [op |-> "rent", at |-> "bill", row |-> l, arg |-> None, seen |-> None]
    OBVIOUS
  <2>2. LettingRequest(q) /\ LettingRead(q)
    BY <1>1, <1>6, <2>1 DEF LettingRequest, LettingRead, In, LeasesOK
  <2> QED  BY <1>6, <2>1, <2>2, LettingEnters DEF LeasingOps
<1>7. ASSUME At(c, "rent", "bill", l, None), db[l].bills < MostRents,
             db' = [db EXCEPT ![l].bills = @ + 1], Goto(c, "link")
      PROVE  PropertyInv'
  <2>1. p.op = "rent" /\ p.at = "bill" /\ p.row = l
    BY <1>3, <1>7 DEF At
  <2>2. PICK q \in PropertyCall : q = [p EXCEPT !.at = "link"] /\ Steps(c, q, LeasingOps)
    BY <1>3, <1>4, <1>7, <2>1, GoesOn
  <2>3. q.op = "rent" /\ q.at = "link" /\ q.row = l
    BY <2>1, <2>2 DEF PropertyCall
  <2>4. /\ LeaseChanges(l)
        /\ LeaseAs(l, db[l].status, db[l].revived, db[l].started, db[l].ended, db[l].bills + 1,
                   db[l].links)
    BY <1>1, <1>7, LeaseRewritten
  <2>5. db'[l].bills = db[l].bills + 1 /\ db'[l].links = db[l].links
    BY <2>4 DEF LeaseAs
  <2>6. Balanced("rent", p, q, l)
    <3>1. Owed(p, "rent", l) = 0 /\ Owed(q, "rent", l) = 1
      BY <2>1, <2>3 DEF Owed, Links
    <3> QED  BY <1>2, <2>5, <3>1 DEF Balanced
  <2>7. /\ db'[l] \in LeaseRow /\ db'[l].status = db[l].status
        /\ db'[l].started = db[l].started /\ db'[l].ended = db[l].ended
        /\ HoldsFlat(l)' => HoldsFlat(l)
    BY <1>2, <1>5, <2>4, <2>5
  <2>8. RequestOK(q)'
    BY <1>4, <2>1, <2>3, <2>7 DEF RequestOK, LettingRequest
  <2>9. db'[l].bills <= MostRents
    BY <1>2, <1>7, <2>5, LeasingAssumption
  <2>10. LetOnce => (db[l].ended => db[l].status = "TERMINATED")
    BY DEF LetOnce
  <2> QED  BY <1>3, <1>4, <2>1, <2>2, <2>3, <2>4, <2>6, <2>7, <2>8, <2>9, <2>10, LeaseCommit
<1>8. ASSUME At(c, "rent", "link", l, None), db' = [db EXCEPT ![l].links = @ + 1], Leave(c)
      PROVE  PropertyInv'
  <2>1. p.op = "rent" /\ p.at = "link" /\ p.row = l
    BY <1>3, <1>8 DEF At
  <2>2. Idle \in PropertyCall /\ Steps(c, Idle, LeasingOps) /\ RequestOK(Idle)'
    BY <1>3, <1>4, <1>8, <2>1, GoesOn DEF RequestOK
  <2>3. /\ LeaseChanges(l)
        /\ LeaseAs(l, db[l].status, db[l].revived, db[l].started, db[l].ended, db[l].bills,
                   db[l].links + 1)
    BY <1>1, <1>8, LeaseRewritten
  <2>4. db'[l].bills = db[l].bills /\ db'[l].links = db[l].links + 1
    BY <2>3 DEF LeaseAs
  <2>5. Balanced("rent", p, Idle, l)
    <3>1. Owed(p, "rent", l) = 1 /\ Owed(Idle, "rent", l) = 0
      BY <2>1 DEF Owed, Links, Idle
    <3> QED  BY <1>2, <2>4, <3>1 DEF Balanced
  <2>6. /\ db'[l] \in LeaseRow /\ db'[l].status = db[l].status
        /\ db'[l].started = db[l].started /\ db'[l].ended = db[l].ended
        /\ HoldsFlat(l)' => HoldsFlat(l)
    BY <1>2, <1>5, <2>3, <2>4
  <2>7. LetOnce => (db[l].ended => db[l].status = "TERMINATED")
    BY DEF LetOnce
  <2> QED  BY <1>2, <1>3, <1>4, <2>1, <2>2, <2>3, <2>4, <2>5, <2>6, <2>7, LeaseCommit
<1> QED  BY <1>6, <1>7, <1>8 DEF GenerateRentInvoice

LEMMA LeasingKeeps == ASSUME PropertyInv, LeasingNext PROVE PropertyInv'
<1>1. CASE \E n \in Tenants, c \in Calls : CreateTenant(c, n) \/ EndTenancy(c, n)
  BY <1>1, CreateTenantKeeps, EndTenancyKeeps
<1>2. ASSUME NEW l \in Leases, NEW c \in Calls,
             \/ CreateLease(c, l) \/ ActivateLease(c, l) \/ RenewLease(c, l)
             \/ MarkExpired(c, l) \/ TerminateLease(c, l) \/ GenerateRentInvoice(c, l)
      PROVE  PropertyInv'
  BY <1>2, CreateLeaseKeeps, ActivateLeaseKeeps, RenewLeaseKeeps, MarkExpiredKeeps,
     TerminateLeaseKeeps, GenerateRentInvoiceKeeps
<1> QED  BY <1>1, <1>2 DEF LeasingNext

-----------------------------------------------------------------------------
(* Plots and master plans *)

LEMMA LandStatement ==
    ASSUME PropertyInv, call' = call, tidy' = (tidy /\ Alone),
           OnlyTheseChange(Plots \cup MasterPlans), LandTyped', LandOK',
           LandTurn(Idle) => LandTurn(Idle)'
    PROVE  PropertyInv'
<1>1. RowsTyped /\ LeasesOK /\ UpkeepOK
  BY DEF PropertyInv, PropertyTyped
<1>2. LettingApart /\ UpkeepApart
  BY OthersApart
<1>3. Idle.op \notin LeasingOps \cup FacilityOps
  BY DEF Idle, LeasingOps, FacilityOps
<1>4. RowsTyped' /\ LeasesOK' /\ UpkeepOK'
  BY <1>1, <1>2, LettingStays, UpkeepStays DEF RowsTyped, OnlyTheseChange
<1>5. Kept
  BY <1>2, LettingStays, UpkeepStays DEF Kept
<1>6. AllBalanced(Idle, Idle)
  BY <1>1, <1>2, <1>3, LettingStays, UpkeepStays
     DEF AllBalanced, RowsTyped, LettingTyped, LeaseRow, UpkeepTyped, RepairRow
<1>7. (LettingTurn(Idle) => LettingTurn(Idle)') /\ (UpkeepTurn(Idle) => UpkeepTurn(Idle)')
  BY <1>2, <1>3, LettingStays, UpkeepStays
<1>8. Turn(Idle) => Turn(Idle)'
  BY <1>7 DEF Turn
<1> QED  BY <1>4, <1>5, <1>6, <1>8, StatementKeeps

PlotChanges(p) ==
    /\ OnlyTheseChange(Plots \cup MasterPlans)
    /\ \A o \in Plots \ {p} : db'[o] = db[o]
    /\ \A m \in MasterPlans : db'[m] = db[m]
PlotAs(p, status, release, project, handled) ==
    db'[p] = [status |-> status, release |-> release, project |-> project, handled |-> handled]

LEMMA PlotWritten ==
    ASSUME RowsTyped, NEW p \in Plots
    PROVE  /\ db' = db => PlotChanges(p)
           /\ \A v : db' = [db EXCEPT ![p] = v] => PlotChanges(p) /\ db'[p] = v
<1>1. \A m \in MasterPlans : p # m /\ m \in PropertyRows
  BY PropertyAssumption DEF PropertyRows
<1> QED  BY <1>1 DEF RowsTyped, PlotChanges, OnlyTheseChange, PropertyRows

LEMMA PlotRewritten ==
    ASSUME RowsTyped, NEW p \in Plots, NEW row, row = db[p]
    PROVE  /\ \A status : db' = [db EXCEPT ![p].status = status, ![p].handled = TRUE] =>
                 PlotChanges(p) /\ PlotAs(p, status, row.release, row.project, TRUE)
           /\ \A project : Released(p, project) =>
                 PlotChanges(p) /\ PlotAs(p, "ALLOCATED", "active", project, row.handled)
           /\ TakeBack(p) =>
                 PlotChanges(p) /\ PlotAs(p, "AVAILABLE", "cancelled", row.project, row.handled)
<1>1. row \in PlotRow /\ p \in DOMAIN db
  BY DEF RowsTyped, LandTyped, PropertyRows
<1>2. ASSUME NEW status, db' = [db EXCEPT ![p].status = status, ![p].handled = TRUE]
      PROVE  PlotChanges(p) /\ PlotAs(p, status, row.release, row.project, TRUE)
  <2>1. PICK v : v = [row EXCEPT !.status = status, !.handled = TRUE]
    OBVIOUS
  <2>2. db' = [db EXCEPT ![p] = v]
    BY <1>1, <1>2, <2>1
  <2> QED  BY <1>1, <2>1, <2>2, PlotWritten DEF PlotRow, PlotAs
<1>3. ASSUME NEW project, Released(p, project)
      PROVE  PlotChanges(p) /\ PlotAs(p, "ALLOCATED", "active", project, row.handled)
  <2>1. PICK v : v = [row EXCEPT !.status = "ALLOCATED", !.release = "active", !.project = project]
    OBVIOUS
  <2>2. db' = [db EXCEPT ![p] = v]
    BY <1>1, <1>3, <2>1 DEF Released
  <2> QED  BY <1>1, <2>1, <2>2, PlotWritten DEF PlotRow, PlotAs
<1>4. ASSUME TakeBack(p)
      PROVE  PlotChanges(p) /\ PlotAs(p, "AVAILABLE", "cancelled", row.project, row.handled)
  <2>1. PICK v : v = [row EXCEPT !.release = "cancelled", !.status = "AVAILABLE"]
    OBVIOUS
  <2>2. db' = [db EXCEPT ![p] = v]
    BY <1>1, <1>4, <2>1 DEF TakeBack
  <2> QED  BY <1>1, <2>1, <2>2, PlotWritten DEF PlotRow, PlotAs
<1> QED  BY <1>2, <1>3, <1>4

\* Releases and cancellations write both of what a plot says of itself.
LEMMA PlotCommit ==
    ASSUME PropertyInv, NEW p \in Plots, PlotChanges(p), db'[p] \in PlotRow,
           ~db'[p].handled => (db'[p].status = "ALLOCATED" <=> db'[p].release = "active")
    PROVE  /\ OnlyTheseChange(Plots \cup MasterPlans) /\ LandTyped' /\ LandOK'
           /\ \A q, s : LandTurn(q) /\ s.op # "approvePlan" => LandTurn(s)'
<1>1. RowsTyped /\ LandOK
  BY DEF PropertyInv, PropertyTyped
<1>2. /\ \A o \in Plots \ {p} : db'[o] = db[o]
      /\ \A m \in MasterPlans : db'[m] = db[m]
  BY DEF PlotChanges
<1>3. LandTyped'
  BY <1>1, <1>2 DEF RowsTyped, LandTyped
<1>4. LandOK'
  <2>1. AllocatedWhileReleased'
    BY <1>1, <1>2 DEF LandOK, AllocatedWhileReleased, In
  <2> QED  BY <1>1, <1>2, <2>1 DEF LandOK
<1>5. ASSUME NEW q, NEW s, LandTurn(q), s.op # "approvePlan" PROVE LandTurn(s)'
  BY <1>2, <1>5 DEF LandTurn
<1> QED  BY <1>3, <1>4, <1>5 DEF PlotChanges

LEMMA UpdatePlotStatusKeeps ==
    ASSUME PropertyInv, NEW p \in Plots, NEW status \in PlotStatus, UpdatePlotStatus(p, status)
    PROVE  PropertyInv'
<1>1. RowsTyped /\ db[p] \in PlotRow
  BY DEF PropertyInv, PropertyTyped, RowsTyped, LandTyped
<1>2. PlotChanges(p) /\ PlotAs(p, status, db[p].release, db[p].project, TRUE)
  BY <1>1, PlotRewritten DEF UpdatePlotStatus, Statement
<1>3. db'[p] \in PlotRow /\ db'[p].handled
  BY <1>1, <1>2 DEF PlotAs, PlotRow
<1>4. Idle.op # "approvePlan"
  BY DEF Idle
<1>5. /\ OnlyTheseChange(Plots \cup MasterPlans) /\ LandTyped' /\ LandOK'
      /\ LandTurn(Idle) => LandTurn(Idle)'
  BY <1>2, <1>3, <1>4, PlotCommit
<1> QED  BY <1>5, LandStatement DEF UpdatePlotStatus, Statement

LEMMA PlotRequestEnds ==
    ASSUME PropertyInv, NEW c \in Calls, NEW p \in Plots, call[c].op \in {"releasePlot", "cancelPlot"},
           Leave(c), PlotChanges(p), db'[p] \in PlotRow,
           ~db'[p].handled => (db'[p].status = "ALLOCATED" <=> db'[p].release = "active")
    PROVE  PropertyInv'
<1>1. call[c].op \in LandOps /\ "none" \notin LandOps
  BY DEF LandOps
<1>2. Idle \in PropertyCall /\ Steps(c, Idle, LandOps) /\ RequestOK(Idle)'
  BY <1>1, GoesOn DEF RequestOK
<1>3. Idle.op # "approvePlan"
  BY DEF Idle
<1>4. /\ OnlyTheseChange(Plots \cup MasterPlans) /\ LandTyped' /\ LandOK'
      /\ LandTurn(call[c]) => LandTurn(Idle)'
  BY <1>3, PlotCommit
<1> QED  BY <1>2, <1>4, LandStep

LEMMA LandEnters ==
    ASSUME PropertyInv, NEW c \in Calls, NEW q \in PropertyCall,
           Enter(c, q.op, q.at, q.row, q.arg, q.seen), LandRequest(q), q.op \in LandOps,
           q.at \in {"write", "find"}
    PROVE  PropertyInv'
<1>1. RequestOK(q)
  BY DEF RequestOK
<1>2. Turn(Idle) => Turn(q)
  BY FirstStepOf
<1> QED  BY <1>1, <1>2, FirstStep

LEMMA ReleasePlotKeeps ==
    ASSUME PropertyInv, NEW c \in Calls, NEW p \in Plots, NEW project \in Projects,
           ReleasePlotToProject(c, p, project)
    PROVE  PropertyInv'
<1>1. RowsTyped /\ db[p] \in PlotRow /\ LandOK
  BY DEF PropertyInv, PropertyTyped, RowsTyped, LandTyped
<1>2. CASE /\ db[p].release # "active"
           /\ Enter(c, "releasePlot", "write", p, project, db[p].release)
  <2>1. PICK q : q = [op |-> "releasePlot", at |-> "write", row |-> p, arg |-> project,
                      seen |-> db[p].release]
    OBVIOUS
  <2>2. q \in PropertyCall
    BY <1>1, <2>1 DEF PropertyCall, PropertyRows, LandOps, PlotRow, Decisions
  <2>3. LandRequest(q) /\ q.op \in LandOps /\ q.at = "write"
    BY <2>1 DEF LandRequest, LandOps
  <2> QED  BY <1>2, <2>1, <2>2, <2>3, LandEnters
<1>3. CASE /\ At(c, "releasePlot", "write", p, project) /\ Leave(c)
           /\ db' = db \/ Released(p, project)
  <2>1. CASE db' = db
    BY <1>1, <1>3, <2>1, PlotWritten, PlotRequestEnds DEF At, LandOK, AllocatedWhileReleased, In
  <2>2. CASE Released(p, project)
    <3>1. PlotChanges(p) /\ PlotAs(p, "ALLOCATED", "active", project, db[p].handled)
      BY <1>1, <2>2, PlotRewritten
    <3>2. db'[p] \in PlotRow /\ db'[p].status = "ALLOCATED" /\ db'[p].release = "active"
      BY <1>1, <3>1 DEF PlotAs, PlotRow, PlotStatus
    <3> QED  BY <1>3, <3>1, <3>2, PlotRequestEnds DEF At
  <2> QED  BY <1>3, <2>1, <2>2
<1> QED  BY <1>2, <1>3 DEF ReleasePlotToProject

LEMMA CancelPlotKeeps ==
    ASSUME PropertyInv, NEW c \in Calls, NEW p \in Plots, CancelPlotRelease(c, p)
    PROVE  PropertyInv'
<1>1. RowsTyped /\ db[p] \in PlotRow
  BY DEF PropertyInv, PropertyTyped, RowsTyped, LandTyped
<1>2. CASE Enter(c, "cancelPlot", "write", p, None, None)
  <2>1. PICK q : q = [op |-> "cancelPlot", at |-> "write", row |-> p, arg |-> None, seen |-> None]
    OBVIOUS
  <2>2. q \in PropertyCall
    BY <2>1 DEF PropertyCall, PropertyRows, LandOps
  <2>3. LandRequest(q) /\ q.op \in LandOps /\ q.at = "write"
    BY <2>1 DEF LandRequest, LandOps
  <2> QED  BY <1>2, <2>1, <2>2, <2>3, LandEnters
<1>3. CASE At(c, "cancelPlot", "write", p, None) /\ TakeBack(p) /\ Leave(c)
  <2>1. PlotChanges(p) /\ PlotAs(p, "AVAILABLE", "cancelled", db[p].project, db[p].handled)
    BY <1>1, <1>3, PlotRewritten
  <2>2. db'[p] \in PlotRow /\ db'[p].status = "AVAILABLE" /\ db'[p].release = "cancelled"
    BY <1>1, <2>1 DEF PlotAs, PlotRow, PlotStatus
  <2> QED  BY <1>3, <2>1, <2>2, PlotRequestEnds DEF At
<1> QED  BY <1>2, <1>3 DEF CancelPlotRelease, Handler

LEMMA CreateMasterPlanKeeps ==
    ASSUME PropertyInv, NEW m \in MasterPlans, CreateMasterPlan(m)
    PROVE  PropertyInv'
<1>1. RowsTyped /\ LandOK
  BY DEF PropertyInv, PropertyTyped
<1>2. db[m].status = "ABSENT" /\ Becomes(m, "DRAFT") /\ call' = call /\ tidy' = (tidy /\ Alone)
  BY DEF CreateMasterPlan, Statement, In
<1>3. \A p \in Plots : p # m /\ p \in PropertyRows
  BY PropertyAssumption DEF PropertyRows
<1>4. PICK v : v = [db[m] EXCEPT !.status = "DRAFT"]
  OBVIOUS
<1>5. v = [status |-> "DRAFT"] /\ db' = [db EXCEPT ![m] = v]
  BY <1>1, <1>2, <1>4 DEF RowsTyped, LandTyped, PlanRow, Becomes, PropertyRows
<1>6. /\ OnlyTheseChange(Plots \cup MasterPlans)
      /\ \A p \in Plots : db'[p] = db[p]
      /\ \A n \in MasterPlans \ {m} : db'[n] = db[n]
      /\ db'[m] = v
  BY <1>1, <1>3, <1>5 DEF RowsTyped, OnlyTheseChange, PropertyRows
<1>7. LandTyped'
  BY <1>1, <1>5, <1>6 DEF RowsTyped, LandTyped, PlanRow
<1>8. LandOK'
  <2>1. AllocatedWhileReleased'
    BY <1>1, <1>6 DEF LandOK, AllocatedWhileReleased, In
  <2>2. \A n \in MasterPlans : db[n].status = "APPROVED" => db'[n].status = "APPROVED"
    BY <1>2, <1>6
  <2>3. \A n \in MasterPlans : db'[n].status = "SUPERSEDED" => db[n].status = "SUPERSEDED"
    BY <1>5, <1>6
  <2> QED  BY <1>1, <2>1, <2>2, <2>3 DEF LandOK
<1>9. LandTurn(Idle) => LandTurn(Idle)'
  <2>1. \A n \in MasterPlans : db'[n].status = "APPROVED" => db[n].status = "APPROVED"
    BY <1>5, <1>6
  <2>2. Idle.op # "approvePlan"
    BY DEF Idle
  <2> QED  BY <2>1, <2>2 DEF LandTurn
<1> QED  BY <1>2, <1>6, <1>7, <1>8, <1>9, LandStatement

LEMMA SupersedeWrites ==
    ASSUME RowsTyped, NEW m \in MasterPlans, NEW found \in SUBSET MasterPlans, Supersede(m, found)
    PROVE  /\ OnlyTheseChange(Plots \cup MasterPlans)
           /\ \A p \in Plots : db'[p] = db[p]
           /\ db'[m] = [status |-> "APPROVED"]
           /\ \A n \in found \ {m} : db'[n] = [status |-> "SUPERSEDED"]
           /\ \A n \in MasterPlans \ (found \cup {m}) : db'[n] = db[n]
<1>1. \A p \in Plots : p # m /\ p \notin found /\ p \in PropertyRows
  BY PropertyAssumption DEF PropertyRows
<1>2. \A n \in MasterPlans : n \in DOMAIN db /\ db[n] \in [status : {"ABSENT", "DRAFT", "APPROVED", "SUPERSEDED"}]
  BY DEF RowsTyped, PropertyRows, LandTyped, PlanRow
<1>3. DOMAIN db = PropertyRows
  BY DEF RowsTyped
<1>4. \A x \in PropertyRows :
         db'[x] = IF x = m THEN [db[x] EXCEPT !.status = "APPROVED"]
                  ELSE IF x \in found THEN [db[x] EXCEPT !.status = "SUPERSEDED"] ELSE db[x]
  BY <1>3 DEF Supersede
<1>5. DOMAIN db' = PropertyRows /\ db' = [x \in DOMAIN db' |-> db'[x]]
  BY <1>3 DEF Supersede
<1>6. MasterPlans \subseteq PropertyRows
  BY DEF PropertyRows
<1>7. \A x \in PropertyRows \ (Plots \cup MasterPlans) : db'[x] = db[x]
  BY <1>4
<1>8. \A p \in Plots : db'[p] = db[p]
  BY <1>1, <1>4
<1>9. db'[m] = [status |-> "APPROVED"]
  BY <1>2, <1>4, <1>6
<1>10. \A n \in found \ {m} : db'[n] = [status |-> "SUPERSEDED"]
  BY <1>2, <1>4, <1>6
<1>11. \A n \in MasterPlans \ (found \cup {m}) : db'[n] = db[n]
  BY <1>4, <1>6
<1> QED  BY <1>5, <1>7, <1>8, <1>9, <1>10, <1>11 DEF OnlyTheseChange

\* A plan that gives way gives way to the one that is approved with it.
LEMMA ApproveMasterPlanKeeps ==
    ASSUME PropertyInv, NEW c \in Calls, NEW m \in MasterPlans, ApproveMasterPlan(c, m)
    PROVE  PropertyInv'
<1>1. RowsTyped /\ LandOK
  BY DEF PropertyInv, PropertyTyped
<1>2. PICK p \in PropertyCall : p = call[c] /\ RequestOK(p)
  BY DEF PropertyInv, PropertyTyped
<1>3. CASE In(m, {"DRAFT"}) /\ Enter(c, "approvePlan", "find", m, None, {})
  <2>1. PICK q : q = [op |-> "approvePlan", at |-> "find", row |-> m, arg |-> None, seen |-> {}]
    OBVIOUS
  <2>2. q \in PropertyCall
    BY <2>1 DEF PropertyCall, PropertyRows, LandOps
  <2>3. LandRequest(q) /\ q.op \in LandOps /\ q.at = "find"
    BY <2>1 DEF LandRequest, LandOps
  <2> QED  BY <1>3, <2>1, <2>2, <2>3, LandEnters
<1>4. CASE At(c, "approvePlan", "find", m, None) /\ db' = db /\ Keep(c, "commit", InForce(EstateOf[m]))
  <2>1. p.op = "approvePlan" /\ p.at = "find" /\ p.row = m
    BY <1>2, <1>4 DEF At
  <2>2. PICK q : q = [p EXCEPT !.at = "commit", !.seen = InForce(EstateOf[m])]
    OBVIOUS
  <2>3. /\ q \in PropertyCall /\ q.op = "approvePlan" /\ q.at = "commit" /\ q.row = m
        /\ q.seen = InForce(EstateOf[m])
    BY <2>1, <2>2 DEF PropertyCall, InForce
  <2>4. Steps(c, q, LandOps)
    <3>1. call \in [Calls -> PropertyCall] /\ tidy \in BOOLEAN
      BY DEF PropertyInv, PropertyTyped
    <3>2. call' = [call EXCEPT ![c] = q] /\ tidy' = tidy
      BY <1>2, <1>4, <2>2, <3>1 DEF Keep
    <3>3. p # Idle
      BY <2>1 DEF Idle
    <3> QED  BY <1>2, <2>1, <2>3, <3>1, <3>2, <3>3 DEF Steps, LandOps
  <2>5. LandApart
    BY <1>4 DEF LandApart
  <2>6. OnlyTheseChange(Plots \cup MasterPlans) /\ LandTyped' /\ LandOK'
    BY <1>1, <1>4, <2>5, LandStays DEF OnlyTheseChange, RowsTyped
  <2>7. LandRequest(q)
    BY <2>3 DEF LandRequest, InForce, PlansOf
  <2>8. RequestOK(q)'
    BY <2>7 DEF RequestOK, LandRequest, PlansOf
  <2>9. LandTurn(p) => LandTurn(q)'
    BY <1>4, <2>3 DEF LandTurn, InForce, In
  <2> QED  BY <1>2, <2>3, <2>4, <2>6, <2>8, <2>9, LandStep
<1>5. CASE At(c, "approvePlan", "commit", m, None) /\ Supersede(m, call[c].seen) /\ Leave(c)
  <2>1. p.op = "approvePlan" /\ p.at = "commit" /\ p.row = m
    BY <1>2, <1>5 DEF At
  <2>2. Idle \in PropertyCall /\ Steps(c, Idle, LandOps) /\ RequestOK(Idle)'
    BY <1>2, <1>5, <2>1, GoesOn DEF RequestOK, LandOps
  <2>3. p.seen \subseteq PlansOf(m)
    BY <1>2, <2>1 DEF RequestOK, Idle, LettingRequest, LandRequest, UpkeepRequest
  <2>4. PICK found \in SUBSET MasterPlans : found = p.seen /\ \A n \in found : EstateOf[n] = EstateOf[m]
    BY <2>3 DEF PlansOf
  <2>5. /\ OnlyTheseChange(Plots \cup MasterPlans)
        /\ \A o \in Plots : db'[o] = db[o]
        /\ db'[m] = [status |-> "APPROVED"]
        /\ \A n \in found \ {m} : db'[n] = [status |-> "SUPERSEDED"]
        /\ \A n \in MasterPlans \ (found \cup {m}) : db'[n] = db[n]
    BY <1>1, <1>2, <1>5, <2>4, SupersedeWrites
  <2>6. LandTyped'
    <3>1. \A o \in Plots : db'[o] \in PlotRow
      BY <1>1, <2>5 DEF RowsTyped, LandTyped
    <3>2. \A n \in MasterPlans : db'[n] \in PlanRow
      BY <1>1, <2>5 DEF RowsTyped, LandTyped, PlanRow
    <3> QED  BY <3>1, <3>2 DEF LandTyped
  <2>7. LandOK'
    <3>1. AllocatedWhileReleased'
      BY <1>1, <2>5 DEF LandOK, AllocatedWhileReleased, In
    <3>2. ASSUME NEW n \in MasterPlans, db'[n].status = "SUPERSEDED"
          PROVE  \E k \in MasterPlans : EstateOf[k] = EstateOf[n] /\ db'[k].status = "APPROVED"
      <4>1. CASE EstateOf[n] = EstateOf[m]
        BY <2>5, <4>1
      <4>2. CASE EstateOf[n] # EstateOf[m]
        <5>1. db[n].status = "SUPERSEDED"
          BY <2>4, <2>5, <3>2, <4>2
        <5>2. PICK k \in MasterPlans : EstateOf[k] = EstateOf[n] /\ db[k].status = "APPROVED"
          BY <1>1, <5>1 DEF LandOK
        <5> QED  BY <2>4, <2>5, <4>2, <5>2
      <4> QED  BY <4>1, <4>2
    <3> QED  BY <3>1, <3>2 DEF LandOK
  <2>8. ASSUME LandTurn(p) PROVE LandTurn(Idle)'
    <3>1. found = InForce(EstateOf[m])
      BY <2>1, <2>4, <2>8 DEF LandTurn
    <3>2. \A n \in MasterPlans : n # m /\ db'[n].status = "APPROVED" =>
             n \notin found /\ db[n].status = "APPROVED" /\ EstateOf[n] # EstateOf[m]
      <4>1. TAKE n \in MasterPlans
      <4>2. HAVE n # m /\ db'[n].status = "APPROVED"
      <4>3. n \notin found
        BY <2>5, <4>2
      <4>4. db[n].status = "APPROVED"
        BY <2>5, <4>2, <4>3
      <4> QED  BY <3>1, <4>3, <4>4 DEF InForce, In
    <3>3. Idle.op # "approvePlan"
      BY DEF Idle
    <3> QED  BY <2>8, <3>2, <3>3 DEF LandTurn
  <2> QED  BY <1>2, <2>2, <2>5, <2>6, <2>7, <2>8, LandStep
<1> QED  BY <1>3, <1>4, <1>5 DEF ApproveMasterPlan

LEMMA LandKeeps == ASSUME PropertyInv, LandNext PROVE PropertyInv'
<1>1. ASSUME NEW p \in Plots,
             \/ \E status \in PlotStatus : UpdatePlotStatus(p, status)
             \/ \E c \in Calls :
                   CancelPlotRelease(c, p) \/ \E j \in Projects : ReleasePlotToProject(c, p, j)
      PROVE  PropertyInv'
  BY <1>1, UpdatePlotStatusKeeps, CancelPlotKeeps, ReleasePlotKeeps
<1>2. ASSUME NEW m \in MasterPlans, CreateMasterPlan(m) \/ \E c \in Calls : ApproveMasterPlan(c, m)
      PROVE  PropertyInv'
  BY <1>2, CreateMasterPlanKeeps, ApproveMasterPlanKeeps
<1> QED  BY <1>1, <1>2 DEF LandNext

-----------------------------------------------------------------------------
(* Facilities *)

FacilityChanges(f) ==
    /\ OnlyTheseChange(Facilities \cup Repairs)
    /\ \A g \in Facilities \ {f} : db'[g] = db[g]
    /\ \A r \in Repairs : db'[r] = db[r]
FacilityAs(f, status, decision, approved, retired) ==
    db'[f] = [status |-> status, decision |-> decision, approved |-> approved, retired |-> retired]

LEMMA FacilityWritten ==
    ASSUME RowsTyped, NEW f \in Facilities, NEW v, db' = [db EXCEPT ![f] = v]
    PROVE  FacilityChanges(f) /\ db'[f] = v
<1>1. \A r \in Repairs : f # r /\ r \in PropertyRows
  BY PropertyAssumption DEF PropertyRows
<1> QED  BY <1>1 DEF RowsTyped, FacilityChanges, OnlyTheseChange, PropertyRows

LEMMA FacilityRewritten ==
    ASSUME RowsTyped, NEW f \in Facilities, NEW row, row = db[f]
    PROVE  /\ \A status : Becomes(f, status) =>
                 FacilityChanges(f) /\ FacilityAs(f, status, row.decision, row.approved, row.retired)
           /\ \A decision : db' = [db EXCEPT ![f].decision = decision] =>
                 FacilityChanges(f) /\ FacilityAs(f, row.status, decision, row.approved, row.retired)
           /\ \A outcome : db' = [db EXCEPT ![f].decision = outcome,
                                            ![f].approved = @ \/ outcome = "APPROVED"] =>
                 /\ FacilityChanges(f)
                 /\ FacilityAs(f, row.status, outcome, row.approved \/ outcome = "APPROVED", row.retired)
           /\ db' = [db EXCEPT ![f].status = "DECOMMISSIONED", ![f].decision = "none",
                               ![f].retired = TRUE] =>
                 FacilityChanges(f) /\ FacilityAs(f, "DECOMMISSIONED", "none", row.approved, TRUE)
<1>1. row \in FacilityRow /\ f \in DOMAIN db
  BY DEF RowsTyped, UpkeepTyped, PropertyRows
<1>2. ASSUME NEW status, Becomes(f, status)
      PROVE  FacilityChanges(f) /\ FacilityAs(f, status, row.decision, row.approved, row.retired)
  <2>1. PICK v : v = [row EXCEPT !.status = status]
    OBVIOUS
  <2>2. db' = [db EXCEPT ![f] = v]
    BY <1>1, <1>2, <2>1 DEF Becomes
  <2> QED  BY <1>1, <2>1, <2>2, FacilityWritten DEF FacilityRow, FacilityAs
<1>3. ASSUME NEW decision, db' = [db EXCEPT ![f].decision = decision]
      PROVE  FacilityChanges(f) /\ FacilityAs(f, row.status, decision, row.approved, row.retired)
  <2>1. PICK v : v = [row EXCEPT !.decision = decision]
    OBVIOUS
  <2>2. db' = [db EXCEPT ![f] = v]
    BY <1>1, <1>3, <2>1
  <2> QED  BY <1>1, <2>1, <2>2, FacilityWritten DEF FacilityRow, FacilityAs
<1>4. ASSUME NEW outcome,
             db' = [db EXCEPT ![f].decision = outcome, ![f].approved = @ \/ outcome = "APPROVED"]
      PROVE  /\ FacilityChanges(f)
             /\ FacilityAs(f, row.status, outcome, row.approved \/ outcome = "APPROVED", row.retired)
  <2>1. PICK v : v = [row EXCEPT !.decision = outcome, !.approved = @ \/ outcome = "APPROVED"]
    OBVIOUS
  <2>2. db' = [db EXCEPT ![f] = v]
    BY <1>1, <1>4, <2>1
  <2> QED  BY <1>1, <2>1, <2>2, FacilityWritten DEF FacilityRow, FacilityAs
<1>5. ASSUME db' = [db EXCEPT ![f].status = "DECOMMISSIONED", ![f].decision = "none",
                              ![f].retired = TRUE]
      PROVE  FacilityChanges(f) /\ FacilityAs(f, "DECOMMISSIONED", "none", row.approved, TRUE)
  <2>1. PICK v : v = [row EXCEPT !.status = "DECOMMISSIONED", !.decision = "none", !.retired = TRUE]
    OBVIOUS
  <2>2. db' = [db EXCEPT ![f] = v]
    BY <1>1, <1>5, <2>1
  <2> QED  BY <1>1, <2>1, <2>2, FacilityWritten DEF FacilityRow, FacilityAs
<1> QED  BY <1>2, <1>3, <1>4, <1>5

\* A facility is written: what is asked of its row, and what follows for a turn.
Allowed(f) ==
    /\ db'[f] \in FacilityRow
    /\ db'[f].decision = "APPROVED" \/ db'[f].retired => db'[f].approved
    /\ db[f].approved => db'[f].approved
InOrder(f) ==
    /\ db'[f].retired => db'[f].status = "DECOMMISSIONED"
    /\ db'[f].status = "UNDER_MAINTENANCE" => Attended(f)

LEMMA FacilityCommit ==
    ASSUME PropertyInv, NEW f \in Facilities, FacilityChanges(f), Allowed(f)
    PROVE  /\ UpkeepTyped' /\ UpkeepOK'
           /\ \A g \in Facilities : db[g].approved => db'[g].approved
           /\ \A q : q.at # "link" /\ (\A g \in Facilities \ {f} : ~Closing(q, g))
                        /\ UpkeepTurn(q) /\ InOrder(f) => UpkeepTurn(Idle)'
<1>1. RowsTyped /\ UpkeepOK
  BY DEF PropertyInv, PropertyTyped
<1>2. /\ \A g \in Facilities \ {f} : db'[g] = db[g]
      /\ \A r \in Repairs : db'[r] = db[r]
  BY DEF FacilityChanges
<1>3. UpkeepTyped'
  BY <1>1, <1>2 DEF RowsTyped, UpkeepTyped, Allowed
<1>4. UpkeepOK'
  <2>1. \A g \in Facilities : db'[g].decision = "APPROVED" \/ db'[g].retired => db'[g].approved
    BY <1>1, <1>2 DEF UpkeepOK, Allowed
  <2>2. \A r \in Repairs : db'[r].status \in {"RESOLVED", "CLOSED"} \/ db'[r].bills > 0 => db'[r].done
    BY <1>1, <1>2 DEF UpkeepOK
  <2> QED  BY <2>1, <2>2 DEF UpkeepOK
<1>5. \A g \in Facilities : db[g].approved => db'[g].approved
  BY <1>2 DEF Allowed
<1>6. ASSUME NEW q, q.at # "link", \A g \in Facilities \ {f} : ~Closing(q, g), UpkeepTurn(q), InOrder(f)
      PROVE  UpkeepTurn(Idle)'
  <2>1. \A r : Owed(q, "billVendor", r) = 0 /\ Owed(Idle, "billVendor", r) = 0
    BY <1>6 DEF Owed, Links, Idle
  <2>2. RepairsLinked(Idle)'
    BY <1>2, <1>6, <2>1 DEF UpkeepTurn, RepairsLinked
  <2>3. UpkeepRead(Idle)'
    BY DEF UpkeepRead, Idle
  <2>4. \A g \in Facilities : Attended(g)' <=> Attended(g)
    BY <1>2 DEF Attended
  <2>5. \A g \in Facilities : /\ db'[g].retired => db'[g].status = "DECOMMISSIONED"
                              /\ db'[g].status = "UNDER_MAINTENANCE" => Attended(g)
    BY <1>2, <1>6 DEF UpkeepTurn, InOrder
  <2> QED  BY <2>2, <2>3, <2>4, <2>5 DEF UpkeepTurn
<1> QED  BY <1>3, <1>4, <1>5, <1>6

LEMMA FacilityRequestEnds ==
    ASSUME PropertyInv, NEW c \in Calls, NEW f \in Facilities, call[c].op \in FacilityOps,
           call[c].at # "link", Leave(c), FacilityChanges(f), Allowed(f),
           UpkeepTurn(call[c]) => InOrder(f) /\ \A g \in Facilities \ {f} : ~Closing(call[c], g)
    PROVE  PropertyInv'
<1>1. "none" \notin FacilityOps
  BY DEF FacilityOps
<1>2. Idle \in PropertyCall /\ Steps(c, Idle, FacilityOps) /\ RequestOK(Idle)'
  BY <1>1, GoesOn DEF RequestOK
<1>3. RowsTyped /\ \A r \in Repairs : db'[r] = db[r]
  BY DEF PropertyInv, PropertyTyped, FacilityChanges
<1>4. \A r \in Repairs : Owed(call[c], "billVendor", r) = 0 /\ Owed(Idle, "billVendor", r) = 0
  BY DEF Owed, Links, Idle
<1>5. \A r \in Repairs : (db[r].done => db'[r].done) /\ Balanced("billVendor", call[c], Idle, r)
  BY <1>3, <1>4 DEF Balanced, RowsTyped, UpkeepTyped, RepairRow
<1>6. /\ UpkeepTyped' /\ UpkeepOK' /\ OnlyTheseChange(Facilities \cup Repairs)
      /\ \A g \in Facilities : db[g].approved => db'[g].approved
      /\ UpkeepTurn(call[c]) => UpkeepTurn(Idle)'
  BY FacilityCommit DEF FacilityChanges
<1> QED  BY <1>2, <1>5, <1>6, UpkeepStep

LEMMA FacilityStatement ==
    ASSUME PropertyInv, NEW f \in Facilities, call' = call, tidy' = (tidy /\ Alone),
           FacilityChanges(f), Allowed(f), UpkeepTurn(Idle) => InOrder(f)
    PROVE  PropertyInv'
<1>1. RowsTyped /\ LeasesOK /\ LandOK
  BY DEF PropertyInv, PropertyTyped
<1>2. LettingApart /\ LandApart /\ \A r \in Repairs : db'[r] = db[r]
  BY OthersApart DEF FacilityChanges
<1>3. /\ Idle.op \notin LeasingOps \cup LandOps /\ Idle.at # "link"
      /\ \A g : ~Closing(Idle, g)
  BY DEF Idle, LeasingOps, LandOps, Closing
<1>4. /\ UpkeepTyped' /\ UpkeepOK'
      /\ \A g \in Facilities : db[g].approved => db'[g].approved
      /\ UpkeepTurn(Idle) => UpkeepTurn(Idle)'
  BY <1>3, FacilityCommit
<1>5. RowsTyped' /\ LeasesOK' /\ LandOK'
  BY <1>1, <1>2, <1>4, LettingStays, LandStays DEF RowsTyped, FacilityChanges, OnlyTheseChange
<1>6. Kept
  BY <1>2, <1>4, LettingStays DEF Kept
<1>7. AllBalanced(Idle, Idle)
  <2>1. \A l \in Leases : Balanced("rent", Idle, Idle, l)
    BY <1>1, <1>2, <1>3, LettingStays DEF RowsTyped, LettingTyped, LeaseRow
  <2>2. \A r \in Repairs : Balanced("billVendor", Idle, Idle, r)
    <3>1. \A r \in Repairs : Owed(Idle, "billVendor", r) = 0
      BY DEF Owed, Links, Idle
    <3> QED  BY <1>1, <1>2, <3>1 DEF Balanced, RowsTyped, UpkeepTyped, RepairRow
  <2> QED  BY <2>1, <2>2 DEF AllBalanced
<1>8. (LettingTurn(Idle) => LettingTurn(Idle)') /\ (LandTurn(Idle) => LandTurn(Idle)')
  BY <1>2, <1>3, LettingStays, LandStays
<1>9. Turn(Idle) => Turn(Idle)'
  BY <1>4, <1>8 DEF Turn
<1> QED  BY <1>4, <1>5, <1>6, <1>7, <1>9, StatementKeeps

LEMMA UpkeepEnters ==
    ASSUME PropertyInv, NEW c \in Calls, NEW op \in FacilityOps, NEW at \in {"write", "bill"},
           NEW x \in Facilities \cup Repairs, NEW seen \in {None} \cup Decisions,
           Enter(c, op, at, x, None, seen),
           NEW q, q = [op |-> op, at |-> at, row |-> x, arg |-> None, seen |-> seen],
           UpkeepRequest(q), UpkeepTurn(Idle) => UpkeepRead(q)
    PROVE  PropertyInv'
<1>1. q \in PropertyCall
  BY DEF PropertyCall, PropertyRows
<1>2. q.op = op /\ q.at = at /\ q.row = x /\ q.arg = None /\ q.seen = seen
  OBVIOUS
<1>3. RequestOK(q)
  BY DEF RequestOK
<1>4. Turn(Idle) => Turn(q)
  BY <1>2, FirstStepOf DEF Turn
<1> QED  BY <1>1, <1>2, <1>3, <1>4, FirstStep

LEMMA FacilityFacts ==
    ASSUME PropertyInv, NEW f \in Facilities
    PROVE  /\ RowsTyped /\ db[f] \in FacilityRow
           /\ db[f].decision = "APPROVED" \/ db[f].retired => db[f].approved
           /\ \A q : UpkeepTurn(q) => /\ db[f].retired => db[f].status = "DECOMMISSIONED"
                                      /\ db[f].status = "UNDER_MAINTENANCE" => Closing(q, f) \/ Attended(f)
  BY DEF PropertyInv, PropertyTyped, RowsTyped, UpkeepTyped, UpkeepOK, UpkeepTurn

\* A facility that is not retired is put in or out of service by hand.
LEMMA ServiceKeeps ==
    ASSUME PropertyInv, NEW c \in Calls, NEW f \in Facilities,
           NEW op \in {"service", "outOfService"}, NEW status \in {"OPERATIONAL", "OUT_OF_SERVICE"},
           Handler(c, op, f, None, ~In(f, {"DECOMMISSIONED"}), Becomes(f, status))
    PROVE  PropertyInv'
<1>1. op \in FacilityOps
  BY DEF FacilityOps
<1>2. CASE ~In(f, {"DECOMMISSIONED"}) /\ Enter(c, op, "write", f, None, None)
  <2>1. PICK q : q = [op |-> op, at |-> "write", row |-> f, arg |-> None, seen |-> None]
    OBVIOUS
  <2>2. UpkeepRequest(q) /\ UpkeepRead(q)
    BY <1>2, <2>1 DEF UpkeepRequest, UpkeepRead, In
  <2> QED  BY <1>1, <1>2, <2>1, <2>2, UpkeepEnters
<1>3. CASE At(c, op, "write", f, None) /\ Becomes(f, status) /\ Leave(c)
  <2>1. /\ FacilityChanges(f)
        /\ FacilityAs(f, status, db[f].decision, db[f].approved, db[f].retired)
    BY <1>3, FacilityFacts, FacilityRewritten
  <2>2. Allowed(f) /\ db'[f].status = status /\ db'[f].retired = db[f].retired
    BY <2>1, FacilityFacts DEF Allowed, FacilityAs, FacilityRow, ActiveFacility
  <2>3. call[c].op = op /\ call[c].at = "write" /\ call[c].row = f
    BY <1>3 DEF At
  <2>4. UpkeepTurn(call[c]) => InOrder(f)
    <3>1. UpkeepTurn(call[c]) => db[f].status # "DECOMMISSIONED"
      BY <2>3 DEF UpkeepTurn, UpkeepRead
    <3>2. UpkeepTurn(call[c]) => ~db[f].retired
      BY <3>1, FacilityFacts
    <3> QED  BY <2>2, <3>2 DEF InOrder
  <2>5. \A g : ~Closing(call[c], g)
    BY <2>3 DEF Closing
  <2> QED  BY <1>1, <1>3, <2>1, <2>2, <2>3, <2>4, <2>5, FacilityRequestEnds
<1> QED  BY <1>2, <1>3 DEF Handler

\* The decision on a facility changes, and its status with it at most when it goes.
LEMMA DecisionKept ==
    ASSUME PropertyInv, NEW f \in Facilities, NEW decision \in Decisions, NEW approved \in BOOLEAN,
           FacilityChanges(f), FacilityAs(f, db[f].status, decision, approved, db[f].retired),
           db[f].approved => approved, decision = "APPROVED" => approved
    PROVE  Allowed(f) /\ \A q : UpkeepTurn(q) /\ ~Closing(q, f) => InOrder(f)
<1>1. /\ db'[f].status = db[f].status /\ db'[f].retired = db[f].retired
      /\ db'[f].decision = decision /\ db'[f].approved = approved
  BY DEF FacilityAs
<1>2. db'[f] \in FacilityRow
  BY FacilityFacts DEF FacilityAs, FacilityRow
<1>3. Allowed(f)
  BY <1>1, <1>2, FacilityFacts DEF Allowed
<1>4. \A q : UpkeepTurn(q) /\ ~Closing(q, f) => InOrder(f)
  BY <1>1, FacilityFacts DEF InOrder
<1> QED  BY <1>3, <1>4

LEMMA RequestDecommissionKeeps ==
    ASSUME PropertyInv, NEW c \in Calls, NEW f \in Facilities, RequestDecommission(c, f)
    PROVE  PropertyInv'
<1>1. "requestDecommission" \in FacilityOps
  BY DEF FacilityOps
<1>2. CASE Enter(c, "requestDecommission", "write", f, None, None)
  <2>1. PICK q : q = [op |-> "requestDecommission", at |-> "write", row |-> f, arg |-> None,
                      seen |-> None]
    OBVIOUS
  <2>2. UpkeepRequest(q) /\ UpkeepRead(q)
    BY <2>1 DEF UpkeepRequest, UpkeepRead
  <2> QED  BY <1>1, <1>2, <2>1, <2>2, UpkeepEnters
<1>3. CASE /\ At(c, "requestDecommission", "write", f, None) /\ Leave(c)
           /\ db' = [db EXCEPT ![f].decision = "PENDING"]
  <2>1. /\ FacilityChanges(f)
        /\ FacilityAs(f, db[f].status, "PENDING", db[f].approved, db[f].retired)
    BY <1>3, FacilityFacts, FacilityRewritten
  <2>2. call[c].op = "requestDecommission" /\ call[c].at = "write"
    BY <1>3 DEF At
  <2>3. db[f].approved \in BOOLEAN /\ "PENDING" \in Decisions
    BY FacilityFacts DEF FacilityRow, Decisions
  <2>4. Allowed(f) /\ \A q : UpkeepTurn(q) /\ ~Closing(q, f) => InOrder(f)
    BY <2>1, <2>3, DecisionKept
  <2>5. \A g : ~Closing(call[c], g)
    BY <2>2 DEF Closing
  <2> QED  BY <1>1, <1>3, <2>1, <2>2, <2>4, <2>5, FacilityRequestEnds
<1> QED  BY <1>2, <1>3 DEF RequestDecommission, Handler

LEMMA DecideDecommissionKeeps ==
    ASSUME PropertyInv, NEW f \in Facilities, NEW outcome \in {"APPROVED", "REJECTED", "RETURNED"},
           DecideDecommission(f, outcome)
    PROVE  PropertyInv'
<1>1. /\ db' = [db EXCEPT ![f].decision = outcome, ![f].approved = @ \/ outcome = "APPROVED"]
      /\ call' = call /\ tidy' = (tidy /\ Alone)
  BY DEF DecideDecommission, Statement
<1>2. PICK approved : approved = (db[f].approved \/ outcome = "APPROVED")
  OBVIOUS
<1>3. FacilityChanges(f) /\ FacilityAs(f, db[f].status, outcome, approved, db[f].retired)
  BY <1>1, <1>2, FacilityFacts, FacilityRewritten
<1>4. approved \in BOOLEAN /\ outcome \in Decisions
  BY <1>2, FacilityFacts DEF FacilityRow, Decisions
<1>5. (db[f].approved => approved) /\ (outcome = "APPROVED" => approved)
  BY <1>2
<1>6. Allowed(f) /\ \A q : UpkeepTurn(q) /\ ~Closing(q, f) => InOrder(f)
  BY <1>3, <1>4, <1>5, DecisionKept
<1> QED  BY <1>1, <1>3, <1>6, FacilityStatement DEF Closing, Idle

LEMMA ResubmitDecommissionKeeps ==
    ASSUME PropertyInv, NEW f \in Facilities, ResubmitDecommission(f)
    PROVE  PropertyInv'
<1>1. /\ db' = [db EXCEPT ![f].decision = "PENDING"]
      /\ call' = call /\ tidy' = (tidy /\ Alone)
  BY DEF ResubmitDecommission, Statement
<1>2. FacilityChanges(f) /\ FacilityAs(f, db[f].status, "PENDING", db[f].approved, db[f].retired)
  BY <1>1, FacilityFacts, FacilityRewritten
<1>3. db[f].approved \in BOOLEAN /\ "PENDING" \in Decisions
  BY FacilityFacts DEF FacilityRow, Decisions
<1>4. Allowed(f) /\ \A q : UpkeepTurn(q) /\ ~Closing(q, f) => InOrder(f)
  BY <1>2, <1>3, DecisionKept
<1> QED  BY <1>1, <1>2, <1>4, FacilityStatement DEF Closing, Idle

\* What is retired was approved when the request read it, and stays approved.
LEMMA RefreshDecommissionKeeps ==
    ASSUME PropertyInv, NEW c \in Calls, NEW f \in Facilities, RefreshDecommission(c, f)
    PROVE  PropertyInv'
<1>1. "refreshDecommission" \in FacilityOps
  BY DEF FacilityOps
<1>2. CASE Enter(c, "refreshDecommission", "write", f, None, db[f].decision)
  <2>1. PICK q : q = [op |-> "refreshDecommission", at |-> "write", row |-> f, arg |-> None,
                      seen |-> db[f].decision]
    OBVIOUS
  <2>2. UpkeepRequest(q) /\ UpkeepRead(q)
    BY <2>1, FacilityFacts DEF UpkeepRequest, UpkeepRead
  <2>3. db[f].decision \in Decisions
    BY FacilityFacts DEF FacilityRow
  <2> QED  BY <1>1, <1>2, <2>1, <2>2, <2>3, UpkeepEnters
<1>3. CASE /\ At(c, "refreshDecommission", "write", f, None) /\ Leave(c)
           /\ db' = IF call[c].seen \in Grants
                    THEN [db EXCEPT ![f].status = "DECOMMISSIONED", ![f].decision = "none",
                                    ![f].retired = TRUE]
                    ELSE [db EXCEPT ![f].decision = "none"]
  <2>1. PICK p \in PropertyCall : p = call[c] /\ RequestOK(p)
    BY DEF PropertyInv, PropertyTyped
  <2>2. p.op = "refreshDecommission" /\ p.at = "write" /\ p.row = f
    BY <1>3, <2>1 DEF At
  <2>3. \A g : ~Closing(p, g)
    BY <2>2 DEF Closing
  <2>4. CASE call[c].seen \in Grants
    <3>1. FacilityChanges(f) /\ FacilityAs(f, "DECOMMISSIONED", "none", db[f].approved, TRUE)
      BY <1>3, <2>4, FacilityFacts, FacilityRewritten
    <3>2. db[f].approved
      BY <2>1, <2>2, <2>4 DEF RequestOK, Idle, LettingRequest, LandRequest, UpkeepRequest, Grants
    <3>3. /\ db'[f] \in FacilityRow /\ db'[f].approved = db[f].approved
          /\ db'[f].status = "DECOMMISSIONED"
      BY <3>1, FacilityFacts DEF FacilityAs, FacilityRow, Decisions
    <3>4. Allowed(f) /\ InOrder(f)
      BY <3>2, <3>3 DEF Allowed, InOrder
    <3> QED  BY <1>1, <1>3, <2>1, <2>2, <2>3, <3>1, <3>4, FacilityRequestEnds
  <2>5. CASE call[c].seen \notin Grants
    <3>1. FacilityChanges(f) /\ FacilityAs(f, db[f].status, "none", db[f].approved, db[f].retired)
      BY <1>3, <2>5, FacilityFacts, FacilityRewritten
    <3>2. db[f].approved \in BOOLEAN /\ "none" \in Decisions
      BY FacilityFacts DEF FacilityRow, Decisions
    <3>3. Allowed(f) /\ \A q : UpkeepTurn(q) /\ ~Closing(q, f) => InOrder(f)
      BY <3>1, <3>2, DecisionKept
    <3> QED  BY <1>1, <1>3, <2>1, <2>2, <2>3, <3>1, <3>3, FacilityRequestEnds
  <2> QED  BY <2>4, <2>5
<1> QED  BY <1>2, <1>3 DEF RefreshDecommission

-----------------------------------------------------------------------------
(* Maintenance requests *)

RepairChanges(r) ==
    /\ OnlyTheseChange(Facilities \cup Repairs)
    /\ \A f \in Facilities : db'[f] = db[f]
    /\ \A s \in Repairs \ {r} : db'[s] = db[s]
RepairAs(r, status, done, bills, links) ==
    db'[r] = [status |-> status, done |-> done, bills |-> bills, links |-> links]

LEMMA RepairWritten ==
    ASSUME RowsTyped, NEW r \in Repairs, NEW v, db' = [db EXCEPT ![r] = v]
    PROVE  RepairChanges(r) /\ db'[r] = v
<1>1. \A f \in Facilities : r # f /\ f \in PropertyRows
  BY PropertyAssumption DEF PropertyRows
<1> QED  BY <1>1 DEF RowsTyped, RepairChanges, OnlyTheseChange, PropertyRows

LEMMA RepairRewritten ==
    ASSUME RowsTyped, NEW r \in Repairs, NEW row, row = db[r]
    PROVE  /\ \A status : Becomes(r, status) =>
                 RepairChanges(r) /\ RepairAs(r, status, row.done, row.bills, row.links)
           /\ db' = [db EXCEPT ![r].status = "RESOLVED", ![r].done = TRUE] =>
                 RepairChanges(r) /\ RepairAs(r, "RESOLVED", TRUE, row.bills, row.links)
           /\ db' = [db EXCEPT ![r].bills = @ + 1] =>
                 RepairChanges(r) /\ RepairAs(r, row.status, row.done, row.bills + 1, row.links)
           /\ db' = [db EXCEPT ![r].links = @ + 1] =>
                 RepairChanges(r) /\ RepairAs(r, row.status, row.done, row.bills, row.links + 1)
<1>1. row \in RepairRow /\ r \in DOMAIN db
  BY DEF RowsTyped, UpkeepTyped, PropertyRows
<1>2. ASSUME NEW status, Becomes(r, status)
      PROVE  RepairChanges(r) /\ RepairAs(r, status, row.done, row.bills, row.links)
  <2>1. PICK v : v = [row EXCEPT !.status = status]
    OBVIOUS
  <2>2. db' = [db EXCEPT ![r] = v]
    BY <1>1, <1>2, <2>1 DEF Becomes
  <2> QED  BY <1>1, <2>1, <2>2, RepairWritten DEF RepairRow, RepairAs
<1>3. ASSUME db' = [db EXCEPT ![r].status = "RESOLVED", ![r].done = TRUE]
      PROVE  RepairChanges(r) /\ RepairAs(r, "RESOLVED", TRUE, row.bills, row.links)
  <2>1. PICK v : v = [row EXCEPT !.status = "RESOLVED", !.done = TRUE]
    OBVIOUS
  <2>2. db' = [db EXCEPT ![r] = v]
    BY <1>1, <1>3, <2>1
  <2> QED  BY <1>1, <2>1, <2>2, RepairWritten DEF RepairRow, RepairAs
<1>4. ASSUME db' = [db EXCEPT ![r].bills = @ + 1]
      PROVE  RepairChanges(r) /\ RepairAs(r, row.status, row.done, row.bills + 1, row.links)
  <2>1. PICK v : v = [row EXCEPT !.bills = @ + 1]
    OBVIOUS
  <2>2. db' = [db EXCEPT ![r] = v]
    BY <1>1, <1>4, <2>1
  <2> QED  BY <1>1, <2>1, <2>2, RepairWritten DEF RepairRow, RepairAs
<1>5. ASSUME db' = [db EXCEPT ![r].links = @ + 1]
      PROVE  RepairChanges(r) /\ RepairAs(r, row.status, row.done, row.bills, row.links + 1)
  <2>1. PICK v : v = [row EXCEPT !.links = @ + 1]
    OBVIOUS
  <2>2. db' = [db EXCEPT ![r] = v]
    BY <1>1, <1>5, <2>1
  <2> QED  BY <1>1, <2>1, <2>2, RepairWritten DEF RepairRow, RepairAs
<1> QED  BY <1>2, <1>3, <1>4, <1>5

LEMMA RepairFacts ==
    ASSUME PropertyInv, NEW r \in Repairs
    PROVE  /\ RowsTyped /\ db[r] \in RepairRow /\ db[r].bills <= MostBilled
           /\ db[r].bills \in Nat /\ db[r].links \in Nat /\ db[r].done \in BOOLEAN
           /\ db[r].status \in {"RESOLVED", "CLOSED"} \/ db[r].bills > 0 => db[r].done
           /\ FacilityOf[r] \in Facilities
  BY FacilitiesAssumption DEF PropertyInv, PropertyTyped, RowsTyped, UpkeepTyped, RepairRow, UpkeepOK

\* The facility of the request has this one to attend to, or the one that q closes.
Attends(r) == db[r].status \notin {"ABSENT", "OPEN", "CLOSED"}

LEMMA RepairCommit ==
    ASSUME PropertyInv, NEW c \in Calls, NEW r \in Repairs, NEW q \in PropertyCall,
           Steps(c, q, FacilityOps), call[c].op \in FacilityOps, call[c].row = r,
           call[c].at \in {"write", "bill", "link"}, q = Idle \/ q.row = r,
           RepairChanges(r), db'[r] \in RepairRow, db'[r].bills <= MostBilled, RequestOK(q)',
           db'[r].status \in {"RESOLVED", "CLOSED"} \/ db'[r].bills > 0 => db'[r].done,
           db[r].done => db'[r].done, Balanced("billVendor", call[c], q, r),
           UpkeepTurn(call[c]) =>
               /\ UpkeepRead(q)' /\ db'[r].bills <= 1
               /\ Attends(r) => Attends(r)' \/ Closing(q, FacilityOf[r])
    PROVE  PropertyInv'
<1>1. RowsTyped /\ UpkeepOK
  BY DEF PropertyInv, PropertyTyped
<1>2. /\ \A f \in Facilities : db'[f] = db[f]
      /\ \A s \in Repairs \ {r} : db'[s] = db[s]
  BY DEF RepairChanges
<1>3. UpkeepTyped' /\ UpkeepOK'
  BY <1>1, <1>2 DEF RowsTyped, UpkeepTyped, UpkeepOK
<1>4. \A s \in Repairs \ {r} : Owed(call[c], "billVendor", s) = 0 /\ Owed(q, "billVendor", s) = 0
  BY DEF Owed, Links, Idle
<1>5. \A s \in Repairs : Balanced("billVendor", call[c], q, s)
  BY <1>1, <1>2, <1>4 DEF Balanced, RowsTyped, UpkeepTyped, RepairRow
<1>6. /\ \A s \in Repairs : db[s].done => db'[s].done
      /\ \A f \in Facilities : db[f].approved => db'[f].approved
  BY <1>2
<1>7. ASSUME UpkeepTurn(call[c]) PROVE UpkeepTurn(q)'
  <2>1. UpkeepRead(q)' /\ db'[r].bills <= 1 /\ (Attends(r) => Attends(r)' \/ Closing(q, FacilityOf[r]))
    BY <1>7
  <2>2. RepairsLinked(q)'
    <3>1. \A s \in Repairs : /\ db[s].links + Owed(call[c], "billVendor", s) = db[s].bills
                             /\ db[s].bills <= 1
      BY <1>7 DEF UpkeepTurn, RepairsLinked
    <3>2. \A s \in Repairs : /\ db[s].links \in Nat /\ db[s].bills \in Nat
                             /\ db'[s].links \in Nat /\ db'[s].bills \in Nat
      BY <1>1, <1>3 DEF RowsTyped, UpkeepTyped, RepairRow
    <3>3. \A s \in Repairs : /\ Owed(call[c], "billVendor", s) \in {0, 1}
                             /\ Owed(q, "billVendor", s) \in {0, 1}
      BY OwedIsNat
    <3>4. \A s \in Repairs : Owed(q, "billVendor", s)' = Owed(q, "billVendor", s)
      BY DEF Owed, Links
    <3>5. ASSUME NEW s \in Repairs PROVE db'[s].links + Owed(q, "billVendor", s) = db'[s].bills
      <4>1. db'[s].links + Owed(q, "billVendor", s) + db[s].bills
                = db[s].links + Owed(call[c], "billVendor", s) + db'[s].bills
        BY <1>5 DEF Balanced
      <4> QED  BY <3>1, <3>2, <3>3, <4>1
    <3>6. \A s \in Repairs : db'[s].bills <= 1
      BY <1>2, <2>1, <3>1
    <3> QED  BY <3>4, <3>5, <3>6 DEF RepairsLinked
  <2>3. \A f \in Facilities : ~Closing(call[c], f)
    BY DEF Closing
  <2>4. ASSUME NEW f \in Facilities, db'[f].status = "UNDER_MAINTENANCE"
        PROVE  Closing(q, f) \/ Attended(f)'
    <3>1. Attended(f)
      BY <1>2, <1>7, <2>3, <2>4 DEF UpkeepTurn
    <3>2. PICK s \in Repairs : FacilityOf[s] = f /\ Attends(s)
      BY <3>1 DEF Attended, Attends
    <3>3. Attends(s)' \/ Closing(q, f)
      BY <1>2, <2>1, <3>2 DEF Attends
    <3> QED  BY <3>2, <3>3 DEF Attended, Attends
  <2>5. \A f \in Facilities : db'[f].retired => db'[f].status = "DECOMMISSIONED"
    BY <1>2, <1>7 DEF UpkeepTurn
  <2>6. \A f \in Facilities : Closing(q, f)' <=> Closing(q, f)
    BY DEF Closing
  <2> QED  BY <2>1, <2>2, <2>4, <2>5, <2>6 DEF UpkeepTurn
<1> QED  BY <1>3, <1>5, <1>6, <1>7, UpkeepStep DEF RepairChanges

\* A step that writes no row: it reads the facility.
LEMMA FacilityRead ==
    ASSUME PropertyInv, NEW c \in Calls, NEW q \in PropertyCall, Steps(c, q, FacilityOps),
           call[c].op \in FacilityOps, call[c].at # "link", q.at # "link", db' = db, RequestOK(q),
           UpkeepTurn(call[c]) =>
               /\ UpkeepRead(q)
               /\ \A f \in Facilities :
                     db[f].status = "UNDER_MAINTENANCE" /\ Closing(call[c], f) => Closing(q, f)
    PROVE  PropertyInv'
<1>1. RowsTyped /\ UpkeepOK
  BY DEF PropertyInv, PropertyTyped
<1>2. UpkeepApart
  BY DEF UpkeepApart
<1>3. UpkeepTyped' /\ UpkeepOK' /\ OnlyTheseChange(Facilities \cup Repairs)
  BY <1>1, <1>2, UpkeepStays DEF RowsTyped, OnlyTheseChange
<1>4. RequestOK(q)'
  BY RequestStays DEF Kept
<1>5. \A r \in Repairs : Owed(call[c], "billVendor", r) = 0 /\ Owed(q, "billVendor", r) = 0
  BY DEF Owed, Links
<1>6. \A r \in Repairs : (db[r].done => db'[r].done) /\ Balanced("billVendor", call[c], q, r)
  BY <1>1, <1>5 DEF Balanced, RowsTyped, UpkeepTyped, RepairRow
<1>7. ASSUME UpkeepTurn(call[c]) PROVE UpkeepTurn(q)'
  <2>1. UpkeepRead(q)' /\ UpkeepRead(q)
    BY <1>7 DEF UpkeepRead
  <2>2. RepairsLinked(q)'
    BY <1>5, <1>7 DEF UpkeepTurn, RepairsLinked, Owed, Links
  <2>3. \A f \in Facilities : /\ db'[f].retired => db'[f].status = "DECOMMISSIONED"
                              /\ db'[f].status = "UNDER_MAINTENANCE" => Closing(q, f) \/ Attended(f)'
    BY <1>7 DEF UpkeepTurn, Attended
  <2>4. \A f \in Facilities : Closing(q, f)' <=> Closing(q, f)
    BY DEF Closing
  <2> QED  BY <2>1, <2>2, <2>3, <2>4 DEF UpkeepTurn
<1> QED  BY <1>3, <1>4, <1>6, <1>7, UpkeepStep

PlainMoves == {"createRepair", "resolve", "startWork", "hold", "resume", "cancelRepair"}

LEMMA RepairEnters ==
    ASSUME PropertyInv, NEW c \in Calls, NEW r \in Repairs, NEW op \in PlainMoves,
           Enter(c, op, "write", r, None, None)
    PROVE  PropertyInv'
<1>1. PICK q : q = [op |-> op, at |-> "write", row |-> r, arg |-> None, seen |-> None]
  OBVIOUS
<1>2. op \in FacilityOps
  BY DEF FacilityOps, PlainMoves
<1>3. UpkeepRequest(q)
  BY <1>1 DEF UpkeepRequest, PlainMoves
<1>4. UpkeepRead(q)
  BY <1>1 DEF UpkeepRead, PlainMoves
<1> QED  BY <1>1, <1>2, <1>3, <1>4, UpkeepEnters

LEMMA RepairEnds ==
    ASSUME PropertyInv, NEW c \in Calls, NEW r \in Repairs, NEW op \in PlainMoves,
           At(c, op, "write", r, None), Leave(c),
           NEW status \in OpenMaintenance \cup {"RESOLVED", "CANCELLED"}, NEW done \in BOOLEAN,
           RepairChanges(r), RepairAs(r, status, done, db[r].bills, db[r].links),
           status = "RESOLVED" \/ db[r].done => done,
           Attends(r) => status # "OPEN"
    PROVE  PropertyInv'
<1>1. call[c].op = op /\ call[c].at = "write" /\ call[c].row = r /\ call[c].op \in FacilityOps
  BY DEF At, FacilityOps, PlainMoves
<1>2. Idle \in PropertyCall /\ Steps(c, Idle, FacilityOps) /\ RequestOK(Idle)'
  BY <1>1, GoesOn DEF RequestOK, FacilityOps
<1>3. /\ db'[r].status = status /\ db'[r].done = done
      /\ db'[r].bills = db[r].bills /\ db'[r].links = db[r].links
  BY DEF RepairAs
<1>4. db'[r] \in RepairRow
  BY RepairFacts DEF RepairAs, RepairRow
<1>5. /\ db'[r].bills <= MostBilled /\ (db[r].done => db'[r].done)
      /\ db'[r].status \in {"RESOLVED", "CLOSED"} \/ db'[r].bills > 0 => db'[r].done
  BY <1>3, RepairFacts DEF OpenMaintenance
<1>6. Balanced("billVendor", call[c], Idle, r)
  <2>1. Owed(call[c], "billVendor", r) = 0 /\ Owed(Idle, "billVendor", r) = 0
    BY <1>1 DEF Owed, Links, Idle
  <2> QED  BY <1>3, <2>1, RepairFacts DEF Balanced
<1>7. UpkeepTurn(call[c]) =>
         UpkeepRead(Idle)' /\ db'[r].bills <= 1 /\ (Attends(r) => Attends(r)')
  <2>1. UpkeepRead(Idle)'
    BY DEF UpkeepRead, Idle
  <2>2. UpkeepTurn(call[c]) => db'[r].bills <= 1
    BY <1>3 DEF UpkeepTurn, RepairsLinked
  <2>3. Attends(r) => Attends(r)'
    BY <1>3 DEF Attends, OpenMaintenance
  <2> QED  BY <2>1, <2>2, <2>3
<1> QED  BY <1>1, <1>2, <1>4, <1>5, <1>6, <1>7, RepairCommit

LEMMA CreateMaintenanceRequestKeeps ==
    ASSUME PropertyInv, NEW c \in Calls, NEW r \in Repairs, CreateMaintenanceRequest(c, r)
    PROVE  PropertyInv'
<1>1. "createRepair" \in PlainMoves
  BY DEF PlainMoves
<1>2. CASE Enter(c, "createRepair", "write", r, None, None)
  BY <1>1, <1>2, RepairEnters
<1>3. CASE /\ At(c, "createRepair", "write", r, None) /\ In(r, {"ABSENT"})
           /\ Becomes(r, "OPEN") /\ Leave(c)
  <2>1. RepairChanges(r) /\ RepairAs(r, "OPEN", db[r].done, db[r].bills, db[r].links)
    BY <1>3, RepairFacts, RepairRewritten
  <2>2. ~Attends(r)
    BY <1>3 DEF Attends, In
  <2> QED  BY <1>1, <1>3, <2>1, <2>2, RepairFacts, RepairEnds DEF OpenMaintenance
<1> QED  BY <1>2, <1>3 DEF CreateMaintenanceRequest, Insertion, Handler

LEMMA MoveRepairKeeps ==
    ASSUME PropertyInv, NEW c \in Calls, NEW r \in Repairs, NEW from,
           NEW op \in {"startWork", "hold", "resume", "cancelRepair"},
           NEW to \in {"IN_PROGRESS", "ON_HOLD", "CANCELLED"}, MoveRepair(c, r, op, from, to)
    PROVE  PropertyInv'
<1>1. op \in PlainMoves
  BY DEF PlainMoves
<1>2. CASE Enter(c, op, "write", r, None, None)
  BY <1>1, <1>2, RepairEnters
<1>3. CASE At(c, op, "write", r, None) /\ Becomes(r, to) /\ Leave(c)
  <2>1. RepairChanges(r) /\ RepairAs(r, to, db[r].done, db[r].bills, db[r].links)
    BY <1>3, RepairFacts, RepairRewritten
  <2> QED  BY <1>1, <1>3, <2>1, RepairFacts, RepairEnds DEF OpenMaintenance
<1> QED  BY <1>2, <1>3 DEF MoveRepair, Handler

LEMMA ResolveKeeps ==
    ASSUME PropertyInv, NEW c \in Calls, NEW r \in Repairs, Resolve(c, r)
    PROVE  PropertyInv'
<1>1. "resolve" \in PlainMoves
  BY DEF PlainMoves
<1>2. CASE Enter(c, "resolve", "write", r, None, None)
  BY <1>1, <1>2, RepairEnters
<1>3. CASE /\ At(c, "resolve", "write", r, None) /\ Leave(c)
           /\ db' = [db EXCEPT ![r].status = "RESOLVED", ![r].done = TRUE]
  <2>1. RepairChanges(r) /\ RepairAs(r, "RESOLVED", TRUE, db[r].bills, db[r].links)
    BY <1>3, RepairFacts, RepairRewritten
  <2>2. PICK status \in OpenMaintenance \cup {"RESOLVED", "CANCELLED"}, done \in BOOLEAN :
            status = "RESOLVED" /\ done
    OBVIOUS
  <2>3. /\ RepairAs(r, status, done, db[r].bills, db[r].links)
        /\ status = "RESOLVED" \/ db[r].done => done
        /\ Attends(r) => status # "OPEN"
    BY <2>1, <2>2
  <2> QED  BY <1>1, <1>3, <2>1, <2>3, RepairEnds
<1> QED  BY <1>2, <1>3 DEF Resolve, Handler

\* The request is written, and its facility comes next.
LEMMA RepairThenFacility ==
    ASSUME PropertyInv, NEW c \in Calls, NEW r \in Repairs, NEW op \in {"assign", "closeRepair"},
           At(c, op, "write", r, None), Goto(c, "facility"),
           Becomes(r, IF op = "assign" THEN "ASSIGNED" ELSE "CLOSED")
    PROVE  PropertyInv'
<1>1. PICK p \in PropertyCall : p = call[c] /\ RequestOK(p)
  BY DEF PropertyInv, PropertyTyped
<1>2. p.op = op /\ p.at = "write" /\ p.row = r
  BY <1>1 DEF At
<1>3. op \in FacilityOps /\ "none" \notin FacilityOps
  BY DEF FacilityOps
<1>4. PICK q \in PropertyCall : q = [p EXCEPT !.at = "facility"] /\ Steps(c, q, FacilityOps)
  BY <1>1, <1>2, <1>3, GoesOn
<1>5. q.op = op /\ q.at = "facility" /\ q.row = r
  BY <1>2, <1>4 DEF PropertyCall
<1>6. PICK status : status = IF op = "assign" THEN "ASSIGNED" ELSE "CLOSED"
  OBVIOUS
<1>7. RepairChanges(r) /\ RepairAs(r, status, db[r].done, db[r].bills, db[r].links)
  BY <1>6, RepairFacts, RepairRewritten
<1>8. /\ db'[r].status = status /\ db'[r].done = db[r].done
      /\ db'[r].bills = db[r].bills /\ db'[r].links = db[r].links
  BY <1>7 DEF RepairAs
<1>9. db'[r] \in RepairRow
  BY <1>6, <1>7, RepairFacts DEF RepairAs, RepairRow, OpenMaintenance
<1>10. op = "closeRepair" => db[r].done
  BY <1>1, <1>2 DEF RequestOK, Idle, LettingRequest, LandRequest, UpkeepRequest
<1>11. /\ db'[r].bills <= MostBilled /\ (db[r].done => db'[r].done)
       /\ db'[r].status \in {"RESOLVED", "CLOSED"} \/ db'[r].bills > 0 => db'[r].done
  BY <1>6, <1>8, <1>10, RepairFacts
<1>12. RequestOK(q)'
  BY <1>5, <1>8, <1>10 DEF RequestOK, UpkeepRequest
<1>13. Balanced("billVendor", call[c], q, r)
  <2>1. Owed(call[c], "billVendor", r) = 0 /\ Owed(q, "billVendor", r) = 0
    BY <1>1, <1>2, <1>5 DEF Owed, Links
  <2> QED  BY <1>8, <2>1, RepairFacts DEF Balanced
<1>14. UpkeepTurn(call[c]) =>
          /\ UpkeepRead(q)' /\ db'[r].bills <= 1
          /\ Attends(r) => Attends(r)' \/ Closing(q, FacilityOf[r])
  <2>1. UpkeepRead(q)'
    BY <1>5, <1>6, <1>8 DEF UpkeepRead
  <2>2. UpkeepTurn(call[c]) => db'[r].bills <= 1
    BY <1>8 DEF UpkeepTurn, RepairsLinked
  <2>3. op = "assign" => Attends(r)'
    BY <1>6, <1>8 DEF Attends
  <2>4. op = "closeRepair" => Closing(q, FacilityOf[r])
    BY <1>5 DEF Closing
  <2> QED  BY <2>1, <2>2, <2>3, <2>4
<1> QED  BY <1>1, <1>2, <1>3, <1>4, <1>5, <1>7, <1>9, <1>11, <1>12, <1>13, <1>14, RepairCommit

LEMMA FollowKeeps ==
    ASSUME PropertyInv, NEW c \in Calls, NEW r \in Repairs, NEW op, NEW from, NEW to,
           \/ op = "assign" /\ from = "OPERATIONAL" /\ to = "UNDER_MAINTENANCE"
           \/ op = "closeRepair" /\ from = "UNDER_MAINTENANCE" /\ to = "OPERATIONAL",
           Follow(c, op, r, from, to)
    PROVE  PropertyInv'
<1>1. PICK p \in PropertyCall : p = call[c] /\ RequestOK(p)
  BY DEF PropertyInv, PropertyTyped
<1>2. /\ op \in FacilityOps /\ "none" \notin FacilityOps /\ op # "billVendor"
      /\ RowsTyped /\ FacilityOf[r] \in Facilities
  BY RepairFacts DEF FacilityOps
<1>3. PICK f \in Facilities : f = FacilityOf[r]
  BY <1>2
<1>4. p.op = op /\ p.row = r =>
         /\ op = "closeRepair" => db[r].done
         /\ \A g \in Facilities : Closing(p, g) => g = f /\ op = "closeRepair"
  BY <1>1, <1>3 DEF RequestOK, Idle, LettingRequest, LandRequest, UpkeepRequest, Closing
<1>5. ASSUME At(c, op, "facility", r, None), db' = db, In(f, {from}), Goto(c, "follow")
      PROVE  PropertyInv'
  <2>1. p.op = op /\ p.at = "facility" /\ p.row = r
    BY <1>1, <1>5 DEF At
  <2>2. PICK q \in PropertyCall : q = [p EXCEPT !.at = "follow"] /\ Steps(c, q, FacilityOps)
    BY <1>1, <1>2, <1>5, <2>1, GoesOn
  <2>3. q.op = op /\ q.at = "follow" /\ q.row = r
    BY <2>1, <2>2 DEF PropertyCall
  <2>4. RequestOK(q)
    BY <1>4, <2>1, <2>3 DEF RequestOK, UpkeepRequest
  <2>5. UpkeepTurn(p) => UpkeepRead(q)
    BY <1>3, <1>5, <2>1, <2>3 DEF UpkeepTurn, UpkeepRead, In
  <2>6. \A g \in Facilities : Closing(p, g) => Closing(q, g)
    BY <2>1, <2>3 DEF Closing
  <2> QED  BY <1>1, <1>2, <1>5, <2>1, <2>2, <2>3, <2>4, <2>5, <2>6, FacilityRead
<1>6. ASSUME At(c, op, "facility", r, None), db' = db, ~In(f, {from}), Leave(c)
      PROVE  PropertyInv'
  <2>1. p.op = op /\ p.at = "facility" /\ p.row = r
    BY <1>1, <1>6 DEF At
  <2>2. Idle \in PropertyCall /\ Steps(c, Idle, FacilityOps) /\ RequestOK(Idle) /\ Idle.at # "link"
    BY <1>1, <1>2, <1>6, <2>1, GoesOn DEF RequestOK, Idle
  <2>3. UpkeepRead(Idle)
    BY DEF UpkeepRead, Idle
  <2>4. \A g \in Facilities : Closing(p, g) => db[g].status # "UNDER_MAINTENANCE"
    BY <1>4, <1>6, <2>1 DEF In
  <2> QED  BY <1>1, <1>2, <1>6, <2>1, <2>2, <2>3, <2>4, FacilityRead
<1>7. ASSUME At(c, op, "follow", r, None), Becomes(f, to), Leave(c)
      PROVE  PropertyInv'
  <2>1. p.op = op /\ p.at = "follow" /\ p.row = r
    <3>1. p = call[c]
      BY Zenon, <1>1
    <3> QED  BY <1>7, <3>1 DEF At
  <2>2. FacilityChanges(f) /\ FacilityAs(f, to, db[f].decision, db[f].approved, db[f].retired)
    BY <1>7, FacilityFacts, FacilityRewritten
  <2>3. Allowed(f) /\ db'[f].status = to /\ db'[f].retired = db[f].retired
    BY <2>2, FacilityFacts DEF Allowed, FacilityAs, FacilityRow, ActiveFacility
  <2>4. ASSUME UpkeepTurn(p) PROVE InOrder(f)
    <3>1. db[f].status # "DECOMMISSIONED" /\ (op = "assign" => db[r].status = "ASSIGNED")
      BY <1>3, <2>1, <2>4 DEF UpkeepTurn, UpkeepRead
    <3>2. ~db'[f].retired
      BY <2>3, <2>4, <3>1, FacilityFacts
    <3>3. op = "assign" => Attended(f)
      BY <1>3, <3>1 DEF Attended
    <3> QED  BY <2>3, <3>2, <3>3 DEF InOrder
  <2>5. \A g \in Facilities \ {f} : ~Closing(p, g)
    BY <1>4, <2>1
  <2> QED  BY <1>1, <1>2, <1>7, <2>1, <2>2, <2>3, <2>4, <2>5, FacilityRequestEnds
<1> QED  BY <1>3, <1>5, <1>6, <1>7 DEF Follow

LEMMA AssignKeeps ==
    ASSUME PropertyInv, NEW c \in Calls, NEW r \in Repairs, Assign(c, r)
    PROVE  PropertyInv'
<1>1. CASE Enter(c, "assign", "write", r, None, None)
  <2>1. PICK q : q = [op |-> "assign", at |-> "write", row |-> r, arg |-> None, seen |-> None]
    OBVIOUS
  <2>2. UpkeepRequest(q) /\ UpkeepRead(q)
    BY <2>1 DEF UpkeepRequest, UpkeepRead
  <2> QED  BY <1>1, <2>1, <2>2, UpkeepEnters DEF FacilityOps
<1>2. CASE At(c, "assign", "write", r, None) /\ Becomes(r, "ASSIGNED") /\ Goto(c, "facility")
  BY <1>2, RepairThenFacility
<1>3. CASE Follow(c, "assign", r, "OPERATIONAL", "UNDER_MAINTENANCE")
  BY <1>3, FollowKeeps
<1> QED  BY <1>1, <1>2, <1>3 DEF Assign

LEMMA CloseRepairKeeps ==
    ASSUME PropertyInv, NEW c \in Calls, NEW r \in Repairs, CloseRepair(c, r)
    PROVE  PropertyInv'
<1>1. CASE In(r, {"RESOLVED"}) /\ Enter(c, "closeRepair", "write", r, None, None)
  <2>1. PICK q : q = [op |-> "closeRepair", at |-> "write", row |-> r, arg |-> None, seen |-> None]
    OBVIOUS
  <2>2. db[r].done
    BY <1>1, RepairFacts DEF In
  <2>3. UpkeepRequest(q) /\ UpkeepRead(q)
    BY <2>1, <2>2 DEF UpkeepRequest, UpkeepRead
  <2> QED  BY <1>1, <2>1, <2>3, UpkeepEnters DEF FacilityOps
<1>2. CASE At(c, "closeRepair", "write", r, None) /\ Becomes(r, "CLOSED") /\ Goto(c, "facility")
  BY <1>2, RepairThenFacility
<1>3. CASE Follow(c, "closeRepair", r, "UNDER_MAINTENANCE", "OPERATIONAL")
  BY <1>3, FollowKeeps
<1> QED  BY <1>1, <1>2, <1>3 DEF CloseRepair

\* The link comes to a bill that the request has made.
LEMMA BillVendorKeeps ==
    ASSUME PropertyInv, NEW c \in Calls, NEW r \in Repairs, BillVendor(c, r)
    PROVE  PropertyInv'
<1>1. PICK p \in PropertyCall : p = call[c] /\ RequestOK(p)
  BY DEF PropertyInv, PropertyTyped
<1>2. "billVendor" \in FacilityOps /\ "none" \notin FacilityOps
  BY DEF FacilityOps
<1>3. p.op = "billVendor" /\ p.row = r => db[r].done
  BY <1>1 DEF RequestOK, Idle, LettingRequest, LandRequest, UpkeepRequest
<1>4. ASSUME In(r, {"RESOLVED", "CLOSED"}), db[r].links = 0,
             Enter(c, "billVendor", "bill", r, None, None)
      PROVE  PropertyInv'
  <2>1. PICK q : q = [op |-> "billVendor", at |-> "bill", row |-> r, arg |-> None, seen |-> None]
    OBVIOUS
  <2>2. db[r].done
    BY <1>4, RepairFacts DEF In
  <2>3. UpkeepRequest(q)
    BY <2>1, <2>2 DEF UpkeepRequest
  <2>4. ASSUME UpkeepTurn(Idle) PROVE UpkeepRead(q)
    <3>1. Owed(Idle, "billVendor", r) = 0
      BY DEF Owed, Links, Idle
    <3>2. db[r].bills = 0
      BY <1>4, <2>4, <3>1, RepairFacts DEF UpkeepTurn, RepairsLinked
    <3> QED  BY <2>1, <3>2 DEF UpkeepRead
  <2> QED  BY <1>2, <1>4, <2>1, <2>3, <2>4, UpkeepEnters
<1>5. ASSUME At(c, "billVendor", "bill", r, None), db[r].bills < MostBilled,
             db' = [db EXCEPT ![r].bills = @ + 1], Goto(c, "link")
      PROVE  PropertyInv'
  <2>1. p.op = "billVendor" /\ p.at = "bill" /\ p.row = r
    BY <1>1, <1>5 DEF At
  <2>2. PICK q \in PropertyCall : q = [p EXCEPT !.at = "link"] /\ Steps(c, q, FacilityOps)
    BY <1>1, <1>2, <1>5, <2>1, GoesOn
  <2>3. q.op = "billVendor" /\ q.at = "link" /\ q.row = r
    BY <2>1, <2>2 DEF PropertyCall
  <2>4. /\ RepairChanges(r)
        /\ RepairAs(r, db[r].status, db[r].done, db[r].bills + 1, db[r].links)
    BY <1>5, RepairFacts, RepairRewritten
  <2>5. /\ db'[r].bills = db[r].bills + 1 /\ db'[r].links = db[r].links
        /\ db'[r].status = db[r].status /\ db'[r].done = db[r].done
    BY <2>4 DEF RepairAs
  <2>6. db'[r] \in RepairRow
    BY <2>4, RepairFacts DEF RepairAs, RepairRow
  <2>7. db'[r].bills <= MostBilled
    BY <1>5, <2>5, RepairFacts, FacilitiesAssumption
  <2>8. /\ db[r].done => db'[r].done
        /\ db'[r].status \in {"RESOLVED", "CLOSED"} \/ db'[r].bills > 0 => db'[r].done
    BY <1>3, <2>1, <2>5
  <2>9. RequestOK(q)'
    BY <1>3, <2>1, <2>3, <2>5 DEF RequestOK, UpkeepRequest
  <2>10. Balanced("billVendor", p, q, r)
    <3>1. Owed(p, "billVendor", r) = 0 /\ Owed(q, "billVendor", r) = 1
      BY <2>1, <2>3 DEF Owed, Links
    <3> QED  BY <2>5, <3>1, RepairFacts DEF Balanced
  <2>11. UpkeepTurn(p) => UpkeepRead(q)' /\ db'[r].bills <= 1 /\ (Attends(r) => Attends(r)')
    <3>1. UpkeepRead(q)'
      BY <2>3 DEF UpkeepRead
    <3>2. UpkeepTurn(p) => db'[r].bills <= 1
      BY <2>1, <2>5 DEF UpkeepTurn, UpkeepRead
    <3>3. Attends(r) => Attends(r)'
      BY <2>5 DEF Attends
    <3> QED  BY <3>1, <3>2, <3>3
  <2> QED  BY <1>1, <1>2, <2>1, <2>2, <2>3, <2>4, <2>6, <2>7, <2>8, <2>9, <2>10, <2>11, RepairCommit
<1>6. ASSUME At(c, "billVendor", "link", r, None), db' = [db EXCEPT ![r].links = @ + 1], Leave(c)
      PROVE  PropertyInv'
  <2>1. p.op = "billVendor" /\ p.at = "link" /\ p.row = r
    BY <1>1, <1>6 DEF At
  <2>2. Idle \in PropertyCall /\ Steps(c, Idle, FacilityOps) /\ RequestOK(Idle)'
    BY <1>1, <1>2, <1>6, <2>1, GoesOn DEF RequestOK
  <2>3. /\ RepairChanges(r)
        /\ RepairAs(r, db[r].status, db[r].done, db[r].bills, db[r].links + 1)
    BY <1>6, RepairFacts, RepairRewritten
  <2>4. /\ db'[r].bills = db[r].bills /\ db'[r].links = db[r].links + 1
        /\ db'[r].status = db[r].status /\ db'[r].done = db[r].done
    BY <2>3 DEF RepairAs
  <2>5. db'[r] \in RepairRow
    BY <2>3, RepairFacts DEF RepairAs, RepairRow
  <2>6. /\ db'[r].bills <= MostBilled /\ (db[r].done => db'[r].done)
        /\ db'[r].status \in {"RESOLVED", "CLOSED"} \/ db'[r].bills > 0 => db'[r].done
    BY <1>3, <2>1, <2>4, RepairFacts
  <2>7. Balanced("billVendor", p, Idle, r)
    <3>1. Owed(p, "billVendor", r) = 1 /\ Owed(Idle, "billVendor", r) = 0
      BY <2>1 DEF Owed, Links, Idle
    <3> QED  BY <2>4, <3>1, RepairFacts DEF Balanced
  <2>8. UpkeepTurn(p) => UpkeepRead(Idle)' /\ db'[r].bills <= 1 /\ (Attends(r) => Attends(r)')
    <3>1. UpkeepRead(Idle)'
      BY DEF UpkeepRead, Idle
    <3>2. UpkeepTurn(p) => db'[r].bills <= 1
      BY <2>4 DEF UpkeepTurn, RepairsLinked
    <3>3. Attends(r) => Attends(r)'
      BY <2>4 DEF Attends
    <3> QED  BY <3>1, <3>2, <3>3
  <2> QED  BY <1>1, <1>2, <2>1, <2>2, <2>3, <2>5, <2>6, <2>7, <2>8, RepairCommit
<1> QED  BY <1>4, <1>5, <1>6 DEF BillVendor

LEMMA UpkeepKeeps == ASSUME PropertyInv, FacilitiesNext PROVE PropertyInv'
<1>1. ASSUME NEW r \in Repairs, NEW c \in Calls,
             \/ CreateMaintenanceRequest(c, r) \/ Assign(c, r) \/ Resolve(c, r) \/ CloseRepair(c, r)
             \/ MoveRepair(c, r, "startWork", {"ASSIGNED"}, "IN_PROGRESS")
             \/ MoveRepair(c, r, "hold", {"ASSIGNED", "IN_PROGRESS"}, "ON_HOLD")
             \/ MoveRepair(c, r, "resume", {"ON_HOLD"}, "IN_PROGRESS")
             \/ MoveRepair(c, r, "cancelRepair", OpenMaintenance, "CANCELLED")
             \/ BillVendor(c, r)
      PROVE  PropertyInv'
  BY <1>1, CreateMaintenanceRequestKeeps, AssignKeeps, ResolveKeeps, CloseRepairKeeps, MoveRepairKeeps,
     BillVendorKeeps
<1>2. ASSUME NEW f \in Facilities, NEW c \in Calls,
             \/ RecordService(c, f) \/ SetOutOfService(c, f)
             \/ RequestDecommission(c, f) \/ RefreshDecommission(c, f)
      PROVE  PropertyInv'
  BY <1>2, ServiceKeeps, RequestDecommissionKeeps, RefreshDecommissionKeeps
     DEF RecordService, SetOutOfService
<1>3. ASSUME NEW f \in Facilities,
             \/ ResubmitDecommission(f)
             \/ \E outcome \in {"APPROVED", "REJECTED", "RETURNED"} : DecideDecommission(f, outcome)
      PROVE  PropertyInv'
  BY <1>3, ResubmitDecommissionKeeps, DecideDecommissionKeeps
<1> QED  BY <1>1, <1>2, <1>3 DEF FacilitiesNext, RepairsNext

-----------------------------------------------------------------------------
(* The property *)

LEMMA PropertyStart == ASSUME PropertyInit PROVE PropertyInv
<1>1. /\ DOMAIN db = PropertyRows /\ db = [x \in DOMAIN db |-> db[x]]
      /\ call = [c \in Calls |-> Idle] /\ tidy = TRUE
  <2>1. DOMAIN db = PropertyRows
    BY DEF PropertyInit
  <2>2. db = [x \in DOMAIN db |-> db[x]]
    BY <2>1 DEF PropertyInit
  <2> QED  BY <2>1, <2>2 DEF PropertyInit, CallsStart
<1>2. /\ \A n \in Tenants : db[n] = NoTenant
      /\ \A l \in Leases : db[l] = NoLease
      /\ \A p \in Plots : db[p] = NoPlot
      /\ \A m \in MasterPlans : db[m] = NoMasterPlan
      /\ \A f \in Facilities : db[f] = NoFacility
      /\ \A r \in Repairs : db[r] = NoRepair
  <2>1. \A x \in PropertyRows :
           db[x] = IF x \in Tenants THEN NoTenant
                   ELSE IF x \in Leases THEN NoLease
                   ELSE IF x \in Plots THEN NoPlot
                   ELSE IF x \in MasterPlans THEN NoMasterPlan
                   ELSE IF x \in Facilities THEN NoFacility ELSE NoRepair
    BY DEF PropertyInit
  <2>2. \A n \in Tenants : n \in PropertyRows /\ db[n] = NoTenant
    BY <2>1 DEF PropertyRows
  <2>3. \A l \in Leases : l \in PropertyRows /\ l \notin Tenants
    BY PropertyAssumption DEF PropertyRows
  <2>4. \A p \in Plots : p \in PropertyRows /\ p \notin Tenants /\ p \notin Leases
    BY PropertyAssumption DEF PropertyRows
  <2>5. \A m \in MasterPlans :
           m \in PropertyRows /\ m \notin Tenants /\ m \notin Leases /\ m \notin Plots
    BY PropertyAssumption DEF PropertyRows
  <2>6. \A f \in Facilities :
           /\ f \in PropertyRows /\ f \notin Tenants /\ f \notin Leases
           /\ f \notin Plots /\ f \notin MasterPlans
    BY PropertyAssumption DEF PropertyRows
  <2>7. \A r \in Repairs :
           /\ r \in PropertyRows /\ r \notin Tenants /\ r \notin Leases
           /\ r \notin Plots /\ r \notin MasterPlans /\ r \notin Facilities
    BY PropertyAssumption DEF PropertyRows
  <2>8. \A l \in Leases : db[l] = NoLease
    BY <2>1, <2>3
  <2>9. \A p \in Plots : db[p] = NoPlot
    BY <2>1, <2>4
  <2>10. \A m \in MasterPlans : db[m] = NoMasterPlan
    BY <2>1, <2>5
  <2>11. \A f \in Facilities : db[f] = NoFacility
    BY <2>1, <2>6
  <2>12. \A r \in Repairs : db[r] = NoRepair
    BY <2>1, <2>7
  <2> QED  BY <2>2, <2>8, <2>9, <2>10, <2>11, <2>12
<1>3. LettingTyped
  <2>1. NoTenant \in TenantRow /\ NoLease \in LeaseRow /\ NoLease.bills <= MostRents
    BY LeasingAssumption DEF NoTenant, TenantRow, NoLease, LeaseRow
  <2> QED  BY <1>2, <2>1 DEF LettingTyped
<1>4. LandTyped
  <2>1. NoPlot \in PlotRow /\ NoMasterPlan \in PlanRow
    BY DEF NoPlot, PlotRow, PlotStatus, NoMasterPlan, PlanRow
  <2> QED  BY <1>2, <2>1 DEF LandTyped
<1>5. UpkeepTyped
  <2>1. NoFacility \in FacilityRow /\ NoRepair \in RepairRow /\ NoRepair.bills <= MostBilled
    BY FacilitiesAssumption DEF NoFacility, FacilityRow, ActiveFacility, Decisions, NoRepair, RepairRow
  <2> QED  BY <1>2, <2>1 DEF UpkeepTyped
<1>6. PropertyTyped
  <2>1. Idle \in PropertyCall
    BY DEF Idle, PropertyCall
  <2> QED  BY <1>1, <1>3, <1>4, <1>5, <2>1 DEF PropertyTyped, RowsTyped
<1>7. LeasesOK /\ UpkeepOK
  BY <1>2 DEF LeasesOK, NoLease, UpkeepOK, NoFacility, NoRepair
<1>8. LandOK
  BY <1>2 DEF LandOK, AllocatedWhileReleased, In, NoPlot, NoMasterPlan
<1>9. LinksCovered
  <2>1. \A op, x : Linking(op, x) = {}
    BY <1>1 DEF Linking, Links, Idle
  <2>2. \A op, x : Cardinality(Linking(op, x)) = 0
    BY <2>1, FS_EmptySet
  <2> QED  BY <1>2, <2>2 DEF LinksCovered, NoLease, NoRepair
<1>10. \A c \in Calls : call[c] = Idle /\ RequestOK(call[c])
  BY <1>1 DEF RequestOK
<1>11. Turn(Idle)
  <2>1. LettingTurn(Idle)
    <3>1. LettingRead(Idle)
      BY DEF LettingRead, Idle
    <3>2. LetOnce
      BY <1>2 DEF LetOnce, HoldsFlat, NoTenant, NoLease, OpenLease
    <3>3. RentsLinked(Idle)
      BY <1>2 DEF RentsLinked, Owed, Links, Idle, NoLease
    <3> QED  BY <3>1, <3>2, <3>3 DEF LettingTurn
  <2>2. LandTurn(Idle)
    BY <1>2 DEF LandTurn, Idle, NoMasterPlan
  <2>3. UpkeepTurn(Idle)
    <3>1. UpkeepRead(Idle)
      BY DEF UpkeepRead, Idle
    <3>2. RepairsLinked(Idle)
      BY <1>2 DEF RepairsLinked, Owed, Links, Idle, NoRepair
    <3> QED  BY <1>2, <3>1, <3>2 DEF UpkeepTurn, NoFacility
  <2> QED  BY <2>1, <2>2, <2>3 DEF Turn
<1> QED  BY <1>6, <1>7, <1>8, <1>9, <1>10, <1>11 DEF PropertyInv, TurnsTaken

LEMMA PropertyStep == PropertyInv /\ [PropertyNext]_docVars => PropertyInv'
<1>1. ASSUME PropertyInv, PropertyNext PROVE PropertyInv'
  BY <1>1, LeasingKeeps, LandKeeps, UpkeepKeeps, CutOffKeeps DEF PropertyNext
<1>2. ASSUME PropertyInv, UNCHANGED docVars PROVE PropertyInv'
  <2>1. db' = db /\ call' = call /\ tidy' = tidy
    BY <1>2 DEF docVars
  <2>2. PropertyTyped'
    BY <1>2, <2>1 DEF PropertyInv, PropertyTyped, RowsTyped, LettingTyped, LandTyped, UpkeepTyped
  <2>3. LeasesOK' /\ LandOK' /\ UpkeepOK'
    BY <1>2, <2>1 DEF PropertyInv, LeasesOK, LandOK, UpkeepOK, AllocatedWhileReleased, In
  <2>4. LinksCovered'
    BY <1>2, <2>1 DEF PropertyInv, LinksCovered, Linking, Links
  <2>5. \A e \in Calls : RequestOK(call[e])'
    <3>1. TAKE e \in Calls
    <3>2. PICK z \in PropertyCall : z = call[e] /\ RequestOK(z)
      BY <1>2 DEF PropertyInv, PropertyTyped
    <3>3. RequestOK(z)'
      BY <2>1, <3>2, RequestStays DEF Kept
    <3> QED  BY <2>1, <3>2, <3>3
  <2>6. ASSUME NEW q, Turn(q) PROVE Turn(q)'
    BY <2>1, <2>6 DEF Turn, LettingTurn, LettingRead, LetOnce, HoldsFlat, RentsLinked, LandTurn,
       InForce, In, UpkeepTurn, UpkeepRead, RepairsLinked, Attended
  <2>7. ASSUME tidy' PROVE TurnsTaken'
    <3>1. TurnsTaken
      BY <1>2, <2>1, <2>7 DEF PropertyInv
    <3>2. ASSUME NEW e \in Calls, call'[e] # Idle PROVE Turn(call[e])'
      <4>1. PICK z : z = call[e]
        OBVIOUS
      <4>2. Turn(z)
        BY <2>1, <3>1, <3>2, <4>1 DEF TurnsTaken
      <4>3. Turn(z)'
        BY <2>6, <4>2
      <4> QED  BY <2>1, <4>1, <4>3
    <3>3. Alone' => Turn(Idle)'
      BY <2>1, <2>6, <3>1 DEF TurnsTaken, Alone
    <3> QED  BY <2>1, <3>1, <3>2, <3>3 DEF TurnsTaken
  <2> QED  BY <2>2, <2>3, <2>4, <2>5, <2>7 DEF PropertyInv
<1> QED  BY <1>1, <1>2

LEMMA AtMostOne ==
    ASSUME NEW S, \A x, y \in S : x = y
    PROVE  Cardinality(S) <= 1
<1>1. CASE S = {}
  BY <1>1, FS_EmptySet
<1>2. CASE S # {}
  <2>1. PICK x : x \in S
    BY <1>2
  <2>2. S = {x}
    BY <2>1
  <2> QED  BY <2>2, FS_Singleton
<1> QED  BY <1>1, <1>2

LEMMA LettingSound == ASSUME PropertyInv PROVE LeasingSound
<1>1. RowsTyped /\ LeasesOK /\ LinksCovered
  BY DEF PropertyInv, PropertyTyped
<1>2. \A l \in Leases : Cardinality(Linking("rent", l)) \in Nat
  BY CountIsNat
<1>3. \A l \in Leases : /\ db[l] \in LeaseRow /\ db[l].bills \in Nat /\ db[l].links \in Nat
                        /\ db[l].bills <= MostRents /\ db[l].links <= db[l].bills
  BY <1>1, <1>2 DEF RowsTyped, LettingTyped, LeaseRow, LinksCovered
<1>4. LeasingTypeOK
  <2>1. \A l \in Leases : db[l].bills \in 0..MostRents /\ db[l].links \in 0..MostRents
    BY <1>3, LeasingAssumption
  <2>2. \A n \in Tenants : db[n].status \in {"ABSENT", "ACTIVE", "FORMER"}
    BY <1>1 DEF RowsTyped, LettingTyped, TenantRow
  <2>3. \A l \in Leases : db[l].status \in {"ABSENT", "DRAFT", "ACTIVE", "EXPIRED", "TERMINATED"}
    BY <1>3 DEF LeaseRow
  <2> QED  BY <2>1, <2>2, <2>3 DEF LeasingTypeOK
<1>5. ASSUME tidy PROVE LetOnce
  BY <1>5 DEF PropertyInv, TurnsTaken, Alone, Turn, LettingTurn
<1>6. OneLetting
  <2>1. SUFFICES ASSUME tidy
                 PROVE  /\ \A f \in Flats :
                              /\ Cardinality({n \in TenantsOf(f) : In(n, {"ACTIVE"})}) <= 1
                              /\ Cardinality({l \in Leases : In(l, OpenLease) /\ ~db[l].revived}
                                                \cap LeasesOn(f)) <= 1
                        /\ \A l \in {l \in Leases : In(l, OpenLease) /\ ~db[l].revived} :
                              In(TenantOf[l], {"ACTIVE"})
                        /\ \A l \in Leases : db[l].ended => In(l, {"TERMINATED"})
    BY DEF OneLetting
  <2>2. LetOnce
    BY <1>5, <2>1
  <2>3. ASSUME NEW f \in Flats
        PROVE  /\ Cardinality({n \in TenantsOf(f) : In(n, {"ACTIVE"})}) <= 1
               /\ Cardinality({l \in Leases : In(l, OpenLease) /\ ~db[l].revived}
                                 \cap LeasesOn(f)) <= 1
    <3>1. \A n, m \in {n \in TenantsOf(f) : In(n, {"ACTIVE"})} : n = m
      BY <2>2 DEF TenantsOf, In, LetOnce
    <3>2. \A l, k \in {l \in Leases : In(l, OpenLease) /\ ~db[l].revived} \cap LeasesOn(f) : l = k
      BY <2>2 DEF LeasesOn, In, LetOnce, HoldsFlat, SameFlat
    <3> QED  BY <3>1, <3>2, AtMostOne
  <2>4. \A l \in {l \in Leases : In(l, OpenLease) /\ ~db[l].revived} : In(TenantOf[l], {"ACTIVE"})
    BY <2>2 DEF In, LetOnce, HoldsFlat
  <2>5. \A l \in Leases : db[l].ended => In(l, {"TERMINATED"})
    BY <2>2 DEF In, LetOnce
  <2> QED  BY <2>3, <2>4, <2>5
<1>7. RentIsLinked
  <2>1. ASSUME tidy, Alone, NEW l \in Leases PROVE db[l].links = db[l].bills
    <3>1. db[l].links + Owed(Idle, "rent", l) = db[l].bills
      BY <2>1 DEF PropertyInv, TurnsTaken, Turn, LettingTurn, RentsLinked
    <3>2. Owed(Idle, "rent", l) = 0
      BY DEF Owed, Links, Idle
    <3> QED  BY <1>3, <3>1, <3>2
  <2> QED  BY <1>1, <1>3, <2>1 DEF RentIsLinked, LeasesOK
<1> QED  BY <1>4, <1>6, <1>7 DEF LeasingSound

LEMMA LandIsSound == ASSUME PropertyInv PROVE LandSound
<1>1. RowsTyped /\ LandOK
  BY DEF PropertyInv, PropertyTyped
<1>2. LandTypeOK
  BY <1>1 DEF RowsTyped, LandTyped, PlotRow, PlanRow, LandTypeOK
<1>3. ASSUME tidy, NEW m \in MasterPlans, NEW n \in MasterPlans, db[m].status = "APPROVED",
             db[n].status = "APPROVED", EstateOf[m] = EstateOf[n]
      PROVE  m = n
  <2>1. PICK q : LandTurn(q)
    BY <1>3 DEF PropertyInv, TurnsTaken, Alone, Turn
  <2> QED  BY <1>3, <2>1 DEF LandTurn
<1>4. OnePlanInForce
  <2>1. SUFFICES ASSUME NEW estate \in Estates
                 PROVE  /\ (\E m \in MasterPlans : EstateOf[m] = estate /\ In(m, {"SUPERSEDED"}))
                              => InForce(estate) # {}
                        /\ tidy => Cardinality(InForce(estate)) <= 1
    BY DEF OnePlanInForce
  <2>2. ASSUME NEW m \in MasterPlans, EstateOf[m] = estate, In(m, {"SUPERSEDED"})
        PROVE  InForce(estate) # {}
    BY <1>1, <2>2 DEF LandOK, In, InForce
  <2>3. ASSUME tidy PROVE Cardinality(InForce(estate)) <= 1
    <3>1. \A m, n \in InForce(estate) : m = n
      BY <1>3, <2>3 DEF InForce, In
    <3> QED  BY <3>1, AtMostOne
  <2> QED  BY <2>2, <2>3
<1> QED  BY <1>1, <1>2, <1>4 DEF LandSound, LandOK

LEMMA UpkeepSound == ASSUME PropertyInv PROVE FacilitiesSound
<1>1. RowsTyped /\ UpkeepOK /\ LinksCovered
  BY DEF PropertyInv, PropertyTyped
<1>2. \A r \in Repairs : Cardinality(Linking("billVendor", r)) \in Nat
  BY CountIsNat
<1>3. \A r \in Repairs : /\ db[r] \in RepairRow /\ db[r].bills \in Nat /\ db[r].links \in Nat
                         /\ db[r].bills <= MostBilled /\ db[r].links <= db[r].bills
  BY <1>1, <1>2 DEF RowsTyped, UpkeepTyped, RepairRow, LinksCovered
<1>4. FacilitiesTypeOK
  <2>1. \A r \in Repairs : db[r].bills \in 0..MostBilled /\ db[r].links \in 0..MostBilled
    BY <1>3, FacilitiesAssumption
  <2>2. \A f \in Facilities :
           /\ db[f].status \in ActiveFacility \cup {"DECOMMISSIONED"}
           /\ db[f].decision \in {"none", "PENDING", "APPROVED", "REJECTED", "RETURNED"}
    BY <1>1 DEF RowsTyped, UpkeepTyped, FacilityRow, Decisions
  <2>3. \A r \in Repairs :
           db[r].status \in OpenMaintenance \cup {"ABSENT", "RESOLVED", "CLOSED", "CANCELLED"}
    BY <1>3 DEF RepairRow
  <2> QED  BY <2>1, <2>2, <2>3 DEF FacilitiesTypeOK
<1>5. ASSUME tidy
      PROVE  /\ \A f \in Facilities : db[f].retired => db[f].status = "DECOMMISSIONED"
             /\ \A r \in Repairs : db[r].bills <= 1
  <2>1. PICK q : UpkeepTurn(q)
    BY <1>5 DEF PropertyInv, TurnsTaken, Alone, Turn
  <2> QED  BY <2>1 DEF UpkeepTurn, RepairsLinked
<1>6. RetiredForGood
  BY <1>1, <1>5 DEF RetiredForGood, UpkeepOK, In
<1>7. MaintainedForReason
  <2>1. ASSUME tidy, Alone, NEW f \in Facilities, db[f].status = "UNDER_MAINTENANCE" PROVE Attended(f)
    <3>1. UpkeepTurn(Idle)
      BY <2>1 DEF PropertyInv, TurnsTaken, Turn
    <3>2. ~Closing(Idle, f)
      BY DEF Closing, Idle
    <3> QED  BY <2>1, <3>1, <3>2 DEF UpkeepTurn
  <2> QED  BY <2>1 DEF MaintainedForReason, Attended, In
<1>8. BilledWhenDone
  BY <1>1, <1>3, <1>5 DEF BilledWhenDone, UpkeepOK
<1> QED  BY <1>4, <1>6, <1>7, <1>8 DEF FacilitiesSound

\* However the requests on flats, land and facilities interleave and wherever they
\* are cut off: rent is billed to leases that began and work that was done, and no
\* link lacks its bill; a plot follows its release, an estate keeps a plan in force,
\* and no facility is retired without an approval.  While requests take turns, a
\* flat has one tenant and one lease, an estate one plan, what was ended or retired
\* stays so, a facility under repair has a reason, and each bill is made once and
\* has its link (lease.service.ts, land-bank.service.ts, facility.service.ts).
THEOREM PropertyIsAlwaysSound == PropertySpec => []PropertySound
<1>1. PropertyInit => PropertyInv
  BY PropertyStart
<1>2. PropertyInv /\ [PropertyNext]_docVars => PropertyInv'
  BY PropertyStep
<1>3. PropertyInv => PropertySound
  BY LettingSound, LandIsSound, UpkeepSound DEF PropertySound
<1> QED  BY <1>1, <1>2, <1>3, PTL DEF PropertySpec

-----------------------------------------------------------------------------
(***************************************************************************)
(* Money at the bank.                                                      *)
(*                                                                         *)
(* The argument: what a request relies on is never taken back (BankKept).  *)
(* An installment keeps what it asks for, so a payment that fitted still   *)
(* fits; an item keeps its matches, so it may be flagged; a slot that was  *)
(* imported or left behind stays so, and the watermark moves over such     *)
(* slots only, however late it moves.  While requests take turns, what the *)
(* one at work has read is still so (LoanTurn and the others).  The four   *)
(* components touch no row of one another.                                 *)
(***************************************************************************)

LoanRow == [status : {"ABSENT", "ACTIVE"}, drawn : Nat, lines : Seq([due : Nat, paid : Nat])]
PlacementRow ==
    [status : {"ABSENT", "ACTIVE", "MATURED"}, from : Placements \cup {None}, rolls : BOOLEAN]
SessionRow ==
    [status : {"ABSENT", "DRAFT", "APPROVED"}, maker : Users \cup {None}, checker : Users \cup {None}]
ItemRow ==
    [flagged : BOOLEAN, matches : Seq(Sessions \X (Booked \cup {None})), entries : Nat]
FeedRow ==
    [status : {"ABSENT", "ACTIVE", "REQUIRES_REAUTH", "REVOKED"}, now : 0..Horizon,
     synced : 0..Horizon, imported : [Busy -> Nat], skipped : SUBSET Busy, revoked : BOOLEAN]

LoanOps == {"draw", "schedule", "repay"}
PlacementOps == {"mature"}
ItemOps == {"autoMatch", "manualMatch", "adjust", "approveSession"}
FeedOps == {"revokeFeed", "linkStatus", "sync"}

LoansTyped == \A n \in Loans : db[n] \in LoanRow
PlacementsTyped == \A p \in Placements : db[p] \in PlacementRow
ItemsTyped == (\A s \in Sessions : db[s] \in SessionRow) /\ (\A i \in Items : db[i] \in ItemRow)
FeedsTyped == \A f \in Feeds : db[f] \in FeedRow

\* What holds of the rows however requests interleave.
PlacementsOK == \A p \in Placements : db[p].from # None => In(db[p].from, {"MATURED"})
ItemsOK == ApprovedIsMatched /\ \A i \in Items : db[i].flagged => Rowcount(i) > 0

\* What a request has read or done, and will hold whenever it goes on.
LoanRequest(q) ==
    /\ q.op \in LoanOps => q.row \in Loans
    /\ q.op = "draw" => q.arg \in Sums
    /\ q.op = "schedule" => q.arg \in Sums /\ q.seen \in Nat
    /\ q.op = "repay" =>
          /\ q.arg[1] \in DOMAIN db[q.row].lines /\ q.arg[2] \in Sums /\ q.seen \in Nat
          /\ q.seen + q.arg[2] <= db[q.row].lines[q.arg[1]].due
PlacementRequest(q) == q.op = "mature" => q.row \in Placements /\ ~In(q.row, {"ABSENT"})
ItemRequest(q) ==
    /\ q.op \in ItemOps => q.row \in Sessions
    /\ q.op = "autoMatch" =>
          /\ q.seen \in [items : SUBSET Items, free : SUBSET Booked, item : Items \cup {None}]
          /\ q.at = "flag" => q.seen.item \in Items /\ Rowcount(q.seen.item) > 0
    /\ q.op \in {"manualMatch", "adjust"} =>
          q.arg[1] \in Items /\ (q.at = "flag" => Rowcount(q.arg[1]) > 0)
    /\ q.op = "manualMatch" => q.arg[2] \in Booked
    /\ q.op = "approveSession" =>
          /\ ~In(q.row, {"ABSENT"}) /\ q.arg \in Users /\ q.arg # db[q.row].maker
          /\ \A i \in Items : db[i].flagged
Accounted(f, n) == db[f].imported[n] > 0 \/ n \in db[f].skipped
FeedRequest(q) ==
    /\ q.op \in FeedOps => q.row \in Feeds
    /\ q.op = "linkStatus" => q.arg \in {"ACTIVE", "REQUIRES_REAUTH"}
    /\ q.op = "sync" =>
          /\ q.seen \in [slots : SUBSET Busy, before : SUBSET Busy, end : 0..Horizon]
          /\ \A n \in Busy : n < q.seen.end =>
                Accounted(q.row, n) \/ (q.at = "import" /\ n \in q.seen.slots \cup q.seen.before)
BankRequest(q) == LoanRequest(q) /\ PlacementRequest(q) /\ ItemRequest(q) /\ FeedRequest(q)

\* The match that a request owes to the adjustment it has posted.
AdjustmentPosted(q, i) == q.op = "adjust" /\ q.at = "insert" /\ q.arg[1] = i
OwesMatch(q, i) == IF AdjustmentPosted(q, i) THEN 1 ELSE 0
Posting(i) == {c \in Calls : AdjustmentPosted(call[c], i)}
Adjusting(i) == {n \in DOMAIN db[i].matches : db[i].matches[n][2] = None}
MatchesCovered ==
    \A i \in Items : Cardinality(Adjusting(i)) + Cardinality(Posting(i)) <= db[i].entries

\* What holds while q is the only request; q is Idle when there is none.
LoanTurn(q) ==
    /\ q.op = "draw" => db[q.row].drawn + q.arg <= Facility
    /\ q.op = "schedule" =>
          db[q.row].lines = <<>> /\ q.seen = db[q.row].drawn /\ q.seen % q.arg = 0
    /\ \A n \in Loans : db[n].drawn <= Facility /\ Asked(n) <= db[n].drawn
PlacementTurn(q) ==
    /\ q.op = "mature" => In(q.row, {"ACTIVE"})
    /\ \A p, r \in Placements : p # r /\ db[p].from # None => db[p].from # db[r].from
Matching(q, i) ==
    \/ q.op = "autoMatch" /\ q.at = "flag" /\ q.seen.item = i
    \/ q.op \in {"manualMatch", "adjust"} /\ q.arg[1] = i
AtFlag(q) == IF q.at = "flag" THEN 1 ELSE 0
ItemTurn(q) ==
    \A i \in Items :
        /\ ~Matching(q, i) =>
              Rowcount(i) = (IF db[i].flagged THEN 1 ELSE 0) /\ db[i].entries <= Rowcount(i)
        /\ Matching(q, i) =>
              /\ ~db[i].flagged /\ Rowcount(i) = AtFlag(q)
              /\ db[i].entries <= (IF q.op = "adjust" /\ q.at # "post" THEN 1 ELSE 0)
        /\ q.op = "autoMatch" /\ i \in q.seen.items => ~db[i].flagged /\ ~Matching(q, i)
Marking(q, f) == q.op = "sync" /\ q.at = "mark" /\ q.row = f
FeedTurn(q) ==
    /\ q.op = "linkStatus" => ~In(q.row, {"REVOKED"})
    /\ q.op = "sync" /\ q.at = "import" =>
          /\ db[q.row].synced <= q.seen.end
          /\ \A n \in q.seen.slots : db[q.row].synced <= n /\ n < q.seen.end
    /\ \A f \in Feeds :
          /\ \A n \in Busy :
                /\ db[f].imported[n] <= 1
                /\ n >= (IF Marking(q, f) THEN q.seen.end ELSE db[f].synced) => db[f].imported[n] = 0
          /\ db[f].revoked => In(f, {"REVOKED"})
BankTurn(q) == LoanTurn(q) /\ PlacementTurn(q) /\ ItemTurn(q) /\ FeedTurn(q)
BankTurns ==
    /\ \A c, e \in Calls : call[c] # Idle /\ call[e] # Idle => c = e
    /\ \A c \in Calls : call[c] # Idle => BankTurn(call[c])
    /\ Alone => BankTurn(Idle)

BankRows ==
    /\ LoansTyped /\ PlacementsTyped /\ ItemsTyped /\ FeedsTyped
    /\ PaidWithinInstallment /\ PlacementsOK /\ ItemsOK /\ NothingMissed
Fields == {"op", "at", "row", "arg", "seen"}
BankTyped ==
    /\ db = [x \in BankingRows |-> db[x]]
    /\ call = [c \in Calls |-> call[c]] /\ (\A c \in Calls : DOMAIN call[c] = Fields)
    /\ tidy \in BOOLEAN
BankInv ==
    /\ BankTyped /\ BankRows /\ MatchesCovered
    /\ \A c \in Calls : BankRequest(call[c])
    /\ tidy => BankTurns

-----------------------------------------------------------------------------
(* What a step has to keep of each component, as a request goes from p to q *)

LoansKept ==
    \A n \in Loans : \A i \in DOMAIN db[n].lines :
        i \in DOMAIN db'[n].lines /\ db'[n].lines[i].due = db[n].lines[i].due
PlacementsKept == \A p \in Placements : ~In(p, {"ABSENT"}) => ~In(p, {"ABSENT"})'
ItemsKept ==
    /\ \A i \in Items : (db[i].flagged => db'[i].flagged) /\ (Rowcount(i) > 0 => Rowcount(i)' > 0)
    /\ \A s \in Sessions : ~In(s, {"ABSENT"}) => ~In(s, {"ABSENT"})' /\ db'[s].maker = db[s].maker
FeedsKept == \A f \in Feeds, n \in Busy : Accounted(f, n) => Accounted(f, n)'

Adjusted(i) == Cardinality(Adjusting(i))
MatchesBacked(p, q) ==
    \A i \in Items :
        Adjusted(i)' + OwesMatch(q, i) + db[i].entries
            <= Adjusted(i) + OwesMatch(p, i) + db'[i].entries

KeepsLoans(p, q) ==
    /\ LoansTyped' /\ PaidWithinInstallment' /\ LoansKept
    /\ tidy' /\ LoanTurn(p) => LoanTurn(q)'
KeepsPlacements(p, q) ==
    /\ PlacementsTyped' /\ PlacementsOK' /\ PlacementsKept
    /\ tidy' /\ PlacementTurn(p) => PlacementTurn(q)'
KeepsItems(p, q) ==
    /\ ItemsTyped' /\ ItemsOK' /\ ItemsKept /\ MatchesBacked(p, q)
    /\ tidy' /\ ItemTurn(p) => ItemTurn(q)'
KeepsFeeds(p, q) ==
    /\ FeedsTyped' /\ NothingMissed' /\ FeedsKept
    /\ tidy' /\ FeedTurn(p) => FeedTurn(q)'
BankKeeps(p, q) ==
    KeepsLoans(p, q) /\ KeepsPlacements(p, q) /\ KeepsItems(p, q) /\ KeepsFeeds(p, q)
BankKept == LoansKept /\ PlacementsKept /\ ItemsKept /\ FeedsKept

LEMMA IdleIsIdle ==
    /\ DOMAIN Idle = Fields /\ Idle.op = "none" /\ Idle.at = "idle"
    /\ BankRequest(Idle) /\ BankRequest(Idle)' /\ \A i : ~AdjustmentPosted(Idle, i)
  BY DEF Idle, Fields, BankRequest, LoanRequest, PlacementRequest, ItemRequest, FeedRequest,
         LoanOps, ItemOps, FeedOps, AdjustmentPosted

LEMMA BankRequestStays == ASSUME BankKept, NEW q, BankRequest(q) PROVE BankRequest(q)'
<1>1. LoanRequest(q)'
  BY DEF BankRequest, LoanRequest, BankKept, LoansKept, LoanOps
<1>2. PlacementRequest(q)'
  BY DEF BankRequest, PlacementRequest, BankKept, PlacementsKept
<1>3. ItemRequest(q)'
  BY DEF BankRequest, ItemRequest, BankKept, ItemsKept, ItemOps
<1>4. FeedRequest(q)'
  BY DEF BankRequest, FeedRequest, BankKept, FeedsKept, FeedOps
<1> QED  BY <1>1, <1>2, <1>3, <1>4 DEF BankRequest

\* Matches of adjustments are counted by a number.
LEMMA PostingCounted == \A i : IsFiniteSet(Posting(i)) /\ Cardinality(Posting(i)) \in Nat
<1>1. \A i : Posting(i) \subseteq Calls
  BY DEF Posting
<1> QED  BY <1>1, FS_Subset, FS_CardinalityType, BankingAssumption

LEMMA AdjustingCounted ==
    ItemsTyped => \A i \in Items : IsFiniteSet(Adjusting(i)) /\ Adjusted(i) \in Nat
<1> SUFFICES ASSUME ItemsTyped, NEW i \in Items PROVE IsFiniteSet(Adjusting(i)) /\ Adjusted(i) \in Nat
  OBVIOUS
<1>1. Len(db[i].matches) \in Nat /\ DOMAIN db[i].matches = 1..Len(db[i].matches)
  BY DEF ItemsTyped, ItemRow
<1>2. IsFiniteSet(1..Len(db[i].matches)) /\ Adjusting(i) \subseteq 1..Len(db[i].matches)
  BY <1>1, FS_Interval DEF Adjusting
<1> QED  BY <1>2, FS_Subset, FS_CardinalityType DEF Adjusted

LEMMA AdjustingCountedNext ==
    ItemsTyped' => \A i \in Items : IsFiniteSet(Adjusting(i)') /\ Adjusted(i)' \in Nat
<1>1. (ItemsTyped => \A i \in Items : IsFiniteSet(Adjusting(i)) /\ Adjusted(i) \in Nat)'
  BY AdjustingCounted, PTL
<1> QED  BY <1>1

\* Of the requests that owe a match, c at most comes or goes.
LEMMA PostingMoves ==
    ASSUME BankTyped, NEW c \in Calls, NEW q, call' = [call EXCEPT ![c] = q], NEW i
    PROVE  Cardinality(Posting(i)') + OwesMatch(call[c], i) = Cardinality(Posting(i)) + OwesMatch(q, i)
<1> DEFINE before == Posting(i)
           after == Posting(i)'
<1>1. /\ IsFiniteSet(before) /\ Cardinality(before) \in Nat
      /\ c \in before <=> AdjustmentPosted(call[c], i)
  BY PostingCounted DEF Posting
<1>2. call'[c] = q /\ \A e \in Calls \ {c} : call'[e] = call[e]
  BY DEF BankTyped
<1>3. after = (before \ {c}) \cup (IF AdjustmentPosted(q, i) THEN {c} ELSE {})
  <2>1. PICK p : p = call[c]
    OBVIOUS
  <2> QED  BY <1>2, <2>1 DEF Posting, AdjustmentPosted
<1>4. /\ IsFiniteSet(before \ {c})
      /\ Cardinality(before \ {c}) = Cardinality(before) - (IF c \in before THEN 1 ELSE 0)
  BY <1>1, FS_RemoveElement
<1>5. Cardinality((before \ {c}) \cup {c}) = Cardinality(before \ {c}) + 1
  BY <1>4, FS_AddElement
<1>6. Cardinality(after) = Cardinality(before \ {c}) + (IF AdjustmentPosted(q, i) THEN 1 ELSE 0)
  <2>1. CASE AdjustmentPosted(q, i)
    BY <1>3, <1>5, <2>1
  <2>2. CASE ~AdjustmentPosted(q, i)
    <3>1. after = before \ {c}
      BY <1>3, <2>2
    <3> QED  BY <1>1, <1>4, <2>2, <3>1
  <2> QED  BY <2>1, <2>2
<1>7. /\ OwesMatch(call[c], i) = (IF c \in before THEN 1 ELSE 0)
      /\ OwesMatch(q, i) = (IF AdjustmentPosted(q, i) THEN 1 ELSE 0)
  BY <1>1 DEF OwesMatch
<1> QED  BY <1>1, <1>4, <1>6, <1>7

LEMMA OwesOneAtMost == \A q, i : OwesMatch(q, i) \in {0, 1}
  BY DEF OwesMatch

LEMMA MatchesStayCovered ==
    ASSUME BankInv, NEW c \in Calls, NEW q, call' = [call EXCEPT ![c] = q],
           ItemsTyped', MatchesBacked(call[c], q)
    PROVE  MatchesCovered'
<1> SUFFICES ASSUME NEW i \in Items
             PROVE  Cardinality(Adjusting(i)') + Cardinality(Posting(i)') <= db'[i].entries
  BY DEF MatchesCovered
<1>1. BankTyped /\ ItemsTyped /\ MatchesCovered
  BY DEF BankInv, BankRows
<1>2. /\ Adjusted(i) \in Nat /\ Adjusted(i)' \in Nat
      /\ db[i].entries \in Nat /\ db'[i].entries \in Nat
  BY <1>1, AdjustingCounted, AdjustingCountedNext DEF ItemsTyped, ItemRow
<1>3. Cardinality(Posting(i)) \in Nat /\ Cardinality(Posting(i)') \in Nat
  <2>1. Posting(i)' \subseteq Calls
    BY DEF Posting
  <2> QED  BY <2>1, PostingCounted, FS_Subset, FS_CardinalityType, BankingAssumption
<1>4. Cardinality(Posting(i)') + OwesMatch(call[c], i) = Cardinality(Posting(i)) + OwesMatch(q, i)
  BY <1>1, PostingMoves
<1>5. OwesMatch(call[c], i) \in {0, 1} /\ OwesMatch(q, i) \in {0, 1}
  BY OwesOneAtMost
<1>6. /\ Adjusted(i)' + OwesMatch(q, i) + db[i].entries
             <= Adjusted(i) + OwesMatch(call[c], i) + db'[i].entries
      /\ Adjusted(i) + Cardinality(Posting(i)) <= db[i].entries
  BY <1>1 DEF MatchesBacked, MatchesCovered, Adjusted
<1>7. Adjusted(i)' + Cardinality(Posting(i)') <= db'[i].entries
  BY <1>2, <1>3, <1>4, <1>5, <1>6
<1> QED  BY <1>7 DEF Adjusted

\* A commit of one request, or the first step of one.
LEMMA BankStepKeeps ==
    ASSUME BankInv, NEW c \in Calls, NEW q, DOMAIN q = Fields, call' = [call EXCEPT ![c] = q],
           tidy' \in BOOLEAN, db' = [x \in BankingRows |-> db'[x]],
           BankKeeps(call[c], q), BankRequest(q)',
           tidy' => tidy /\ (call[c] = Idle => Alone)
    PROVE  BankInv'
<1>1. /\ call' = [e \in Calls |-> call'[e]]
      /\ call'[c] = q /\ \A e \in Calls \ {c} : call'[e] = call[e]
  BY DEF BankInv, BankTyped
<1>2. BankTyped'
  BY <1>1 DEF BankInv, BankTyped
<1>3. BankRows' /\ BankKept
  BY DEF BankKeeps, KeepsLoans, KeepsPlacements, KeepsItems, KeepsFeeds, BankRows, BankKept
<1>4. \A e \in Calls : BankRequest(call[e])'
  <2>1. TAKE e \in Calls
  <2>2. PICK z : z = call'[e]
    OBVIOUS
  <2>3. BankRequest(z)'
    <3>1. CASE e = c
      BY <1>1, <2>2, <3>1
    <3>2. CASE e # c
      <4>1. BankRequest(z)
        BY <1>1, <2>2, <3>2 DEF BankInv
      <4> QED  BY <1>3, <4>1, BankRequestStays
    <3> QED  BY <3>1, <3>2
  <2> QED  BY <2>2, <2>3
<1>5. ASSUME tidy' PROVE BankTurns'
  <2>1. BankTurns /\ (call[c] = Idle => Alone) /\ (BankTurn(call[c]) => BankTurn(q)')
    <3>1. PICK p : p = call[c]
      OBVIOUS
    <3>2. BankKeeps(p, q)
      BY <3>1
    <3>3. BankTurn(p) => BankTurn(q)'
      BY <1>5, <3>2 DEF BankKeeps, KeepsLoans, KeepsPlacements, KeepsItems, KeepsFeeds, BankTurn
    <3> QED  BY <1>5, <3>1, <3>3 DEF BankInv
  <2>2. \A e \in Calls \ {c} : call'[e] = Idle
    BY <1>1, <2>1 DEF BankTurns, Alone
  <2>3. BankTurn(call[c])
    BY <2>1 DEF BankTurns, Alone
  <2>4. BankTurn(q)'
    BY <2>1, <2>3
  <2>5. \A d, e \in Calls : call'[d] # Idle /\ call'[e] # Idle => d = e
    BY <2>2
  <2>6. ASSUME NEW e \in Calls, call'[e] # Idle PROVE BankTurn(call[e])'
    <3>1. e = c /\ call'[e] = q
      BY <1>1, <2>2, <2>6
    <3> QED  BY <2>4, <3>1
  <2>7. ASSUME Alone' PROVE BankTurn(Idle)'
    <3>1. q = Idle
      BY <1>1, <2>7 DEF Alone
    <3> QED  BY <2>4, <3>1
  <2> QED  BY <2>5, <2>6, <2>7 DEF BankTurns
<1>6. MatchesCovered'
  <2>1. ItemsTyped' /\ MatchesBacked(call[c], q)
    BY DEF BankKeeps, KeepsItems
  <2> QED  BY <2>1, MatchesStayCovered
<1> QED  BY <1>2, <1>3, <1>4, <1>5, <1>6 DEF BankInv

\* What needs no request: a statement, or time that goes by.
LEMMA BankStatementKeeps ==
    ASSUME BankInv, call' = call, tidy' \in BOOLEAN, db' = [x \in BankingRows |-> db'[x]],
           tidy' => tidy,
           \A p : BankRequest(p) /\ (p = Idle \/ ~(tidy' => Alone)) => BankKeeps(p, p)
    PROVE  BankInv'
<1>1. BankTyped'
  BY DEF BankInv, BankTyped
<1>2. BankRows' /\ BankKept /\ MatchesBacked(Idle, Idle)
  <2>1. BankKeeps(Idle, Idle)
    BY IdleIsIdle
  <2> QED  BY <2>1 DEF BankKeeps, KeepsLoans, KeepsPlacements, KeepsItems, KeepsFeeds, BankRows, BankKept
<1>3. \A e \in Calls : BankRequest(call[e])'
  <2>1. TAKE e \in Calls
  <2>2. PICK z : z = call[e]
    OBVIOUS
  <2>3. BankRequest(z)'
    BY <1>2, <2>2, BankRequestStays DEF BankInv
  <2> QED  BY <2>2, <2>3
<1>4. ASSUME tidy' PROVE BankTurns'
  <2>1. ASSUME NEW p, BankRequest(p), BankTurn(p), p = Idle \/ ~Alone PROVE BankTurn(p)'
    <3>1. BankKeeps(p, p)
      BY <1>4, <2>1
    <3> QED  BY <1>4, <2>1, <3>1
             DEF BankKeeps, KeepsLoans, KeepsPlacements, KeepsItems, KeepsFeeds, BankTurn
  <2>2. BankTurns
    BY <1>4 DEF BankInv
  <2>3. ASSUME NEW e \in Calls, call'[e] # Idle PROVE BankTurn(call[e])'
    <3>1. PICK p : p = call[e]
      OBVIOUS
    <3>2. BankRequest(p) /\ BankTurn(p) /\ ~Alone
      BY <2>2, <2>3, <3>1 DEF BankTurns, Alone, BankInv
    <3> QED  BY <2>1, <3>1, <3>2
  <2>4. ASSUME Alone' PROVE BankTurn(Idle)'
    BY <2>1, <2>2, <2>4, IdleIsIdle DEF BankTurns, Alone
  <2> QED  BY <2>2, <2>3, <2>4 DEF BankTurns
<1>5. MatchesCovered'
  <2> SUFFICES ASSUME NEW i \in Items
               PROVE  Cardinality(Adjusting(i)') + Cardinality(Posting(i)') <= db'[i].entries
    BY DEF MatchesCovered
  <2>1. ItemsTyped /\ ItemsTyped' /\ MatchesCovered
    BY <1>2 DEF BankInv, BankRows
  <2>2. Posting(i)' = Posting(i)
    BY DEF Posting
  <2>3. /\ Adjusted(i) \in Nat /\ Adjusted(i)' \in Nat /\ Cardinality(Posting(i)) \in Nat
        /\ db[i].entries \in Nat /\ db'[i].entries \in Nat /\ OwesMatch(Idle, i) \in {0, 1}
    BY <2>1, AdjustingCounted, AdjustingCountedNext, PostingCounted, OwesOneAtMost
       DEF ItemsTyped, ItemRow
  <2>4. /\ Adjusted(i)' + OwesMatch(Idle, i) + db[i].entries
             <= Adjusted(i) + OwesMatch(Idle, i) + db'[i].entries
        /\ Adjusted(i) + Cardinality(Posting(i)) <= db[i].entries
    BY <1>2, <2>1 DEF MatchesBacked, MatchesCovered, Adjusted
  <2>5. Adjusted(i)' + Cardinality(Posting(i)) <= db'[i].entries
    BY <2>3, <2>4
  <2> QED  BY <2>2, <2>5 DEF Adjusted
<1> QED  BY <1>1, <1>2, <1>3, <1>4, <1>5 DEF BankInv

-----------------------------------------------------------------------------
(* The components touch no row of one another *)

LoansApart == \A n \in Loans : db'[n] = db[n]
PlacementsApart == \A p \in Placements : db'[p] = db[p]
ItemsApart == \A x \in Sessions \cup Items : db'[x] = db[x]
FeedsApart == \A f \in Feeds : db'[f] = db[f]

LEMMA BankRowWritten ==
    ASSUME BankTyped, NEW x \in BankingRows, NEW row, db' = [db EXCEPT ![x] = row]
    PROVE  /\ db' = [y \in BankingRows |-> db'[y]]
           /\ db'[x] = row /\ \A y \in BankingRows \ {x} : db'[y] = db[y]
  BY DEF BankTyped

LEMMA RowsOfOthers ==
    ASSUME NEW R, \A y \in BankingRows \ R : db'[y] = db[y]
    PROVE  /\ R \cap Loans = {} => LoansApart
           /\ R \cap Placements = {} => PlacementsApart
           /\ R \cap (Sessions \cup Items) = {} => ItemsApart
           /\ R \cap Feeds = {} => FeedsApart
  BY DEF BankingRows, LoansApart, PlacementsApart, ItemsApart, FeedsApart

\* What a request of another component asks of the turn is the same of each.
LEMMA TurnsOfOthers ==
    ASSUME NEW p, NEW q
    PROVE  /\ p.op \notin LoanOps /\ q.op \notin LoanOps => (LoanTurn(p) => LoanTurn(q))
           /\ p.op \notin PlacementOps /\ q.op \notin PlacementOps =>
                 (PlacementTurn(p) => PlacementTurn(q))
           /\ p.op \notin ItemOps /\ q.op \notin ItemOps => (ItemTurn(p) => ItemTurn(q))
           /\ p.op \notin FeedOps /\ q.op \notin FeedOps => (FeedTurn(p) => FeedTurn(q))
<1>1. p.op \notin LoanOps /\ q.op \notin LoanOps => (LoanTurn(p) => LoanTurn(q))
  BY DEF LoanTurn, LoanOps
<1>2. p.op \notin PlacementOps /\ q.op \notin PlacementOps => (PlacementTurn(p) => PlacementTurn(q))
  BY DEF PlacementTurn, PlacementOps
<1>3. p.op \notin ItemOps /\ q.op \notin ItemOps => (ItemTurn(p) => ItemTurn(q))
  BY DEF ItemTurn, ItemOps, Matching
<1>4. p.op \notin FeedOps /\ q.op \notin FeedOps => (FeedTurn(p) => FeedTurn(q))
  BY DEF FeedTurn, FeedOps, Marking
<1> QED  BY <1>1, <1>2, <1>3, <1>4

LEMMA LoansStay ==
    ASSUME LoansTyped, PaidWithinInstallment, LoansApart, NEW p, NEW q,
           tidy' /\ LoanTurn(p) => LoanTurn(q), LoanRequest(q)
    PROVE  KeepsLoans(p, q)
<1>1. \A n \in Loans : Asked(n)' = Asked(n)
  BY DEF LoansApart, Asked
<1>2. LoanTurn(q) => LoanTurn(q)'
  BY <1>1 DEF LoansApart, LoanTurn, LoanRequest, LoanOps
<1>3. LoansTyped' /\ PaidWithinInstallment' /\ LoansKept
  BY DEF LoansApart, LoansTyped, PaidWithinInstallment, LoansKept
<1> QED  BY <1>2, <1>3 DEF KeepsLoans

LEMMA PlacementsStay ==
    ASSUME PlacementsTyped, PlacementsOK, PlacementsApart, NEW p, NEW q,
           tidy' /\ PlacementTurn(p) => PlacementTurn(q), PlacementRequest(q)
    PROVE  KeepsPlacements(p, q)
<1>1. PlacementTurn(q) => PlacementTurn(q)'
  BY DEF PlacementsApart, PlacementTurn, PlacementRequest, In
<1>2. PlacementsOK'
  BY DEF PlacementsApart, PlacementsTyped, PlacementRow, PlacementsOK, In
<1>3. PlacementsTyped' /\ PlacementsKept
  BY DEF PlacementsApart, PlacementsTyped, PlacementsKept, In
<1> QED  BY <1>1, <1>2, <1>3 DEF KeepsPlacements

LEMMA ItemsStay ==
    ASSUME ItemsTyped, ItemsOK, ItemsApart, NEW p, NEW q, ItemRequest(q),
           \A i \in Items : AdjustmentPosted(q, i) => AdjustmentPosted(p, i),
           tidy' /\ ItemTurn(p) => ItemTurn(q)
    PROVE  KeepsItems(p, q)
<1>1. \A i \in Items : db'[i] = db[i] /\ Rowcount(i)' = Rowcount(i) /\ Adjusting(i)' = Adjusting(i)
  BY DEF ItemsApart, Rowcount, Adjusting
<1>2. \A s \in Sessions : db'[s] = db[s]
  BY DEF ItemsApart
<1>3. ItemTurn(q) => ItemTurn(q)'
  BY <1>1 DEF ItemTurn, Matching
<1>4. ItemsTyped' /\ ItemsKept
  BY <1>1, <1>2 DEF ItemsTyped, ItemsKept, In
<1>5. ItemsOK'
  BY <1>1, <1>2 DEF ItemsOK, ApprovedIsMatched, FourEyes, In
<1>6. MatchesBacked(p, q)
  <2> SUFFICES ASSUME NEW i \in Items
               PROVE  Adjusted(i)' + OwesMatch(q, i) + db[i].entries
                          <= Adjusted(i) + OwesMatch(p, i) + db'[i].entries
    BY DEF MatchesBacked
  <2>1. OwesMatch(q, i) <= OwesMatch(p, i) /\ OwesMatch(q, i) \in {0, 1} /\ OwesMatch(p, i) \in {0, 1}
    BY DEF OwesMatch
  <2>2. Adjusted(i)' = Adjusted(i) /\ Adjusted(i) \in Nat /\ db[i].entries \in Nat
    BY <1>1, AdjustingCounted DEF Adjusted, ItemsTyped, ItemRow
  <2> QED  BY <1>1, <2>1, <2>2
<1> QED  BY <1>3, <1>4, <1>5, <1>6 DEF KeepsItems

LEMMA FeedsStay ==
    ASSUME FeedsTyped, NothingMissed, FeedsApart, NEW p, NEW q, FeedRequest(q),
           tidy' /\ FeedTurn(p) => FeedTurn(q)
    PROVE  KeepsFeeds(p, q)
<1>1. FeedTurn(q) => FeedTurn(q)'
  BY DEF FeedsApart, FeedTurn, FeedRequest, FeedOps, Marking, In
<1>2. FeedsTyped' /\ NothingMissed' /\ FeedsKept
  BY DEF FeedsApart, FeedsTyped, NothingMissed, FeedsKept, Accounted
<1> QED  BY <1>1, <1>2 DEF KeepsFeeds

\* A request only reads: it enters, goes on or leaves.
LEMMA BankReads ==
    ASSUME BankInv, NEW c \in Calls, NEW q, DOMAIN q = Fields, call' = [call EXCEPT ![c] = q],
           db' = db, tidy' \in BOOLEAN, BankRequest(q),
           tidy' => tidy /\ (call[c] = Idle => Alone) /\ (BankTurn(call[c]) => BankTurn(q)),
           \A i \in Items : AdjustmentPosted(q, i) => AdjustmentPosted(call[c], i)
    PROVE  BankInv'
<1>1. PICK p : p = call[c]
  OBVIOUS
<1>2. BankTyped /\ BankRows /\ (tidy' => BankTurn(p))
  BY <1>1 DEF BankInv, BankTurns, Alone
<1>3. LoansApart /\ PlacementsApart /\ ItemsApart /\ FeedsApart
  BY DEF LoansApart, PlacementsApart, ItemsApart, FeedsApart
<1>4. KeepsLoans(p, q)
  BY <1>1, <1>2, <1>3, LoansStay DEF BankRows, BankRequest, BankTurn
<1>5. KeepsPlacements(p, q)
  BY <1>1, <1>2, <1>3, PlacementsStay DEF BankRows, BankRequest, BankTurn
<1>6. KeepsItems(p, q)
  BY <1>1, <1>2, <1>3, ItemsStay DEF BankRows, BankRequest, BankTurn
<1>7. KeepsFeeds(p, q)
  BY <1>1, <1>2, <1>3, FeedsStay DEF BankRows, BankRequest, BankTurn
<1>8. BankKeeps(call[c], q)
  BY <1>1, <1>4, <1>5, <1>6, <1>7 DEF BankKeeps
<1>9. BankRequest(q)'
  BY <1>4, <1>5, <1>6, <1>7, BankRequestStays
     DEF KeepsLoans, KeepsPlacements, KeepsItems, KeepsFeeds, BankKept
<1>10. db' = [x \in BankingRows |-> db'[x]]
  BY <1>2 DEF BankTyped
<1> QED  BY <1>8, <1>9, <1>10, BankStepKeeps

\* Rows are written: the components that they are no rows of stay as they are,
\* if the request is none of theirs.
LEMMA BankOthersStay ==
    ASSUME BankInv, NEW R, \A y \in BankingRows \ R : db'[y] = db[y], NEW p, NEW q
    PROVE  /\ R \cap Loans = {} /\ p.op \notin LoanOps /\ q.op \notin LoanOps => KeepsLoans(p, q)
           /\ R \cap Placements = {} /\ p.op \notin PlacementOps /\ q.op \notin PlacementOps =>
                 KeepsPlacements(p, q)
           /\ R \cap (Sessions \cup Items) = {} /\ p.op \notin ItemOps /\ q.op \notin ItemOps =>
                 KeepsItems(p, q)
           /\ R \cap Feeds = {} /\ p.op \notin FeedOps /\ q.op \notin FeedOps => KeepsFeeds(p, q)
<1>1. BankRows
  BY DEF BankInv
<1>2. ASSUME R \cap Loans = {}, p.op \notin LoanOps, q.op \notin LoanOps PROVE KeepsLoans(p, q)
  <2>1. LoansApart /\ LoanRequest(q)
    BY <1>2, RowsOfOthers DEF LoanRequest, LoanOps
  <2> QED  BY <1>1, <1>2, <2>1, TurnsOfOthers, LoansStay DEF BankRows
<1>3. ASSUME R \cap Placements = {}, p.op \notin PlacementOps, q.op \notin PlacementOps
      PROVE  KeepsPlacements(p, q)
  <2>1. PlacementsApart /\ PlacementRequest(q)
    BY <1>3, RowsOfOthers DEF PlacementRequest, PlacementOps
  <2> QED  BY <1>1, <1>3, <2>1, TurnsOfOthers, PlacementsStay DEF BankRows
<1>4. ASSUME R \cap (Sessions \cup Items) = {}, p.op \notin ItemOps, q.op \notin ItemOps
      PROVE  KeepsItems(p, q)
  <2>1. ItemsApart /\ ItemRequest(q) /\ \A i \in Items : ~AdjustmentPosted(q, i)
    BY <1>4, RowsOfOthers DEF ItemRequest, ItemOps, AdjustmentPosted
  <2> QED  BY <1>1, <1>4, <2>1, TurnsOfOthers, ItemsStay DEF BankRows
<1>5. ASSUME R \cap Feeds = {}, p.op \notin FeedOps, q.op \notin FeedOps PROVE KeepsFeeds(p, q)
  <2>1. FeedsApart /\ FeedRequest(q)
    BY <1>5, RowsOfOthers DEF FeedRequest, FeedOps
  <2> QED  BY <1>1, <1>5, <2>1, TurnsOfOthers, FeedsStay DEF BankRows
<1> QED  BY <1>2, <1>3, <1>4, <1>5

\* A request writes rows and leaves.
LEMMA BankLeaves ==
    ASSUME BankInv, NEW c \in Calls, call[c].op # "none", Leave(c),
           db' = [y \in BankingRows |-> db'[y]], BankKeeps(call[c], Idle)
    PROVE  BankInv'
<1>1. /\ call' = [call EXCEPT ![c] = Idle] /\ tidy' = tidy /\ tidy \in BOOLEAN
      /\ call[c] # Idle
  BY IdleIsIdle DEF Leave, BankInv, BankTyped
<1> QED  BY <1>1, IdleIsIdle, BankStepKeeps

\* A statement writes rows.
LEMMA BankStates ==
    ASSUME BankInv, UNCHANGED call, tidy' = (tidy /\ Alone), db' = [y \in BankingRows |-> db'[y]],
           BankKeeps(Idle, Idle)
    PROVE  BankInv'
<1>1. tidy' \in BOOLEAN
  BY DEF BankInv, BankTyped
<1> QED  BY <1>1, BankStatementKeeps

\* A request enters with what it has read.
LEMMA BankEnters ==
    ASSUME BankInv, NEW c \in Calls, NEW op, NEW at, NEW x, NEW arg, NEW seen,
           Enter(c, op, at, x, arg, seen), NEW q,
           q = [op |-> op, at |-> at, row |-> x, arg |-> arg, seen |-> seen],
           BankRequest(q), BankTurn(Idle) => BankTurn(q), op # "adjust" \/ at # "insert"
    PROVE  BankInv'
<1>1. /\ call[c] = Idle /\ call' = [call EXCEPT ![c] = q] /\ db' = db /\ tidy' = (tidy /\ Alone)
      /\ DOMAIN q = Fields /\ tidy' \in BOOLEAN /\ \A i \in Items : ~AdjustmentPosted(q, i)
  BY DEF Enter, Fields, BankInv, BankTyped, AdjustmentPosted
<1> QED  BY <1>1, BankReads

-----------------------------------------------------------------------------
(* Loans *)

\* The requests of a component, and none.
LEMMA LoanOpsApart ==
    \A op \in LoanOps \cup {"none"} : op \notin PlacementOps /\ op \notin ItemOps /\ op \notin FeedOps
  BY DEF LoanOps, PlacementOps, ItemOps, FeedOps

LEMMA LoanRowsApart ==
    /\ Loans \subseteq BankingRows /\ Loans \cap Placements = {}
    /\ Loans \cap (Sessions \cup Items) = {} /\ Loans \cap Feeds = {}
  BY BankingAssumption DEF BankingRows

LEMMA LoanKeepsOthers ==
    ASSUME BankInv, \A y \in BankingRows \ Loans : db'[y] = db[y], NEW p,
           p.op \in LoanOps \cup {"none"}, KeepsLoans(p, Idle)
    PROVE  BankKeeps(p, Idle)
<1>1. Idle.op \in LoanOps \cup {"none"}
  BY IdleIsIdle
<1> QED  BY <1>1, LoanOpsApart, LoanRowsApart, BankOthersStay DEF BankKeeps

AskedIn(lines) == SumFunctionOnSet([i \in DOMAIN lines |-> lines[i].due], DOMAIN lines)

\* A loan is written, and its installments ask for what they did.
LEMMA LoanWritten ==
    ASSUME BankInv, NEW n \in Loans, NEW row \in LoanRow, db' = [db EXCEPT ![n] = row], NEW p,
           \A i \in DOMAIN row.lines : row.lines[i].paid <= row.lines[i].due,
           \A i \in DOMAIN db[n].lines :
               i \in DOMAIN row.lines /\ row.lines[i].due = db[n].lines[i].due,
           tidy' /\ LoanTurn(p) => row.drawn <= Facility /\ AskedIn(row.lines) <= row.drawn
    PROVE  KeepsLoans(p, Idle)
<1>1. BankTyped /\ LoansTyped /\ PaidWithinInstallment /\ n \in BankingRows
  BY LoanRowsApart DEF BankInv, BankRows
<1>2. db'[n] = row /\ \A m \in Loans \ {n} : db'[m] = db[m]
  BY <1>1, BankRowWritten DEF BankingRows
<1>3. LoansTyped' /\ PaidWithinInstallment' /\ LoansKept
  BY <1>1, <1>2 DEF LoansTyped, PaidWithinInstallment, LoansKept
<1>4. ASSUME tidy', LoanTurn(p) PROVE LoanTurn(Idle)'
  <2>1. /\ Asked(n)' = AskedIn(row.lines)
        /\ \A m \in Loans \ {n} : Asked(m)' = Asked(m)
    BY <1>2 DEF Asked, AskedIn
  <2>2. \A m \in Loans : db'[m].drawn <= Facility /\ Asked(m)' <= db'[m].drawn
    BY <1>2, <1>4, <2>1 DEF LoanTurn
  <2> QED  BY <2>2, IdleIsIdle DEF LoanTurn
<1> QED  BY <1>3, <1>4 DEF KeepsLoans

LEMMA LoanLeaves ==
    ASSUME BankInv, NEW c \in Calls, call[c].op \in LoanOps, Leave(c), NEW n \in Loans, NEW row,
           db' = [db EXCEPT ![n] = row], KeepsLoans(call[c], Idle)
    PROVE  BankInv'
<1>1. PICK p : p = call[c]
  OBVIOUS
<1>2. db' = [y \in BankingRows |-> db'[y]] /\ \A y \in BankingRows \ Loans : db'[y] = db[y]
  BY LoanRowsApart, BankRowWritten DEF BankInv
<1>3. BankKeeps(p, Idle)
  BY <1>1, <1>2, LoanKeepsOthers
<1>4. call[c].op # "none"
  BY DEF LoanOps
<1> QED  BY <1>1, <1>2, <1>3, <1>4, BankLeaves

\* A request on loans enters.
LEMMA LoanEnters ==
    ASSUME BankInv, NEW c \in Calls, NEW op \in LoanOps, NEW n \in Loans, NEW arg, NEW seen,
           Enter(c, op, "write", n, arg, seen), NEW q,
           q = [op |-> op, at |-> "write", row |-> n, arg |-> arg, seen |-> seen],
           LoanRequest(q), LoanTurn(Idle) => LoanTurn(q)
    PROVE  BankInv'
<1>1. q.op = op /\ op \in LoanOps \cup {"none"} /\ Idle.op \in LoanOps \cup {"none"}
  BY IdleIsIdle
<1>2. BankTurn(Idle) => BankTurn(q)
  BY <1>1, LoanOpsApart, TurnsOfOthers DEF BankTurn
<1>3. BankRequest(q)
  BY <1>1, LoanOpsApart
     DEF BankRequest, PlacementRequest, ItemRequest, FeedRequest, PlacementOps, ItemOps, FeedOps
<1> QED  BY <1>2, <1>3, BankEnters

\* Installments of a sum that is a multiple of their number leave no rest.
LEMMA WholeParts ==
    ASSUME NEW total \in Nat, NEW count \in Nat \ {0}, total % count = 0
    PROVE  count * (total \div count) = total
OBVIOUS

\* Equal installments ask for as many times their amount.
LEMMA EqualParts ==
    ASSUME NEW count \in Nat, NEW part \in Nat, NEW f, \A i \in 1..count : f[i] = part
    PROVE  SumFunctionOnSet(f, 1..count) = count * part
<1> DEFINE T == {n \in 0..count : SumFunctionOnSet(f, 1..n) = n * part}
<1>1. 0 \in T
  <2>1. 1..0 = {} /\ 0 * part = 0
    OBVIOUS
  <2> QED  BY <2>1, SumEmpty
<1>2. IsFiniteSet(T) /\ \A n \in T : n \in Int
  <2>1. IsFiniteSet(0..count) /\ T \subseteq 0..count
    BY FS_Interval
  <2> QED  BY <2>1, FS_Subset
<1>3. PICK m \in T : \A n \in T : m >= n
  <2> HIDE DEF T
  <2> QED  BY <1>1, <1>2, HasLargest
<1>4. CASE m < count
  <2>1. m \in 0..count /\ SumFunctionOnSet(f, 1..m) = m * part
    OBVIOUS
  <2>2. 1..(m + 1) = (1..m) \cup {m + 1} /\ m + 1 \notin 1..m /\ m + 1 \in 1..count
    BY <1>4, <2>1
  <2>3. Numeric(f, 1..m) /\ f[m + 1] \in Int /\ f[m + 1] = part
    <3>1. IsFiniteSet(1..m) /\ 1..m \subseteq 1..count
      BY <2>1, FS_Interval
    <3>2. \A i \in 1..count : f[i] \in Int
      OBVIOUS
    <3> QED  BY <2>2, <3>1, <3>2 DEF Numeric
  <2>4. SumFunctionOnSet(f, (1..m) \cup {m + 1}) = SumFunctionOnSet(f, 1..m) + f[m + 1]
    BY <2>2, <2>3, SumAdds
  <2>5. SumFunctionOnSet(f, 1..(m + 1)) = m * part + part
    BY <2>1, <2>2, <2>3, <2>4
  <2>6. m * part + part = (m + 1) * part
    BY <2>1
  <2>7. m + 1 \in T
    BY <1>4, <2>1, <2>5, <2>6
  <2> QED  BY <1>3, <2>1, <2>7
<1> QED  BY <1>3, <1>4

LEMMA SequenceFacts ==
    ASSUME NEW S, NEW s \in Seq(S)
    PROVE  /\ Len(s) \in Nat /\ DOMAIN s = 1..Len(s) /\ IsFiniteSet(DOMAIN s)
           /\ \A j \in DOMAIN s : s[j] \in S
<1>1. Len(s) \in Nat /\ DOMAIN s = 1..Len(s) /\ \A j \in DOMAIN s : s[j] \in S
  OBVIOUS
<1>2. IsFiniteSet(1..Len(s))
  BY <1>1, FS_Interval
<1> QED  BY <1>1, <1>2

\* What is known of a loan and of each of its installments.
LEMMA LoanFacts ==
    ASSUME BankInv, NEW n \in Loans
    PROVE  /\ db[n] \in LoanRow /\ db[n].drawn \in Nat
           /\ db[n].lines \in Seq([due : Nat, paid : Nat]) /\ Len(db[n].lines) \in Nat
           /\ DOMAIN db[n].lines = 1..Len(db[n].lines) /\ IsFiniteSet(DOMAIN db[n].lines)
           /\ \A j \in DOMAIN db[n].lines :
                 /\ db[n].lines[j] \in [due : Nat, paid : Nat]
                 /\ db[n].lines[j].due \in Nat /\ db[n].lines[j].paid \in Nat
                 /\ db[n].lines[j].paid <= db[n].lines[j].due
<1>1. db[n] \in LoanRow /\ \A j \in DOMAIN db[n].lines : db[n].lines[j].paid <= db[n].lines[j].due
  BY DEF BankInv, BankRows, LoansTyped, PaidWithinInstallment
<1>2. db[n].drawn \in Nat /\ db[n].lines \in Seq([due : Nat, paid : Nat])
  BY <1>1 DEF LoanRow
<1>3. PICK lines \in Seq([due : Nat, paid : Nat]) : lines = db[n].lines
  BY <1>2
<1>4. \A j \in DOMAIN lines : lines[j] \in [due : Nat, paid : Nat]
  BY SequenceFacts
<1> QED  BY <1>1, <1>2, <1>3, <1>4, SequenceFacts

LEMMA CreateLoanKeeps ==
    ASSUME BankInv, NEW n \in Loans, CreateLoanFacility(n) PROVE BankInv'
<1>1. db[n] \in LoanRow /\ \A i \in DOMAIN db[n].lines : db[n].lines[i].paid <= db[n].lines[i].due
  BY DEF BankInv, BankRows, LoansTyped, PaidWithinInstallment
<1>2. PICK row : row = [db[n] EXCEPT !.status = "ACTIVE"]
  OBVIOUS
<1>3. row \in LoanRow /\ row.lines = db[n].lines /\ row.drawn = db[n].drawn
  BY <1>1, <1>2 DEF LoanRow
<1>4. db' = [db EXCEPT ![n] = row] /\ UNCHANGED call /\ tidy' = (tidy /\ Alone)
  BY <1>2 DEF CreateLoanFacility, Statement, Becomes
<1>5. LoanTurn(Idle) => row.drawn <= Facility /\ AskedIn(row.lines) <= row.drawn
  BY <1>3 DEF LoanTurn, Asked, AskedIn
<1>6. KeepsLoans(Idle, Idle)
  BY <1>1, <1>3, <1>4, <1>5, LoanWritten
<1>7. db' = [y \in BankingRows |-> db'[y]] /\ \A y \in BankingRows \ Loans : db'[y] = db[y]
  BY <1>4, LoanRowsApart, BankRowWritten DEF BankInv
<1>8. BankKeeps(Idle, Idle)
  BY <1>6, <1>7, IdleIsIdle, LoanKeepsOthers
<1> QED  BY <1>4, <1>7, <1>8, BankStates

LEMMA DrawKeeps ==
    ASSUME BankInv, NEW c \in Calls, NEW n \in Loans, NEW sum \in Sums, CreateDrawdown(c, n, sum)
    PROVE  BankInv'
<1>1. CASE MayDraw(n, sum) /\ Enter(c, "draw", "write", n, sum, None)
  <2>1. PICK q : q = [op |-> "draw", at |-> "write", row |-> n, arg |-> sum, seen |-> None]
    OBVIOUS
  <2>2. LoanRequest(q) /\ (LoanTurn(Idle) => LoanTurn(q))
    BY <1>1, <2>1 DEF LoanRequest, LoanTurn, MayDraw
  <2> QED  BY <1>1, <2>1, <2>2, LoanEnters DEF LoanOps
<1>2. CASE At(c, "draw", "write", n, sum) /\ db' = [db EXCEPT ![n].drawn = @ + sum] /\ Leave(c)
  <2>1. /\ db[n] \in LoanRow /\ db[n].drawn \in Nat /\ sum \in Nat /\ Facility \in Nat
        /\ \A i \in DOMAIN db[n].lines : db[n].lines[i].paid <= db[n].lines[i].due
    BY LoanAssumption, LoanFacts
  <2>2. PICK row : row = [db[n] EXCEPT !.drawn = @ + sum]
    OBVIOUS
  <2>3. row \in LoanRow /\ row.lines = db[n].lines /\ row.drawn = db[n].drawn + sum
    <3>1. PICK drawn \in Nat : drawn = db[n].drawn + sum
      BY <2>1
    <3>2. row = [db[n] EXCEPT !.drawn = drawn]
      BY <2>2, <3>1
    <3> QED  BY <2>1, <3>1, <3>2 DEF LoanRow
  <2>4. db' = [db EXCEPT ![n] = row]
    BY <1>2, <2>2
  <2>5. PICK p : p = call[c] /\ p.op = "draw" /\ p.row = n /\ p.arg = sum
    BY <1>2 DEF At
  <2>6. LoanTurn(p) => row.drawn <= Facility /\ AskedIn(row.lines) <= row.drawn
    <3>1. AskedIn(row.lines) = Asked(n)
      BY <2>3 DEF Asked, AskedIn
    <3>2. Asked(n) \in Int
      <4>1. IsFiniteSet(DOMAIN db[n].lines) /\ \A i \in DOMAIN db[n].lines : db[n].lines[i].due \in Int
        BY LoanFacts
      <4> DEFINE f == [i \in DOMAIN db[n].lines |-> db[n].lines[i].due]
      <4>2. Numeric(f, DOMAIN db[n].lines)
        BY <4>1 DEF Numeric
      <4> HIDE DEF f
      <4>3. SumFunctionOnSet(f, DOMAIN db[n].lines) \in Int
        BY <4>2, SumTakes
      <4> QED  BY <4>3 DEF f, Asked
    <3>3. db[n].drawn \in Nat
      BY <2>1 DEF LoanRow
    <3>4. LoanTurn(p) => Asked(n) <= db[n].drawn /\ db[n].drawn + sum <= Facility
      BY <2>5 DEF LoanTurn
    <3> QED  BY <2>1, <2>3, <3>1, <3>2, <3>3, <3>4
  <2>7. KeepsLoans(p, Idle)
    BY <2>1, <2>3, <2>4, <2>6, LoanWritten
  <2> QED  BY ZenonT(40), <1>2, <2>4, <2>5, <2>7, LoanLeaves DEF LoanOps
<1> QED  BY <1>1, <1>2 DEF CreateDrawdown, Handler

LEMMA RepayKeeps ==
    ASSUME BankInv, NEW c \in Calls, NEW n \in Loans, NEW i \in 1..MostInstallments, NEW sum \in Sums,
           RecordRepayment(c, n, i, sum)
    PROVE  BankInv'
<1>0. /\ db[n] \in LoanRow /\ sum \in Nat
      /\ \A j \in DOMAIN db[n].lines :
            /\ db[n].lines[j] \in [due : Nat, paid : Nat]
            /\ db[n].lines[j].paid <= db[n].lines[j].due
  BY LoanAssumption, LoanFacts
<1>1. CASE /\ i \in DOMAIN db[n].lines /\ MayRepay(db[n].lines[i], sum)
           /\ Enter(c, "repay", "write", n, <<i, sum>>, db[n].lines[i].paid)
  <2>1. PICK paid \in Nat : paid = db[n].lines[i].paid
    BY <1>0, <1>1
  <2>2. PICK q : q = [op |-> "repay", at |-> "write", row |-> n, arg |-> <<i, sum>>, seen |-> paid]
    OBVIOUS
  <2>3. LoanRequest(q)
    BY <1>1, <2>1, <2>2 DEF LoanRequest, MayRepay
  <2>4. LoanTurn(Idle) => LoanTurn(q)
    BY <2>2 DEF LoanTurn
  <2> QED  BY <1>1, <2>1, <2>2, <2>3, <2>4, LoanEnters DEF LoanOps
<1>2. CASE /\ At(c, "repay", "write", n, <<i, sum>>)
           /\ db' = [db EXCEPT ![n].lines[i].paid = call[c].seen + sum] /\ Leave(c)
  <2>1. PICK p : p = call[c] /\ p.op = "repay" /\ p.row = n /\ p.arg = <<i, sum>>
    BY <1>2 DEF At
  <2>2. i \in DOMAIN db[n].lines /\ p.seen \in Nat /\ p.seen + sum <= db[n].lines[i].due
    BY <2>1 DEF BankInv, BankRequest, LoanRequest
  <2>3. PICK paid \in Nat : paid = p.seen + sum
    BY <1>0, <2>2
  <2>4. PICK line : line = [db[n].lines[i] EXCEPT !.paid = paid]
    OBVIOUS
  <2>5. line \in [due : Nat, paid : Nat] /\ line.due = db[n].lines[i].due /\ line.paid = paid
    BY <1>0, <2>2, <2>4
  <2>6. PICK lines : lines = [db[n].lines EXCEPT ![i] = line]
    OBVIOUS
  <2>7. /\ lines \in Seq([due : Nat, paid : Nat]) /\ DOMAIN lines = DOMAIN db[n].lines
        /\ lines[i] = line /\ \A j \in DOMAIN db[n].lines \ {i} : lines[j] = db[n].lines[j]
    BY <1>0, <2>2, <2>5, <2>6 DEF LoanRow
  <2>8. PICK row : row = [db[n] EXCEPT !.lines = lines]
    OBVIOUS
  <2>9. row \in LoanRow /\ row.lines = lines /\ row.drawn = db[n].drawn
    BY <1>0, <2>7, <2>8 DEF LoanRow
  <2>10. db' = [db EXCEPT ![n] = row]
    BY <1>2, <2>1, <2>3, <2>4, <2>6, <2>8
  <2>11. \A j \in DOMAIN lines : lines[j].paid <= lines[j].due /\ lines[j].due = db[n].lines[j].due
    BY <1>0, <2>2, <2>3, <2>5, <2>7
  <2>12. AskedIn(row.lines) = Asked(n)
    <3>1. [j \in DOMAIN lines |-> lines[j].due] = [j \in DOMAIN db[n].lines |-> db[n].lines[j].due]
      BY <2>7, <2>11
    <3> QED  BY <2>7, <2>9, <3>1 DEF AskedIn, Asked
  <2>13. LoanTurn(p) => row.drawn <= Facility /\ AskedIn(row.lines) <= row.drawn
    BY <2>9, <2>12 DEF LoanTurn
  <2>14. /\ \A j \in DOMAIN row.lines : row.lines[j].paid <= row.lines[j].due
         /\ \A j \in DOMAIN db[n].lines :
                j \in DOMAIN row.lines /\ row.lines[j].due = db[n].lines[j].due
    BY <2>7, <2>9, <2>11
  <2>15. KeepsLoans(p, Idle)
    BY <2>9, <2>10, <2>13, <2>14, LoanWritten
  <2>16. Leave(c) /\ call[c].op \in LoanOps /\ KeepsLoans(call[c], Idle)
    BY <1>2, <2>1, <2>15 DEF LoanOps
  <2> QED  BY <2>10, <2>16, LoanLeaves
<1> QED  BY <1>1, <1>2 DEF RecordRepayment

LEMMA ScheduleKeeps ==
    ASSUME BankInv, NEW c \in Calls, NEW n \in Loans, NEW count \in Sums,
           GenerateRepaymentSchedule(c, n, count)
    PROVE  BankInv'
<1>0. /\ db[n] \in LoanRow /\ count \in Nat \ {0}
      /\ \A j \in DOMAIN db[n].lines :
            /\ db[n].lines[j] \in [due : Nat, paid : Nat]
            /\ db[n].lines[j].paid <= db[n].lines[j].due
  BY LoanAssumption, LoanFacts
<1>1. CASE /\ MaySchedule(n) /\ db[n].drawn % count = 0
           /\ Enter(c, "schedule", "write", n, count, db[n].drawn)
  <2>1. PICK drawn \in Nat : drawn = db[n].drawn
    BY <1>0 DEF LoanRow
  <2>2. PICK q : q = [op |-> "schedule", at |-> "write", row |-> n, arg |-> count, seen |-> drawn]
    OBVIOUS
  <2>3. LoanRequest(q)
    BY <2>2 DEF LoanRequest
  <2>4. LoanTurn(Idle) => LoanTurn(q)
    BY <1>1, <2>1, <2>2 DEF LoanTurn, MaySchedule
  <2> QED  BY <1>1, <2>1, <2>2, <2>3, <2>4, LoanEnters DEF LoanOps
<1>2. CASE /\ At(c, "schedule", "write", n, count)
           /\ db' = [db EXCEPT ![n].lines =
                        @ \o [i \in 1..count |-> [due |-> call[c].seen \div count, paid |-> 0]]]
           /\ Leave(c)
  <2>1. PICK p : p = call[c] /\ p.op = "schedule" /\ p.row = n /\ p.arg = count
    BY <1>2 DEF At
  <2>2. p.seen \in Nat
    BY <2>1 DEF BankInv, BankRequest, LoanRequest
  <2>3. PICK part \in Nat : part = p.seen \div count
    BY <1>0, <2>2
  <2>4. PICK new : new = [i \in 1..count |-> [due |-> part, paid |-> 0]]
    OBVIOUS
  <2>5. new \in Seq([due : Nat, paid : Nat]) /\ Len(new) = count
    BY <1>0, <2>4
  <2>6. PICK lines : lines = db[n].lines \o new
    OBVIOUS
  <2>7. /\ lines \in Seq([due : Nat, paid : Nat]) /\ Len(lines) = Len(db[n].lines) + count
        /\ \A j \in 1..Len(lines) :
              lines[j] = IF j <= Len(db[n].lines) THEN db[n].lines[j] ELSE [due |-> part, paid |-> 0]
    BY <1>0, <2>4, <2>5, <2>6 DEF LoanRow
  <2>8. /\ \A j \in DOMAIN lines : lines[j].paid <= lines[j].due
        /\ \A j \in DOMAIN db[n].lines : j \in DOMAIN lines /\ lines[j].due = db[n].lines[j].due
    <3>1. /\ DOMAIN lines = 1..Len(lines) /\ DOMAIN db[n].lines = 1..Len(db[n].lines)
          /\ Len(db[n].lines) \in Nat /\ Len(lines) \in Nat
      BY <2>7, LoanFacts
    <3>2. \A j \in DOMAIN lines :
             IF j <= Len(db[n].lines) THEN j \in DOMAIN db[n].lines /\ lines[j] = db[n].lines[j]
             ELSE lines[j] = [due |-> part, paid |-> 0]
      BY <2>7, <3>1
    <3>3. \A j \in DOMAIN lines : lines[j].paid <= lines[j].due
      BY <1>0, <2>3, <3>2
    <3>4. \A j \in DOMAIN db[n].lines : j \in DOMAIN lines /\ lines[j] = db[n].lines[j]
      <4>1. count \in Nat /\ Len(lines) = Len(db[n].lines) + count
        BY <1>0, <2>7
      <4>2. \A j \in DOMAIN db[n].lines : j \in 1..Len(lines) /\ j <= Len(db[n].lines)
        BY <3>1, <4>1
      <4> QED  BY <3>1, <3>2, <4>2
    <3> QED  BY <3>3, <3>4
  <2>9. PICK row : row = [db[n] EXCEPT !.lines = lines]
    OBVIOUS
  <2>10. row \in LoanRow /\ row.lines = lines /\ row.drawn = db[n].drawn
    BY <1>0, <2>7, <2>9 DEF LoanRow
  <2>11. db' = [db EXCEPT ![n] = row]
    BY <1>2, <2>1, <2>3, <2>4, <2>6, <2>9
  <2>12. ASSUME LoanTurn(p) PROVE row.drawn <= Facility /\ AskedIn(row.lines) <= row.drawn
    <3>1. db[n].lines = <<>> /\ p.seen = db[n].drawn /\ p.seen % count = 0 /\ db[n].drawn <= Facility
      BY <2>1, <2>12 DEF LoanTurn
    <3>2. DOMAIN lines = 1..count /\ \A j \in 1..count : lines[j].due = part
      BY <1>0, <2>7, <3>1
    <3> DEFINE f == [j \in DOMAIN lines |-> lines[j].due]
    <3>3. \A j \in 1..count : f[j] = part
      BY <3>2
    <3> HIDE DEF f
    <3>4. SumFunctionOnSet(f, 1..count) = count * part
      BY <1>0, <3>3, EqualParts
    <3>5. AskedIn(lines) = count * part
      BY <3>2, <3>4 DEF f, AskedIn
    <3>6. count * part = p.seen
      <4>1. p.seen % count = 0
        BY <3>1
      <4>2. count * (p.seen \div count) = p.seen
        BY <1>0, <2>2, <4>1, WholeParts
      <4> QED  BY <2>3, <4>2
    <3> QED  BY <2>2, <2>10, <3>1, <3>5, <3>6
  <2>13. KeepsLoans(p, Idle)
    BY <2>8, <2>10, <2>11, <2>12, LoanWritten
  <2> QED  BY ZenonT(40), <1>2, <2>1, <2>11, <2>13, LoanLeaves DEF LoanOps
<1> QED  BY <1>1, <1>2 DEF GenerateRepaymentSchedule

-----------------------------------------------------------------------------
(* Placements *)

LEMMA PlacementRowsApart ==
    /\ Placements \subseteq BankingRows /\ Placements \cap Loans = {}
    /\ Placements \cap (Sessions \cup Items) = {} /\ Placements \cap Feeds = {}
  BY BankingAssumption DEF BankingRows

LEMMA PlacementOpsApart ==
    \A op \in PlacementOps \cup {"none"} : op \notin LoanOps /\ op \notin ItemOps /\ op \notin FeedOps
  BY DEF LoanOps, PlacementOps, ItemOps, FeedOps

LEMMA PlacementKeepsOthers ==
    ASSUME BankInv, \A y \in BankingRows \ Placements : db'[y] = db[y], NEW p,
           p.op \in PlacementOps \cup {"none"}, KeepsPlacements(p, Idle)
    PROVE  BankKeeps(p, Idle)
<1>1. Idle.op \in PlacementOps \cup {"none"}
  BY IdleIsIdle
<1> QED  BY <1>1, PlacementOpsApart, PlacementRowsApart, BankOthersStay DEF BankKeeps

LEMMA CreatePlacementKeeps ==
    ASSUME BankInv, NEW p \in Placements, NEW rolls \in BOOLEAN, CreatePlacement(p, rolls)
    PROVE  BankInv'
<1>1. PICK row : row = [status |-> "ACTIVE", from |-> None, rolls |-> rolls]
  OBVIOUS
<1>2. /\ db' = [db EXCEPT ![p] = row] /\ UNCHANGED call /\ tidy' = (tidy /\ Alone)
      /\ db[p].status = "ABSENT"
  BY <1>1 DEF CreatePlacement, Statement, In
<1>3. /\ db' = [y \in BankingRows |-> db'[y]] /\ \A y \in BankingRows \ Placements : db'[y] = db[y]
      /\ db'[p] = row /\ \A r \in Placements \ {p} : db'[r] = db[r]
  BY <1>2, PlacementRowsApart, BankRowWritten DEF BankInv
<1>4. PlacementsTyped /\ PlacementsOK
  BY DEF BankInv, BankRows
<1>5. row \in PlacementRow /\ row.status # "ABSENT" /\ row.from = None
  BY <1>1 DEF PlacementRow
<1>6. KeepsPlacements(Idle, Idle)
  <2>1. PlacementsTyped' /\ PlacementsKept
    BY <1>3, <1>4, <1>5 DEF PlacementsTyped, PlacementsKept, In
  <2>2. PlacementsOK'
    <3>1. ASSUME NEW r \in Placements, db'[r].from # None PROVE In(db[r].from, {"MATURED"})'
      <4>1. db'[r] = db[r] /\ db[r] \in PlacementRow /\ db[db[r].from].status = "MATURED"
        BY <1>3, <1>4, <1>5, <3>1 DEF PlacementsTyped, PlacementsOK, In
      <4>2. db[r].from \in Placements \ {p}
        BY <1>2, <3>1, <4>1 DEF PlacementRow
      <4> QED  BY <1>3, <4>1, <4>2 DEF In
    <3> QED  BY <3>1 DEF PlacementsOK
  <2>3. PlacementTurn(Idle) => PlacementTurn(Idle)'
    BY <1>3, <1>5, IdleIsIdle DEF PlacementTurn
  <2> QED  BY <2>1, <2>2, <2>3 DEF KeepsPlacements
<1>7. BankKeeps(Idle, Idle)
  BY <1>3, <1>6, IdleIsIdle, PlacementKeepsOthers
<1> QED  BY <1>2, <1>3, <1>7, BankStates

\* A placement matures, and another may be opened with its money.
LEMMA PlacementMatures ==
    ASSUME BankInv, NEW p \in Placements, db[p].status # "ABSENT", NEW q,
           q.op = "mature", q.row = p,
           \/ db' = [db EXCEPT ![p].status = "MATURED"]
           \/ \E r \in Placements :
                 /\ db[r].status = "ABSENT"
                 /\ db' = [db EXCEPT ![p].status = "MATURED",
                               ![r] = [status |-> "ACTIVE", from |-> p, rolls |-> TRUE]]
    PROVE  /\ db' = [y \in BankingRows |-> db'[y]] /\ \A y \in BankingRows \ Placements : db'[y] = db[y]
           /\ KeepsPlacements(q, Idle)
<1>1. BankTyped /\ PlacementsTyped /\ PlacementsOK
  BY DEF BankInv, BankRows
<1>2. PICK row : row = [db[p] EXCEPT !.status = "MATURED"]
  OBVIOUS
<1>3. /\ row \in PlacementRow /\ row.status = "MATURED" /\ row.from = db[p].from
      /\ None \notin Placements
  BY <1>1, <1>2, BankingAssumption DEF PlacementsTyped, PlacementRow
<1>4. CASE db' = [db EXCEPT ![p].status = "MATURED"]
  <2>1. db' = [db EXCEPT ![p] = row]
    BY <1>2, <1>4
  <2>2. /\ db' = [y \in BankingRows |-> db'[y]] /\ \A y \in BankingRows \ Placements : db'[y] = db[y]
        /\ db'[p] = row /\ \A r \in Placements \ {p} : db'[r] = db[r]
    BY ZenonT(40), <1>1, <2>1, PlacementRowsApart, BankRowWritten
  <2>3. PlacementsTyped' /\ PlacementsKept
    BY <1>1, <1>3, <2>2 DEF PlacementsTyped, PlacementsKept, In
  <2>4. \A r \in Placements : db'[r].from = db[r].from
    BY <1>3, <2>2
  <2>5. PlacementsOK'
    BY <1>1, <1>3, <2>2, <2>4 DEF PlacementsTyped, PlacementRow, PlacementsOK, In
  <2>6. PlacementTurn(q) => PlacementTurn(Idle)'
    BY <2>4, IdleIsIdle DEF PlacementTurn
  <2> QED  BY <2>2, <2>3, <2>5, <2>6 DEF KeepsPlacements
<1>5. ASSUME NEW r \in Placements, db[r].status = "ABSENT",
             db' = [db EXCEPT ![p].status = "MATURED",
                              ![r] = [status |-> "ACTIVE", from |-> p, rolls |-> TRUE]]
      PROVE  /\ db' = [y \in BankingRows |-> db'[y]]
             /\ \A y \in BankingRows \ Placements : db'[y] = db[y]
             /\ KeepsPlacements(q, Idle)
  <2>1. PICK new : new = [status |-> "ACTIVE", from |-> p, rolls |-> TRUE]
    OBVIOUS
  <2>2. new \in PlacementRow /\ new.status = "ACTIVE" /\ new.from = p /\ r # p
    BY <1>5, <2>1 DEF PlacementRow
  <2>3. /\ db' = [y \in BankingRows |-> db'[y]] /\ \A y \in BankingRows \ Placements : db'[y] = db[y]
        /\ db'[p] = row /\ db'[r] = new /\ \A s \in Placements \ {p, r} : db'[s] = db[s]
    <3>1. db = [y \in BankingRows |-> db[y]] /\ p \in BankingRows /\ r \in BankingRows
      BY <1>1, PlacementRowsApart DEF BankTyped
    <3>2. db' = [y \in BankingRows |-> IF y = r THEN new ELSE IF y = p THEN row ELSE db[y]]
      BY <1>2, <1>5, <2>1, <2>2, <3>1
    <3>3. \A y \in BankingRows : db'[y] = (IF y = r THEN new ELSE IF y = p THEN row ELSE db[y])
      BY <3>2
    <3>4. db' = [y \in BankingRows |-> db'[y]]
      BY <3>2
    <3>5. db'[r] = new /\ db'[p] = row
      BY <2>2, <3>1, <3>3
    <3>6. \A y \in BankingRows \ {p, r} : db'[y] = db[y]
      BY <3>3
    <3> QED  BY <3>4, <3>5, <3>6, PlacementRowsApart
  <2>4. PlacementsTyped' /\ PlacementsKept
    BY <1>1, <1>3, <1>5, <2>2, <2>3 DEF PlacementsTyped, PlacementsKept, In
  <2>5. \A s \in Placements \ {r} : db'[s].from = db[s].from
    BY <1>3, <2>3
  <2>6. PlacementsOK'
    <3>1. ASSUME NEW s \in Placements, db'[s].from # None PROVE In(db[s].from, {"MATURED"})'
      <4>1. CASE s = r
        BY <1>3, <2>2, <2>3, <4>1 DEF In
      <4>2. CASE s # r
        <5>1. db'[s].from = db[s].from /\ db[db[s].from].status = "MATURED" /\ db[s].from \in Placements
          BY <1>1, <2>5, <3>1, <4>2 DEF PlacementsTyped, PlacementRow, PlacementsOK, In
        <5>2. db'[db[s].from].status = "MATURED"
          BY <1>3, <1>5, <2>3, <5>1
        <5> QED  BY <5>1, <5>2 DEF In
      <4> QED  BY <4>1, <4>2
    <3> QED  BY <3>1 DEF PlacementsOK
  <2>7. ASSUME PlacementTurn(q) PROVE PlacementTurn(Idle)'
    <3>1. /\ db[p].status = "ACTIVE"
          /\ \A s, t \in Placements : s # t /\ db[s].from # None => db[s].from # db[t].from
      BY <2>7 DEF PlacementTurn, In
    <3>2. \A s \in Placements : db[s].from # p
      BY <1>1, <1>3, <3>1 DEF PlacementsOK, In
    <3>3. \A s, t \in Placements : s # t /\ db'[s].from # None => db'[s].from # db'[t].from
      BY <2>2, <2>3, <2>5, <3>1, <3>2
    <3> QED  BY <3>3, IdleIsIdle DEF PlacementTurn
  <2> QED  BY <2>3, <2>4, <2>6, <2>7 DEF KeepsPlacements
<1> QED  BY <1>4, <1>5

LEMMA MaturityKeeps ==
    ASSUME BankInv, NEW c \in Calls, NEW p \in Placements, ProcessMaturity(c, p) PROVE BankInv'
<1>1. CASE MayMature(p) /\ Enter(c, "mature", "write", p, None, None)
  <2>1. PICK q : q = [op |-> "mature", at |-> "write", row |-> p, arg |-> None, seen |-> None]
    OBVIOUS
  <2>2. q.op \in PlacementOps \cup {"none"} /\ Idle.op \in PlacementOps \cup {"none"} /\ q.row = p
        /\ q.op = "mature"
    BY <2>1, IdleIsIdle DEF PlacementOps
  <2>3. PlacementRequest(q) /\ (PlacementTurn(Idle) => PlacementTurn(q))
    BY <1>1, <2>2 DEF PlacementRequest, PlacementTurn, MayMature, In
  <2>4. BankTurn(Idle) => BankTurn(q)
    BY <2>2, <2>3, PlacementOpsApart, TurnsOfOthers DEF BankTurn
  <2>5. BankRequest(q)
    BY <2>2, <2>3, PlacementOpsApart
       DEF BankRequest, LoanRequest, ItemRequest, FeedRequest, LoanOps, ItemOps, FeedOps
  <2> QED  BY <1>1, <2>1, <2>4, <2>5, BankEnters
<1>2. ASSUME At(c, "mature", "write", p, None), Leave(c),
             IF db[p].rolls
             THEN \E q \in Placements :
                     /\ In(q, {"ABSENT"})
                     /\ db' = [db EXCEPT ![p].status = "MATURED",
                                  ![q] = [status |-> "ACTIVE", from |-> p, rolls |-> TRUE]]
             ELSE Becomes(p, "MATURED")
      PROVE  BankInv'
  <2>1. PICK q : q = call[c] /\ q.op = "mature" /\ q.row = p
    BY <1>2 DEF At
  <2>2. db[p].status # "ABSENT"
    BY <2>1 DEF BankInv, BankRequest, PlacementRequest, In
  <2>3. \/ db' = [db EXCEPT ![p].status = "MATURED"]
        \/ \E r \in Placements :
              /\ db[r].status = "ABSENT"
              /\ db' = [db EXCEPT ![p].status = "MATURED",
                            ![r] = [status |-> "ACTIVE", from |-> p, rolls |-> TRUE]]
    BY <1>2 DEF Becomes, In
  <2>4. /\ db' = [y \in BankingRows |-> db'[y]] /\ \A y \in BankingRows \ Placements : db'[y] = db[y]
        /\ KeepsPlacements(q, Idle)
    BY <2>1, <2>2, <2>3, PlacementMatures
  <2>5. BankKeeps(q, Idle)
    BY <2>1, <2>4, PlacementKeepsOthers DEF PlacementOps
  <2> QED  BY <1>2, <2>1, <2>4, <2>5, BankLeaves
<1> QED  BY <1>1, <1>2 DEF ProcessMaturity

-----------------------------------------------------------------------------
(* Statements of the bank *)

LEMMA ItemRowsApart ==
    LET rows == Sessions \cup Items
    IN  /\ rows \subseteq BankingRows
        /\ rows \cap Loans = {} /\ rows \cap Placements = {} /\ rows \cap Feeds = {}
  BY BankingAssumption DEF BankingRows

LEMMA ItemOpsApart ==
    /\ \A op \in ItemOps \cup {"none"} :
          op \notin LoanOps /\ op \notin PlacementOps /\ op \notin FeedOps
    /\ {"autoMatch", "manualMatch", "adjust", "approveSession"} \subseteq ItemOps
    /\ "none" \notin ItemOps
  BY DEF LoanOps, PlacementOps, ItemOps, FeedOps

LEMMA ItemKeepsOthers ==
    ASSUME BankInv, \A y \in BankingRows \ (Sessions \cup Items) : db'[y] = db[y], NEW p, NEW q,
           p.op \in ItemOps \cup {"none"}, q.op \in ItemOps \cup {"none"}, KeepsItems(p, q)
    PROVE  BankKeeps(p, q)
  BY ItemOpsApart, ItemRowsApart, BankOthersStay DEF BankKeeps

LEMMA ItemRequestAlone ==
    ASSUME NEW q, q.op \in ItemOps, ItemRequest(q) PROVE BankRequest(q)
  BY ItemOpsApart
     DEF BankRequest, LoanRequest, PlacementRequest, FeedRequest, LoanOps, PlacementOps, FeedOps

LEMMA ItemRequestAloneNext ==
    ASSUME NEW q, q.op \in ItemOps, ItemRequest(q)' PROVE BankRequest(q)'
  BY ItemOpsApart
     DEF BankRequest, LoanRequest, PlacementRequest, FeedRequest, LoanOps, PlacementOps, FeedOps

\* A request enters, with what it has read of the statement.
LEMMA ItemEnters ==
    ASSUME BankInv, NEW c \in Calls, NEW op \in ItemOps, NEW at, NEW x, NEW arg, NEW seen,
           Enter(c, op, at, x, arg, seen), NEW q,
           q = [op |-> op, at |-> at, row |-> x, arg |-> arg, seen |-> seen],
           ItemRequest(q), ItemTurn(Idle) => ItemTurn(q), op # "adjust" \/ at # "insert"
    PROVE  BankInv'
<1>1. q.op \in ItemOps /\ Idle.op = "none"
  BY IdleIsIdle
<1>2. BankTurn(Idle) => BankTurn(q)
  BY <1>1, ItemOpsApart, TurnsOfOthers DEF BankTurn
<1> QED  BY <1>1, <1>2, ItemRequestAlone, BankEnters

\* A request writes rows of the statement and goes on.
LEMMA ItemGoesOn ==
    ASSUME BankInv, NEW c \in Calls, call[c].op \in ItemOps, NEW q, DOMAIN q = Fields,
           q.op \in ItemOps, call' = [call EXCEPT ![c] = q], UNCHANGED tidy,
           db' = [y \in BankingRows |-> db'[y]],
           \A y \in BankingRows \ (Sessions \cup Items) : db'[y] = db[y],
           KeepsItems(call[c], q), ItemRequest(q)'
    PROVE  BankInv'
<1>1. PICK p : p = call[c]
  OBVIOUS
<1>2. BankKeeps(p, q)
  BY <1>1, ItemKeepsOthers
<1>3. tidy' \in BOOLEAN /\ call[c] # Idle
  BY ItemOpsApart, IdleIsIdle DEF BankInv, BankTyped
<1> QED  BY <1>1, <1>2, <1>3, ItemRequestAloneNext, BankStepKeeps

\* A request writes rows of the statement and leaves.
LEMMA ItemLeaves ==
    ASSUME BankInv, NEW c \in Calls, call[c].op \in ItemOps, Leave(c),
           db' = [y \in BankingRows |-> db'[y]],
           \A y \in BankingRows \ (Sessions \cup Items) : db'[y] = db[y],
           KeepsItems(call[c], Idle)
    PROVE  BankInv'
<1>1. PICK p : p = call[c]
  OBVIOUS
<1>2. Idle.op \in ItemOps \cup {"none"}
  BY IdleIsIdle
<1>3. BankKeeps(p, Idle)
  BY <1>1, <1>2, ItemKeepsOthers
<1>4. call[c].op # "none"
  BY ItemOpsApart
<1> QED  BY <1>1, <1>3, <1>4, BankLeaves

AdjustedIn(matches) == Cardinality({n \in DOMAIN matches : matches[n][2] = None})

\* What is known of an item.
LEMMA ItemFacts ==
    ASSUME BankInv, NEW i \in Items
    PROVE  /\ db[i] \in ItemRow /\ db[i].flagged \in BOOLEAN /\ db[i].entries \in Nat
           /\ db[i].matches \in Seq(Sessions \X (Booked \cup {None}))
           /\ Rowcount(i) = Len(db[i].matches) /\ Rowcount(i) \in Nat
           /\ DOMAIN db[i].matches = 1..Len(db[i].matches)
           /\ Adjusted(i) = AdjustedIn(db[i].matches) /\ Adjusted(i) \in Nat
           /\ db[i].flagged => Rowcount(i) > 0
<1>1. ItemsTyped /\ ItemsOK /\ db[i] \in ItemRow
  BY DEF BankInv, BankRows, ItemsTyped
<1>2. db[i].matches \in Seq(Sessions \X (Booked \cup {None})) /\ db[i].flagged \in BOOLEAN
      /\ db[i].entries \in Nat
  BY <1>1 DEF ItemRow
<1>3. PICK matches \in Seq(Sessions \X (Booked \cup {None})) : matches = db[i].matches
  BY <1>2
<1>4. Len(matches) \in Nat /\ DOMAIN matches = 1..Len(matches)
  BY SequenceFacts
<1>5. Adjusted(i) = AdjustedIn(db[i].matches) /\ Adjusted(i) \in Nat
  BY <1>1, AdjustingCounted DEF Adjusted, Adjusting, AdjustedIn
<1> QED  BY <1>1, <1>2, <1>3, <1>4, <1>5 DEF Rowcount, ItemsOK

\* The match that is added counts if it is an adjustment's.
LEMMA MatchAdded ==
    ASSUME NEW S, NEW matches \in Seq(S), NEW match
    PROVE  /\ AdjustedIn(Append(matches, match))
                 = AdjustedIn(matches) + (IF match[2] = None THEN 1 ELSE 0)
           /\ AdjustedIn(matches) \in Nat /\ Len(Append(matches, match)) = Len(matches) + 1
<1> DEFINE longer == Append(matches, match)
           adjusting == {n \in DOMAIN matches : matches[n][2] = None}
<1>1. Len(matches) \in Nat /\ DOMAIN matches = 1..Len(matches) /\ IsFiniteSet(DOMAIN matches)
  BY SequenceFacts
<1>2. /\ DOMAIN longer = 1..(Len(matches) + 1) /\ Len(longer) = Len(matches) + 1
      /\ longer[Len(matches) + 1] = match /\ \A n \in 1..Len(matches) : longer[n] = matches[n]
  OBVIOUS
<1>3. IsFiniteSet(adjusting) /\ Len(matches) + 1 \notin adjusting /\ Cardinality(adjusting) \in Nat
  <2>1. adjusting \subseteq 1..Len(matches)
    BY <1>1
  <2> QED  BY <1>1, <2>1, FS_Subset, FS_CardinalityType
<1>4. {n \in DOMAIN longer : longer[n][2] = None}
         = adjusting \cup (IF match[2] = None THEN {Len(matches) + 1} ELSE {})
  <2> HIDE DEF longer
  <2>1. DOMAIN longer = DOMAIN matches \cup {Len(matches) + 1}
    BY <1>1, <1>2
  <2> QED  BY <1>1, <1>2, <2>1
<1>5. Cardinality(adjusting \cup {Len(matches) + 1}) = Cardinality(adjusting) + 1
  BY <1>3, FS_AddElement
<1>6. AdjustedIn(longer) = Cardinality(adjusting) + (IF match[2] = None THEN 1 ELSE 0)
  <2> HIDE DEF adjusting, longer
  <2>1. CASE match[2] = None
    BY <1>4, <1>5, <2>1 DEF AdjustedIn
  <2>2. CASE match[2] # None
    <3>1. {n \in DOMAIN longer : longer[n][2] = None} = adjusting
      BY <1>4, <2>2
    <3>2. Cardinality(adjusting) = Cardinality(adjusting) + 0
      BY <1>3
    <3> QED  BY <2>2, <3>1, <3>2 DEF AdjustedIn
  <2> QED  BY <2>1, <2>2
<1> QED  BY <1>2, <1>3, <1>6 DEF AdjustedIn

\* An item is written: it keeps what it has, and it is flagged when matched.
LEMMA ItemWritten ==
    ASSUME BankInv, NEW i \in Items, NEW row \in ItemRow, db' = [db EXCEPT ![i] = row],
           db[i].flagged => row.flagged, Len(db[i].matches) <= Len(row.matches),
           row.flagged => Len(row.matches) > 0,
           NEW p, NEW q,
           \A j \in Items \ {i} : ~AdjustmentPosted(q, j),
           AdjustedIn(row.matches) + OwesMatch(q, i) + db[i].entries
               <= AdjustedIn(db[i].matches) + OwesMatch(p, i) + row.entries,
           ASSUME tidy', ItemTurn(p)
           PROVE  /\ \A j \in Items \ {i} : ~Matching(p, j) /\ ~Matching(q, j)
                  /\ ~Matching(q, i) =>
                        /\ Len(row.matches) = (IF row.flagged THEN 1 ELSE 0)
                        /\ row.entries <= Len(row.matches)
                  /\ Matching(q, i) =>
                        /\ ~row.flagged /\ Len(row.matches) = AtFlag(q)
                        /\ row.entries <= (IF q.op = "adjust" /\ q.at # "post" THEN 1 ELSE 0)
                  /\ q.op = "autoMatch" =>
                        p.op = "autoMatch" /\ q.seen.items \subseteq p.seen.items \ {i}
    PROVE  /\ KeepsItems(p, q) /\ Rowcount(i)' = Len(row.matches)
           /\ db' = [y \in BankingRows |-> db'[y]]
           /\ \A y \in BankingRows \ (Sessions \cup Items) : db'[y] = db[y]
<1>1. /\ db' = [y \in BankingRows |-> db'[y]]
      /\ db'[i] = row /\ \A y \in BankingRows \ {i} : db'[y] = db[y]
  BY ItemRowsApart, BankRowWritten DEF BankInv
<1>2. /\ \A j \in Items \ {i} : db'[j] = db[j]
      /\ \A s \in Sessions : db'[s] = db[s]
  BY <1>1, BankingAssumption DEF BankingRows
<1>3. ItemsTyped /\ ItemsOK /\ Rowcount(i) = Len(db[i].matches) /\ Rowcount(i) \in Nat
  BY ItemFacts DEF BankInv, BankRows
<1>4. /\ Rowcount(i)' = Len(row.matches) /\ \A j \in Items \ {i} : Rowcount(j)' = Rowcount(j)
      /\ Adjusting(i)' = {n \in DOMAIN row.matches : row.matches[n][2] = None}
      /\ \A j \in Items \ {i} : Adjusting(j)' = Adjusting(j)
  BY <1>1, <1>2 DEF Rowcount, Adjusting
<1>5. ItemsTyped'
  BY <1>1, <1>2, <1>3 DEF ItemsTyped
<1>6. Len(row.matches) \in Nat
  <2>1. row.matches \in Seq(Sessions \X (Booked \cup {None}))
    BY DEF ItemRow
  <2>2. PICK matches \in Seq(Sessions \X (Booked \cup {None})) : matches = row.matches
    BY <2>1
  <2> QED  BY <2>2, SequenceFacts
<1>7. ItemsKept
  <2>1. \A j \in Items : (db[j].flagged => db'[j].flagged) /\ (Rowcount(j) > 0 => Rowcount(j)' > 0)
    <3>1. Rowcount(i) > 0 => Rowcount(i)' > 0
      BY <1>3, <1>4, <1>6
    <3> QED  BY <1>1, <1>2, <1>4, <3>1
  <2> QED  BY <1>2, <2>1 DEF ItemsKept, In
<1>8. ItemsOK'
  <2>1. ApprovedIsMatched'
    BY <1>2, <1>3, <1>7 DEF ItemsOK, ApprovedIsMatched, FourEyes, In, ItemsKept
  <2>2. \A j \in Items : db'[j].flagged => Rowcount(j)' > 0
    BY <1>1, <1>2, <1>3, <1>4 DEF ItemsOK
  <2> QED  BY <2>1, <2>2 DEF ItemsOK
<1>9. MatchesBacked(p, q)
  <2> SUFFICES ASSUME NEW j \in Items
               PROVE  Adjusted(j)' + OwesMatch(q, j) + db[j].entries
                          <= Adjusted(j) + OwesMatch(p, j) + db'[j].entries
    BY DEF MatchesBacked
  <2>1. CASE j = i
    <3>1. Adjusted(i)' = AdjustedIn(row.matches) /\ Adjusted(i) = AdjustedIn(db[i].matches)
      BY <1>4, ItemFacts DEF Adjusted, AdjustedIn
    <3>2. db'[i].entries = row.entries
      BY <1>1
    <3> QED  BY <2>1, <3>1, <3>2
  <2>2. CASE j # i
    <3>1. Adjusted(j)' = Adjusted(j) /\ Adjusted(j) \in Nat /\ db'[j].entries = db[j].entries
          /\ db[j].entries \in Nat
      BY <1>2, <1>4, <2>2, ItemFacts DEF Adjusted
    <3>2. OwesMatch(q, j) = 0 /\ OwesMatch(p, j) \in {0, 1}
      BY <2>2 DEF OwesMatch
    <3> QED  BY <3>1, <3>2
  <2> QED  BY <2>1, <2>2
<1>10. ASSUME tidy', ItemTurn(p) PROVE ItemTurn(q)'
  <2>1. ASSUME NEW j \in Items
        PROVE  /\ ~Matching(q, j) =>
                     /\ Rowcount(j)' = (IF db'[j].flagged THEN 1 ELSE 0)
                     /\ db'[j].entries <= Rowcount(j)'
               /\ Matching(q, j) =>
                     /\ ~db'[j].flagged /\ Rowcount(j)' = AtFlag(q)
                     /\ db'[j].entries <= (IF q.op = "adjust" /\ q.at # "post" THEN 1 ELSE 0)
               /\ q.op = "autoMatch" /\ j \in q.seen.items => ~db'[j].flagged /\ ~Matching(q, j)
    <3>1. CASE j = i
      BY <1>1, <1>4, <1>10, <3>1
    <3>2. CASE j # i
      <4>1. ~Matching(p, j) /\ ~Matching(q, j) /\ db'[j] = db[j] /\ Rowcount(j)' = Rowcount(j)
        BY <1>2, <1>4, <1>10, <3>2
      <4>2. /\ Rowcount(j) = (IF db[j].flagged THEN 1 ELSE 0) /\ db[j].entries <= Rowcount(j)
            /\ p.op = "autoMatch" /\ j \in p.seen.items => ~db[j].flagged
        BY <1>10, <4>1 DEF ItemTurn
      <4>3. q.op = "autoMatch" /\ j \in q.seen.items => ~db[j].flagged
        BY <1>10, <4>2
      <4> QED  BY <4>1, <4>2, <4>3
    <3> QED  BY <3>1, <3>2
  <2> QED  BY <2>1 DEF ItemTurn, Matching, AtFlag
<1>11. KeepsItems(p, q)
  BY <1>5, <1>7, <1>8, <1>9, <1>10 DEF KeepsItems
<1> QED  BY <1>1, <1>4, <1>11

\* A match is inserted, which leaves the item as it is flagged.
LEMMA MatchInserted ==
    ASSUME BankInv, NEW i \in Items, NEW s \in Sessions, NEW b \in Booked \cup {None},
           InsertMatch(i, s, b), NEW p, NEW q,
           Matching(q, i), q.at = "flag", \A j \in Items \ {i} : ~Matching(q, j),
           q.op = "autoMatch" => p.op = "autoMatch" /\ q.seen.items \subseteq p.seen.items \ {i},
           b = None => AdjustmentPosted(p, i),
           ASSUME tidy', ItemTurn(p)
           PROVE  /\ \A j \in Items \ {i} : ~Matching(p, j)
                  /\ ~db[i].flagged /\ Rowcount(i) = 0
                  /\ db[i].entries <= (IF q.op = "adjust" THEN 1 ELSE 0)
    PROVE  /\ KeepsItems(p, q) /\ Rowcount(i)' > 0
           /\ db' = [y \in BankingRows |-> db'[y]]
           /\ \A y \in BankingRows \ (Sessions \cup Items) : db'[y] = db[y]
<1>1. PICK matches \in Seq(Sessions \X (Booked \cup {None})) : matches = db[i].matches
  BY ItemFacts
<1>2. PICK longer : longer = Append(matches, <<s, b>>)
  OBVIOUS
<1>3. PICK row : row = [db[i] EXCEPT !.matches = longer]
  OBVIOUS
<1>4. db' = [db EXCEPT ![i] = row]
  BY <1>1, <1>2, <1>3 DEF InsertMatch
<1>5. /\ Len(matches) \in Nat /\ Len(longer) = Len(matches) + 1
      /\ longer \in Seq(Sessions \X (Booked \cup {None}))
      /\ AdjustedIn(matches) \in Nat
      /\ AdjustedIn(longer) = AdjustedIn(matches) + (IF b = None THEN 1 ELSE 0)
  <2>1. <<s, b>> \in Sessions \X (Booked \cup {None}) /\ <<s, b>>[2] = b
    OBVIOUS
  <2> QED  BY <1>2, <2>1, MatchAdded
<1>6. /\ db[i] \in ItemRow /\ Rowcount(i) = Len(matches) /\ db[i].entries \in Nat
  BY <1>1, ItemFacts
<1>7. /\ row \in ItemRow /\ row.matches = longer /\ row.flagged = db[i].flagged
      /\ row.entries = db[i].entries
  BY <1>3, <1>5, <1>6 DEF ItemRow
<1>8. /\ db[i].flagged => row.flagged
      /\ Len(db[i].matches) <= Len(row.matches)
      /\ row.flagged => Len(row.matches) > 0
      /\ Len(row.matches) > 0
  BY <1>1, <1>5, <1>7
<1>9. \A j \in Items : ~AdjustmentPosted(q, j)
  BY DEF AdjustmentPosted
<1>10. AdjustedIn(row.matches) + OwesMatch(q, i) + db[i].entries
           <= AdjustedIn(db[i].matches) + OwesMatch(p, i) + row.entries
  <2>1. OwesMatch(q, i) = 0 /\ OwesMatch(p, i) = (IF AdjustmentPosted(p, i) THEN 1 ELSE 0)
    BY <1>9 DEF OwesMatch
  <2>2. AdjustedIn(longer) <= AdjustedIn(matches) + OwesMatch(p, i)
    BY <1>5, <2>1
  <2>3. AdjustedIn(longer) \in Nat /\ OwesMatch(p, i) \in Nat
    BY <1>5, <2>1
  <2> QED  BY <1>1, <1>5, <1>6, <1>7, <2>1, <2>2, <2>3
<1>11. ASSUME tidy', ItemTurn(p)
       PROVE  /\ \A j \in Items \ {i} : ~Matching(p, j) /\ ~Matching(q, j)
              /\ ~Matching(q, i) =>
                    /\ Len(row.matches) = (IF row.flagged THEN 1 ELSE 0)
                    /\ row.entries <= Len(row.matches)
              /\ Matching(q, i) =>
                    /\ ~row.flagged /\ Len(row.matches) = AtFlag(q)
                    /\ row.entries <= (IF q.op = "adjust" /\ q.at # "post" THEN 1 ELSE 0)
              /\ q.op = "autoMatch" =>
                    p.op = "autoMatch" /\ q.seen.items \subseteq p.seen.items \ {i}
  <2>1. Len(row.matches) = AtFlag(q)
    BY <1>5, <1>6, <1>7, <1>11 DEF AtFlag
  <2> QED  BY <1>7, <1>11, <2>1
<1>12. /\ KeepsItems(p, q) /\ Rowcount(i)' = Len(row.matches)
       /\ db' = [y \in BankingRows |-> db'[y]]
       /\ \A y \in BankingRows \ (Sessions \cup Items) : db'[y] = db[y]
  BY <1>4, <1>7, <1>8, <1>9, <1>10, <1>11, ItemWritten
<1> QED  BY <1>8, <1>12

\* A matched item is flagged, and the request is done with it.
LEMMA ItemFlagged ==
    ASSUME BankInv, NEW i \in Items, Flag(i), Rowcount(i) > 0, NEW p, NEW q,
           Matching(p, i), p.at = "flag", \A j \in Items \ {i} : ~Matching(p, j),
           \A j \in Items : ~Matching(q, j) /\ ~AdjustmentPosted(q, j),
           q.op = "autoMatch" => p.op = "autoMatch" /\ q.seen.items = p.seen.items
    PROVE  /\ KeepsItems(p, q)
           /\ db' = [y \in BankingRows |-> db'[y]]
           /\ \A y \in BankingRows \ (Sessions \cup Items) : db'[y] = db[y]
<1>1. PICK row : row = [db[i] EXCEPT !.flagged = TRUE]
  OBVIOUS
<1>2. db' = [db EXCEPT ![i] = row]
  BY <1>1 DEF Flag
<1>3. /\ db[i] \in ItemRow /\ Rowcount(i) = Len(db[i].matches) /\ Rowcount(i) \in Nat
      /\ db[i].entries \in Nat /\ AdjustedIn(db[i].matches) \in Nat
  BY ItemFacts
<1>4. /\ row \in ItemRow /\ row.flagged = TRUE /\ row.matches = db[i].matches
      /\ row.entries = db[i].entries
  BY <1>1, <1>3 DEF ItemRow
<1>5. AdjustedIn(row.matches) + OwesMatch(q, i) + db[i].entries
          <= AdjustedIn(db[i].matches) + OwesMatch(p, i) + row.entries
  <2>1. OwesMatch(q, i) = 0 /\ OwesMatch(p, i) \in {0, 1}
    BY DEF OwesMatch
  <2> QED  BY <1>3, <1>4, <2>1
<1>6. ASSUME tidy', ItemTurn(p)
      PROVE  /\ \A j \in Items \ {i} : ~Matching(p, j) /\ ~Matching(q, j)
             /\ ~Matching(q, i) =>
                   /\ Len(row.matches) = (IF row.flagged THEN 1 ELSE 0)
                   /\ row.entries <= Len(row.matches)
             /\ Matching(q, i) =>
                   /\ ~row.flagged /\ Len(row.matches) = AtFlag(q)
                   /\ row.entries <= (IF q.op = "adjust" /\ q.at # "post" THEN 1 ELSE 0)
             /\ q.op = "autoMatch" =>
                   p.op = "autoMatch" /\ q.seen.items \subseteq p.seen.items \ {i}
  <2>1. /\ Rowcount(i) = 1 /\ db[i].entries <= 1
        /\ p.op = "autoMatch" => i \notin p.seen.items
    <3>1. /\ Rowcount(i) = AtFlag(p)
          /\ db[i].entries <= (IF p.op = "adjust" /\ p.at # "post" THEN 1 ELSE 0)
          /\ p.op = "autoMatch" /\ i \in p.seen.items => ~Matching(p, i)
      BY <1>6 DEF ItemTurn
    <3> QED  BY <1>3, <3>1 DEF AtFlag
  <2> QED  BY <1>3, <1>4, <2>1
<1>7. /\ db[i].flagged => row.flagged
      /\ Len(db[i].matches) <= Len(row.matches)
      /\ row.flagged => Len(row.matches) > 0
  BY <1>3, <1>4
<1> QED  BY <1>2, <1>4, <1>5, <1>6, <1>7, ItemWritten

\* A session is written, which keeps its maker, and it is approved when every
\* item is flagged.
LEMMA SessionWritten ==
    ASSUME BankInv, NEW s \in Sessions, NEW row \in SessionRow, db' = [db EXCEPT ![s] = row],
           row.status # "ABSENT", db[s].status # "ABSENT" => row.maker = db[s].maker,
           row.status = "APPROVED" =>
               row.checker \notin {None, row.maker} /\ \A i \in Items : db[i].flagged,
           NEW p, NEW q, \A i \in Items : ~AdjustmentPosted(q, i), ItemTurn(p) => ItemTurn(q)
    PROVE  /\ KeepsItems(p, q) /\ db' = [y \in BankingRows |-> db'[y]]
           /\ \A y \in BankingRows \ (Sessions \cup Items) : db'[y] = db[y]
<1>1. /\ db' = [y \in BankingRows |-> db'[y]]
      /\ db'[s] = row /\ \A y \in BankingRows \ {s} : db'[y] = db[y]
  BY ItemRowsApart, BankRowWritten DEF BankInv
<1>2. /\ \A i \in Items : db'[i] = db[i] /\ Rowcount(i)' = Rowcount(i) /\ Adjusting(i)' = Adjusting(i)
      /\ \A r \in Sessions \ {s} : db'[r] = db[r]
  <2>1. \A i \in Items : db'[i] = db[i]
    BY <1>1, BankingAssumption DEF BankingRows
  <2> QED  BY <1>1, <2>1 DEF BankingRows, Rowcount, Adjusting
<1>3. ItemsTyped /\ ItemsOK
  BY DEF BankInv, BankRows
<1>4. ItemsTyped' /\ ItemsKept
  BY <1>1, <1>2, <1>3 DEF ItemsTyped, ItemsKept, In
<1>5. ItemsOK'
  <2>1. \A i \in Items : db[i].flagged => Rowcount(i) > 0
    BY <1>3 DEF ItemsOK
  <2>2. ASSUME NEW r \in Sessions, db'[r].status = "APPROVED"
        PROVE  db'[r].checker \notin {None, db'[r].maker} /\ \A i \in Items : db[i].flagged
    BY <1>1, <1>2, <1>3, <2>2 DEF ItemsOK, ApprovedIsMatched, FourEyes, In
  <2> QED  BY <1>2, <2>1, <2>2 DEF ItemsOK, ApprovedIsMatched, FourEyes, In
<1>6. MatchesBacked(p, q)
  <2> SUFFICES ASSUME NEW i \in Items
               PROVE  Adjusted(i)' + OwesMatch(q, i) + db[i].entries
                          <= Adjusted(i) + OwesMatch(p, i) + db'[i].entries
    BY DEF MatchesBacked
  <2>1. OwesMatch(q, i) = 0 /\ OwesMatch(p, i) \in {0, 1}
    BY DEF OwesMatch
  <2>2. Adjusted(i)' = Adjusted(i) /\ Adjusted(i) \in Nat /\ db[i].entries \in Nat
    BY <1>2, ItemFacts DEF Adjusted
  <2> QED  BY <1>2, <2>1, <2>2
<1>7. ItemTurn(q) => ItemTurn(q)'
  BY <1>2 DEF ItemTurn, Matching
<1>8. KeepsItems(p, q)
  BY <1>4, <1>5, <1>6, <1>7 DEF KeepsItems
<1> QED  BY <1>1, <1>8

LEMMA CreateSessionKeeps ==
    ASSUME BankInv, NEW s \in Sessions, NEW u \in Users, CreateSession(s, u) PROVE BankInv'
<1>1. PICK row : row = [db[s] EXCEPT !.status = "DRAFT", !.maker = u]
  OBVIOUS
<1>2. /\ db' = [db EXCEPT ![s] = row] /\ UNCHANGED call /\ tidy' = (tidy /\ Alone)
      /\ db[s].status = "ABSENT"
  BY <1>1 DEF CreateSession, Statement, In
<1>3. db[s] \in SessionRow
  BY DEF BankInv, BankRows, ItemsTyped
<1>4. row \in SessionRow /\ row.status = "DRAFT"
  BY <1>1, <1>3 DEF SessionRow
<1>5. /\ KeepsItems(Idle, Idle) /\ db' = [y \in BankingRows |-> db'[y]]
      /\ \A y \in BankingRows \ (Sessions \cup Items) : db'[y] = db[y]
  BY <1>2, <1>4, SessionWritten, IdleIsIdle
<1>6. BankKeeps(Idle, Idle)
  BY <1>5, IdleIsIdle, ItemKeepsOthers
<1> QED  BY <1>2, <1>5, <1>6, BankStates

LEMMA ApproveSessionKeeps ==
    ASSUME BankInv, NEW c \in Calls, NEW s \in Sessions, NEW u \in Users, ApproveSession(c, s, u)
    PROVE  BankInv'
<1>1. CASE MayApproveSession(s, u) /\ Enter(c, "approveSession", "write", s, u, None)
  <2>1. PICK q : q = [op |-> "approveSession", at |-> "write", row |-> s, arg |-> u, seen |-> None]
    OBVIOUS
  <2>2. ItemRequest(q)
    BY <1>1, <2>1 DEF ItemRequest, MayApproveSession, In
  <2>3. ItemTurn(Idle) => ItemTurn(q)
    BY <2>1, IdleIsIdle DEF ItemTurn, Matching
  <2> QED  BY <1>1, <2>1, <2>2, <2>3, ItemOpsApart, ItemEnters
<1>2. CASE At(c, "approveSession", "write", s, u) /\ ApprovedBy(u, s, "APPROVED") /\ Leave(c)
  <2>1. PICK p : p = call[c] /\ p.op = "approveSession" /\ p.row = s /\ p.arg = u
    BY <1>2 DEF At
  <2>2. /\ db[s].status # "ABSENT" /\ u # db[s].maker /\ \A i \in Items : db[i].flagged
        /\ db[s] \in SessionRow /\ u # None
    BY <2>1, BankingAssumption DEF BankInv, BankRequest, ItemRequest, In, BankRows, ItemsTyped
  <2>3. PICK row : row = [db[s] EXCEPT !.status = "APPROVED", !.checker = u]
    OBVIOUS
  <2>4. db' = [db EXCEPT ![s] = row]
    BY <1>2, <2>3 DEF ApprovedBy
  <2>5. /\ row \in SessionRow /\ row.status = "APPROVED" /\ row.maker = db[s].maker
        /\ row.checker = u
    BY <2>2, <2>3 DEF SessionRow
  <2>6. \A i \in Items : ~Matching(p, i) /\ ~Matching(Idle, i) /\ ~AdjustmentPosted(Idle, i)
    BY <2>1, IdleIsIdle DEF Matching
  <2>7. /\ KeepsItems(p, Idle) /\ db' = [y \in BankingRows |-> db'[y]]
        /\ \A y \in BankingRows \ (Sessions \cup Items) : db'[y] = db[y]
    <3>1. ItemTurn(p) => ItemTurn(Idle)
      BY <2>6, IdleIsIdle DEF ItemTurn
    <3> QED  BY <2>2, <2>4, <2>5, <2>6, <3>1, SessionWritten
  <2> QED  BY <1>2, <2>1, <2>7, ItemOpsApart, ItemLeaves
<1> QED  BY <1>1, <1>2 DEF ApproveSession, Handler

LEMMA ManualMatchKeeps ==
    ASSUME BankInv, NEW c \in Calls, NEW s \in Sessions, NEW i \in Items, NEW b \in Booked,
           ManualMatch(c, s, i, b)
    PROVE  BankInv'
<1>1. CASE MayMatch(s, i) /\ Enter(c, "manualMatch", "insert", s, <<i, b>>, None)
  <2>1. PICK q : q = [op |-> "manualMatch", at |-> "insert", row |-> s, arg |-> <<i, b>>, seen |-> None]
    OBVIOUS
  <2>2. ItemRequest(q)
    BY <2>1 DEF ItemRequest
  <2>3. ItemTurn(Idle) => ItemTurn(q)
    BY <1>1, <2>1, IdleIsIdle, ItemFacts DEF ItemTurn, Matching, MayMatch, AtFlag
  <2> QED  BY <1>1, <2>1, <2>2, <2>3, ItemOpsApart, ItemEnters
<1>2. CASE At(c, "manualMatch", "insert", s, <<i, b>>) /\ InsertMatch(i, s, b) /\ Goto(c, "flag")
  <2>1. PICK p : p = call[c] /\ p.op = "manualMatch" /\ p.at = "insert" /\ p.row = s /\ p.arg = <<i, b>>
    BY <1>2 DEF At
  <2>2. PICK q : q = [p EXCEPT !.at = "flag"]
    OBVIOUS
  <2>3. /\ call' = [call EXCEPT ![c] = q] /\ UNCHANGED tidy /\ DOMAIN p = Fields
    BY <1>2, <2>1, <2>2 DEF Goto, BankInv, BankTyped
  <2>4. /\ DOMAIN q = Fields /\ q.op = "manualMatch" /\ q.at = "flag" /\ q.row = s /\ q.arg = <<i, b>>
    BY <2>1, <2>2, <2>3 DEF Fields
  <2>5. /\ \A j \in Items : (Matching(q, j) <=> j = i) /\ (Matching(p, j) <=> j = i)
    BY <2>1, <2>4 DEF Matching
  <2>6. ASSUME tidy', ItemTurn(p)
        PROVE  /\ \A j \in Items \ {i} : ~Matching(p, j)
               /\ ~db[i].flagged /\ Rowcount(i) = 0
               /\ db[i].entries <= (IF q.op = "adjust" THEN 1 ELSE 0)
    BY <2>1, <2>4, <2>5, <2>6 DEF ItemTurn, AtFlag
  <2>7. /\ KeepsItems(p, q) /\ Rowcount(i)' > 0
        /\ db' = [y \in BankingRows |-> db'[y]]
        /\ \A y \in BankingRows \ (Sessions \cup Items) : db'[y] = db[y]
    <3>1. /\ b # None /\ b \in Booked \cup {None} /\ q.op # "autoMatch" /\ Matching(q, i)
          /\ \A j \in Items \ {i} : ~Matching(q, j)
      BY <2>4, <2>5, BankingAssumption
    <3> QED  BY <1>2, <2>4, <2>5, <2>6, <3>1, MatchInserted
  <2>8. ItemRequest(q)'
    BY <2>4, <2>7 DEF ItemRequest
  <2> QED  BY <2>1, <2>3, <2>4, <2>7, <2>8, ItemOpsApart, ItemGoesOn
<1>3. CASE At(c, "manualMatch", "flag", s, <<i, b>>) /\ Flag(i) /\ Leave(c)
  <2>1. PICK p : p = call[c] /\ p.op = "manualMatch" /\ p.at = "flag" /\ p.row = s /\ p.arg = <<i, b>>
    BY <1>3 DEF At
  <2>2. Rowcount(i) > 0
    BY <2>1 DEF BankInv, BankRequest, ItemRequest
  <2>3. /\ \A j \in Items :
              (Matching(p, j) <=> j = i) /\ ~Matching(Idle, j) /\ ~AdjustmentPosted(Idle, j)
        /\ Idle.op # "autoMatch"
    BY <2>1, IdleIsIdle DEF Matching
  <2>4. /\ KeepsItems(p, Idle) /\ db' = [y \in BankingRows |-> db'[y]]
        /\ \A y \in BankingRows \ (Sessions \cup Items) : db'[y] = db[y]
    BY <1>3, <2>1, <2>2, <2>3, ItemFlagged
  <2> QED  BY <1>3, <2>1, <2>4, ItemOpsApart, ItemLeaves
<1> QED  BY <1>1, <1>2, <1>3 DEF ManualMatch

LEMMA AdjustmentKeeps ==
    ASSUME BankInv, NEW c \in Calls, NEW s \in Sessions, NEW i \in Items, RecordAdjustment(c, s, i)
    PROVE  BankInv'
<1>1. CASE MayMatch(s, i) /\ Enter(c, "adjust", "post", s, <<i, None>>, None)
  <2>1. PICK q : q = [op |-> "adjust", at |-> "post", row |-> s, arg |-> <<i, None>>, seen |-> None]
    OBVIOUS
  <2>2. ItemRequest(q)
    BY <2>1 DEF ItemRequest
  <2>3. ItemTurn(Idle) => ItemTurn(q)
    BY <1>1, <2>1, IdleIsIdle, ItemFacts DEF ItemTurn, Matching, MayMatch, AtFlag
  <2> QED  BY <1>1, <2>1, <2>2, <2>3, ItemOpsApart, ItemEnters
<1>2. CASE At(c, "adjust", "post", s, <<i, None>>) /\ PostAdjustment(i) /\ Goto(c, "insert")
  <2>1. PICK p : p = call[c] /\ p.op = "adjust" /\ p.at = "post" /\ p.row = s /\ p.arg = <<i, None>>
    BY <1>2 DEF At
  <2>2. PICK q : q = [p EXCEPT !.at = "insert"]
    OBVIOUS
  <2>3. /\ call' = [call EXCEPT ![c] = q] /\ UNCHANGED tidy /\ DOMAIN p = Fields
    BY <1>2, <2>1, <2>2 DEF Goto, BankInv, BankTyped
  <2>4. /\ DOMAIN q = Fields /\ q.op = "adjust" /\ q.at = "insert" /\ q.row = s /\ q.arg = <<i, None>>
    BY <2>1, <2>2, <2>3 DEF Fields
  <2>5. /\ \A j \in Items : (Matching(q, j) <=> j = i) /\ (Matching(p, j) <=> j = i)
        /\ \A j \in Items : (AdjustmentPosted(q, j) <=> j = i) /\ ~AdjustmentPosted(p, j)
    BY <2>1, <2>4 DEF Matching, AdjustmentPosted
  <2>6. PICK entries \in Nat : entries = db[i].entries + 1
    BY ItemFacts
  <2>7. PICK row : row = [db[i] EXCEPT !.entries = entries]
    OBVIOUS
  <2>8. db' = [db EXCEPT ![i] = row]
    BY <1>2, <2>6, <2>7 DEF PostAdjustment, PostEntry
  <2>9. /\ db[i] \in ItemRow /\ Rowcount(i) = Len(db[i].matches) /\ Rowcount(i) \in Nat
        /\ db[i].entries \in Nat /\ AdjustedIn(db[i].matches) \in Nat
        /\ db[i].flagged => Rowcount(i) > 0
    BY ItemFacts
  <2>10. /\ row \in ItemRow /\ row.flagged = db[i].flagged /\ row.matches = db[i].matches
         /\ row.entries = entries
    BY <2>7, <2>9 DEF ItemRow
  <2>11. AdjustedIn(row.matches) + OwesMatch(q, i) + db[i].entries
             <= AdjustedIn(db[i].matches) + OwesMatch(p, i) + row.entries
    <3>1. OwesMatch(q, i) = 1 /\ OwesMatch(p, i) = 0
      BY <2>5 DEF OwesMatch
    <3> QED  BY <2>6, <2>9, <2>10, <3>1
  <2>12. ASSUME tidy', ItemTurn(p)
         PROVE  /\ \A j \in Items \ {i} : ~Matching(p, j) /\ ~Matching(q, j)
                /\ ~Matching(q, i) =>
                      /\ Len(row.matches) = (IF row.flagged THEN 1 ELSE 0)
                      /\ row.entries <= Len(row.matches)
                /\ Matching(q, i) =>
                      /\ ~row.flagged /\ Len(row.matches) = AtFlag(q)
                      /\ row.entries <= (IF q.op = "adjust" /\ q.at # "post" THEN 1 ELSE 0)
                /\ q.op = "autoMatch" =>
                      p.op = "autoMatch" /\ q.seen.items \subseteq p.seen.items \ {i}
    <3>1. ~db[i].flagged /\ Rowcount(i) = AtFlag(p) /\ db[i].entries <= 0
      BY <2>1, <2>5, <2>12 DEF ItemTurn
    <3>2. AtFlag(p) = 0 /\ AtFlag(q) = 0
      BY <2>1, <2>4 DEF AtFlag
    <3>3. row.entries <= 1
      BY <2>6, <2>9, <2>10, <3>1
    <3> QED  BY <2>4, <2>5, <2>9, <2>10, <3>1, <3>2, <3>3
  <2>13. /\ db[i].flagged => row.flagged
         /\ Len(db[i].matches) <= Len(row.matches)
         /\ row.flagged => Len(row.matches) > 0
         /\ \A j \in Items \ {i} : ~AdjustmentPosted(q, j)
    BY <2>5, <2>9, <2>10
  <2>14. /\ KeepsItems(p, q) /\ db' = [y \in BankingRows |-> db'[y]]
         /\ \A y \in BankingRows \ (Sessions \cup Items) : db'[y] = db[y]
    BY <2>8, <2>10, <2>11, <2>12, <2>13, ItemWritten
  <2>15. ItemRequest(q)'
    BY <2>4 DEF ItemRequest
  <2> QED  BY <2>1, <2>3, <2>4, <2>14, <2>15, ItemOpsApart, ItemGoesOn
<1>3. CASE At(c, "adjust", "insert", s, <<i, None>>) /\ InsertMatch(i, s, None) /\ Goto(c, "flag")
  <2>1. PICK p : p = call[c] /\ p.op = "adjust" /\ p.at = "insert" /\ p.row = s /\ p.arg = <<i, None>>
    BY <1>3 DEF At
  <2>2. PICK q : q = [p EXCEPT !.at = "flag"]
    OBVIOUS
  <2>3. /\ call' = [call EXCEPT ![c] = q] /\ UNCHANGED tidy /\ DOMAIN p = Fields
    BY <1>3, <2>1, <2>2 DEF Goto, BankInv, BankTyped
  <2>4. /\ DOMAIN q = Fields /\ q.op = "adjust" /\ q.at = "flag" /\ q.row = s /\ q.arg = <<i, None>>
    BY <2>1, <2>2, <2>3 DEF Fields
  <2>5. /\ \A j \in Items : (Matching(q, j) <=> j = i) /\ (Matching(p, j) <=> j = i)
        /\ AdjustmentPosted(p, i)
    BY <2>1, <2>4 DEF Matching, AdjustmentPosted
  <2>6. ASSUME tidy', ItemTurn(p)
        PROVE  /\ \A j \in Items \ {i} : ~Matching(p, j)
               /\ ~db[i].flagged /\ Rowcount(i) = 0
               /\ db[i].entries <= (IF q.op = "adjust" THEN 1 ELSE 0)
    BY <2>1, <2>4, <2>5, <2>6 DEF ItemTurn, AtFlag
  <2>7. /\ KeepsItems(p, q) /\ Rowcount(i)' > 0
        /\ db' = [y \in BankingRows |-> db'[y]]
        /\ \A y \in BankingRows \ (Sessions \cup Items) : db'[y] = db[y]
    <3>1. None \in Booked \cup {None} /\ q.op # "autoMatch" /\ Matching(q, i)
          /\ \A j \in Items \ {i} : ~Matching(q, j)
      BY <2>4, <2>5
    <3> QED  BY <1>3, <2>4, <2>5, <2>6, <3>1, MatchInserted
  <2>8. ItemRequest(q)'
    BY <2>4, <2>7 DEF ItemRequest
  <2> QED  BY <2>1, <2>3, <2>4, <2>7, <2>8, ItemOpsApart, ItemGoesOn
<1>4. CASE At(c, "adjust", "flag", s, <<i, None>>) /\ Flag(i) /\ Leave(c)
  <2>1. PICK p : p = call[c] /\ p.op = "adjust" /\ p.at = "flag" /\ p.row = s /\ p.arg = <<i, None>>
    BY <1>4 DEF At
  <2>2. Rowcount(i) > 0
    BY <2>1 DEF BankInv, BankRequest, ItemRequest
  <2>3. /\ \A j \in Items :
              (Matching(p, j) <=> j = i) /\ ~Matching(Idle, j) /\ ~AdjustmentPosted(Idle, j)
        /\ Idle.op # "autoMatch"
    BY <2>1, IdleIsIdle DEF Matching
  <2>4. /\ KeepsItems(p, Idle) /\ db' = [y \in BankingRows |-> db'[y]]
        /\ \A y \in BankingRows \ (Sessions \cup Items) : db'[y] = db[y]
    BY <1>4, <2>1, <2>2, <2>3, ItemFlagged
  <2> QED  BY <1>4, <2>1, <2>4, ItemOpsApart, ItemLeaves
<1> QED  BY <1>1, <1>2, <1>3, <1>4 DEF RecordAdjustment

\* What the request has read: the items that are left, and the journal's lines.
Left == [items : SUBSET Items, free : SUBSET Booked, item : Items \cup {None}]

LEMMA AutoMatchKeeps ==
    ASSUME BankInv, NEW c \in Calls, NEW s \in Sessions, AutoMatch(c, s) PROVE BankInv'
<1>1. ASSUME NEW left,
             left = [items |-> {i \in Items : ~db[i].flagged}, free |-> Booked \ MatchedIn(s),
                     item |-> None],
             Enter(c, "autoMatch", "next", s, None, left)
      PROVE  BankInv'
  <2>1. PICK q : q = [op |-> "autoMatch", at |-> "next", row |-> s, arg |-> None, seen |-> left]
    OBVIOUS
  <2>2. left \in Left /\ \A i \in left.items : ~db[i].flagged
    BY <1>1 DEF Left
  <2>3. ItemRequest(q)
    BY <2>1, <2>2 DEF ItemRequest, Left
  <2>4. ItemTurn(Idle) => ItemTurn(q)
    BY <2>1, <2>2, IdleIsIdle DEF ItemTurn, Matching
  <2> QED  BY <1>1, <2>1, <2>3, <2>4, ItemOpsApart, ItemEnters
<1>2. ASSUME At(c, "autoMatch", "next", s, None), NEW i \in call[c].seen.items,
             NEW b \in call[c].seen.free, InsertMatch(i, s, b),
             Keep(c, "flag", [items |-> call[c].seen.items \ {i},
                              free |-> call[c].seen.free \ {b}, item |-> i])
      PROVE  BankInv'
  <2>1. PICK p : p = call[c] /\ p.op = "autoMatch" /\ p.at = "next" /\ p.row = s /\ DOMAIN p = Fields
    BY <1>2 DEF At, BankInv, BankTyped
  <2>2. PICK left : left = p.seen /\ left \in Left
    BY <2>1 DEF BankInv, BankRequest, ItemRequest, Left
  <2>3. i \in Items /\ i \in left.items /\ left.items \subseteq Items /\ left.free \subseteq Booked
    BY <1>2, <2>1, <2>2 DEF Left
  <2>4. PICK next : next = [items |-> left.items \ {i}, free |-> left.free \ {b}, item |-> i]
    OBVIOUS
  <2>5. PICK q : q = [p EXCEPT !.at = "flag", !.seen = next]
    OBVIOUS
  <2>6. call' = [call EXCEPT ![c] = q] /\ UNCHANGED tidy
    BY <1>2, <2>1, <2>2, <2>4, <2>5 DEF Keep
  <2>7. /\ DOMAIN q = Fields /\ q.op = "autoMatch" /\ q.at = "flag" /\ q.row = s /\ q.seen = next
        /\ next \in Left /\ next.item = i /\ next.items = left.items \ {i}
    BY <2>1, <2>3, <2>4, <2>5 DEF Fields, Left
  <2>8. \A j \in Items : (Matching(q, j) <=> j = i) /\ ~Matching(p, j)
    BY <2>1, <2>7 DEF Matching
  <2>9. ASSUME tidy', ItemTurn(p)
        PROVE  /\ \A j \in Items \ {i} : ~Matching(p, j)
               /\ ~db[i].flagged /\ Rowcount(i) = 0
               /\ db[i].entries <= (IF q.op = "adjust" THEN 1 ELSE 0)
    <3>1. /\ Rowcount(i) = (IF db[i].flagged THEN 1 ELSE 0) /\ db[i].entries <= Rowcount(i)
          /\ ~db[i].flagged
      BY <2>1, <2>2, <2>3, <2>8, <2>9 DEF ItemTurn
    <3> QED  BY <2>7, <2>8, <3>1
  <2>10. /\ KeepsItems(p, q) /\ Rowcount(i)' > 0
         /\ db' = [y \in BankingRows |-> db'[y]]
         /\ \A y \in BankingRows \ (Sessions \cup Items) : db'[y] = db[y]
    <3>1. /\ b # None /\ b \in Booked \cup {None} /\ Matching(q, i)
          /\ \A j \in Items \ {i} : ~Matching(q, j)
          /\ p.op = "autoMatch" /\ q.seen.items \subseteq p.seen.items \ {i}
          /\ i \in Items /\ q.at = "flag" /\ InsertMatch(i, s, b)
      BY <1>2, <2>1, <2>2, <2>3, <2>7, <2>8, BankingAssumption
    <3> QED  BY <2>9, <3>1, MatchInserted
  <2>11. ItemRequest(q)'
    BY <2>3, <2>7, <2>10 DEF ItemRequest, Left
  <2> QED  BY <2>1, <2>6, <2>7, <2>10, <2>11, ItemOpsApart, ItemGoesOn
<1>3. ASSUME At(c, "autoMatch", "next", s, None), NEW i \in call[c].seen.items, UNCHANGED db,
             Keep(c, "next", [call[c].seen EXCEPT !.items = @ \ {i}])
      PROVE  BankInv'
  <2>1. PICK p : p = call[c] /\ p.op = "autoMatch" /\ p.at = "next" /\ p.row = s /\ DOMAIN p = Fields
    BY <1>3 DEF At, BankInv, BankTyped
  <2>2. PICK left : left = p.seen /\ left \in Left
    BY <2>1 DEF BankInv, BankRequest, ItemRequest, Left
  <2>3. i \in Items /\ i \in left.items /\ left.items \subseteq Items /\ left.free \subseteq Booked
    BY <1>3, <2>1, <2>2 DEF Left
  <2>4. PICK next : next = [left EXCEPT !.items = @ \ {i}]
    OBVIOUS
  <2>5. PICK q : q = [p EXCEPT !.at = "next", !.seen = next]
    OBVIOUS
  <2>6. call' = [call EXCEPT ![c] = q] /\ tidy' = tidy /\ tidy' \in BOOLEAN
    BY <1>3, <2>1, <2>2, <2>4, <2>5 DEF Keep, BankInv, BankTyped
  <2>7. /\ DOMAIN q = Fields /\ q.op = "autoMatch" /\ q.at = "next" /\ q.row = s /\ q.seen = next
        /\ next \in Left /\ next.items \subseteq left.items
    BY <2>1, <2>2, <2>3, <2>4, <2>5 DEF Fields, Left
  <2>8. \A j \in Items : ~Matching(q, j) /\ ~Matching(p, j) /\ ~AdjustmentPosted(q, j)
    BY <2>1, <2>7 DEF Matching, AdjustmentPosted
  <2>9. BankRequest(q)
    <3>1. ItemRequest(q)
      BY <2>7 DEF ItemRequest, Left
    <3> QED  BY <2>7, <3>1, ItemOpsApart, ItemRequestAlone
  <2>10. BankTurn(p) => BankTurn(q)
    <3>1. ItemTurn(p) => ItemTurn(q)
      BY <2>1, <2>2, <2>7, <2>8 DEF ItemTurn
    <3> QED  BY <2>1, <2>7, <3>1, ItemOpsApart, TurnsOfOthers DEF BankTurn
  <2>11. call[c] # Idle
    BY <2>1, IdleIsIdle
  <2> QED  BY <1>3, <2>1, <2>6, <2>7, <2>8, <2>9, <2>10, <2>11, BankReads
<1>4. CASE At(c, "autoMatch", "flag", s, None) /\ Flag(call[c].seen.item) /\ Goto(c, "next")
  <2>1. PICK p : p = call[c] /\ p.op = "autoMatch" /\ p.at = "flag" /\ p.row = s /\ DOMAIN p = Fields
    BY <1>4 DEF At, BankInv, BankTyped
  <2>2. PICK i : i = p.seen.item
    OBVIOUS
  <2>3. p.seen \in Left /\ i \in Items /\ Rowcount(i) > 0
    BY <2>1, <2>2 DEF BankInv, BankRequest, ItemRequest, Left
  <2>4. PICK q : q = [p EXCEPT !.at = "next"]
    OBVIOUS
  <2>5. call' = [call EXCEPT ![c] = q] /\ UNCHANGED tidy
    BY <1>4, <2>1, <2>4 DEF Goto
  <2>6. /\ DOMAIN q = Fields /\ q.op = "autoMatch" /\ q.at = "next" /\ q.row = s
        /\ q.seen = p.seen
    BY <2>1, <2>4 DEF Fields
  <2>7. \A j \in Items : (Matching(p, j) <=> j = i) /\ ~Matching(q, j) /\ ~AdjustmentPosted(q, j)
    BY <2>1, <2>2, <2>6 DEF Matching, AdjustmentPosted
  <2>8. /\ KeepsItems(p, q) /\ db' = [y \in BankingRows |-> db'[y]]
        /\ \A y \in BankingRows \ (Sessions \cup Items) : db'[y] = db[y]
    BY <1>4, <2>1, <2>2, <2>3, <2>6, <2>7, ItemFlagged
  <2>9. ItemRequest(q)'
    BY <2>3, <2>6 DEF ItemRequest, Left
  <2> QED  BY <2>1, <2>5, <2>6, <2>8, <2>9, ItemOpsApart, ItemGoesOn
<1>5. CASE At(c, "autoMatch", "next", s, None) /\ UNCHANGED db /\ Leave(c)
  <2>1. PICK p : p = call[c] /\ p.op = "autoMatch" /\ p.at = "next"
    BY <1>5 DEF At
  <2>2. BankTurn(p) => BankTurn(Idle)
    <3>1. \A j \in Items : ~Matching(p, j) /\ ~Matching(Idle, j)
      BY <2>1, IdleIsIdle DEF Matching
    <3>2. ItemTurn(p) => ItemTurn(Idle)
      BY <3>1, IdleIsIdle DEF ItemTurn
    <3> QED  BY <2>1, <3>2, IdleIsIdle, ItemOpsApart, TurnsOfOthers DEF BankTurn
  <2>3. /\ call' = [call EXCEPT ![c] = Idle] /\ tidy' = tidy /\ tidy' \in BOOLEAN
        /\ call[c] # Idle
    BY <1>5, <2>1, IdleIsIdle DEF Leave, BankInv, BankTyped
  <2> QED  BY <1>5, <2>1, <2>2, <2>3, IdleIsIdle, BankReads
<1> QED  BY <1>1, <1>2, <1>3, <1>4, <1>5 DEF AutoMatch
-----------------------------------------------------------------------------
(* Feeds *)

LEMMA FeedRowsApart ==
    /\ Feeds \subseteq BankingRows /\ Feeds \cap Loans = {}
    /\ Feeds \cap Placements = {} /\ Feeds \cap (Sessions \cup Items) = {}
  BY BankingAssumption DEF BankingRows

LEMMA FeedOpsApart ==
    /\ \A op \in FeedOps \cup {"none"} :
          op \notin LoanOps /\ op \notin PlacementOps /\ op \notin ItemOps
    /\ {"revokeFeed", "linkStatus", "sync"} \subseteq FeedOps /\ "none" \notin FeedOps
  BY DEF LoanOps, PlacementOps, ItemOps, FeedOps

LEMMA FeedKeepsOthers ==
    ASSUME BankInv, \A y \in BankingRows \ Feeds : db'[y] = db[y], NEW p, NEW q,
           p.op \in FeedOps \cup {"none"}, q.op \in FeedOps \cup {"none"}, KeepsFeeds(p, q)
    PROVE  BankKeeps(p, q)
  BY FeedOpsApart, FeedRowsApart, BankOthersStay DEF BankKeeps

LEMMA FeedRequestAlone ==
    ASSUME NEW q, q.op \in FeedOps
    PROVE  (FeedRequest(q) => BankRequest(q)) /\ (FeedRequest(q)' => BankRequest(q)')
<1>1. q.op \notin LoanOps /\ q.op \notin PlacementOps /\ q.op \notin ItemOps
  BY FeedOpsApart
<1>2. /\ LoanRequest(q) /\ PlacementRequest(q) /\ ItemRequest(q)
  BY <1>1 DEF LoanRequest, PlacementRequest, ItemRequest, LoanOps, PlacementOps, ItemOps
<1>3. /\ LoanRequest(q)' /\ PlacementRequest(q)' /\ ItemRequest(q)'
  BY <1>1 DEF LoanRequest, PlacementRequest, ItemRequest, LoanOps, PlacementOps, ItemOps
<1> QED  BY <1>2, <1>3 DEF BankRequest

LEMMA FeedEnters ==
    ASSUME BankInv, NEW c \in Calls, NEW op \in FeedOps, NEW at, NEW x, NEW arg, NEW seen,
           Enter(c, op, at, x, arg, seen), NEW q,
           q = [op |-> op, at |-> at, row |-> x, arg |-> arg, seen |-> seen],
           FeedRequest(q), FeedTurn(Idle) => FeedTurn(q)
    PROVE  BankInv'
<1>1. q.op \in FeedOps /\ Idle.op = "none" /\ op # "adjust"
  BY IdleIsIdle DEF FeedOps
<1>2. BankTurn(Idle) => BankTurn(q)
  BY <1>1, FeedOpsApart, TurnsOfOthers DEF BankTurn
<1> QED  BY <1>1, <1>2, FeedRequestAlone, BankEnters

\* What is known of a feed.
LEMMA FeedFacts ==
    ASSUME BankInv, NEW f \in Feeds
    PROVE  /\ db[f] \in FeedRow /\ db[f].imported \in [Busy -> Nat] /\ db[f].skipped \in SUBSET Busy
           /\ db[f].now \in 0..Horizon /\ db[f].synced \in 0..Horizon
           /\ \A n \in Busy : n < db[f].synced => Accounted(f, n)
  BY DEF BankInv, BankRows, FeedsTyped, FeedRow, NothingMissed, Accounted

\* A feed is written: the slots that were accounted for are so still, and those
\* before the watermark are.
LEMMA FeedWritten ==
    ASSUME BankInv, NEW f \in Feeds, NEW row \in FeedRow, db' = [db EXCEPT ![f] = row],
           \A n \in Busy :
               Accounted(f, n) \/ n < row.synced => row.imported[n] > 0 \/ n \in row.skipped,
           NEW p, NEW q,
           ASSUME tidy', FeedTurn(p)
           PROVE  /\ q.op # "linkStatus" /\ ~(q.op = "sync" /\ q.at = "import")
                  /\ \A g \in Feeds \ {f} : ~Marking(p, g) /\ ~Marking(q, g)
                  /\ \A n \in Busy :
                        /\ row.imported[n] <= 1
                        /\ n >= (IF Marking(q, f) THEN q.seen.end ELSE row.synced) => row.imported[n] = 0
                  /\ row.revoked => row.status = "REVOKED"
    PROVE  /\ KeepsFeeds(p, q) /\ db' = [y \in BankingRows |-> db'[y]] /\ db'[f] = row
           /\ \A y \in BankingRows \ Feeds : db'[y] = db[y]
<1>1. /\ db' = [y \in BankingRows |-> db'[y]]
      /\ db'[f] = row /\ \A y \in BankingRows \ {f} : db'[y] = db[y]
  BY FeedRowsApart, BankRowWritten DEF BankInv
<1>2. \A g \in Feeds \ {f} : db'[g] = db[g]
  BY <1>1, FeedRowsApart
<1>3. FeedsTyped /\ NothingMissed
  BY DEF BankInv, BankRows
<1>4. FeedsTyped' /\ NothingMissed'
  BY <1>1, <1>2, <1>3 DEF FeedsTyped, NothingMissed
<1>5. FeedsKept
  BY <1>1, <1>2 DEF FeedsKept, Accounted
<1>6. ASSUME tidy', FeedTurn(p) PROVE FeedTurn(q)'
  <2>1. ASSUME NEW g \in Feeds
        PROVE  /\ \A n \in Busy :
                     /\ db'[g].imported[n] <= 1
                     /\ n >= (IF Marking(q, g) THEN q.seen.end ELSE db'[g].synced) =>
                           db'[g].imported[n] = 0
               /\ db'[g].revoked => db'[g].status = "REVOKED"
    <3>1. CASE g = f
      BY <1>1, <1>6, <3>1
    <3>2. CASE g # f
      <4>1. db'[g] = db[g] /\ ~Marking(p, g) /\ ~Marking(q, g)
        BY <1>2, <1>6, <3>2
      <4>2. /\ \A n \in Busy :
                  /\ db[g].imported[n] <= 1
                  /\ n >= db[g].synced => db[g].imported[n] = 0
            /\ db[g].revoked => db[g].status = "REVOKED"
        BY <1>6, <4>1 DEF FeedTurn, In
      <4> QED  BY <4>1, <4>2
    <3> QED  BY <3>1, <3>2
  <2>2. q.op # "linkStatus" /\ ~(q.op = "sync" /\ q.at = "import")
    BY <1>6
  <2> QED  BY <2>1, <2>2 DEF FeedTurn, Marking, In
<1>7. KeepsFeeds(p, q)
  BY <1>4, <1>5, <1>6 DEF KeepsFeeds
<1> QED  BY <1>1, <1>7, FeedRowsApart

\* A request writes a feed and leaves.
LEMMA FeedLeaves ==
    ASSUME BankInv, NEW c \in Calls, call[c].op \in FeedOps, Leave(c),
           db' = [y \in BankingRows |-> db'[y]],
           \A y \in BankingRows \ Feeds : db'[y] = db[y], KeepsFeeds(call[c], Idle)
    PROVE  BankInv'
<1>1. PICK p : p = call[c]
  OBVIOUS
<1>2. BankKeeps(p, Idle)
  BY <1>1, IdleIsIdle, FeedKeepsOthers
<1>3. call[c].op # "none"
  BY FeedOpsApart
<1> QED  BY <1>1, <1>2, <1>3, BankLeaves

LEMMA LaterKeeps == ASSUME BankInv, NEW f \in Feeds, Later(f) PROVE BankInv'
<1>1. PICK now \in 0..Horizon : now = db[f].now + 1
  BY FeedFacts, SyncAssumption DEF Later
<1>2. PICK row : row = [db[f] EXCEPT !.now = now]
  OBVIOUS
<1>3. db' = [db EXCEPT ![f] = row] /\ call' = call /\ tidy' = tidy /\ tidy' \in BOOLEAN
  BY <1>1, <1>2 DEF Later, BankInv, BankTyped
<1>4. /\ db[f] \in FeedRow /\ row \in FeedRow /\ row.status = db[f].status
      /\ row.synced = db[f].synced /\ row.imported = db[f].imported
      /\ row.skipped = db[f].skipped /\ row.revoked = db[f].revoked
  BY <1>1, <1>2, FeedFacts DEF FeedRow
<1>5. /\ db' = [y \in BankingRows |-> db'[y]]
      /\ db'[f] = row /\ \A y \in BankingRows \ {f} : db'[y] = db[y]
  BY <1>3, FeedRowsApart, BankRowWritten DEF BankInv
<1>6. BankRows
  BY DEF BankInv
<1>7. LoansApart /\ PlacementsApart /\ ItemsApart
  <2>1. \A y \in BankingRows \ Feeds : db'[y] = db[y]
    BY <1>5
  <2> QED  BY <2>1, RowsOfOthers, FeedRowsApart
<1>8. \A g \in Feeds : /\ db'[g].status = db[g].status /\ db'[g].synced = db[g].synced
                       /\ db'[g].imported = db[g].imported /\ db'[g].skipped = db[g].skipped
                       /\ db'[g].revoked = db[g].revoked /\ db'[g] \in FeedRow
  BY <1>4, <1>5, <1>6, FeedRowsApart DEF BankRows, FeedsTyped
<1>9. FeedsTyped' /\ NothingMissed' /\ FeedsKept
  BY <1>6, <1>8 DEF BankRows, FeedsTyped, NothingMissed, FeedsKept, Accounted
<1>10. ASSUME NEW p, BankRequest(p) PROVE BankKeeps(p, p)
  <2>1. LoanRequest(p) /\ PlacementRequest(p) /\ ItemRequest(p) /\ FeedRequest(p)
    BY <1>10 DEF BankRequest
  <2>2. KeepsLoans(p, p) /\ KeepsPlacements(p, p) /\ KeepsItems(p, p)
    BY <1>6, <1>7, <2>1, LoansStay, PlacementsStay, ItemsStay DEF BankRows
  <2>3. FeedTurn(p) => FeedTurn(p)'
    BY <1>8, <2>1 DEF FeedTurn, FeedRequest, FeedOps, Marking, In
  <2> QED  BY <1>9, <2>2, <2>3 DEF BankKeeps, KeepsFeeds
<1> QED  BY <1>3, <1>5, <1>10, BankStatementKeeps

LEMMA LinkAccountKeeps == ASSUME BankInv, NEW f \in Feeds, LinkAccount(f) PROVE BankInv'
<1>1. PICK row : row = [db[f] EXCEPT !.status = "ACTIVE"]
  OBVIOUS
<1>2. /\ db' = [db EXCEPT ![f] = row] /\ UNCHANGED call /\ tidy' = (tidy /\ Alone)
      /\ db[f].status = "ABSENT"
  BY <1>1 DEF LinkAccount, Statement, Becomes, In
<1>3. /\ row \in FeedRow /\ row.synced = db[f].synced /\ row.imported = db[f].imported
      /\ row.skipped = db[f].skipped /\ row.revoked = db[f].revoked
  BY <1>1, FeedFacts DEF FeedRow
<1>4. \A g \in Feeds : ~Marking(Idle, g)
  BY IdleIsIdle DEF Marking
<1>5. ASSUME tidy', FeedTurn(Idle)
      PROVE  /\ Idle.op # "linkStatus" /\ ~(Idle.op = "sync" /\ Idle.at = "import")
             /\ \A g \in Feeds \ {f} : ~Marking(Idle, g) /\ ~Marking(Idle, g)
             /\ \A n \in Busy :
                   /\ row.imported[n] <= 1
                   /\ n >= (IF Marking(Idle, f) THEN Idle.seen.end ELSE row.synced) =>
                         row.imported[n] = 0
             /\ row.revoked => row.status = "REVOKED"
  BY <1>2, <1>3, <1>4, <1>5, IdleIsIdle DEF FeedTurn, In
<1>6. \A n \in Busy : Accounted(f, n) \/ n < row.synced => row.imported[n] > 0 \/ n \in row.skipped
  BY <1>3, FeedFacts DEF Accounted
<1>7. /\ KeepsFeeds(Idle, Idle) /\ db' = [y \in BankingRows |-> db'[y]]
      /\ \A y \in BankingRows \ Feeds : db'[y] = db[y]
  BY <1>2, <1>3, <1>5, <1>6, FeedWritten
<1>8. BankKeeps(Idle, Idle)
  BY <1>7, IdleIsIdle, FeedKeepsOthers
<1> QED  BY <1>2, <1>7, <1>8, BankStates

\* A request changes the status of a link and leaves.
LEMMA LinkChanged ==
    ASSUME BankInv, NEW c \in Calls, NEW f \in Feeds, NEW row \in FeedRow,
           db' = [db EXCEPT ![f] = row], Leave(c), NEW p, p = call[c],
           p.op \in {"revokeFeed", "linkStatus"},
           row.synced = db[f].synced, row.imported = db[f].imported, row.skipped = db[f].skipped,
           FeedTurn(p) => (row.revoked => row.status = "REVOKED")
    PROVE  BankInv'
<1>1. /\ \A g \in Feeds : ~Marking(p, g) /\ ~Marking(Idle, g)
      /\ p.op \in FeedOps
  BY IdleIsIdle DEF Marking, FeedOps
<1>2. ASSUME tidy', FeedTurn(p)
      PROVE  /\ Idle.op # "linkStatus" /\ ~(Idle.op = "sync" /\ Idle.at = "import")
             /\ \A g \in Feeds \ {f} : ~Marking(p, g) /\ ~Marking(Idle, g)
             /\ \A n \in Busy :
                   /\ row.imported[n] <= 1
                   /\ n >= (IF Marking(Idle, f) THEN Idle.seen.end ELSE row.synced) =>
                         row.imported[n] = 0
             /\ row.revoked => row.status = "REVOKED"
  BY <1>1, <1>2, IdleIsIdle DEF FeedTurn
<1>3. \A n \in Busy : Accounted(f, n) \/ n < row.synced => row.imported[n] > 0 \/ n \in row.skipped
  BY FeedFacts DEF Accounted
<1>4. /\ KeepsFeeds(p, Idle) /\ db' = [y \in BankingRows |-> db'[y]]
      /\ \A y \in BankingRows \ Feeds : db'[y] = db[y]
  BY <1>2, <1>3, FeedWritten
<1> QED  BY <1>1, <1>4, FeedLeaves

LEMMA RevokeKeeps ==
    ASSUME BankInv, NEW c \in Calls, NEW f \in Feeds, Revoke(c, f) PROVE BankInv'
<1>1. CASE Enter(c, "revokeFeed", "write", f, None, None)
  <2>1. PICK q : q = [op |-> "revokeFeed", at |-> "write", row |-> f, arg |-> None, seen |-> None]
    OBVIOUS
  <2>2. FeedRequest(q)
    BY <2>1 DEF FeedRequest
  <2>3. FeedTurn(Idle) => FeedTurn(q)
    BY <2>1, IdleIsIdle DEF FeedTurn, Marking
  <2> QED  BY <1>1, <2>1, <2>2, <2>3, FeedOpsApart, FeedEnters
<1>2. CASE /\ At(c, "revokeFeed", "write", f, None) /\ Leave(c)
           /\ db' = [db EXCEPT ![f].status = "REVOKED", ![f].revoked = TRUE]
  <2>1. PICK p : p = call[c] /\ p.op = "revokeFeed"
    BY <1>2 DEF At
  <2>2. PICK row : row = [db[f] EXCEPT !.status = "REVOKED", !.revoked = TRUE]
    OBVIOUS
  <2>3. /\ row \in FeedRow /\ row.synced = db[f].synced /\ row.imported = db[f].imported
        /\ row.skipped = db[f].skipped /\ row.status = "REVOKED"
    BY <2>2, FeedFacts DEF FeedRow
  <2>4. db' = [db EXCEPT ![f] = row]
    BY <1>2, <2>2
  <2> QED  BY ZenonT(40), <1>2, <2>1, <2>3, <2>4, LinkChanged
<1> QED  BY <1>1, <1>2 DEF Revoke, Handler

LEMMA LinkStatusKeeps ==
    ASSUME BankInv, NEW c \in Calls, NEW f \in Feeds, NEW status \in {"ACTIVE", "REQUIRES_REAUTH"},
           ApplyLinkStatus(c, f, status)
    PROVE  BankInv'
<1>1. CASE ~In(f, {"ABSENT", "REVOKED"}) /\ Enter(c, "linkStatus", "write", f, status, None)
  <2>1. PICK q : q = [op |-> "linkStatus", at |-> "write", row |-> f, arg |-> status, seen |-> None]
    OBVIOUS
  <2>2. FeedRequest(q)
    BY <2>1 DEF FeedRequest
  <2>3. FeedTurn(Idle) => FeedTurn(q)
    BY <1>1, <2>1, IdleIsIdle DEF FeedTurn, Marking, In
  <2> QED  BY <1>1, <2>1, <2>2, <2>3, FeedOpsApart, FeedEnters
<1>2. CASE At(c, "linkStatus", "write", f, status) /\ Becomes(f, status) /\ Leave(c)
  <2>1. PICK p : p = call[c] /\ p.op = "linkStatus" /\ p.row = f
    BY <1>2 DEF At
  <2>2. PICK row : row = [db[f] EXCEPT !.status = status]
    OBVIOUS
  <2>3. /\ row \in FeedRow /\ row.synced = db[f].synced /\ row.imported = db[f].imported
        /\ row.skipped = db[f].skipped /\ row.revoked = db[f].revoked
    BY <2>2, FeedFacts DEF FeedRow
  <2>4. db' = [db EXCEPT ![f] = row]
    BY <1>2, <2>2 DEF Becomes
  <2>5. FeedTurn(p) => ~row.revoked
    BY <2>1, <2>3 DEF FeedTurn, In
  <2> QED  BY <1>2, <2>1, <2>3, <2>4, <2>5, LinkChanged
<1> QED  BY <1>1, <1>2 DEF ApplyLinkStatus, Handler

\* What the request knows of the slots of its window.
Window == [slots : SUBSET Busy, before : SUBSET Busy, end : 0..Horizon]

LEMMA SyncKeeps == ASSUME BankInv, NEW c \in Calls, NEW f \in Feeds, Sync(c, f) PROVE BankInv'
<1> DEFINE p == call[c]
           window == p.seen
<1>1. CASE /\ WindowStart(f) < db[f].now
           /\ Enter(c, "sync", "import", f, None,
                    [slots |-> {n \in Busy : WindowStart(f) <= n /\ n < db[f].now},
                     before |-> {n \in Busy : db[f].synced <= n /\ n < WindowStart(f)},
                     end |-> db[f].now])
  <2>1. PICK seen : seen = [slots |-> {n \in Busy : WindowStart(f) <= n /\ n < db[f].now},
                            before |-> {n \in Busy : db[f].synced <= n /\ n < WindowStart(f)},
                            end |-> db[f].now]
    OBVIOUS
  <2>2. PICK q : q = [op |-> "sync", at |-> "import", row |-> f, arg |-> None, seen |-> seen]
    OBVIOUS
  <2>3. seen \in Window /\ seen.end = db[f].now
    BY <2>1, FeedFacts DEF Window
  <2>4. /\ Busy \subseteq Int /\ db[f].now \in Int /\ db[f].synced \in Int /\ Lookback \in Int
        /\ WindowStart(f) \in Int /\ db[f].synced <= WindowStart(f) /\ db[f].synced <= db[f].now
    BY <1>1, FeedFacts, SyncAssumption DEF WindowStart
  <2>5. \A n \in Busy : n < seen.end => Accounted(f, n) \/ n \in seen.slots \cup seen.before
    <3>1. ASSUME NEW n \in Busy, n < db[f].now
          PROVE  \/ n < db[f].synced
                 \/ WindowStart(f) <= n /\ n < db[f].now
                 \/ db[f].synced <= n /\ n < WindowStart(f)
      BY <2>4, <3>1
    <3> QED  BY <2>1, <3>1, FeedFacts
  <2>6. FeedRequest(q)
    BY <2>2, <2>3, <2>5 DEF FeedRequest, Window
  <2>7. \A n \in seen.slots : db[f].synced <= n /\ n < seen.end
    <3>1. ASSUME NEW n \in Busy, WindowStart(f) <= n PROVE db[f].synced <= n
      BY <2>4, <3>1
    <3> QED  BY <2>1, <3>1
  <2>8. FeedTurn(Idle) => FeedTurn(q)
    BY <2>2, <2>3, <2>4, <2>7, IdleIsIdle DEF FeedTurn, Marking
  <2> QED  BY <1>1, <2>1, <2>2, <2>6, <2>8, FeedOpsApart, FeedEnters
<1>2. CASE At(c, "sync", "import", f, None) /\ UNCHANGED db /\ Leave(c)
  <2>1. p.op = "sync" /\ p.at = "import"
    BY <1>2 DEF At
  <2>2. BankTurn(p) => BankTurn(Idle)
    <3>1. FeedTurn(p) => FeedTurn(Idle)
      BY <2>1, IdleIsIdle DEF FeedTurn, Marking
    <3> QED  BY <2>1, <3>1, IdleIsIdle, FeedOpsApart, TurnsOfOthers DEF BankTurn
  <2>3. /\ call' = [call EXCEPT ![c] = Idle] /\ tidy' = tidy /\ tidy' \in BOOLEAN
        /\ call[c] # Idle
    BY <1>2, <2>1, IdleIsIdle DEF Leave, BankInv, BankTyped
  <2> QED  BY <1>2, <2>1, <2>2, <2>3, IdleIsIdle, BankReads
<1>3. ASSUME At(c, "sync", "import", f, None), db' = Imported(f, window),
             NEW q, DOMAIN q = Fields, call' = [call EXCEPT ![c] = q],
             \/ /\ UNCHANGED tidy
                /\ q.op = "sync" /\ q.at = "mark" /\ q.row = f /\ q.seen = window
             \/ q = Idle /\ tidy' = FALSE
      PROVE  BankInv'
  <2>1. PICK r : r = call[c] /\ r.op = "sync" /\ r.at = "import" /\ r.row = f
    BY <1>3 DEF At
  <2>2. PICK w \in Window : w = r.seen
    BY <2>1 DEF BankInv, BankRequest, FeedRequest, Window
  <2>3. /\ w.slots \subseteq Busy /\ w.before \subseteq Busy /\ w.end \in 0..Horizon
        /\ \A n \in Busy : n < w.end => Accounted(f, n) \/ n \in w.slots \cup w.before
    BY <2>1, <2>2 DEF BankInv, BankRequest, FeedRequest, Window
  <2>4. PICK imported \in [Busy -> Nat] :
            \A n \in Busy :
                imported[n] = IF n \in w.slots THEN db[f].imported[n] + 1 ELSE db[f].imported[n]
    <3>1. \A n \in Busy : (IF n \in w.slots THEN db[f].imported[n] + 1 ELSE db[f].imported[n]) \in Nat
      BY FeedFacts
    <3>2. [n \in Busy |-> IF n \in w.slots THEN db[f].imported[n] + 1 ELSE db[f].imported[n]]
              \in [Busy -> Nat]
      BY <3>1
    <3> QED  BY <3>2
  <2>5. PICK skipped : skipped = db[f].skipped \cup w.before /\ skipped \subseteq Busy
    BY <2>3, FeedFacts
  <2>6. PICK row : row = [db[f] EXCEPT !.imported = imported, !.skipped = skipped]
    OBVIOUS
  <2>7. db' = [db EXCEPT ![f] = row]
    <3>1. imported = [n \in Busy |-> IF n \in w.slots THEN db[f].imported[n] + 1 ELSE db[f].imported[n]]
      BY <2>4
    <3>2. db' = Imported(f, w)
      BY <1>3, <2>1, <2>2
    <3>3. /\ f \in BankingRows /\ db = [y \in BankingRows |-> db[y]]
          /\ db[f].imported \in [Busy -> Nat] /\ db[f] \in FeedRow
      BY FeedRowsApart, FeedFacts DEF BankInv, BankTyped
    <3> QED  BY <2>5, <2>6, <3>1, <3>2, <3>3 DEF Imported, FeedRow
  <2>8. /\ row \in FeedRow /\ row.synced = db[f].synced /\ row.imported = imported
        /\ row.skipped = skipped /\ row.revoked = db[f].revoked /\ row.status = db[f].status
    BY <2>5, <2>6, FeedFacts DEF FeedRow
  <2>9. /\ \A n \in Busy : Accounted(f, n) => imported[n] > 0 \/ n \in skipped
        /\ \A n \in w.slots : imported[n] > 0
        /\ w.before \subseteq skipped
    BY <2>3, <2>4, <2>5, FeedFacts DEF Accounted
  <2>10. \A n \in Busy : Accounted(f, n) \/ n < row.synced => row.imported[n] > 0 \/ n \in row.skipped
    BY <2>8, <2>9, FeedFacts
  <2>11. ASSUME tidy', FeedTurn(r)
         PROVE  /\ q.op # "linkStatus" /\ ~(q.op = "sync" /\ q.at = "import")
                /\ \A g \in Feeds \ {f} : ~Marking(r, g) /\ ~Marking(q, g)
                /\ \A n \in Busy :
                      /\ row.imported[n] <= 1
                      /\ n >= (IF Marking(q, f) THEN q.seen.end ELSE row.synced) => row.imported[n] = 0
                /\ row.revoked => row.status = "REVOKED"
    <3>1. q.op = "sync" /\ q.at = "mark" /\ q.row = f /\ q.seen = w
      BY <1>3, <2>1, <2>2, <2>11
    <3>2. \A g \in Feeds : ~Marking(r, g) /\ (Marking(q, g) <=> g = f)
      BY <2>1, <3>1 DEF Marking
    <3>3. /\ db[f].synced <= w.end /\ \A n \in w.slots : db[f].synced <= n /\ n < w.end
          /\ \A n \in Busy : db[f].imported[n] <= 1 /\ (n >= db[f].synced => db[f].imported[n] = 0)
          /\ db[f].revoked => db[f].status = "REVOKED"
      BY <2>1, <2>2, <2>11, <3>2 DEF FeedTurn, In
    <3>4. ASSUME NEW n \in Busy PROVE imported[n] <= 1 /\ (n >= w.end => imported[n] = 0)
      <4>1. n \in Int /\ w.end \in Int /\ db[f].synced \in Int /\ db[f].imported[n] \in Nat
        BY <2>3, FeedFacts, SyncAssumption
      <4>2. CASE n \in w.slots
        BY <2>4, <3>3, <4>1, <4>2
      <4>3. CASE n \notin w.slots
        BY <2>4, <3>3, <4>1, <4>3
      <4> QED  BY <4>2, <4>3
    <3> QED  BY <2>8, <3>1, <3>2, <3>3, <3>4
  <2>12. /\ KeepsFeeds(r, q) /\ db' = [y \in BankingRows |-> db'[y]] /\ db'[f] = row
         /\ \A y \in BankingRows \ Feeds : db'[y] = db[y]
    BY <2>7, <2>8, <2>10, <2>11, FeedWritten
  <2>13. BankKeeps(r, q)
    <3>1. q.op \in FeedOps \cup {"none"} /\ r.op \in FeedOps
      BY <1>3, <2>1, IdleIsIdle, FeedOpsApart
    <3> QED  BY <2>12, <3>1, FeedKeepsOthers
  <2>14. BankRequest(q)'
    <3>1. CASE q = Idle
      BY <3>1, IdleIsIdle
    <3>2. CASE q.op = "sync" /\ q.at = "mark" /\ q.row = f /\ q.seen = w
      <4>1. \A n \in Busy : n < w.end => Accounted(f, n)'
        <5>1. ASSUME NEW n \in Busy, n < w.end PROVE imported[n] > 0 \/ n \in skipped
          BY <2>3, <2>9, <5>1
        <5> QED  BY <2>8, <2>12, <5>1 DEF Accounted
      <4>2. FeedRequest(q)'
        BY <2>2, <3>2, <4>1 DEF FeedRequest, Window
      <4> QED  BY <3>2, <4>2, FeedOpsApart, FeedRequestAlone
    <3> QED  BY <1>3, <2>1, <2>2, <3>1, <3>2
  <2>15. tidy' \in BOOLEAN /\ call[c] # Idle /\ (tidy' => tidy)
    <3>1. tidy \in BOOLEAN /\ (tidy' = tidy \/ tidy' = FALSE)
      BY <1>3 DEF BankInv, BankTyped
    <3>2. call[c] # Idle
      BY <2>1, IdleIsIdle
    <3>3. tidy' \in BOOLEAN
      BY <3>1
    <3>4. tidy' => tidy
      BY <3>1
    <3> QED  BY <3>2, <3>3, <3>4
  <2> QED  BY <1>3, <2>1, <2>12, <2>13, <2>14, <2>15, BankStepKeeps
<1>4. CASE At(c, "sync", "import", f, None) /\ db' = Imported(f, window) /\ Goto(c, "mark")
  <2>1. PICK r : r = call[c] /\ r.op = "sync" /\ r.row = f /\ DOMAIN r = Fields
    BY <1>4 DEF At, BankInv, BankTyped
  <2>2. PICK q : q = [r EXCEPT !.at = "mark"]
    OBVIOUS
  <2>3. DOMAIN q = Fields /\ q.op = "sync" /\ q.at = "mark" /\ q.row = f /\ q.seen = window
    BY <2>1, <2>2 DEF Fields
  <2>4. call' = [call EXCEPT ![c] = q] /\ UNCHANGED tidy
    BY <1>4, <2>1, <2>2 DEF Goto
  <2> QED  BY <1>3, <1>4, <2>3, <2>4
<1>5. CASE /\ At(c, "sync", "import", f, None) /\ db' = Imported(f, window)
           /\ call' = [call EXCEPT ![c] = Idle] /\ tidy' = FALSE
  BY <1>3, <1>5, IdleIsIdle
<1>6. CASE At(c, "sync", "mark", f, None) /\ db' = [db EXCEPT ![f].synced = window.end] /\ Leave(c)
  <2>1. PICK r : r = call[c] /\ r.op = "sync" /\ r.at = "mark" /\ r.row = f
    BY <1>6 DEF At
  <2>2. PICK w \in Window : w = r.seen
    BY <2>1 DEF BankInv, BankRequest, FeedRequest, Window
  <2>3. w.end \in 0..Horizon /\ \A n \in Busy : n < w.end => Accounted(f, n)
    BY <2>1, <2>2 DEF BankInv, BankRequest, FeedRequest, Window
  <2>4. PICK row : row = [db[f] EXCEPT !.synced = w.end]
    OBVIOUS
  <2>5. db' = [db EXCEPT ![f] = row]
    BY <1>6, <2>1, <2>2, <2>4
  <2>6. /\ row \in FeedRow /\ row.synced = w.end /\ row.imported = db[f].imported
        /\ row.skipped = db[f].skipped /\ row.revoked = db[f].revoked /\ row.status = db[f].status
    BY <2>3, <2>4, FeedFacts DEF FeedRow
  <2>7. \A n \in Busy : Accounted(f, n) \/ n < row.synced => row.imported[n] > 0 \/ n \in row.skipped
    BY <2>3, <2>6 DEF Accounted
  <2>8. ASSUME tidy', FeedTurn(r)
        PROVE  /\ Idle.op # "linkStatus" /\ ~(Idle.op = "sync" /\ Idle.at = "import")
               /\ \A g \in Feeds \ {f} : ~Marking(r, g) /\ ~Marking(Idle, g)
               /\ \A n \in Busy :
                     /\ row.imported[n] <= 1
                     /\ n >= (IF Marking(Idle, f) THEN Idle.seen.end ELSE row.synced) =>
                           row.imported[n] = 0
               /\ row.revoked => row.status = "REVOKED"
    <3>1. \A g \in Feeds : ~Marking(Idle, g) /\ (Marking(r, g) <=> g = f)
      BY <2>1, IdleIsIdle DEF Marking
    <3>2. /\ \A n \in Busy : db[f].imported[n] <= 1 /\ (n >= w.end => db[f].imported[n] = 0)
          /\ db[f].revoked => db[f].status = "REVOKED"
      BY <2>2, <2>8, <3>1 DEF FeedTurn, In
    <3> QED  BY <2>6, <3>1, <3>2, IdleIsIdle
  <2>9. /\ KeepsFeeds(r, Idle) /\ db' = [y \in BankingRows |-> db'[y]]
        /\ \A y \in BankingRows \ Feeds : db'[y] = db[y]
    BY <2>5, <2>6, <2>7, <2>8, FeedWritten
  <2> QED  BY <1>6, <2>1, <2>9, FeedOpsApart, FeedLeaves
<1> QED
  <2> HIDE DEF p
  <2> QED  BY <1>1, <1>2, <1>4, <1>5, <1>6 DEF Sync, p
-----------------------------------------------------------------------------

\* A request that is cut off has taken nothing back.
LEMMA BankCutOffKeeps == ASSUME BankInv, NEW c \in Calls, CutOff(c) PROVE BankInv'
<1>1. /\ call' = [call EXCEPT ![c] = Idle] /\ db' = db /\ ~tidy' /\ tidy' \in BOOLEAN
  BY DEF CutOff
<1> QED  BY <1>1, IdleIsIdle, BankReads

LEMMA BankStutterKeeps == ASSUME BankInv, UNCHANGED docVars PROVE BankInv'
<1>1. db' = db /\ call' = call /\ tidy' = tidy /\ tidy' \in BOOLEAN
  BY DEF docVars, BankInv, BankTyped
<1>2. BankRows /\ LoansApart /\ PlacementsApart /\ ItemsApart /\ FeedsApart
  BY <1>1 DEF BankInv, LoansApart, PlacementsApart, ItemsApart, FeedsApart
<1>3. ASSUME NEW p, BankRequest(p) PROVE BankKeeps(p, p)
  <2>1. LoanRequest(p) /\ PlacementRequest(p) /\ ItemRequest(p) /\ FeedRequest(p)
    BY <1>3 DEF BankRequest
  <2> QED  BY <1>2, <2>1, LoansStay, PlacementsStay, ItemsStay, FeedsStay DEF BankRows, BankKeeps
<1>4. db' = [y \in BankingRows |-> db'[y]]
  BY <1>1 DEF BankInv, BankTyped
<1> QED  BY <1>1, <1>3, <1>4, BankStatementKeeps

LEMMA BankInitInv == BankingInit => BankInv
<1> SUFFICES ASSUME BankingInit PROVE BankInv
  OBVIOUS
<1>1. /\ db = [x \in BankingRows |-> db[x]] /\ call = [c \in Calls |-> Idle] /\ tidy = TRUE
      /\ \A n \in Loans : db[n] = NoLoan
      /\ \A p \in Placements : db[p] = NoPlacement
      /\ \A s \in Sessions : db[s] = NoSession
      /\ \A i \in Items : db[i] = NewItem
      /\ \A f \in Feeds : db[f] = NoFeed
  BY BankingAssumption DEF BankingInit, BankingRows, CallsStart
<1>2. BankTyped
  BY <1>1, IdleIsIdle DEF BankTyped
<1>3. BankRows
  <2>1. LoansTyped /\ PaidWithinInstallment
    <3>1. NoLoan \in LoanRow
      <4>1. <<>> \in Seq([due : Nat, paid : Nat])
        OBVIOUS
      <4> QED  BY <4>1 DEF NoLoan, LoanRow
    <3>2. \A i \in DOMAIN NoLoan.lines : FALSE
      BY DEF NoLoan
    <3> QED  BY <1>1, <3>1, <3>2 DEF LoansTyped, PaidWithinInstallment
  <2>2. PlacementsTyped /\ PlacementsOK
    <3>1. NoPlacement \in PlacementRow /\ NoPlacement.from = None
      BY DEF NoPlacement, PlacementRow
    <3> QED  BY <1>1, <3>1 DEF PlacementsTyped, PlacementsOK
  <2>3. ItemsTyped /\ ItemsOK
    <3>1. <<>> \in Seq(Sessions \X (Booked \cup {None}))
      OBVIOUS
    <3>2. NoSession \in SessionRow /\ NoSession.status = "ABSENT"
      BY DEF NoSession, SessionRow
    <3>3. NewItem \in ItemRow /\ ~NewItem.flagged
      BY <3>1 DEF NewItem, ItemRow
    <3>4. ItemsTyped
      BY <1>1, <3>2, <3>3 DEF ItemsTyped
    <3>5. ItemsOK
      BY <1>1, <3>2, <3>3 DEF ItemsOK, ApprovedIsMatched, In
    <3> QED  BY <3>4, <3>5
  <2>4. FeedsTyped /\ NothingMissed
    <3>1. /\ NoFeed \in FeedRow /\ NoFeed.synced = 0
      BY SyncAssumption DEF NoFeed, FeedRow
    <3>2. \A n \in Busy : ~(n < 0)
      BY SyncAssumption
    <3> QED  BY <1>1, <3>1, <3>2 DEF FeedsTyped, NothingMissed
  <2> QED  BY <2>1, <2>2, <2>3, <2>4 DEF BankRows
<1>4. MatchesCovered
  <2> SUFFICES ASSUME NEW i \in Items
               PROVE  Cardinality(Adjusting(i)) + Cardinality(Posting(i)) <= db[i].entries
    BY DEF MatchesCovered
  <2>1. db[i].matches = <<>> /\ db[i].entries = 0
    BY <1>1 DEF NewItem
  <2>2. Adjusting(i) = {}
    BY <2>1 DEF Adjusting
  <2>3. Posting(i) = {}
    BY <1>1, IdleIsIdle DEF Posting
  <2>4. Cardinality({}) = 0
    BY FS_EmptySet
  <2> QED  BY <2>1, <2>2, <2>3, <2>4
<1>5. \A c \in Calls : BankRequest(call[c])
  BY <1>1, IdleIsIdle
<1>6. BankTurn(Idle)
  <2>1. LoanTurn(Idle)
    <3>1. ASSUME NEW n \in Loans PROVE db[n].drawn <= Facility /\ Asked(n) <= db[n].drawn
      <4>1. DOMAIN db[n].lines = {} /\ db[n].drawn = 0
        BY <1>1 DEF NoLoan
      <4>2. Asked(n) = 0
        BY <4>1, SumEmpty DEF Asked
      <4> QED  BY <4>1, <4>2, LoanAssumption
    <3> QED  BY <3>1, IdleIsIdle DEF LoanTurn
  <2>2. PlacementTurn(Idle)
    BY <1>1, IdleIsIdle DEF PlacementTurn, NoPlacement
  <2>3. ItemTurn(Idle)
    <3>1. \A i \in Items : Rowcount(i) = 0 /\ ~db[i].flagged /\ db[i].entries = 0
      BY <1>1 DEF Rowcount, NewItem
    <3> QED  BY <3>1, IdleIsIdle DEF ItemTurn, Matching
  <2>4. FeedTurn(Idle)
    BY <1>1, IdleIsIdle DEF FeedTurn, Marking, NoFeed
  <2> QED  BY <2>1, <2>2, <2>3, <2>4 DEF BankTurn
<1>7. BankTurns
  BY <1>1, <1>6 DEF BankTurns
<1> QED  BY <1>2, <1>3, <1>4, <1>5, <1>7 DEF BankInv

LEMMA BankNextKeeps == BankInv /\ [BankingNext]_docVars => BankInv'
<1> SUFFICES ASSUME BankInv, [BankingNext]_docVars PROVE BankInv'
  OBVIOUS
<1>1. CASE LoansNext
  BY <1>1, CreateLoanKeeps, DrawKeeps, ScheduleKeeps, RepayKeeps DEF LoansNext
<1>2. CASE PlacementsNext
  BY <1>2, CreatePlacementKeeps, MaturityKeeps DEF PlacementsNext
<1>3. CASE ReconciliationNext
  BY <1>3, CreateSessionKeeps, AutoMatchKeeps, ApproveSessionKeeps, AdjustmentKeeps, ManualMatchKeeps
     DEF ReconciliationNext
<1>4. CASE FeedsNext
  BY <1>4, LaterKeeps, LinkAccountKeeps, RevokeKeeps, SyncKeeps, LinkStatusKeeps DEF FeedsNext
<1>5. CASE \E c \in Calls : CutOff(c)
  BY <1>5, BankCutOffKeeps
<1>6. CASE UNCHANGED docVars
  BY <1>6, BankStutterKeeps
<1> QED  BY <1>1, <1>2, <1>3, <1>4, <1>5, <1>6 DEF BankingNext

\* BankInv says what BankingSound does.
LEMMA BankInvSound == BankInv => BankingSound
<1> SUFFICES ASSUME BankInv PROVE BankingSound
  OBVIOUS
<1>1. BankRows /\ MatchesCovered
  BY DEF BankInv
<1>2. tidy /\ Alone => BankTurn(Idle)
  BY DEF BankInv, BankTurns
<1>3. TreasurySound
  <2>1. ASSUME NEW n \in Loans
        PROVE  /\ db[n].status \in {"ABSENT", "ACTIVE"} /\ db[n].drawn \in Nat
               /\ \A i \in DOMAIN db[n].lines : db[n].lines[i] \in [due : Nat, paid : Nat]
    BY LoanFacts DEF LoanRow
  <2>2. ASSUME NEW p \in Placements
        PROVE  /\ db[p].status \in {"ABSENT", "ACTIVE", "MATURED"}
               /\ db[p].from \in Placements \cup {None} /\ db[p].rolls \in BOOLEAN
    BY <1>1 DEF BankRows, PlacementsTyped, PlacementRow
  <2>3. LoansAgree
    BY <1>2 DEF LoansAgree, BankTurn, LoanTurn
  <2>4. OneRollover
    BY <1>1, <1>2 DEF OneRollover, BankRows, PlacementsOK, BankTurn, PlacementTurn
  <2> QED  BY <1>1, <2>1, <2>2, <2>3, <2>4 DEF TreasurySound, TreasuryTypeOK, BankRows
<1>4. ReconciliationSound
  <2>1. \A s \in Sessions : db[s].status \in {"ABSENT", "DRAFT", "APPROVED"}
    BY <1>1 DEF BankRows, ItemsTyped, SessionRow
  <2>2. ASSUME NEW i \in Items
        PROVE  /\ db[i].flagged \in BOOLEAN
               /\ \A n \in DOMAIN db[i].matches :
                     db[i].matches[n] \in Sessions \X (Booked \cup {None})
    <3>1. PICK matches \in Seq(Sessions \X (Booked \cup {None})) : matches = db[i].matches
      BY ItemFacts
    <3>2. \A n \in DOMAIN matches : matches[n] \in Sessions \X (Booked \cup {None})
      BY SequenceFacts
    <3> QED  BY <3>1, <3>2, ItemFacts
  <2>3. ReconciliationTypeOK
    BY <2>1, <2>2 DEF ReconciliationTypeOK
  <2>4. AdjustmentsPosted
    <3> SUFFICES ASSUME NEW i \in Items PROVE Cardinality(Adjusting(i)) <= db[i].entries
      BY DEF AdjustmentsPosted, Adjusting
    <3>1. Cardinality(Adjusting(i)) \in Nat /\ Cardinality(Posting(i)) \in Nat /\ db[i].entries \in Nat
      BY ItemFacts, PostingCounted DEF Adjusted
    <3>2. Cardinality(Adjusting(i)) + Cardinality(Posting(i)) <= db[i].entries
      BY <1>1 DEF MatchesCovered
    <3> QED  BY <3>1, <3>2
  <2>5. MatchedOnce
    <3> SUFFICES ASSUME tidy, Alone, NEW i \in Items
                 PROVE  Rowcount(i) = (IF db[i].flagged THEN 1 ELSE 0) /\ db[i].entries <= 1
      BY DEF MatchedOnce
    <3>1. ~Matching(Idle, i)
      BY IdleIsIdle DEF Matching
    <3>2. Rowcount(i) = (IF db[i].flagged THEN 1 ELSE 0) /\ db[i].entries <= Rowcount(i)
      BY <1>2, <3>1 DEF BankTurn, ItemTurn
    <3> QED  BY <3>2, ItemFacts
  <2> QED  BY <1>1, <2>3, <2>4, <2>5 DEF ReconciliationSound, BankRows, ItemsOK
<1>5. FeedsSound
  <2>1. FeedTypeOK
    BY <1>1 DEF FeedTypeOK, BankRows, FeedsTyped, FeedRow
  <2>2. NothingTwice
    <3>1. ASSUME NEW q, FeedTurn(q)
          PROVE  \A f \in Feeds :
                     (\A n \in Busy : db[f].imported[n] <= 1) /\ (db[f].revoked => In(f, {"REVOKED"}))
      BY <3>1 DEF FeedTurn
    <3>2. tidy => \E q : FeedTurn(q)
      BY <1>2 DEF BankInv, BankTurns, Alone, BankTurn
    <3> QED  BY <3>1, <3>2 DEF NothingTwice
  <2> QED  BY <1>1, <2>1, <2>2 DEF FeedsSound, BankRows
<1> QED  BY <1>3, <1>4, <1>5 DEF BankingSound

\* However requests on loans, placements, statements and feeds interleave: no
\* installment is paid beyond what it asks for, a placement is opened with the
\* money of one that matured, an approved session leaves no item open and each
\* adjustment is posted, and no slot before the watermark is missed.  While
\* they take turns: a loan is drawn within its facility, its schedule asks for
\* no more, money is placed again once, an item is matched once, and nothing
\* is imported twice.
THEOREM BankingIsAlwaysSound == BankingSpec => []BankingSound
<1>1. BankInv /\ [BankingNext]_docVars => BankInv'
  BY BankNextKeeps
<1> QED  BY <1>1, BankInitInv, BankInvSound, PTL DEF BankingSpec

-----------------------------------------------------------------------------
(***************************************************************************)
(* Leads and notifications.                                                *)
(*                                                                         *)
(* The argument: whatever a request has read or done on its row and counts *)
(* on later is not undone by any other (LeadRequest, NoticeRequest), and   *)
(* a job of a queue is in the hands of one worker at most (JobsApart), so  *)
(* that of a job that is being done something is always left.  While       *)
(* requests take turns, the turn of the one under way says how far its row *)
(* has come (LeadTurn, NoticeTurn): a message that was taken belongs to    *)
(* the one job that delivers, and this job is at its end before another    *)
(* request begins.                                                         *)
(***************************************************************************)
LeadRow ==
    [status : Unconverted \cup {"ABSENT", "CONVERTED"}, stage : OpenStages \cup {"none", "WON", "LOST"},
     customers : 0..MostCustomers, linked : BOOLEAN, reservation : Reservations \cup {None},
     won : BOOLEAN]
BookedRow == [status : {"ABSENT", "ACTIVE"}, late : BOOLEAN, sale : {None}]
BookedUnit == [status : {"AVAILABLE", "RESERVED"}, recognized : Nat, resold : Nat]
Said == Nat \X {"delivered", "read", "failed"}
NoticeRow ==
    [status : {"ABSENT", "PENDING", "SENT", "FAILED", "READ", "DELIVERED"},
     seen : BOOLEAN, delivered : BOOLEAN, known : Nat, queued : 0..MostJobs,
     left : [Jobs -> 0..Attempts], messages : Nat, reports : SUBSET Said, skipped : BOOLEAN]

LeadOps == {"qualify", "disqualify", "contact", "convertLead", "move", "win", "reserveFor"}
NoticeOps == {"notification", "job", "callback", "markRead"}
OutreachCall ==
    [op : {"none"} \cup LeadOps \cup NoticeOps,
     at : {"idle", "write", "customer", "check", "reserve", "prospect",
           "insert", "enqueue", "run", "record", "end", "failed", "rethrow"},
     row : OutreachRows \cup {None},
     arg : Reservations \cup OpenStages \cup {"LOST"} \cup Jobs \cup Said \cup {None},
     seen : Nat \cup {None}]

OutreachRowsTyped ==
    /\ DOMAIN db = OutreachRows
    /\ db = [x \in DOMAIN db |-> db[x]]
    /\ \A d \in LeadRows : db[d] \in LeadRow
    /\ \A r \in Reservations : db[r] \in BookedRow
    /\ \A x \in Units : db[x] \in BookedUnit
    /\ \A n \in Notices : db[n] \in NoticeRow
OutreachTyped ==
    /\ OutreachRowsTyped
    /\ call \in [Calls -> OutreachCall]
    /\ tidy \in BOOLEAN

\* What holds of a lead and of a notification however requests interleave.
Made(r) == r \in Reservations /\ db[r].status # "ABSENT"
Reserved(v) == v.linked /\ v.customers > 0 /\ Made(v.reservation)
LeadOK(v) ==
    /\ v.stage \in {"RESERVED", "WON"} => Reserved(v)
    /\ v.linked => v.customers > 0
    /\ v.status = "CONVERTED" => v.stage # "none"
NoticeOK(n, v) ==
    /\ v.known <= v.messages
    /\ v.status \in {"SENT", "DELIVERED"} /\ ChannelOf[n] # "IN_APP" => v.messages > 0
    /\ v.status = "DELIVERED" => v.delivered
    /\ v.delivered => \E p \in v.reports : p[2] = "delivered"
    /\ \A p \in v.reports :
          /\ p[1] \in 1..v.messages
          /\ p[2] = "read" => <<p[1], "delivered">> \in v.reports

\* What a request on the row v has read or done, and will hold whenever it goes on.
LeadRequest(q, v) ==
    \/ q.op \in {"qualify", "disqualify", "contact", "convertLead", "move"} /\ q.at = "write"
    \/ q.op = "win" /\ q.at = "write" /\ Reserved(v)
    \/ /\ q.op = "reserveFor" /\ q.at \in {"customer", "check", "reserve", "prospect"}
       /\ q.arg \in Reservations
       /\ q.at # "customer" => v.customers > 0
       /\ q.at = "prospect" => Made(q.arg)
NoticeRequest(q, v) ==
    \/ q.op = "notification" /\ q.at \in {"insert", "enqueue"}
       /\ (q.at = "enqueue" => v.status # "ABSENT")
    \/ /\ q.op = "job" /\ q.arg \in Jobs /\ v.left[q.arg] > 0
       /\ q.at \in {"run", "record", "end", "failed", "rethrow"}
       /\ q.arg = 0 => q.at \in {"run", "end"}
       /\ q.at = "record" => q.seen \in 1..v.messages
    \/ q.op = "callback" /\ q.at = "write" /\ q.arg \in v.reports
    \/ q.op = "markRead" /\ q.at = "write"
MayGoOn(q) ==
    \/ q = Idle
    \/ q.row \in LeadRows /\ LeadRequest(q, db[q.row])
    \/ q.row \in Notices /\ NoticeRequest(q, db[q.row])

\* A job is in the hands of one worker.
Does(q, n, j) == q.op = "job" /\ q.row = n /\ q.arg = j
SameJob(p, q) == p.op = "job" /\ q.op = "job" /\ p.row = q.row /\ p.arg = q.arg
JobsApart == \A c, e \in Calls : SameJob(call[c], call[e]) => c = e

\* What holds of a row v while q is the only request; q is Idle when there is none.
LeadTurn(q, d, v) ==
    /\ v.stage # "none" => v.status = "CONVERTED"
    /\ v.won => v.stage = "WON"
    /\ q.row = d =>
          /\ q.op = "qualify" => v.status \in Unconverted \ {"DISQUALIFIED"}
          /\ q.op \in {"disqualify", "contact"} => v.status \in Unconverted
          /\ q.op \in {"move", "reserveFor"} => v.stage \in OpenStages
          /\ q.op = "win" => v.stage = "RESERVED"
Queues(q, n) == q.op = "notification" /\ q.at = "enqueue" /\ q.row = n
NoticeTurn(q, n, v) ==
    /\ v.queued <= 1 /\ v.messages <= v.queued
    /\ \A j \in Jobs : j > v.queued => v.left[j] = 0
    /\ v.left[0] > 0 => v.queued = 0 \/ (Does(q, n, 0) /\ q.at = "end")
    /\ v.messages > 0 /\ v.left[1] > 0 => Does(q, n, 1) /\ q.at \in {"record", "end"}
    /\ v.status = "ABSENT" \/ Queues(q, n) => v.queued = 0 /\ v.left[0] = 0
    /\ v.status = "PENDING" =>
          \/ v.skipped \/ Queues(q, n)
          \/ \E j \in Jobs : v.left[j] > 0 /\ ~(Does(q, n, j) /\ q.at \in {"end", "rethrow"})
TurnHolds(q) ==
    /\ \A d \in LeadRows : LeadTurn(q, d, db[d])
    /\ \A n \in Notices : NoticeTurn(q, n, db[n])
OutreachTurns ==
    /\ \A c, e \in Calls : call[c] # Idle /\ call[e] # Idle => c = e
    /\ \A c \in Calls : call[c] # Idle => TurnHolds(call[c])
    /\ Alone => TurnHolds(Idle)

OutreachInv ==
    /\ OutreachTyped /\ JobsApart
    /\ \A d \in LeadRows : LeadOK(db[d])
    /\ \A n \in Notices : NoticeOK(n, db[n])
    /\ \A c \in Calls : MayGoOn(call[c])
    /\ tidy => OutreachTurns

-----------------------------------------------------------------------------
LEMMA IdleIsACall == Idle \in OutreachCall /\ ~\E q : SameJob(Idle, q) \/ SameJob(q, Idle)
BY DEF Idle, OutreachCall, SameJob

\* A request goes on from call[c] to q, with the rows it writes.
LEMMA RequestMoves ==
    ASSUME OutreachInv, NEW c \in Calls, NEW q \in OutreachCall,
           call' = [call EXCEPT ![c] = q],
           OutreachRowsTyped',
           \A d \in LeadRows : LeadOK(db[d])',
           \A n \in Notices : NoticeOK(n, db[n])',
           \A p \in OutreachCall : MayGoOn(p) /\ ~SameJob(p, call[c]) => MayGoOn(p)',
           MayGoOn(q)',
           \A e \in Calls \ {c} : ~SameJob(call[e], q),
           tidy' \in BOOLEAN,
           tidy' => tidy /\ (call[c] = Idle => Alone) /\ TurnHolds(q)'
    PROVE  OutreachInv'
<1> USE DEF OutreachInv, OutreachTyped
<1>1. OutreachTyped'
  OBVIOUS
<1>2. JobsApart'
  <2> SUFFICES ASSUME NEW a \in Calls, NEW e \in Calls, SameJob(call'[a], call'[e]), a # e
               PROVE  FALSE
    BY DEF JobsApart
  <2>1. CASE a = c
    <3>1. call'[a] = q /\ call'[e] = call[e]
      BY <2>1
    <3> QED  BY <3>1, <2>1 DEF SameJob
  <2>2. CASE e = c
    <3>1. call'[e] = q /\ call'[a] = call[a]
      BY <2>2
    <3> QED  BY <3>1, <2>2 DEF SameJob
  <2>3. CASE a # c /\ e # c
    <3>1. call'[e] = call[e] /\ call'[a] = call[a]
      BY <2>3
    <3> QED  BY <3>1 DEF JobsApart
  <2> QED  BY <2>1, <2>2, <2>3
<1>3. ASSUME NEW e \in Calls PROVE MayGoOn(call[e])'
  <2>1. CASE e = c
    <3>1. call'[e] = q
      BY <2>1
    <3> QED  BY <3>1 DEF MayGoOn
  <2>2. CASE e # c
    <3> DEFINE p == call[e]
    <3>1. call'[e] = p
      BY <2>2
    <3>2. p \in OutreachCall /\ MayGoOn(p) /\ ~SameJob(p, call[c])
      BY <2>2 DEF JobsApart
    <3>3. MayGoOn(p)'
      BY <3>2
    <3> QED  BY <3>1, <3>3 DEF MayGoOn
  <2> QED  BY <2>1, <2>2
<1>4. ASSUME tidy' PROVE OutreachTurns'
  <2>1. \A e \in Calls \ {c} : call[e] = Idle /\ call'[e] = Idle
    BY <1>4 DEF OutreachTurns, Alone
  <2>2. call'[c] = q
    OBVIOUS
  <2>3. TurnHolds(q)'
    BY <1>4
  <2>4. ASSUME NEW e \in Calls, call'[e] # Idle PROVE TurnHolds(call[e])'
    <3>1. call'[e] = q
      BY <2>1, <2>2, <2>4
    <3> QED  BY <3>1, <2>3 DEF TurnHolds
  <2>5. ASSUME Alone' PROVE TurnHolds(Idle)'
    <3>1. q = Idle
      BY <2>2, <2>5 DEF Alone
    <3> QED  BY <3>1, <2>3
  <2> QED  BY <2>1, <2>4, <2>5 DEF OutreachTurns
<1> QED  BY <1>1, <1>2, <1>3, <1>4

\* Rows are written and requests are where they were.
LEMMA RowsMove ==
    ASSUME OutreachInv, UNCHANGED call,
           OutreachRowsTyped',
           \A d \in LeadRows : LeadOK(db[d])',
           \A n \in Notices : NoticeOK(n, db[n])',
           \A p \in OutreachCall : MayGoOn(p) /\ (\E e \in Calls : call[e] = p) => MayGoOn(p)',
           tidy' \in BOOLEAN,
           tidy' => tidy,
           tidy' => \/ Alone /\ TurnHolds(Idle)'
                    \/ \A p \in OutreachCall : TurnHolds(p) => TurnHolds(p)'
    PROVE  OutreachInv'
<1> USE DEF OutreachInv, OutreachTyped
<1>1. OutreachTyped' /\ JobsApart'
  BY DEF JobsApart
<1>2. ASSUME NEW e \in Calls PROVE MayGoOn(call[e])'
  <2> DEFINE p == call[e]
  <2>1. p \in OutreachCall /\ MayGoOn(p) /\ call'[e] = p
    OBVIOUS
  <2>2. MayGoOn(p)'
    BY <2>1
  <2> QED  BY <2>1, <2>2 DEF MayGoOn
<1>3. ASSUME tidy' PROVE OutreachTurns'
  <2>1. CASE Alone /\ TurnHolds(Idle)'
    BY <2>1 DEF OutreachTurns, Alone
  <2>2. CASE \A p \in OutreachCall : TurnHolds(p) => TurnHolds(p)'
    <3>1. ASSUME NEW e \in Calls, call[e] # Idle PROVE TurnHolds(call[e])'
      <4> DEFINE p == call[e]
      <4>1. p \in OutreachCall /\ TurnHolds(p) /\ call'[e] = p
        BY <1>3, <3>1 DEF OutreachTurns
      <4>2. TurnHolds(p)'
        BY <4>1, <2>2
      <4> QED  BY <4>1, <4>2 DEF TurnHolds
    <3>2. Alone => TurnHolds(Idle)'
      BY <1>3, <2>2, IdleIsACall DEF OutreachTurns
    <3> QED  BY <1>3, <3>1, <3>2 DEF OutreachTurns, Alone
  <2> QED  BY <1>3, <2>1, <2>2
<1> QED  BY <1>1, <1>2, <1>3

-----------------------------------------------------------------------------
(* Leads *)

\* Only the row of a lead is written.
LEMMA LeadWritten ==
    ASSUME OutreachInv, NEW d \in LeadRows, NEW v \in LeadRow, LeadOK(v),
           db' = [db EXCEPT ![d] = v]
    PROVE  /\ OutreachRowsTyped'
           /\ \A x \in LeadRows : LeadOK(db[x])'
           /\ \A n \in Notices : NoticeOK(n, db[n])'
           /\ \A x \in LeadRows : db'[x] = IF x = d THEN v ELSE db[x]
           /\ \A x \in OutreachRows \ LeadRows : db'[x] = db[x]
<1>1. OutreachRowsTyped /\ d \in DOMAIN db
  BY DEF OutreachInv, OutreachTyped, OutreachRowsTyped, OutreachRows
<1>2. \A x \in OutreachRows : db'[x] = IF x = d THEN v ELSE db[x]
  BY <1>1 DEF OutreachRowsTyped
<1>3. \A x \in Reservations \cup Units \cup Notices : x \in OutreachRows \ LeadRows /\ db'[x] = db[x]
  BY <1>2, OutreachAssumption DEF OutreachRows
<1>4. OutreachRowsTyped'
  <2>1. DOMAIN db' = OutreachRows /\ db' = [x \in DOMAIN db' |-> db'[x]]
    BY <1>1 DEF OutreachRowsTyped
  <2>2. \A x \in LeadRows : db'[x] \in LeadRow
    BY <1>1, <1>2 DEF OutreachRowsTyped, OutreachRows
  <2> QED  BY <1>1, <1>3, <2>1, <2>2 DEF OutreachRowsTyped
<1>5. \A u \in LeadRow : LeadOK(u) => LeadOK(u)'
  <2>1. \A r : Made(r) => Made(r)'
    BY <1>3 DEF Made
  <2> QED  BY <2>1 DEF LeadOK, Reserved
<1>6. ASSUME NEW x \in LeadRows PROVE LeadOK(db[x])'
  <2> DEFINE u == IF x = d THEN v ELSE db[x]
  <2>1. u \in LeadRow /\ LeadOK(u)
    BY <1>1 DEF OutreachInv, OutreachRowsTyped
  <2>2. db'[x] = u
    BY <1>2 DEF OutreachRows
  <2>3. LeadOK(u)'
    BY <1>5, <2>1
  <2> QED  BY <2>2, <2>3 DEF LeadOK, Reserved
<1>7. ASSUME NEW n \in Notices PROVE NoticeOK(n, db[n])'
  BY <1>3 DEF NoticeOK, OutreachInv
<1>8. \A x \in LeadRows : db'[x] = IF x = d THEN v ELSE db[x]
  BY <1>2 DEF OutreachRows
<1>9. \A x \in OutreachRows \ LeadRows : db'[x] = db[x]
  BY <1>2
<1> QED  BY <1>4, <1>6, <1>7, <1>8, <1>9

\* What other requests have done on leads stays, if this one keeps it.
LEMMA LeadRequestsStay ==
    ASSUME OutreachInv, NEW d \in LeadRows, NEW v \in LeadRow, LeadOK(v),
           db' = [db EXCEPT ![d] = v],
           db[d].customers > 0 => v.customers > 0, Reserved(db[d]) => Reserved(v),
           NEW p \in OutreachCall, MayGoOn(p)
    PROVE  MayGoOn(p)'
<1>1. /\ \A x \in LeadRows : db'[x] = IF x = d THEN v ELSE db[x]
      /\ \A x \in Notices \cup Reservations : db'[x] = db[x]
  BY LeadWritten, OutreachAssumption DEF OutreachRows
<1>2. \A r : Made(r) => Made(r)'
  BY <1>1 DEF Made
<1>3. CASE p.row \in LeadRows /\ LeadRequest(p, db[p.row])
  <2> DEFINE u == IF p.row = d THEN v ELSE db[p.row]
  <2>1. (db[p.row].customers > 0 => u.customers > 0) /\ (Reserved(db[p.row]) => Reserved(u))
    OBVIOUS
  <2>2. LeadRequest(p, u)
    BY <1>3, <2>1 DEF LeadRequest
  <2>3. LeadRequest(p, u)'
    BY <1>2, <2>2 DEF LeadRequest, Reserved
  <2>4. db'[p.row] = u
    BY <1>1, <1>3
  <2> QED  BY <1>3, <2>3, <2>4 DEF MayGoOn, LeadRequest, Reserved
<1>4. CASE p.row \in Notices /\ NoticeRequest(p, db[p.row])
  BY <1>1, <1>4 DEF MayGoOn, NoticeRequest
<1>5. CASE p = Idle
  BY <1>5 DEF MayGoOn
<1> QED  BY <1>3, <1>4, <1>5 DEF MayGoOn

\* A notification that neither request is about.
LEMMA TurnElsewhere ==
    ASSUME NEW p, NEW q, NEW n, NEW v, NoticeTurn(p, n, v),
           \A j : ~Does(p, n, j) /\ ~Does(q, n, j), ~Queues(p, n), ~Queues(q, n)
    PROVE  NoticeTurn(q, n, v)
<1>1. v.status = "PENDING" => v.skipped \/ \E j \in Jobs : v.left[j] > 0
  BY DEF NoticeTurn
<1>2. v.status = "PENDING" =>
        \/ v.skipped
        \/ \E j \in Jobs : v.left[j] > 0 /\ ~(Does(q, n, j) /\ q.at \in {"end", "rethrow"})
  BY <1>1
<1> QED  BY <1>2 DEF NoticeTurn

\* A request on the row d, or one that comes to it, is of no other row.
OfRow(q, x) == q = Idle \/ q.row = x

LEMMA LeadTurnMoves ==
    ASSUME OutreachInv, NEW p \in OutreachCall, NEW q \in OutreachCall,
           NEW d \in LeadRows, NEW v \in LeadRow, LeadOK(v), db' = [db EXCEPT ![d] = v],
           OfRow(p, d), OfRow(q, d), TurnHolds(p), LeadTurn(q, d, v)
    PROVE  TurnHolds(q)'
<1>1. /\ \A x \in LeadRows : db'[x] = IF x = d THEN v ELSE db[x]
      /\ \A x \in Notices : db'[x] = db[x] /\ x # d
  BY LeadWritten, OutreachAssumption DEF OutreachRows
<1>2. ASSUME NEW x \in LeadRows PROVE LeadTurn(q, x, db[x])'
  <2>1. CASE x = d
    BY <2>1, <1>1 DEF LeadTurn
  <2>2. CASE x # d
    <3>1. LeadTurn(p, x, db[x])
      BY DEF TurnHolds
    <3>2. LeadTurn(q, x, db[x])
      BY <3>1, <2>2 DEF LeadTurn, OfRow, Idle
    <3> QED  BY <3>2, <2>2, <1>1 DEF LeadTurn
  <2> QED  BY <2>1, <2>2
<1>3. ASSUME NEW n \in Notices PROVE NoticeTurn(q, n, db[n])'
  <2>1. NoticeTurn(p, n, db[n])
    BY DEF TurnHolds
  <2>2. \A j : ~Does(p, n, j) /\ ~Does(q, n, j) /\ ~Queues(p, n) /\ ~Queues(q, n)
    BY <1>1 DEF Does, Queues, OfRow, Idle
  <2>3. NoticeTurn(q, n, db[n])
    BY <2>1, <2>2, TurnElsewhere
  <2> QED  BY <2>3, <1>1 DEF NoticeTurn, Does, Queues
<1> QED  BY <1>2, <1>3 DEF TurnHolds

\* The request that moved c's turn on.
LEMMA TurnOf ==
    ASSUME OutreachInv, tidy, NEW c \in Calls, call[c] = Idle => Alone
    PROVE  TurnHolds(call[c])
BY DEF OutreachInv, OutreachTurns

\* A request on a lead goes on to q, and the row becomes v.
LEMMA LeadMoves ==
    ASSUME OutreachInv, NEW c \in Calls, NEW q \in OutreachCall,
           NEW d \in LeadRows, NEW v \in LeadRow, LeadOK(v),
           call' = [call EXCEPT ![c] = q], db' = [db EXCEPT ![d] = v],
           OfRow(call[c], d), q = Idle \/ (q.row = d /\ LeadRequest(q, v)),
           db[d].customers > 0 => v.customers > 0, Reserved(db[d]) => Reserved(v),
           tidy' \in BOOLEAN, tidy' => tidy /\ (call[c] = Idle => Alone) /\ LeadTurn(q, d, v)
    PROVE  OutreachInv'
<1>1. /\ OutreachRowsTyped'
      /\ \A x \in LeadRows : LeadOK(db[x])'
      /\ \A n \in Notices : NoticeOK(n, db[n])'
      /\ \A x \in LeadRows : db'[x] = IF x = d THEN v ELSE db[x]
      /\ \A x \in OutreachRows \ LeadRows : db'[x] = db[x]
  BY LeadWritten
<1>11. db'[d] = v /\ \A x \in Reservations : db'[x] = db[x]
  BY <1>1, OutreachAssumption DEF OutreachRows
<1>2. \A p \in OutreachCall : MayGoOn(p) /\ ~SameJob(p, call[c]) => MayGoOn(p)'
  BY LeadRequestsStay
<1>3. MayGoOn(q)'
  <2>1. CASE q = Idle
    BY <2>1 DEF MayGoOn
  <2>2. CASE q.row = d /\ LeadRequest(q, v)
    <3>1. \A r : Made(r) => Made(r)'
      BY <1>11 DEF Made
    <3> QED  BY <2>2, <3>1, <1>11 DEF MayGoOn, LeadRequest, Reserved
  <2> QED  BY <2>1, <2>2
<1>4. \A e \in Calls \ {c} : ~SameJob(call[e], q)
  BY DEF SameJob, LeadRequest, Idle
<1>5. tidy' => TurnHolds(q)'
  <2>1. SUFFICES ASSUME tidy' PROVE TurnHolds(q)'
    OBVIOUS
  <2>2. TurnHolds(call[c]) /\ call[c] \in OutreachCall /\ OfRow(q, d)
    BY <2>1, TurnOf DEF OutreachInv, OutreachTyped, OfRow
  <2> QED  BY <2>1, <2>2, LeadTurnMoves
<1> QED  BY <1>1, <1>2, <1>3, <1>4, <1>5, RequestMoves

LEMMA LeadFacts ==
    ASSUME OutreachInv, NEW d \in LeadRows
    PROVE  /\ db[d] \in LeadRow /\ LeadOK(db[d]) /\ db = [db EXCEPT ![d] = db[d]]
           /\ d \in OutreachRows
<1>1. OutreachRowsTyped /\ d \in DOMAIN db
  BY DEF OutreachInv, OutreachTyped, OutreachRowsTyped, OutreachRows
<1>2. db = [db EXCEPT ![d] = db[d]]
  BY <1>1 DEF OutreachRowsTyped
<1> QED  BY <1>1, <1>2 DEF OutreachInv, OutreachRowsTyped, OutreachRows

LEMMA LeadEnters ==
    ASSUME OutreachInv, NEW c \in Calls, NEW d \in LeadRows, NEW op, NEW at, NEW arg, NEW q,
           q = [op |-> op, at |-> at, row |-> d, arg |-> arg, seen |-> None],
           q \in OutreachCall, Enter(c, op, at, d, arg, None), LeadRequest(q, db[d]),
           tidy /\ TurnHolds(Idle) => LeadTurn(q, d, db[d])
    PROVE  OutreachInv'
<1>1. db[d] \in LeadRow /\ LeadOK(db[d]) /\ db' = [db EXCEPT ![d] = db[d]]
  BY LeadFacts DEF Enter
<1>2. OfRow(call[c], d) /\ call' = [call EXCEPT ![c] = q] /\ q.row = d
  BY DEF Enter, OfRow
<1>3. tidy' \in BOOLEAN /\ (tidy' => tidy /\ Alone)
  BY DEF Enter, OutreachInv, OutreachTyped
<1>4. tidy' => LeadTurn(q, d, db[d])
  BY <1>3 DEF OutreachInv, OutreachTurns
<1> QED  BY <1>1, <1>2, <1>3, <1>4, LeadMoves

\* A request on the row d that is under way.
LeadAt(c, op, at, d) == call[c].op = op /\ call[c].at = at /\ call[c].row = d /\ op \in LeadOps

LEMMA LeadUnderWay ==
    ASSUME OutreachInv, NEW c \in Calls, NEW d \in LeadRows, NEW op, NEW at, LeadAt(c, op, at, d)
    PROVE  /\ call[c] # Idle /\ call[c] \in OutreachCall /\ LeadRequest(call[c], db[d])
           /\ tidy => LeadTurn(call[c], d, db[d])
<1>1. call[c] # Idle /\ call[c] \in OutreachCall /\ MayGoOn(call[c])
  BY DEF LeadAt, Idle, LeadOps, OutreachInv, OutreachTyped
<1>2. d \notin Notices
  BY OutreachAssumption
<1>3. tidy => TurnHolds(call[c])
  BY <1>1 DEF OutreachInv, OutreachTurns
<1> QED  BY <1>1, <1>2, <1>3 DEF MayGoOn, LeadAt, TurnHolds

LEMMA LeadLeaves ==
    ASSUME OutreachInv, NEW c \in Calls, NEW d \in LeadRows, NEW op, NEW at, LeadAt(c, op, at, d),
           NEW v \in LeadRow, LeadOK(v), db' = [db EXCEPT ![d] = v], Leave(c),
           db[d].customers > 0 => v.customers > 0, Reserved(db[d]) => Reserved(v),
           tidy => LeadTurn(Idle, d, v)
    PROVE  OutreachInv'
<1>1. OfRow(call[c], d) /\ call[c] # Idle /\ tidy \in BOOLEAN
  BY LeadUnderWay DEF OfRow, LeadAt, OutreachInv, OutreachTyped
<1>2. call' = [call EXCEPT ![c] = Idle] /\ tidy' = tidy
  BY DEF Leave
<1> QED  BY <1>1, <1>2, LeadMoves, IdleIsACall

\* A handler of one check and one commit.
LEMMA LeadHandler ==
    ASSUME OutreachInv, NEW c \in Calls, NEW d \in LeadRows, NEW op \in LeadOps,
           NEW arg \in OpenStages \cup {"LOST", None}, NEW check \in BOOLEAN, NEW v \in LeadRow,
           op \notin {"reserveFor"}, Handler(c, op, d, arg, check, db' = [db EXCEPT ![d] = v]),
           op = "win" /\ check => Reserved(db[d]),
           check /\ tidy => \A q : q.op = op => (LeadTurn(Idle, d, db[d]) => LeadTurn(q, d, db[d])),
           LeadAt(c, op, "write", d) =>
              /\ LeadOK(v)
              /\ db[d].customers > 0 => v.customers > 0
              /\ Reserved(db[d]) => Reserved(v)
              /\ tidy => LeadTurn(Idle, d, v)
    PROVE  OutreachInv'
<1>1. CASE check /\ Enter(c, op, "write", d, arg, None)
  <2> DEFINE q == [op |-> op, at |-> "write", row |-> d, arg |-> arg, seen |-> None]
  <2>1. q \in OutreachCall
    BY LeadFacts DEF OutreachCall
  <2>2. LeadRequest(q, db[d])
    BY <1>1 DEF LeadRequest, LeadOps
  <2>3. tidy /\ TurnHolds(Idle) => LeadTurn(q, d, db[d])
    BY <1>1 DEF TurnHolds
  <2> QED  BY <1>1, <2>1, <2>2, <2>3, LeadEnters
<1>2. CASE At(c, op, "write", d, arg) /\ db' = [db EXCEPT ![d] = v] /\ Leave(c)
  <2>1. LeadAt(c, op, "write", d)
    BY <1>2 DEF At, LeadAt
  <2> QED  BY <1>2, <2>1, LeadLeaves
<1> QED  BY <1>1, <1>2 DEF Handler

LEMMA QualifyKeeps ==
    ASSUME OutreachInv, NEW c \in Calls, NEW d \in LeadRows, QualifyLead(c, d)
    PROVE  OutreachInv'
<1>1. PICK r \in LeadRow : r = db[d]
  BY LeadFacts
<1> DEFINE check == MayQualify(d)
           v == [r EXCEPT !.status = "QUALIFIED"]
<1>2. v \in LeadRow
  BY DEF LeadRow, OpenStages, Unconverted
<1>3. Handler(c, "qualify", d, None, check, db' = [db EXCEPT ![d] = v])
  BY <1>1 DEF QualifyLead, Becomes
<1>4. check \in BOOLEAN /\ "qualify" \in LeadOps
  BY DEF LeadOps, MayQualify, In
<1>5. check /\ tidy => \A q : q.op = "qualify" => (LeadTurn(Idle, d, db[d]) => LeadTurn(q, d, db[d]))
  BY DEF LeadTurn, MayQualify, In
<1>7. ASSUME LeadAt(c, "qualify", "write", d)
      PROVE  /\ LeadOK(v)
             /\ db[d].customers > 0 => v.customers > 0
             /\ Reserved(db[d]) => Reserved(v)
             /\ tidy => LeadTurn(Idle, d, v)
  <2>1. LeadRequest(call[c], r) /\ (tidy => LeadTurn(call[c], d, r)) /\ LeadOK(r)
    BY <1>1, <1>7, LeadUnderWay, LeadFacts
  <2>2. LeadOK(v) /\ (Reserved(r) => Reserved(v)) /\ v.customers = r.customers
    BY <2>1 DEF LeadOK, LeadRow, Reserved
  <2>3. tidy => LeadTurn(Idle, d, v)
    BY <2>1, <1>7 DEF LeadTurn, LeadAt, Idle, LeadRow, Unconverted, OpenStages
  <2> QED  BY <1>1, <2>2, <2>3
<1> HIDE DEF check, v
<1> QED  BY <1>2, <1>3, <1>4, <1>5, <1>7, LeadHandler

LEMMA DisqualifyKeeps ==
    ASSUME OutreachInv, NEW c \in Calls, NEW d \in LeadRows, DisqualifyLead(c, d)
    PROVE  OutreachInv'
<1>1. PICK r \in LeadRow : r = db[d]
  BY LeadFacts
<1> DEFINE check == In(d, Unconverted)
           v == [r EXCEPT !.status = "DISQUALIFIED"]
<1>2. v \in LeadRow
  BY DEF LeadRow, OpenStages, Unconverted
<1>3. Handler(c, "disqualify", d, None, check, db' = [db EXCEPT ![d] = v])
  BY <1>1 DEF DisqualifyLead, Becomes
<1>4. check \in BOOLEAN /\ "disqualify" \in LeadOps
  BY DEF LeadOps, In
<1>5. check /\ tidy => \A q : q.op = "disqualify" => (LeadTurn(Idle, d, db[d]) => LeadTurn(q, d, db[d]))
  BY DEF LeadTurn, In
<1>7. ASSUME LeadAt(c, "disqualify", "write", d)
      PROVE  /\ LeadOK(v)
             /\ db[d].customers > 0 => v.customers > 0
             /\ Reserved(db[d]) => Reserved(v)
             /\ tidy => LeadTurn(Idle, d, v)
  <2>1. LeadRequest(call[c], r) /\ (tidy => LeadTurn(call[c], d, r)) /\ LeadOK(r)
    BY <1>1, <1>7, LeadUnderWay, LeadFacts
  <2>2. LeadOK(v) /\ (Reserved(r) => Reserved(v)) /\ v.customers = r.customers
    BY <2>1 DEF LeadOK, LeadRow, Reserved
  <2>3. tidy => LeadTurn(Idle, d, v)
    BY <2>1, <1>7 DEF LeadTurn, LeadAt, Idle, LeadRow, Unconverted, OpenStages
  <2> QED  BY <1>1, <2>2, <2>3
<1> HIDE DEF check, v
<1> QED  BY <1>2, <1>3, <1>4, <1>5, <1>7, LeadHandler

LEMMA ContactKeeps ==
    ASSUME OutreachInv, NEW c \in Calls, NEW d \in LeadRows, LogLeadActivity(c, d)
    PROVE  OutreachInv'
<1>1. PICK r \in LeadRow : r = db[d]
  BY LeadFacts
<1> DEFINE check == In(d, {"NEW"})
           v == [r EXCEPT !.status = "CONTACTED"]
<1>2. v \in LeadRow
  BY DEF LeadRow, OpenStages, Unconverted
<1>3. Handler(c, "contact", d, None, check, db' = [db EXCEPT ![d] = v])
  BY <1>1 DEF LogLeadActivity, Becomes
<1>4. check \in BOOLEAN /\ "contact" \in LeadOps
  BY DEF LeadOps, In
<1>5. check /\ tidy => \A q : q.op = "contact" => (LeadTurn(Idle, d, db[d]) => LeadTurn(q, d, db[d]))
  BY DEF LeadTurn, In, Unconverted
<1>7. ASSUME LeadAt(c, "contact", "write", d)
      PROVE  /\ LeadOK(v)
             /\ db[d].customers > 0 => v.customers > 0
             /\ Reserved(db[d]) => Reserved(v)
             /\ tidy => LeadTurn(Idle, d, v)
  <2>1. LeadRequest(call[c], r) /\ (tidy => LeadTurn(call[c], d, r)) /\ LeadOK(r)
    BY <1>1, <1>7, LeadUnderWay, LeadFacts
  <2>2. LeadOK(v) /\ (Reserved(r) => Reserved(v)) /\ v.customers = r.customers
    BY <2>1 DEF LeadOK, LeadRow, Reserved
  <2>3. tidy => LeadTurn(Idle, d, v)
    BY <2>1, <1>7 DEF LeadTurn, LeadAt, Idle, LeadRow, Unconverted, OpenStages
  <2> QED  BY <1>1, <2>2, <2>3
<1> HIDE DEF check, v
<1> QED  BY <1>2, <1>3, <1>4, <1>5, <1>7, LeadHandler

LEMMA MoveKeeps ==
    ASSUME OutreachInv, NEW c \in Calls, NEW d \in LeadRows,
           NEW stage \in (OpenStages \ {"ACTIVE", "RESERVED"}) \cup {"LOST"}, MoveProspect(c, d, stage)
    PROVE  OutreachInv'
<1>1. PICK r \in LeadRow : r = db[d]
  BY LeadFacts
<1> DEFINE check == ProspectOpen(d)
           v == [r EXCEPT !.stage = stage]
<1>2. v \in LeadRow
  BY DEF LeadRow, OpenStages, Unconverted
<1>3. Handler(c, "move", d, stage, check, db' = [db EXCEPT ![d] = v])
  BY <1>1 DEF MoveProspect
<1>4. check \in BOOLEAN /\ "move" \in LeadOps
  BY DEF LeadOps, ProspectOpen
<1>5. check /\ tidy => \A q : q.op = "move" => (LeadTurn(Idle, d, db[d]) => LeadTurn(q, d, db[d]))
  BY DEF LeadTurn, ProspectOpen
<1>7. ASSUME LeadAt(c, "move", "write", d)
      PROVE  /\ LeadOK(v)
             /\ db[d].customers > 0 => v.customers > 0
             /\ Reserved(db[d]) => Reserved(v)
             /\ tidy => LeadTurn(Idle, d, v)
  <2>1. LeadRequest(call[c], r) /\ (tidy => LeadTurn(call[c], d, r)) /\ LeadOK(r)
    BY <1>1, <1>7, LeadUnderWay, LeadFacts
  <2>2. LeadOK(v) /\ (Reserved(r) => Reserved(v)) /\ v.customers = r.customers
    BY <2>1 DEF LeadOK, LeadRow, Reserved, OpenStages
  <2>3. tidy => LeadTurn(Idle, d, v)
    BY <2>1, <1>7 DEF LeadTurn, LeadAt, Idle, LeadRow, Unconverted, OpenStages
  <2> QED  BY <1>1, <2>2, <2>3
<1> HIDE DEF check, v
<1> QED  BY <1>2, <1>3, <1>4, <1>5, <1>7, LeadHandler

LEMMA WinKeeps ==
    ASSUME OutreachInv, NEW c \in Calls, NEW d \in LeadRows, MarkProspectWon(c, d)
    PROVE  OutreachInv'
<1>1. PICK r \in LeadRow : r = db[d]
  BY LeadFacts
<1> DEFINE check == MayWin(d)
           v == [r EXCEPT !.stage = "WON", !.won = TRUE]
<1>2. v \in LeadRow
  BY DEF LeadRow, OpenStages, Unconverted
<1>3. Handler(c, "win", d, None, check, db' = [db EXCEPT ![d] = v])
  BY <1>1 DEF MarkProspectWon
<1>4. check \in BOOLEAN /\ "win" \in LeadOps
  BY DEF LeadOps, MayWin
<1>5. check /\ tidy => \A q : q.op = "win" => (LeadTurn(Idle, d, db[d]) => LeadTurn(q, d, db[d]))
  BY DEF LeadTurn, MayWin
<1>6. check => Reserved(db[d])
  BY LeadFacts DEF MayWin, LeadOK
<1>7. ASSUME LeadAt(c, "win", "write", d)
      PROVE  /\ LeadOK(v)
             /\ db[d].customers > 0 => v.customers > 0
             /\ Reserved(db[d]) => Reserved(v)
             /\ tidy => LeadTurn(Idle, d, v)
  <2>1. LeadRequest(call[c], r) /\ (tidy => LeadTurn(call[c], d, r)) /\ LeadOK(r)
    BY <1>1, <1>7, LeadUnderWay, LeadFacts
  <2>2. LeadOK(v) /\ (Reserved(r) => Reserved(v)) /\ v.customers = r.customers
    BY <2>1, <1>7 DEF LeadOK, LeadRow, Reserved, LeadRequest, LeadAt
  <2>3. tidy => LeadTurn(Idle, d, v)
    BY <2>1, <1>7 DEF LeadTurn, LeadAt, Idle, LeadRow, Unconverted, OpenStages
  <2> QED  BY <1>1, <2>2, <2>3
<1> HIDE DEF check, v
<1> QED  BY <1>2, <1>3, <1>4, <1>5, <1>6, <1>7, LeadHandler

LEMMA ConvertKeeps ==
    ASSUME OutreachInv, NEW c \in Calls, NEW d \in LeadRows, ConvertLeadToProspect(c, d)
    PROVE  OutreachInv'
<1>1. PICK r \in LeadRow : r = db[d] /\ LeadOK(r) /\ db = [db EXCEPT ![d] = r]
  BY LeadFacts
<1> DEFINE check == In(d, Unconverted \ {"DISQUALIFIED"}) /\ db[d].stage = "none"
           v == IF r.stage # "none" THEN r
                ELSE [r EXCEPT !.status = "CONVERTED", !.stage = "ACTIVE"]
<1>2. v \in LeadRow
  BY DEF LeadRow, OpenStages, Unconverted
<1>3. Handler(c, "convertLead", d, None, check, db' = [db EXCEPT ![d] = v])
  BY <1>1 DEF ConvertLeadToProspect, Handler
<1>4. check \in BOOLEAN /\ "convertLead" \in LeadOps
  BY DEF LeadOps, In
<1>5. check /\ tidy =>
        \A q : q.op = "convertLead" => (LeadTurn(Idle, d, db[d]) => LeadTurn(q, d, db[d]))
  BY DEF LeadTurn
<1>7. ASSUME LeadAt(c, "convertLead", "write", d)
      PROVE  /\ LeadOK(v)
             /\ db[d].customers > 0 => v.customers > 0
             /\ Reserved(db[d]) => Reserved(v)
             /\ tidy => LeadTurn(Idle, d, v)
  <2>1. tidy => LeadTurn(call[c], d, r)
    BY <1>1, <1>7, LeadUnderWay
  <2>2. LeadOK(v) /\ (Reserved(r) => Reserved(v)) /\ v.customers = r.customers
    BY <1>1 DEF LeadOK, LeadRow, Reserved
  <2>3. tidy => LeadTurn(Idle, d, v)
    BY <2>1, <1>7 DEF LeadTurn, LeadAt, Idle, LeadRow
  <2> QED  BY <1>1, <2>2, <2>3
<1> HIDE DEF check, v
<1> QED  BY <1>2, <1>3, <1>4, <1>5, <1>7, LeadHandler

LEMMA CreateLeadKeeps ==
    ASSUME OutreachInv, NEW d \in LeadRows, CreateLead(d)
    PROVE  OutreachInv'
<1>1. PICK r \in LeadRow : r = db[d] /\ LeadOK(r)
  BY LeadFacts
<1> DEFINE v == [r EXCEPT !.status = "NEW"]
<1>2. v \in LeadRow /\ LeadOK(v) /\ (Reserved(r) => Reserved(v)) /\ v.customers = r.customers
  BY <1>1 DEF LeadRow, Unconverted, LeadOK, Reserved
<1>3. db' = [db EXCEPT ![d] = v] /\ UNCHANGED call /\ tidy' = (tidy /\ Alone) /\ r.status = "ABSENT"
  BY <1>1 DEF CreateLead, Statement, Becomes, In
<1> HIDE DEF v
<1>4. /\ OutreachRowsTyped'
      /\ \A x \in LeadRows : LeadOK(db[x])'
      /\ \A n \in Notices : NoticeOK(n, db[n])'
  BY <1>2, <1>3, LeadWritten
<1>5. \A p \in OutreachCall : MayGoOn(p) /\ (\E e \in Calls : call[e] = p) => MayGoOn(p)'
  BY <1>1, <1>2, <1>3, LeadRequestsStay
<1>6. tidy' \in BOOLEAN /\ (tidy' => tidy)
  BY <1>3 DEF OutreachInv, OutreachTyped
<1>7. ASSUME tidy' PROVE Alone /\ TurnHolds(Idle)'
  <2>1. Alone /\ TurnHolds(Idle)
    BY <1>3, <1>7 DEF OutreachInv, OutreachTurns
  <2>2. LeadTurn(Idle, d, r)
    BY <2>1, <1>1 DEF TurnHolds
  <2>3. LeadTurn(Idle, d, v)
    BY <2>2, <1>3 DEF LeadTurn, Idle, v, LeadRow
  <2> QED  BY <2>1, <2>3, <1>2, <1>3, LeadTurnMoves, IdleIsACall DEF OfRow
<1> QED  BY <1>3, <1>4, <1>5, <1>6, <1>7, RowsMove

\* The reservation itself writes two rows, neither of a lead.
LEMMA ReservationMoves ==
    ASSUME OutreachInv, NEW c \in Calls, NEW d \in LeadRows, NEW r \in Reservations,
           At(c, "reserveFor", "reserve", d, r), MakeReservation(r), Goto(c, "prospect")
    PROVE  OutreachInv'
<1>1. LeadAt(c, "reserveFor", "reserve", d)
  BY DEF At, LeadAt, LeadOps
<1>2. call[c] \in OutreachCall /\ call[c] # Idle /\ LeadRequest(call[c], db[d])
  BY <1>1, LeadUnderWay
<1>3. PICK p \in OutreachCall : p = call[c]
  BY <1>2
<1>23. [p EXCEPT !.at = "prospect"] \in OutreachCall
  BY DEF OutreachCall
<1>24. PICK q \in OutreachCall : q = [p EXCEPT !.at = "prospect"]
  BY <1>23
<1>4. /\ q = [call[c] EXCEPT !.at = "prospect"]
      /\ q.op = p.op /\ q.row = p.row /\ q.arg = p.arg /\ q.at = "prospect"
  BY <1>3, <1>24 DEF OutreachCall
<1>5. OutreachRowsTyped /\ UnitOf[r] \in Units /\ db[r] \in BookedRow /\ db[UnitOf[r]] \in BookedUnit
  BY SalesAssumption DEF OutreachInv, OutreachTyped, OutreachRowsTyped
<1>6. PICK u \in BookedRow : u = [db[r] EXCEPT !.status = "ACTIVE"]
  BY <1>5 DEF BookedRow
<1>7. PICK w \in BookedUnit : w = [db[UnitOf[r]] EXCEPT !.status = "RESERVED"]
  BY <1>5 DEF BookedUnit
<1>8. db' = [db EXCEPT ![r] = u, ![UnitOf[r]] = w]
  <2>1. r # UnitOf[r]
    BY <1>5, SalesAssumption
  <2> QED  BY <2>1, <1>5, <1>6, <1>7 DEF MakeReservation, OutreachRowsTyped, OutreachRows
<1>9. \A x \in OutreachRows : db'[x] = IF x = UnitOf[r] THEN w ELSE IF x = r THEN u ELSE db[x]
  BY <1>5, <1>8, SalesAssumption DEF OutreachRowsTyped
<1>10. \A x \in LeadRows \cup Notices : db'[x] = db[x]
  BY <1>9, <1>5, OutreachAssumption DEF OutreachRows
<1>11. \A x \in Reservations : db'[x] = IF x = r THEN u ELSE db[x]
  BY <1>9, <1>5, SalesAssumption DEF OutreachRows
<1>12. u.status = "ACTIVE"
  BY <1>5, <1>6 DEF BookedRow
<1>13. Made(r)' /\ \A x : Made(x) => Made(x)'
  BY <1>11, <1>12 DEF Made
<1>14. OutreachRowsTyped'
  <2>1. DOMAIN db' = OutreachRows /\ db' = [x \in DOMAIN db' |-> db'[x]]
    BY <1>5, <1>8 DEF OutreachRowsTyped
  <2>2. \A x \in Units : db'[x] \in BookedUnit
    BY <1>5, <1>9, SalesAssumption DEF OutreachRowsTyped, OutreachRows
  <2> QED  BY <1>5, <1>10, <1>11, <2>1, <2>2 DEF OutreachRowsTyped
<1>15. \A x \in LeadRows : LeadOK(db[x])'
  BY <1>10, <1>13 DEF OutreachInv, LeadOK, Reserved
<1>16. \A n \in Notices : NoticeOK(n, db[n])'
  BY <1>10 DEF OutreachInv, NoticeOK
<1>17. ASSUME NEW e \in OutreachCall, MayGoOn(e) PROVE MayGoOn(e)'
  <2>1. CASE e.row \in LeadRows /\ LeadRequest(e, db[e.row])
    <3>1. LeadRequest(e, db[e.row])'
      BY <2>1, <1>10, <1>13 DEF LeadRequest, Reserved
    <3> QED  BY <2>1, <3>1 DEF MayGoOn
  <2>2. CASE e.row \in Notices /\ NoticeRequest(e, db[e.row])
    BY <2>2, <1>10 DEF MayGoOn, NoticeRequest
  <2> QED  BY <2>1, <2>2, <1>17 DEF MayGoOn
<1>18. MayGoOn(q)'
  <2>1. q.op = "reserveFor" /\ q.arg = r /\ q.row = d /\ r \in Reservations /\ db[d].customers > 0
    BY <1>1, <1>2, <1>3, <1>4 DEF At, LeadRequest
  <2>2. LeadRequest(q, db[d])'
    BY <2>1, <1>4, <1>10, <1>13 DEF LeadRequest
  <2> QED  BY <2>1, <2>2 DEF MayGoOn
<1>19. \A e \in Calls \ {c} : ~SameJob(call[e], q)
  BY <1>3, <1>4 DEF SameJob, At
<1>20. ASSUME tidy' PROVE TurnHolds(q)'
  <2>1. TurnHolds(p)
    BY <1>20, <1>2, <1>3 DEF Goto, OutreachInv, OutreachTurns
  <2>2. \A x \in LeadRows : LeadTurn(q, x, db[x])
    BY <2>1, <1>4 DEF TurnHolds, LeadTurn
  <2>3. ASSUME NEW n \in Notices PROVE NoticeTurn(q, n, db[n])
    <3>1. \A j : ~Does(p, n, j) /\ ~Does(q, n, j) /\ ~Queues(p, n) /\ ~Queues(q, n)
      BY <1>3, <1>4 DEF Does, Queues, At
    <3> QED  BY <2>1, <3>1, TurnElsewhere DEF TurnHolds
  <2>4. \A x \in LeadRows : LeadTurn(q, x, db[x])'
    BY <2>2, <1>10 DEF LeadTurn
  <2>5. \A n \in Notices : NoticeTurn(q, n, db[n])'
    BY <2>3, <1>10 DEF NoticeTurn, Does, Queues
  <2> QED  BY <2>4, <2>5 DEF TurnHolds
<1>21. call' = [call EXCEPT ![c] = q] /\ tidy' \in BOOLEAN
       /\ (tidy' => tidy /\ (call[c] = Idle => Alone) /\ TurnHolds(q)')
  BY <1>2, <1>4, <1>20 DEF Goto, OutreachInv, OutreachTyped
<1>22. \A e \in OutreachCall : MayGoOn(e) /\ ~SameJob(e, call[c]) => MayGoOn(e)'
  BY <1>17
<1> QED  BY <1>14, <1>15, <1>16, <1>18, <1>19, <1>21, <1>22, RequestMoves

LEMMA ReserveForKeeps ==
    ASSUME OutreachInv, NEW c \in Calls, NEW d \in LeadRows, NEW r \in Reservations,
           ReserveUnitForProspect(c, d, r)
    PROVE  OutreachInv'
<1>1. PICK p \in LeadRow : p = db[d] /\ LeadOK(p) /\ db = [db EXCEPT ![d] = p]
  BY LeadFacts
<1>2. CASE /\ ProspectOpen(d)
           /\ Enter(c, "reserveFor", IF db[d].linked THEN "check" ELSE "customer", d, r, None)
  <2> DEFINE at == IF p.linked THEN "check" ELSE "customer"
             q == [op |-> "reserveFor", at |-> at, row |-> d, arg |-> r, seen |-> None]
  <2>1. q \in OutreachCall
    BY DEF OutreachCall, LeadOps, OutreachRows
  <2>2. LeadRequest(q, db[d])
    BY <1>1 DEF LeadRequest, LeadOK, LeadRow
  <2>3. tidy /\ TurnHolds(Idle) => LeadTurn(q, d, db[d])
    BY <1>2 DEF TurnHolds, LeadTurn, ProspectOpen
  <2> QED  BY <1>1, <1>2, <2>1, <2>2, <2>3, LeadEnters
<1>3. CASE /\ At(c, "reserveFor", "customer", d, r) /\ db[d].customers < MostCustomers
           /\ db' = [db EXCEPT ![d].customers = @ + 1]
           /\ Goto(c, "check")
  <2>1. PICK m \in 1..MostCustomers : m = p.customers + 1
    BY <1>1, <1>3, OutreachAssumption DEF LeadRow
  <2> DEFINE v == [p EXCEPT !.customers = m]
             q == [call[c] EXCEPT !.at = "check"]
  <2>2. LeadAt(c, "reserveFor", "customer", d) /\ OfRow(call[c], d)
    BY <1>3 DEF At, LeadAt, LeadOps, OfRow
  <2>3. /\ call[c] \in OutreachCall /\ call[c] # Idle
        /\ LeadRequest(call[c], p) /\ (tidy => LeadTurn(call[c], d, p))
    BY <2>2, <1>1, LeadUnderWay
  <2>4. v \in LeadRow /\ v.customers > 0
    BY <2>1, OutreachAssumption DEF LeadRow
  <2>5. LeadOK(v) /\ (Reserved(p) => Reserved(v))
    BY <1>1, <2>4 DEF LeadOK, Reserved, LeadRow
  <2>6. q \in OutreachCall /\ q.op = "reserveFor" /\ q.at = "check" /\ q.row = d /\ q.arg = r
    BY <2>3, <1>3 DEF OutreachCall, At
  <2>7. LeadRequest(q, v) /\ (tidy => LeadTurn(q, d, v))
    BY <2>3, <2>4, <2>6, <1>3 DEF LeadRequest, LeadTurn, At, LeadRow
  <2>8. db' = [db EXCEPT ![d] = v]
    BY <1>1, <1>3, <2>1
  <2>9. call' = [call EXCEPT ![c] = q] /\ tidy' = tidy /\ tidy \in BOOLEAN
    BY <1>3 DEF Goto, OutreachInv, OutreachTyped
  <2> HIDE DEF q, v
  <2> QED  BY <1>1, <2>2, <2>3, <2>4, <2>5, <2>6, <2>7, <2>8, <2>9, LeadMoves
<1>4. CASE /\ At(c, "reserveFor", "check", d, r) /\ UNCHANGED db
           /\ IF MayReserve(r) THEN Goto(c, "reserve") ELSE Leave(c)
  <2>1. LeadAt(c, "reserveFor", "check", d) /\ OfRow(call[c], d)
    BY <1>4 DEF At, LeadAt, LeadOps, OfRow
  <2>2. /\ call[c] \in OutreachCall /\ call[c] # Idle
        /\ LeadRequest(call[c], p) /\ (tidy => LeadTurn(call[c], d, p))
    BY <2>1, <1>1, LeadUnderWay
  <2>3. CASE Goto(c, "reserve")
    <3> DEFINE q == [call[c] EXCEPT !.at = "reserve"]
    <3>1. q \in OutreachCall /\ q.op = "reserveFor" /\ q.at = "reserve" /\ q.row = d /\ q.arg = r
      BY <2>2, <1>4 DEF OutreachCall, At
    <3>2. LeadRequest(q, p) /\ (tidy => LeadTurn(q, d, p))
      BY <2>2, <3>1, <1>4 DEF LeadRequest, LeadTurn, At
    <3>3. call' = [call EXCEPT ![c] = q] /\ tidy' = tidy /\ tidy \in BOOLEAN
      BY <2>3 DEF Goto, OutreachInv, OutreachTyped
    <3> HIDE DEF q
    <3> QED  BY <1>1, <1>4, <2>1, <2>2, <3>1, <3>2, <3>3, LeadMoves
  <2>4. CASE Leave(c)
    <3>1. tidy => LeadTurn(Idle, d, p)
      BY <2>2 DEF LeadTurn, Idle
    <3> QED  BY <1>1, <1>4, <2>1, <2>4, <3>1, LeadLeaves
  <2> QED  BY <1>4, <2>3, <2>4
<1>5. CASE At(c, "reserveFor", "reserve", d, r) /\ MakeReservation(r) /\ Goto(c, "prospect")
  BY <1>5, ReservationMoves
<1>6. CASE /\ At(c, "reserveFor", "prospect", d, r)
           /\ db' = [db EXCEPT ![d].stage = "RESERVED", ![d].linked = TRUE, ![d].reservation = r]
           /\ Leave(c)
  <2> DEFINE v == [p EXCEPT !.stage = "RESERVED", !.linked = TRUE, !.reservation = r]
  <2>1. LeadAt(c, "reserveFor", "prospect", d)
    BY <1>6 DEF At, LeadAt, LeadOps
  <2>2. LeadRequest(call[c], p) /\ (tidy => LeadTurn(call[c], d, p))
    BY <2>1, <1>1, LeadUnderWay
  <2>3. v \in LeadRow /\ v.linked /\ v.customers = p.customers /\ v.stage = "RESERVED"
        /\ v.reservation = r /\ v.status = p.status /\ v.won = p.won
    BY DEF LeadRow, OpenStages
  <2>4. p.customers > 0 /\ Made(r)
    BY <2>2, <1>6 DEF LeadRequest, At
  <2>5. LeadOK(v) /\ Reserved(v)
    BY <2>3, <2>4 DEF LeadOK, Reserved
  <2>6. tidy => LeadTurn(Idle, d, v)
    BY <2>2, <2>3, <1>6 DEF LeadTurn, Idle, At, OpenStages
  <2>7. db' = [db EXCEPT ![d] = v]
    <3>1. d \in DOMAIN db
      BY LeadFacts DEF OutreachInv, OutreachTyped, OutreachRowsTyped
    <3> QED  BY <3>1, <1>1, <1>6
  <2> HIDE DEF v
  <2> QED  BY <1>1, <1>6, <2>1, <2>3, <2>4, <2>5, <2>6, <2>7, LeadLeaves
<1> QED  BY <1>2, <1>3, <1>4, <1>5, <1>6 DEF ReserveUnitForProspect

-----------------------------------------------------------------------------
(* Notifications *)

LEMMA NoticeFacts ==
    ASSUME OutreachInv, NEW n \in Notices
    PROVE  /\ db[n] \in NoticeRow /\ NoticeOK(n, db[n]) /\ db = [db EXCEPT ![n] = db[n]]
           /\ n \in OutreachRows /\ n \notin LeadRows
<1>1. OutreachRowsTyped /\ n \in DOMAIN db
  BY DEF OutreachInv, OutreachTyped, OutreachRowsTyped, OutreachRows
<1>2. db = [db EXCEPT ![n] = db[n]]
  BY <1>1 DEF OutreachRowsTyped
<1> QED  BY <1>1, <1>2, OutreachAssumption DEF OutreachInv, OutreachRowsTyped, OutreachRows

\* Only rows of notifications are written.
LEMMA NoticesWritten ==
    ASSUME OutreachInv, DOMAIN db' = DOMAIN db, db' = [x \in DOMAIN db' |-> db'[x]],
           \A x \in OutreachRows \ Notices : db'[x] = db[x],
           \A n \in Notices : db'[n] \in NoticeRow /\ NoticeOK(n, db'[n])
    PROVE  /\ OutreachRowsTyped'
           /\ \A d \in LeadRows : LeadOK(db[d])'
           /\ \A n \in Notices : NoticeOK(n, db[n])'
<1>1. OutreachRowsTyped
  BY DEF OutreachInv, OutreachTyped
<1>2. \A x \in LeadRows \cup Reservations \cup Units : db'[x] = db[x]
  BY OutreachAssumption DEF OutreachRows
<1>3. OutreachRowsTyped'
  BY <1>1, <1>2 DEF OutreachRowsTyped
<1>4. \A d \in LeadRows : LeadOK(db[d])'
  <2>1. \A r : Made(r) => Made(r)'
    BY <1>2 DEF Made
  <2> QED  BY <1>2, <2>1 DEF OutreachInv, LeadOK, Reserved
<1>5. \A n \in Notices : NoticeOK(n, db[n])'
  BY DEF NoticeOK
<1> QED  BY <1>3, <1>4, <1>5

\* What a notification keeps for the requests on it but for p's job.
Grows(n, u, v, p) ==
    /\ u.status # "ABSENT" => v.status # "ABSENT"
    /\ u.messages <= v.messages
    /\ u.reports \subseteq v.reports
    /\ \A j \in Jobs : u.left[j] > 0 => v.left[j] > 0 \/ Does(p, n, j)

LEMMA NoticeRequestStays ==
    ASSUME NEW n \in Notices, NEW u \in NoticeRow, NEW v \in NoticeRow, NEW p, Grows(n, u, v, p),
           NEW q, q.row = n, NoticeRequest(q, u), ~SameJob(q, p)
    PROVE  NoticeRequest(q, v)
<1>1. CASE q.op = "job"
  <2>1. /\ q.arg \in Jobs /\ u.left[q.arg] > 0
        /\ q.at \in {"run", "record", "end", "failed", "rethrow"}
        /\ q.arg = 0 => q.at \in {"run", "end"}
        /\ q.at = "record" => q.seen \in 1..u.messages
    BY <1>1 DEF NoticeRequest
  <2>2. ~Does(p, n, q.arg)
    BY <1>1 DEF Does, SameJob
  <2>3. v.left[q.arg] > 0
    BY <2>1, <2>2 DEF Grows
  <2>4. u.messages \in Nat /\ v.messages \in Nat /\ u.messages <= v.messages
    BY DEF NoticeRow, Grows
  <2>5. q.at = "record" => q.seen \in 1..v.messages
    BY <2>1, <2>4
  <2> QED  BY <1>1, <2>1, <2>3, <2>5 DEF NoticeRequest
<1>2. CASE q.op # "job"
  BY <1>2 DEF NoticeRequest, Grows
<1> QED  BY <1>1, <1>2

LEMMA RequestsStay ==
    ASSUME OutreachInv, NEW p,
           \A x \in OutreachRows \ Notices : db'[x] = db[x],
           \A n \in Notices : db'[n] \in NoticeRow /\ Grows(n, db[n], db'[n], p),
           NEW q \in OutreachCall, MayGoOn(q), ~SameJob(q, p)
    PROVE  MayGoOn(q)'
<1>1. \A x \in LeadRows \cup Reservations \cup Units : db'[x] = db[x]
  BY OutreachAssumption DEF OutreachRows
<1>2. CASE q.row \in LeadRows /\ LeadRequest(q, db[q.row])
  <2>1. \A r : Made(r) => Made(r)'
    BY <1>1 DEF Made
  <2> QED  BY <1>1, <1>2, <2>1 DEF MayGoOn, LeadRequest, Reserved
<1>3. CASE q.row \in Notices /\ NoticeRequest(q, db[q.row])
  <2>1. NoticeRequest(q, db'[q.row])
    BY <1>3, NoticeFacts, NoticeRequestStays
  <2> QED  BY <1>3, <2>1 DEF MayGoOn, NoticeRequest
<1>4. CASE q = Idle
  BY <1>4 DEF MayGoOn
<1> QED  BY <1>2, <1>3, <1>4 DEF MayGoOn

LEMMA NoticeTurnMoves ==
    ASSUME OutreachInv, NEW p \in OutreachCall, NEW q \in OutreachCall,
           NEW n \in Notices, NEW v \in NoticeRow, db' = [db EXCEPT ![n] = v],
           OfRow(p, n), OfRow(q, n), TurnHolds(p), NoticeTurn(q, n, v)
    PROVE  TurnHolds(q)'
<1>1. n \in DOMAIN db /\ OutreachRowsTyped
  BY NoticeFacts DEF OutreachInv, OutreachTyped, OutreachRowsTyped
<1>2. /\ \A m \in Notices : db'[m] = IF m = n THEN v ELSE db[m]
      /\ \A d \in LeadRows : db'[d] = db[d] /\ d # n
  BY <1>1, OutreachAssumption DEF OutreachRowsTyped, OutreachRows
<1>3. ASSUME NEW d \in LeadRows PROVE LeadTurn(q, d, db[d])'
  <2>1. LeadTurn(p, d, db[d])
    BY DEF TurnHolds
  <2>2. LeadTurn(q, d, db[d])
    BY <2>1, <1>2 DEF LeadTurn, OfRow, Idle
  <2> QED  BY <2>2, <1>2 DEF LeadTurn
<1>4. ASSUME NEW m \in Notices PROVE NoticeTurn(q, m, db[m])'
  <2>1. CASE m = n
    BY <2>1, <1>2 DEF NoticeTurn, Does, Queues
  <2>2. CASE m # n
    <3>1. NoticeTurn(p, m, db[m])
      BY DEF TurnHolds
    <3>2. \A j : ~Does(p, m, j) /\ ~Does(q, m, j)
      BY <2>2 DEF Does, OfRow, Idle
    <3>3. ~Queues(p, m) /\ ~Queues(q, m)
      BY <2>2 DEF Queues, OfRow, Idle
    <3>4. NoticeTurn(q, m, db[m])
      BY <3>1, <3>2, <3>3, TurnElsewhere
    <3> QED  BY <2>2, <3>4, <1>2 DEF NoticeTurn, Does, Queues
  <2> QED  BY <2>1, <2>2
<1> QED  BY <1>3, <1>4 DEF TurnHolds

\* A request on a notification goes on to q, and the row becomes v.
LEMMA NoticeMoves ==
    ASSUME OutreachInv, NEW c \in Calls, NEW q \in OutreachCall,
           NEW n \in Notices, NEW v \in NoticeRow, NoticeOK(n, v),
           call' = [call EXCEPT ![c] = q], db' = [db EXCEPT ![n] = v],
           OfRow(call[c], n), Grows(n, db[n], v, call[c]),
           q = Idle \/ (q.row = n /\ NoticeRequest(q, v)),
           \A e \in Calls \ {c} : ~SameJob(call[e], q),
           tidy' \in BOOLEAN, tidy' => tidy /\ (call[c] = Idle => Alone) /\ NoticeTurn(q, n, v)
    PROVE  OutreachInv'
<1>1. n \in DOMAIN db /\ OutreachRowsTyped
  BY NoticeFacts DEF OutreachInv, OutreachTyped, OutreachRowsTyped
<1>2. \A x \in OutreachRows : db'[x] = IF x = n THEN v ELSE db[x]
  BY <1>1 DEF OutreachRowsTyped
<1>3. \A m \in Notices : db[m] \in NoticeRow /\ NoticeOK(m, db[m])
  BY NoticeFacts
<1>4. /\ DOMAIN db' = DOMAIN db /\ db' = [x \in DOMAIN db' |-> db'[x]]
      /\ \A x \in OutreachRows \ Notices : db'[x] = db[x]
      /\ \A m \in Notices : db'[m] \in NoticeRow /\ NoticeOK(m, db'[m])
  BY <1>1, <1>2, <1>3 DEF OutreachRows, OutreachRowsTyped
<1>5. /\ OutreachRowsTyped'
      /\ \A d \in LeadRows : LeadOK(db[d])'
      /\ \A m \in Notices : NoticeOK(m, db[m])'
  BY <1>4, NoticesWritten
<1>6. \A m \in Notices : Grows(m, db[m], db'[m], call[c])
  <2> SUFFICES ASSUME NEW m \in Notices, m # n PROVE Grows(m, db[m], db'[m], call[c])
    BY <1>2 DEF OutreachRows
  <2>1. db'[m] = db[m] /\ db[m].messages \in Nat
    BY <1>2, <1>3 DEF OutreachRows, NoticeRow
  <2> QED  BY <2>1 DEF Grows
<1>7. \A p \in OutreachCall : MayGoOn(p) /\ ~SameJob(p, call[c]) => MayGoOn(p)'
  BY <1>4, <1>6, RequestsStay
<1>8. MayGoOn(q)'
  BY <1>2 DEF MayGoOn, NoticeRequest, OutreachRows
<1>9. tidy' => TurnHolds(q)'
  <2>1. SUFFICES ASSUME tidy' PROVE TurnHolds(q)'
    OBVIOUS
  <2>2. TurnHolds(call[c]) /\ call[c] \in OutreachCall /\ OfRow(q, n)
    BY <2>1, TurnOf DEF OutreachInv, OutreachTyped, OfRow
  <2> QED  BY <2>1, <2>2, NoticeTurnMoves
<1> QED  BY <1>5, <1>7, <1>8, <1>9, RequestMoves

LEMMA NoticeUnderWay ==
    ASSUME OutreachInv, NEW c \in Calls, NEW n \in Notices, NEW op \in NoticeOps, NEW at, NEW arg,
           At(c, op, at, n, arg)
    PROVE  /\ call[c] # Idle /\ call[c] \in OutreachCall /\ NoticeRequest(call[c], db[n])
           /\ OfRow(call[c], n)
           /\ tidy => NoticeTurn(call[c], n, db[n])
<1>1. call[c] # Idle /\ call[c] \in OutreachCall /\ MayGoOn(call[c]) /\ OfRow(call[c], n)
  BY DEF At, Idle, NoticeOps, OutreachInv, OutreachTyped, OfRow
<1>2. tidy => TurnHolds(call[c])
  BY <1>1 DEF OutreachInv, OutreachTurns
<1> QED  BY <1>1, <1>2, NoticeFacts DEF MayGoOn, At, TurnHolds

\* A request on n that is under way goes on with the same thing, or ends.
LEMMA NoticeGoes ==
    ASSUME OutreachInv, NEW c \in Calls, NEW n \in Notices, NEW op \in NoticeOps, NEW at, NEW arg,
           At(c, op, at, n, arg), NEW q \in OutreachCall, NEW v \in NoticeRow, NoticeOK(n, v),
           call' = [call EXCEPT ![c] = q], db' = [db EXCEPT ![n] = v],
           Grows(n, db[n], v, call[c]),
           q = Idle \/ (q.op = op /\ q.row = n /\ q.arg = arg /\ NoticeRequest(q, v)),
           tidy' \in BOOLEAN, tidy' => tidy /\ NoticeTurn(q, n, v)
    PROVE  OutreachInv'
<1>1. call[c] # Idle /\ OfRow(call[c], n)
  BY NoticeUnderWay
<1>2. \A e \in Calls \ {c} : ~SameJob(call[e], q)
  <2>1. SUFFICES ASSUME NEW e \in Calls \ {c}, SameJob(call[e], q) PROVE SameJob(call[e], call[c])
    BY DEF OutreachInv, JobsApart
  <2> QED  BY <2>1, IdleIsACall DEF SameJob, At
<1> QED  BY <1>1, <1>2, NoticeMoves

LEMMA NoticeLeaves ==
    ASSUME OutreachInv, NEW c \in Calls, NEW n \in Notices, NEW op \in NoticeOps, NEW at, NEW arg,
           At(c, op, at, n, arg), NEW v \in NoticeRow, NoticeOK(n, v),
           db' = [db EXCEPT ![n] = v], Grows(n, db[n], v, call[c]),
           Leave(c), tidy => NoticeTurn(Idle, n, v)
    PROVE  OutreachInv'
<1>1. call' = [call EXCEPT ![c] = Idle] /\ tidy' = tidy /\ tidy \in BOOLEAN
  BY DEF Leave, OutreachInv, OutreachTyped
<1> QED  BY <1>1, NoticeGoes, IdleIsACall

LEMMA GrowsNot ==
    ASSUME NEW n \in Notices, NEW u \in NoticeRow, NEW p PROVE Grows(n, u, u, p)
BY DEF Grows, NoticeRow

\* The request stops between two statements, or the row stays as it is.
LEMMA NoticeStays ==
    ASSUME OutreachInv, NEW c \in Calls, NEW n \in Notices, NEW op \in NoticeOps, NEW at, NEW arg,
           At(c, op, at, n, arg), NEW q \in OutreachCall, UNCHANGED db,
           call' = [call EXCEPT ![c] = q],
           q.op = op /\ q.row = n /\ q.arg = arg /\ NoticeRequest(q, db[n]),
           tidy' \in BOOLEAN, tidy' => tidy /\ NoticeTurn(q, n, db[n])
    PROVE  OutreachInv'
<1>1. PICK v \in NoticeRow : v = db[n] /\ NoticeOK(n, v) /\ db = [db EXCEPT ![n] = v]
  BY NoticeFacts
<1>2. Grows(n, v, v, call[c])
  BY GrowsNot
<1> QED  BY <1>1, <1>2, NoticeGoes

LEMMA NoticeEnters ==
    ASSUME OutreachInv, NEW c \in Calls, NEW n \in Notices, NEW op \in NoticeOps, NEW at, NEW arg,
           NEW q, q = [op |-> op, at |-> at, row |-> n, arg |-> arg, seen |-> None],
           q \in OutreachCall, Enter(c, op, at, n, arg, None), NoticeRequest(q, db[n]),
           \A e \in Calls : ~SameJob(call[e], q),
           tidy /\ NoticeTurn(Idle, n, db[n]) => NoticeTurn(q, n, db[n])
    PROVE  OutreachInv'
<1>1. PICK v \in NoticeRow : v = db[n] /\ NoticeOK(n, v) /\ db' = [db EXCEPT ![n] = v]
  BY NoticeFacts DEF Enter
<1>2. OfRow(call[c], n) /\ call' = [call EXCEPT ![c] = q] /\ q.row = n
  BY DEF Enter, OfRow
<1>3. tidy' \in BOOLEAN /\ (tidy' => tidy /\ Alone)
  BY DEF Enter, OutreachInv, OutreachTyped
<1>4. tidy' => NoticeTurn(q, n, v)
  BY <1>1, <1>3 DEF OutreachInv, OutreachTurns, TurnHolds
<1>5. Grows(n, db[n], v, call[c])
  BY <1>1, GrowsNot
<1> QED  BY <1>1, <1>2, <1>3, <1>4, <1>5, NoticeMoves

\* A job of r may be tried k times in v, and all else is the same.
LeftIs(r, v, j, k) ==
    /\ v.left[j] = k /\ \A i \in Jobs \ {j} : v.left[i] = r.left[i]
    /\ v.status = r.status /\ v.queued = r.queued /\ v.messages = r.messages
    /\ v.reports = r.reports /\ v.skipped = r.skipped

LEMMA LeftWritten ==
    ASSUME NEW r \in NoticeRow, NEW j \in Jobs, NEW k \in 0..Attempts
    PROVE  \E v \in NoticeRow :
              /\ v = [r EXCEPT !.left[j] = k] /\ LeftIs(r, v, j, k)
              /\ \A n : NoticeOK(n, r) => NoticeOK(n, v)
<1> DEFINE v == [r EXCEPT !.left[j] = k]
<1>1. r.left \in [Jobs -> 0..Attempts]
  BY DEF NoticeRow
<1>2. PICK f \in [Jobs -> 0..Attempts] : f = [r.left EXCEPT ![j] = k]
  BY <1>1
<1>3. v = [r EXCEPT !.left = f]
  BY <1>2
<1>4. f[j] = k /\ \A i \in Jobs \ {j} : f[i] = r.left[i]
  BY <1>1, <1>2
<1> HIDE DEF v
<1>5. /\ v \in NoticeRow /\ v.left = f
      /\ v.status = r.status /\ v.delivered = r.delivered /\ v.known = r.known
      /\ v.queued = r.queued /\ v.messages = r.messages /\ v.reports = r.reports
      /\ v.skipped = r.skipped
  BY <1>3 DEF NoticeRow
<1>6. \A n : NoticeOK(n, r) => NoticeOK(n, v)
  BY <1>5 DEF NoticeOK
<1>7. LeftIs(r, v, j, k)
  BY <1>4, <1>5 DEF LeftIs
<1> QED  BY <1>5, <1>6, <1>7 DEF v

LEMMA JobNumbers == 0 \in Jobs /\ 1 \in Jobs /\ Jobs \subseteq Nat /\ Attempts \in Nat \ {0}
BY MessagesAssumption DEF Jobs

\* The turn of a request that neither queues nor does a job, as the row gets a status.
LEMMA StatusTurn ==
    ASSUME NEW n \in Notices, NEW p, NEW q, NEW r \in NoticeRow, NEW v \in NoticeRow,
           NoticeTurn(p, n, r), \A j : ~Does(p, n, j) /\ ~Does(q, n, j),
           ~Queues(p, n), ~Queues(q, n),
           v.status # "ABSENT" /\ v.status # "PENDING",
           v.left = r.left /\ v.queued = r.queued /\ v.messages = r.messages
    PROVE  NoticeTurn(q, n, v)
BY DEF NoticeTurn

LEMMA CreateNotificationKeeps ==
    ASSUME OutreachInv, NEW c \in Calls, NEW n \in Notices, CreateNotification(c, n)
    PROVE  OutreachInv'
<1>1. PICK r \in NoticeRow : r = db[n] /\ NoticeOK(n, r)
  BY NoticeFacts
<1>2. "notification" \in NoticeOps
  BY DEF NoticeOps
<1>3. CASE In(n, {"ABSENT"}) /\ Enter(c, "notification", "insert", n, None, None)
  <2> DEFINE q == [op |-> "notification", at |-> "insert", row |-> n, arg |-> None, seen |-> None]
  <2>1. q \in OutreachCall /\ NoticeRequest(q, db[n]) /\ \A e \in Calls : ~SameJob(call[e], q)
    BY NoticeFacts DEF OutreachCall, NoticeOps, NoticeRequest, SameJob
  <2>2. \A j : ~Does(Idle, n, j) /\ ~Does(q, n, j) /\ ~Queues(Idle, n) /\ ~Queues(q, n)
    BY DEF Does, Queues, Idle
  <2>3. NoticeTurn(Idle, n, db[n]) => NoticeTurn(q, n, db[n])
    BY <2>2, TurnElsewhere
  <2>4. q = [op |-> "notification", at |-> "insert", row |-> n, arg |-> None, seen |-> None]
    OBVIOUS
  <2> HIDE DEF q
  <2> QED  BY <1>3, <1>2, <2>1, <2>3, <2>4, NoticeEnters
<1>4. CASE /\ At(c, "notification", "insert", n, None)
           /\ In(n, {"ABSENT"}) /\ Becomes(n, "PENDING") /\ Goto(c, "enqueue")
  <2>1. call[c] \in OutreachCall /\ (tidy => NoticeTurn(call[c], n, r))
    BY <1>1, <1>2, <1>4, NoticeUnderWay
  <2>2. PICK p \in OutreachCall : p = call[c]
    BY <2>1
  <2>3. [p EXCEPT !.at = "enqueue"] \in OutreachCall /\ [r EXCEPT !.status = "PENDING"] \in NoticeRow
    BY DEF OutreachCall, NoticeRow
  <2>4. PICK q \in OutreachCall : q = [p EXCEPT !.at = "enqueue"]
    BY <2>3
  <2>5. PICK v \in NoticeRow : v = [r EXCEPT !.status = "PENDING"]
    BY <2>3
  <2>6. q.op = "notification" /\ q.at = "enqueue" /\ q.row = n /\ q.arg = None
    BY <1>4, <2>2, <2>4 DEF At, OutreachCall
  <2>7. /\ v.status = "PENDING" /\ v.left = r.left /\ v.queued = r.queued
        /\ v.messages = r.messages /\ r.status = "ABSENT"
    BY <1>1, <1>4, <2>5 DEF In, NoticeRow
  <2>8. NoticeOK(n, v) /\ NoticeRequest(q, v) /\ Grows(n, r, v, call[c])
    BY <1>1, <2>5, <2>6 DEF NoticeOK, NoticeRow, NoticeRequest, Grows
  <2>9. tidy => NoticeTurn(q, n, v)
    <3>1. SUFFICES ASSUME tidy PROVE NoticeTurn(q, n, v)
      OBVIOUS
    <3>2. r.queued = 0 /\ r.left[0] = 0 /\ r.messages <= 0 /\ \A j \in Jobs : j > 0 => r.left[j] = 0
      BY <2>1, <2>7, <3>1 DEF NoticeTurn
    <3>3. Queues(q, n)
      BY <2>6 DEF Queues
    <3>4. r.messages \in Nat /\ r.left[1] = 0
      BY <3>2, JobNumbers DEF NoticeRow
    <3> QED  BY <2>7, <3>2, <3>3, <3>4 DEF NoticeTurn
  <2>10. call' = [call EXCEPT ![c] = q] /\ tidy' = tidy /\ tidy \in BOOLEAN
    BY <1>4, <2>2, <2>4 DEF Goto, OutreachInv, OutreachTyped
  <2>11. db' = [db EXCEPT ![n] = v]
    BY <1>1, <1>4, <2>5 DEF Becomes
  <2>12. At(c, "notification", "insert", n, None)
    BY <1>4
  <2> QED  BY <1>1, <1>2, <2>12, <2>6, <2>8, <2>9, <2>10, <2>11, NoticeGoes
<1>5. CASE /\ At(c, "notification", "enqueue", n, None)
           /\ db' = [db EXCEPT ![n].left[0] = Attempts] /\ Leave(c)
  <2>1. NoticeRequest(call[c], r) /\ (tidy => NoticeTurn(call[c], n, r))
    BY <1>1, <1>2, <1>5, NoticeUnderWay
  <2>6. PICK v \in NoticeRow :
           v = [r EXCEPT !.left[0] = Attempts] /\ LeftIs(r, v, 0, Attempts) /\ NoticeOK(n, v)
    <3>1. 0 \in Jobs /\ Attempts \in 0..Attempts
      BY JobNumbers
    <3> QED  BY <1>1, <3>1, LeftWritten
  <2>2. /\ v.left[0] = Attempts /\ \A i \in Jobs \ {0} : v.left[i] = r.left[i]
        /\ v.status = r.status /\ v.queued = r.queued /\ v.messages = r.messages
        /\ v.reports = r.reports /\ v.skipped = r.skipped
    BY <2>6 DEF LeftIs
  <2>3. db' = [db EXCEPT ![n] = v]
    BY <1>1, <1>5, <2>6
  <2>4. Grows(n, r, v, call[c])
    BY <2>2, JobNumbers DEF Grows, NoticeRow
  <2>5. tidy => NoticeTurn(Idle, n, v)
    <3>1. SUFFICES ASSUME tidy PROVE NoticeTurn(Idle, n, v)
      OBVIOUS
    <3>2. Queues(call[c], n) /\ r.status # "ABSENT" /\ \A j : ~Does(call[c], n, j)
      BY <1>5, <2>1 DEF Queues, At, NoticeRequest, Does
    <3>3. /\ r.queued = 0 /\ r.messages <= 0 /\ \A j \in Jobs : j > 0 => r.left[j] = 0
      BY <2>1, <3>1, <3>2 DEF NoticeTurn
    <3>4. r.messages \in Nat /\ r.left[1] = 0 /\ ~Queues(Idle, n) /\ ~Does(Idle, n, 0)
      BY <3>3, JobNumbers DEF NoticeRow, Queues, Does, Idle
    <3> QED  BY <2>2, <3>2, <3>3, <3>4, JobNumbers DEF NoticeTurn
  <2> QED  BY <1>1, <1>2, <1>5, <2>3, <2>4, <2>5, <2>6, NoticeLeaves
<1> QED  BY <1>3, <1>4, <1>5 DEF CreateNotification

\* A worker that takes a job is the only one to do it.
LEMMA TakeKeeps ==
    ASSUME OutreachInv, NEW c \in Calls, NEW n \in Notices, NEW j \in Jobs, Take(c, n, j)
    PROVE  OutreachInv'
<1>1. PICK r \in NoticeRow : r = db[n]
  BY NoticeFacts
<1> DEFINE q == [op |-> "job", at |-> "run", row |-> n, arg |-> j, seen |-> None]
<1>2. r.left[j] > 0 /\ \A e \in Calls : ~SameJob(call[e], q)
  BY <1>1 DEF Take, Waiting, SameJob
<1>3. q \in OutreachCall /\ NoticeRequest(q, r)
  BY <1>2, NoticeFacts DEF OutreachCall, NoticeOps, NoticeRequest
<1>4. NoticeTurn(Idle, n, r) => NoticeTurn(q, n, r)
  <2>1. \A i : ~Does(Idle, n, i) /\ ~Queues(Idle, n) /\ ~Queues(q, n)
    BY DEF Does, Queues, Idle
  <2>2. q.at \notin {"end", "rethrow"}
    OBVIOUS
  <2> HIDE DEF q
  <2> SUFFICES ASSUME NoticeTurn(Idle, n, r) PROVE NoticeTurn(q, n, r)
    OBVIOUS
  <2>3. r.status = "PENDING" => r.skipped \/ \E i \in Jobs : r.left[i] > 0
    BY <2>1 DEF NoticeTurn
  <2>4. r.left[0] > 0 => r.queued = 0
    BY <2>1 DEF NoticeTurn
  <2>5. ~(r.messages > 0 /\ r.left[1] > 0)
    BY <2>1 DEF NoticeTurn
  <2> QED  BY <2>1, <2>2, <2>3, <2>4, <2>5 DEF NoticeTurn
<1>5. q = [op |-> "job", at |-> "run", row |-> n, arg |-> j, seen |-> None]
  OBVIOUS
<1> HIDE DEF q
<1>6. Enter(c, "job", "run", n, j, None) /\ NoticeRequest(q, db[n]) /\ "job" \in NoticeOps
  BY <1>1, <1>3 DEF Take, NoticeOps
<1>7. tidy /\ NoticeTurn(Idle, n, db[n]) => NoticeTurn(q, n, db[n])
  BY <1>1, <1>4
<1> QED  BY <1>2, <1>3, <1>5, <1>6, <1>7, NoticeEnters

\* A job that is over, and one that is tried again or dropped.
LEMMA JobEnds ==
    ASSUME OutreachInv, NEW c \in Calls, NEW n \in Notices, NEW j \in Jobs, NEW at,
           At(c, "job", at, n, j), NEW k, k \in 0..Attempts, db' = [db EXCEPT ![n].left[j] = k],
           k <= db[n].left[j], tidy' \in BOOLEAN,
           call' = [call EXCEPT ![c] = Idle],
           tidy' => tidy /\ ((at = "end" /\ k = 0) \/ (at = "rethrow" /\ j # 0))
    PROVE  OutreachInv'
<1>1. PICK r \in NoticeRow : r = db[n] /\ NoticeOK(n, r)
  BY NoticeFacts
<1>2. NoticeRequest(call[c], r) /\ (tidy => NoticeTurn(call[c], n, r)) /\ "job" \in NoticeOps
  BY <1>1, NoticeUnderWay DEF NoticeOps
<1>9. PICK v \in NoticeRow :
         v = [r EXCEPT !.left[j] = k] /\ LeftIs(r, v, j, k) /\ NoticeOK(n, v)
  BY <1>1, LeftWritten
<1>3. /\ v.left[j] = k /\ \A i \in Jobs \ {j} : v.left[i] = r.left[i]
      /\ v.status = r.status /\ v.queued = r.queued /\ v.messages = r.messages
      /\ v.reports = r.reports /\ v.skipped = r.skipped
  BY <1>9 DEF LeftIs
<1>4. db' = [db EXCEPT ![n] = v]
  BY <1>1, <1>9
<1>5. Does(call[c], n, j) /\ \A i : i # j => ~Does(call[c], n, i)
  BY DEF Does, At
<1>6. Grows(n, r, v, call[c])
  BY <1>3, <1>5 DEF Grows, NoticeRow
<1>7. ASSUME tidy' PROVE NoticeTurn(Idle, n, v)
  <2>1. /\ r.queued <= 1 /\ r.messages <= r.queued
        /\ \A i \in Jobs : i > r.queued => r.left[i] = 0
        /\ r.left[0] > 0 => r.queued = 0 \/ (Does(call[c], n, 0) /\ call[c].at = "end")
        /\ r.messages > 0 /\ r.left[1] > 0 => Does(call[c], n, 1) /\ call[c].at \in {"record", "end"}
        /\ r.status = "ABSENT" => r.queued = 0 /\ r.left[0] = 0
        /\ r.status = "PENDING" =>
              \/ r.skipped \/ Queues(call[c], n)
              \/ \E i \in Jobs : r.left[i] > 0 /\ ~(Does(call[c], n, i) /\ call[c].at \in {"end", "rethrow"})
    BY <1>2, <1>7 DEF NoticeTurn
  <2>2. /\ call[c].at = at /\ at \in {"end", "rethrow"} /\ ~Queues(call[c], n) /\ ~Queues(Idle, n)
        /\ \A i : ~Does(Idle, n, i)
    BY <1>7 DEF At, Queues, Does, Idle
  <2>3. k = 0 \/ (at = "rethrow" /\ j # 0)
    BY <1>7
  <2>4. /\ v.queued <= 1 /\ v.messages <= v.queued
        /\ v.status = "ABSENT" => v.queued = 0
    BY <1>3, <2>1
  <2>5. \A i \in Jobs : r.left[i] \in Nat /\ v.left[i] \in Nat /\ v.left[i] <= r.left[i]
    BY <1>1, <1>3 DEF NoticeRow
  <2>6. \A i \in Jobs : i > v.queued => v.left[i] = 0
    BY <1>3, <2>1, <2>5
  <2>7. v.left[0] > 0 => v.queued = 0
    <3>1. CASE j = 0
      BY <3>1, <1>3, <2>3
    <3>2. CASE j # 0
      BY <3>2, <1>3, <1>5, <2>1, JobNumbers
    <3> QED  BY <3>1, <3>2
  <2>8. ~(v.messages > 0 /\ v.left[1] > 0)
    <3>1. SUFFICES ASSUME v.messages > 0, v.left[1] > 0 PROVE FALSE
      OBVIOUS
    <3>2. r.messages > 0 /\ r.left[1] > 0
      BY <3>1, <1>3, <2>5, JobNumbers
    <3>3. Does(call[c], n, 1) /\ at = "end"
      BY <3>2, <2>1, <2>2
    <3>4. j = 1 /\ k = 0
      BY <3>3, <1>5, <2>3
    <3> QED  BY <3>1, <3>4, <1>3
  <2>9. v.status = "ABSENT" => v.left[0] = 0
    BY <1>3, <2>1, <2>5, JobNumbers
  <2>10. v.status = "PENDING" => v.skipped \/ \E i \in Jobs : v.left[i] > 0
    BY <1>3, <1>5, <2>1, <2>2
  <2> QED  BY <2>2, <2>4, <2>6, <2>7, <2>8, <2>9, <2>10 DEF NoticeTurn
<1>8. tidy' => tidy
  OBVIOUS
<1> QED  BY <1>1, <1>2, <1>4, <1>6, <1>7, <1>8, <1>9, NoticeGoes, IdleIsACall

\* The notification is handed on.
LEMMA HandOnKeeps ==
    ASSUME OutreachInv, NEW c \in Calls, NEW n \in Notices,
           At(c, "job", "run", n, 0), HandOn(n), Goto(c, "end")
    PROVE  OutreachInv'
<1>1. PICK r \in NoticeRow : r = db[n] /\ NoticeOK(n, r)
  BY NoticeFacts
<1>2. /\ call[c] \in OutreachCall /\ NoticeRequest(call[c], r) /\ "job" \in NoticeOps
      /\ tidy => NoticeTurn(call[c], n, r)
  BY <1>1, NoticeUnderWay DEF NoticeOps
<1>3. PICK p \in OutreachCall : p = call[c]
  BY <1>2
<1>4. [p EXCEPT !.at = "end"] \in OutreachCall
  BY DEF OutreachCall
<1>5. PICK q \in OutreachCall : q = [p EXCEPT !.at = "end"]
  BY <1>4
<1>6. q.op = "job" /\ q.at = "end" /\ q.row = n /\ q.arg = 0 /\ p.at = "run" /\ r.left[0] > 0
  BY <1>2, <1>3, <1>5 DEF At, OutreachCall, NoticeRequest
<1>7. /\ \A j : Does(q, n, j) <=> j = 0
      /\ \A j : Does(p, n, j) <=> j = 0
      /\ ~Queues(p, n) /\ ~Queues(q, n)
  BY <1>3, <1>5, <1>6 DEF Does, Queues, At, OutreachCall
<1>8. call' = [call EXCEPT ![c] = q] /\ tidy' = tidy /\ tidy \in BOOLEAN
  BY <1>3, <1>5 DEF Goto, OutreachInv, OutreachTyped
<1>9. SUFFICES \E v \in NoticeRow :
                  /\ db' = [db EXCEPT ![n] = v] /\ NoticeOK(n, v) /\ Grows(n, r, v, p)
                  /\ v.left[0] > 0 /\ (tidy => NoticeTurn(q, n, v))
  <2>1. PICK v \in NoticeRow :
           /\ db' = [db EXCEPT ![n] = v] /\ NoticeOK(n, v) /\ Grows(n, r, v, p)
           /\ v.left[0] > 0 /\ (tidy => NoticeTurn(q, n, v))
    BY <1>9
  <2>2. NoticeRequest(q, v)
    BY <1>6, <2>1, JobNumbers DEF NoticeRequest
  <2> QED  BY <1>1, <1>2, <1>3, <1>6, <1>8, <2>1, <2>2, NoticeGoes
<1>10. ASSUME tidy
       PROVE  /\ r.queued = 0 /\ r.messages = 0 /\ r.status # "ABSENT"
              /\ \A j \in Jobs : j > 0 => r.left[j] = 0
  <2>1. NoticeTurn(p, n, r)
    BY <1>2, <1>3, <1>10
  <2>2. r.queued = 0
    BY <2>1, <1>6 DEF NoticeTurn
  <2>3. r.messages \in Nat /\ r.left[0] \in Nat
    BY JobNumbers DEF NoticeRow
  <2> QED  BY <2>1, <2>2, <2>3, <1>6 DEF NoticeTurn
<1>11. ASSUME NEW status \in {"SENT", "FAILED"}, Becomes(n, status),
              status = "SENT" => ChannelOf[n] = "IN_APP"
       PROVE  \E v \in NoticeRow :
                 /\ db' = [db EXCEPT ![n] = v] /\ NoticeOK(n, v) /\ Grows(n, r, v, p)
                 /\ v.left[0] > 0 /\ (tidy => NoticeTurn(q, n, v))
  <2>1. [r EXCEPT !.status = status] \in NoticeRow
    BY DEF NoticeRow
  <2>2. PICK v \in NoticeRow : v = [r EXCEPT !.status = status]
    BY <2>1
  <2>3. /\ v.status = status /\ v.left = r.left /\ v.queued = r.queued
        /\ v.messages = r.messages /\ v.reports = r.reports /\ v.delivered = r.delivered
        /\ v.known = r.known
    BY <2>2 DEF NoticeRow
  <2>4. NoticeOK(n, v) /\ Grows(n, r, v, p)
    BY <1>1, <1>11, <2>3 DEF NoticeOK, Grows, NoticeRow
  <2>5. tidy => NoticeTurn(q, n, v)
    <3>1. SUFFICES ASSUME tidy PROVE NoticeTurn(q, n, v)
      OBVIOUS
    <3>2. r.left[1] = 0
      BY <1>10, <3>1, JobNumbers
    <3> QED  BY <1>7, <1>10, <1>6, <2>3, <3>1, <3>2 DEF NoticeTurn
  <2>6. db' = [db EXCEPT ![n] = v]
    BY <1>1, <1>11, <2>2 DEF Becomes
  <2> QED  BY <1>6, <2>3, <2>4, <2>5, <2>6
<1>12. ASSUME db[n].queued < MostJobs, NEW j, j = db[n].queued + 1,
              db' = [db EXCEPT ![n].queued = j, ![n].left[j] = AttemptsAt(n)]
       PROVE  \E v \in NoticeRow :
                 /\ db' = [db EXCEPT ![n] = v] /\ NoticeOK(n, v) /\ Grows(n, r, v, p)
                 /\ v.left[0] > 0 /\ (tidy => NoticeTurn(q, n, v))
  <2>1. j \in Jobs /\ j # 0 /\ j \in 0..MostJobs /\ r.queued \in Nat
    BY <1>1, <1>12, MessagesAssumption DEF NoticeRow, Jobs
  <2>2. AttemptsAt(n) \in 0..Attempts /\ AttemptsAt(n) > 0
    BY JobNumbers DEF AttemptsAt
  <2>3. [r EXCEPT !.queued = j] \in NoticeRow
    BY <2>1 DEF NoticeRow
  <2>4. PICK u \in NoticeRow : u = [r EXCEPT !.queued = j]
    BY <2>3
  <2>5. /\ u.queued = j /\ u.status = r.status /\ u.left = r.left /\ u.messages = r.messages
        /\ u.reports = r.reports /\ u.delivered = r.delivered /\ u.known = r.known
    BY <2>4 DEF NoticeRow
  <2>6. NoticeOK(n, u)
    BY <1>1, <2>5 DEF NoticeOK
  <2>7. PICK v \in NoticeRow : /\ v = [u EXCEPT !.left[j] = AttemptsAt(n)]
                               /\ LeftIs(u, v, j, AttemptsAt(n)) /\ NoticeOK(n, v)
    BY <2>1, <2>2, <2>6, LeftWritten
  <2>8. /\ v.left[j] = AttemptsAt(n) /\ \A i \in Jobs \ {j} : v.left[i] = r.left[i]
        /\ v.status = r.status /\ v.queued = j /\ v.messages = r.messages
        /\ v.reports = r.reports
    BY <2>5, <2>7 DEF LeftIs
  <2>9. v = [r EXCEPT !.queued = j, !.left[j] = AttemptsAt(n)]
    BY <2>4, <2>7 DEF NoticeRow
  <2>10. db' = [db EXCEPT ![n] = v]
    BY <1>1, <1>12, <2>9
  <2>11. Grows(n, r, v, p)
    BY <2>2, <2>8 DEF Grows, NoticeRow
  <2>12. v.left[0] > 0
    BY <1>6, <2>1, <2>8, JobNumbers
  <2>13. tidy => NoticeTurn(q, n, v)
    <3>1. SUFFICES ASSUME tidy PROVE NoticeTurn(q, n, v)
      OBVIOUS
    <3>2. j = 1 /\ r.messages = 0 /\ r.status # "ABSENT" /\ \A i \in Jobs : i > 0 => r.left[i] = 0
      BY <1>1, <1>10, <1>12, <3>1
    <3>3. ASSUME NEW i \in Jobs, i > v.queued PROVE v.left[i] = 0
      <4>1. i \in Nat /\ i > 1
        BY <2>8, <3>2, <3>3, JobNumbers
      <4>2. i \in Jobs \ {j} /\ i > 0
        BY <3>2, <4>1
      <4>3. v.left[i] = r.left[i]
        BY <2>8, <4>2
      <4> QED  BY <3>2, <4>2, <4>3
    <3>4. \E i \in Jobs : v.left[i] > 0 /\ ~(Does(q, n, i) /\ q.at \in {"end", "rethrow"})
      BY <1>7, <2>1, <2>2, <2>8
    <3> QED  BY <1>6, <1>7, <2>8, <3>2, <3>3, <3>4 DEF NoticeTurn
  <2> QED  BY <2>7, <2>10, <2>11, <2>12, <2>13
<1>13. CASE ChannelOf[n] = "IN_APP"
  BY <1>11, <1>13 DEF HandOn
<1>14. CASE ChannelOf[n] # "IN_APP" /\ ByPhone(n) /\ n \in Phoneless
  BY <1>11, <1>14 DEF HandOn
<1>15. CASE ChannelOf[n] # "IN_APP" /\ ~(ByPhone(n) /\ n \in Phoneless)
  BY <1>12, <1>15 DEF HandOn
<1> QED  BY <1>13, <1>14, <1>15

\* The row that a job is for, and the job as it goes on.
LEMMA RequestAt ==
    ASSUME OutreachInv, NEW c \in Calls, NEW n \in Notices, NEW j \in Jobs, NEW at,
           At(c, "job", at, n, j)
    PROVE  \E r \in NoticeRow :
              /\ r = db[n] /\ NoticeOK(n, r) /\ NoticeRequest(call[c], r) /\ r.left[j] > 0
              /\ tidy => NoticeTurn(call[c], n, r)
<1>1. /\ call[c] \in OutreachCall /\ NoticeRequest(call[c], db[n])
      /\ tidy => NoticeTurn(call[c], n, db[n])
  BY NoticeUnderWay DEF NoticeOps
<1>2. db[n].left[j] > 0
  BY <1>1 DEF NoticeRequest, At
<1> QED  BY <1>1, <1>2, NoticeFacts

JobAt(q, n, j, to) == q.op = "job" /\ q.row = n /\ q.arg = j /\ q.at = to

LEMMA RequestKeeps ==
    ASSUME OutreachInv, NEW c \in Calls, NEW n, NEW j, NEW at, At(c, "job", at, n, j),
           NEW seen \in Nat, Keep(c, "record", seen)
    PROVE  \E q \in OutreachCall :
              call' = [call EXCEPT ![c] = q] /\ JobAt(q, n, j, "record") /\ q.seen = seen
<1>1. PICK p \in OutreachCall : p = call[c] /\ p.op = "job" /\ p.row = n /\ p.arg = j
  BY DEF At, OutreachInv, OutreachTyped
<1>2. [p EXCEPT !.at = "record", !.seen = seen] \in OutreachCall
  BY DEF OutreachCall
<1>3. PICK q \in OutreachCall : q = [p EXCEPT !.at = "record", !.seen = seen]
  BY <1>2
<1>4. q.op = p.op /\ q.row = p.row /\ q.arg = p.arg /\ q.at = "record" /\ q.seen = seen
  BY <1>3 DEF OutreachCall
<1>5. JobAt(q, n, j, "record")
  BY <1>1, <1>4 DEF JobAt
<1>6. call' = [call EXCEPT ![c] = q]
  BY <1>1, <1>3 DEF Keep
<1> QED  BY <1>4, <1>5, <1>6

\* A request that goes to another statement with what it has kept.
LEMMA RequestGoesTo ==
    ASSUME OutreachInv, NEW c \in Calls, NEW n, NEW j, NEW at, At(c, "job", at, n, j),
           NEW to \in {"record", "end", "failed", "rethrow"}, call' = [call EXCEPT ![c].at = to]
    PROVE  \E q \in OutreachCall : call' = [call EXCEPT ![c] = q] /\ JobAt(q, n, j, to)
<1>1. PICK p \in OutreachCall : p = call[c] /\ p.op = "job" /\ p.row = n /\ p.arg = j
  BY DEF At, OutreachInv, OutreachTyped
<1>2. [p EXCEPT !.at = to] \in OutreachCall
  BY DEF OutreachCall
<1>3. PICK q \in OutreachCall : q = [p EXCEPT !.at = to]
  BY <1>2
<1>4. q.op = p.op /\ q.row = p.row /\ q.arg = p.arg /\ q.at = to
  BY <1>3 DEF OutreachCall
<1>5. JobAt(q, n, j, to)
  BY <1>1, <1>4 DEF JobAt
<1>6. call' = [call EXCEPT ![c] = q]
  BY <1>1, <1>3
<1> QED  BY <1>5, <1>6

LEMMA ProcessNotificationKeeps ==
    ASSUME OutreachInv, NEW c \in Calls, NEW n \in Notices, ProcessNotification(c, n)
    PROVE  OutreachInv'
<1>1. tidy \in BOOLEAN /\ 0 \in Jobs
  BY JobNumbers DEF OutreachInv, OutreachTyped
<1>2. CASE Take(c, n, 0)
  BY <1>1, <1>2, TakeKeeps
<1>3. CASE At(c, "job", "run", n, 0) /\ HandOn(n) /\ Goto(c, "end")
  BY <1>3, HandOnKeeps
<1>4. ASSUME NEW at, At(c, "job", at, n, 0)
      PROVE  db[n].left[0] \in 0..Attempts /\ db[n].left[0] > 0
  <2>1. PICK r \in NoticeRow : r = db[n] /\ r.left[0] > 0
    BY <1>1, <1>4, RequestAt
  <2> QED  BY <1>1, <2>1 DEF NoticeRow
<1>5. CASE At(c, "job", "end", n, 0) /\ Over(n, 0) /\ Leave(c)
  <2>1. 0 \in 0..Attempts /\ 0 <= db[n].left[0]
    BY <1>4, <1>5, JobNumbers
  <2> QED  BY <1>1, <1>5, <2>1, JobEnds DEF Over, Leave
<1>6. CASE /\ At(c, "job", "run", n, 0) \/ At(c, "job", "end", n, 0)
           /\ TryAgain(n, 0) /\ call' = [call EXCEPT ![c] = Idle] /\ tidy' = FALSE
  <2>1. PICK at \in {"run", "end"} : At(c, "job", at, n, 0)
    BY <1>6
  <2>2. db[n].left[0] \in 0..Attempts /\ db[n].left[0] > 0
    BY <1>4, <2>1
  <2>3. PICK k : k = db[n].left[0] - 1
    OBVIOUS
  <2>4. k \in 0..Attempts /\ k <= db[n].left[0]
    BY <2>2, <2>3, JobNumbers
  <2>5. db' = [db EXCEPT ![n].left[0] = k]
    BY <1>6, <2>3 DEF TryAgain
  <2> QED  BY <1>1, <1>6, <2>1, <2>4, <2>5, JobEnds
<1> QED  BY <1>2, <1>3, <1>5, <1>6 DEF ProcessNotification

\* The provider takes the message.
LEMMA MessageTaken ==
    ASSUME OutreachInv, NEW c \in Calls, NEW n \in Notices, NEW j \in Jobs \ {0},
           At(c, "job", "run", n, j), NEW m, m = db[n].messages + 1,
           db' = [db EXCEPT ![n].messages = m],
           NEW to \in {"record", "failed"}, NEW seen \in Nat \cup {None},
           NEW q \in OutreachCall, call' = [call EXCEPT ![c] = q],
           JobAt(q, n, j, to), q.seen = seen,
           to = "record" => seen = m,
           tidy' \in BOOLEAN, tidy' => tidy /\ to = "record"
    PROVE  OutreachInv'
<1>1. PICK r \in NoticeRow : /\ r = db[n] /\ NoticeOK(n, r) /\ r.left[j] > 0
                             /\ tidy => NoticeTurn(call[c], n, r)
  BY RequestAt
<1>2. m \in Nat /\ m = r.messages + 1 /\ m > 0 /\ r.messages <= m
  BY <1>1 DEF NoticeRow
<1>3. [r EXCEPT !.messages = m] \in NoticeRow
  BY <1>2 DEF NoticeRow
<1>4. PICK v \in NoticeRow : v = [r EXCEPT !.messages = m]
  BY <1>3
<1>5. /\ v.status = r.status /\ v.left = r.left /\ v.queued = r.queued /\ v.messages = m
      /\ v.reports = r.reports /\ v.delivered = r.delivered /\ v.known = r.known
      /\ v.skipped = r.skipped
  BY <1>4 DEF NoticeRow
<1>6. NoticeOK(n, v) /\ Grows(n, r, v, call[c])
  <2>1. r.messages \in Nat /\ r.known \in Nat
    BY DEF NoticeRow
  <2>2. \A p \in r.reports : p[1] \in 1..r.messages => p[1] \in 1..m
    BY <1>2, <2>1
  <2> QED  BY <1>1, <1>2, <1>5, <2>1, <2>2 DEF NoticeOK, Grows
<1>9. q.op = "job" /\ q.row = n /\ q.arg = j /\ q.at = to /\ q.seen = seen
  BY DEF JobAt
<1>10. NoticeRequest(q, v)
  BY <1>1, <1>2, <1>5, <1>9 DEF NoticeRequest
<1>11. ASSUME tidy' PROVE NoticeTurn(q, n, v)
  <2>1. NoticeTurn(call[c], n, r) /\ q.at = "record" /\ call[c].at = "run"
    BY <1>1, <1>9, <1>11 DEF At
  <2>2. /\ \A i : Does(q, n, i) <=> i = j
        /\ \A i : Does(call[c], n, i) <=> i = j
        /\ ~Queues(call[c], n) /\ ~Queues(q, n)
    BY <1>9 DEF Does, Queues, At
  <2>3. j = 1 /\ r.queued = 1
    <3>1. j \in Nat /\ r.queued \in Nat /\ j <= r.queued /\ r.queued <= 1
      BY <1>1, <2>1, JobNumbers DEF NoticeTurn, NoticeRow
    <3> QED  BY <3>1
  <2>4. r.messages = 0
    BY <1>1, <2>1, <2>3 DEF NoticeTurn, NoticeRow
  <2>5. m = 1
    BY <1>2, <2>4
  <2>6. v.status = "PENDING" => \E i \in Jobs : v.left[i] > 0 /\ q.at \notin {"end", "rethrow"}
    BY <1>1, <1>5, <2>1
  <2>7. ~(v.left[0] > 0) /\ v.status # "ABSENT"
    BY <1>5, <2>1, <2>2, <2>3 DEF NoticeTurn
  <2>8. \A i \in Jobs : i > v.queued => v.left[i] = 0
    BY <1>5, <2>1 DEF NoticeTurn
  <2> QED  BY <1>5, <2>1, <2>2, <2>3, <2>5, <2>6, <2>7, <2>8 DEF NoticeTurn
<1>12. db' = [db EXCEPT ![n] = v]
  BY <1>1, <1>2, <1>4
<1>13. /\ "job" \in NoticeOps /\ At(c, "job", "run", n, j) /\ NoticeOK(n, v)
       /\ Grows(n, db[n], v, call[c])
       /\ q.op = "job" /\ q.row = n /\ q.arg = j /\ NoticeRequest(q, v)
       /\ tidy' \in BOOLEAN /\ (tidy' => tidy /\ NoticeTurn(q, n, v))
  BY <1>1, <1>6, <1>9, <1>10, <1>11 DEF NoticeOps
<1> QED  BY <1>12, <1>13, NoticeGoes

\* The row gets a status from the job j, which goes on to its end.
LEMMA OutcomeWritten ==
    ASSUME OutreachInv, NEW c \in Calls, NEW n \in Notices, NEW j \in Jobs, NEW at,
           At(c, "job", at, n, j), NEW to \in {"end", "rethrow"}, NEW status \in {"SENT", "FAILED"},
           NEW known \in Nat, db' = [db EXCEPT ![n].status = status, ![n].known = known],
           j # 0, known <= db[n].messages, status = "SENT" => db[n].messages > 0,
           at = "failed" \/ to = "end",
           NEW q \in OutreachCall, call' = [call EXCEPT ![c] = q], JobAt(q, n, j, to),
           UNCHANGED tidy
    PROVE  OutreachInv'
<1>1. PICK r \in NoticeRow : /\ r = db[n] /\ NoticeOK(n, r) /\ r.left[j] > 0
                             /\ tidy => NoticeTurn(call[c], n, r)
  BY RequestAt
<1>2. [r EXCEPT !.status = status, !.known = known] \in NoticeRow
  BY DEF NoticeRow
<1>3. PICK v \in NoticeRow : v = [r EXCEPT !.status = status, !.known = known]
  BY <1>2
<1>4. /\ v.status = status /\ v.left = r.left /\ v.queued = r.queued /\ v.messages = r.messages
      /\ v.reports = r.reports /\ v.delivered = r.delivered /\ v.known = known
      /\ v.skipped = r.skipped
  BY <1>3 DEF NoticeRow
<1>5. NoticeOK(n, v) /\ Grows(n, r, v, call[c])
  BY <1>1, <1>4 DEF NoticeOK, Grows, NoticeRow
<1>8. q.op = "job" /\ q.row = n /\ q.arg = j /\ q.at = to
  BY DEF JobAt
<1>9. NoticeRequest(q, v)
  BY <1>1, <1>4, <1>8 DEF NoticeRequest
<1>10. ASSUME tidy PROVE NoticeTurn(q, n, v)
  <2>1. NoticeTurn(call[c], n, r) /\ call[c].at = at
    BY <1>1, <1>10 DEF At
  <2>2. /\ \A i : Does(q, n, i) <=> i = j
        /\ \A i : Does(call[c], n, i) <=> i = j
        /\ ~Queues(call[c], n) /\ ~Queues(q, n)
    BY <1>8 DEF Does, Queues, At
  <2>3. v.left[0] > 0 => v.queued = 0
    BY <1>4, <2>1, <2>2 DEF NoticeTurn
  <2>4. v.messages > 0 /\ v.left[1] > 0 => j = 1 /\ to = "end"
    BY <1>4, <2>1, <2>2 DEF NoticeTurn
  <2>5. v.status # "ABSENT" /\ v.status # "PENDING"
    BY <1>4
  <2>6. v.queued <= 1 /\ v.messages <= v.queued /\ \A i \in Jobs : i > v.queued => v.left[i] = 0
    BY <1>4, <2>1 DEF NoticeTurn
  <2> QED  BY <1>8, <2>2, <2>3, <2>4, <2>5, <2>6 DEF NoticeTurn
<1>11. db' = [db EXCEPT ![n] = v] /\ tidy' = tidy /\ tidy \in BOOLEAN
  BY <1>1, <1>3 DEF OutreachInv, OutreachTyped
<1>12. /\ "job" \in NoticeOps /\ At(c, "job", at, n, j) /\ NoticeOK(n, v)
       /\ Grows(n, db[n], v, call[c])
       /\ q.op = "job" /\ q.row = n /\ q.arg = j /\ NoticeRequest(q, v)
       /\ tidy' \in BOOLEAN /\ (tidy' => tidy /\ NoticeTurn(q, n, v))
  BY <1>1, <1>5, <1>8, <1>9, <1>10, <1>11 DEF NoticeOps
<1>13. db' = [db EXCEPT ![n] = v]
  BY <1>11
<1> QED  BY <1>12, <1>13, NoticeGoes

\* A statement fails after the provider was asked, and is caught.
LEMMA FailureCaught ==
    ASSUME OutreachInv, NEW c \in Calls, NEW n \in Notices, NEW j \in Jobs \ {0}, NEW at,
           At(c, "job", at, n, j), UNCHANGED db,
           NEW q \in OutreachCall, call' = [call EXCEPT ![c] = q],
           JobAt(q, n, j, "failed"),
           tidy' \in BOOLEAN, tidy' => tidy /\ at = "run"
    PROVE  OutreachInv'
<1>1. PICK r \in NoticeRow : /\ r = db[n] /\ r.left[j] > 0
                             /\ tidy => NoticeTurn(call[c], n, r)
  BY RequestAt
<1>5. q.op = "job" /\ q.row = n /\ q.arg = j /\ q.at = "failed"
  BY DEF JobAt
<1>2. NoticeRequest(q, r)
  BY <1>1, <1>5 DEF NoticeRequest
<1>3. ASSUME tidy' PROVE NoticeTurn(q, n, r)
  <2>1. NoticeTurn(call[c], n, r) /\ call[c].at = "run"
    BY <1>1, <1>3 DEF At
  <2>2. /\ \A i : Does(q, n, i) <=> i = j
        /\ \A i : Does(call[c], n, i) <=> i = j
        /\ ~Queues(call[c], n) /\ ~Queues(q, n)
    BY <1>5 DEF Does, Queues, At
  <2>3. ~(r.messages > 0 /\ r.left[1] > 0)
    BY <2>1 DEF NoticeTurn
  <2>4. r.status = "PENDING" => \E i \in Jobs : r.left[i] > 0 /\ q.at \notin {"end", "rethrow"}
    BY <1>1, <1>5
  <2>5. (r.left[0] > 0 => r.queued = 0)
    BY <2>1, <2>2 DEF NoticeTurn
  <2> QED  BY <2>1, <2>2, <2>3, <2>4, <2>5 DEF NoticeTurn
<1>4. /\ "job" \in NoticeOps /\ At(c, "job", at, n, j)
      /\ q.op = "job" /\ q.row = n /\ q.arg = j /\ NoticeRequest(q, db[n])
      /\ tidy' \in BOOLEAN /\ (tidy' => tidy /\ NoticeTurn(q, n, db[n]))
  BY <1>1, <1>2, <1>3, <1>5 DEF NoticeOps
<1> QED  BY <1>4, NoticeStays

LEMMA DeliverKeeps ==
    ASSUME OutreachInv, NEW c \in Calls, NEW n \in Notices, NEW j \in Jobs \ {0}, Deliver(c, n, j)
    PROVE  OutreachInv'
<1>1. tidy \in BOOLEAN /\ call \in [Calls -> OutreachCall]
  BY DEF OutreachInv, OutreachTyped
<1> DEFINE taken == db[n].messages < MostMessages /\ db' = [db EXCEPT ![n].messages = @ + 1]
           fails == call' = [call EXCEPT ![c].at = "failed"] /\ tidy' = FALSE
           here(at) == At(c, "job", at, n, j)
<1>2. CASE Take(c, n, j)
  BY <1>2, TakeKeeps
<1>3. ASSUME NEW at, here(at)
      PROVE  \E r \in NoticeRow : /\ r = db[n] /\ NoticeOK(n, r) /\ r.left[j] > 0
                                  /\ NoticeRequest(call[c], r)
  BY <1>3, RequestAt
<1>4. CASE here("run") /\ taken /\ Keep(c, "record", db[n].messages + 1)
  <2>1. PICK m : m = db[n].messages + 1
    OBVIOUS
  <2>2. m \in Nat
    BY <1>3, <1>4, <2>1 DEF NoticeRow
  <2>6. here("run") /\ Keep(c, "record", m)
    BY <1>4, <2>1
  <2>3. PICK q \in OutreachCall :
           call' = [call EXCEPT ![c] = q] /\ JobAt(q, n, j, "record") /\ q.seen = m
    BY <2>2, <2>6, RequestKeeps
  <2>4. db' = [db EXCEPT ![n].messages = m] /\ tidy' = tidy
    BY <1>4, <2>1 DEF Keep
  <2>5. here("run")
    BY <1>4
  <2> HIDE <1>4
  <2> QED  BY <1>1, <2>1, <2>2, <2>3, <2>4, <2>5, MessageTaken
<1>5. CASE here("run") /\ taken /\ fails
  <2>1. PICK m : m = db[n].messages + 1
    OBVIOUS
  <2>2. here("run")
    BY <1>5
  <2>3. PICK q \in OutreachCall :
           call' = [call EXCEPT ![c] = q] /\ JobAt(q, n, j, "failed")
    BY <1>5, <2>2, RequestGoesTo
  <2>4. PICK s \in Nat \cup {None} : s = q.seen
    BY DEF OutreachCall
  <2>5. db' = [db EXCEPT ![n].messages = m] /\ tidy' = FALSE
    BY <1>5, <2>1
  <2> HIDE <1>5
  <2> QED  BY <2>1, <2>2, <2>3, <2>4, <2>5, MessageTaken
<1>6. ASSUME NEW at, here(at), UNCHANGED db, call' = [call EXCEPT ![c].at = "failed"],
             tidy' \in BOOLEAN, tidy' => tidy /\ at = "run"
      PROVE  OutreachInv'
  <2>1. PICK q \in OutreachCall :
           call' = [call EXCEPT ![c] = q] /\ JobAt(q, n, j, "failed")
    BY <1>6, RequestGoesTo
  <2> QED  BY <1>6, <2>1, FailureCaught
<1>7. CASE here("run") /\ UNCHANGED db /\ Goto(c, "failed")
  BY <1>1, <1>6, <1>7 DEF Goto
<1>8. CASE (here("record") \/ here("end")) /\ UNCHANGED db /\ fails
  BY <1>6, <1>8
<1>9. CASE /\ here("record")
           /\ db' = [db EXCEPT ![n].status = "SENT",
                               ![n].known = IF ByPhone(n) THEN call[c].seen ELSE @]
           /\ Goto(c, "end")
  <2>1. PICK r \in NoticeRow : r = db[n] /\ NoticeOK(n, r) /\ NoticeRequest(call[c], r)
    BY <1>3, <1>9
  <2>2. call[c].seen \in 1..r.messages
    BY <1>9, <2>1 DEF NoticeRequest, At
  <2>3. PICK known : known = IF ByPhone(n) THEN call[c].seen ELSE r.known
    OBVIOUS
  <2>4. known \in Nat /\ known <= r.messages /\ r.messages > 0
    BY <2>1, <2>2, <2>3 DEF NoticeOK, NoticeRow
  <2>5. db' = [db EXCEPT ![n].status = "SENT", ![n].known = known]
    <3>1. n \in DOMAIN db
      BY NoticeFacts DEF OutreachInv, OutreachTyped, OutreachRowsTyped
    <3> QED  BY <1>9, <2>1, <2>3, <3>1 DEF NoticeRow
  <2>6. here("record") /\ call' = [call EXCEPT ![c].at = "end"] /\ UNCHANGED tidy
    BY <1>9 DEF Goto
  <2>7. PICK q \in OutreachCall : call' = [call EXCEPT ![c] = q] /\ JobAt(q, n, j, "end")
    BY <2>6, RequestGoesTo
  <2> HIDE <1>9
  <2> QED  BY <2>1, <2>4, <2>5, <2>6, <2>7, OutcomeWritten
<1>10. CASE here("end") /\ Over(n, j) /\ Leave(c)
  <2>2. PICK r \in NoticeRow : r = db[n] /\ r.left[j] > 0
    BY <1>3, <1>10
  <2>3. r.left[j] \in 0..Attempts
    BY DEF NoticeRow
  <2>1. 0 \in 0..Attempts /\ 0 <= db[n].left[j]
    BY <2>2, <2>3, JobNumbers
  <2> QED  BY <1>1, <1>10, <2>1, JobEnds DEF Over, Leave
<1>11. CASE here("failed") /\ Becomes(n, "FAILED") /\ Goto(c, "rethrow")
  <2>1. PICK r \in NoticeRow : r = db[n] /\ NoticeOK(n, r)
    BY <1>3, <1>11
  <2>2. r.known \in Nat /\ r.known <= r.messages
    BY <2>1 DEF NoticeRow, NoticeOK
  <2>3. db' = [db EXCEPT ![n].status = "FAILED", ![n].known = r.known]
    <3>1. n \in DOMAIN db
      BY NoticeFacts DEF OutreachInv, OutreachTyped, OutreachRowsTyped
    <3> QED  BY <1>11, <2>1, <3>1 DEF NoticeRow, Becomes
  <2>4. here("failed") /\ call' = [call EXCEPT ![c].at = "rethrow"] /\ UNCHANGED tidy
    BY <1>11 DEF Goto
  <2>7. PICK q \in OutreachCall : call' = [call EXCEPT ![c] = q] /\ JobAt(q, n, j, "rethrow")
    BY <2>4, RequestGoesTo
  <2> HIDE <1>11
  <2> QED  BY <2>1, <2>2, <2>3, <2>4, <2>7, OutcomeWritten
<1>12. CASE here("rethrow") /\ TryAgain(n, j) /\ Leave(c)
  <2>1. PICK r \in NoticeRow : r = db[n] /\ r.left[j] > 0
    BY <1>3, <1>12
  <2>2. PICK k : k = r.left[j] - 1
    OBVIOUS
  <2>3. k \in 0..Attempts /\ k <= r.left[j]
    BY <2>1, <2>2, JobNumbers DEF NoticeRow
  <2>4. db' = [db EXCEPT ![n].left[j] = k]
    BY <1>12, <2>1, <2>2 DEF TryAgain
  <2> QED  BY <1>1, <1>12, <2>1, <2>3, <2>4, JobEnds DEF Leave
<1> QED  BY <1>2, <1>4, <1>5, <1>7, <1>8, <1>9, <1>10, <1>11, <1>12 DEF Deliver

\* What the provider says of the message becomes the status of the row that names it.
LEMMA ApplyStatusKeeps ==
    ASSUME OutreachInv, NEW c \in Calls, NEW n \in Notices, NEW k \in Nat,
           NEW report \in {"delivered", "read", "failed"}, ApplyStatus(c, n, k, report)
    PROVE  OutreachInv'
<1>1. PICK r \in NoticeRow : r = db[n] /\ NoticeOK(n, r)
  BY NoticeFacts
<1>2. PICK p \in Said : p = <<k, report>> /\ p[1] = k /\ p[2] = report
  <2>1. <<k, report>> \in Said /\ <<k, report>>[1] = k /\ <<k, report>>[2] = report
    BY DEF Said
  <2> QED  BY <2>1
<1>3. "callback" \in NoticeOps
  BY DEF NoticeOps
<1>4. CASE p \in r.reports /\ Enter(c, "callback", "write", n, p, None)
  <2> DEFINE q == [op |-> "callback", at |-> "write", row |-> n, arg |-> p, seen |-> None]
  <2>1. q \in OutreachCall /\ NoticeRequest(q, db[n]) /\ \A e \in Calls : ~SameJob(call[e], q)
    BY <1>1, <1>4, NoticeFacts DEF OutreachCall, NoticeOps, NoticeRequest, SameJob
  <2>2. \A j : ~Does(Idle, n, j) /\ ~Does(q, n, j) /\ ~Queues(Idle, n) /\ ~Queues(q, n)
    BY DEF Does, Queues, Idle
  <2>3. NoticeTurn(Idle, n, db[n]) => NoticeTurn(q, n, db[n])
    BY <2>2, TurnElsewhere
  <2>4. q = [op |-> "callback", at |-> "write", row |-> n, arg |-> p, seen |-> None]
    OBVIOUS
  <2> HIDE DEF q
  <2> QED  BY <1>3, <1>4, <2>1, <2>3, <2>4, NoticeEnters
<1>5. ASSUME At(c, "callback", "write", n, p), Leave(c), NEW v \in NoticeRow,
             db' = [db EXCEPT ![n] = v],
             v.status \in {"DELIVERED", "READ", "FAILED"},
             v.delivered = (r.delivered \/ report \in {"delivered", "read"}),
             v.status = "DELIVERED" => report = "delivered",
             v.left = r.left, v.queued = r.queued, v.messages = r.messages,
             v.reports = r.reports, v.known = r.known
      PROVE  OutreachInv'
  <2>1. NoticeRequest(call[c], r) /\ (tidy => NoticeTurn(call[c], n, r))
    BY <1>1, <1>3, <1>5, NoticeUnderWay
  <2>2. p \in r.reports /\ \A j : ~Does(call[c], n, j) /\ ~Does(Idle, n, j)
    BY <1>5, <2>1 DEF NoticeRequest, At, Does, Idle
  <2>3. ~Queues(call[c], n) /\ ~Queues(Idle, n)
    BY <1>5 DEF At, Queues, Idle
  <2>4. v.delivered => \E s \in v.reports : s[2] = "delivered"
    <3>1. report = "read" => <<k, "delivered">> \in r.reports /\ <<k, "delivered">>[2] = "delivered"
      BY <1>1, <1>2, <2>2 DEF NoticeOK
    <3> QED  BY <1>1, <1>2, <1>5, <2>2, <3>1 DEF NoticeOK
  <2>5. v.status = "DELIVERED" /\ ChannelOf[n] # "IN_APP" => v.messages > 0
    <3>1. k \in 1..r.messages /\ r.messages \in Nat
      BY <1>1, <1>2, <2>2 DEF NoticeOK, NoticeRow
    <3> QED  BY <1>5, <3>1
  <2>6. NoticeOK(n, v)
    BY <1>1, <1>5, <2>4, <2>5 DEF NoticeOK
  <2>7. Grows(n, db[n], v, call[c])
    BY <1>1, <1>5 DEF Grows, NoticeRow
  <2>8. tidy => NoticeTurn(Idle, n, v)
    BY <1>5, <2>1, <2>2, <2>3, StatusTurn
  <2> QED  BY <1>3, <1>5, <2>6, <2>7, <2>8, NoticeLeaves
<1>6. CASE /\ At(c, "callback", "write", n, p) /\ Leave(c)
           /\ report = "delivered"
           /\ db' = [db EXCEPT ![n].status = "DELIVERED", ![n].delivered = TRUE]
  <2>1. [r EXCEPT !.status = "DELIVERED", !.delivered = TRUE] \in NoticeRow
    BY DEF NoticeRow
  <2>2. PICK v \in NoticeRow : v = [r EXCEPT !.status = "DELIVERED", !.delivered = TRUE]
    BY <2>1
  <2>3. db' = [db EXCEPT ![n] = v]
    BY <1>1, <1>6, <2>2
  <2>4. /\ v.status = "DELIVERED" /\ v.delivered = TRUE /\ v.left = r.left /\ v.queued = r.queued
        /\ v.messages = r.messages /\ v.reports = r.reports /\ v.known = r.known
    BY <2>2 DEF NoticeRow
  <2> QED  BY <1>5, <1>6, <2>3, <2>4
<1>7. CASE /\ At(c, "callback", "write", n, p) /\ Leave(c)
           /\ report = "read"
           /\ db' = [db EXCEPT ![n].status = "READ", ![n].seen = TRUE, ![n].delivered = TRUE]
  <2>1. [r EXCEPT !.status = "READ", !.seen = TRUE, !.delivered = TRUE] \in NoticeRow
    BY DEF NoticeRow
  <2>2. PICK v \in NoticeRow : v = [r EXCEPT !.status = "READ", !.seen = TRUE, !.delivered = TRUE]
    BY <2>1
  <2>3. db' = [db EXCEPT ![n] = v]
    BY <1>1, <1>7, <2>2
  <2>4. /\ v.status = "READ" /\ v.delivered = TRUE /\ v.left = r.left /\ v.queued = r.queued
        /\ v.messages = r.messages /\ v.reports = r.reports /\ v.known = r.known
    BY <2>2 DEF NoticeRow
  <2> QED  BY <1>5, <1>7, <2>3, <2>4
<1>8. CASE /\ At(c, "callback", "write", n, p) /\ Leave(c)
           /\ report = "failed" /\ Becomes(n, "FAILED")
  <2>1. [r EXCEPT !.status = "FAILED"] \in NoticeRow
    BY DEF NoticeRow
  <2>2. PICK v \in NoticeRow : v = [r EXCEPT !.status = "FAILED"]
    BY <2>1
  <2>3. db' = [db EXCEPT ![n] = v]
    BY <1>1, <1>8, <2>2 DEF Becomes
  <2>4. /\ v.status = "FAILED" /\ v.delivered = r.delivered /\ v.left = r.left
        /\ v.queued = r.queued /\ v.messages = r.messages /\ v.reports = r.reports
        /\ v.known = r.known /\ r.delivered \in BOOLEAN
    BY <2>2 DEF NoticeRow
  <2> QED  BY <1>5, <1>8, <2>3, <2>4
<1> QED  BY <1>1, <1>2, <1>4, <1>6, <1>7, <1>8 DEF ApplyStatus, Handler

LEMMA MarkReadKeeps ==
    ASSUME OutreachInv, NEW c \in Calls, NEW n \in Notices, MarkRead(c, n)
    PROVE  OutreachInv'
<1>1. PICK r \in NoticeRow : r = db[n] /\ NoticeOK(n, r)
  BY NoticeFacts
<1>3. "markRead" \in NoticeOps
  BY DEF NoticeOps
<1>4. CASE Enter(c, "markRead", "write", n, None, None)
  <2> DEFINE q == [op |-> "markRead", at |-> "write", row |-> n, arg |-> None, seen |-> None]
  <2>1. q \in OutreachCall /\ NoticeRequest(q, db[n]) /\ \A e \in Calls : ~SameJob(call[e], q)
    BY NoticeFacts DEF OutreachCall, NoticeOps, NoticeRequest, SameJob
  <2>2. \A j : ~Does(Idle, n, j) /\ ~Does(q, n, j) /\ ~Queues(Idle, n) /\ ~Queues(q, n)
    BY DEF Does, Queues, Idle
  <2>3. NoticeTurn(Idle, n, db[n]) => NoticeTurn(q, n, db[n])
    BY <2>2, TurnElsewhere
  <2>4. q = [op |-> "markRead", at |-> "write", row |-> n, arg |-> None, seen |-> None]
    OBVIOUS
  <2> HIDE DEF q
  <2> QED  BY <1>3, <1>4, <2>1, <2>3, <2>4, NoticeEnters
<1>5. CASE At(c, "markRead", "write", n, None) /\ MarkedRead({n}) /\ Leave(c)
  <2>1. [r EXCEPT !.status = "READ", !.seen = TRUE] \in NoticeRow
    BY DEF NoticeRow
  <2>2. PICK v \in NoticeRow : v = [r EXCEPT !.status = "READ", !.seen = TRUE]
    BY <2>1
  <2>3. db' = [db EXCEPT ![n] = v]
    <3>1. db = [x \in DOMAIN db |-> db[x]]
      BY DEF OutreachInv, OutreachTyped, OutreachRowsTyped
    <3> QED  BY <1>1, <1>5, <2>2, <3>1 DEF MarkedRead
  <2>4. /\ v.status = "READ" /\ v.delivered = r.delivered /\ v.left = r.left
        /\ v.queued = r.queued /\ v.messages = r.messages /\ v.reports = r.reports
        /\ v.known = r.known
    BY <2>2 DEF NoticeRow
  <2>5. tidy => NoticeTurn(call[c], n, r)
    BY <1>1, <1>3, <1>5, NoticeUnderWay
  <2>6. \A j : ~Does(call[c], n, j) /\ ~Does(Idle, n, j) /\ ~Queues(call[c], n) /\ ~Queues(Idle, n)
    BY <1>5 DEF At, Does, Queues, Idle
  <2>7. NoticeOK(n, v)
    BY <1>1, <2>4 DEF NoticeOK
  <2>8. Grows(n, db[n], v, call[c])
    BY <1>1, <2>4 DEF Grows, NoticeRow
  <2>9. tidy => NoticeTurn(Idle, n, v)
    BY <2>4, <2>5, <2>6, StatusTurn
  <2> QED  BY <1>3, <1>5, <2>3, <2>7, <2>8, <2>9, NoticeLeaves
<1> QED  BY <1>4, <1>5 DEF MarkRead, Handler

\* Rows of notifications are written by a statement of no request; p's job may be gone.
LEMMA NoticesMove ==
    ASSUME OutreachInv, UNCHANGED call, NEW p,
           DOMAIN db' = DOMAIN db, db' = [x \in DOMAIN db' |-> db'[x]],
           \A x \in OutreachRows \ Notices : db'[x] = db[x],
           \A n \in Notices :
              db'[n] \in NoticeRow /\ NoticeOK(n, db'[n]) /\ Grows(n, db[n], db'[n], p),
           \A e \in Calls : ~SameJob(call[e], p),
           tidy' \in BOOLEAN, tidy' => tidy,
           tidy' => \A n \in Notices :
                       NoticeTurn(Idle, n, db[n]) => NoticeTurn(Idle, n, db'[n]),
           tidy' => Alone \/ \A q \in OutreachCall, n \in Notices :
                                NoticeTurn(q, n, db[n]) => NoticeTurn(q, n, db'[n])
    PROVE  OutreachInv'
<1>1. /\ OutreachRowsTyped'
      /\ \A d \in LeadRows : LeadOK(db[d])'
      /\ \A m \in Notices : NoticeOK(m, db[m])'
  BY NoticesWritten
<1>2. ASSUME NEW q \in OutreachCall, MayGoOn(q), NEW e \in Calls, call[e] = q PROVE MayGoOn(q)'
  BY <1>2, RequestsStay
<1>3. \A d \in LeadRows : db'[d] = db[d]
  BY OutreachAssumption DEF OutreachRows
<1>4. ASSUME NEW q \in OutreachCall, TurnHolds(q),
             \A n \in Notices : NoticeTurn(q, n, db[n]) => NoticeTurn(q, n, db'[n])
      PROVE  TurnHolds(q)'
  <2>1. \A d \in LeadRows : LeadTurn(q, d, db[d])'
    BY <1>3, <1>4 DEF TurnHolds, LeadTurn
  <2>2. \A n \in Notices : NoticeTurn(q, n, db[n])'
    BY <1>4 DEF TurnHolds, NoticeTurn, Does, Queues
  <2> QED  BY <2>1, <2>2 DEF TurnHolds
<1>5. ASSUME tidy'
      PROVE  \/ Alone /\ TurnHolds(Idle)'
             \/ \A q \in OutreachCall : TurnHolds(q) => TurnHolds(q)'
  <2>1. CASE Alone
    <3>1. TurnHolds(Idle)
      BY <1>5, <2>1 DEF OutreachInv, OutreachTurns
    <3>2. Idle \in OutreachCall
      BY IdleIsACall
    <3>3. \A n \in Notices : NoticeTurn(Idle, n, db[n]) => NoticeTurn(Idle, n, db'[n])
      BY <1>5, <3>2
    <3> QED  BY <1>4, <2>1, <3>1, <3>2, <3>3
  <2>2. CASE ~Alone
    BY <1>4, <1>5, <2>2
  <2> QED  BY <2>1, <2>2
<1> QED  BY <1>1, <1>2, <1>5, RowsMove

LEMMA SkipKeeps ==
    ASSUME OutreachInv, NEW n \in Notices, NEW j \in Jobs, Skip(n, j)
    PROVE  OutreachInv'
<1>1. PICK r \in NoticeRow : r = db[n] /\ NoticeOK(n, r)
  BY NoticeFacts
<1>2. 0 \in 0..Attempts
  BY JobNumbers
<1>3. PICK u \in NoticeRow : u = [r EXCEPT !.left[j] = 0] /\ LeftIs(r, u, j, 0) /\ NoticeOK(n, u)
  BY <1>1, <1>2, LeftWritten
<1>4. [u EXCEPT !.skipped = TRUE] \in NoticeRow
  BY DEF NoticeRow
<1>5. PICK v \in NoticeRow : v = [u EXCEPT !.skipped = TRUE]
  BY <1>4
<1>6. /\ v.left = u.left /\ v.status = u.status /\ v.queued = u.queued /\ v.messages = u.messages
      /\ v.reports = u.reports /\ v.delivered = u.delivered /\ v.known = u.known /\ v.skipped
  BY <1>5 DEF NoticeRow
<1>7. /\ v.left[j] = 0 /\ \A i \in Jobs \ {j} : v.left[i] = r.left[i]
      /\ v.status = r.status /\ v.queued = r.queued /\ v.messages = r.messages
      /\ v.reports = r.reports /\ v.skipped
  BY <1>3, <1>6 DEF LeftIs
<1>8. NoticeOK(n, v)
  BY <1>3, <1>6 DEF NoticeOK
<1>9. v = [r EXCEPT !.left[j] = 0, !.skipped = TRUE]
  BY <1>3, <1>5 DEF NoticeRow
<1>10. PICK p : Does(p, n, j)
  <2>1. Does([op |-> "job", row |-> n, arg |-> j], n, j)
    BY DEF Does
  <2> QED  BY <2>1
<1>11. db' = [db EXCEPT ![n] = v]
  BY <1>1, <1>9 DEF Skip, Statement
<1>12. Grows(n, r, v, p)
  BY <1>7, <1>10 DEF Grows, NoticeRow
<1>13. NoticeTurn(Idle, n, r) => NoticeTurn(Idle, n, v)
  <2>1. \A i \in Jobs : v.left[i] \in Nat /\ v.left[i] <= r.left[i]
    BY <1>7 DEF NoticeRow
  <2>2. r.left[0] \in Nat /\ r.left[1] \in Nat
    BY JobNumbers DEF NoticeRow
  <2>3. \A i : ~Does(Idle, n, i) /\ ~Queues(Idle, n)
    BY DEF Does, Queues, Idle
  <2>4. SUFFICES ASSUME NoticeTurn(Idle, n, r) PROVE NoticeTurn(Idle, n, v)
    OBVIOUS
  <2>5. \A i \in Jobs : i > v.queued => v.left[i] = 0
    BY <1>7, <2>4 DEF NoticeTurn
  <2>6. (v.left[0] > 0 => v.queued = 0) /\ ~(v.messages > 0 /\ v.left[1] > 0)
    BY <1>7, <2>1, <2>2, <2>3, <2>4, JobNumbers DEF NoticeTurn
  <2>7. v.status = "ABSENT" => v.queued = 0 /\ v.left[0] = 0
    BY <1>7, <2>4, JobNumbers DEF NoticeTurn
  <2> QED  BY <1>7, <2>3, <2>4, <2>5, <2>6, <2>7 DEF NoticeTurn
<1>14. \A e \in Calls : ~SameJob(call[e], p)
  BY <1>10 DEF Skip, Statement, Waiting, SameJob, Does
<1>15. n \in DOMAIN db /\ OutreachRowsTyped
  BY NoticeFacts DEF OutreachInv, OutreachTyped, OutreachRowsTyped
<1>16. \A x \in OutreachRows : db'[x] = IF x = n THEN v ELSE db[x]
  BY <1>11, <1>15 DEF OutreachRowsTyped
<1>17. /\ DOMAIN db' = DOMAIN db /\ db' = [x \in DOMAIN db' |-> db'[x]]
       /\ \A x \in OutreachRows \ Notices : db'[x] = db[x]
  BY <1>11, <1>15, <1>16 DEF OutreachRowsTyped
<1>18. ASSUME NEW m \in Notices
       PROVE  /\ db'[m] \in NoticeRow /\ NoticeOK(m, db'[m]) /\ Grows(m, db[m], db'[m], p)
              /\ NoticeTurn(Idle, m, db[m]) => NoticeTurn(Idle, m, db'[m])
  <2>1. CASE m = n
    <3>1. db'[m] = v /\ db[m] = r
      BY <1>1, <1>15, <1>16, <2>1 DEF OutreachRowsTyped
    <3> QED  BY <1>8, <1>12, <1>13, <2>1, <3>1
  <2>2. CASE m # n
    <3>1. db'[m] = db[m]
      BY <1>16, <2>2 DEF OutreachRows
    <3> QED  BY <3>1, NoticeFacts, GrowsNot
  <2> QED  BY <2>1, <2>2
<1>19. tidy' \in BOOLEAN /\ (tidy' => tidy /\ Alone) /\ UNCHANGED call
  BY DEF Skip, Statement, OutreachInv, OutreachTyped
<1> HIDE DEF Skip
<1> QED  BY <1>14, <1>17, <1>18, <1>19, NoticesMove

LEMMA ReportKeeps ==
    ASSUME OutreachInv, NEW n \in Notices, NEW k \in 1..db[n].messages,
           NEW report \in {"delivered", "read", "failed"}, Report(n, k, report)
    PROVE  OutreachInv'
<1>1. PICK r \in NoticeRow : r = db[n] /\ NoticeOK(n, r)
  BY NoticeFacts
<1>2. PICK s \in Said : s = <<k, report>> /\ s[1] = k /\ s[2] = report
  <2>1. k \in Nat
    BY <1>1 DEF NoticeRow
  <2>2. <<k, report>> \in Said /\ <<k, report>>[1] = k /\ <<k, report>>[2] = report
    BY <2>1 DEF Said
  <2> QED  BY <2>2
<1>3. PICK reports \in SUBSET Said : reports = r.reports \cup {s}
  <2>1. r.reports \cup {s} \in SUBSET Said
    BY DEF NoticeRow
  <2> QED  BY <2>1
<1>4. [r EXCEPT !.reports = reports] \in NoticeRow
  BY DEF NoticeRow
<1>5. PICK v \in NoticeRow : v = [r EXCEPT !.reports = reports]
  BY <1>4
<1>6. /\ v.left = r.left /\ v.status = r.status /\ v.queued = r.queued /\ v.messages = r.messages
      /\ v.reports = reports /\ v.delivered = r.delivered /\ v.known = r.known
      /\ v.skipped = r.skipped
  BY <1>5 DEF NoticeRow
<1>7. NoticeOK(n, v)
  <2>1. report = "read" => <<k, "delivered">> \in r.reports
    BY <1>1 DEF Report
  <2>2. s[1] \in 1..v.messages /\ (s[2] = "read" => <<s[1], "delivered">> \in v.reports)
    BY <1>1, <1>2, <1>3, <1>6, <2>1
  <2> QED  BY <1>1, <1>3, <1>6, <2>2 DEF NoticeOK
<1>8. db' = [db EXCEPT ![n] = v]
  BY <1>1, <1>2, <1>3, <1>5 DEF Report
<1>9. \A p : Grows(n, r, v, p)
  BY <1>3, <1>6 DEF Grows, NoticeRow
<1>10. \A q : NoticeTurn(q, n, r) => NoticeTurn(q, n, v)
  BY <1>6 DEF NoticeTurn
<1>11. n \in DOMAIN db /\ OutreachRowsTyped
  BY NoticeFacts DEF OutreachInv, OutreachTyped, OutreachRowsTyped
<1>12. \A x \in OutreachRows : db'[x] = IF x = n THEN v ELSE db[x]
  BY <1>8, <1>11 DEF OutreachRowsTyped
<1>13. /\ DOMAIN db' = DOMAIN db /\ db' = [x \in DOMAIN db' |-> db'[x]]
       /\ \A x \in OutreachRows \ Notices : db'[x] = db[x]
  BY <1>8, <1>11, <1>12 DEF OutreachRowsTyped
<1>14. ASSUME NEW m \in Notices
       PROVE  /\ db'[m] \in NoticeRow /\ NoticeOK(m, db'[m]) /\ Grows(m, db[m], db'[m], Idle)
              /\ \A q : NoticeTurn(q, m, db[m]) => NoticeTurn(q, m, db'[m])
  <2>1. CASE m = n
    <3>1. db'[m] = v /\ db[m] = r
      BY <1>1, <1>11, <1>12, <2>1 DEF OutreachRowsTyped
    <3> QED  BY <1>7, <1>9, <1>10, <2>1, <3>1
  <2>2. CASE m # n
    <3>1. db'[m] = db[m]
      BY <1>12, <2>2 DEF OutreachRows
    <3> QED  BY <3>1, NoticeFacts, GrowsNot
  <2> QED  BY <2>1, <2>2
<1>15. tidy' \in BOOLEAN /\ (tidy' => tidy) /\ UNCHANGED call
  BY DEF Report, OutreachInv, OutreachTyped
<1>16. \A e \in Calls : ~SameJob(call[e], Idle)
  BY IdleIsACall
<1> QED  BY <1>13, <1>14, <1>15, <1>16, NoticesMove

LEMMA MarkAllReadKeeps == ASSUME OutreachInv, MarkAllRead PROVE OutreachInv'
<1>1. PICK unread \in SUBSET Notices :
         MarkedRead(unread) /\ \A n \in unread : db[n].status # "ABSENT"
  BY DEF MarkAllRead, Statement, In
<1>2. OutreachRowsTyped
  BY DEF OutreachInv, OutreachTyped
<1>3. \A x \in OutreachRows :
         db'[x] = IF x \in unread THEN [db[x] EXCEPT !.status = "READ", !.seen = TRUE] ELSE db[x]
  BY <1>1, <1>2 DEF MarkedRead, OutreachRowsTyped
<1>4. /\ DOMAIN db' = DOMAIN db /\ db' = [x \in DOMAIN db' |-> db'[x]]
      /\ \A x \in OutreachRows \ Notices : db'[x] = db[x]
  BY <1>1, <1>2, <1>3 DEF MarkedRead, OutreachRowsTyped
<1>5. ASSUME NEW n \in Notices
      PROVE  /\ db'[n] \in NoticeRow /\ NoticeOK(n, db'[n]) /\ Grows(n, db[n], db'[n], Idle)
             /\ NoticeTurn(Idle, n, db[n]) => NoticeTurn(Idle, n, db'[n])
  <2>1. PICK r \in NoticeRow : r = db[n] /\ NoticeOK(n, r)
    BY NoticeFacts
  <2>2. CASE n \in unread
    <3>1. [r EXCEPT !.status = "READ", !.seen = TRUE] \in NoticeRow
      BY DEF NoticeRow
    <3>2. PICK v \in NoticeRow : v = [r EXCEPT !.status = "READ", !.seen = TRUE]
      BY <3>1
    <3>3. db'[n] = v
      BY <1>3, <2>1, <2>2, <3>2 DEF OutreachRows
    <3>4. /\ v.status = "READ" /\ v.delivered = r.delivered /\ v.left = r.left
          /\ v.queued = r.queued /\ v.messages = r.messages /\ v.reports = r.reports
          /\ v.known = r.known
      BY <3>2 DEF NoticeRow
    <3>5. NoticeOK(n, v)
      BY <2>1, <3>4 DEF NoticeOK
    <3>6. Grows(n, r, v, Idle)
      BY <3>4 DEF Grows, NoticeRow
    <3>7. \A j : ~Does(Idle, n, j) /\ ~Queues(Idle, n)
      BY DEF Does, Queues, Idle
    <3>8. NoticeTurn(Idle, n, r) => NoticeTurn(Idle, n, v)
      BY <3>4, <3>7, StatusTurn
    <3> QED  BY <2>1, <3>3, <3>5, <3>6, <3>8
  <2>3. CASE n \notin unread
    <3>1. db'[n] = db[n]
      BY <1>3, <2>3 DEF OutreachRows
    <3> QED  BY <3>1, NoticeFacts, GrowsNot
  <2> QED  BY <2>2, <2>3
<1>6. tidy' \in BOOLEAN /\ (tidy' => tidy /\ Alone) /\ UNCHANGED call
  BY DEF MarkAllRead, Statement, OutreachInv, OutreachTyped
<1>7. \A e \in Calls : ~SameJob(call[e], Idle)
  BY IdleIsACall
<1> QED  BY <1>4, <1>5, <1>6, <1>7, NoticesMove

LEMMA OutreachCutOffKeeps == ASSUME OutreachInv, NEW c \in Calls, CutOff(c) PROVE OutreachInv'
<1>1. UNCHANGED db /\ call' = [call EXCEPT ![c] = Idle] /\ tidy' = FALSE
  BY DEF CutOff
<1>2. /\ OutreachRowsTyped'
      /\ \A d \in LeadRows : LeadOK(db[d])'
      /\ \A n \in Notices : NoticeOK(n, db[n])'
  BY <1>1 DEF OutreachInv, OutreachTyped, OutreachRowsTyped, LeadOK, Reserved, Made, NoticeOK
<1>3. \A p \in OutreachCall : MayGoOn(p) => MayGoOn(p)'
  BY <1>1 DEF MayGoOn, LeadRequest, NoticeRequest, Reserved, Made
<1>4. MayGoOn(Idle)'
  BY DEF MayGoOn
<1> QED  BY <1>1, <1>2, <1>3, <1>4, IdleIsACall, RequestMoves

LEMMA LeadsNextKeeps == ASSUME OutreachInv, LeadsNext PROVE OutreachInv'
<1>1. PICK d \in LeadRows :
        \/ CreateLead(d)
        \/ \E c \in Calls :
              \/ QualifyLead(c, d) \/ DisqualifyLead(c, d) \/ LogLeadActivity(c, d)
              \/ ConvertLeadToProspect(c, d) \/ MarkProspectWon(c, d)
              \/ \E stage \in (OpenStages \ {"ACTIVE", "RESERVED"}) \cup {"LOST"} :
                    MoveProspect(c, d, stage)
              \/ \E r \in Reservations : ReserveUnitForProspect(c, d, r)
  BY DEF LeadsNext
<1> QED  BY <1>1, CreateLeadKeeps, QualifyKeeps, DisqualifyKeeps, ContactKeeps, ConvertKeeps,
            WinKeeps, MoveKeeps, ReserveForKeeps

LEMMA MessagesNextKeeps == ASSUME OutreachInv, MessagesNext PROVE OutreachInv'
<1>1. CASE MarkAllRead
  BY <1>1, MarkAllReadKeeps
<1>2. ASSUME NEW n \in Notices, NEW j \in Jobs, Skip(n, j) PROVE OutreachInv'
  BY <1>2, SkipKeeps
<1>3. ASSUME NEW n \in Notices, NEW k \in 1..db[n].messages,
             NEW report \in {"delivered", "read", "failed"},
             Report(n, k, report) \/ \E c \in Calls : ApplyStatus(c, n, k, report)
      PROVE  OutreachInv'
  <2>1. k \in Nat
    BY NoticeFacts DEF NoticeRow
  <2> QED  BY <1>3, <2>1, ReportKeeps, ApplyStatusKeeps
<1>4. ASSUME NEW n \in Notices, NEW c \in Calls,
             \/ CreateNotification(c, n) \/ ProcessNotification(c, n) \/ MarkRead(c, n)
             \/ \E j \in Jobs \ {0} : Deliver(c, n, j)
      PROVE  OutreachInv'
  BY <1>4, CreateNotificationKeeps, ProcessNotificationKeeps, MarkReadKeeps, DeliverKeeps
<1> QED  BY <1>1, <1>2, <1>3, <1>4 DEF MessagesNext

LEMMA OutreachStarts == OutreachInit => OutreachInv
<1> SUFFICES ASSUME OutreachInit PROVE OutreachInv
  OBVIOUS
<1>1. /\ DOMAIN db = OutreachRows /\ db = [x \in DOMAIN db |-> db[x]]
      /\ \A d \in LeadRows : db[d] = NoLead
      /\ \A r \in Reservations : db[r] = NoReservation
      /\ \A x \in Units \ Reservations : db[x] = NoUnitSold
      /\ \A n \in Notices : db[n] = NoNotice
  BY OutreachAssumption DEF OutreachInit, OutreachRows
<1>2. /\ \A c \in Calls : call[c] = Idle
      /\ call \in [Calls -> OutreachCall] /\ tidy = TRUE
  BY IdleIsACall DEF OutreachInit, CallsStart
<1>3. PICK v : v = NoNotice /\ v \in NoticeRow /\ \A j \in Jobs : v.left[j] = 0
  <2>1. NoNotice \in NoticeRow
    BY JobNumbers, MessagesAssumption DEF NoNotice, NoticeRow
  <2> QED  BY <2>1 DEF NoNotice
<1>4. /\ v.status = "ABSENT" /\ v.queued = 0 /\ v.messages = 0 /\ v.reports = {}
      /\ v.delivered = FALSE /\ v.known = 0
  BY <1>3 DEF NoNotice
<1>5. OutreachTyped
  <2>1. NoLead \in LeadRow /\ NoReservation \in BookedRow /\ NoUnitSold \in BookedUnit
    BY OutreachAssumption DEF NoLead, LeadRow, NoReservation, BookedRow, NoUnitSold, BookedUnit
  <2>2. /\ \A d \in LeadRows : db[d] \in LeadRow
        /\ \A r \in Reservations : db[r] \in BookedRow
        /\ \A x \in Units : db[x] \in BookedUnit
        /\ \A n \in Notices : db[n] \in NoticeRow
    BY <1>1, <1>3, <2>1, SalesAssumption
  <2>3. OutreachRowsTyped
    BY <1>1, <2>2 DEF OutreachRowsTyped
  <2> QED  BY <1>2, <2>3 DEF OutreachTyped
<1>6. JobsApart /\ \A c \in Calls : MayGoOn(call[c])
  BY <1>2, IdleIsACall DEF JobsApart, MayGoOn
<1>7. \A d \in LeadRows : LeadOK(db[d]) /\ LeadTurn(Idle, d, db[d])
  BY <1>1 DEF LeadOK, LeadTurn, NoLead, Idle
<1>8. \A n \in Notices : NoticeOK(n, db[n]) /\ NoticeTurn(Idle, n, db[n])
  <2>1. \A n : ~Queues(Idle, n) /\ \A j : ~Does(Idle, n, j)
    BY DEF Queues, Does, Idle
  <2> QED  BY <1>1, <1>3, <1>4, <2>1, JobNumbers DEF NoticeOK, NoticeTurn
<1>9. OutreachTurns
  BY <1>2, <1>7, <1>8 DEF OutreachTurns, TurnHolds
<1> QED  BY <1>5, <1>6, <1>7, <1>8, <1>9 DEF OutreachInv

LEMMA OutreachStep == OutreachInv /\ [OutreachNext]_docVars => OutreachInv'
<1> SUFFICES ASSUME OutreachInv, [OutreachNext]_docVars PROVE OutreachInv'
  OBVIOUS
<1>1. CASE OutreachNext
  BY <1>1, LeadsNextKeeps, MessagesNextKeeps, OutreachCutOffKeeps DEF OutreachNext
<1>2. CASE UNCHANGED docVars
  BY <1>2 DEF docVars, OutreachInv, OutreachTyped, OutreachRowsTyped, JobsApart, LeadOK, NoticeOK,
              MayGoOn, LeadRequest, NoticeRequest, Reserved, Made, OutreachTurns, TurnHolds,
              LeadTurn, NoticeTurn, Alone
<1> QED  BY <1>1, <1>2

LEMMA OutreachInvIsSound == OutreachInv => OutreachSound
<1> SUFFICES ASSUME OutreachInv PROVE OutreachSound
  OBVIOUS
<1>1. ASSUME tidy
      PROVE  \E q : /\ TurnHolds(q) /\ (Alone => q = Idle)
  <2>1. CASE Alone
    BY <1>1, <2>1 DEF OutreachInv, OutreachTurns
  <2>2. CASE ~Alone
    BY <1>1, <2>2 DEF OutreachInv, OutreachTurns, Alone
  <2> QED  BY <2>1, <2>2
<1>2. LeadsSound
  <2>1. \A d \in LeadRows : db[d] \in LeadRow /\ LeadOK(db[d])
    BY LeadFacts
  <2>2. LeadsTypeOK
    BY <2>1 DEF LeadsTypeOK, LeadRow, Unconverted
  <2>3. LeadsBecomeProspects
    <3>1. ASSUME tidy, NEW d \in LeadRows
          PROVE  /\ db[d].stage # "none" => db[d].status = "CONVERTED"
                 /\ db[d].won => db[d].stage = "WON"
      BY <1>1, <3>1 DEF TurnHolds, LeadTurn
    <3> QED  BY <2>1, <3>1 DEF LeadsBecomeProspects, LeadOK, In
  <2>4. WonWasReserved
    BY <2>1, OutreachAssumption DEF WonWasReserved, LeadOK, Reserved, Made, In
  <2> QED  BY <2>2, <2>3, <2>4 DEF LeadsSound
<1>3. MessagesSound
  <2>1. \A n \in Notices : db[n] \in NoticeRow /\ NoticeOK(n, db[n])
    BY NoticeFacts
  <2>2. MessagesTypeOK
    BY <2>1 DEF MessagesTypeOK, NoticeRow, NoticeOK
  <2>3. StatusIsTrue
    <3>1. ASSUME NEW n \in Notices, db[n].delivered
          PROVE  \E k \in 1..db[n].messages : <<k, "delivered">> \in db[n].reports
      <4>1. PICK p \in db[n].reports : p[2] = "delivered" /\ p[1] \in 1..db[n].messages
        BY <2>1, <3>1 DEF NoticeOK
      <4>2. p \in Said
        BY <2>1 DEF NoticeRow
      <4>3. p = <<p[1], "delivered">>
        BY <4>1, <4>2 DEF Said
      <4> QED  BY <4>1, <4>3
    <3> QED  BY <2>1, <3>1 DEF StatusIsTrue, NoticeOK, In
  <2>4. SentOnce
    <3> SUFFICES ASSUME tidy, NEW n \in Notices
                 PROVE  /\ db[n].messages <= 1
                        /\ Alone /\ In(n, {"PENDING"}) =>
                              db[n].skipped \/ \E j \in Jobs : db[n].left[j] > 0
      BY DEF SentOnce
    <3>1. PICK q : NoticeTurn(q, n, db[n]) /\ (Alone => q = Idle)
      BY <1>1 DEF TurnHolds
    <3>2. db[n].messages <= 1
      BY <2>1, <3>1 DEF NoticeTurn, NoticeRow
    <3>3. ~Queues(Idle, n)
      BY DEF Queues, Idle
    <3> QED  BY <3>1, <3>2, <3>3 DEF NoticeTurn, In
  <2> QED  BY <2>2, <2>3, <2>4 DEF MessagesSound
<1> QED  BY <1>2, <1>3 DEF OutreachSound

\* Leads become prospects and prospects are won only with the reservation that was made
\* for them; a notification says of itself only what the provider said, and is sent once
\* while workers take turns.
THEOREM OutreachIsAlwaysSound == OutreachSpec => []OutreachSound
<1>1. OutreachSpec => []OutreachInv
  BY OutreachStarts, OutreachStep, PTL DEF OutreachSpec
<1> QED  BY <1>1, OutreachInvIsSound, PTL
=============================================================================
