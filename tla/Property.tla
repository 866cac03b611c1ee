------------------------------- MODULE Property -------------------------------
(***************************************************************************)
(* Flats that are let, land and its plans, facilities and their repairs:   *)
(* the requests of the three components, interleaved in any way.  They     *)
(* share the database and the requests in flight, and no rows.             *)
(***************************************************************************)
EXTENDS Leasing, LandBank, Facilities

ASSUME PropertyAssumption ==
    /\ IsFiniteSet(Calls)
    /\ Tenants \cap Leases = {} /\ Plots \cap MasterPlans = {} /\ Facilities \cap Repairs = {}
    /\ (Tenants \cup Leases) \cap (Plots \cup MasterPlans \cup Facilities \cup Repairs) = {}
    /\ (Plots \cup MasterPlans) \cap (Facilities \cup Repairs) = {}

PropertyRows == Tenants \cup Leases \cup Plots \cup MasterPlans \cup Facilities \cup Repairs

PropertyInit ==
    /\ db = [x \in PropertyRows |->
                IF x \in Tenants THEN NoTenant
                ELSE IF x \in Leases THEN NoLease
                ELSE IF x \in Plots THEN NoPlot
                ELSE IF x \in MasterPlans THEN NoMasterPlan
                ELSE IF x \in Facilities THEN NoFacility ELSE NoRepair]
    /\ CallsStart
PropertyNext == LeasingNext \/ LandNext \/ FacilitiesNext \/ \E c \in Calls : CutOff(c)
PropertySpec == PropertyInit /\ [][PropertyNext]_docVars

-----------------------------------------------------------------------------
\* What the three components on land and buildings promise together: a flat is let
\* once, land is allocated by its plans, facilities are out of use and paid for
\* with a reason.
PropertySound == LeasingSound /\ LandSound /\ FacilitiesSound
=============================================================================
