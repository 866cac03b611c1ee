------------------------------- MODULE Leasing -------------------------------
(***************************************************************************)
(* Tenants of units, their leases, and the bills for the rent, which are   *)
(* invoices of accounts receivable linked to the lease in a later commit.  *)
(***************************************************************************)
EXTENDS Documents

CONSTANTS
    Flats,            \* units that are let
    Tenants, Leases,
    FlatOf,           \* of a tenant
    TenantOf,         \* of a lease; createLease refuses another unit than the tenant's
    MostRents         \* bound: bills of a lease

ASSUME LeasingAssumption ==
    FlatOf \in [Tenants -> Flats] /\ TenantOf \in [Leases -> Tenants] /\ MostRents \in Nat

NoTenant == [status |-> "ABSENT"]
\* revived: the lease was renewed when it was not ACTIVE, or ended and is back;
\* started: it was ever ACTIVE; bills and links count the invoices and their links.
NoLease == [status |-> "ABSENT", revived |-> FALSE, started |-> FALSE, ended |-> FALSE,
            bills |-> 0, links |-> 0]

OpenLease == {"DRAFT", "ACTIVE"}

LeasingTypeOK ==
    /\ \A n \in Tenants : db[n].status \in {"ABSENT", "ACTIVE", "FORMER"}
    /\ \A l \in Leases :
          /\ db[l].status \in {"ABSENT", "DRAFT", "ACTIVE", "EXPIRED", "TERMINATED"}
          /\ db[l].bills \in 0..MostRents /\ db[l].links \in 0..MostRents

LeasesOn(f) == {l \in Leases : FlatOf[TenantOf[l]] = f}
TenantsOf(f) == {n \in Tenants : FlatOf[n] = f}

CreateTenant(c, n) ==
    Insertion(c, "createTenant", n, None,
        \A other \in TenantsOf(FlatOf[n]) : ~In(other, {"ACTIVE"}),
        Becomes(n, "ACTIVE"))

EndTenancy(c, n) ==
    Handler(c, "endTenancy", n, None,
        In(n, {"ACTIVE"}) /\ \A l \in Leases : TenantOf[l] = n => ~In(l, OpenLease),
        Becomes(n, "FORMER"))

\* Mutated form of MayLease: only a lease that has begun is in the way.
MayLeaseDrafted(l) ==
    /\ In(TenantOf[l], {"ACTIVE"})
    /\ \A other \in LeasesOn(FlatOf[TenantOf[l]]) : ~In(other, {"ACTIVE"})

MayLease(l) ==
    /\ In(TenantOf[l], {"ACTIVE"})
    /\ \A other \in LeasesOn(FlatOf[TenantOf[l]]) : ~In(other, OpenLease)

CreateLease(c, l) == Insertion(c, "createLease", l, None, MayLease(l), Becomes(l, "DRAFT"))

Start(l) == db' = [db EXCEPT ![l].status = "ACTIVE", ![l].started = TRUE]

ActivateLease(c, l) == Handler(c, "activate", l, None, In(l, {"DRAFT"}), Start(l))

\* Nothing is asked of the tenant or of other leases of the unit.
RenewLease(c, l) ==
    Handler(c, "renew", l, None, In(l, {"ACTIVE", "EXPIRED"}),
        db' = [db EXCEPT ![l].status = "ACTIVE", ![l].revived = @ \/ ~In(l, {"ACTIVE"})])

MarkExpired(c, l) == Handler(c, "expireLease", l, None, In(l, {"ACTIVE"}), Becomes(l, "EXPIRED"))

TerminateLease(c, l) ==
    Handler(c, "terminate", l, None, In(l, OpenLease),
            db' = [db EXCEPT ![l].status = "TERMINATED", ![l].ended = TRUE])

\* createInvoice of accounts receivable, then the link.
GenerateRentInvoice(c, l) ==
    LET here(at) == At(c, "rent", at, l, None)
    IN  \/ In(l, {"ACTIVE"}) /\ Enter(c, "rent", "bill", l, None, None)
        \/ /\ here("bill") /\ db[l].bills < MostRents
           /\ db' = [db EXCEPT ![l].bills = @ + 1]
           /\ Goto(c, "link")
        \/ here("link") /\ db' = [db EXCEPT ![l].links = @ + 1] /\ Leave(c)

LeasingNext ==
    \/ \E n \in Tenants, c \in Calls : CreateTenant(c, n) \/ EndTenancy(c, n)
    \/ \E l \in Leases, c \in Calls :
          \/ CreateLease(c, l) \/ ActivateLease(c, l) \/ RenewLease(c, l)
          \/ MarkExpired(c, l) \/ TerminateLease(c, l) \/ GenerateRentInvoice(c, l)

-----------------------------------------------------------------------------
\* As long as requests take turns a unit has one active tenant, at most one
\* lease that is open without having been revived from the dead, no such lease
\* outlives its tenancy, and what was terminated stays so.
OneLetting ==
    LET open == {l \in Leases : In(l, OpenLease) /\ ~db[l].revived}
    IN  tidy =>
          /\ \A f \in Flats :
                /\ Cardinality({n \in TenantsOf(f) : In(n, {"ACTIVE"})}) <= 1
                /\ Cardinality(open \cap LeasesOn(f)) <= 1
          /\ \A l \in open : In(TenantOf[l], {"ACTIVE"})
          /\ \A l \in Leases : db[l].ended => In(l, {"TERMINATED"})

\* Rent is billed only to a lease that has begun, and a link to a bill never
\* lacks its bill; no bill lacks its link unless a request was cut off or is
\* on its way.
RentIsLinked ==
    \A l \in Leases :
        /\ db[l].bills > 0 => db[l].started
        /\ db[l].links <= db[l].bills
        /\ tidy /\ Alone => db[l].links = db[l].bills

\* A unit is let once: OneLetting, RentIsLinked.
LeasingSound == LeasingTypeOK /\ OneLetting /\ RentIsLinked
=============================================================================
