-------------------------- MODULE ChartOfAccounts --------------------------
(***************************************************************************)
(* The group chart of accounts, its activation per entity, and whether an  *)
(* entity is active: the master data that every journal is validated       *)
(* against.  Each operation is one auto-committed statement.               *)
(***************************************************************************)
CONSTANTS
    Entities,        \* legal entities
    Accounts,        \* accounts of the group chart
    HeaderAccounts,  \* those with isPostable = false
    Retirable        \* bound: the accounts and entities the operations may touch

ASSUME ChartAssumption == HeaderAccounts \subseteq Accounts

VARIABLES
    activeEntities,  \* Entity.isActive
    activeAccounts,  \* Account.isActive
    activations      \* EntityAccount rows with isActive, as <<entity, account>>

chartVars == <<activeEntities, activeAccounts, activations>>

ChartTypeOK ==
    /\ activeEntities \subseteq Entities
    /\ activeAccounts \subseteq Accounts
    /\ activations \subseteq Entities \X Accounts

\* The seeded chart: every account is active and activated for every entity.
ChartInit ==
    /\ activeEntities = Entities
    /\ activeAccounts = Accounts
    /\ activations = Entities \X Accounts

\* assertLinesPostable for one account of one entity.
Postable(entity, account) ==
    /\ <<entity, account>> \in activations
    /\ account \notin HeaderAccounts
    /\ account \in activeAccounts

DeactivateAccount(account) ==
    /\ activeAccounts' = activeAccounts \ {account}
    /\ UNCHANGED <<activeEntities, activations>>

ActivateForEntity(entity, account) ==
    /\ activations' = activations \cup {<<entity, account>>}
    /\ UNCHANGED <<activeEntities, activeAccounts>>

DeactivateForEntity(entity, account) ==
    /\ activations' = activations \ {<<entity, account>>}
    /\ UNCHANGED <<activeEntities, activeAccounts>>

DeactivateEntity(entity) ==
    /\ activeEntities' = activeEntities \ {entity}
    /\ UNCHANGED <<activeAccounts, activations>>

ChartNext ==
    \/ \E account \in Accounts \cap Retirable :
        \/ DeactivateAccount(account)
        \/ \E entity \in Entities :
            \/ ActivateForEntity(entity, account)
            \/ DeactivateForEntity(entity, account)
    \/ \E entity \in Entities \cap Retirable : DeactivateEntity(entity)
=============================================================================
