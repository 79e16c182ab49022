------------------------------ MODULE Tenancy ------------------------------
(***************************************************************************)
(* Who belongs to whom.  A user_id (and the thread_id, which is the same   *)
(* string) is "{tenant}:{uid}"; auth.TenantFromUserID takes the prefix,    *)
(* and yields the empty tenant when there is none.                         *)
(***************************************************************************)
CONSTANTS
    User,       \* user_id values
    Tenant,     \* tenants that occur as a prefix
    NoTenant,   \* the empty string
    TenantOf    \* auth.TenantFromUserID, auth.TenantFromThreadID

ASSUME TenancyAssumption ==
    /\ NoTenant \notin Tenant
    /\ TenantOf \in [User -> Tenant \cup {NoTenant}]

=============================================================================
