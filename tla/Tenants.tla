------------------------------ MODULE Tenants ------------------------------
(***************************************************************************)
(* The tenants' rows and the list of them a gateway process answers from   *)
(* (service/tenant_service.go, pkg/auth/auth.go).  Every request that      *)
(* changes a row then rebuilds the list: it reads all rows, empties the    *)
(* list and appends one tenant after the other, without a lock.            *)
(***************************************************************************)
EXTENDS Integers, SequencesExt

CONSTANTS
    MaxTenants,  \* bound: tenants, ever; their ids are counted up
    Req,         \* requests for changes of a tenant
    Never, Gone, \* a tenant not created yet, one deleted
    MaxChanges   \* bound: requests that change a tenant

Tenant == 1..MaxTenants

ASSUME TenantsAssumption ==
    /\ MaxTenants \in Nat \ {0} /\ MaxChanges \in Nat /\ Never # Gone

VARIABLES
    rows,      \* tenants: whether each is enabled, and the number of its secret
    list,      \* TenantsList; tenantByKey is changed along with it
    req,       \* where each request stands
    changes,
    loose      \* a rebuild failed or overlapped another, and none has run alone since (history)

tenantVars == <<rows, list, req, changes, loose>>

Secret == 1..(MaxChanges + 1)
Row == [on : BOOLEAN, secret : Secret]
Entry == [t : Tenant, on : BOOLEAN, secret : Secret]
Idle == [at |-> "idle"]

TenantsType ==
    /\ rows \in [Tenant -> Row \cup {Never, Gone}]
    /\ list \in Seq(Entry)
    /\ \A w \in Req : req[w].at \in {"idle", "read", "written", "queried", "append"}
    /\ changes \in 0..MaxChanges /\ loose \in BOOLEAN

Exists(t) == rows[t] \notin {Never, Gone}

\* The rows in the order of their ids, as entries of the list.
Listed ==
    LET Of(t) == [t |-> t, on |-> rows[t].on, secret |-> rows[t].secret]
        L[n \in 0..MaxTenants] ==
            IF n = 0 THEN <<>> ELSE IF Exists(n) THEN Append(L[n - 1], Of(n)) ELSE L[n - 1]
    IN  L[MaxTenants]

\* VerifyTokenFull, RefreshToken and TenantInfo take the first entry of the tenant.
Found(t) == \E i \in DOMAIN list : list[i].t = t
TenantInfo(t) == list[SelectInSeq(list, LAMBDA e : e.t = t)]

\* A gateway that has started with one tenant, the platform's own.
TenantsInit ==
    /\ rows = [t \in Tenant |-> IF t = 1 THEN [on |-> TRUE, secret |-> 1] ELSE Never]
    /\ list = Listed
    /\ req = [w \in Req |-> Idle] /\ changes = 0 /\ loose = FALSE

Rebuilding(w) == req[w].at \in {"queried", "append"}
Others(w) == \E v \in Req \ {w} : Rebuilding(v)
Settled == \A w \in Req : req[w] = Idle

Turns(w, job) == req' = [req EXCEPT ![w] = job]
Begins(w, job) == req[w] = Idle /\ changes < MaxChanges /\ changes' = changes + 1 /\ Turns(w, job)
Written == [at |-> "written"]

-----------------------------------------------------------------------------
CreateTenant(w) ==
    \E t \in Tenant :
        /\ rows[t] = Never /\ \A s \in 1..(t - 1) : rows[s] # Never
        /\ rows' = [rows EXCEPT ![t] = [on |-> TRUE, secret |-> 1]]
        /\ Begins(w, Written) /\ UNCHANGED <<list, loose>>

\* ResetTenantSecret, and ChangeTenantSecret with the right old one.
ChangeTenantSecret(w) ==
    \E t \in Tenant :
        /\ Exists(t)
        /\ rows' = [rows EXCEPT ![t].secret = @ + 1]
        /\ Begins(w, Written) /\ UNCHANGED <<list, loose>>

\* ToggleTenantStatus writes the opposite of what it has read.
ReadTenantStatus(w) ==
    \E t \in Tenant :
        /\ Exists(t)
        /\ Begins(w, [at |-> "read", t |-> t, on |-> ~rows[t].on])
        /\ UNCHANGED <<rows, list, loose>>

\* Mutant of ToggleTenantStatus: the row is saved, not updated.
ToggleTenantStatusSaves(w) ==
    /\ req[w].at = "read"
    /\ rows' = [rows EXCEPT ![req[w].t] = [on |-> req[w].on]]
    /\ Turns(w, Written) /\ UNCHANGED <<list, changes, loose>>

ToggleTenantStatus(w) ==
    /\ req[w].at = "read"
    /\ LET t == req[w].t
       IN  rows' = IF Exists(t) THEN [rows EXCEPT ![t].on = req[w].on] ELSE rows
    /\ Turns(w, Written) /\ UNCHANGED <<list, changes, loose>>

\* UpdateTenant, UpdateTenantQuota: nothing the list is asked for here.
UpdateTenant(w) ==
    /\ Begins(w, Written) /\ UNCHANGED <<rows, list, loose>>

\* Tickets and messages go first, by statements of their own.
DeleteTenant(w) ==
    \E t \in Tenant \ {1} :
        /\ Exists(t)
        /\ rows' = [rows EXCEPT ![t] = Gone]
        /\ Begins(w, Written) /\ UNCHANGED <<list, loose>>

-----------------------------------------------------------------------------
(* RefreshTenants *)

ReadRows(w) ==
    /\ req[w] = Written
    /\ Turns(w, [at |-> "queried", rest |-> Listed])
    /\ loose' = Others(w)
    /\ UNCHANGED <<rows, list, changes>>

\* The query fails: the request is told, the list stays as it was.
ReadRowsFails(w) ==
    /\ req[w] = Written
    /\ Turns(w, Idle) /\ loose' = TRUE /\ UNCHANGED <<rows, list, changes>>

\* Mutant of Emptied: the new entries go behind the old ones.
EmptiedNot == {list}

Emptied == {<<>>}

\* An append of another rebuild may put back what this one has just thrown away.
EmptiesList(w) ==
    /\ req[w].at = "queried"
    /\ Turns(w, [req[w] EXCEPT !.at = "append"])
    /\ list' \in Emptied \cup (IF Others(w) THEN {list} ELSE {})
    /\ UNCHANGED <<rows, changes, loose>>

\* It may be to an older list, and what others appended since is lost.
AppendsTenant(w) ==
    /\ req[w].at = "append" /\ req[w].rest # <<>>
    /\ \E k \in (IF Others(w) THEN 0 ELSE Len(list))..Len(list) :
           list' = Append(SubSeq(list, 1, k), Head(req[w].rest))
    /\ Turns(w, [req[w] EXCEPT !.rest = Tail(@)])
    /\ UNCHANGED <<rows, changes, loose>>

RefreshTenants(w) ==
    /\ req[w].at = "append" /\ req[w].rest = <<>>
    /\ Turns(w, Idle) /\ UNCHANGED <<rows, list, changes, loose>>

TenantsNext ==
    \E w \in Req :
        \/ CreateTenant(w) \/ ChangeTenantSecret(w) \/ ReadTenantStatus(w) \/ ToggleTenantStatus(w)
        \/ UpdateTenant(w) \/ DeleteTenant(w)
        \/ ReadRows(w) \/ ReadRowsFails(w) \/ EmptiesList(w) \/ AppendsTenant(w) \/ RefreshTenants(w)

-----------------------------------------------------------------------------
\* When every change is done the list shows the rows, unless rebuilds overlapped or
\* the last one failed.  A change written after another's query has its own rebuild.
RuntimeExact == Settled /\ ~loose => list = Listed

=============================================================================
