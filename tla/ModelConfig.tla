---------------------------- MODULE ModelConfig -----------------------------
(***************************************************************************)
(* Which models a tenant uses: the providers and the tenants' rows of the  *)
(* gateway's database, what they resolve to, and the requests that change  *)
(* them (service/model_service.go, handler/platform.go).  A model's name   *)
(* and its API base are one value here, providers sort by their ids, and   *)
(* prices are left out.                                                    *)
(***************************************************************************)
EXTENDS Naturals, FiniteSets

CONSTANTS
    Tenant,      \* tenant_id values
    Platform,    \* "t_admin", whose row is the platform's default
    Provider,    \* ids of model_providers; 0 is no provider
    Serves,      \* Serves[p]: the slots of provider_type
    Name,        \* model names (with their bases)
    Key,         \* API keys
    Absent       \* an empty string

ASSUME ModelAssumption ==
    /\ Platform \in Tenant
    /\ Provider \subseteq Nat \ {0} /\ IsFiniteSet(Provider) /\ Provider # {}
    /\ Serves \in [Provider -> SUBSET {"chat", "embedding"}]
    /\ Absent \notin Name \cup Key

VARIABLES
    prov,   \* prov[p]: the provider's row; one that is not `live` is deleted
    cfg     \* cfg[t][s]: what tenant t's row says of slot s

Slot == {"chat", "embedding"}

Row == [custom : BOOLEAN, prov : Provider \cup {0},
        name : Name \cup {Absent}, key : Key \cup {Absent}]

ConfigType ==
    /\ prov \in [Provider -> [live : BOOLEAN, on : BOOLEAN, model : Name]]
    /\ cfg \in [Tenant -> [Slot -> Row]]

-----------------------------------------------------------------------------
(* resolveChatConfig and resolveEmbConfig.                                 *)

Enabled == {p \in Provider : prov[p].live /\ prov[p].on}

\* Mutant of OwnConfig: a row without a key is used.
OwnConfigKeyless(t, s) ==
    LET r == cfg[t][s] IN
    IF r.custom /\ r.name # Absent THEN [name |-> r.name, key |-> r.key] ELSE Absent

\* A provider that is enabled, or else the fields filled in by hand; either way
\* with the row's own key.
OwnConfig(t, s) ==
    LET r == cfg[t][s] IN
    IF r.key = Absent THEN Absent
    ELSE IF r.prov \in Enabled
      THEN [name |-> IF r.name # Absent THEN r.name ELSE prov[r.prov].model,
            key |-> r.key]
    ELSE IF r.custom /\ r.name # Absent THEN [name |-> r.name, key |-> r.key]
    ELSE Absent

\* The platform's own fallback is the first enabled provider, with its key.
Fallback(s) ==
    LET offers == {p \in Enabled : s \in Serves[p]} IN
    IF offers = {} \/ cfg[Platform][s].key = Absent THEN Absent
    ELSE LET first == CHOOSE p \in offers : \A q \in offers : p <= q
         IN [name |-> prov[first].model, key |-> cfg[Platform][s].key]

\* Absent: an error, so that the tenant has no model.
Resolve(t, s) ==
    IF OwnConfig(t, s) # Absent THEN OwnConfig(t, s)
    ELSE IF OwnConfig(Platform, s) # Absent THEN OwnConfig(Platform, s)
    ELSE Fallback(s)

\* use_custom: asks for a provider, not for one that is enabled.
UseCustom(t, s) ==
    LET r == cfg[t][s]
    IN r.key # Absent /\ (r.prov # 0 \/ (r.custom /\ r.name # Absent))

\* GetAgentModelConfig; its config_version is a hash of what resolves.
AgentConfig(t) ==
    IF \E s \in Slot : Resolve(t, s) = Absent THEN Absent
    ELSE [custom |-> [s \in Slot |-> UseCustom(t, s)],
          use |-> [s \in Slot |-> Resolve(t, s)]]
Version(c) == IF c = Absent THEN Absent ELSE c.use

-----------------------------------------------------------------------------
(* Changes.                                                                *)

\* What a form sends for one slot.  An empty field changes nothing, nor does the
\* mask of a key the row has; provider_id is taken as it comes.
Form == [mode : {"", "custom", "platform"}, prov : Provider \cup {0},
         name : Name \cup {Absent}, key : Key \cup {Absent}, clear : BOOLEAN]

Refused(r, f) == f.mode = "custom" /\ f.key = Absent /\ ~f.clear /\ r.key = Absent

Applied(r, f) ==
    [custom |-> IF f.mode = "" THEN r.custom ELSE f.mode = "custom",
     prov |-> f.prov,
     name |-> IF f.name = Absent THEN r.name ELSE f.name,
     key |-> IF f.clear THEN Absent ELSE IF f.key = Absent THEN r.key ELSE f.key]

Changed(t, S, f) == {s \in S : Applied(cfg[t][s], f) # cfg[t][s]}

\* UpdateModelConfig with the form f for the slots S.
UpdateModelConfig(t, S, f) ==
    /\ \A s \in S : ~Refused(cfg[t][s], f)
    /\ Changed(t, S, f) # {}
    /\ cfg' = [cfg EXCEPT ![t] =
                 [s \in Slot |-> IF s \in S THEN Applied(@[s], f) ELSE @[s]]]
    /\ UNCHANGED prov

\* ModelUpdateScope: whatever only one slot's fields tell goes to that slot.
ScopeOf(S) == IF S = Slot THEN "all" ELSE CHOOSE s \in S : TRUE

\* UpdateModelProvider: enabled, disabled or given another model.
UpdateModelProvider(p, on, m) ==
    /\ prov[p].live /\ [prov[p] EXCEPT !.on = on, !.model = m] # prov[p]
    /\ prov' = [prov EXCEPT ![p] = [@ EXCEPT !.on = on, !.model = m]]
    /\ UNCHANGED cfg

\* DeleteModelProvider: not while a tenant refers to it.
DeleteModelProvider(p) ==
    /\ prov[p].live
    /\ \A t \in Tenant, s \in Slot : cfg[t][s].prov # p
    /\ prov' = [prov EXCEPT ![p].live = FALSE]
    /\ UNCHANGED cfg

CreateModelProvider(p, m) ==
    /\ ~prov[p].live
    /\ prov' = [prov EXCEPT ![p] = [live |-> TRUE, on |-> TRUE, model |-> m]]
    /\ UNCHANGED cfg

=============================================================================
