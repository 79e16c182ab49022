----------------------------- MODULE AgentCache -----------------------------
(***************************************************************************)
(* What the agent processes keep in memory of the models and prompts of    *)
(* the tenants, and how they learn that those have changed: the caches and *)
(* get_tenant_agent of python_agent/agent_factory.py, the invalidations    *)
(* the gateway and the prompt requests broadcast over Redis                *)
(* (redis_pubsub.py, routers_cache.py), and the signature that is looked   *)
(* at every ten seconds in case one is lost.  Model instances are cached   *)
(* under what they are made of, so those caches are left out.              *)
(***************************************************************************)
EXTENDS ModelConfig, Prompts

CONSTANTS
    Instance,    \* agent processes whose memory is followed
    Elsewhere,   \* any other
    Builder,     \* calls of get_tenant_agent
    Home,        \* the process of a builder or an editor
    Model0,      \* the model everybody has at first
    Request,     \* the changes of models that are asked for: whose, slots and a form
    MaxChanges,  \* bound: requests that change something
    MaxFaults    \* bound: broadcasts that do not reach a process, requests to the
                 \*   gateway that fail, restarts

\* A model with its key, one for each slot, what the gateway answers, and an agent.
Use == [name : Name, key : Key]
Uses == [Slot -> Use]
Config == [custom : [Slot -> BOOLEAN], use : Uses]
Made == [chat : Use, prompt : 0..MaxText]

ASSUME CacheAssumption ==
    /\ Home \in [Builder \cup Editor -> Instance \cup {Elsewhere}]
    /\ \A b \in Builder : Home[b] \in Instance
    /\ Elsewhere \notin Instance
    /\ Owner = (Tenant \ {Platform}) \cup {AllTenants}
    /\ AllTenants \notin Tenant
    /\ Model0 \in Name /\ Request \subseteq [of : Tenant, slots : SUBSET Slot \ {{}}, form : Form]
    /\ MaxChanges \in Nat /\ MaxFaults \in Nat /\ IsFiniteSet(Instance)
    /\ Absent \notin Use \cup Uses \cup Config \cup Made

Chats == Tenant \ {Platform}

VARIABLES
    conf,    \* conf[i][t]: _tenant_model_cache under the tenant's id
    store,   \* store[i][t]: the embedding tenant_stores[t] was made with
    retr,    \* retr[i][t]: the embedding tenant_retrievers[t] was made with
    agent,   \* agent[i][t]: the model and the prompt of tenant_agents[t]
    sig,     \* sig[i][t]: _agent_sigs
    due,     \* due[i][t]: the last check is _SIG_CHECK_TTL old
    pub,     \* invalidations the gateway has yet to publish
    inbox,   \* inbox[i]: those the listener has yet to read
    bd,      \* bd[b]: where the builder stands
    changes, faults,
    missed   \* missed[i]: tenants whose change i was not told of, or was told of
             \*   while it built their agent (history)

cacheVars == <<conf, store, retr, agent, sig, due>>
budget == <<changes, faults>>
vars == <<prov, cfg, promptVars, cacheVars, pub, inbox, bd, budget, missed>>

Free == [at |-> "idle"]
Building(i, t) == \E b \in Builder : Home[b] = i /\ bd[b] # Free /\ bd[b].t = t
Busy(i) == \E t \in Chats : Building(i, t)

\* What an agent built from scratch would use now.
Current(t, s) ==
    IF AgentConfig(t) = Absent THEN Absent
    ELSE IF UseCustom(t, s) THEN Resolve(t, s)
    ELSE IF AgentConfig(Platform) = Absent THEN Absent ELSE Resolve(Platform, s)

Message == [to : Tenant \cup {AllTenants}, scope : Slot \cup {"all", "prompt"}]

Versions == Uses \cup {Absent}
Call == [at : {"check", "vector", "prompt", "model"}, t : Chats, rv : Versions,
         own : Config \cup {Absent}, net : {"none", "asked", "answered"},
         got : Config \cup {Absent}, text : 0..MaxText]

TypeOK ==
    /\ ConfigType /\ PromptType
    /\ conf \in [Instance -> [Tenant -> Config \cup {Absent}]]
    /\ store \in [Instance -> [Chats -> Use \cup {Absent}]]
    /\ retr \in [Instance -> [Chats -> Use \cup {Absent}]]
    /\ agent \in [Instance -> [Chats -> Made \cup {Absent}]]
    /\ sig \in [Instance -> [Chats -> Versions]]
    /\ due \in [Instance -> [Chats -> BOOLEAN]]
    /\ pub \subseteq Message
    /\ inbox \in [Instance -> Seq(Message)]
    /\ bd \in [Builder -> Call \cup {Free}]
    /\ changes \in 0..MaxChanges /\ faults \in 0..MaxFaults
    /\ missed \in [Instance -> SUBSET Chats]

Nothing(D) == [i \in Instance |-> [t \in D |-> Absent]]

Init ==
    /\ prov = [p \in Provider |-> [live |-> TRUE, on |-> TRUE, model |-> Model0]]
    /\ \E k \in Key : cfg = [t \in Tenant |-> [s \in Slot |->
          IF t = Platform THEN [custom |-> TRUE, prov |-> 0, name |-> Model0, key |-> k]
          ELSE [custom |-> FALSE, prov |-> 0, name |-> Absent, key |-> Absent]]]
    /\ \E k \in PromptKey : PromptInit(k)
    /\ conf = Nothing(Tenant)
    /\ store = Nothing(Chats) /\ retr = Nothing(Chats)
    /\ agent = Nothing(Chats) /\ sig = Nothing(Chats)
    /\ due = [i \in Instance |-> [t \in Chats |-> TRUE]]
    /\ pub = {} /\ inbox = [i \in Instance |-> << >>]
    /\ bd = [b \in Builder |-> Free]
    /\ changes = 0 /\ faults = 0
    /\ missed = [i \in Instance |-> {}]

Counted == changes < MaxChanges /\ changes' = changes + 1
Misses(M) == missed' = [i \in Instance |-> missed[i] \cup M[i]]

-----------------------------------------------------------------------------
(* The gateway's side.                                                     *)

\* A change of configuration, of which the processes will be sent m.
Change(m) ==
    LET plat == AgentConfig(Platform)' # AgentConfig(Platform)
        about == {t \in Chats : plat \/ AgentConfig(t)' # AgentConfig(t)}
        told == {t \in about : \E x \in m : x.to \in {t, AllTenants}}
    IN /\ Counted
       /\ pub' = pub \cup m
       /\ Misses([i \in Instance |-> about \ told])
       /\ UNCHANGED <<promptVars, cacheVars, inbox, bd, faults>>

\* TenantModelConfigUpdate tells everybody of t_admin's change, being the
\* platform's; BusinessModelConfigUpdate only of the tenant that makes it.  When
\* RefreshTenants fails the row is written and nobody is told.
ConfigChanges(t, S, f, byPlatform) ==
    /\ UpdateModelConfig(t, S, f)
    /\ \/ Change({[to |-> IF byPlatform /\ t = Platform THEN AllTenants ELSE t,
                    scope |-> ScopeOf(Changed(t, S, f))]})
       \/ Change({})

\* Nobody is told of a provider's change.
ProviderChanges(p) ==
    /\ \/ \E on \in BOOLEAN, m \in Name : UpdateModelProvider(p, on, m)
       \/ DeleteModelProvider(p)
       \/ \E m \in Name : CreateModelProvider(p, m)
    /\ Change({})

\* A message reaches the processes that listen just then: all but those of L.
Sends(m, L) ==
    /\ faults + Cardinality(L) <= MaxFaults /\ faults' = faults + Cardinality(L)
    /\ inbox' = [i \in Instance |-> IF i \in L THEN inbox[i] ELSE Append(inbox[i], m)]
Reaches(m) == IF m.to = AllTenants THEN Chats ELSE {m.to} \cap Chats

\* The goroutine that publishes.
Publish(m, L) ==
    /\ m \in pub /\ pub' = pub \ {m}
    /\ Sends(m, L)
    /\ Misses([i \in Instance |-> IF i \in L THEN Reaches(m) ELSE {}])
    /\ UNCHANGED <<prov, cfg, promptVars, cacheVars, bd, changes>>

-----------------------------------------------------------------------------
(* Forgetting.                                                             *)

Drop(f, i, T) == [j \in Instance |-> [t \in DOMAIN f[j] |->
                     IF j = i /\ t \in T THEN Absent ELSE f[j][t]]]

\* Mutant of ClearTenantCaches: the configuration goes, the agent made from it stays.
ClearTenantCachesOnly(i, to, scope) ==
    LET T == IF to = AllTenants THEN Tenant ELSE {to} IN
    /\ conf' = Drop(conf, i, T)
    /\ UNCHANGED <<agent, retr>>

\* clear_tenant_caches, with clear_model_cache.
ClearTenantCaches(i, to, scope) ==
    LET T == IF to = AllTenants THEN Tenant ELSE {to} IN
    /\ conf' = Drop(conf, i, T)
    /\ agent' = Drop(agent, i, T)
    /\ retr' = IF to # AllTenants /\ scope = "chat" THEN retr ELSE Drop(retr, i, T)

\* invalidate_platform_prompt_agents: the tenants that have no active prompt.
Followers == {t \in Chats : active[t] = << >>}

\* invalidate_listener.  Whoever builds meanwhile may store what it has just lost.
Consume(i) ==
    /\ inbox[i] # << >>
    /\ inbox' = [inbox EXCEPT ![i] = Tail(@)]
    /\ LET m == Head(inbox[i])
           late == {t \in Reaches(m) : Building(i, t)}
       IN IF m.scope = "prompt"
            THEN /\ agent' = Drop(agent, i, Followers) /\ UNCHANGED <<conf, retr>>
                 /\ missed' = [missed EXCEPT ![i] = @ \cup late]
            ELSE /\ ClearTenantCaches(i, m.to, m.scope)
                 /\ missed' = [missed EXCEPT ![i] =
                       IF m.to # AllTenants THEN @ \cup late
                       ELSE IF Busy(i) THEN Chats ELSE {}]
    /\ UNCHANGED <<prov, cfg, promptVars, store, sig, due, pub, bd, budget>>

\* _MODEL_CONFIG_TTL runs out.
Expire(i, t) ==
    /\ conf[i][t] # Absent /\ conf' = Drop(conf, i, {t})
    /\ UNCHANGED <<prov, cfg, promptVars, store, retr, agent, sig, due, pub, inbox,
                   bd, budget, missed>>

\* _SIG_CHECK_TTL runs out.
Tick(i, t) ==
    /\ ~due[i][t] /\ due' = [due EXCEPT ![i][t] = TRUE]
    /\ UNCHANGED <<prov, cfg, promptVars, conf, store, retr, agent, sig, pub, inbox,
                   bd, budget, missed>>

\* Any change of the knowledge base drops the retriever, and nothing else.
KbChanges(i, t) ==
    /\ retr[i][t] # Absent /\ retr' = Drop(retr, i, {t})
    /\ Counted
    /\ UNCHANGED <<prov, cfg, promptVars, conf, store, agent, sig, due, pub, inbox,
                   bd, faults, missed>>

\* A process that starts anew knows nothing, and has missed nothing; of what its
\* requests changed the others are not told.
Affects(c) == IF c = AllTenants THEN Chats ELSE {c}
Restart(i) ==
    /\ faults < MaxFaults /\ faults' = faults + 1
    /\ conf' = Drop(conf, i, Tenant)
    /\ store' = Drop(store, i, Chats) /\ retr' = Drop(retr, i, Chats)
    /\ agent' = Drop(agent, i, Chats) /\ sig' = Drop(sig, i, Chats)
    /\ due' = [due EXCEPT ![i] = [t \in Chats |-> TRUE]]
    /\ inbox' = [inbox EXCEPT ![i] = << >>]
    /\ bd' = [b \in Builder |-> IF Home[b] = i THEN Free ELSE bd[b]]
    /\ ed' = [e \in Editor |-> IF Home[e] = i THEN Resting ELSE ed[e]]
    /\ missed' = [j \in Instance |-> IF j = i THEN {} ELSE missed[j] \cup
          UNION {Affects(ed[e].c) : e \in {x \in Editor : Home[x] = i /\ ed[x] # Resting}}]
    /\ UNCHANGED <<prov, cfg, text, active, kept, texts, pub, changes>>

-----------------------------------------------------------------------------
(* Prompt requests.                                                        *)

PromptsOnly == UNCHANGED <<prov, cfg, cacheVars, pub, inbox, bd, faults>>

\* Saving a prompt that is not to be active tells nobody, even when it was active.
Saves(e, c, k, on) ==
    /\ Upsert(e, c, k, on) /\ Counted
    /\ Misses([i \in Instance |->
          IF on THEN {} ELSE {t \in Chats : LoadActive(t)' # LoadActive(t)}])
    /\ PromptsOnly

Edits(e, c, k) ==
    /\ \/ Activate(e, c, k) \/ Delete(e, c, k) \/ KeepVersion(c, k)
       \/ \E n \in 1..MaxKept : Rollback(e, c, k, n)
    /\ Counted
    /\ PromptsOnly /\ UNCHANGED missed

\* Nor of the end of a prompt that became active after delete_prompt looked.
GoesOn(e) ==
    /\ OthersOff(e) \/ RowGoes(e)
    /\ Misses([i \in Instance |->
          IF At(e, "dropIdle") THEN {t \in Chats : LoadActive(t)' # LoadActive(t)} ELSE {}])
    /\ PromptsOnly /\ UNCHANGED changes

\* Neither is anybody told that all prompts are off for one that does not exist.
SwitchesOn(e) ==
    /\ TurnOn(e)
    /\ Misses([i \in Instance |->
          IF text[ed[e].c][ed[e].k] = 0 THEN Affects(ed[e].c) ELSE {}])
    /\ PromptsOnly /\ UNCHANGED changes

\* What the request of e makes its own process forget, and leaves untold when the
\* process i gets no message.
Popped(c) == IF c = AllTenants THEN Followers ELSE {c}
Untold(e, i) == IF i = Home[e] THEN {t \in Popped(ed[e].c) : Building(i, t)}
                ELSE Affects(ed[e].c)

\* The end of prompts_upsert.  When the tenant's own agent cannot be built again
\* the request fails before it publishes.
PublishPrompt(e, L) ==
    /\ At(e, "publish") /\ ed' = [ed EXCEPT ![e] = Resting]
    /\ agent' = Drop(agent, Home[e], Popped(ed[e].c))
    /\ \/ /\ Sends([to |-> ed[e].c, scope |-> IF ed[e].c = AllTenants THEN "prompt" ELSE "all"], L)
          /\ Misses([i \in Instance |-> IF i \in L THEN Untold(e, i) ELSE {}])
       \/ /\ ed[e].c # AllTenants /\ L = {}
          /\ Misses([i \in Instance |-> Untold(e, i)])
          /\ UNCHANGED <<inbox, faults>>
    /\ UNCHANGED <<prov, cfg, text, active, kept, texts, conf, store, retr, sig, due,
                   pub, bd, changes>>

\* The end of the other requests: rebuild_tenant_agent here, which fails for the
\* platform, and no word to the others.
Rebuild(e) ==
    /\ At(e, "rebuild") /\ ed' = [ed EXCEPT ![e] = Resting]
    /\ agent' = IF ed[e].c = AllTenants THEN agent ELSE Drop(agent, Home[e], {ed[e].c})
    /\ Misses([i \in Instance |-> IF ed[e].c = AllTenants THEN Chats ELSE Untold(e, i)])
    /\ UNCHANGED <<prov, cfg, text, active, kept, texts, conf, store, retr, sig, due,
                   pub, inbox, bd, budget>>

-----------------------------------------------------------------------------
(* get_tenant_agent.                                                       *)

Stands(b, call) == bd' = [bd EXCEPT ![b] = call]
Begun(t, at, rv) == [at |-> at, t |-> t, rv |-> rv, own |-> Absent, got |-> Absent,
                     net |-> IF at = "check" THEN "asked" ELSE "none", text |-> 0]

\* _check_config_version asks at most every ten seconds; a call that has not asked
\* and finds the agent changes nothing.
GetTenantAgent(b, t) ==
    /\ bd[b] = Free
    /\ IF due[Home[b]][t]
         THEN Stands(b, Begun(t, "check", Absent)) /\ due' = [due EXCEPT ![Home[b]][t] = FALSE]
         ELSE /\ agent[Home[b]][t] = Absent
              /\ Stands(b, Begun(t, "vector", Absent)) /\ UNCHANGED due
    /\ UNCHANGED <<prov, cfg, promptVars, conf, store, retr, agent, sig, pub, inbox,
                   budget, missed>>

\* The gateway answers with what the database says now, or something fails.
Asked(b) == IF bd[b].at # "check" /\ bd[b].own # Absent THEN Platform ELSE bd[b].t
Answer(b) ==
    /\ bd[b] # Free /\ bd[b].net = "asked"
    /\ \/ /\ Stands(b, [bd[b] EXCEPT !.net = "answered", !.got = AgentConfig(Asked(b))])
          /\ UNCHANGED faults
       \/ /\ Stands(b, [bd[b] EXCEPT !.net = "answered"])
          /\ faults < MaxFaults /\ faults' = faults + 1
    /\ UNCHANGED <<prov, cfg, promptVars, cacheVars, pub, inbox, changes, missed>>

\* Another signature than the agent's: everything of the tenant goes.  A check that
\* fails is skipped until the next is due.
Checked(b) ==
    LET i == Home[b]
        t == bd[b].t
        rv == Version(bd[b].got)
        stale == rv # Absent /\ rv # sig[i][t]
        gone == IF stale THEN {t} ELSE {}
    IN /\ bd[b] # Free /\ bd[b].at = "check" /\ bd[b].net = "answered"
       /\ conf' = Drop(conf, i, gone)
       /\ agent' = Drop(agent, i, gone) /\ retr' = Drop(retr, i, gone)
       /\ Stands(b, IF agent'[i][t] # Absent THEN Free ELSE Begun(t, "vector", rv))
       /\ UNCHANGED <<prov, cfg, promptVars, store, sig, due, pub, inbox, budget, missed>>

\* ensure_tenant_vector made the store with embedding u; get_tenant_retriever keeps
\* a retriever it has.
StoreMade(b, u) ==
    LET i == Home[b]
        t == bd[b].t
    IN /\ store' = [store EXCEPT ![i][t] = u]
       /\ retr' = [retr EXCEPT ![i][t] = IF @ = Absent THEN u ELSE @]
       /\ Stands(b, Begun(t, "prompt", bd[b].rv))
       /\ UNCHANGED <<agent, sig>>

\* The agent is signed with what was asked first, or else with what is cached.
AgentMade(b, u) ==
    LET i == Home[b]
        t == bd[b].t
        v == IF bd[b].rv # Absent THEN bd[b].rv ELSE Version(conf'[i][t])
    IN /\ agent' = [agent EXCEPT ![i][t] = [chat |-> u, prompt |-> bd[b].text]]
       /\ sig' = [sig EXCEPT ![i][t] = IF v = Absent THEN @ ELSE v]
       /\ Stands(b, Free)
       /\ UNCHANGED <<store, retr>>

\* get_tenant_embeddings or get_tenant_model, once the tenant's configuration is
\* own: the platform's model needs the platform's configuration as well.
Proceed(b, own) ==
    LET s == IF bd[b].at = "vector" THEN "embedding" ELSE "chat"
        source == IF own.custom[s] THEN own ELSE conf'[Home[b]][Platform]
    IN IF source = Absent
         THEN /\ Stands(b, [bd[b] EXCEPT !.own = own, !.net = "asked", !.got = Absent])
              /\ UNCHANGED <<store, retr, agent, sig>>
       ELSE IF s = "embedding" THEN StoreMade(b, source.use[s])
       ELSE AgentMade(b, source.use[s])

\* A step that needs a configuration takes the cached one, or asks.
Needs(b) ==
    LET i == Home[b]
        t == bd[b].t
    IN /\ bd[b] # Free /\ bd[b].at \in {"vector", "model"} /\ bd[b].net = "none"
       /\ UNCHANGED conf
       /\ IF bd[b].at = "vector" /\ store[i][t] # Absent THEN StoreMade(b, store[i][t])
          ELSE IF conf[i][t] # Absent THEN Proceed(b, conf[i][t])
          ELSE /\ Stands(b, [bd[b] EXCEPT !.net = "asked"])
               /\ UNCHANGED <<store, retr, agent, sig>>
       /\ UNCHANGED <<prov, cfg, promptVars, due, pub, inbox, budget, missed>>

\* The answer comes.  Without a store the build goes on, with the retriever there
\* is; without a model it fails.
Arrives(b) ==
    LET i == Home[b]
        got == bd[b].got
    IN /\ bd[b] # Free /\ bd[b].at # "check" /\ bd[b].net = "answered"
       /\ conf' = IF got = Absent THEN conf ELSE [conf EXCEPT ![i][Asked(b)] = got]
       /\ IF got # Absent THEN Proceed(b, IF bd[b].own = Absent THEN got ELSE bd[b].own)
          ELSE IF bd[b].at = "vector" /\ store[i][bd[b].t] # Absent
            THEN StoreMade(b, store[i][bd[b].t])
          ELSE /\ Stands(b, IF bd[b].at = "vector"
                             THEN Begun(bd[b].t, "prompt", bd[b].rv) ELSE Free)
               /\ UNCHANGED <<store, retr, agent, sig>>
       /\ UNCHANGED <<prov, cfg, promptVars, due, pub, inbox, budget, missed>>

ReadPrompt(b) ==
    /\ bd[b] # Free /\ bd[b].at = "prompt"
    /\ Stands(b, [bd[b] EXCEPT !.at = "model", !.text = LoadActive(bd[b].t)])
    /\ UNCHANGED <<prov, cfg, promptVars, cacheVars, pub, inbox, budget, missed>>

-----------------------------------------------------------------------------
Managers ==
    \/ \E r \in Request, byPlatform \in BOOLEAN :
          ConfigChanges(r.of, r.slots, r.form, byPlatform)
    \/ \E p \in Provider : ProviderChanges(p)

Writers == \E e \in Editor :
    \/ \E c \in Owner, k \in PromptKey :
          \/ \E on \in BOOLEAN : Saves(e, c, k, on)
          \/ Edits(e, c, k)
    \/ GoesOn(e) \/ SwitchesOn(e) \/ Rebuild(e)
    \/ \E L \in SUBSET Instance : PublishPrompt(e, L)

Messages ==
    \/ \E m \in pub, L \in SUBSET Instance : Publish(m, L)
    \/ \E i \in Instance : Consume(i)

Clock == \E i \in Instance :
    \/ \E t \in Tenant : Expire(i, t)
    \/ \E t \in Chats : Tick(i, t) \/ KbChanges(i, t)
    \/ Restart(i)

Work(b) == Answer(b) \/ Checked(b) \/ Needs(b) \/ Arrives(b) \/ ReadPrompt(b)

Next ==
    \/ Managers \/ Writers \/ Messages \/ Clock
    \/ \E b \in Builder :
          \/ \E t \in Chats : GetTenantAgent(b, t)
          \/ Work(b)

Spec == Init /\ [][Next]_vars

-----------------------------------------------------------------------------
(* Properties.                                                             *)

\* When every word has come through and no prompt request is under way, an agent
\* that is kept speaks with the model and the prompt its tenant has now, unless the
\* process was not told or was told while it built.
FreshAtRest ==
    (pub = {} /\ \A e \in Editor : ed[e] = Resting) =>
    \A i \in Instance : inbox[i] = << >> =>
      \A t \in Chats \ missed[i] : agent[i][t] # Absent =>
        agent[i][t] = [chat |-> Current(t, "chat"), prompt |-> LoadActive(t)]

\* Conversations go on, what is asked is answered, and ten seconds pass.
FairSpec == Spec /\ \A b \in Builder, t \in Chats :
    WF_vars(GetTenantAgent(b, t)) /\ WF_vars(Work(b)) /\ WF_vars(Tick(Home[b], t))

\* A retriever that is dropped because the knowledge base changed comes back with
\* the conversations, as "try again later" promises.
RetrieverReturns ==
    \A i \in Instance, t \in Chats : []<>(store[i][t] # Absent => retr[i][t] # Absent)

=============================================================================
