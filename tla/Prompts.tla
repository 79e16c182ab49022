------------------------------ MODULE Prompts -------------------------------
(***************************************************************************)
(* The prompts table of python_agent/db_ops.py and its requests in         *)
(* routers_prompt.py.  Tenants own prompts, and so does the platform, whose *)
(* serve the tenants that have no active one.  The connections commit each *)
(* statement by itself, so a request is a sequence of steps.               *)
(***************************************************************************)
EXTENDS Naturals, SequencesExt

CONSTANTS
    Owner,       \* whose prompts: a tenant's, or the platform's
    AllTenants,  \* the platform as an owner, tenant_id ''
    PromptKey,   \* keys of prompts
    Editor,      \* prompt requests in flight
    MaxText,     \* bound: texts that are written
    MaxKept      \* bound: versions of a prompt that are kept

ASSUME PromptsAssumption ==
    /\ AllTenants \in Owner
    /\ MaxText \in Nat \ {0} /\ MaxKept \in Nat

VARIABLES
    text,    \* text[c][k]: the prompt's content, 0 when there is no such row
    active,  \* active[c]: the keys that are active, latest updated_at first
    kept,    \* kept[c][k]: contents of prompt_versions, oldest first
    texts,   \* contents written so far
    ed       \* ed[e]: where the request stands

promptVars == <<text, active, kept, texts, ed>>

Resting == [at |-> "idle"]
At(e, at) == ed[e] # Resting /\ ed[e].at = at
Listed(c, k) == Contains(active[c], k)
Without(c, k) == RemoveFirst(active[c], k)

PromptType ==
    /\ text \in [Owner -> [PromptKey -> 0..MaxText]]
    /\ active \in [Owner -> Seq(PromptKey)]
    /\ \A c \in Owner : IsInjective(active[c])
    /\ kept \in [Owner -> [PromptKey -> Seq(1..MaxText)]]
    /\ texts \in 0..MaxText
    /\ ed \in [Editor -> {Resting} \cup
                 [at : {"others", "publish", "on", "drop", "dropIdle", "rebuild"}, c : Owner, k : PromptKey]]

\* load_active_prompt: the tenant's, else the platform's, else the built-in one.
LoadActive(c) ==
    IF active[c] # << >> THEN text[c][Head(active[c])]
    ELSE IF active[AllTenants] # << >> THEN text[AllTenants][Head(active[AllTenants])]
    ELSE 0

\* The table once seed_default_prompt has run.
PromptInit(k) ==
    /\ text = [c \in Owner |-> [p \in PromptKey |->
                  IF c = AllTenants /\ p = k THEN 1 ELSE 0]]
    /\ active = [c \in Owner |-> IF c = AllTenants THEN <<k>> ELSE << >>]
    /\ kept = [c \in Owner |-> [p \in PromptKey |-> << >>]]
    /\ texts = 1
    /\ ed = [e \in Editor |-> Resting]

Moves(e, at, c, k) == ed' = [ed EXCEPT ![e] = [at |-> at, c |-> c, k |-> k]]
Goes(e, at) == ed' = [ed EXCEPT ![e].at = at]

\* upsert_prompt: the row, and when it is active the other rows after it.
Upsert(e, c, k, on) ==
    /\ ed[e] = Resting /\ texts < MaxText /\ texts' = texts + 1
    /\ text' = [text EXCEPT ![c][k] = texts']
    /\ active' = [active EXCEPT ![c] = IF on THEN <<k>> \o Without(c, k) ELSE Without(c, k)]
    /\ IF on THEN Moves(e, "others", c, k) ELSE UNCHANGED ed
    /\ UNCHANGED kept

OthersOff(e) ==
    /\ At(e, "others")
    /\ LET c == ed[e].c
           k == ed[e].k
       IN active' = [active EXCEPT ![c] = IF Listed(c, k) THEN <<k>> ELSE << >>]
    /\ Goes(e, "publish")
    /\ UNCHANGED <<text, kept, texts>>

\* activate_prompt: every row off, then the one that is asked for on.
Activate(e, c, k) ==
    /\ ed[e] = Resting
    /\ active' = [active EXCEPT ![c] = << >>]
    /\ Moves(e, "on", c, k)
    /\ UNCHANGED <<text, kept, texts>>

\* When there is no such row the request answers 404; the others stay off.
TurnOn(e) ==
    /\ At(e, "on")
    /\ LET c == ed[e].c
           k == ed[e].k
       IN IF text[c][k] = 0 THEN ed' = [ed EXCEPT ![e] = Resting] /\ UNCHANGED active
          ELSE Goes(e, "rebuild") /\ active' = [active EXCEPT ![c] = <<k>> \o Without(c, k)]
    /\ UNCHANGED <<text, kept, texts>>

\* delete_prompt: is_active is read before the row goes.
Delete(e, c, k) ==
    /\ ed[e] = Resting /\ text[c][k] # 0
    /\ Moves(e, IF Listed(c, k) THEN "drop" ELSE "dropIdle", c, k)
    /\ UNCHANGED <<text, active, kept, texts>>

RowGoes(e) ==
    /\ At(e, "drop") \/ At(e, "dropIdle")
    /\ text' = [text EXCEPT ![ed[e].c][ed[e].k] = 0]
    /\ active' = [active EXCEPT ![ed[e].c] = Without(ed[e].c, ed[e].k)]
    /\ IF At(e, "drop") THEN Goes(e, "rebuild") ELSE ed' = [ed EXCEPT ![e] = Resting]
    /\ UNCHANGED <<kept, texts>>

\* prompt_version_create keeps the present content ...
KeepVersion(c, k) ==
    /\ text[c][k] # 0 /\ Len(kept[c][k]) < MaxKept
    /\ kept' = [kept EXCEPT ![c][k] = Append(@, text[c][k])]
    /\ UNCHANGED <<text, active, texts, ed>>

\* ... and prompt_version_rollback writes one of those back.
Rollback(e, c, k, i) ==
    /\ ed[e] = Resting /\ text[c][k] # 0 /\ i \in 1..Len(kept[c][k])
    /\ text' = [text EXCEPT ![c][k] = kept[c][k][i]]
    /\ active' = [active EXCEPT ![c] = IF Listed(c, k) THEN <<k>> \o Without(c, k) ELSE @]
    /\ Moves(e, "rebuild", c, k)
    /\ UNCHANGED <<kept, texts>>

=============================================================================
