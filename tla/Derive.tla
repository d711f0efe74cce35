------------------------------- MODULE Derive -------------------------------
(***************************************************************************)
(* internal/derive/derive.go: the tokens one workspace should carry, as a  *)
(* pure function of a snapshot; and the one comparison and the one merge   *)
(* in which those tokens take part (controller.observedMatchesDesired, and *)
(* what Herdr does with a workspace.report_metadata request).              *)
(*                                                                         *)
(* Two shapes of token map occur and are kept apart, as in the code.  A    *)
(* WANTED map is total over AllTokens and holds Nil where a key is to be   *)
(* cleared (Go: map[string]*string).  An OBSERVED map has exactly the keys *)
(* that are set (Go: map[string]string).                                   *)
(*                                                                         *)
(* A label is an opaque member of Labels.  A count stays a number: Itoa is *)
(* injective and nothing else is ever written under the two count keys.    *)
(***************************************************************************)
EXTENDS Naturals, FiniteSets

CONSTANTS
    Nil,            \* Go's nil: no agent_status, or a token to be cleared
    Labels,         \* workspace names
    Statuses,       \* the agent_status words Herdr may report, known or not
    ValueMode       \* config.Value

ASSUME NilAssumption ==
    /\ Nil \notin Labels
    /\ Nil \notin Statuses
    /\ Nil \notin Nat
    /\ Nil # "none"

ASSUME ValueModeAssumption == ValueMode \in {"label", "status"}

StatusKeys == {"st_working", "st_blocked", "st_done", "st_idle", "st_unknown",
               "st_none"}
CountKeys  == {"att_blocked", "n_agents"}
AllTokens  == StatusKeys \cup CountKeys

statusTokens ==
    [working |-> "st_working", blocked |-> "st_blocked", done |-> "st_done",
     idle |-> "st_idle", unknown |-> "st_unknown"]

\* No agent at all (Nil) and an agent nobody could classify are different keys.
StatusToken(status) ==
    IF status = Nil THEN "st_none"
    ELSE IF status \in DOMAIN statusTokens THEN statusTokens[status]
    ELSE "st_unknown"

StatusValue(ws) ==
    IF ValueMode = "label" THEN ws.label
    ELSE IF ws.agent_status = Nil THEN "none" ELSE ws.agent_status

\* The agents of workspace id, and those of them that are blocked.
AgentsOf(id, agents) == {a \in DOMAIN agents : agents[a].workspace_id = id}
BlockedOf(id, agents) ==
    {a \in AgentsOf(id, agents) : agents[a].agent_status = "blocked"}

\* A count is written only when it is positive, otherwise its key is cleared.
CountEvenZero(S) == Cardinality(S)    \* mutation: writes "0"
Count(S) == IF S = {} THEN Nil ELSE Cardinality(S)

NoValues == [k \in AllTokens |-> Nil]

\* mutation: a workspace without an agent gets no status token
DesiredWithoutNone(ws, agents) ==
    [NoValues EXCEPT
        ![StatusToken(ws.agent_status)] =
            IF ws.agent_status = Nil THEN Nil ELSE StatusValue(ws),
        !["att_blocked"] = Count(BlockedOf(ws.workspace_id, agents)),
        !["n_agents"]    = Count(AgentsOf(ws.workspace_id, agents))]

Desired(ws, agents) ==
    [NoValues EXCEPT
        ![StatusToken(ws.agent_status)] = StatusValue(ws),
        !["att_blocked"] = Count(BlockedOf(ws.workspace_id, agents)),
        !["n_agents"]    = Count(AgentsOf(ws.workspace_id, agents))]

-----------------------------------------------------------------------------
NoTokens == [k \in {} |-> Nil]

\* mutation: a key that should be cleared is not looked at
ObservedHasDesired(observed, want) ==
    \A k \in DOMAIN want :
        want[k] # Nil => k \in DOMAIN observed /\ observed[k] = want[k]

\* mutation: a key that is absent never matches
ObservedHasEveryKey(observed, want) ==
    \A k \in DOMAIN want : k \in DOMAIN observed /\ observed[k] = want[k]

\* Ranges over want's keys only: a key of another plugin is never looked at.
ObservedMatchesDesired(observed, want) ==
    \A k \in DOMAIN want :
        IF want[k] = Nil
        THEN k \notin DOMAIN observed
        ELSE k \in DOMAIN observed /\ observed[k] = want[k]

\* Herdr's side of report_metadata: a null clears its key, a string sets it,
\* a key that is not mentioned keeps its value.
Merge(held, tokens) ==
    [k \in (DOMAIN held \ DOMAIN tokens) \cup
           {j \in DOMAIN tokens : tokens[j] # Nil} |->
        IF k \in DOMAIN tokens THEN tokens[k] ELSE held[k]]
=============================================================================
