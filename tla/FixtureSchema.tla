---------------------------- MODULE FixtureSchema ----------------------------
(***************************************************************************)
(* internal/herdrapi/schema.go: the closed schema of a test fixture and    *)
(* its validator, ValidateFixture.                                         *)
(*                                                                         *)
(* A JSON document is what json.Unmarshal makes of the file (of a key that *)
(* occurs twice it keeps the last value; the other is not looked at): a    *)
(* function from its places to what is found there. A place is the         *)
(* sequence of keys that leads to it, in an array the keys are the         *)
(* indices. A schema is a function from places to rules, with "[]" for     *)
(* every index. The validator of the code walks down both; what its walk   *)
(* reports is said here of all places at once.                             *)
(*                                                                         *)
(* A string is one representative of its shape ("w1" stands for ^w\d+$), a *)
(* pattern or an enum is the set of the representatives it matches, and    *)
(* "private" matches none.  The wording of a reason is left out.           *)
(***************************************************************************)
EXTENDS Integers, Sequences

Str(s) == [type |-> "string", s |-> s]
Num    == [type |-> "number"]
Bool   == [type |-> "bool"]
Null   == [type |-> "null"]
Object == [type |-> "object"]
Array  == [type |-> "array"]

Nodes == [type : {"string"}, s : STRING] \cup {Num, Bool, Null, Object, Array}

IsDocument(doc) ==
    /\ DOMAIN doc \subseteq Seq(STRING)
    /\ \A p \in DOMAIN doc :
          /\ doc[p] \in Nodes
          /\ \A n \in 0..Len(p) : SubSeq(p, 1, n) \in DOMAIN doc
          /\ \A n \in 0..(Len(p) - 1) : doc[SubSeq(p, 1, n)] \in {Object, Array}

-----------------------------------------------------------------------------
(* fieldChecker, fieldSpec: the types and the texts that are accepted *)

In(S)       == [types |-> {}, values |-> S]     \* literal, pattern, enum
OfType(t)   == [types |-> {t}, values |-> {}]
Nullable(c) == [c EXCEPT !.types = @ \cup {"null"}]

Accepts(check, node) ==
    \/ node.type \in check.types
    \/ node.type = "string" /\ node.s \in check.values

Required(c) == [required |-> TRUE,  check |-> c]
Optional(c) == [required |-> FALSE, check |-> c]

\* The rules of two disjoint parts of a schema.
a ++ b == [p \in DOMAIN a \cup DOMAIN b |-> IF p \in DOMAIN a THEN a[p] ELSE b[p]]

\* The parts of an objectSchema: the rule for what is at p itself; the rules for
\* the fields of an object; those of a schema moved below q; those for every
\* element of the array at k.
Only(p, rule)  == [q \in {p} |-> rule]
Fields(f)      == [p \in {<<k>> : k \in DOMAIN f} |-> f[p[1]]]
Under(q, sch)  == [p \in {q \o r : r \in DOMAIN sch} |-> sch[SubSeq(p, Len(q) + 1, Len(p))]]
EachOf(k, sch) == Only(<<k, "[]">>, Optional(OfType("object"))) ++ Under(<<k, "[]">>, sch)

-----------------------------------------------------------------------------
(* The shapes *)

agentStatusValues == {"idle", "working", "blocked", "done", "unknown"}
statusWords       == agentStatusValues \cup {"none"}
KnownAgentKinds   == {"claude", "codex"}
titleValues       == {"shell", "agent", "nvim", ""}
reWorkspaceID     == {"w1"}
reTabID           == {"w1:tA"}
rePaneID          == {"w1:p1"}
reLabel           == {"space-a", "space-x-none", "tab-1"}
rePath            == {"/Users/user/projects/proj1"}
reTerminalID      == {"term_000000000001"}
reSessionUUID     == {"00000000-0000-4000-8000-000000000001"}
reDecimalCount    == {"3"}

Text    == Optional(OfType("string"))
Number  == Optional(OfType("number"))
Flag    == Optional(OfType("bool"))
Status  == Required(Nullable(In(agentStatusValues)))
Title   == Optional(In(titleValues))
Path    == Optional(In(rePath))
SubTree == Optional(OfType("object"))
List    == Optional(OfType("array"))

tokenStatusOrLabelValue == Optional(In(reLabel \cup statusWords))
tokenCount              == Optional(In(reDecimalCount))

\* For every key that tokens may have the rule its value keeps.
tokenValueRules ==
    [st_working |-> tokenStatusOrLabelValue, st_blocked |-> tokenStatusOrLabelValue,
     st_done |-> tokenStatusOrLabelValue, st_idle |-> tokenStatusOrLabelValue,
     st_unknown |-> tokenStatusOrLabelValue, st_none |-> tokenStatusOrLabelValue,
     att_blocked |-> tokenCount, n_agents |-> tokenCount]

TokensField == Optional(Nullable(OfType("object")))

-----------------------------------------------------------------------------
(* The kinds of object: the rules of their fields *)

agentSessionFields ==
    [agent |-> Optional(In(KnownAgentKinds)), kind |-> Text, source |-> Text,
     value |-> Required(In(reSessionUUID))]
scrollFields ==
    [max_offset_from_bottom |-> Number, offset_from_bottom |-> Number, viewport_rows |-> Number]
rectFields == [height |-> Number, width |-> Number, x |-> Number, y |-> Number]
layoutPaneFields ==
    [focused |-> Flag, pane_id |-> Required(In(rePaneID)), rect |-> SubTree]
splitFields ==
    [direction |-> Text, id |-> Text, ratio |-> Number, rect |-> SubTree]
layoutFields ==
    [area |-> SubTree, focused_pane_id |-> Optional(In(rePaneID)), panes |-> List,
     splits |-> List, tab_id |-> Required(In(reTabID)),
     workspace_id |-> Required(In(reWorkspaceID)), zoomed |-> Flag]
workspaceFields ==
    [workspace_id |-> Required(In(reWorkspaceID)), label |-> Required(In(reLabel)),
     agent_status |-> Status, active_tab_id |-> Optional(In(reTabID)),
     number |-> Number, pane_count |-> Number, tab_count |-> Number,
     focused |-> Flag, tokens |-> TokensField]
agentFields ==
    [workspace_id |-> Required(In(reWorkspaceID)), agent |-> Required(In(KnownAgentKinds)),
     agent_session |-> SubTree, agent_status |-> Status, cwd |-> Path,
     focused |-> Flag, foreground_cwd |-> Path, pane_id |-> Optional(In(rePaneID)),
     revision |-> Number, state_change_seq |-> Number,
     tab_id |-> Optional(In(reTabID)), terminal_id |-> Optional(In(reTerminalID)),
     terminal_title |-> Title, terminal_title_stripped |-> Title]
tabFields ==
    [agent_status |-> Status, focused |-> Flag, label |-> Required(In(reLabel)),
     number |-> Number, pane_count |-> Number, tab_id |-> Required(In(reTabID)),
     workspace_id |-> Required(In(reWorkspaceID))]
paneFields ==
    [agent |-> Optional(In(KnownAgentKinds)), agent_session |-> SubTree,
     agent_status |-> Status, cwd |-> Path, focused |-> Flag,
     foreground_cwd |-> Path, pane_id |-> Required(In(rePaneID)),
     revision |-> Number, scroll |-> SubTree, tab_id |-> Required(In(reTabID)),
     terminal_id |-> Required(In(reTerminalID)), terminal_title |-> Title,
     terminal_title_stripped |-> Title, workspace_id |-> Required(In(reWorkspaceID))]
snapshotFields ==
    [workspaces |-> Required(OfType("array")), agents |-> Required(OfType("array")),
     tabs |-> List, panes |-> List, layouts |-> List,
     focused_pane_id |-> Optional(In(rePaneID)), focused_tab_id |-> Optional(In(reTabID)),
     focused_workspace_id |-> Optional(In(reWorkspaceID)),
     protocol |-> Number, version |-> Text]
rootFields ==
    [type |-> Required(In({"session_snapshot"})), snapshot |-> Required(OfType("object")),
     _comment |-> Text]

\* Each kind with the kinds that are found below its fields.
layoutPaneSchema == Fields(layoutPaneFields) ++ Under(<<"rect">>, Fields(rectFields))
splitSchema      == Fields(splitFields) ++ Under(<<"rect">>, Fields(rectFields))
layoutSchema ==
    Fields(layoutFields) ++ Under(<<"area">>, Fields(rectFields))
    ++ EachOf("panes", layoutPaneSchema) ++ EachOf("splits", splitSchema)
workspaceSchema == Fields(workspaceFields) ++ Under(<<"tokens">>, Fields(tokenValueRules))
agentSchema     == Fields(agentFields) ++ Under(<<"agent_session">>, Fields(agentSessionFields))
paneSchema ==
    Fields(paneFields) ++ Under(<<"agent_session">>, Fields(agentSessionFields))
    ++ Under(<<"scroll">>, Fields(scrollFields))
snapshotSchema ==
    Fields(snapshotFields)
    ++ EachOf("workspaces", workspaceSchema) ++ EachOf("agents", agentSchema)
    ++ EachOf("tabs", Fields(tabFields)) ++ EachOf("panes", paneSchema)
    ++ EachOf("layouts", layoutSchema)
rootSchema ==
    Only(<<>>, Required(OfType("object"))) ++ Fields(rootFields)
    ++ Under(<<"snapshot">>, snapshotSchema)

\* Descriptive texts that the schema does not look into (pre-commit:34-38,
\* schema.go _comment).
FreeTexts == {"kind", "source", "direction", "id", "version", "_comment"}

-----------------------------------------------------------------------------
(* ValidateFixture *)

\* The place of the schema that speaks of the place p of doc.
Generic(doc, p) ==
    [i \in 1..Len(p) |-> IF doc[SubSeq(p, 1, i - 1)].type = "array" THEN "[]" ELSE p[i]]

\* mutation: a field the schema does not name is passed over
FitsOpenSchema(doc, p) ==
    LET g == Generic(doc, p)
    IN  g \in DOMAIN rootSchema => Accepts(rootSchema[g].check, doc[p])

\* The schema names the place, and the checker it has for it accepts the value.
Fits(doc, p) ==
    LET g == Generic(doc, p)
    IN  g \in DOMAIN rootSchema /\ Accepts(rootSchema[g].check, doc[p])

RequiredPlaces == {g \in DOMAIN rootSchema : rootSchema[g].required}

\* Required fields that the object at p does not have.
Missing(doc, p) ==
    {Append(p, g[Len(g)]) : g \in {h \in RequiredPlaces :
        Len(h) = Len(p) + 1 /\ SubSeq(h, 1, Len(p)) = Generic(doc, p)}} \ DOMAIN doc

\* mutation: the first violation ends the walk
ValidateFirst(doc) ==
    LET wrong == {p \in DOMAIN doc : ~Fits(doc, p)}
    IN  IF wrong = {} THEN {} ELSE {CHOOSE p \in wrong : \A q \in wrong : Len(p) <= Len(q)}

\* The walk goes on below what fits and reports, wherever it comes, what does
\* not fit and what is missing: every violation, not only the first.
ValidateFixture(doc) ==
    LET wrong   == {p \in DOMAIN doc : ~Fits(doc, p)}
        visited == {p \in DOMAIN doc : \A n \in 0..(Len(p) - 1) : SubSeq(p, 1, n) \notin wrong}
    IN  (visited \cap wrong)
        \cup UNION {Missing(doc, p) : p \in {q \in visited \ wrong : doc[q].type = "object"}}
=============================================================================
