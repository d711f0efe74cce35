---------------------------- MODULE SampleFixture ----------------------------
(***************************************************************************)
(* A document with the shapes of testdata/snapshot.json, for TLC.          *)
(***************************************************************************)
EXTENDS FixtureSchema, TLC

Obj(fields)   == <<>> :> Object @@ Fields(fields)
Elems(k, doc) == <<k>> :> Array @@ Under(<<k, "0">>, doc)

Session ==
    Obj([agent |-> Str("claude"), kind |-> Str("id"), source |-> Str("herdr:claude"),
         value |-> Str("00000000-0000-4000-8000-000000000001")])
Rect == Obj([height |-> Num, width |-> Num, x |-> Num, y |-> Num])

\* What an agent and a pane have in common.
PaneObj ==
    Obj([workspace_id |-> Str("w1"), agent |-> Str("claude"), agent_status |-> Str("idle"),
         cwd |-> Str("/Users/user/projects/proj1"), focused |-> Bool,
         foreground_cwd |-> Str("/Users/user/projects/proj1"), pane_id |-> Str("w1:p1"),
         revision |-> Num, tab_id |-> Str("w1:tA"), terminal_id |-> Str("term_000000000001"),
         terminal_title |-> Str("agent"), terminal_title_stripped |-> Str("agent")])
    @@ Under(<<"agent_session">>, Session)

Workspace ==
    Obj([workspace_id |-> Str("w1"), label |-> Str("space-a"), agent_status |-> Str("working"),
         active_tab_id |-> Str("w1:tA"), number |-> Num, pane_count |-> Num,
         tab_count |-> Num, focused |-> Bool])
    @@ Under(<<"tokens">>, Obj([st_working |-> Str("space-a"), st_idle |-> Str("idle"),
                                n_agents |-> Str("3")]))
Agent == PaneObj @@ Fields([state_change_seq |-> Num])
Pane ==
    PaneObj @@ Under(<<"scroll">>, Obj([max_offset_from_bottom |-> Num,
                                        offset_from_bottom |-> Num, viewport_rows |-> Num]))
Tab ==
    Obj([agent_status |-> Null, focused |-> Bool, label |-> Str("tab-1"), number |-> Num,
         pane_count |-> Num, tab_id |-> Str("w1:tA"), workspace_id |-> Str("w1")])
LayoutPane == Obj([focused |-> Bool, pane_id |-> Str("w1:p1")]) @@ Under(<<"rect">>, Rect)
Split ==
    Obj([direction |-> Str("right"), id |-> Str("split_0"), ratio |-> Num])
    @@ Under(<<"rect">>, Rect)
Layout ==
    Obj([focused_pane_id |-> Str("w1:p1"), tab_id |-> Str("w1:tA"),
         workspace_id |-> Str("w1"), zoomed |-> Bool])
    @@ Under(<<"area">>, Rect) @@ Elems("panes", LayoutPane) @@ Elems("splits", Split)
Snapshot ==
    Obj([focused_pane_id |-> Str("w1:p1"), focused_tab_id |-> Str("w1:tA"),
         focused_workspace_id |-> Str("w1"), protocol |-> Num, version |-> Str("0.8.2")])
    @@ Elems("workspaces", Workspace) @@ Elems("agents", Agent) @@ Elems("panes", Pane)
    @@ Elems("layouts", Layout) @@ Elems("tabs", Tab) @@ Under(<<"tabs", "1">>, Tab)

SomeFixture ==
    Obj([type |-> Str("session_snapshot"), _comment |-> Str("synthetic")])
    @@ Under(<<"snapshot">>, Snapshot)
=============================================================================
