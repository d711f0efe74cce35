----------------------------- MODULE MCPreCommit -----------------------------
(***************************************************************************)
(* FixturePipeline for TLC: a fixture, what one or two edits make of it,   *)
(* and what the sanitizer makes of captures.                               *)
(***************************************************************************)
EXTENDS FixturePipeline, SampleFixture

-----------------------------------------------------------------------------
(* Edits *)

Places      == DOMAIN SomeFixture
ObjPlaces   == {p \in Places : SomeFixture[p] = Object}
Begins(p, q) == Len(p) <= Len(q) /\ SubSeq(q, 1, Len(p)) = p

Drop(doc, p)       == [q \in {r \in DOMAIN doc : ~Begins(p, r)} |-> doc[q]]
Set(doc, p, value) == p :> value @@ Drop(doc, p)

Values == {Private, Num, Null, Object, Array, Str("idle")}

Replaced == {Set(SomeFixture, p, v) : p \in Places, v \in Values}
\* A field nobody reviewed, or one that is reviewed in another object only.
Extended == {Set(SomeFixture, Append(p, k), Private) : p \in ObjPlaces, k \in {"extra", "direction"}}
Dropped  == {Drop(SomeFixture, p) : p \in Places \ {<<>>}}

Leak(doc)  == Set(doc, <<"snapshot", "workspaces", "0", "label">>, Private)
Stray(doc) == Set(doc, <<"snapshot", "agents", "0", "extra">>, Private)
Aside(doc) == Set(doc, <<"snapshot", "version">>, Private)
\* An unknown field with a whole object below it.
Deep(doc)  == Under(<<"snapshot", "tabs", "1", "extra">>, Session) @@ doc

-----------------------------------------------------------------------------
(* Captures *)

Without(doc, keys) ==
    [p \in {q \in DOMAIN doc : \A i \in DOMAIN q : q[i] \notin keys} |-> doc[p]]

\* The sample with the texts of a machine in it, by field.
LiveDoc(texts) ==
    [p \in DOMAIN Without(SomeFixture, {"_comment", "tokens"}) |->
        IF p # <<>> /\ p[Len(p)] \in DOMAIN texts THEN texts[p[Len(p)]] ELSE SomeFixture[p]]

LiveTexts(dir, title) ==
    [cwd |-> Str(dir), foreground_cwd |-> Str(dir), label |-> Str("shop"),
     terminal_title |-> title, terminal_title_stripped |-> title,
     terminal_id |-> Str("live-terminal"), value |-> Str("live-session")]

ACapture == LiveDoc(LiveTexts("/Users/account/shop", Str("shop")))

FirstWorkspace == <<"snapshot", "workspaces", "0">>

WithTokens(doc, tokens) ==
    Under(FirstWorkspace, Under(<<"tokens">>, Obj(tokens))) @@ doc

WithWorkspaces(doc, n) ==
    [p \in UNION {{<<"snapshot", "workspaces", ToString(i)>> \o SubSeq(q, 4, Len(q)) :
                       q \in {r \in DOMAIN doc : Begins(FirstWorkspace, r)}} : i \in 0..(n - 1)}
        |-> doc[FirstWorkspace \o SubSeq(p, 4, Len(p))]] @@ doc

\* With titles or not, with a session or not, one or two workspaces; without
\* tokens, with those of a daemon that writes statuses, or with empty ones.
SomeCaptures ==
    LET docs == {LiveDoc(LiveTexts(dir, title)) :
                     dir \in {"/Users/account/shop", "/Users/other/shop"},
                     title \in {Str("shop"), Str(""), Null}}
        some == {Without(d, keys) : d \in docs, keys \in SUBSET {"agent_session", "terminal_title"}}
        more == {WithWorkspaces(d, n) : d \in some, n \in {1, 2}}
    IN  more \cup {WithTokens(d, tokens) :
                       d \in more, tokens \in {<<>>, [st_idle |-> Str("idle"), n_agents |-> Str("3")]}}

\* Any text in any place, and in fields of any object that Herdr may add.
SomeOddCaptures ==
    LET doc  == WithTokens(ACapture, [st_idle |-> Str("idle")])
        leaf == {p \in DOMAIN doc : doc[p] \notin {Object, Array}}
        new  == {Append(p, k) : p \in {q \in DOMAIN doc : doc[q] = Object},
                                k \in {"extra", "kind", "version"}}
    IN  {(p :> Str(s)) @@ doc : p \in leaf \cup new, s \in Live}

SomeDocs ==
    Replaced \cup Extended \cup Dropped
    \cup Recaptured \cup OddRecaptured
    \cup {SomeFixture, Stray(Leak(SomeFixture)), Stray(Aside(SomeFixture)), Deep(SomeFixture)}

-----------------------------------------------------------------------------
(* The instances *)

TextFile(doc) == [nul |-> FALSE, named |-> FALSE, json |-> TRUE, quoted |-> FALSE, doc |-> doc]
CleanFile == TextFile(SomeFixture)

OddFiles ==
    {CleanFile, TextFile(Leak(SomeFixture)), TextFile(Stray(Leak(SomeFixture))),
     [TextFile(Aside(SomeFixture)) EXCEPT !.named = TRUE],
     [CleanFile EXCEPT !.nul = TRUE, !.json = FALSE],
     [CleanFile EXCEPT !.json = FALSE, !.named = TRUE],
     [CleanFile EXCEPT !.quoted = TRUE]}

StagedLists ==
    {<<>>} \cup {<<TextFile(d)>> : d \in SomeDocs}
           \cup {<<f, g>> : f \in OddFiles, g \in OddFiles}
=============================================================================
