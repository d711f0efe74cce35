------------------------------ MODULE Sanitize -------------------------------
(***************************************************************************)
(* scripts/sanitize.py: what becomes of a capture of a live session on its *)
(* way to testdata, as a function.  The script writes the file at its end, *)
(* so one that stops in the middle writes nothing.                         *)
(*                                                                         *)
(* A text of the machine is a representative of its shape: "shop" is a     *)
(* project, alone or at the end of a path, "account" the user's account    *)
(* name.  A placeholder that is numbered in order of appearance is the     *)
(* first of its shape.  Field names are those of Herdr, the replacements   *)
(* in the text leave them alone.                                           *)
(***************************************************************************)
EXTENDS FixtureSchema, TLC

Elements(doc, coll) ==
    {p \in DOMAIN doc : Len(p) = 3 /\ p[1] = "snapshot" /\ p[2] = coll}

\* What the script relies on; on another document it stops with an error.
IsCapture(doc) ==
    /\ IsDocument(doc)
    /\ <<"snapshot">> \in DOMAIN doc /\ doc[<<"snapshot">>] = Object
    /\ \A coll \in {"workspaces", "agents", "panes", "tabs"} :
          /\ <<"snapshot", coll>> \in DOMAIN doc => doc[<<"snapshot", coll>>] = Array
          /\ \A p \in Elements(doc, coll) : doc[p] = Object

-----------------------------------------------------------------------------
(* The passes *)

Texts(doc) == {p \in DOMAIN doc : doc[p].type = "string"}

Rewrite(doc, texts) == [p \in DOMAIN texts |-> Str(texts[p])] @@ doc

\* Each place in nodes gets that node, whatever was there or below it.
Overwrite(doc, nodes) ==
    nodes @@ [p \in {q \in DOMAIN doc : \A n \in 0..Len(q) : SubSeq(q, 1, n) \notin DOMAIN nodes}
                  |-> doc[p]]

By(table, s)   == IF s \in DOMAIN table THEN table[s] ELSE s
EndsWith(p, q) == Len(q) <= Len(p) /\ SubSeq(p, Len(p) - Len(q) + 1, Len(p)) = q

\* The three replacements in the text of the document: the account name, the
\* home directory under /Users, and what a tilde path goes on with.
replacements ==
    "account" :> "user"
    @@ "/Users/account/shop" :> "/Users/user/shop" @@ "/Users/other/shop" :> "/Users/user/shop"
    @@ "at /Users/account/shop" :> "at /Users/user/shop"
    @@ "/home/account/shop" :> "/home/user/shop"
    @@ "~/shop" :> "~/projects/app" @@ "~/my shop" :> "~/projects/app shop"
ReplaceText(doc) == Rewrite(doc, [p \in Texts(doc) |-> By(replacements, doc[p].s)])

\* A text that begins with /Users/ or ~/.
placeholders ==
    "/Users/user/shop" :> "/Users/user/projects/proj1"
    @@ "~/projects/app shop" :> "~/projects/app"

\* mutation: only in a field that is known to hold a path
scrub_known_paths(doc) ==
    LET known == {p \in Texts(doc) : \E k \in {"cwd", "foreground_cwd"} : EndsWith(p, <<k>>)}
    IN  Rewrite(doc, [p \in known |-> By(placeholders, doc[p].s)])

\* In any field at any depth.
scrub_paths(doc) == Rewrite(doc, [p \in Texts(doc) |-> By(placeholders, doc[p].s)])

scrub_ids(doc) ==
    LET sessions  == {p \in Texts(doc) : EndsWith(p, <<"agent_session", "value">>)}
        terminals == {p \in Texts(doc) : EndsWith(p, <<"terminal_id">>)}
    IN  Rewrite(doc, [p \in sessions |-> "00000000-0000-4000-8000-000000000001"]
                     @@ [p \in terminals |-> "term_000000000001"])

\* The titles there are in the elements of these collections.
TitlesOf(doc, colls) ==
    {p \in DOMAIN doc : /\ Len(p) = 4 /\ p[4] \in {"terminal_title", "terminal_title_stripped"}
                        /\ \E c \in colls : SubSeq(p, 1, 3) \in Elements(doc, c)}

\* mutation: the agents' titles are forgotten
ScrubPaneTitles(doc) == Overwrite(doc, [p \in TitlesOf(doc, {"panes"}) |-> Str("shell")])

ScrubTitles(doc) ==
    Overwrite(doc, [p \in TitlesOf(doc, {"panes", "agents", "tabs"}) |->
                        Str(IF p[2] = "agents" THEN "agent" ELSE "shell")])

\* One letter for a workspace, which there is for 26 of them.
ALetter == {ToString(i) : i \in 0..25}

Relabel(doc) ==
    Overwrite(doc,
        [p \in {Append(q, "label") : q \in Elements(doc, "workspaces") \cup Elements(doc, "tabs")} |->
            Str(CASE p[2] = "tabs" -> "tab-1"
                  [] p[2] = "workspaces" /\ p[3] \in ALetter -> "space-a"
                  [] OTHER -> "space-{")])

sanitized(doc) == Relabel(ScrubTitles(scrub_ids(scrub_paths(ReplaceText(doc)))))
=============================================================================
