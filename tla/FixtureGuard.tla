----------------------------- MODULE FixtureGuard -----------------------------
(***************************************************************************)
(* The pre-commit hook over the fixture schema: what a commit can hold.    *)
(***************************************************************************)
EXTENDS PreCommit, FixtureSchema

ASSUME GuardAssumption ==
    \A d \in Docs : IsDocument(d) /\ SchemaViolations(d) = ValidateFixture(d)

Private == Str("private")     \* a name, path or title of somebody's machine

\* Nobody has reviewed that such a field, or such a text in it, may be published.
Unreviewed(doc, p) ==
    \/ Generic(doc, p) \notin DOMAIN rootSchema
    \/ doc[p] = Private /\ (p = <<>> \/ p[Len(p)] \notin FreeTexts)

\* The loop has reached the i-th file and read what the checker printed for it.
Validated(i) == <<"report", i>> \notin unseen /\ \A n \in 1..i : <<"list", n>> \notin unseen

\* No fixture is committed that holds, at any depth, a field which the schema
\* of its object does not name, or a private text anywhere but in the few
\* descriptive fields (schema.go:17-24, pre-commit:18-22), unless a failing
\* read has kept the hook from the file or from its violations.
NothingUnreviewedPasses ==
    pc = "committed" =>
        \A i \in DOMAIN staged : Validated(i) =>
            \A p \in DOMAIN staged[i].doc : ~Unreviewed(staged[i].doc, p)

ReportedPlaces(i) ==
    {l.detail : l \in {m \in blocked : m.file = i /\ m.rule = "SCHEMA_VIOLATION"}}

AtOrBelow(p, S) == \E n \in 0..Len(p) : SubSeq(p, 1, n) \in S

\* For a fixture that was scanned without failure the lines name every
\* unreviewed place, or what it is a part of, at any depth and however many
\* there are (schema.go:491-494).
LinesNameTheUnreviewed ==
    pc \in {"committed", "refused"} /\ ~fault =>
        \A i \in DOMAIN staged :
            LET f == staged[i]
            IN  f.json /\ ~f.quoted /\ ~f.nul =>
                    \A p \in DOMAIN f.doc : Unreviewed(f.doc, p) => AtOrBelow(p, ReportedPlaces(i))
=============================================================================
