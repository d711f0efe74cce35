-------------------------- MODULE FixtureGuardProofs --------------------------
(***************************************************************************)
(* Proofs about FixtureGuard: for every document, however deep and wide,   *)
(* and every pattern of failing commands.                                  *)
(***************************************************************************)
EXTENDS FixtureGuard, PreCommitProofs, WellFoundedInduction

-----------------------------------------------------------------------------
(* Places *)

\* A place has a first one on its way that is in S, if it has one.
LEMMA LeastElement ==
    ASSUME NEW S \in SUBSET Nat, S # {}
    PROVE  \E n \in S : \A m \in S : n <= m
<1>1. PICK n \in S : \A m \in S : ~(<<m, n>> \in OpToRel(<, Nat))
    BY WFMin, NatLessThanWellFounded
<1>2. \A m \in S : ~(m < n)
    BY <1>1 DEF OpToRel
<1>3. \A m \in S : m \in Nat /\ n \in Nat
    OBVIOUS
<1>4. \A m \in S : n <= m
    BY <1>2, <1>3
<1> QED
    BY <1>4

LEMMA PrefixShape ==
    ASSUME NEW p \in Seq(STRING), NEW n \in 0..Len(p)
    PROVE  /\ SubSeq(p, 1, n) \in Seq(STRING)
           /\ Len(SubSeq(p, 1, n)) = n
           /\ \A i \in 1..n : SubSeq(p, 1, n)[i] = p[i]
           /\ n = Len(p) => SubSeq(p, 1, n) = p
    OBVIOUS

LEMMA PrefixOfPrefix ==
    ASSUME NEW p \in Seq(STRING), NEW n \in 0..Len(p), NEW m \in 0..n
    PROVE  SubSeq(SubSeq(p, 1, n), 1, m) = SubSeq(p, 1, m)
    OBVIOUS

-----------------------------------------------------------------------------
(* The validator *)

\* The walk of the validator comes to whatever does not fit, or stops on the
\* way at something it reports.
LEMMA WalkReports ==
    ASSUME NEW doc, IsDocument(doc), NEW p \in DOMAIN doc, ~Fits(doc, p)
    PROVE  AtOrBelow(p, ValidateFixture(doc))
<1> DEFINE S == {n \in 0..Len(p) : ~Fits(doc, SubSeq(p, 1, n))}
<1>1. p \in Seq(STRING) /\ Len(p) \in Nat
    BY DEF IsDocument
<1>2. S \in SUBSET Nat
    BY <1>1
<1>3. Len(p) \in S
    <2>1. Len(p) \in 0..Len(p) /\ SubSeq(p, 1, Len(p)) = p
        BY <1>1
    <2> QED
        BY <2>1
<1>4. PICK n \in S : \A m \in S : n <= m
    <2> HIDE DEF S
    <2> QED
        BY <1>2, <1>3, LeastElement
<1> DEFINE q == SubSeq(p, 1, n)
<1>5. n \in 0..Len(p) /\ ~Fits(doc, q)
    BY <1>4
<1>6. q \in DOMAIN doc /\ Len(q) = n
    BY <1>1, <1>5, PrefixShape DEF IsDocument
<1>7. ASSUME NEW m \in 0..(n - 1)
      PROVE  Fits(doc, SubSeq(q, 1, m))
    <2>1. m \in 0..Len(p) /\ m \in 0..n /\ ~(n <= m)
        BY <1>1, <1>5
    <2>2. m \notin S
        BY <1>4, <2>1
    <2>3. SubSeq(q, 1, m) = SubSeq(p, 1, m)
        BY <1>1, <1>5, <2>1, PrefixOfPrefix
    <2> QED
        BY <2>1, <2>2, <2>3
<1> HIDE DEF q
<1>8. q \in ValidateFixture(doc)
    BY <1>5, <1>6, <1>7 DEF ValidateFixture
<1> QED
    BY <1>5, <1>8 DEF AtOrBelow, q

-----------------------------------------------------------------------------
(* The schema *)

IsSeq(s) == \E S : s \in Seq(S)

\* A schema that takes a private text in none but the descriptive fields.
KeepsPrivateOut(sch) ==
    \A g \in DOMAIN sch :
        /\ IsSeq(g) /\ g # <<>>
        /\ Accepts(sch[g].check, Private) => g[Len(g)] \in FreeTexts

LEMMA ShortSeqs ==
    ASSUME NEW k, NEW l
    PROVE  IsSeq(<<k>>) /\ <<k>> # <<>> /\ IsSeq(<<k, l>>) /\ <<k, l>> # <<>>
<1>1. <<k>> \in Seq({k}) /\ <<k, l>> \in Seq({k, l})
    OBVIOUS
<1> QED
    BY <1>1 DEF IsSeq

LEMMA ConcatSeqs ==
    ASSUME NEW q, NEW r, IsSeq(q), IsSeq(r), r # <<>>
    PROVE  /\ IsSeq(q \o r) /\ q \o r # <<>>
           /\ (q \o r)[Len(q \o r)] = r[Len(r)]
           /\ SubSeq(q \o r, Len(q) + 1, Len(q \o r)) = r
<1>1. PICK S, T : q \in Seq(S) /\ r \in Seq(T)
    BY DEF IsSeq
<1>2. q \in Seq(S \cup T) /\ r \in Seq(S \cup T)
    BY <1>1
<1>3. q \o r \in Seq(S \cup T) /\ Len(q \o r) = Len(q) + Len(r) /\ Len(r) > 0
    BY <1>2
<1> QED
    BY <1>2, <1>3 DEF IsSeq

LEMMA FieldsKeep ==
    ASSUME NEW f, \A k \in DOMAIN f : Accepts(f[k].check, Private) => k \in FreeTexts
    PROVE  KeepsPrivateOut(Fields(f))
<1> SUFFICES ASSUME NEW g \in DOMAIN Fields(f)
             PROVE  /\ IsSeq(g) /\ g # <<>>
                    /\ Accepts(Fields(f)[g].check, Private) => g[Len(g)] \in FreeTexts
    BY DEF KeepsPrivateOut
<1>1. PICK k \in DOMAIN f : g = <<k>>
    BY DEF Fields
<1>2. Fields(f)[g] = f[k] /\ g[Len(g)] = k
    BY <1>1 DEF Fields
<1> QED
    BY <1>1, <1>2, ShortSeqs

LEMMA UnderKeeps ==
    ASSUME NEW q, IsSeq(q), NEW sch, KeepsPrivateOut(sch)
    PROVE  KeepsPrivateOut(Under(q, sch))
<1> SUFFICES ASSUME NEW g \in DOMAIN Under(q, sch)
             PROVE  /\ IsSeq(g) /\ g # <<>>
                    /\ Accepts(Under(q, sch)[g].check, Private) => g[Len(g)] \in FreeTexts
    BY DEF KeepsPrivateOut
<1>1. PICK r \in DOMAIN sch : g = q \o r
    BY DEF Under
<1>2. IsSeq(r) /\ r # <<>>
    BY DEF KeepsPrivateOut
<1>3. /\ IsSeq(g) /\ g # <<>> /\ g[Len(g)] = r[Len(r)]
      /\ SubSeq(g, Len(q) + 1, Len(g)) = r
    BY <1>1, <1>2, ConcatSeqs
<1>5. Under(q, sch)[g] = sch[r]
    BY <1>3 DEF Under
<1> QED
    BY <1>3, <1>5 DEF KeepsPrivateOut

LEMMA BothKeep ==
    ASSUME NEW a, NEW b, KeepsPrivateOut(a), KeepsPrivateOut(b)
    PROVE  KeepsPrivateOut(a ++ b)
<1>1. DOMAIN (a ++ b) = (DOMAIN a) \cup (DOMAIN b)
    BY DEF ++
<1>2. \A g \in DOMAIN (a ++ b) : (a ++ b)[g] = IF g \in DOMAIN a THEN a[g] ELSE b[g]
    BY DEF ++
<1> QED
    BY <1>1, <1>2 DEF KeepsPrivateOut

\* A rule that accepts no private text.
Shut(rule) == ~Accepts(rule.check, Private)

LEMMA OnlyKeeps ==
    ASSUME NEW q, IsSeq(q), q # <<>>, NEW rule, Shut(rule)
    PROVE  KeepsPrivateOut(Only(q, rule))
BY DEF KeepsPrivateOut, Only, Shut

LEMMA ShutSets ==
    ASSUME NEW S, "private" \notin S
    PROVE  Shut(Required(In(S))) /\ Shut(Optional(In(S))) /\ Shut(Required(Nullable(In(S))))
BY DEF Shut, Required, Optional, Nullable, In, Accepts, Private, Str

LEMMA ShutTypes ==
    ASSUME NEW t, t # "string"
    PROVE  /\ Shut(Required(OfType(t))) /\ Shut(Optional(OfType(t)))
           /\ t # "null" => Shut(Optional(Nullable(OfType(t))))
BY DEF Shut, Required, Optional, Nullable, OfType, Accepts, Private, Str

LEMMA ShutShapes ==
    /\ Shut(Number) /\ Shut(Flag) /\ Shut(Status) /\ Shut(Title) /\ Shut(Path)
    /\ Shut(SubTree) /\ Shut(List) /\ Shut(TokensField)
    /\ Shut(tokenStatusOrLabelValue) /\ Shut(tokenCount)
<1>1. Shut(Number) /\ Shut(Flag) /\ Shut(SubTree) /\ Shut(List) /\ Shut(TokensField)
    BY ShutTypes DEF Number, Flag, SubTree, List, TokensField
<1>2. Shut(Status) /\ Shut(Title) /\ Shut(Path)
    BY ShutSets DEF Status, Title, Path, agentStatusValues, titleValues, rePath
<1>3. Shut(tokenStatusOrLabelValue) /\ Shut(tokenCount)
    BY ShutSets DEF tokenStatusOrLabelValue, tokenCount, reLabel, statusWords,
                    agentStatusValues, reDecimalCount
<1> QED
    BY <1>1, <1>2, <1>3

LEMMA ShutNames ==
    \A S \in {reWorkspaceID, reTabID, rePaneID, reLabel, rePath, reTerminalID, reSessionUUID,
              KnownAgentKinds, {"session_snapshot"}} :
        Shut(Required(In(S))) /\ Shut(Optional(In(S)))
BY ShutSets DEF reWorkspaceID, reTabID, rePaneID, reLabel, rePath, reTerminalID, reSessionUUID,
                KnownAgentKinds

LEMMA EachKeeps ==
    ASSUME NEW k, NEW sch, KeepsPrivateOut(sch)
    PROVE  KeepsPrivateOut(EachOf(k, sch))
<1>1. KeepsPrivateOut(Under(<<k, "[]">>, sch))
    BY ShortSeqs, UnderKeeps
<1>2. KeepsPrivateOut(Only(<<k, "[]">>, Optional(OfType("object"))))
    BY ShortSeqs, OnlyKeeps, ShutTypes
<1> QED
    BY <1>1, <1>2, BothKeep DEF EachOf

LEMMA UnderOneKeeps ==
    ASSUME NEW k, NEW sch, KeepsPrivateOut(sch)
    PROVE  KeepsPrivateOut(Under(<<k>>, sch))
BY ShortSeqs, UnderKeeps

\* Field by field, for every kind of object.
LEMMA KindsKeep ==
    /\ KeepsPrivateOut(Fields(agentSessionFields)) /\ KeepsPrivateOut(Fields(scrollFields))
    /\ KeepsPrivateOut(Fields(rectFields)) /\ KeepsPrivateOut(Fields(layoutPaneFields))
    /\ KeepsPrivateOut(Fields(splitFields)) /\ KeepsPrivateOut(Fields(layoutFields))
    /\ KeepsPrivateOut(Fields(workspaceFields)) /\ KeepsPrivateOut(Fields(agentFields))
    /\ KeepsPrivateOut(Fields(tabFields)) /\ KeepsPrivateOut(Fields(paneFields))
    /\ KeepsPrivateOut(Fields(snapshotFields)) /\ KeepsPrivateOut(Fields(rootFields))
    /\ KeepsPrivateOut(Fields(tokenValueRules))
<1> DEFINE Good(f) == \A k \in DOMAIN f :
                         Accepts(f[k].check, Private) => k \in FreeTexts
<1>1. Good(agentSessionFields)
    BY ShutShapes, ShutNames, ShutTypes DEF agentSessionFields, Shut, FreeTexts
<1>2. Good(scrollFields)
    BY ShutShapes, ShutNames, ShutTypes DEF scrollFields, Shut, FreeTexts
<1>3. Good(rectFields)
    BY ShutShapes, ShutNames, ShutTypes DEF rectFields, Shut, FreeTexts
<1>4. Good(layoutPaneFields)
    BY ShutShapes, ShutNames, ShutTypes DEF layoutPaneFields, Shut, FreeTexts
<1>5. Good(splitFields)
    BY ShutShapes, ShutNames, ShutTypes DEF splitFields, Shut, FreeTexts
<1>6. Good(layoutFields)
    BY ShutShapes, ShutNames, ShutTypes DEF layoutFields, Shut, FreeTexts
<1>7. Good(workspaceFields)
    BY ShutShapes, ShutNames, ShutTypes DEF workspaceFields, Shut, FreeTexts
<1>8. Good(agentFields)
    BY ShutShapes, ShutNames, ShutTypes DEF agentFields, Shut, FreeTexts
<1>9. Good(tabFields)
    BY ShutShapes, ShutNames, ShutTypes DEF tabFields, Shut, FreeTexts
<1>10. Good(paneFields)
    BY ShutShapes, ShutNames, ShutTypes DEF paneFields, Shut, FreeTexts
<1>11. Good(snapshotFields)
    BY ShutShapes, ShutNames, ShutTypes DEF snapshotFields, Shut, FreeTexts
<1>12. Good(rootFields)
    BY ShutShapes, ShutNames, ShutTypes DEF rootFields, Shut, FreeTexts
<1>13. Good(tokenValueRules)
    BY ShutShapes, ShutNames, ShutTypes DEF tokenValueRules, Shut, FreeTexts
<1>a. ASSUME NEW f, Good(f) PROVE KeepsPrivateOut(Fields(f))
    BY <1>a, FieldsKeep
<1> HIDE DEF Good
<1> QED
    BY <1>1, <1>2, <1>3, <1>4, <1>5, <1>6, <1>7, <1>8, <1>9, <1>10, <1>11, <1>12, <1>13, <1>a

\* The schema takes a private text nowhere but in the descriptive fields.
LEMMA SchemaKeepsPrivateOut ==
    ASSUME NEW g \in DOMAIN rootSchema, Accepts(rootSchema[g].check, Private)
    PROVE  IsSeq(g) /\ g # <<>> /\ g[Len(g)] \in FreeTexts
<1>1. KeepsPrivateOut(layoutPaneSchema) /\ KeepsPrivateOut(splitSchema)
    BY KindsKeep, UnderOneKeeps, BothKeep DEF layoutPaneSchema, splitSchema
<1>2. KeepsPrivateOut(layoutSchema)
    BY <1>1, KindsKeep, UnderOneKeeps, EachKeeps, BothKeep DEF layoutSchema
<1>3. KeepsPrivateOut(workspaceSchema) /\ KeepsPrivateOut(agentSchema)
    BY KindsKeep, UnderOneKeeps, BothKeep DEF workspaceSchema, agentSchema
<1>4. KeepsPrivateOut(paneSchema)
    BY KindsKeep, UnderOneKeeps, BothKeep DEF paneSchema
<1>5. KeepsPrivateOut(snapshotSchema)
    <2>1. KeepsPrivateOut(EachOf("workspaces", workspaceSchema))
        BY <1>3, EachKeeps
    <2>2. KeepsPrivateOut(EachOf("agents", agentSchema))
        BY <1>3, EachKeeps
    <2>3. KeepsPrivateOut(EachOf("tabs", Fields(tabFields)))
        BY KindsKeep, EachKeeps
    <2>4. KeepsPrivateOut(EachOf("panes", paneSchema))
        BY <1>4, EachKeeps
    <2>5. KeepsPrivateOut(EachOf("layouts", layoutSchema))
        BY <1>2, EachKeeps
    <2> QED
        BY <2>1, <2>2, <2>3, <2>4, <2>5, KindsKeep, BothKeep DEF snapshotSchema
<1> DEFINE top == Only(<<>>, Required(OfType("object"))) ++ Fields(rootFields)
           low == Under(<<"snapshot">>, snapshotSchema)
<1>6. KeepsPrivateOut(low) /\ rootSchema = top ++ low
    BY <1>5, UnderOneKeeps DEF rootSchema
<1>7. ASSUME NEW h \in DOMAIN top, Accepts(top[h].check, Private)
      PROVE  IsSeq(h) /\ h # <<>> /\ h[Len(h)] \in FreeTexts
    <2>1. CASE h \in DOMAIN Only(<<>>, Required(OfType("object")))
        <3>1. top[h] = Required(OfType("object"))
            BY <2>1 DEF ++, Only
        <3> QED
            BY <1>7, <3>1, ShutTypes DEF Shut
    <2>2. CASE h \notin DOMAIN Only(<<>>, Required(OfType("object")))
        <3>1. h \in DOMAIN Fields(rootFields) /\ top[h] = Fields(rootFields)[h]
            BY <2>2 DEF ++
        <3> QED
            BY <1>7, <3>1, KindsKeep DEF KeepsPrivateOut
    <2> QED
        BY <2>1, <2>2
<1> HIDE DEF top, low
<1>8. CASE g \in DOMAIN top
    <2>1. rootSchema[g] = top[g]
        BY <1>6, <1>8 DEF ++
    <2> QED
        BY <1>7, <1>8, <2>1
<1>9. CASE g \notin DOMAIN top
    <2>1. g \in DOMAIN low /\ rootSchema[g] = low[g]
        BY <1>6, <1>9 DEF ++
    <2> QED
        BY <1>6, <2>1 DEF KeepsPrivateOut
<1> QED
    BY <1>8, <1>9

-----------------------------------------------------------------------------
(* What is unreviewed, and what was edited *)

LEMMA GenericShape ==
    ASSUME NEW doc, IsDocument(doc), NEW p \in DOMAIN doc
    PROVE  /\ DOMAIN Generic(doc, p) = 1..Len(p)
           /\ IsSeq(Generic(doc, p)) => Len(Generic(doc, p)) = Len(p)
           /\ \A i \in 1..Len(p) : Generic(doc, p)[i] \in {"[]", p[i]}
<1>1. p \in Seq(STRING) /\ Len(p) \in Nat
    BY DEF IsDocument
<1>2. DOMAIN Generic(doc, p) = 1..Len(p)
    BY DEF Generic
<1>3. ASSUME NEW S, Generic(doc, p) \in Seq(S)
      PROVE  Len(Generic(doc, p)) = Len(p)
    BY <1>1, <1>2, <1>3
<1> QED
    BY <1>2, <1>3 DEF Generic, IsSeq

\* What nobody reviewed does not fit the schema.
LEMMA UnreviewedDoesNotFit ==
    ASSUME NEW doc, IsDocument(doc), NEW p \in DOMAIN doc, Unreviewed(doc, p)
    PROVE  ~Fits(doc, p)
<1> DEFINE g == Generic(doc, p)
<1> SUFFICES ASSUME g \in DOMAIN rootSchema, Accepts(rootSchema[g].check, doc[p])
             PROVE  FALSE
    BY DEF Fits
<1>1. doc[p] = Private /\ (p = <<>> \/ p[Len(p)] \notin FreeTexts)
    BY DEF Unreviewed
<1>2. IsSeq(g) /\ g # <<>> /\ g[Len(g)] \in FreeTexts
    BY <1>1, SchemaKeepsPrivateOut
<1>3. Len(g) = Len(p) /\ \A i \in 1..Len(p) : g[i] \in {"[]", p[i]}
    BY <1>2, GenericShape
<1>4. p \in Seq(STRING) /\ Len(p) \in Nat
    BY DEF IsDocument
<1> HIDE DEF g
<1>5. Len(p) \in 1..Len(p)
    BY <1>2, <1>3, <1>4 DEF IsSeq
<1>6. g[Len(p)] \in {"[]", p[Len(p)]} /\ p # <<>>
    BY <1>3, <1>5
<1> QED
    BY <1>1, <1>2, <1>3, <1>6 DEF FreeTexts

LEMMA UnreviewedIsReported ==
    ASSUME NEW doc \in Docs, NEW p \in DOMAIN doc, Unreviewed(doc, p)
    PROVE  AtOrBelow(p, SchemaViolations(doc))
BY GuardAssumption, UnreviewedDoesNotFit, WalkReports

LEMMA StagedFile ==
    ASSUME staged \in Seq(Files), NEW i \in DOMAIN staged
    PROVE  i \in 1..Len(staged) /\ staged[i].doc \in Docs
<1>1. i \in 1..Len(staged) /\ staged[i] \in Files
    OBVIOUS
<1> QED
    BY <1>1 DEF Files

\* A commit holds nothing unreviewed, whichever commands fail, in a file whose
\* violations the hook has read (schema.go:17-24, pre-commit:18-22).
THEOREM NothingUnreviewedIsCommitted == Spec => []NothingUnreviewedPasses
<1>1. TypeOK /\ FailClosed => NothingUnreviewedPasses
    <2> SUFFICES ASSUME TypeOK, FailClosed, pc = "committed",
                        NEW i \in DOMAIN staged, Validated(i),
                        NEW p \in DOMAIN staged[i].doc, Unreviewed(staged[i].doc, p)
                 PROVE  FALSE
        BY DEF NothingUnreviewedPasses
    <2>1. staged \in Seq(Files)
        BY PreCommitAssumption DEF TypeOK
    <2>2. i \in 1..Len(staged) /\ staged[i].doc \in Docs
        BY <2>1, StagedFile
    <2>3. SchemaViolations(staged[i].doc) = {}
        BY <2>2 DEF FailClosed, Passes, Valid, Validated
    <2> QED
        BY <2>2, <2>3, UnreviewedIsReported DEF AtOrBelow
<1> QED
    BY <1>1, HookTypes, CommitsAreClean, PTL

-----------------------------------------------------------------------------
(* Every violation of a file is reported *)

Violation(i, v) == [file |-> i, rule |-> "SCHEMA_VIOLATION", detail |-> v]

\* Without a failure, the checker's lines for the files behind the loop are there.
Scanned(i) == (pc \in Loop => i < at) /\ pc \in Loop \cup {"verdict", "committed", "refused"}
Checked(f) == f.json /\ ~f.quoted /\ ~f.nul
SeenInv ==
    ~fault => \A i \in DOMAIN staged : Scanned(i) /\ Checked(staged[i]) =>
                  \A v \in SchemaViolations(staged[i].doc) : Violation(i, v) \in blocked

LEMMA StagedDomain ==
    ASSUME TypeOK
    PROVE  Len(staged) \in Nat /\ DOMAIN staged = 1..Len(staged) /\ staged \in Seq(Files)
<1>1. staged \in Seq(Files)
    BY PreCommitAssumption DEF TypeOK
<1> QED
    BY <1>1

\* The step from a file to the next, when the current one has its lines.
LEMMA NextFileSeen ==
    ASSUME TypeOK, SeenInv, pc \in Loop, NextFile, staged' = staged, fault' = fault,
           blocked \subseteq blocked',
           ~fault /\ Checked(staged[at]) =>
               \A v \in SchemaViolations(staged[at].doc) : Violation(at, v) \in blocked'
    PROVE  SeenInv'
<1> SUFFICES ASSUME ~fault, NEW i \in DOMAIN staged, Scanned(i)', Checked(staged[i]),
                    NEW v \in SchemaViolations(staged[i].doc)
             PROVE  Violation(i, v) \in blocked'
    BY DEF SeenInv, Checked
<1>1. at \in 1..Len(staged) /\ i \in 1..Len(staged) /\ Len(staged) \in Nat
    BY StagedDomain DEF TypeOK, Loop
<1>2. i = at \/ i < at
    BY <1>1 DEF NextFile, Scanned, Loop
<1>3. CASE i < at
    BY <1>3 DEF SeenInv, Scanned
<1> QED
    BY <1>2, <1>3

LEMMA SeenStep == TypeOK /\ ScanInv /\ SeenInv /\ [Next]_vars => SeenInv'
<1> SUFFICES ASSUME TypeOK, ScanInv, SeenInv, [Next]_vars, ~fault' PROVE SeenInv'
    BY DEF SeenInv
<1>0. Len(staged) \in Nat /\ DOMAIN staged = 1..Len(staged)
    BY StagedDomain
<1>a. ASSUME UNCHANGED <<staged, blocked, fault>>, \A i \in DOMAIN staged : Scanned(i)' => Scanned(i)
      PROVE  SeenInv'
    BY <1>a DEF SeenInv, Checked
<1>1. CASE UNCHANGED vars
    BY <1>1, <1>a DEF vars, Scanned
<1>2. CASE Preflight \/ MakeTemp \/ FindRoot \/ BuildChecker
    BY <1>2, <1>a DEF Preflight, MakeTemp, FindRoot, BuildChecker, Goto, Scanned, Loop
<1>3. CASE ListStaged
    <2>1. DOMAIN staged = {} \/ pc' = "root"
        BY <1>3, <1>0 DEF ListStaged, Goto
    <2> QED
        BY <1>3, <2>1, <1>a DEF ListStaged, Goto, Scanned, Loop
<1>4. CASE IdSucceeds
    <2>1. \A i \in DOMAIN staged : ~Scanned(i)'
        BY <1>4, <1>0 DEF IdSucceeds, Scanned, Loop
    <2> QED
        BY <1>4, <2>1, <1>a DEF IdSucceeds
<1>5. CASE Aborts \/ SetupFails \/ IdFails \/ ScanFails \/ CheckFails
           \/ (\E step \in {"show", "count"} : Unverified(step))
           \/ ListCutShort \/ (\E what \in {"scan", "hits"} : NameMissed(what)) \/ ReportCutShort
    BY <1>5 DEF Aborts, SetupFails, IdFails, ScanFails, CheckFails, Unverified, InfraFail,
                ListCutShort, NameMissed, ReportCutShort, Unseen
<1>6. CASE Show
    <2>1. CASE File.quoted
        BY <1>6, <2>1, NextFileSeen DEF Show, Report, Note, File, Checked, Loop
    <2>2. CASE ~File.quoted
        BY <1>6, <2>2, <1>a DEF Show, Goto, Scanned, Loop
    <2> QED
        BY <2>1, <2>2
<1>7. CASE CountBytes
    <2>1. CASE File.nul
        BY <1>7, <2>1, NextFileSeen DEF CountBytes, Report, Note, File, Checked, Loop
    <2>2. CASE ~File.nul
        BY <1>7, <2>2, <1>a DEF CountBytes, Goto, Scanned, Loop
    <2> QED
        BY <2>1, <2>2
<1>8. CASE ScanForName
    <2>1. /\ UNCHANGED <<staged, at, fault>> /\ pc = "name" /\ pc' = "schema"
          /\ blocked \subseteq blocked'
        BY <1>8 DEF ScanForName, Report, Note
    <2>2. \A i \in DOMAIN staged : Scanned(i)' => Scanned(i)
        BY <2>1 DEF Scanned, Loop
    <2> QED
        BY <2>1, <2>2 DEF SeenInv, Checked
<1>9. CASE CheckSchema
    <2> DEFINE r == SchemaCheck(File)
               lines == IF r.rc = 2 THEN {Line("INFRA", <<>>)}
                        ELSE {Line("SCHEMA_VIOLATION", v) : v \in r.lines}
    <2>1. NextFile /\ UNCHANGED <<staged, fault>> /\ blocked' = blocked \cup lines /\ pc \in Loop
        BY <1>9 DEF CheckSchema, Report, Note, Loop
    <2>2. ASSUME Checked(staged[at]), NEW v \in SchemaViolations(staged[at].doc)
          PROVE  Violation(at, v) \in lines
        <3>1. r.rc # 2 /\ r.lines = SchemaViolations(staged[at].doc)
            BY <2>2 DEF Checked, SchemaCheck, File
        <3> QED
            BY <3>1 DEF Violation, Line
    <2> HIDE DEF lines
    <2> QED
        BY <2>1, <2>2, NextFileSeen
<1>10. CASE Verdict
    BY <1>10, <1>a DEF Verdict, Goto, Scanned, Loop
<1> QED
    BY <1>1, <1>2, <1>3, <1>4, <1>5, <1>6, <1>7, <1>8, <1>9, <1>10 DEF Next

\* When no command fails, the lines name every unreviewed place of every
\* fixture that is text, or what it is a part of (schema.go:491-494).
THEOREM TheUnreviewedIsNamed == Spec => []LinesNameTheUnreviewed
<1>1. Init => ScanInv /\ SeenInv
    BY DEF Init, ScanInv, FailClosed, SeenInv, Scanned, Loop
<1>2. TypeOK /\ SeenInv => LinesNameTheUnreviewed
    <2> SUFFICES ASSUME TypeOK, SeenInv, pc \in {"committed", "refused"}, ~fault,
                        NEW i \in DOMAIN staged, Checked(staged[i]),
                        NEW p \in DOMAIN staged[i].doc, Unreviewed(staged[i].doc, p)
                 PROVE  AtOrBelow(p, ReportedPlaces(i))
        BY DEF LinesNameTheUnreviewed, Checked
    <2>1. staged[i].doc \in Docs
        BY StagedDomain, StagedFile
    <2>2. AtOrBelow(p, SchemaViolations(staged[i].doc))
        BY <2>1, UnreviewedIsReported
    <2>3. ASSUME NEW v \in SchemaViolations(staged[i].doc)
          PROVE  v \in ReportedPlaces(i)
        <3>1. Violation(i, v) \in blocked
            BY DEF SeenInv, Scanned, Loop
        <3> QED
            BY <3>1 DEF ReportedPlaces, Violation
    <2> QED
        BY <2>2, <2>3 DEF AtOrBelow
<1> QED
    BY <1>1, <1>2, HookTypes, ScanStep, SeenStep, PTL DEF Spec
=============================================================================
