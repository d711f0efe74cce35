--------------------------- MODULE PreCommitProofs ---------------------------
(***************************************************************************)
(* Proofs about PreCommit: for every schema, every list of staged files    *)
(* and every pattern of failing commands.                                  *)
(***************************************************************************)
EXTENDS PreCommit, TLAPS

Loop == {"show", "count", "name", "schema"}

LEMMA StagedLength ==
    ASSUME staged \in Stageable
    PROVE  /\ Len(staged) \in Nat
           /\ staged # <<>> => Len(staged) >= 1
<1>1. staged \in Seq(Files)
    BY PreCommitAssumption
<1> QED
    BY <1>1

\* The hook's variables keep to their domains; in the loop "at" is a file.
THEOREM HookTypes == Spec => []TypeOK
<1>1. Init => TypeOK
    <2> SUFFICES ASSUME Init PROVE TypeOK
        OBVIOUS
    <2>1. at \in 0..Len(staged)
        <3>1. staged \in Stageable /\ at = 0
            BY DEF Init
        <3> QED
            BY <3>1, StagedLength
    <2>2. me \in {"", user}
        BY DEF Init
    <2>3. failed \in BOOLEAN /\ fault \in BOOLEAN
        BY DEF Init
    <2> QED
        BY <2>1, <2>2, <2>3 DEF Init, TypeOK
<1>2. TypeOK /\ [Next]_vars => TypeOK'
    <2> SUFFICES ASSUME TypeOK, [Next]_vars PROVE TypeOK'
        OBVIOUS
    <2>0. /\ Len(staged) \in Nat
          /\ staged # <<>> => Len(staged) >= 1
        BY StagedLength DEF TypeOK
    <2>a. ASSUME failed' \in BOOLEAN, fault' \in BOOLEAN, me' \in {"", user'},
                 UNCHANGED <<staged, user>>,
                 unseen' = unseen \/ \E what \in {"list", "scan", "hits", "report"} : Unseen(what),
                 unseen' = unseen \/ at \in 1..Len(staged),
                 pc' \in {"preflight", "mktemp", "diff", "root", "build", "id", "verdict",
                         "committed", "refused"} \cup Loop,
                 pc' \in {"root", "build", "id"} => staged # <<>>,
                 at' \in 0..Len(staged),
                 pc' \in Loop => at' \in 1..Len(staged)
          PROVE  TypeOK'
        <3> DEFINE kinds == {"list", "scan", "hits", "report"}
        <3>1. unseen' \subseteq kinds \X (1..Len(staged))
            <4>1. unseen \subseteq kinds \X (1..Len(staged))
                BY DEF TypeOK
            <4>2. CASE unseen' = unseen
                BY <4>1, <4>2
            <4>3. CASE unseen' # unseen
                <5>1. PICK what \in kinds : unseen' = unseen \cup {<<what, at>>}
                    BY <2>a, <4>3 DEF Unseen
                <5>2. <<what, at>> \in kinds \X (1..Len(staged))
                    BY <2>a, <4>3
                <5> QED
                    BY <4>1, <5>1, <5>2
            <4> QED
                BY <4>2, <4>3
        <3> QED
            BY <2>a, <3>1 DEF TypeOK, Loop
    <2>1. CASE UNCHANGED vars
        BY <2>1 DEF vars, TypeOK
    <2>2. CASE Preflight \/ MakeTemp \/ ListStaged \/ FindRoot \/ BuildChecker \/ Verdict
        BY <2>2, <2>a DEF Preflight, MakeTemp, ListStaged, FindRoot, BuildChecker,
                          Verdict, Goto, TypeOK, Loop
    <2>3. CASE Aborts \/ SetupFails
        BY <2>3, <2>a DEF Aborts, SetupFails, InfraFail, TypeOK, Loop
    <2>4. CASE IdSucceeds \/ IdFails
        <3>1. at' = 1 /\ pc' = "show" /\ UNCHANGED <<staged, user>> /\ staged # <<>>
            BY <2>4 DEF IdSucceeds, IdFails, TypeOK
        <3>2. at' \in 0..Len(staged) /\ at' \in 1..Len(staged)
            BY <2>0, <3>1
        <3>3. /\ failed' \in BOOLEAN /\ fault' \in BOOLEAN /\ me' \in {"", user'}
              /\ unseen' = unseen
            BY <2>4 DEF IdSucceeds, IdFails, InfraFail, TypeOK
        <3> QED
            BY <3>1, <3>2, <3>3, <2>a DEF Loop
    <2>b. ASSUME NextFile, pc \in Loop
          PROVE  /\ at' \in 0..Len(staged)
                 /\ pc' \in {"show", "verdict"}
                 /\ pc' = "show" => at' \in 1..Len(staged)
        <3>1. at \in 0..Len(staged)
            BY DEF TypeOK
        <3>2. CASE at < Len(staged)
            BY <2>0, <2>b, <3>1, <3>2 DEF NextFile
        <3>3. CASE ~(at < Len(staged))
            BY <2>0, <2>b, <3>1, <3>3 DEF NextFile
        <3> QED
            BY <3>2, <3>3
    <2>5. CASE Show \/ CountBytes \/ ScanForName \/ CheckSchema
        <3>1. /\ UNCHANGED <<staged, user, me, fault, unseen>>
              /\ failed' \in BOOLEAN
            BY <2>5 DEF Show, CountBytes, ScanForName, CheckSchema, Report, Note, Goto, TypeOK
        <3>2. \/ NextFile /\ pc \in Loop
              \/ at' = at /\ pc' \in Loop /\ pc \in Loop
            BY <2>5 DEF Show, CountBytes, ScanForName, CheckSchema, Goto, Loop
        <3>3. /\ at' \in 0..Len(staged)
              /\ pc' \in Loop \cup {"verdict"}
              /\ pc' \in Loop => at' \in 1..Len(staged)
            BY <3>2, <2>b DEF TypeOK, Loop
        <3> QED
            BY <3>1, <3>3, <2>a DEF TypeOK, Loop
    <2>6. CASE ScanFails \/ CheckFails \/ \E step \in {"show", "count"} : Unverified(step)
        <3>1. /\ NextFile /\ pc \in Loop
              /\ UNCHANGED <<staged, user, me, unseen>>
              /\ failed' \in BOOLEAN /\ fault' \in BOOLEAN
            BY <2>6 DEF ScanFails, CheckFails, Unverified, InfraFail, Loop
        <3> QED
            BY <3>1, <2>a, <2>b DEF TypeOK, Loop
    <2>7. CASE ListCutShort \/ \E what \in {"scan", "hits"} : NameMissed(what)
        <3>1. /\ pc \in Loop /\ pc' \in {"verdict", "schema"} /\ fault' = TRUE
              /\ UNCHANGED <<staged, user, at, me, failed>>
              /\ \E what \in {"list", "scan", "hits", "report"} : Unseen(what)
            BY <2>7 DEF ListCutShort, NameMissed, Unseen, Loop
        <3> QED
            BY <3>1, <2>a DEF TypeOK, Loop
    <2>8. CASE ReportCutShort
        <3>1. /\ NextFile /\ pc \in Loop
              /\ UNCHANGED <<staged, user, me>>
              /\ failed' \in BOOLEAN /\ fault' = TRUE /\ Unseen("report")
            BY <2>8 DEF ReportCutShort, Note, Unseen, Loop
        <3> QED
            BY <3>1, <2>a, <2>b DEF TypeOK, Loop
    <2> QED
        BY <2>1, <2>2, <2>3, <2>4, <2>5, <2>6, <2>7, <2>8 DEF Next
<1> QED
    BY <1>1, <1>2, PTL DEF Spec

-----------------------------------------------------------------------------
(* FailClosed *)

Done(n) == \A i \in 1..n : Passes(i)

\* As long as nothing has been noted in $tmp/failed, the files behind the loop
\* pass and the current file has passed the checks behind it.
ScanInv ==
    /\ pc \in Loop \cup {"verdict"} => failed \/ me = user
    /\ pc \in Loop => failed \/ Done(at - 1)
    /\ pc \in {"name", "schema"} => NoNul(at)
    /\ pc = "schema" =>
          failed \/ NoName(at) \/ <<"scan", at>> \in unseen \/ <<"hits", at>> \in unseen
    /\ pc = "verdict" => failed \/ Done(Len(staged))
    /\ FailClosed

\* What passes goes on to pass: no failure is forgotten.
LEMMA PassesLasts ==
    ASSUME UNCHANGED <<staged, user>>, unseen \subseteq unseen', NEW n, Done(n)
    PROVE  Done(n)'
BY DEF Done, Passes, NoNul, NoName, Valid

\* The step from a file to the next, for a file that passes or is noted.
LEMMA NextFileScans ==
    ASSUME TypeOK, NEW n \in 1..Len(staged), n = at, NextFile,
           UNCHANGED <<staged, user, me>>, unseen \subseteq unseen',
           failed' \/ me = user, failed' \/ Done(n - 1), failed' \/ Passes(n)'
    PROVE  ScanInv'
<1>0. Len(staged) \in Nat
    BY StagedLength DEF TypeOK
<1>1. failed' \/ Done(n)'
    <2> SUFFICES ASSUME ~failed' PROVE Done(n)'
        OBVIOUS
    <2>1. Done(n - 1)'
        BY PassesLasts
    <2> QED
        BY <1>0, <2>1 DEF Done
<1>3. CASE at < Len(staged)
    <2>1. at' = n + 1 /\ pc' = "show"
        BY <1>3 DEF NextFile
    <2>2. at' - 1 = n
        BY <1>0, <2>1
    <2>3. Done(at - 1)' <=> Done(n)'
        BY <2>2 DEF Done
    <2> QED
        BY <1>1, <2>1, <2>3 DEF ScanInv, FailClosed, Loop
<1>4. CASE at = Len(staged)
    <2>1. pc' = "verdict"
        BY <1>0, <1>4 DEF NextFile
    <2>2. Done(Len(staged))' <=> Done(n)'
        BY <1>4 DEF Done
    <2> QED
        BY <1>1, <2>1, <2>2 DEF ScanInv, FailClosed, Loop
<1> QED
    BY <1>0, <1>3, <1>4

LEMMA ScanStep == TypeOK /\ ScanInv /\ [Next]_vars => ScanInv'
<1> SUFFICES ASSUME TypeOK, ScanInv, [Next]_vars PROVE ScanInv'
    OBVIOUS
<1>0. Len(staged) \in Nat /\ (pc \in Loop => at \in 1..Len(staged))
    BY StagedLength DEF TypeOK, Loop
<1>a. ASSUME UNCHANGED <<staged, user, at>>, unseen \subseteq unseen'
      PROVE  /\ NoNul(at) => NoNul(at)'
             /\ NoName(at) => NoName(at)'
             /\ Done(at - 1) => Done(at - 1)'
             /\ Done(Len(staged)) => Done(Len(staged))'
    BY <1>a DEF Done, Passes, NoNul, NoName, Valid
<1>1. CASE UNCHANGED vars
    BY <1>1 DEF vars, ScanInv, FailClosed, Done, Passes, NoNul, NoName, Valid
<1>2. CASE Preflight \/ MakeTemp \/ FindRoot \/ BuildChecker
    BY <1>2 DEF Preflight, MakeTemp, FindRoot, BuildChecker, Goto, ScanInv, FailClosed, Loop
<1>3. CASE ListStaged
    BY <1>3, <1>0 DEF ListStaged, Goto, ScanInv, FailClosed, Loop
<1>4. CASE Aborts \/ SetupFails
    BY <1>4 DEF Aborts, SetupFails, ScanInv, FailClosed, Loop
<1>5. CASE IdSucceeds \/ IdFails
    <2>1. at' = 1 /\ pc' = "show" /\ (failed' \/ (me = user)')
        BY <1>5 DEF IdSucceeds, IdFails, InfraFail
    <2> QED
        BY <2>1 DEF ScanInv, FailClosed, Loop, Done
<1>6. CASE Show
    <2>1. CASE File.quoted
        BY <1>0, <1>6, <2>1, NextFileScans DEF Show, Report, Note, Loop, ScanInv
    <2>2. CASE ~File.quoted
        BY <1>6, <2>2, <1>a DEF Show, Goto, ScanInv, FailClosed, Loop
    <2> QED
        BY <2>1, <2>2
<1>7. CASE CountBytes
    <2>1. CASE File.nul
        BY <1>0, <1>7, <2>1, NextFileScans DEF CountBytes, Report, Note, Loop, ScanInv
    <2>2. CASE ~File.nul
        BY <1>7, <2>2, <1>a DEF CountBytes, Goto, ScanInv, FailClosed, Loop, File, NoNul
    <2> QED
        BY <2>1, <2>2
<1>8. CASE ScanForName
    <2>1. /\ pc' = "schema" /\ at' = at /\ me' = me /\ user' = user /\ staged' = staged
          /\ unseen' = unseen
        BY <1>8 DEF ScanForName, Report
    <2>2. failed => failed'
        BY <1>8 DEF ScanForName, Report, Note
    <2>3. failed' \/ NoName(at)
        BY <1>8, <2>2 DEF ScanForName, Report, Note, ScanInv, Loop, NoName, File
    <2> QED
        BY <1>8, <2>1, <2>2, <2>3, <1>a DEF ScanForName, ScanInv, FailClosed, Loop
<1>9. CASE ScanFails \/ CheckFails \/ \E step \in {"show", "count"} : Unverified(step)
    BY <1>9, <1>0, NextFileScans DEF ScanFails, CheckFails, Unverified, InfraFail, Loop
<1>10. CASE CheckSchema
    <2>1. failed => failed'
        BY <1>10 DEF CheckSchema, Report, Note
    <2>2. ASSUME ~failed' PROVE Valid(at)
        BY <1>10, <2>2 DEF CheckSchema, Report, Note, SchemaCheck, Valid, File
    <2>3. /\ NextFile /\ UNCHANGED <<staged, user, me, unseen>>
          /\ failed' \/ me = user
          /\ failed' \/ Done(at - 1)
          /\ at \in 1..Len(staged)
        BY <1>10, <1>0, <2>1 DEF CheckSchema, Report, ScanInv, Loop
    <2>4. failed' \/ Passes(at)
        BY <1>10, <2>1, <2>2 DEF CheckSchema, ScanInv, Passes
    <2>5. \A i : Passes(i) => Passes(i)'
        BY <2>3 DEF Passes, NoNul, NoName, Valid
    <2> QED
        BY <2>3, <2>4, <2>5, NextFileScans
<1>11. CASE Verdict
    BY <1>11, <1>a DEF Verdict, Goto, ScanInv, FailClosed, Loop, Done
<1>12. CASE ListCutShort
    <2>1. /\ pc' = "verdict" /\ UNCHANGED <<staged, user, at, me, failed>>
          /\ unseen' = unseen \cup {<<"list", at>>} /\ at \in 1..Len(staged)
          /\ failed \/ me = user
          /\ failed \/ Done(at - 1)
        BY <1>12, <1>0 DEF ListCutShort, Unseen, ScanInv, Loop
    <2>2. ASSUME Done(at - 1), NEW i \in 1..Len(staged) PROVE Passes(i)'
        <3>1. CASE i \in 1..(at - 1)
            BY <2>1, <2>2, <3>1 DEF Done, Passes, NoNul, NoName, Valid
        <3>2. CASE at \in 1..i
            BY <2>1, <3>2 DEF Passes
        <3> QED
            BY <1>0, <2>1, <3>1, <3>2
    <2>3. failed' \/ Done(Len(staged))'
        BY <2>1, <2>2 DEF Done
    <2> QED
        BY <2>1, <2>3 DEF ScanInv, FailClosed, Loop
<1>13. CASE \E what \in {"scan", "hits"} : NameMissed(what)
    <2>1. /\ pc = "name" /\ pc' = "schema" /\ UNCHANGED <<staged, user, at, me, failed>>
          /\ unseen \subseteq unseen'
          /\ <<"scan", at>> \in unseen' \/ <<"hits", at>> \in unseen'
        BY <1>13 DEF NameMissed, Unseen
    <2> QED
        BY <2>1, <1>a DEF ScanInv, FailClosed, Loop
<1>14. CASE ReportCutShort
    <2>1. /\ NextFile /\ UNCHANGED <<staged, user, me>>
          /\ failed => failed'
          /\ unseen' = unseen \cup {<<"report", at>>} /\ at \in 1..Len(staged)
          /\ failed \/ me = user
          /\ failed \/ Done(at - 1)
        BY <1>14, <1>0 DEF ReportCutShort, Note, Unseen, ScanInv, Loop
    <2>2. PICK n \in 1..Len(staged) : n = at
        BY <2>1
    <2>3. failed' \/ Passes(n)'
        BY <1>14, <2>1, <2>2 DEF ReportCutShort, ScanInv, Passes, NoNul, NoName
    <2>4. /\ unseen \subseteq unseen'
          /\ failed' \/ me = user
          /\ failed' \/ Done(n - 1)
        BY <2>1, <2>2
    <2> QED
        BY <2>1, <2>2, <2>3, <2>4, NextFileScans
<1> QED
    BY <1>1, <1>2, <1>3, <1>4, <1>5, <1>6, <1>7, <1>8, <1>9, <1>10, <1>11, <1>12, <1>13,
       <1>14 DEF Next

\* A commit that the hook lets through holds only clean fixtures, whichever
\* commands fail and in whatever order, but for what an unseen failure hides
\* of its own file, or of the rest of a list that it cuts short.
THEOREM CommitsAreClean == Spec => []FailClosed
<1>1. Init => ScanInv
    BY DEF Init, ScanInv, FailClosed, Loop
<1>2. ScanInv => FailClosed
    BY DEF ScanInv
<1> QED
    BY <1>1, <1>2, HookTypes, ScanStep, PTL DEF Spec

-----------------------------------------------------------------------------
(* NamesEveryBadFile *)

Named  == {l.file : l \in blocked}
IsBad(i) == staged[i].quoted \/ ~Clean(i)
Bad(n) == {i \in 1..n : IsBad(i)}

\* Named for its account name only, and still to be checked.
NamedEarly == {i \in {at} : pc = "schema" /\ user = "real" /\ File.named}

\* While nothing has failed, the files named are the bad ones behind the loop,
\* and the current one if its account name was found.
NameInv ==
    ~fault =>
        /\ failed <=> Named # {}
        /\ pc \in Loop => me = user
        /\ pc \in {"count", "name", "schema"} => ~File.quoted
        /\ pc \in Loop => Named = Bad(at - 1) \cup NamedEarly
        /\ pc \in {"verdict", "committed", "refused"} => Named = Bad(Len(staged))
        /\ pc \notin Loop \cup {"verdict", "committed", "refused"} => Named = {}
        /\ pc = "refused" => failed
        /\ pc = "committed" => ~failed

\* What the lines of a report add to the files named.
LEMMA ReportNames ==
    ASSUME NEW lines, Report(lines), \A l \in lines : l.file = at
    PROVE  /\ Named' = Named \cup {i \in {at} : lines # {}}
           /\ failed' = (failed \/ lines # {})
           /\ UNCHANGED <<staged, user, me, fault>>
BY DEF Report, Note, Named

LEMMA OneLineNames ==
    ASSUME NEW rule, Report({Line(rule, <<>>)})
    PROVE  Named' = Named \cup {at} /\ failed' = TRUE /\ UNCHANGED <<staged, user, me, fault>>
<1> DEFINE lines == {Line(rule, <<>>)}
<1>1. lines # {} /\ \A l \in lines : l.file = at
    BY DEF Line
<1> HIDE DEF lines
<1>2. Report(lines)
    BY DEF lines
<1> QED
    BY <1>1, <1>2, ReportNames

LEMMA BadGrows ==
    ASSUME NEW n \in Nat, n >= 1
    PROVE  Bad(n) = Bad(n - 1) \cup {i \in {n} : IsBad(i)}
BY DEF Bad

\* The step from a file to the next, if it is named exactly when it is bad.
LEMMA NextFileNames ==
    ASSUME TypeOK, at \in 1..Len(staged), NextFile, UNCHANGED <<staged, user, me, fault>>,
           me = user, failed' <=> Named' # {},
           Named' = Bad(at - 1) \cup {i \in {at} : IsBad(i)}
    PROVE  NameInv'
<1>0. Len(staged) \in Nat /\ at \in Nat /\ at >= 1
    BY StagedLength DEF TypeOK
<1>1. Named' = Bad(at)
    BY <1>0, BadGrows
<1>3. CASE at < Len(staged)
    <2>1. at' = at + 1 /\ pc' = "show"
        BY <1>3 DEF NextFile
    <2>2. at' - 1 = at
        BY <1>0, <2>1
    <2>3. Bad(at - 1)' = Bad(at)
        BY <2>2 DEF Bad, IsBad, Clean, NoNul, NoName, Valid
    <2>4. NamedEarly' = {}
        BY <2>1 DEF NamedEarly
    <2> QED
        BY <1>1, <2>1, <2>3, <2>4 DEF NameInv, Loop
<1>4. CASE at = Len(staged)
    <2>1. pc' = "verdict"
        BY <1>0, <1>4 DEF NextFile
    <2>2. Bad(Len(staged))' = Bad(at)
        BY <1>4 DEF Bad, IsBad, Clean, NoNul, NoName, Valid
    <2> QED
        BY <1>1, <2>1, <2>2 DEF NameInv, Loop
<1> QED
    BY <1>0, <1>3, <1>4

LEMMA NameStep == TypeOK /\ ScanInv /\ NameInv /\ [Next]_vars => NameInv'
<1> SUFFICES ASSUME TypeOK, ScanInv, NameInv, [Next]_vars, ~fault' PROVE NameInv'
    BY DEF NameInv
<1>0. Len(staged) \in Nat /\ (pc \in Loop => at \in 1..Len(staged))
    BY StagedLength DEF TypeOK, Loop
<1>b. ASSUME UNCHANGED <<staged, user>> PROVE Bad(Len(staged))' = Bad(Len(staged))
    BY <1>b DEF Bad, IsBad, Clean, NoNul, NoName, Valid
<1>1. CASE UNCHANGED vars
    <2>1. /\ UNCHANGED <<staged, user, pc, at, me, failed, blocked, fault>>
          /\ Named' = Named /\ NamedEarly' = NamedEarly /\ File' = File
        BY <1>1 DEF vars, Named, NamedEarly, File
    <2>2. Bad(at - 1)' = Bad(at - 1) /\ Bad(Len(staged))' = Bad(Len(staged))
        BY <2>1 DEF Bad, IsBad, Clean, NoNul, NoName, Valid
    <2> QED
        BY <2>1, <2>2 DEF NameInv
<1>2. CASE Preflight \/ MakeTemp \/ FindRoot \/ BuildChecker
    BY <1>2 DEF Preflight, MakeTemp, FindRoot, BuildChecker, Goto, NameInv, Loop, Named
<1>3. CASE ListStaged
    <2>1. Named' = Named /\ Named = {} /\ ~failed /\ UNCHANGED <<staged, user, failed, fault>>
        BY <1>3 DEF ListStaged, Goto, NameInv, Loop, Named
    <2>2. CASE staged = <<>>
        <3>1. Bad(Len(staged))' = {} /\ pc' = "committed"
            BY <1>3, <2>1, <2>2 DEF ListStaged, Goto, Bad
        <3> QED
            BY <2>1, <3>1 DEF NameInv, Loop
    <2>3. CASE staged # <<>>
        BY <1>3, <2>1, <2>3 DEF ListStaged, Goto, NameInv, Loop
    <2> QED
        BY <2>2, <2>3
<1>4. CASE IdSucceeds
    <2>1. /\ at' = 1 /\ pc' = "show" /\ me' = user' /\ Named' = Named /\ Named = {}
          /\ UNCHANGED <<failed, fault>>
        BY <1>4 DEF IdSucceeds, NameInv, Loop, Named
    <2>2. Bad(at - 1)' = {} /\ NamedEarly' = {}
        BY <2>1 DEF Bad, NamedEarly
    <2> QED
        BY <2>1, <2>2 DEF NameInv, Loop
<1>5. CASE Aborts \/ SetupFails \/ IdFails \/ ScanFails \/ CheckFails
           \/ \E step \in {"show", "count"} : Unverified(step)
           \/ ListCutShort \/ (\E what \in {"scan", "hits"} : NameMissed(what)) \/ ReportCutShort
    BY <1>5 DEF ListCutShort, NameMissed, ReportCutShort, Unseen, Aborts, SetupFails, IdFails, ScanFails, CheckFails, Unverified, InfraFail
<1>6. CASE Show
    <2>0. /\ ~fault /\ me = user /\ at \in 1..Len(staged) /\ (failed <=> Named # {})
          /\ Named = Bad(at - 1)
        BY <1>6, <1>0 DEF Show, Report, Goto, NameInv, Loop, NamedEarly
    <2>1. CASE File.quoted
        <3>1. Report({Line("INFRA", <<>>)}) /\ NextFile /\ IsBad(at)
            BY <1>6, <2>1 DEF Show, File, IsBad
        <3>2. /\ Named' = Named \cup {at} /\ failed' = TRUE
              /\ UNCHANGED <<staged, user, me, fault>>
            BY <3>1, OneLineNames
        <3> QED
            BY <2>0, <3>1, <3>2, NextFileNames
    <2>2. CASE ~File.quoted
        <3>1. /\ pc' = "count" /\ UNCHANGED <<staged, user, at, me, failed, blocked, fault>>
              /\ Named' = Named /\ File' = File /\ NamedEarly' = {}
            BY <1>6, <2>2 DEF Show, Goto, Named, File, NamedEarly
        <3>2. Bad(at - 1)' = Bad(at - 1)
            BY <3>1 DEF Bad, IsBad, Clean, NoNul, NoName, Valid
        <3> QED
            BY <2>0, <2>2, <3>1, <3>2 DEF NameInv, Loop
    <2> QED
        BY <2>1, <2>2
<1>7. CASE CountBytes
    <2>0. /\ ~fault /\ me = user /\ at \in 1..Len(staged) /\ (failed <=> Named # {})
          /\ Named = Bad(at - 1) /\ ~File.quoted
        BY <1>7, <1>0 DEF CountBytes, Report, Goto, NameInv, Loop, NamedEarly
    <2>1. CASE File.nul
        <3>1. Report({Line("BINARY_CONTENT", <<>>)}) /\ NextFile /\ IsBad(at)
            BY <1>7, <2>1 DEF CountBytes, File, IsBad, Clean, NoNul, NoName, Valid
        <3>2. /\ Named' = Named \cup {at} /\ failed' = TRUE
              /\ UNCHANGED <<staged, user, me, fault>>
            BY <3>1, OneLineNames
        <3> QED
            BY <2>0, <3>1, <3>2, NextFileNames
    <2>2. CASE ~File.nul
        <3>1. /\ pc' = "name" /\ UNCHANGED <<staged, user, at, me, failed, blocked, fault>>
              /\ Named' = Named /\ File' = File /\ NamedEarly' = {}
            BY <1>7, <2>2 DEF CountBytes, Goto, Named, File, NamedEarly
        <3>2. Bad(at - 1)' = Bad(at - 1)
            BY <3>1 DEF Bad, IsBad, Clean, NoNul, NoName, Valid
        <3> QED
            BY <2>0, <3>1, <3>2 DEF NameInv, Loop
    <2> QED
        BY <2>1, <2>2
<1>8. CASE ScanForName
    <2> DEFINE found == me = "real" /\ File.named
               lines == IF found THEN {Line("REAL_USERNAME", <<>>)} ELSE {}
    <2>0. /\ ~fault /\ me = user /\ (failed <=> Named # {})
          /\ Named = Bad(at - 1) /\ ~File.quoted
        BY <1>8, <1>0 DEF ScanForName, Report, NameInv, Loop, NamedEarly
    <2>1. Report(lines) /\ pc' = "schema" /\ at' = at
        BY <1>8 DEF ScanForName
    <2>a. (lines # {} <=> found) /\ \A l \in lines : l.file = at
        <3>1. Line("REAL_USERNAME", <<>>).file = at
            BY DEF Line
        <3> HIDE DEF found
        <3> QED
            BY <3>1
    <2> HIDE DEF lines
    <2>2. /\ Named' = Named \cup {i \in {at} : found}
          /\ failed' = (failed \/ found)
          /\ UNCHANGED <<staged, user, me, fault>>
        BY <2>1, <2>a, ReportNames
    <2>3. NamedEarly' = {i \in {at} : found} /\ File' = File
        BY <2>0, <2>1, <2>2 DEF NamedEarly, File
    <2>4. Bad(at - 1)' = Bad(at - 1)
        BY <2>1, <2>2 DEF Bad, IsBad, Clean, NoNul, NoName, Valid
    <2> HIDE DEF found
    <2>5. failed' <=> Named' # {}
        BY <2>0, <2>2
    <2> QED
        BY <2>0, <2>1, <2>2, <2>3, <2>4, <2>5 DEF NameInv, Loop
<1>9. CASE CheckSchema
    <2> DEFINE r == SchemaCheck(File)
               lines == IF r.rc = 2 THEN {Line("INFRA", <<>>)}
                        ELSE {Line("SCHEMA_VIOLATION", v) : v \in r.lines}
               fits == File.json /\ SchemaViolations(File.doc) = {}
    <2>0. /\ ~fault /\ me = user /\ at \in 1..Len(staged) /\ (failed <=> Named # {})
          /\ ~File.quoted /\ ~File.nul
          /\ Named = Bad(at - 1) \cup {i \in {at} : user = "real" /\ File.named}
        BY <1>9, <1>0 DEF CheckSchema, Report, NameInv, ScanInv, Loop, NamedEarly, File, NoNul
    <2>1. Report(lines) /\ NextFile
        BY <1>9 DEF CheckSchema
    <2>2. lines # {} <=> ~fits
        BY DEF SchemaCheck
    <2>3. \A l \in lines : l.file = at
        BY DEF Line
    <2>4. IsBad(at) <=> (user = "real" /\ File.named) \/ ~fits
        BY <2>0 DEF IsBad, Clean, NoNul, NoName, Valid, File
    <2> HIDE DEF lines, fits
    <2>5. /\ Named' = Named \cup {i \in {at} : lines # {}}
          /\ failed' = (failed \/ lines # {})
          /\ UNCHANGED <<staged, user, me, fault>>
        BY <2>1, <2>3, ReportNames
    <2>6. failed' <=> Named' # {}
        BY <2>0, <2>5
    <2>7. Named' = Bad(at - 1) \cup {i \in {at} : IsBad(i)}
        BY <2>0, <2>2, <2>4, <2>5
    <2> QED
        BY <2>0, <2>1, <2>5, <2>6, <2>7, NextFileNames
<1>10. CASE Verdict
    <2>1. /\ UNCHANGED <<staged, user, at, me, failed, blocked, fault>> /\ Named' = Named
          /\ pc' = IF failed THEN "refused" ELSE "committed"
          /\ Named = Bad(Len(staged)) /\ (failed <=> Named # {})
        BY <1>10 DEF Verdict, Goto, Named, NameInv
    <2> QED
        BY <2>1, <1>b DEF NameInv, Loop
<1> QED
    BY <1>1, <1>2, <1>3, <1>4, <1>5, <1>6, <1>7, <1>8, <1>9, <1>10 DEF Next

\* When no command fails, the files the hook names are exactly the bad ones,
\* and it refuses if there are any (pre-commit:239-361).
THEOREM BadFilesAreNamed == Spec => []NamesEveryBadFile
<1>1. Init => ScanInv
    BY DEF Init, ScanInv, FailClosed, Loop
<1>2. Init => NameInv
    BY DEF Init, NameInv, Named, Loop
<1>3. NameInv => NamesEveryBadFile
    <2> SUFFICES ASSUME NameInv, pc \in {"committed", "refused"}, ~fault
                 PROVE  /\ Named = Bad(Len(staged))
                        /\ pc = "refused" <=> blocked # {}
        BY DEF NamesEveryBadFile, Named, Bad, IsBad
    <2>1. blocked # {} <=> Named # {}
        BY DEF Named
    <2> QED
        BY <2>1 DEF NameInv
<1> QED
    BY <1>1, <1>2, <1>3, HookTypes, ScanStep, NameStep, PTL DEF Spec
=============================================================================
