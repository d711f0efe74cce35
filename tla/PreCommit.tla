------------------------------ MODULE PreCommit ------------------------------
(***************************************************************************)
(* .githooks/pre-commit with the command it builds and runs for every      *)
(* staged fixture, cmd/schema-check: command by command, each of which may *)
(* fail.  "fault" remembers that one did.                                  *)
(*                                                                         *)
(* A staged file is what the hook's commands can tell of it.  A command    *)
(* that fails shows the hook a status other than those it accepts; the     *)
(* schema checker may also die with any status, or print what it should    *)
(* not.  Four failures do not show: they are in "unseen", each with the    *)
(* file it happened at.                                                    *)
(***************************************************************************)
EXTENDS Naturals, Sequences

CONSTANTS
    Docs,                  \* what a fixture may hold
    SchemaViolations(_),   \* herdrapi.ValidateFixture
    Stageable              \* the lists of fixtures that may be staged

Files ==
    [nul    : BOOLEAN,     \* it holds a NUL byte
     named  : BOOLEAN,     \* it holds the committing user's account name
     json   : BOOLEAN,     \* it parses
     quoted : BOOLEAN,     \* git quotes its name in a list of names
     doc    : Docs]

ASSUME PreCommitAssumption == Stageable \subseteq Seq(Files)

VARIABLES
    staged,     \* the fixtures in the index, in git's order
    user,       \* is the account name a sanctioned placeholder or a real name
    pc,
    at,         \* the file the loop is at
    me,         \* what id -un returned
    failed,     \* $tmp/failed exists
    blocked,    \* the BLOCKED lines
    fault,
    unseen      \* failures the hook took for success

vars == <<staged, user, pc, at, me, failed, blocked, fault, unseen>>

Line(rule, detail) == [file |-> at, rule |-> rule, detail |-> detail]

Init ==
    /\ staged \in Stageable
    /\ user \in {"real", "placeholder"}
    /\ pc = "preflight"
    /\ at = 0
    /\ me = ""
    /\ failed = FALSE
    /\ blocked = {}
    /\ fault = FALSE
    /\ unseen = {}

-----------------------------------------------------------------------------
(* Before the loop *)

Goto(step) ==
    pc' = step /\ UNCHANGED <<staged, user, at, me, failed, blocked, fault, unseen>>

\* exit 1 because a command failed: a missing dependency or mktemp, or one
\* that the shell ends the hook for (cat, printf, the redirection of a loop
\* or of the special builtin that creates $tmp/failed).
Aborts ==
    /\ pc \in {"preflight", "mktemp", "root", "id", "show", "count", "name", "schema"}
    /\ pc' = "refused"
    /\ fault' = TRUE
    /\ UNCHANGED <<staged, user, at, me, failed, blocked, unseen>>

Preflight == pc = "preflight" /\ Goto("mktemp")
MakeTemp  == pc = "mktemp" /\ Goto("diff")

\* git diff --cached: no fixture is staged, or the loop has something to do.
ListStaged == pc = "diff" /\ Goto(IF staged = <<>> THEN "committed" ELSE "root")

FindRoot     == pc = "root" /\ Goto("build")
BuildChecker == pc = "build" /\ Goto("id")

InfraFail ==
    /\ blocked' = blocked \cup {Line("INFRA", <<>>)}
    /\ failed' = TRUE
    /\ fault' = TRUE

\* infra_fail; refusal_message; exit 1
SetupFails ==
    /\ pc \in {"diff", "root", "build"}
    /\ InfraFail
    /\ pc' = "refused"
    /\ UNCHANGED <<staged, user, at, me, unseen>>

IdSucceeds ==
    /\ pc = "id"
    /\ me' = user
    /\ at' = 1
    /\ pc' = "show"
    /\ UNCHANGED <<staged, user, failed, blocked, fault, unseen>>

\* Noted as a failure; the loop still runs, without the account name.
IdFails ==
    /\ pc = "id"
    /\ InfraFail
    /\ at' = 1
    /\ pc' = "show"
    /\ UNCHANGED <<staged, user, me, unseen>>

-----------------------------------------------------------------------------
(* The loop over the staged files *)

File == staged[at]

\* mutation: the loop ends with the first file that is not clean
NextFileUnlessFailed ==
    IF at < Len(staged) /\ ~failed' THEN at' = at + 1 /\ pc' = "show"
                                    ELSE at' = at /\ pc' = "verdict"

\* continue, or the end of the loop
NextFile ==
    IF at < Len(staged) THEN at' = at + 1 /\ pc' = "show"
                        ELSE at' = at /\ pc' = "verdict"

Note(lines) ==
    /\ blocked' = blocked \cup lines
    /\ failed' = (failed \/ lines # {})

\* report for each of the lines, then continue
Report(lines) == Note(lines) /\ UNCHANGED <<staged, user, me, fault, unseen>>

\* infra_fail for this file and continue: git show, wc, tr, grep, the checker
Unverified(step) ==
    /\ pc = step
    /\ InfraFail
    /\ NextFile
    /\ UNCHANGED <<staged, user, me, unseen>>

\* A failure that the hook takes for success.
Unseen(what) == fault' = TRUE /\ unseen' = unseen \cup {<<what, at>>}

\* The read of the list fails, which ends the loop like the end of the list.
ListCutShort ==
    /\ pc = "show"
    /\ Unseen("list")
    /\ pc' = "verdict"
    /\ UNCHANGED <<staged, user, at, me, failed, blocked>>

\* The names git lists are quoted when they are unusual; git show does not
\* find a file under a quoted name.
Show ==
    /\ pc = "show"
    /\ IF File.quoted
       THEN Report({Line("INFRA", <<>>)}) /\ NextFile
       ELSE Goto("count")

\* wc, tr -d '\000' and wc: fewer bytes without the NULs.
CountBytes ==
    /\ pc = "count"
    /\ IF File.nul
       THEN Report({Line("BINARY_CONTENT", <<>>)}) /\ NextFile
       ELSE Goto("name")

\* grep -nF "$me", unless it is a placeholder or unknown
ScanForName ==
    /\ pc = "name"
    /\ Report(IF me = "real" /\ File.named THEN {Line("REAL_USERNAME", <<>>)} ELSE {})
    /\ pc' = "schema"
    /\ UNCHANGED at

\* mutation: the status of grep is not looked at, as in an earlier hook
ScanFailsUnnoticed ==
    /\ pc = "name" /\ me = "real"
    /\ fault' = TRUE
    /\ pc' = "schema"
    /\ UNCHANGED <<staged, user, at, me, failed, blocked, unseen>>

\* grep shows a status other than 0 and 1.
ScanFails == me = "real" /\ Unverified("name")

\* "scan": grep has not looked and shows status 1, as under bash when its
\* output cannot be redirected.  "hits": the read of what it found fails.
NameMissed(what) ==
    /\ pc = "name" /\ me = "real"
    /\ Unseen(what)
    /\ pc' = "schema"
    /\ UNCHANGED <<staged, user, at, me, failed, blocked>>

\* cmd/schema-check on one file: its exit status, the violations it prints
SchemaCheck(f) ==
    IF ~f.json THEN [rc |-> 2, lines |-> {}]
    ELSE LET v == SchemaViolations(f.doc)
         IN  [rc |-> IF v = {} THEN 0 ELSE 1, lines |-> v]

CheckSchema ==
    /\ pc = "schema"
    /\ LET result == SchemaCheck(File) IN
          Report(IF result.rc = 2 THEN {Line("INFRA", <<>>)}
                 ELSE {Line("SCHEMA_VIOLATION", v) : v \in result.lines})
    /\ NextFile

\* The read of the violations fails somewhere; or the checker dies silently
\* with status 1, and so does the grep -c that should count its violations,
\* which leaves the count of an earlier file.
ReportCutShort ==
    /\ pc = "schema"
    /\ \E lines \in SUBSET SchemaCheck(File).lines :
          Note({Line("SCHEMA_VIOLATION", v) : v \in lines})
    /\ Unseen("report")
    /\ NextFile
    /\ UNCHANGED <<staged, user, me>>

\* The checker does not run, dies, exits 1 without a violation or 0 with
\* output; or grep -c fails to count the violations.
CheckFails == Unverified("schema")

Verdict == pc = "verdict" /\ Goto(IF failed THEN "refused" ELSE "committed")

Next ==
    \/ Preflight \/ MakeTemp \/ ListStaged \/ FindRoot \/ BuildChecker
    \/ Aborts \/ SetupFails \/ IdSucceeds \/ IdFails
    \/ Show \/ CountBytes \/ ScanForName \/ ScanFails \/ CheckSchema \/ CheckFails
    \/ \E step \in {"show", "count"} : Unverified(step)
    \/ ListCutShort \/ (\E what \in {"scan", "hits"} : NameMissed(what)) \/ ReportCutShort
    \/ Verdict

Spec == Init /\ [][Next]_vars

-----------------------------------------------------------------------------
(* Properties *)

TypeOK ==
    /\ staged \in Stageable
    /\ user \in {"real", "placeholder"}
    /\ pc \in {"preflight", "mktemp", "diff", "root", "build", "id", "show", "count",
               "name", "schema", "verdict", "committed", "refused"}
    /\ pc \in {"root", "build", "id"} => staged # <<>>
    /\ at \in 0..Len(staged)
    /\ pc \in {"show", "count", "name", "schema"} => at \in 1..Len(staged)
    /\ me \in {"", user}
    /\ failed \in BOOLEAN
    /\ fault \in BOOLEAN
    /\ unseen \subseteq {"list", "scan", "hits", "report"} \X (1..Len(staged))

\* What may be committed: text without the account name that fits the schema.
NoNul(i)  == ~staged[i].nul
NoName(i) == ~(user = "real" /\ staged[i].named)
Valid(i)  == staged[i].json /\ SchemaViolations(staged[i].doc) = {}
Clean(i)  == NoNul(i) /\ NoName(i) /\ Valid(i)

\* The i-th file is clean as far as the steps tell whose failure, if they
\* failed for this file, the hook has seen; or it was not reached because the
\* list was cut short.
Passes(i) ==
    \/ /\ NoNul(i)
       /\ NoName(i) \/ <<"scan", i>> \in unseen \/ <<"hits", i>> \in unseen
       /\ Valid(i) \/ <<"report", i>> \in unseen
    \/ \E n \in 1..i : <<"list", n>> \in unseen

\* A commit goes through only if every staged fixture is clean, whichever
\* commands of the hook are missing, die or fail (pre-commit:46, "FAIL CLOSED"),
\* except for what exactly a failure hides that shows no status: the account
\* name of one file, the schema violations of one file, or the files after a
\* point of the list.
FailClosed == pc = "committed" => \A i \in 1..Len(staged) : Passes(i)

\* When no command fails the hook names every file that is not clean, not only
\* the first, and it refuses for no other reason (pre-commit:239-361).
NamesEveryBadFile ==
    pc \in {"committed", "refused"} /\ ~fault =>
        /\ {l.file : l \in blocked} =
              {i \in 1..Len(staged) : staged[i].quoted \/ ~Clean(i)}
        /\ pc = "refused" <=> blocked # {}
=============================================================================
