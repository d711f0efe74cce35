-------------------------- MODULE FixturePipeline ---------------------------
(***************************************************************************)
(* The way of a fixture: scripts/sanitize.py makes it of a capture, the    *)
(* hook and the schema let it into a commit or not.                        *)
(***************************************************************************)
EXTENDS FixtureGuard, Sanitize

CONSTANTS
    Captures,       \* of ordinary sessions
    OddCaptures     \* with any text in any field, known to the schema or not

ASSUME CaptureAssumption ==
    /\ \A c \in Captures \cup OddCaptures : IsCapture(c)
    /\ {sanitized(c) : c \in Captures \cup OddCaptures} \subseteq Docs

Recaptured    == {sanitized(c) : c \in Captures}
OddRecaptured == {sanitized(c) : c \in OddCaptures}

\* The texts that tell something of the machine they come from or, for those
\* of home directories and those with the account name, of its user.
OfUser ==
    {"account", "/Users/account/shop", "/Users/other/shop", "at /Users/account/shop",
     "/home/account/shop", "~/shop", "~/my shop",
     "/Users/user/shop", "~/projects/app shop"}      \* these two halfway through
Live == OfUser \cup {"shop", "at /Users/user/shop", "/home/user/shop",
                     "live-terminal", "live-session"}

LiveIn(doc, p, texts) == doc[p].type = "string" /\ doc[p].s \in texts

\* Capturing again is a way out of a refused commit, as its message says
\* (pre-commit:145-150): when no command fails, a commit of fixtures that the
\* script has made of ordinary sessions goes through.
RecaptureIsCommitted ==
    /\ pc \in {"committed", "refused"} /\ ~fault
    /\ \A i \in DOMAIN staged :
          staged[i].doc \in Recaptured /\ staged[i].json
          /\ ~staged[i].nul /\ ~staged[i].named /\ ~staged[i].quoted
    => pc = "committed"

\* Script and schema together: whatever was captured, a fixture that is
\* committed tells nothing of its user, in no field, and of the machine only
\* what the schema leaves to descriptive texts (sanitize.py:23-30,
\* pre-commit:34-38), unless a failing read has kept the hook from it.
NothingLiveIsCommitted ==
    pc = "committed" =>
        \A i \in DOMAIN staged :
            LET doc == staged[i].doc
            IN  Validated(i) /\ staged[i].doc \in OddRecaptured =>
                    \A p \in DOMAIN doc :
                        /\ ~LiveIn(doc, p, OfUser)
                        /\ LiveIn(doc, p, Live) => p[Len(p)] \in FreeTexts
=============================================================================
