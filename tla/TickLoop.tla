------------------------------ MODULE TickLoop ------------------------------
(***************************************************************************)
(* daemon.run with a clock: the ticker, the deadlines, the backoff, and    *)
(* for one workspace the age of its record and the TTL of its tokens.      *)
(* TokenSync has what is written and every other fault; here Herdr stays   *)
(* up, nobody else writes, and the question is what expires.               *)
(*                                                                         *)
(* Timers count down.  A call may take any time up to its deadline; the    *)
(* daemon itself takes none.  The other workspaces of a Reconcile are the  *)
(* time that passes before and after the visit of this one.                *)
(***************************************************************************)
EXTENDS Config

CONSTANTS
    Files,        \* what config.toml may be
    PollBound     \* bound: longer poll intervals are loaded and not run

ASSUME FilesAssumption ==
    \A f \in Files : f.is = "decoded" =>
        f.poll \in Int \cup {Absent, Bad} /\ f.ttl \in Int \cup {Absent, Bad}

VARIABLES
    cfg,
    pc,           \* loaded, refused, snapshot, answer, retry, reconcile, sent, wait
    left,         \* to the deadline of the call or Reconcile, or to the end of the backoff
    due, pending, \* to the next tick; a tick in ticker.C
    backoff, sawFailure,
    seen,         \* the snapshot shows the tokens the workspace should have
    visited,      \* Reconcile has dealt with the workspace
    recorded,     \* the controller has a record of its last write
    age,          \* the time since the `now` of that write
    ttl,          \* how long Herdr still holds its tokens
    written,      \* history: there was such a write
    fails,        \* history: snapshot failures in a row
    misses,       \* history: failed attempts since that write (two or more: 2)
    slow          \* history: since then a call took more than half a poll interval

vars == <<cfg, pc, left, due, pending, backoff, sawFailure, seen, visited, recorded,
          age, ttl, written, fails, misses, slow>>

Poll == cfg.poll
TTL  == cfg.ttl
H    == HeartbeatAge(cfg)

BaseBackoff == Quarter
MaxBackoff  == 20 * Quarter

AtMost(n, bound) == IF n < bound THEN n ELSE bound
OneMore(n)       == AtMost(n + 1, 2)

Init ==
    /\ \E f \in Files : cfg = Load(f)
    /\ pc = IF cfg = Invalid THEN "refused" ELSE "loaded"
    /\ left = 0 /\ due = 0 /\ pending = FALSE
    /\ backoff = BaseBackoff /\ sawFailure = FALSE
    /\ seen = FALSE /\ visited = FALSE
    /\ recorded = FALSE /\ age = 0 /\ ttl = 0 /\ written = FALSE
    /\ fails = 0 /\ misses = 0 /\ slow = FALSE

Boot ==
    /\ pc = "loaded" /\ Poll <= PollBound
    /\ pc' = "snapshot" /\ left' = Poll /\ due' = Poll
    /\ UNCHANGED <<cfg, pending, backoff, sawFailure, seen, visited, recorded, age,
                   ttl, written, fails, misses, slow>>

\* The workspace waits for its write while one of these runs.
Attempting == pc \in {"snapshot", "answer", "sent"} \/ (pc = "reconcile" /\ ~visited)

\* The clock advances by one unit, never past a deadline or a tick that the
\* daemon waits for.  The ticker drops a tick that nobody took.  An age is
\* kept up to the TTL: beyond it every record is stale.
Elapse ==
    /\ \/ pc \in {"snapshot", "answer", "retry", "reconcile", "sent"} /\ left > 0
       \/ pc = "wait" /\ ~pending
    /\ left' = IF pc = "wait" THEN 0 ELSE left - 1
    /\ due' = IF due = 1 THEN Poll ELSE due - 1
    /\ pending' = (pending \/ due = 1)
    /\ age' = AtMost(age + 1, TTL)
    /\ ttl' = IF ttl = 0 THEN 0 ELSE ttl - 1
    /\ slow' = (slow \/ (Attempting /\ 2 * (Poll - left') > Poll))
    /\ UNCHANGED <<cfg, pc, backoff, sawFailure, seen, visited, recorded, written,
                   fails, misses>>

-----------------------------------------------------------------------------
(* run *)

\* Herdr takes the snapshot: the tokens are there or have expired, and what
\* the workspace should have may have changed.
SnapshotServed ==
    /\ pc = "snapshot"
    /\ seen' \in BOOLEAN /\ (seen' => ttl > 0)
    /\ pc' = "answer"
    /\ UNCHANGED <<cfg, left, due, pending, backoff, sawFailure, visited, recorded, age,
                   ttl, written, fails, misses, slow>>

Reconcile(nextBackoff) ==
    /\ pc = "answer"
    /\ backoff' = nextBackoff
    /\ recorded' = (recorded /\ ~sawFailure)    \* Invalidate
    /\ sawFailure' = FALSE
    /\ left' = Poll
    /\ visited' = FALSE
    /\ pc' = "reconcile"
    /\ fails' = 0
    /\ UNCHANGED <<cfg, due, pending, seen, age, ttl, written, misses, slow>>

SnapshotReturnsKeepingBackoff == Reconcile(backoff)    \* mutation: no reset
SnapshotReturns == Reconcile(BaseBackoff)

SnapshotFails ==
    /\ pc \in {"snapshot", "answer"}
    /\ sawFailure' = TRUE
    /\ left' = backoff
    /\ backoff' = AtMost(2 * backoff, MaxBackoff)
    /\ pc' = "retry"
    /\ fails' = AtMost(fails + 1, 8)
    /\ misses' = OneMore(misses)
    /\ UNCHANGED <<cfg, due, pending, seen, visited, recorded, age, ttl, written, slow>>

AskAgain ==
    /\ pc' = "snapshot"
    /\ left' = Poll
    /\ UNCHANGED <<cfg, due, backoff, sawFailure, seen, visited, recorded, age, ttl,
                   written, fails, misses, slow>>

Retry == pc = "retry" /\ left = 0 /\ UNCHANGED pending /\ AskAgain
Tick  == pc = "wait" /\ pending /\ pending' = FALSE /\ AskAgain

-----------------------------------------------------------------------------
(* Reconcile, for this workspace *)

Visiting == pc = "reconcile" /\ ~visited
SinceNow == Poll - left      \* Reconcile compares with the `now` it began at

\* mutation: twice as long
UpToDateTooLong == recorded /\ seen /\ age - SinceNow < 2 * H
UpToDate == recorded /\ seen /\ age - SinceNow < H

Visited ==
    /\ pc' = "reconcile" /\ visited' = TRUE
    /\ UNCHANGED <<cfg, left, due, pending, backoff, sawFailure, seen, fails>>

Skip ==
    /\ Visiting /\ UpToDate
    /\ Visited
    /\ UNCHANGED <<recorded, age, ttl, written, misses, slow>>

\* Herdr applies the write and gives the tokens their TTL, which it is sent in
\* milliseconds; a clock unit is a whole number of those.
WriteApplied ==
    /\ Visiting /\ ~UpToDate
    /\ ttl' = TTL
    /\ pc' = "sent"
    /\ UNCHANGED <<cfg, left, due, pending, backoff, sawFailure, seen, visited, recorded,
                   age, written, fails, misses, slow>>

\* mutation: the record is dated at the answer, up to a poll interval later
WriteReturnsDatedLate ==
    /\ pc = "sent"
    /\ Visited
    /\ recorded' = TRUE /\ written' = TRUE /\ age' = 0
    /\ misses' = 0 /\ slow' = FALSE
    /\ UNCHANGED ttl

\* The record is dated back to the `now` of this Reconcile.
WriteReturns ==
    /\ pc = "sent"
    /\ Visited
    /\ recorded' = TRUE /\ written' = TRUE /\ age' = SinceNow
    /\ misses' = 0 /\ slow' = FALSE
    /\ UNCHANGED ttl

\* Before Herdr has applied it, or after.
WriteFails ==
    /\ (Visiting /\ ~UpToDate) \/ pc = "sent"
    /\ Visited
    /\ misses' = OneMore(misses)
    /\ UNCHANGED <<recorded, age, ttl, written, slow>>

EndReconcile ==
    /\ pc = "reconcile" /\ visited
    /\ pc' = "wait" /\ left' = 0
    /\ UNCHANGED <<cfg, due, pending, backoff, sawFailure, seen, visited, recorded, age,
                   ttl, written, fails, misses, slow>>

Next ==
    \/ Boot \/ Elapse
    \/ SnapshotServed \/ SnapshotReturns \/ SnapshotFails \/ Retry \/ Tick
    \/ Skip \/ WriteApplied \/ WriteReturns \/ WriteFails \/ EndReconcile

Spec == Init /\ [][Next]_vars

-----------------------------------------------------------------------------
(* Properties *)

Running == pc \notin {"loaded", "refused"}

Flags ==
    /\ pending \in BOOLEAN /\ sawFailure \in BOOLEAN /\ seen \in BOOLEAN
    /\ visited \in BOOLEAN /\ recorded \in BOOLEAN /\ written \in BOOLEAN
    /\ slow \in BOOLEAN

TypeOK ==
    /\ pc \in {"loaded", "refused", "snapshot", "answer", "retry", "reconcile", "sent", "wait"}
    /\ pc # "refused" => Validate(cfg) /\ cfg.poll \in Nat /\ cfg.ttl \in Nat
    /\ left \in Nat /\ due \in Nat /\ backoff \in Nat /\ age \in Nat /\ ttl \in Nat
    /\ Running => due \in 1..Poll
    /\ pc \in {"snapshot", "answer", "reconcile", "sent"} => left <= Poll
    /\ Flags
    /\ fails \in 0..8 /\ misses \in 0..2

\* The tokens of an acknowledged write outlive every wait of a daemon that misses
\* nothing, although each snapshot and each round of writes may take a whole
\* poll interval and a tick be dropped, if the TTL is at least 4.5 intervals
\* (config.go:44-46, controller.go:69-72).
HealthyAlive ==
    Running /\ 2 * TTL >= 9 * Poll /\ written /\ misses = 0 => ttl > 0

\* With calls that take at most half a poll interval every configuration that
\* Validate accepts, ttl = 3 * poll included, keeps them alive (config.go:58).
PromptAlive == Running /\ written /\ misses = 0 /\ ~slow => ttl > 0

\* One failed attempt, a snapshot or a write, is survived at 7.5 intervals,
\* however slow the calls are; the default has 30.
OneMissAlive ==
    Running /\ 2 * TTL >= 15 * Poll /\ written /\ misses <= 1 => ttl > 0

\* After n failures in a row the daemon asks again within base * 2^(n-1), at
\* most the cap, whatever failures there were before the last success
\* (daemon.go:47-54, 99-109).
RetriesInTime ==
    pc = "retry" => left <= AtMost(BaseBackoff * 2^(fails - 1), MaxBackoff)

\* What the README says of every accepted configuration: a single missed tick
\* never expires a token (README.md:189, config.go:59-60).
OneMissedTickIsHarmless ==
    Running /\ written /\ misses <= 1 /\ ~slow => ttl > 0
=============================================================================
