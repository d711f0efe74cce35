------------------------------- MODULE RpcCall -------------------------------
(***************************************************************************)
(* One Client.call (internal/herdrapi/client.go:34-130): the goroutine of  *)
(* the caller, the watcher goroutine it starts, the deadline of the        *)
(* connection that both of them set, and a Herdr that may stop anywhere.   *)
(*                                                                         *)
(* The end of the context and the deadline of the connection are two       *)
(* timers: either may be seen first.                                       *)
(***************************************************************************)
EXTENDS Integers

VARIABLES
    hasDeadline,  \* ctx has one; any ctx may be cancelled
    ctx,          \* "live", "done"
    pc,           \* dial, arm, spawn, write, read, decode, unwind, close, returned
    wants,        \* out of call: the result is decoded, or nobody looks at it
    deadline,     \* of conn: "none", "ahead", "past"
    watcher,      \* "none", "waiting", "firing", "gone"
    done,         \* the channel is closed
    request,      \* the peer has the whole line of the request
    served,       \* and has done what it asks
    peer,         \* "open", "closed"
    answer,       \* "none", "ok", "bare" (without result, or an empty one), "error",
                  \* "garbled"
    sent, got,    \* how much of the answer the peer wrote, and bufio has read
    result        \* "none", "ok", "error"

vars == <<hasDeadline, ctx, pc, wants, deadline, watcher, done, request, served, peer,
          answer, sent, got, result>>

\* How much of a line: the body is complete before its newline is.
Nothing == 0
Part    == 1
Body    == 2
Line    == 3

Init ==
    /\ hasDeadline \in BOOLEAN /\ wants \in BOOLEAN
    /\ ctx = "live" /\ pc = "dial" /\ deadline = "none" /\ watcher = "none"
    /\ done = FALSE /\ request = FALSE /\ served = FALSE /\ peer = "open"
    /\ answer = "none" /\ sent = Nothing /\ got = Nothing /\ result = "none"

Context == <<hasDeadline, ctx, wants>>
Herdr   == <<request, served, peer, answer, sent>>
Watch   == <<watcher, done>>

-----------------------------------------------------------------------------
(* The caller *)

Fail(at) == pc' = at /\ result' = "error"

Dial ==
    /\ pc = "dial"
    /\ pc' = "arm"
    /\ UNCHANGED <<Context, Herdr, Watch, deadline, got, result>>

\* No socket, nobody listens, or ctx has ended; nothing is deferred yet.
DialFails ==
    /\ pc = "dial"
    /\ Fail("returned")
    /\ UNCHANGED <<Context, Herdr, Watch, deadline, got>>

SetDeadline ==
    /\ pc = "arm"
    /\ deadline' = IF hasDeadline THEN "ahead" ELSE "none"
    /\ pc' = "spawn"
    /\ UNCHANGED <<Context, Herdr, Watch, got, result>>

StartWatcher ==
    /\ pc = "spawn"
    /\ watcher' = "waiting"
    /\ pc' = "write"
    /\ UNCHANGED <<Context, Herdr, deadline, done, got, result>>

Write ==
    /\ pc = "write" /\ deadline # "past" /\ peer = "open"
    /\ request' = TRUE
    /\ pc' = "read"
    /\ UNCHANGED <<Context, Watch, deadline, served, peer, answer, sent, got, result>>

WriteFails ==
    /\ pc = "write" /\ (deadline = "past" \/ peer = "closed")
    /\ Fail("unwind")
    /\ UNCHANGED <<Context, Herdr, Watch, deadline, got>>

\* ReadBytes takes what there is, until it has the newline.
Read ==
    /\ pc = "read" /\ deadline # "past" /\ got < sent
    /\ got' = sent
    /\ pc' = IF sent = Line THEN "decode" ELSE "read"
    /\ UNCHANGED <<Context, Herdr, Watch, deadline, result>>

\* The end of the stream, or the deadline even if there is more to read.
\* What was read before it is decoded all the same.
ReadFails ==
    /\ pc = "read"
    /\ deadline = "past" \/ (peer = "closed" /\ got = sent)
    /\ IF got = Nothing THEN Fail("unwind") ELSE pc' = "decode" /\ UNCHANGED result
    /\ UNCHANGED <<Context, Herdr, Watch, deadline, got>>

DecodeTo(ok) ==
    /\ pc = "decode"
    /\ result' = IF ok THEN "ok" ELSE "error"
    /\ pc' = "unwind"
    /\ UNCHANGED <<Context, Herdr, Watch, deadline, got>>

\* mutation: the answer to a write is not looked at
DecodeUnlooked == DecodeTo(~wants \/ (got >= Body /\ answer = "ok"))

\* A body that was cut short is no JSON.  Only a caller who wants the result
\* misses it: a snapshot without workspaces is ErrEmptySnapshot.
Decode == DecodeTo(got >= Body /\ (answer = "ok" \/ (answer = "bare" /\ ~wants)))

CloseDoneNever ==    \* mutation: the watcher is not told
    /\ pc = "unwind" /\ pc' = "close"
    /\ UNCHANGED <<Context, Herdr, Watch, deadline, got, result>>

CloseDone ==
    /\ pc = "unwind" /\ pc' = "close"
    /\ done' = TRUE
    /\ UNCHANGED <<Context, Herdr, watcher, deadline, got, result>>

CloseConn ==
    /\ pc = "close" /\ pc' = "returned"
    /\ UNCHANGED <<Context, Herdr, Watch, deadline, got, result>>

-----------------------------------------------------------------------------
(* The watcher.  A deadline set on a closed connection changes nothing. *)

Watcher(sees, becomes) ==
    /\ watcher = "waiting" /\ sees /\ watcher' = becomes
    /\ UNCHANGED <<Context, Herdr, pc, deadline, done, got, result>>

WatcherSeesCtxNever == Watcher(FALSE, "firing")    \* mutation: no such case
WatcherSeesCtx == Watcher(ctx = "done", "firing")
WatcherSeesDone == Watcher(done, "gone")

WatcherFires ==
    /\ watcher = "firing" /\ watcher' = "gone"
    /\ deadline' = "past"
    /\ UNCHANGED <<Context, Herdr, pc, done, got, result>>

-----------------------------------------------------------------------------
(* The context, the clock and Herdr *)

\* Cancelled by its owner, or its own deadline.
CtxEnds ==
    /\ ctx = "live" /\ ctx' = "done"
    /\ UNCHANGED <<hasDeadline, wants, Herdr, Watch, pc, deadline, got, result>>

DeadlinePasses ==
    /\ deadline = "ahead" /\ deadline' = "past"
    /\ UNCHANGED <<Context, Herdr, Watch, pc, got, result>>

\* Once it has the request, also when nobody waits for the answer any more.
Serve ==
    /\ request /\ answer = "none"
    /\ served' = TRUE /\ answer' \in {"ok", "bare"}
    /\ UNCHANGED <<Context, Watch, pc, deadline, request, peer, sent, got, result>>

Refuse ==
    /\ request /\ answer = "none"
    /\ answer' \in {"error", "garbled"}
    /\ UNCHANGED <<Context, Watch, pc, deadline, request, served, peer, sent, got, result>>

Send ==
    /\ answer # "none" /\ peer = "open" /\ sent < Line
    /\ sent' \in (sent + 1)..Line
    /\ UNCHANGED <<Context, Watch, pc, deadline, request, served, peer, answer, got, result>>

\* After the answer, in the middle of it, or by dying.
PeerCloses ==
    /\ peer = "open" /\ pc # "dial" /\ peer' = "closed"
    /\ UNCHANGED <<Context, Watch, pc, deadline, request, served, answer, sent, got, result>>

Caller ==
    \/ Dial \/ DialFails \/ SetDeadline \/ StartWatcher \/ Write \/ WriteFails
    \/ Read \/ ReadFails \/ Decode \/ CloseDone \/ CloseConn
Peer == Serve \/ Refuse \/ Send \/ PeerCloses

Next ==
    \/ Caller
    \/ WatcherSeesCtx \/ WatcherSeesDone \/ WatcherFires
    \/ CtxEnds \/ DeadlinePasses \/ Peer

\* Go runs both goroutines, and a deadline arrives.  A dial or a write may
\* block, and Herdr owes nothing.
Fairness ==
    /\ WF_vars(ctx = "done" /\ DialFails)
    /\ WF_vars(SetDeadline \/ StartWatcher \/ WriteFails \/ Read \/ ReadFails \/ Decode
               \/ CloseDone \/ CloseConn)
    /\ WF_vars(WatcherSeesCtx \/ WatcherSeesDone \/ WatcherFires)
    /\ WF_vars(hasDeadline /\ CtxEnds)
    /\ WF_vars(DeadlinePasses)

Spec == Init /\ [][Next]_vars
FairSpec == Spec /\ Fairness

-----------------------------------------------------------------------------
(* Properties *)

Returned == pc = "returned"

TypeOK ==
    /\ hasDeadline \in BOOLEAN /\ wants \in BOOLEAN /\ done \in BOOLEAN
    /\ request \in BOOLEAN /\ served \in BOOLEAN
    /\ ctx \in {"live", "done"} /\ deadline \in {"none", "ahead", "past"}
    /\ watcher \in {"none", "waiting", "firing", "gone"} /\ peer \in {"open", "closed"}
    /\ answer \in {"none", "ok", "bare", "error", "garbled"}
    /\ sent \in Nothing..Line /\ got \in Nothing..sent
    /\ result \in {"none", "ok", "error"}

\* A call ends when its context does, at its deadline at the latest, wherever
\* Herdr stopped: before the request, in the middle of its answer
\* (client.go:45-50, client_test.go:199).
CallEnds == (ctx = "done" \/ hasDeadline) ~> Returned

\* No call leaves its watcher behind, on whatever path it returned (client.go:51-59).
WatcherEnds == Returned ~> watcher \in {"none", "gone"}

\* To its caller a call is one Request: in particular only a request that was
\* served succeeds, although an answer that was cut off is still decoded
\* (client.go:82-102).
Sent == INSTANCE Request WITH
    served  <- served,
    outcome <- IF result = "none" THEN "waiting" ELSE result
ActsAsRequest == Sent!Spec
=============================================================================
