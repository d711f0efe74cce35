------------------------------ MODULE TokenSync ------------------------------
(***************************************************************************)
(* The token-writing daemon against a live Herdr: daemon.run (the poll     *)
(* loop), controller.Reconcile and the two RPCs of herdrapi.Client, in     *)
(* every interleaving with what Herdr and its users do meanwhile.          *)
(*                                                                         *)
(* Herdr is external and is modelled from what src/ says of it: it reports *)
(* a snapshot, applies report_metadata, forgets its tokens when it         *)
(* restarts or when a TTL runs out, and may apply a request after the      *)
(* client that sent it gave up.                                            *)
(*                                                                         *)
(* Time is abstracted to what the code's branches depend on: a record is   *)
(* fresh or stale (age against HeartbeatAge), a context is live or dead,   *)
(* and a wait ends at some moment.  How long a backoff or a tick lasts is  *)
(* left out, so is the retry interval run doubles and caps.                *)
(***************************************************************************)
EXTENDS Derive

CONSTANTS
    WorkspaceIDs,
    AgentIDs,
    ForeignKeys,    \* token keys that someone other than this daemon writes
    Foreign,        \* what they write there
    NoSnapshot, NoRequest,
    SlowHerdr,      \* may an answer use up the time of all writes of a tick
    MaxLate         \* bound: requests the client gave up that Herdr still has

ASSUME TokenSyncAssumption ==
    /\ IsFiniteSet(AgentIDs)
    /\ Foreign # Nil
    /\ SlowHerdr \in BOOLEAN
    /\ MaxLate \in Nat

VARIABLES
    \* Herdr
    workspaces,     \* open workspace -> its label and agent_status
    agents,         \* running agent -> its workspace and agent_status
    held,           \* workspace -> the tokens Herdr holds for it
    late,           \* requests of calls the client abandoned
    \* the daemon
    pc,             \* where run is: snapshot, retry, reconcile, call, wait, stopped
    cancelled,      \* ctx: SIGTERM or SIGINT has arrived
    expired,        \* writeCtx ran into its deadline
    sawFailure,
    snap,           \* the snapshot Reconcile works on
    todo,           \* workspaces of snap that Reconcile has yet to visit
    last,           \* Controller.last: none, or the age of the recorded write
    request,        \* the report_metadata call in progress
    \* history and environment
    clean,          \* nothing has gone wrong or changed since the last snapshot
    calm            \* nothing goes wrong or changes any more

herdrVars  == <<workspaces, agents, held, late>>
daemonVars == <<pc, cancelled, expired, sawFailure, snap, todo, last, request>>
vars == <<workspaces, agents, held, late, pc, cancelled, expired, sawFailure,
          snap, todo, last, request, clean, calm>>

Open == DOMAIN workspaces

\* herdrapi.Snapshot as decoded: every open workspace with the tokens it holds.
View(w) == [workspace_id |-> w, label |-> workspaces[w].label,
            agent_status |-> workspaces[w].agent_status, tokens |-> held[w]]
CurrentSnapshot == [workspaces |-> [w \in Open |-> View(w)], agents |-> agents]

Seen    == DOMAIN snap.workspaces

\* mutations: only what differs from the observed tokens; no explicit nulls
WantChanges(w) ==
    LET want == Desired(snap.workspaces[w], snap.agents)
        seen == snap.workspaces[w].tokens
    IN  [k \in {j \in AllTokens : IF want[j] = Nil THEN j \in DOMAIN seen
                                ELSE j \notin DOMAIN seen \/ seen[j] # want[j]} |-> want[k]]
WantWithoutNulls(w) ==
    LET want == Desired(snap.workspaces[w], snap.agents)
    IN  [k \in {j \in AllTokens : want[j] # Nil} |-> want[k]]

\* mutation: a null for what is already as desired
WantNullForUnchanged(w) ==
    LET want == Desired(snap.workspaces[w], snap.agents)
        seen == snap.workspaces[w].tokens
    IN  [k \in AllTokens |-> IF k \in DOMAIN seen /\ seen[k] = want[k] THEN Nil ELSE want[k]]

Want(w) == Desired(snap.workspaces[w], snap.agents)
CtxDead == cancelled \/ expired
Tracked == {w \in WorkspaceIDs : last[w] # "none"}

\* mutations: writes on every tick; trusts its own memory; never refreshes what Herdr still holds
UpToDateNever(w) == w \notin Seen
UpToDateByMemory(w) == last[w] = "fresh"
UpToDateForever(w) ==
    last[w] # "none" /\ ObservedMatchesDesired(snap.workspaces[w].tokens, Want(w))

\* The skip of Reconcile: recorded, observed as desired, and not yet due.
UpToDate(w) ==
    /\ last[w] = "fresh"
    /\ ObservedMatchesDesired(snap.workspaces[w].tokens, Want(w))

NoRecords == [w \in WorkspaceIDs |-> "none"]

Init ==
    /\ \E W \in (SUBSET WorkspaceIDs) \ {{}} :
          workspaces \in [W -> [label : Labels, agent_status : Statuses \cup {Nil}]]
    /\ agents = [a \in {} |-> Nil]
    /\ held = [w \in WorkspaceIDs |-> NoTokens]
    /\ late = {}
    /\ pc = "snapshot"
    /\ cancelled = FALSE
    /\ expired = FALSE
    /\ sawFailure = FALSE
    /\ snap = NoSnapshot
    /\ todo = {}
    /\ last = NoRecords
    /\ request = NoRequest
    /\ clean = FALSE
    /\ calm = FALSE

-----------------------------------------------------------------------------
(* daemon.run *)

\* mutation: sawFailure is never reset
SnapshotOkStillFailing ==
    /\ pc = "snapshot" /\ ~cancelled
    /\ snap' = CurrentSnapshot
    /\ todo' = Open
    /\ last' = IF sawFailure THEN NoRecords ELSE last
    /\ pc' = "reconcile"
    /\ clean' = (late = {})
    /\ UNCHANGED <<herdrVars, cancelled, expired, sawFailure, request, calm>>

\* client.Snapshot succeeds.  The first success after a failure drops the
\* write-skip cache (Invalidate).  Then writeCtx starts and Reconcile enters
\* its loop.  A snapshot asked for under a cancelled ctx cannot be dialled.
SnapshotOk ==
    /\ pc = "snapshot" /\ ~cancelled
    /\ snap' = CurrentSnapshot
    /\ todo' = Open
    /\ last' = IF sawFailure THEN NoRecords ELSE last
    /\ sawFailure' = FALSE
    /\ pc' = "reconcile"
    /\ clean' = (late = {})
    /\ UNCHANGED <<herdrVars, cancelled, expired, request, calm>>

SnapshotFails ==
    /\ pc = "snapshot"
    /\ sawFailure' = TRUE
    /\ pc' = "retry"
    /\ UNCHANGED <<herdrVars, cancelled, expired, snap, todo, last, request>>

SnapshotCancelled ==
    /\ cancelled
    /\ SnapshotFails
    /\ UNCHANGED <<clean, calm>>

\* mutation: the backoff sleeps and does not look at ctx
RetryAnyway ==
    /\ pc = "retry"
    /\ pc' = "snapshot"
    /\ UNCHANGED <<herdrVars, cancelled, expired, sawFailure, snap, todo, last,
                   request, clean, calm>>

\* The backoff timer fires.  With ctx already done when the select begins only
\* the other case is ready; a signal that arrives with the timer is a Cancel
\* right after this step.
Retry ==
    /\ pc = "retry" /\ ~cancelled
    /\ pc' = "snapshot"
    /\ UNCHANGED <<herdrVars, cancelled, expired, sawFailure, snap, todo, last,
                   request, clean, calm>>

\* select on ticker.C.  A tick may already be pending when ctx is done, and
\* Go then picks either case.
Tick ==
    /\ pc = "wait"
    /\ pc' = "snapshot"
    /\ UNCHANGED <<herdrVars, cancelled, expired, sawFailure, snap, todo, last,
                   request, clean, calm>>

\* The process and with it the Controller and the contexts are gone.
Forget ==
    /\ pc' = "stopped"
    /\ expired' = FALSE
    /\ sawFailure' = FALSE
    /\ snap' = NoSnapshot
    /\ todo' = {}
    /\ last' = NoRecords
    /\ request' = NoRequest

\* mutation: only the wait for the next tick selects on ctx.Done()
ReturnFromWait ==
    /\ pc = "wait" /\ cancelled
    /\ Forget
    /\ UNCHANGED <<herdrVars, cancelled, clean, calm>>

\* select on ctx.Done(), in the backoff as in the wait for the next tick.
Return ==
    /\ pc \in {"retry", "wait"} /\ cancelled
    /\ Forget
    /\ UNCHANGED <<herdrVars, cancelled, clean, calm>>

\* Time passes for a record.  Reconcile compares against one `now`, taken
\* before its loop, so nothing ages inside it.
Age(w) ==
    /\ pc \in {"snapshot", "retry", "wait"}
    /\ last[w] = "fresh"
    /\ last' = [last EXCEPT ![w] = "stale"]
    /\ UNCHANGED <<herdrVars, pc, cancelled, expired, sawFailure, snap, todo,
                   request, clean, calm>>

-----------------------------------------------------------------------------
(* controller.Reconcile and client.ReportWorkspaceMetadata *)

\* The loop visits the workspaces of the snapshot in the order Herdr lists
\* them, which is any order.
Visiting(w) == pc = "reconcile" /\ w \in todo

Skip(w) ==
    /\ Visiting(w) /\ UpToDate(w)
    /\ todo' = todo \ {w}
    /\ UNCHANGED <<herdrVars, pc, cancelled, expired, sawFailure, snap, last,
                   request, clean, calm>>

Report(w) ==
    /\ Visiting(w) /\ ~UpToDate(w) /\ ~CtxDead
    /\ request' = [workspace_id |-> w, tokens |-> Want(w), reply |-> "pending"]
    /\ pc' = "call"
    /\ UNCHANGED <<herdrVars, cancelled, expired, sawFailure, snap, todo, last,
                   clean, calm>>

\* The call returns an error before Herdr has seen anything of it: the record
\* stays as it is and the loop goes on with the next workspace.
ReportFails(w) ==
    /\ Visiting(w) /\ ~UpToDate(w)
    /\ todo' = todo \ {w}
    /\ UNCHANGED <<herdrVars, pc, cancelled, expired, sawFailure, snap, last,
                   request>>

\* All writes of one Reconcile share writeCtx: once it is dead, every
\* remaining dial fails at once.
ReportOnDeadCtx(w) ==
    /\ CtxDead
    /\ ReportFails(w)
    /\ UNCHANGED <<clean, calm>>

CallEnds(records) ==
    /\ pc = "call"
    /\ todo' = todo \ {request.workspace_id}
    /\ last' = records
    /\ request' = NoRequest
    /\ pc' = "reconcile"
    /\ UNCHANGED <<workspaces, agents, held, cancelled, sawFailure, snap>>

Unrecorded == last    \* mutation: a successful write leaves no record

Acknowledged == [last EXCEPT ![request.workspace_id] = "fresh"]

ReportReturns ==
    /\ pc = "call" /\ request.reply = "ok"
    /\ CallEnds(Acknowledged)
    /\ UNCHANGED <<late, expired, clean, calm>>

\* The answer comes at the last moment: it is recorded, and the deadline that
\* all writes of this Reconcile share has passed for the rest of them.
ReportJustInTime ==
    /\ SlowHerdr /\ ~expired
    /\ pc = "call" /\ request.reply = "ok"
    /\ CallEnds(Acknowledged)
    /\ expired' = TRUE
    /\ clean' = FALSE
    /\ UNCHANGED <<late, calm>>

ReportErrors ==
    /\ pc = "call" /\ request.reply = "error"
    /\ CallEnds(last)
    /\ UNCHANGED <<late, expired, clean, calm>>

\* An error without Herdr's answer.  The client cannot know whether Herdr has
\* applied the request, will apply it later or never will.
GivesUp ==
    /\ CallEnds(last)
    /\ \/ UNCHANGED late
       \/ /\ request.reply = "pending"
          /\ Cardinality(late) < MaxLate
          /\ late' = late \cup {[workspace_id |-> request.workspace_id,
                                 tokens |-> request.tokens]}
    /\ UNCHANGED expired

\* Deadline or cancel unblocks the read.
ReportAbandoned == CtxDead /\ GivesUp /\ UNCHANGED <<clean, calm>>

\* The connection breaks, or the answer cannot be decoded.
ReportLost == ~CtxDead /\ GivesUp

KeepsRecords == last    \* mutation: records of closed workspaces stay

\* The records of the workspaces this snapshot had.
Pruned == [w \in WorkspaceIDs |-> IF w \in Seen THEN last[w] ELSE "none"]

\* The loop is over: prune the records, cancel writeCtx.
EndReconcile ==
    /\ pc = "reconcile" /\ todo = {}
    /\ last' = Pruned
    /\ snap' = NoSnapshot
    /\ expired' = FALSE
    /\ pc' = "wait"
    /\ UNCHANGED <<herdrVars, cancelled, sawFailure, todo, request, clean, calm>>

-----------------------------------------------------------------------------
(* Herdr *)

Apply(w, tokens) == held' = [held EXCEPT ![w] = Merge(held[w], tokens)]

\* Herdr serves the request, or answers workspace_not_found.
Serve ==
    /\ pc = "call" /\ request.reply = "pending"
    /\ IF request.workspace_id \in Open
       THEN /\ Apply(request.workspace_id, request.tokens)
            /\ request' = [request EXCEPT !.reply = "ok"]
       ELSE /\ request' = [request EXCEPT !.reply = "error"]
            /\ UNCHANGED held
    /\ UNCHANGED <<workspaces, agents, late, pc, cancelled, expired, sawFailure,
                   snap, todo, last, clean, calm>>

\* A request its client no longer waits for is served, or dropped.
ServeLate(r) ==
    /\ r \in late
    /\ late' = late \ {r}
    /\ \/ r.workspace_id \in Open /\ Apply(r.workspace_id, r.tokens)
       \/ UNCHANGED held
    /\ UNCHANGED <<workspaces, agents, daemonVars, clean, calm>>

\* What users and agents do.
Change(w) ==
    /\ w \in Open
    /\ \E l \in Labels, s \in Statuses \cup {Nil} :
          /\ workspaces[w] # [label |-> l, agent_status |-> s]
          /\ workspaces' = [workspaces EXCEPT ![w] = [label |-> l, agent_status |-> s]]
    /\ UNCHANGED <<agents, held, late, daemonVars>>

OpenWorkspace(w) ==
    /\ w \notin Open
    /\ \E l \in Labels :
          workspaces' = [v \in Open \cup {w} |->
              IF v = w THEN [label |-> l, agent_status |-> Nil] ELSE workspaces[v]]
    /\ UNCHANGED <<agents, held, late, daemonVars>>

\* Herdr keeps at least one workspace.
CloseWorkspace(w) ==
    /\ w \in Open /\ Open # {w}
    /\ workspaces' = [v \in Open \ {w} |-> workspaces[v]]
    /\ agents' = [a \in DOMAIN agents \ AgentsOf(w, agents) |-> agents[a]]
    /\ held' = [held EXCEPT ![w] = NoTokens]
    /\ UNCHANGED <<late, daemonVars>>

AgentStarts(a) ==
    /\ a \notin DOMAIN agents
    /\ \E w \in Open, s \in Statuses \cup {Nil} :
          agents' = [b \in DOMAIN agents \cup {a} |->
              IF b = a THEN [workspace_id |-> w, agent_status |-> s] ELSE agents[b]]
    /\ UNCHANGED <<workspaces, held, late, daemonVars>>

AgentEnds(a) ==
    /\ a \in DOMAIN agents
    /\ agents' = [b \in DOMAIN agents \ {a} |-> agents[b]]
    /\ UNCHANGED <<workspaces, held, late, daemonVars>>

\* Herdr restarts: its tokens are gone and every connection breaks.
Restart ==
    /\ held' = [w \in WorkspaceIDs |-> NoTokens]
    /\ late' = {}
    /\ request' = IF pc = "call" THEN [request EXCEPT !.reply = "error"]
                  ELSE request
    /\ UNCHANGED <<workspaces, agents, pc, cancelled, expired, sawFailure, snap,
                   todo, last>>

WithoutKeys(f, K) == [k \in DOMAIN f \ K |-> f[k]]

\* The TTL of w's tokens runs out; every write sets all of them, so together.
Expire(w) ==
    /\ DOMAIN held[w] \cap AllTokens # {}
    /\ held' = [held EXCEPT ![w] = WithoutKeys(held[w], AllTokens)]
    /\ UNCHANGED <<workspaces, agents, late, daemonVars>>

\* Someone else sets or clears one of the ForeignKeys.
Clobber(w) ==
    /\ w \in Open
    /\ \E k \in ForeignKeys :
          \/ Apply(w, [j \in {k} |-> Foreign])
          \/ Apply(w, [j \in {k} |-> Nil])
    /\ UNCHANGED <<workspaces, agents, late, daemonVars>>

-----------------------------------------------------------------------------
(* The daemon's surroundings *)

DeadlinePasses ==
    /\ pc \in {"reconcile", "call"} /\ ~expired
    /\ expired' = TRUE
    /\ UNCHANGED <<herdrVars, pc, cancelled, sawFailure, snap, todo, last, request>>

Cancel ==
    /\ pc # "stopped" /\ ~cancelled
    /\ cancelled' = TRUE
    /\ UNCHANGED <<herdrVars, pc, expired, sawFailure, snap, todo, last, request>>

\* kill -9; a request already sent may still be served.
Crash ==
    /\ pc # "stopped"
    /\ Forget
    /\ \/ UNCHANGED late
       \/ /\ pc = "call" /\ request.reply = "pending"
          /\ Cardinality(late) < MaxLate
          /\ late' = late \cup {[workspace_id |-> request.workspace_id,
                                 tokens |-> request.tokens]}
    /\ UNCHANGED <<workspaces, agents, held, cancelled>>

StartDaemon ==
    /\ pc = "stopped"
    /\ pc' = "snapshot"
    /\ cancelled' = FALSE
    /\ UNCHANGED <<herdrVars, expired, sawFailure, snap, todo, last, request>>

Daemon ==
    \/ SnapshotOk \/ SnapshotCancelled \/ Retry \/ Tick \/ Return
    \/ \E w \in WorkspaceIDs : Skip(w) \/ Report(w) \/ ReportOnDeadCtx(w)
    \/ ReportReturns \/ ReportJustInTime \/ ReportErrors \/ ReportAbandoned
    \/ EndReconcile

Blanking ==
    \/ Restart
    \/ \E w \in WorkspaceIDs : Expire(w) \/ Clobber(w) \/ CloseWorkspace(w)

Disturbance ==
    /\ \/ Blanking
       \/ \E w \in WorkspaceIDs : Change(w) \/ OpenWorkspace(w)
       \/ \E a \in AgentIDs : AgentStarts(a) \/ AgentEnds(a)
       \/ SnapshotFails \/ ReportLost
       \/ \E w \in WorkspaceIDs : ReportFails(w)
       \/ DeadlinePasses \/ Cancel \/ Crash \/ StartDaemon
    /\ ~calm
    /\ clean' = FALSE
    /\ UNCHANGED calm

\* From here on Herdr answers every call in time, if only just when it is slow,
\* and nobody changes anything.
Settle == ~calm /\ calm' = TRUE /\ UNCHANGED <<herdrVars, daemonVars, clean>>

Next ==
    \/ Daemon
    \/ Serve
    \/ \E r \in late : ServeLate(r)
    \/ \E w \in WorkspaceIDs : Age(w)
    \/ Disturbance
    \/ Settle

Spec == Init /\ [][Next]_vars

\* The daemon's goroutine is scheduled and its timers fire; a Herdr that is up
\* serves what it was sent.  Nothing makes records age, contexts end or users act.
Fairness ==
    /\ WF_vars(Daemon)
    /\ WF_vars(Serve)
    /\ WF_vars(\E r \in late : ServeLate(r))

FairSpec == Spec /\ Fairness

-----------------------------------------------------------------------------
(* Properties *)

Partial(S, T) == UNION {[D -> T] : D \in SUBSET S}

StatusOrNil    == Statuses \cup {Nil}
WorkspaceViews == [label : Labels, agent_status : StatusOrNil]
AgentLists     == Partial(AgentIDs, [workspace_id : WorkspaceIDs, agent_status : StatusOrNil])

ValuesOf(k) ==
    IF k \in CountKeys THEN Nat \ {0} ELSE Labels \cup Statuses \cup {"none"}

IsTokens(f) ==
    /\ DOMAIN f \subseteq AllTokens \cup ForeignKeys
    /\ \A k \in DOMAIN f : f[k] = Foreign \/ f[k] \in ValuesOf(k)

\* Every write carries a value or a null for every key this plugin owns.
IsWrite(r) ==
    /\ r.workspace_id \in WorkspaceIDs
    /\ DOMAIN r.tokens = AllTokens
    /\ \A k \in AllTokens : r.tokens[k] = Nil \/ r.tokens[k] \in ValuesOf(k)

IsSnapshot(s) ==
    /\ DOMAIN s.workspaces \subseteq WorkspaceIDs
    /\ \A w \in DOMAIN s.workspaces :
          /\ s.workspaces[w].workspace_id = w
          /\ s.workspaces[w].label \in Labels
          /\ s.workspaces[w].agent_status \in StatusOrNil
          /\ IsTokens(s.workspaces[w].tokens)
    /\ s.agents \in AgentLists

TypeOK ==
    /\ workspaces \in Partial(WorkspaceIDs, WorkspaceViews)
    /\ Open # {}
    /\ agents \in AgentLists
    /\ DOMAIN held = WorkspaceIDs
    /\ \A w \in WorkspaceIDs : IsTokens(held[w])
    /\ IsFiniteSet(late) /\ Cardinality(late) <= MaxLate
    /\ \A r \in late : IsWrite(r)
    /\ pc \in {"snapshot", "retry", "reconcile", "call", "wait", "stopped"}
    /\ cancelled \in BOOLEAN
    /\ expired \in BOOLEAN /\ (expired => pc \in {"reconcile", "call"})
    /\ sawFailure \in BOOLEAN
    /\ last \in [WorkspaceIDs -> {"none", "fresh", "stale"}]
    /\ pc \in {"reconcile", "call"} => IsSnapshot(snap) /\ todo \subseteq Seen
    /\ pc = "call" =>
          /\ DOMAIN request = {"workspace_id", "tokens", "reply"}
          /\ IsWrite(request)
          /\ request.workspace_id \in todo
          /\ request.reply \in {"pending", "ok", "error"}
    /\ clean \in BOOLEAN
    /\ calm \in BOOLEAN

\* f has exactly the keys of this plugin that want gives a value, with those.
Carries(f, want) ==
    LET keys == {k \in AllTokens : want[k] # Nil}
    IN  DOMAIN f \cap AllTokens = keys /\ \A k \in keys : f[k] = want[k]

\* Herdr holds for w what it should hold right now.
Synced(w) == Carries(held[w], Desired(View(w), agents))

\* A tick during which nothing failed, nobody changed anything and nobody was
\* signalled leaves every open workspace with the tokens it should have, no
\* matter what happened before it: a Herdr restart, an expiry, a clobbered key
\* or a write that was served late (controller.go:56-67).
OneTickHeals == pc = "wait" /\ clean => \A w \in Open : Synced(w)

\* After such a tick the controller has a record for every open workspace and
\* for no other (controller.go:97, 101-105).
TracksOpenWorkspaces == pc = "wait" /\ clean => Tracked = Open

\* Keys of this plugin that nobody else writes.
OwnKeys == AllTokens \ ForeignKeys

WantedMaps(w) ==
    {Desired([workspace_id |-> w, label |-> v.label, agent_status |-> v.agent_status], A) :
        v \in WorkspaceViews, A \in AgentLists}

\* f is none of this plugin's tokens, or all those of one view of w.
Coherent(w, f) ==
    \/ DOMAIN f \cap OwnKeys = {}
    \/ \E want \in WantedMaps(w) :
          \A k \in OwnKeys :
             IF want[k] = Nil THEN k \notin DOMAIN f
             ELSE k \in DOMAIN f /\ f[k] = want[k]

\* The tokens Herdr holds for a workspace are none, or all those of one view
\* of that workspace: never a mixture of two views, however writes fail, time
\* out, are served late or overtake one another.  In particular at most one
\* st_* token is shown (README: "Exactly one of the six st_* tokens is set").
CoherentTokens == \A w \in WorkspaceIDs : Coherent(w, held[w])

\* What makes OneTickHeals and TracksOpenWorkspaces inductive: in a clean loop
\* the snapshot still is what Herdr shows, except for the tokens of workspaces
\* that the loop has already dealt with, and those are right.
CleanLoop ==
    /\ ~cancelled /\ ~expired /\ late = {}
    /\ pc \notin {"retry", "stopped"}
    /\ pc \in {"reconcile", "call"} =>
          /\ Seen = Open /\ snap.agents = agents
          /\ \A w \in Open :
                /\ snap.workspaces[w].label = workspaces[w].label
                /\ snap.workspaces[w].agent_status = workspaces[w].agent_status
          /\ \A w \in Open \ todo : Synced(w) /\ last[w] # "none"
    /\ pc = "reconcile" => \A w \in todo : snap.workspaces[w].tokens = held[w]
    /\ pc = "call" =>
          /\ \A w \in todo \ {request.workspace_id} : snap.workspaces[w].tokens = held[w]
          /\ request.tokens = Want(request.workspace_id)
          /\ request.reply # "error"
          /\ request.reply = "ok" => Synced(request.workspace_id)
    /\ pc = "wait" => Tracked = Open /\ \A w \in Open : Synced(w)

HealInv == clean => CleanLoop

\* What makes CoherentTokens inductive: every write on its way, awaited or
\* not, is complete and of one view.
CompleteWrites ==
    /\ pc = "call" => request.tokens \in WantedMaps(request.workspace_id)
    /\ \A r \in late : r.tokens \in WantedMaps(r.workspace_id)

\* Some status token of w is shown.
Shown(w) == DOMAIN held[w] \cap StatusKeys # {}

\* Once a workspace shows its name the daemon never takes it away: no failure,
\* misread snapshot, abandoned or late write blanks the sidebar; only Herdr
\* itself, a TTL or another writer does (controller.go:90).
NeverBlanks ==
    [][\A w \in WorkspaceIDs : Shown(w) => Shown(w)' \/ Blanking]_vars

\* While nothing goes wrong and nobody changes anything, a workspace that shows
\* what it should is not disturbed, not even for a moment, by the writes that
\* renew it or by those for other workspaces (controller.go:78-99).
StaysRight ==
    [][clean /\ clean' => \A w \in Open : Synced(w) => Synced(w)']_vars

\* In such a tick a workspace is written only if its record is due or missing
\* or its tokens are not what they should be: the daemon does not answer its
\* own writes, each of which is an event, with further writes
\* (controller.go:56-67, 83-86).
WritesOnlyWhenNeeded ==
    [][\A w \in WorkspaceIDs : clean /\ Report(w) => last[w] # "fresh" \/ ~Synced(w)]_vars

\* What a daemon still has to go through, at most, once it is told to stop.
Ahead == [stopped |-> 0, retry |-> 1, snapshot |-> 2, wait |-> 3, reconcile |-> 4, call |-> 5]

\* A signal is not forgotten: every step after it leads the daemon closer to
\* its end, through the workspaces it has left or to a later stage of run; it
\* never goes round the loop again and sends no further write (daemon.go:80-133).
WindsDown ==
    [][cancelled /\ cancelled' =>
          \/ pc' = pc /\ todo' \subseteq todo
          \/ Ahead[pc'] < Ahead[pc]]_vars

\* The part of a map of tokens that is this plugin's alone.
Own(f) == [k \in {j \in DOMAIN f \cap OwnKeys : f[j] # Nil} |-> f[k]]

Truth(w) == IF w \in Open THEN Own(Desired(View(w), agents)) ELSE NoTokens

\* What the visits that Reconcile still owes and the writes on their way carry to w.
Readings(w) ==
    {Own(Want(v)) : v \in IF pc \in {"reconcile", "call"} THEN todo \cap {w} ELSE {}}
    \cup {Own(r.tokens) :
             r \in {q \in late \cup (IF pc = "call" THEN {request} ELSE {}) :
                     q.workspace_id = w}}

Sidebar == INSTANCE Publish WITH
    Workspaces <- WorkspaceIDs,
    Nothing    <- NoTokens,
    truth      <- [w \in WorkspaceIDs |-> Truth(w)],
    reading    <- [w \in WorkspaceIDs |-> Readings(w)],
    shown      <- [w \in WorkspaceIDs |-> Own(held[w])]

\* What a workspace shows was true when the plugin read it, for that workspace
\* and in whole, also when the write was served late or was one of a closed
\* workspace that has opened again (controller.go:78-104, client.go:82).
PublishesReadings == Sidebar!Spec

\* Once Herdr is healthy and nothing changes, a running daemon brings every
\* workspace to its tokens and keeps it there, although writes of outdated
\* views may be on their way and one may be served after a newer one.
Converges == calm ~> [](pc = "stopped" \/ \A w \in Open : Synced(w))

\* The writes of a tick share one deadline, and a slow one may leave no time
\* for those after it.  Nevertheless every workspace gets its turn, wherever
\* it stands in the list, if records last long enough: what has been written
\* is skipped in later ticks (daemon.go:129, controller.go:83).
NobodyStarves ==
    <>[](calm /\ \A w \in WorkspaceIDs : last[w] # "stale") =>
        <>[](pc = "stopped" \/ \A w \in Open : Synced(w))

\* Once Herdr is healthy and nothing changes the daemon stops writing, except to
\* refresh records that age: it does not answer its own writes with further
\* writes (daemon.go:111-126, controller.go:83-98).
Quiesces ==
    <>[](calm /\ \A w \in WorkspaceIDs : last[w] # "stale") => <>[](pc # "call")

\* A record that is due is renewed before the daemon is done with it.
HeartbeatRefreshes ==
    \A w \in WorkspaceIDs :
        calm /\ last[w] = "stale" ~> (last[w] # "stale" \/ cancelled)

\* A signal ends the daemon wherever it is: in a call, in a backoff, in a wait.
ShutsDown == cancelled ~> pc = "stopped"
=============================================================================
