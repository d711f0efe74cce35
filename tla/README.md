# A verification of herdr-tokens in TLA+

herdr-tokens is a plugin of Herdr, a terminal multiplexer. A daemon polls
Herdr for a snapshot of its workspaces and agents, derives a fixed set of
eight tokens per workspace (six `st_*` names, of which exactly one is set,
and two counts) and writes them back, so that a sidebar can show a
workspace's name in a colour that follows the status of its agent.

This directory models the program, checks the models with TLC, and proves
the most important results with TLAPS for every value of the constants.
Line numbers refer to `src/`.

## The system

| Component | State it keeps | Operations | Interacts with |
|---|---|---|---|
| `internal/derive` | none | `StatusToken`, `Desired` | called by the controller with one workspace and all agents of a snapshot |
| `internal/controller` | `last`: workspace -> time of the last successful write | `Reconcile`, `Invalidate`, `Tracked` | reads the snapshot, calls `ReportWorkspaceMetadata` through `Reporter` |
| `internal/daemon` (`run`) | `backoff`, `sawFailure`, the ticker | the poll loop | calls `Snapshot`, `Invalidate`, `Reconcile`; ends with its context |
| `internal/herdrapi` client | `seq`; one connection per call | `Snapshot`, `ReportWorkspaceMetadata`, `call` with a watcher goroutine | Herdr's Unix socket; deadline and cancellation of a context |
| `cmd/herdr-tokens` (`start`, `stop`, `daemon`) | `daemon.lock` (flock), `daemon.pid`, `daemon.log`, per socket and state directory | probe, release, spawn; lock, write PID, poll, remove, unlock; probe, read PID, signal | the operating system, hooks and terminals that run them |
| `herdr-plugin.toml` | none | runs `start` at startup and on every `pane.created` | Herdr |
| `internal/config` | `config.toml`, read once | `Load`, `Validate`, `HeartbeatAge` | gives the durations and the value mode |
| `internal/herdrapi/schema.go`, `cmd/schema-check` | none | `Validate` of a fixture against a closed schema | run by the hook and by tests |
| `.githooks/pre-commit` | temporary files | refuses commits of unsanitized fixtures | git, schema-check |
| `scripts/` | none | capture a session, sanitize it into a fixture | Herdr, the schema, the hook |
| Herdr (external) | workspaces, agents, tokens with a TTL | `session.snapshot`, `workspace.report_metadata` | users, agents, other plugins |

What is hard about it:

* **Stale knowledge.** The daemon sees Herdr once per tick. Herdr may restart,
  a TTL may run out, another writer may clear a key, a workspace may close
  between the snapshot and the write, or between two ticks.
* **Writes of unknown outcome.** A call that runs into its deadline may have
  been applied, may be applied later, over a newer write, or never. Its answer
  may be lost after it was applied.
* **Partial failure.** One `Reconcile` makes several calls under one deadline.
* **Processes.** Several hooks run `start` at once, `start` probes the lock,
  releases it and spawns; `stop` finds its target through a lock and a file
  that are two things; processes die at any step and PIDs are recycled.
* **Shutdown** in a call, in a backoff or in a wait.

What makes each component right:

* *derive*: one status token, counts that are absent when they are zero,
  a value or a null for every key the plugin owns.
* *controller and loop*: after one healthy tick Herdr holds what it should
  (whatever happened before), the tokens are never a mixture, failures blank
  nothing, the records follow the open workspaces, healthy tokens are
  refreshed and nothing else is rewritten, a signal ends the loop.
* *client*: every call ends, at the latest with its context, leaves no
  goroutine behind, and reports success only for what Herdr did.
* *lifecycle*: one poller per state directory, starts yield a daemon, a stop reaches
  the daemon and nobody else.
* *config*: accepted durations keep tokens alive.
* *schema, hook*: everything unreviewed is refused and named, a failure of the
  guard that shows refuses too, every bad file is reported.
* *sanitizer*: what it makes of an ordinary session can be committed, and
  nothing of its user is left in what is committed.

## The modules

```
Derive <---- TokenSync <---- MCTokenSync            (4 .cfg files)
                 |  ^------- TokenSyncProofs <---- PublishProofs
                 '- implements -> Publish
Config <---- TickLoop <----- MCTickLoop             (2 .cfg files)
                    ^------- TickLoopProofs
RpcCall - implements -> Request                     (1 .cfg file)
      ^--------------------- RpcCallProofs
Lifecycle <----------------- MCLifecycle            (4 .cfg files)
         ^------------------ LifecycleProofs
PreCommit, FixtureSchema <-- FixtureGuard <-- FixturePipeline
FixtureSchema <------------- Sanitize     <-- FixturePipeline
FixturePipeline, SampleFixture <------------- MCPreCommit   (1 .cfg file)
PreCommit <----------------- PreCommitProofs
FixtureGuard, PreCommitProofs <-- FixtureGuardProofs
```

An arrow `<--` is EXTENDS, `implements` is an INSTANCE with a refinement
mapping whose specification is checked as a property.

How the modules fit together: RpcCall justifies the outcomes that TokenSync
gives a call (through Request); TokenSync justifies that the only workspace of
TickLoop is visited once per round and written when it has to be; TickLoop
replaces TokenSync's "a record ages and a TTL ends at any moment" by a clock;
Lifecycle justifies that TokenSync has one daemon, and TokenSync's `ShutsDown`
that a signalled daemon of Lifecycle ends.

### Derive

`internal/derive/derive.go` as operators, and the two operators that meet its
result: `ObservedMatchesDesired` (controller.go:133) and `Merge`, Herdr's side
of `report_metadata`. The code's two shapes of token map stay apart: a wanted
map is total over `AllTokens` and holds `Nil` for "clear", an observed map has
exactly the keys that are set. Labels are opaque. A count stays a number,
since `strconv.Itoa` is injective and only counts are written under the two
count keys.

### TokenSync

The daemon (`daemon.run`, `Reconcile`, both RPCs) in every interleaving with
Herdr.

| Variable | Code |
|---|---|
| `pc` | where `run` is: `snapshot` (90-92), `retry` (99-103), `reconcile` (the loop of `Reconcile`), `call` (inside one report), `wait` (135-139), `stopped` |
| `cancelled`, `expired` | `ctx` and `writeCtx` are done |
| `sawFailure`, `last` | the variables of those names; a record is `none`, `fresh` or `stale` (`now - written` against `HeartbeatAge`) |
| `snap`, `todo`, `request` | the snapshot in hand, the workspaces the loop has not visited, the call in progress with its outcome so far |
| `workspaces`, `agents`, `held` | Herdr's state; `held` are the tokens it holds per workspace |
| `late` | requests whose client gave up and that Herdr may still apply |
| `clean`, `calm` | history: nothing has gone wrong since the last snapshot; environment: nothing goes wrong any more |

Each branch of the code is an action: `SnapshotOk` (with the invalidation),
`SnapshotFails` (dial, read, decode, and the zero workspaces of
`ErrEmptySnapshot`), `Retry`, `Tick`, `Return`; `Skip`, `Report`,
`ReportReturns`, `ReportErrors`, `ReportFails`, `ReportOnDeadCtx`,
`ReportAbandoned` (deadline or cancel), `ReportLost` (the connection breaks, or
the answer cannot be decoded, under a live context), `EndReconcile` (with the
prune). `ReportJustInTime`, in instances with `SlowHerdr`, is an answer so late
that no time is left for the other workspaces; it may happen for ever. Herdr
`Serve`s a request in a step of its own, so an answer can be lost after the
write was applied.
`Disturbance` is everything that goes wrong or changes around the daemon:
users, agents, restarts, expiries, other writers, failures, deadlines, signals,
`kill -9` and new daemons. `Settle` ends the disturbances for good; it may
come at any moment or never, so safety is checked with and without it.

Abstractions: durations (records age, contexts end and timers fire at any
moment, which allows more than any clock would); the order of workspaces in a
snapshot (any); the doubling of the backoff. Two daemons at once are kept out
here by the lock, which is the subject of Lifecycle. Herdr's TTL removes all
tokens of a workspace together, because every write sets the TTL of all keys.

### Publish

What a reader of the sidebar is promised, without daemon, records, ticks and
requests: a workspace shows nothing or the tokens of a view of it that was
read while it was true. `Sidebar` in TokenSync maps it: `truth` is `Desired`
of Herdr's present state; `reading` is what the visits that `Reconcile` still
owes and the requests on their way (late ones too) carry; `shown` is what Herdr
holds under the keys nobody else writes.

### Config and TickLoop

`Config` is config.go: `Default`, `Validate`, `HeartbeatAge`, and `Load` as a
function of what the file is (missing, unreadable, decoded with fields that are
absent or no durations). Durations are whole clock units; `Quarter` is the
number of units in 250ms.

`TickLoop` is `run` with a clock, for one workspace: `due` and `pending` are the
ticker with its one-slot channel, `left` counts to the deadline of the call or
to the end of the backoff, `age` is the time since the `now` that a record
holds, `ttl` is what Herdr has left of the tokens. `Elapse` lets one unit pass
and never passes a deadline the daemon waits for. A call takes any time up to
its deadline; the daemon's own computing takes none; the other workspaces of a
`Reconcile` are the time before and after the visit of this one. `misses`,
`slow`, `fails` and `written` are history. Herdr stays up and nobody else
writes here: those faults are TokenSync's.

### RpcCall and Request

One `Client.call`: the caller's goroutine from dial to the deferred closes,
the watcher goroutine, the deadline of the connection that both of them set,
the context, and a Herdr that serves, refuses, answers in pieces, closes or
says nothing. The context and the connection's deadline are two timers that
can be seen in either order; a deadline may pass while there is something to
read; an answer may be cut off before or after its last brace. `wants`
distinguishes the two callers (`Snapshot` looks at the result, a write does not).

`Request` is what the rest of the program takes a call to be: served at most
once, also after its sender gave up, and never successful without having been
served.

### PreCommit, FixtureSchema and FixtureGuard

`PreCommit` is the hook command by command: preflight, `mktemp`, `git diff`,
`rev-parse`, `go build`, `id`, and per staged file `git show`, the NUL-byte
guard, the account-name scan and the schema checker. Each can fail, and the
action says what the hook then does (`Aborts`: `set -e` or `exit 1`;
`SetupFails`: `infra_fail` and `exit 1`; `Unverified`: `infra_fail` and
`continue`). A staged file is what those commands can tell of it.

Four failures do not show, and the hook goes on as after a success. `unseen`
notes each with its file:

* `list`: the `read` of the list of files fails (line 239); the loop ends as at
  the end of the list (`ListCutShort`).
* `scan`: the `grep` for the account name does not run and shows status 1,
  which lines 303-306 take for "no match" (`NameMissed`). Under `bash`, also as
  `sh`, that happens when the second of its redirections fails; `dash` shows 2.
* `hits`: the `read` of what that `grep` found fails (line 307).
* `report`: the `read` of the violations fails (line 343), or the checker dies
  silently with status 1 and so does the `grep -c` that should count its lines,
  which leaves an earlier count in place (`ReportCutShort`).

The redirection of a whole loop (`done <file`, lines 307, 346, 354) and that of
`: >failed` end the hook in both shells when they fail, which is `Aborts`.

`FixtureSchema` is schema.go: the field checkers, the twelve object kinds and
`ValidateFixture`, over JSON values whose strings are representatives of their
shape. It starts from the decoded document: of a key that occurs twice
`json.Unmarshal` keeps the last value, and the other is outside the model.
A document is a function from its places (the sequence of keys that
leads to each) to the type found there and, for a string, its text; the schema
is a function from places to rules, with `[]` for every index. The recursion of
`validateObject` through both becomes quantification over places: a place is
visited if everything above it fits. So documents have any depth and size and
nothing recurses, which is what lets the schema be proved about.

`FixtureGuard` puts the two together. A place is unreviewed if the schema has no
field for it or it holds a private text outside the few descriptive fields.
Nothing is assumed of a document but that it is a tree.

### Sanitize and FixturePipeline

`Sanitize` is scripts/sanitize.py as a function on documents, pass by pass in
the order of the script: the replacements in the text, `scrub_paths` and
`scrub_ids` at any depth, the titles of three collections, the labels. Texts
are representatives: of the account name, of a project, of paths under /Users,
under /home and after a tilde, alone and inside a sentence. The tables say what
the replacements make of each, the incomplete ones included: a path under /home
keeps its project and is left to the schema, `~/my shop` is cut at the blank.
A placeholder that is numbered is the first of its shape, but for the labels of
workspaces: the 27th is no letter, and the schema refuses it, so a session of
27 workspaces cannot be captured. Tokens of workspaces are not touched; those
that hold labels are left to the schema as well, which refuses them on every
capture of a session whose daemon writes labels.

`FixturePipeline` puts the script before the hook. `Captures` are of ordinary
sessions, for which a commit must go through; `OddCaptures` have any text in any
field, for which it must not go through with anything of the user in it.

### Lifecycle

`start`, `stop` and `daemon` system call by system call: `pc[p]` is the next
step of process `p`. A process is its PID; a free PID may be taken by
an unrelated program or by the next process. `lock` and `pidfile` exist per
state directory. `DaemonTruncate` and `DaemonWrite` are the two halves of
`os.WriteFile`; `DaemonUnhook`, `DaemonRemove` and `DaemonUnlock` are the three
defers in their order; the second ignores its error, and `DaemonRemoveFails`
leaves the PID file behind. `StopSignal` delivers SIGTERM to whatever process has
the PID: it cancels a daemon between `NotifyContext` and `stopSignals` and
kills anything else. `Fails` covers the error returns, `Crash` covers
`kill -9` and power loss at every step. `Shells` run their commands one
after the other: hooks, plugin actions, terminals; `Scripts` is the set of
assignments of commands to shells an instance starts from. The lock is per
state directory (main.go:32-37), so what is said of one poller is said of each
directory.

The poll loop is one step here (`daemon_run`); that it ends after a signal is
`ShutsDown` of TokenSync.

## What is checked

All runs set `CHECK_DEADLOCK FALSE`: the daemon, a call, the commands and the
hook really end.

### Runs that pass

| Run | Instance | Properties |
|---|---|---|
| `TwoWorkspaces` | 2 workspaces (symmetric), statuses none and `blocked`, no late writes; 425 thousand states | `TypeOK`, `OneTickHeals`, `TracksOpenWorkspaces`, `CoherentTokens`, `NeverBlanks`, `StaysRight`, `WritesOnlyWhenNeeded`, `WindsDown`, `PublishesReadings` |
| `ForeignWriter` | 1 workspace, 1 agent, mode `status`, somebody else writes `st_idle`, 1 late write; 2 million states | `OneTickHeals`, `CoherentTokens` |
| `Settles` | 2 workspaces that open and close, 1 late write, `SlowHerdr`; 107 thousand states | `NobodyStarves`, `Quiesces`, `ShutsDown` |
| `Overtakes` | 1 workspace with 2 labels, statuses none and `blocked`, 1 late write; 110 thousand states | `Converges`, `HeartbeatRefreshes` |
| `Races` | 5 PIDs, 3 shells (`start`; `start, stop`; `stop, start`), 2 faults, 1 unrelated process; 51 thousand states | `TypeOK`, `OnePoller`, `PidFileNamesDaemon`, `StartsAreNotLost` |
| `StartsAndStops` | 5 PIDs; 3 shells that start, or one that starts and one that starts and stops twice; 83 thousand states | `StartsYieldDaemon`, `StopEndsDaemon` |
| `Ticks` | clock unit 125ms; 17 configuration files, 4 of which run: poll 500ms with TTL 1.5s, 2.25s, 3.75s, poll 750ms with TTL 2.25s; 2.2 million states | `HealthyAlive`, `PromptAlive`, `OneMissAlive`, `RetriesInTime` |
| `Calls` | one call, no constants; 6 thousand states | `CallEnds`, `WatcherEnds`, `ActsAsRequest` |
| `Commits` | every single edit of a fixture that holds every object kind (a value replaced by one of 6, a field added, a field dropped), three further edits, every pair of 7 files with odd contents, captures of ordinary sessions, and a capture with one of 14 texts at each of its leaves or in a new field; 189 thousand states | `FailClosed`, `NamesEveryBadFile`, `NothingUnreviewedPasses`, `LinesNameTheUnreviewed`, `RecaptureIsCommitted`, `NothingLiveIsCommitted` |

* `OneTickHeals`: a tick without failure or change leaves every open
  workspace with the right tokens, whatever state it began in. This is the
  claim of controller.go:56-67. It fails when the skip trusts memory.
* `CoherentTokens`: what Herdr holds for a workspace is nothing or all the
  tokens of one view of it, never a mixture, even when an abandoned
  write lands on top of a newer one. This needs every write to be complete
  (derive.go:18-19): writing only the differences, or leaving out the nulls,
  breaks it.
* `PublishesReadings` (TokenSync implements Publish): in addition, that view
  was true when the plugin read it. Coherence allows any label and status a
  workspace could ever have; this allows the ones it had.
* `TracksOpenWorkspaces`: records are those of the open workspaces.
* `NeverBlanks`: only Herdr, a TTL or another writer ever takes a name away.
* `StaysRight`: while nothing goes wrong and nobody changes anything, a
  workspace that shows what it should is not disturbed for a moment, neither by
  the write that renews it nor by those for others. `OneTickHeals` looks at the
  end of a tick, this at every step of it.
* `WritesOnlyWhenNeeded`: in such a tick a write means that a record is due or
  missing or that the tokens are wrong. Each write is an event; a daemon that
  saw a difference where there is none would answer its own writes forever.
* `WindsDown`: after a signal every step leads towards the end, through the
  workspaces `Reconcile` has left (whose reports then fail at the dial) or to a
  later stage of `run`. It is the safety half of `ShutsDown`: with fairness of
  the daemon it leaves no way to go on.
* `Converges`: once the surroundings are calm, the tokens become right and
  remain right. The workspace is renamed and blocked before, writes of its
  older views are abandoned, and one of them may be applied after a newer
  write and after the calm began: the next tick has to see that.
* `NobodyStarves`: all writes of a tick share one deadline (daemon.go:129), so a
  slow write makes those after it fail. Even if the deadline passes in every
  tick for ever, each workspace gets its tokens, since a tick skips what an
  earlier one has written. It needs records that stop becoming due: with a
  Herdr so slow that the first workspaces are due again before the last one had
  its turn, the last one may starve.
* `Quiesces`: then the daemon stops writing, unless records become due.
* `HeartbeatRefreshes`: in calm surroundings without `SlowHerdr` a due record
  is renewed.
* `ShutsDown`: a signal ends the daemon, in a call, a backoff or a wait.
* `OnePoller`, `PidFileNamesDaemon`, `StartsYieldDaemon`, `StopEndsDaemon`:
  as named, under every race of commands.
* `StartsAreNotLost`: `start` and a spawned daemon step aside for whoever
  holds the lock, and that may be another start's probe. When the last
  process that was going to poll a directory gives up, then something failed or
  was killed, a `stop` signalled it, or the lock belonged to a `stop` or to a
  daemon on its way out: starts do not cancel one another.
* `PromptAlive`, `HealthyAlive`, `OneMissAlive`: what a configuration buys.
  Without a failed attempt the tokens of an acknowledged write never
  expire: under every accepted configuration if no call takes more than half a
  poll interval, and from `ttl >= 4.5 * poll_interval` whatever the calls take.
  From 7.5 one failed attempt is survived too. The default has 30. The
  thresholds come from the clock, not from a comment: a skip may leave a record
  that is one unit younger than the heartbeat age, and a round of
  snapshot and writes may take two intervals and lose a tick.
* `RetriesInTime`: the backoff doubles from the base to the cap and starts over
  after a success.
* `CallEnds`, `WatcherEnds`: a call ends with its context and its watcher with
  the call, wherever Herdr stopped and on whatever path it returned.
* `ActsAsRequest` (RpcCall implements Request): no success without service,
  though a cut-off answer is decoded when the stream ends.
* `FailClosed`: a commit goes through only with clean fixtures, whichever
  commands fail, except for what exactly a failure in `unseen` hides: the
  account name in the one file whose scan it was, the violations of one
  file, or the files after a point of the list. pre-commit:45-63 promises it
  without exception; the model shows which the exceptions are.
  `NamesEveryBadFile`: without a failure exactly the bad files are named, all
  of them.
* `NothingUnreviewedPasses`: an unknown field or a private text is refused at
  any depth, unless a failing `read` kept the hook from the file or from what
  the checker printed for it. The tokens map is the part that was once open
  (schema.go:67-74). `LinesNameTheUnreviewed`: without a failure of the hook
  each such place is named, or what it is a part of.
* `RecaptureIsCommitted`: the hook tells its user to capture again
  (pre-commit:145-150), and that helps: with or without titles, agent
  sessions and tokens of the mode `status` the schema accepts what the script
  makes of the session.
* `NothingLiveIsCommitted`: script and schema together. Whatever text is in
  whatever field of a capture, known to the schema or not, a committed fixture
  has no account name and no project path under /Users or a tilde, and other
  texts of the machine only in the descriptive fields. Neither of the two does
  it alone: the script leaves paths under /home and labels in tokens, the schema
  does not look into descriptive fields.

Why the bounds are enough. With two workspaces one write can fail and another
succeed in one tick, one can close while the other is written, and a deadline
can fall between them; a third only repeats this, and the proofs cover every
number. Late writes are left to `ForeignWriter`, `Settles` and `Overtakes`: a
late write touches one workspace only, and one is enough for an old view to
overtake a newer one if the workspace has two views, as in `ForeignWriter` and
`Overtakes`. `Settles` needs two workspaces instead, for one to take the
other's time. `PublishesReadings` is checked without late
writes, and proved with any number of them. One agent is enough for both
counts to appear and to vanish. Two statuses (one
of them none) are enough for a name to move from one `st_*` key to another;
which key a status gets is `StatusToken`, the same operator in every instance.
In Lifecycle three shells with five PIDs allow two commands and a spawned
daemon to meet at the lock while a crashed daemon's PID is taken by somebody
else. In `Ticks` two clock units per 250ms let a tick fall just before and just
after a deadline and the heartbeat age differ from a multiple of the
interval; `PollBound` keeps the default and other long intervals from running
(they are loaded), which the proofs do not need. `fails` is capped at 8, past
the five doublings to the cap, `misses` at 2, the first number no
property speaks of. In `Commits` violations of different places are found
independently, so single edits reach every checker; the pairs are for the
loop over files. The passes of the sanitizer treat places one by one too, so one
odd text in a capture that holds every object kind reaches all of them.

### Fairness

`Fairness` of TokenSync: weak fairness of the daemon's own steps (its
goroutine is scheduled, its timers fire), of Herdr serving a request of a
connected client, and of the end of late requests (served or dropped). Nothing
makes records age, contexts end, users act or failures stop; the properties
that need quiet ask for `calm`, in which only records age and, with `SlowHerdr`,
a deadline may still pass after an answer. `Daemon` as a whole is weakly fair, which
says only that the loop does not stand still; choices inside it, such as a
pending tick against `ctx.Done()`, are finite in number: a tick under a done
context leads to a snapshot that cannot be dialled and to the backoff, whose
`select` then has only one case. `FairSpec` of Lifecycle: every process is
scheduled and every shell goes on to its next command. `Fairness` of RpcCall:
both goroutines are scheduled, a dial under a done context fails, the
context's deadline and the connection's arrive. Herdr owes
nothing, and a dial or a write may block until its deadline.

### Runs that are expected to fail

Each shows a disagreement between the code and what it says of itself; see
"findings" in PROJECT.json.

| Run | What is violated | How |
|---|---|---|
| `StrayLock` | "a stale PID file, if any, is ignored and nothing is signalled" (main.go:224-225) | a daemon is killed, its PID recycled, a hook's `start` probes the lock, `stop` meets the probe, reads the stale file and signals a stranger |
| `RestartRace` | "take effect only on the next `herdr-tokens stop && herdr-tokens start`" (README.md:196-197) | `stop` does not wait; `start` finds the dying daemon's lock and leaves; then there is no daemon |
| `MissedTick` | "so a single missed tick can never expire a token" (README.md:189), also config.go:59-60 | poll 500ms, TTL 1.5s: the tick after a write comes 500ms later, its snapshot fails after 250ms, the backoff takes 250ms, the snapshot of the retry 250ms, the writes before this workspace 250ms, and the TTL is over; every call was prompt |

`RestartRace` is checked under fairness; the daemon does end and nobody
starts another. What `StrayLock` shows of `stop` is also true of a spawned
daemon that meets a probe (main.go:107-113): it "quietly step[s] aside" for a
daemon that is not there. Among starts alone some child still wins
(`StartsYieldDaemon`); with a `stop` that finds nothing to stop none may be left.

### Mutants

Every property of a passing run is shown to depend on the code: an operator
marked "mutation" next to the one it stands in for changes it as a plausible
bug would (skip from memory, no nulls, no prune, a flag never reset, a
`select` without `ctx`, the lock not released before spawning, defers in the
wrong order, a record dated at the answer, a backoff that is not reset, an
answer nobody looks at, an exit status nobody looks at, a comparison that
misses a key that should be absent, a `select` that retries after a signal, a schema that is
open, a walk that ends at the first violation, a skip that never happens, paths
that are scrubbed only in fields known to hold one, titles that are scrubbed in
one collection only), and TLC then finds the property violated.

## What is proved

TokenSyncProofs, from `NilAssumption`, `ValueModeAssumption` and
`TokenSyncAssumption` (`Nil` and `Foreign` are distinct from other values, the
agents are finite, `MaxLate` is a number):

* `TypeCorrect`. The step that matters is that a write covers exactly
  `AllTokens` with values of the right kind; it rests on lemmas that say what
  `Desired` holds under each key (`DesiredByKey`) and what `Merge` returns
  (`MergeByKey`).
* `Coherence`. `CoherentTokens` alone is not inductive: a write on its way
  could be anything. `CompleteWrites` adds that every request, awaited or
  late, is `Desired` of some view of its workspace. Applying such a write makes
  the workspace coherent (`ApplyCoherent`); everything else removes all of the
  plugin's own keys at once or touches none (`KeepsCoherent`).
* `NamesStay` uses the same fact: a complete write shows exactly one status
  token (`OneStatusToken`).
* `Healing` and `Tracking`. `HealInv` says what a tick that is still clean has
  done so far: the snapshot agrees with Herdr, workspaces behind the loop are
  right and recorded, the others still hold the tokens the snapshot shows, and
  the request in progress is what its workspace should have. A skip preserves
  it because the observed tokens match (`MatchMeansCarries`), a write because
  `Merge` of a complete write gives it what it wants (`MergeCarries`).
* `SyncLasts`, `NeededWrites`: from `HealInv` as well. In a clean tick the only
  step that touches the tokens of an open workspace is a complete write of the
  view that is true now (`CleanSteps`), and a visit that neither finds the
  record due nor the observed tokens wrong skips.
* `SignalWindsDown`: each action under a cancelled context, with the stages
  ordered by `Ahead`.

LifecycleProofs, from `LifecycleAssumption`: `LockAndPidFile` proves `Inv`
(`TypeOK`, `LockInv`, `PidInv`). `LockInv` relates the lock and the program
counter both ways, which `OnePoller` needs; `PidInv` starts at the write of the
PID, before `PidFileNamesDaemon` applies. `MutualExclusion`, `PidFileIsTrue`
and `LifecycleTypes` follow. They hold for any number of processes, state
directories, commands, crashes and recycled PIDs. `NoStartIsLost` proves
`StartsAreNotLost` from the same invariant and `SignalledInv` (only a daemon
that has called `NotifyContext` remembers a signal): who holds a lock is,
by `LockInv`, at a step that either comes to poll or is on its way out
(`StepAsideLeavesOne`), a probe that lets go spawns, and no other process can
move the last one that comes except by a signal or a fault.

PublishProofs, on top of TokenSyncProofs: `ImplementsPublish`. The initial
states map to initial states; `ReadsTruth` shows, action by action, that
whatever is on its way afterwards was on its way before or is true now (only
`SnapshotOk` adds anything, and it reads Herdr's present state); `TruthStays`
and `ShowsReading` that what a workspace shows changes only by a write on its
way to it, while its truth stays, or by losing everything. `CompleteWrites` of
Coherence is what makes a write replace all of a workspace's own tokens
(`OwnOfWrite`).

TickLoopProofs, from `QuarterAssumption` and `FilesAssumption` (the durations
of a decoded file are integers): `BudgetHolds` proves `IInv`. `LoadIsValid`
says that what `Load` returns obeys `Validate`; `Lasts` that record and TTL run
down together (`age + ttl >= TTL`, since the record is dated before the
write); `Bound` and `PromptBound` say, place by place in the loop, how old the
record can be there: at most `H - 1` at the last skip, one interval for
each deadline since, two more for a failed attempt. `BudgetSuffices` compares
the largest of them with the TTL. `HealthyLasts`, `PromptLasts` and
`OneMissLasts` hold for every configuration file and every clock unit that is a
whole number of milliseconds (`MillisecondAssumption`: Herdr is told the TTL in
milliseconds, controller.go:88, so a finer clock would need the rounding). `RetriesAreInTime` has an invariant of its own:
the backoff is a function of the failures in a row (`Doubled`), whatever
happened before the last success.

PreCommitProofs, from `PreCommitAssumption` (what can be staged are lists of
files), for any schema: `HookTypes` and `CommitsAreClean`, which is `FailClosed`
with its exceptions, for any number of failures of either kind. The invariant
behind it, `ScanInv`, says that while nothing is noted as failed every file
before the one at hand passes (is clean as far as no unseen failure hides it),
and the file at hand has passed the checks it has behind it; a check that is
skipped after a failure that shows is one after `failed` was set, one that is
skipped without is in `unseen`.
`BadFilesAreNamed` has the counterpart: while no command has failed, the files
named are exactly the bad ones behind the loop, and the one at hand if its
account name was found. Its converse half, nothing named without a reason,
needs that the account name is known whenever `id` did not fail.

FixtureGuardProofs, on top of PreCommitProofs, from `GuardAssumption` (documents
are trees, the checker is `ValidateFixture`), for documents of any depth and
size:

* `NothingUnreviewedIsCommitted` combines `CommitsAreClean` with two facts about
  the schema. `SchemaKeepsPrivateOut`: every rule of the schema that accepts the
  private text is that of a descriptive field, kind of object by kind of object
  (`KindsKeep`), for the tokens by their closed values. `WalkReports`: a place
  that does not fit is reported, or the first place on its way that does not
  fit is (`LeastElement`).
* `TheUnreviewedIsNamed`: while no command has failed, all violations of the
  files behind the loop are among the lines (`SeenInv`), with the invariant of
  PreCommitProofs.

RpcCallProofs: `CallsAreRequests`. A call has no result until it unwinds, what
it has read its peer has sent, and the peer answers `ok` or `bare` only after
it has served the request; then `Decode` succeeds only for a served request.

Every invariant, action property and refinement of a passing run is proved for
every value of the constants, but for `RecaptureIsCommitted` and
`NothingLiveIsCommitted`: they compare tables of texts, and TLC goes through
all of those. Only model-checked is also what needs fairness (`Converges`,
`NobodyStarves`, `Quiesces`, `HeartbeatRefreshes`, `ShutsDown`,
`StartsYieldDaemon`, `StopEndsDaemon`, `CallEnds`, `WatcherEnds`): liveness and
`ENABLED` are out of the prover's reach. The disagreements are counterexamples
of TLC.

## What is not modelled, and the plan

Done: Derive, TokenSync, Lifecycle; TickLoop with Config; Publish and its
refinement; RpcCall and Request; FixtureSchema and PreCommit; their proofs;
Sanitize and FixturePipeline.

Not modelled:

* `preview`, `version`, `validate-config` and logging: no state of their own.
* The build and CI: they invoke the Go tool chain.
* What Herdr does with an empty token value (controller.go:117-119): not in
  this repository, so workspaces have labels that Herdr reports back.
* Daemons of different state directories: a hook with HERDR_PLUGIN_STATE_DIR and
  a terminal without it use two locks and can both poll one socket.
* The bytes of a fixture: a value under a key that occurs twice is committed
  without the schema having seen it.
* Which schema checks: the checker is built from the working tree rather than
  from the index.

What could come next:

1. A refinement from TickLoop's ages and TTL to TokenSync's fresh and stale
   records (age < H), so that one model has both every fault and the clock.
2. The thresholds of TickLoop for any number of failed attempts: `OneMissLasts`
   is the case of one, `RetriesAreInTime` bounds what each further one costs.
3. `RecaptureIsCommitted` as a theorem, for captures of any size.
