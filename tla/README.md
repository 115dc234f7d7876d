# TLA+ models of the agent harness

This directory holds a formal model of the harness in `src/src/harness`: how a
Run is created, queued, executed, paused for an approval, cancelled and ended
when API processes, worker processes, Redis and PostgreSQL each fail at their
own time; the control loops that deploy, evaluate, preview and score Agents; and
the services around the Runs. Modules are checked with TLC on small instances;
theorems in the `*Proofs` modules are checked with TLAPS for every value of the
constants. Paths below are relative to `src/src/harness`.

## 1. The system

The harness runs agents for several tenants. A request becomes a **Run**: a
row in PostgreSQL with a status and a fencing token, a payload in a Redis
queue and a growing log of events. Processes share nothing else: several API
processes, several worker processes, and the maintenance loops both kinds of
process run.

| component | state | operations | interacts with |
|---|---|---|---|
| run state machine (`core/state_machine.py`, `core/models.py`) | status, fencing token | `transition`, `compare_and_set` | every writer of a Run |
| run queue (`storage/redis.py`) | pending SET, ready and processing ZSETs, receipt HASH, receipts dict per process | enqueue, dequeue, acknowledge, retry, extend_lease | API enqueues, workers take |
| worker (`worker/main.py`, `worker/orchestrator.py`) | one task per delivery: pc, the Run last read, sandbox, stream | claim or reclaim, provision, stream, settle, fail, time out, cancel | row, log, quota, queue, runtime |
| run service (`application/runs.py`) | none of its own | create, cancel | row, queue, quota, log |
| stuck-run reaper (`reliability/controller.py`) | incidents | reap, finalize, repair | row, log, quota |
| approvals (`application/approvals.py`, `runtime/sdk_tool_gate.py`) | approval rows, waiters per process | request, wait, decide, expire, cancel_pending, reap_expired | row, log, queue, the hook in the runtime |
| quota ledger (`quota/service.py`, `storage/quota_repository.py`) | reserved and committed amounts per scope, reservations | admit, reserve, commit, release, reap | create, worker, tool gate |
| event log (`application/events.py`, `agui/routes.py`, `triggers/api.py`, `triggers/a2a.py`) | events by (run, sequence); a cursor per connection | append, list_after, stream, replay, subscribe | every service, SSE clients |
| agent runtime (`runtime/`) | SDK stream, subagents, tools, the gate's memory of a Run | receive, yield, authorize a call, resolve tools | worker, policy, approvals, quota |
| sandboxes (`sandbox/`) | warm sandboxes, locks, slots, pods; sessions of the CLI | lease, provision, clean, evict, reap, read, collect | worker, providers' APIs |
| files (`application/artifacts.py`, `workspaces.py`, `input_artifacts.py`) | objects, rows, quota | stage, publish, archive, restore | worker, object store |
| control plane (`deployments/`, `evals/`, `studio/preview_*`, `quality/`, `promotion.py`) | a row with status and token and a leased task per job; environments, routes, gates | create, cancel, reconcile, expire, promote, roll back | maintenance loops, quota, queue |
| threads and triggers (`agui/`, `triggers/`) | bindings of threads, keys, schedules | post a message, switch a version, invoke, dispatch, page | sessions, runs, clients |
| Studio (`studio/`) | drafts, versions, catalog, preflight | save, publish, read with upgrade, check | registry, sandboxes |
| memory, knowledge, sharing, governance, auth, lifecycle | rows edited by people and used by Runs | edit, confirm, synchronise, search, lease, rotate, erase | Runs, administrators |

What is hard here, and what makes each part correct:

* **Two executions of one Run.** A lease lapses while its worker is alive. The
  row must follow its state machine and the log must show one end.
* **Read, then write.** Worker, cancel request, reaper and decision read the
  row in one step and write it in another; whoever loses the compare-and-set
  has to draw the right conclusion from it.
* **Several writes per operation.** Row, event, quota and queue are written one
  after the other; a crash falls between any two of them.
* **Calls that arrive late.** Acknowledge, retry and heartbeat of a lease that
  has already lapsed.
* **Following a log.** Clients poll a log that others append to, lose their
  connection in the middle of an event and come back with the id of the last
  frame; they must miss nothing.
* **Waiting.** A paused Run waits for a person, a hook, a TTL or a sweep; it
  must not wait for ever.
* **Rights that end.** A Run uses a secret, a source or a token for a while;
  what counts is the right at the moment of use.
* **Jobs without a lease that lasts.** A controller may go on beside its
  successor, with the row it read before.

## 2. Modules

| module | what it is |
|---|---|
| `LeaseQueue` | what the queue promises: absent, visible, leased to one process |
| `RunQueue`, `RunQueueProofs` | the Redis scripts; refines `LeaseQueue`; TLAPS proofs |
| `RunExecution` | one Run: statuses and their transition table, worker slots, cancel requests, reaper; uses `LeaseQueue` for the task |
| `RunApproval` | extends `RunExecution` with approvals, hooks, decisions and expiry |
| `RunExecutionProofs` | TLAPS proofs about both |
| `QuotaLedger`, `QuotaLedgerProofs` | quota reservations: the repository's transactions and the service calls between them; TLAPS proofs |
| `EventLog` | the events of one Run and the streams that follow them |
| `DurableJob` | what control-plane jobs share: row, token, leased task (an INSTANCE of `LeaseQueue`), reservation, controllers and clients |
| `Previews`, `Evals`, `Deployments`, `Quality` | the four kinds of durable job |
| `ControlPlane`, `ControlPlaneProofs` | composes them: control loops, requests, faults, fairness; TLAPS proofs |
| `Sandboxes`, `Triggers`, `Accounts`, `DataLifecycle`, `MemoryBank`, `Knowledge`, `Governance`, `RuntimeStream`, `ToolGate`, `Studio`, `A2ATasks`, `Threads`, `ToolSetup`, `RunFiles`, `RemoteCli`, `Incidents`, `History`, `EvalSuite`, `Promotion`, `WorkloadTokens` | one service or a few that share rows, described below |
| `Services` | composes them: a behaviour is of one service |
| `ServicesProofs`, `StudioProofs`, `OperationsProofs` | TLAPS proofs about the services: rights, governance, erasure, the streams of a turn and what a thread shows; what people edit and the tasks of A2A; what Runs leave behind and what is promoted |
| `RuntimeProofs` | the inductive invariants of `RuntimeStream`, `RemoteCli` and `History`, for `ServicesProofs` |
| `MC_*` | definitions for TLC: symmetry, bounds as constraints, values of constants |

Definitions named as mutants in a comment are deliberately wrong variants of
the definition that follows them; `PROJECT.json` names the property that
notices each of them. No specification uses them.

### RunQueue

Each Lua script is one action, because Redis runs it atomically. The client
side is separate: `SendFinal` and `SendExtend` take the receipt out of the
process's dict (or keep it, for the heartbeat) and put a call in flight;
`Acknowledge`, `Retry` and `ExtendLease` are the scripts, run in any order;
`CallLost` loses a call; `DequeueReplyLost` leases a task to nobody. Time is
abstract: a deadline may pass at any moment (`LeaseExpires`,
`DelayElapses`), so nothing depends on the speed of the heartbeat.

### RunExecution

The variables are the row, the terminal events, the started subagents without
a terminal event, one flag for the quota, the task's lease and the program
counters of the actors.

* A **slot** is a worker process with one handler. Its program counters follow
  `_execute`: `start` (first read), `claim` (`_move(PROVISIONING)` or
  `_reclaim`), `provision`, `begin` (`_move(RUNNING)`), `stream` and `handle`
  (the loop over runtime events), then one of the ends: `settle`, `timeout`
  (which also takes the cancellation poll), `result`, `unexpected` and
  `conflict`. `finish` and `emit` are the two halves of `_move` to a terminal
  status. `leave` is the `finally` block with the release of the quota; `ack`
  and `retry` are what `worker_loop` does with a return and an exception.
* A **cancel request** follows `RunService.cancel`, including its use of the
  status it read first.
* The **reaper** follows `_reap_run` and `_finalize_run`. Any active Run may
  be older than its threshold, so `ReapRead` is not timed.
* **Faults** (a crash, a failed write, a failed heartbeat, a lost queue call)
  are counted, up to `MaxFaults`, so that properties can tell fault-free
  behaviours apart.

A read and the steps that depend only on it are one action; a read and a later
write are two. A compare-and-set that fails and the read that follows it are
one action: the token only grows, so it would fail at the later moment too.

### RunApproval

`Inline` chooses between the two ways a tool call is approved: by the tool
gate's hook, which waits inside the running execution (production), or by the
orchestrator itself, which ends the execution (a runtime without a gate). An
actor is a hook, a decision request, or the sweep of expired approvals; all
three share the steps of `_expire`, `_ensure_inline_run_resumed` and `_move`.
Closing the stream ends the hooks of that execution before `_execute` goes on,
except after an exception in the loop's own body, which leaves them to be
closed later (`MayStep`). A hook whose pause fails stays registered
(`leaked`). Whether an expiry lets the Run go on or rejects it depends on the
process that notices it (`HasLocalWaiter`).

### QuotaLedger

`rows`, `reserved`, `committed`, `ledger` and `unknown` are the tables;
`policy` and `month` are what the service reads before a transaction. `Insert`,
`Commit` and `Release` are the effects of the three transactions of
`quota_repository.py`. A client (API request, worker, reaper) is at a *place*
of a service call; the places are the points between two repository calls, so
other clients, the clock and a crash come in between:

* `policy` → `lookup` → `write` is one `reserve`: read the policies, look for
  the idempotency key, compare the limits and insert. `CheckKey` is the extra
  look of `ensure_run_admitted`. `Fail` is an exception: what this call has
  reserved is released one by one (`release`) before it is raised on.
* `consume` is the commit at the end of `consume`; `execute`, `cost` and
  `unknown` are the steps of `record_run_result`.
* `list` → `release` is `release_subject`, and the reaper's batch.

The idempotency key of a reservation is the Run and the kind of the
reservation, as in the code (`run:{id}:concurrency` and so on). Amounts are
small numbers; `overrun` is a history variable for the usage that was committed
beyond its reservation, which the code does not limit.

### EventLog

A **writer** is a call of `EventService.append` in progress: `ReadLast` reads
the last number, `InsertEvent` inserts the next or, when the unique constraint
refuses it, reads again; `AppendFails` is an exception or the end of the
process. Events that announce a status follow the compare-and-set of the row
(`ChangeStatus`, `EndRun`); a worker that does not know of the end goes on
writing (`Note`).

A **stream** is a client with at most one connection. The AG-UI run endpoint,
the webhook's stream and the A2A subscription all loop over `list_after`
(`Poll`, `Send`, `BatchSent`); the webhook's also ends when the row is terminal
(`CheckRow`), the subscription when the Run waits for an approval. AG-UI turns
an event into several frames (`Parts`, `Projected`), numbered `sequence:index`,
and its replay (`Replay`, `ReadContext`) reads the log twice: the events to send
and the events whose artifacts become cards before the final frame. The A2A
stream holds text back until the next event (`held`). `Cut` loses a connection
after any number of the frames of the event being sent. Which text or tool an
event carries is left out, and so are events that give a client no frame (empty
text, tool events on A2A).

### DurableJob and the control plane

`row` is the table of the jobs, `ctl` the controllers (one per worker process,
and the reaper of previews), `client` the requests. A client's request is `Begin`
(its reads), then one place per write: reserve, add, enqueue; a cancellation is a
read (`CancelBegin`) and a compare-and-set (`CancelMove`). A controller dequeues,
reads, and goes through the calls of `reconcile` one by one; `Store` is the
compare-and-set. Only `Previews` renew their lease, so for the other kinds a
lease may lapse under a working controller (`Dequeue` with `lapsed`), counted as
a fault. What is special to a kind: the time to live of a Preview and its
`ACTIVE_PREVIEWS` reservation; the cases, phases and child Runs of an Eval Run;
the Environment with its revision, routes and policy, and the snapshots, of a
Deployment; the scores, their export and the alert incident of `Quality`.

### The services

`Services` picks one service in its initial state and leaves the others at rest:
they share no row except those a service's own module contains, so their
behaviours do not interact and one run can check all of them. A property of the
composition is a conjunction of those of its services.

| module | state | what interleaves | promise |
|---|---|---|---|
| `Sandboxes` (sessions) | session locks of `worker_loop`, warm Daytona sandboxes, their asyncio locks (and the dict that forgets them), slots of the deferred provider | Runs, evictions, maintenance rounds, drain; provisioning, cleaning and stopping that fail | a session's sandbox is used by one Run and running; somebody can always go on |
| `Sandboxes` (pods) | pods or E2B sandboxes, egress policies, claims of a Run | a worker without a lease, a retry, reapers of other processes | a sandbox exists while its execution uses it, a pod never without policy |
| `RemoteCli` | the CLI's output as tokens, chunks, the mirror of the workspace, sandboxes prepared before | providers that cut, hold back, mix or end output early, the end of the log and the reading of the exit code, close, terminate and collection | messages are heard once, in order and in time; the mirror is the sandbox |
| `RuntimeStream` | SDK messages, pending text, active subagents, the log | turns as fragments or whole, subagents in the turn or in the background, raising iterators, time-outs | no text is lost, each started subagent has an end; each comes once and in order, unless a background subagent is heard out of its turn |
| `ToolGate` | calls of a Run, trust of its context, files it created, policy | hooks of a turn and its subagents, results between judgement and execution | no memory from an untrusted context; only the Run's own files pass unasked |
| `ToolSetup` | published bindings, registry, credentials | both change between the reads; Agents with, without and with an older directory | a Subagent's tools are the published ones less what has no credential; the Lead has those joined for its Subagents besides |
| `RunFiles` | inputs, artifacts, snapshots, objects and charges | any step fails, the worker crashes and the Run executes again | rows, objects and charges agree; a Run that succeeded has announced what it changed |
| `Incidents` | a Run's finalization, incidents under leases, the alerts page | several repairers, maintenance, resolutions, deaths | a Run half finalized is on record |
| `Threads` | a thread's row, its earlier Sessions, its title | messages of two processes, version switches, archiving, titles generated late | every Run of the thread can be found |
| `History` | Runs of a thread with prompts and branches | edits, regenerations, shared Runs, restarts | the thread shows the client's branch |
| `A2ATasks` | a Run's row and log as the outside sees it, pages of tasks | the worker, broken connections, moving tasks | a resumed client is sent each update once; what the task at the head of a stream repeats is only what it had ahead; pages skip nothing |
| `Triggers` | the trigger's row (twice), keys, Sessions, Runs, slots | callers, dispatchers, administrators | a key names one Run |
| `Studio` (drafts) | a draft, the version registry | windows that save and publish, other writers of the registry | a released draft is what was registered |
| `Studio` (catalog) | the tenant's catalog | reads that upgrade it, edits and disabling from earlier reads | no edit is undone |
| `Studio` (packages) | what the catalog offers a draft, the archive of an Agent and who made it, the draft read back | the catalog changes between export and import; archives of other makers; damaged archives | an archive comes back as the draft it was made from, or is refused |
| `Studio` (preflight) | checks of a preview, its sandbox, the stored result | cancellation, time-out, failing reads | ready means checked and cleaned up |
| `DataLifecycle` | jobs, adapters' results, holds, the stores, the two cutoffs of retention | keepers of several processes, retries, new data | the index goes last, but for retention's young traces of old Sessions; success leaves nothing |
| `MemoryBank` | memories, versions, policy | agents, the user's edits and confirmations, reapers | only what was confirmed is told |
| `Knowledge` (with team spaces) | members, shares; sources, snapshots, pins | requests, synchronisations, searches | a search is for who may read now; edits survive synchronisations |
| `Governance` | connections, leases; policies, publications | administrators and the broker | a revoked connection gives nothing; publications stay |
| `WorkloadTokens` | tokens, context variable of the server, roles | requests of several clients, the clock | a tool acts for its caller |
| `Accounts` | users, refresh-token families | refresh, sign-out, password change | a family has one live token, or none for ever |
| `EvalSuite` | cases, their Runs, the report | a Run that moves, calls that fail | results in the order of the cases, one each unless a cancellation raised; no Run goes on uncancelled unless a call was lost |
| `Promotion` (gates) | dataset versions, Eval Runs, rules, incidents | makers and promoters | a promotion had its gates when it was asked for |
| `Promotion` (releases) | bundles of a release, Environments, Deployments | repeated executions, lost answers, time-outs, manual deployments | a release is promoted whole or taken back from every Agent the client knows of |

In all of them a step is what happens between two awaits, a read from the
database and the write that follows are two steps, and an action that fails in
the code has an action for the failure. History variables (`authorized`,
`overlap`, `strayed`, `astray` and the like) are named so where they are
declared.

One constant chooses between the code and a variant of it: `Fenced = TRUE` in
`Sandboxes`, the pod's name has the fencing token, as the worker passes it.
What an Agent's manifest leaves open is chosen in the initial state instead
(`background` in `RuntimeStream`, the kinds of directory in `ToolSetup`, the
cutoffs in `DataLifecycle`, a sandbox prepared before in `RemoteCli`).

## 3. Runs

| run | instance | what it shows |
|---|---|---|
| `queue` | 2 tasks, 2 processes, 4 receipts, 2 calls in flight | the scripts lose, duplicate and misdirect nothing, and refine `LeaseQueue` |
| `execution` | 2 slots, 2 cancel requests, 2 deliveries, 1 fault, the reaper | under every race one terminal event, and without faults an ended Run that nobody works on is announced and holds no quota |
| `stale_owner` | 2 slots, 1 fault | *violated*: a worker that lost its lease still ends the Run of its successor |
| `approval_inline` | 1 slot, 1 tool call, 1 decision, 2 deliveries, and 1 cancel request or 1 fault | no tool runs unless it was approved, and no approval is left pending by an ended Run that nobody works on |
| `approvals_end` | with a tool gate and no fault, or without a gate and with one; the reaper | every Run and every approval comes to an end |
| `lost_handoff` | no tool gate, no fault | *violated*: an approval leaves a RUNNING Run without a task |
| `events` | 2 writers, 1 client of any surface, 4 events, 2 faults | over all its connections a client gets each frame once and in order, all cards before the final frame, and in the end the end |
| `quota` | 2 Runs under overlapping policies, 1 request handler, 2 workers, the reaper, 1 policy change | no limit is oversold, usage is accounted once, an ended Run holds nothing |
| `quota_leaks` | 1 Run, 1 crash, 2 months | every reservation ends although its holder died, in the window it was made in, and the counters are the sums of the reservations |
| `quota_expired` | 1 Run | *violated*: an expired reservation passes for an admission |
| `control_plane` | 2 jobs of a kind, 2 controllers, 2 clients, 1 request each, 1 fault | quota follows previews, a pass means every case, Deployments apply once, routes resolve, jobs end |
| `services` | each of the services with the two or three actors that meet and one failure | the promises of the table above |

**Bounds.** They are named in the modules and explained there. Two of
everything that competes is enough for each race the code has: all races are
between a reader-then-writer and one other writer. A second delivery needs a
second slot or a fault, hence `MaxFaults = 1`; `Receipt` has two leases for each
of two tasks, so that a call can be late by one lease. `FaultOrCancel`
keeps `approval_inline` small: a behaviour has a fault or a cancel request;
`GateOrFault` does the same for `approvals_end`, and `RetryOrContention` for
`quota`: two Runs compete with one worker, or two workers have the same Run. Of
the four events of `events` the first is `run.queued` and one place is kept for
the end, which leaves two for text, artifacts and pauses before or after it; two
faults are two cut connections, or one and a failed append. In the quota runs
the tenant's limits are such that the second Run does not fit beside the first
and usage exceeds the reservation (`Usage` has 3 where 2 were reserved). `Bound`
of `control_plane` orders interchangeable jobs and clients, and lets a job meet
a fault or another job. In `services` two requests and one failure meet
wherever requests overlap; a third actor is there where one is overtaken by two
(three Runs of two sessions, three requests to one account, three tool calls of
a Run, three messages in a thread, three tasks of a list). An Agent's archive
meets one change of the catalog (`MaxOffer`), which may come before, between or
after its export and import. A turn has one result message (`MaxResults = 1`), so
a background subagent is heard before or after the only one; a job of `DataLifecycle`
is a delete, an export or a retention job, with any old Sessions and old traces;
one job meets two keepers. `McBound` leaves out combinations of things that do
not meet: two subagents at a time are in the foreground and a background one is
alone; of the events of a log that is shown one is blank or a file and one ends
a message; an Agent has no published directory on one kind of host, and the Lead
and its subagent do not both lack one; a warm Daytona sandbox has a new session;
a Run proposes one memory after one search; and an operator who loses the role
does so before any CLI has ended, whose token is another.
`CHECK_DEADLOCK FALSE` is used where the system really stops: a Run has ended
and nobody has anything left to do.

**Fairness.** `ApprovalFairness` lets each task that is scheduled take its next
step (asyncio tasks, request handlers, the maintenance loops that call
`reap_expired`), lets a TTL pass, and lets a stream that may end do so in the
end (the run's time-out, `runtime_timeout`, cuts it). It assumes no decision, no
cancellation and no crash. `ControlSpec` lets every control loop turn, every
request that began go on, time pass and child Runs end. `ReapedSpec` adds the stuck-run reaper's loop.
`QuotaFairness` is strong fairness of the reservation reaper, a maintenance
loop which lists overdue reservations again after each failure: strong because
its batch is disabled while it is at work or dead. `EventFairness` schedules
the appends and the streams of the server and lets a client that has not seen
the end come back, as an `EventSource` does; nobody has to append anything.

## 4. Disagreements between the code and what is said of it

1. `StaleOwnerRejected` (`worker/orchestrator.py:647`). `worker/main.py:49`
   relies on fencing to reject a worker whose lease lapsed. The exception
   handler reads the row again and adopts the new owner's token, so the stale
   worker's failure ends the successor's Run.
2. `ResumedRunHasWorker` (`application/approvals.py:180`). The hand-off after an
   approval enqueues a payload that is still pending if the delivery that paused
   the Run has not been acknowledged; the enqueue is filtered and the
   acknowledge then removes the task. The stuck-run reaper ends the Run.
3. `AdmissionConfirmed` (`quota/service.py:420`). The worker's check before it
   provisions a sandbox accepts a reservation in any state, so a Run that waited
   longer than its reservation lived executes without a place.

Seen while modelling, and not asserted by a run.

Runs, approvals, quota, streams:

* A crash between the compare-and-set to a terminal status and the append of
  the event leaves a terminal Run without a terminal event; the AG-UI stream,
  which ends on that event only, then polls for ever. Subagents started by an
  execution that crashed get no terminal event when a later one succeeds, nor
  when a Run is ended elsewhere while it streams (`worker/orchestrator.py:1122`).
* Without a tool gate, an approval that expired or was decided before the Run
  was paused is not looked at again: the repeated request finds a row that is
  not pending and allows the tool. Cancelling a paused Run leaves its approval
  pending until the sweep.
* `commit` of an expired token reservation raises, so a Run whose result is in
  is failed; a repeated result adds a second UNKNOWN entry to the ledger. A tool
  call refused after its reservation keeps it until it expires.
* The webhook's stream closes when the row is terminal, which is before the
  terminal event is appended: a stream can end without the event that
  `tests/integration/api/test_agent_studio_api.py:718` expects in it. A client
  that comes back with its cursor receives it (`EndReachesClients`).
* A client that resumes an A2A stream is sent the task first, and the artifact of
  its text already has fragments behind the id it resumed with
  (`triggers/a2a.py:569`, 362); they come again as updates that say `append`
  (585): it shows them twice (`TaskTextOnce` has exactly these repeated).
* The A2A subscription refuses a terminal Run, so a client cut off before the
  last frame has to poll the task; and it closes on a pause without a frame for
  `run.waiting_approval`. The cursor of the task list is cut to milliseconds
  (`triggers/a2a.py:731`).
* `storage/outbox.py` builds a record that nothing stores, and nothing reads the
  Redis bus to which `append` publishes, while
  `docs/plans/2026-07-11-claude-agent-harness-design.md:496` has the outbox
  replay what was not published.

Runtime, sandboxes, files:

* Subagents in the background (`core/manifest.py:128`, `runtime/claude_sdk.py:555`)
  that are heard out of their turn make the runtime show a text twice
  (`runtime/claude_sdk.py:908`) and end a subagent twice
  (`runtime/claude_sdk.py:837`): `TextShownOnce` and `SubagentsEndOnce` allow it
  after such a message (`astray`) only.
* The Lead is given the tools and the servers of its Subagents as its own
  (`runtime/claude_sdk.py:425`, 568), so it may call what only a Subagent was
  published with; an Agent published without a tool directory is held to nothing
  but its references (`runtime/tools.py:354`).
* When Daytona's log ends early without an error, and the command then turns out
  to have exited with 0, what was read is taken for the whole output
  (`sandbox/daytona.py:217`, 255). A warm sandbox that this worker prepared is not
  asked again which CLI it has (`sandbox/daytona.py:702`).
* Two worker processes that execute two Runs of one session use one warm
  sandbox; the session lock is per process (`worker/main.py:104`).
* Inputs are staged read-only (`application/input_artifacts.py:31`), so a
  provider that unpacks the collected workspace over them fails; Kubernetes reads
  blocks of 64 KiB that may split a character (`sandbox/kubernetes.py:366`).
* A file that an execution archived but failed to publish is in the snapshot, so the
  next execution finds it as restored and does not publish it either; one that was
  published early and changed later keeps its first artifact. `OutputsAnnounced`
  demands neither.
* `attach` of the memory and knowledge servers drops the list of unavailable MCP
  servers (`memory_bank/workload.py:192`), and the environment's policy is
  enforced for the Lead only (`runtime/registry_runtime.py:112`).

Control plane and services:

* A package of an Agent whose skills are not in the order of their names cannot
  be imported again: the compiler keeps the draft's order in `agent.yaml`, the
  manifest's loader sorts them (`core/manifest.py:645`), and the draft built from
  it has another hash, which the import refuses (`studio/service.py:367`). Neither
  can one made before any later revision of the catalog, since
  `tool-directory.json` holds the revision.
* A release that was rolled back and is promoted again has the same idempotency
  keys, so the old Deployment is returned and reported as promoted while the
  Environment is on the previous version; a lost answer leaves an Agent on the
  release that the roll-back does not know of (`promotion.py:240`), which
  `ReleaseWhole` allows for that Agent only; and a
  roll-back reads a fresh revision and overrides a Deployment made by hand.
* Two controllers of one Eval Run may each cancel the child the other polls
  (`evals/controller.py:171`). A crash between storing a Deployment or an
  export and enqueuing it strands the job. Roll-backs do not ask the
  Environment's policy (`deployments/service.py:583`).
* Reading the catalog scopes MCP entries that administrators left unscoped and
  marks the row as the system's (`studio/catalog_service.py:150`), although the
  comment at line 170 leaves administrators' decisions alone; the next upgrade
  brings back built-ins they removed.
* A lifecycle job whose controller dies after the claim stays RUNNING; a hold
  placed after the check does not stop it; a retention job for artifacts erases
  the tenant's memories without regard to a cutoff
  (`storage/lifecycle_adapters.py:300`).
* Retention has one cutoff for Sessions (90 days) and one for traces (30 days unless
  changed). With an old Session go the scores of its young traces
  (`storage/lifecycle_adapters.py:507`), by which the traces are found (190): they
  stay in Langfuse and nothing refers to them any more. Invariant 1 of
  `docs/plans/2026-07-16-agent-production-platform-g16-data-lifecycle-governance.md:37`
  has the index outlive what it refers to; `ErasedInOrder` exempts these traces.
* `RunService.cancel` marks a running Run CANCELLING (`application/runs.py:350`); a
  suite that gave a case up goes on to the next while the Run does
  (`evals/runner.py:303`), so their Runs may overlap.
* Team spaces check and write in two transactions, so the last two owners can
  each remove the other; accounts write whole rows from earlier reads; AG-UI
  threads too, so a title can undo a version switch.
* Tokens of the platform's MCP servers live five minutes and are not renewed
  (`knowledge/workload.py:41`), whatever the Run's time-out.
* A thread whose user edits back an earlier prompt is shown the earlier Run
  (`agui/routes.py:717`).

## 5. Theorems

Eight modules prove what the runs check on small instances for every value of
the constants. Every proof of a safety property has the same shape: an inductive
invariant, one lemma per action (or group of actions) that it is preserved, and
the property from it. TLC checked each invariant on the instance of the run
before it was proved. What the invariants say beyond the properties is the
argument, so it is told here.

**Queue** (`RunQueueProofs`). `QueueInv` is types, `Conservation`,
`ReceiptIsPrivate` and `ReceiptWhileLeased`. `Conservation` alone is not
inductive: that a late acknowledge removes nothing visible needs that a receipt
in Redis belongs to a leased task, and that the current receipt is known to the
leasing process and to its calls only. `LateCallsHarmless` and
`OnlyAcknowledgeRemoves` are the action properties. `QueueImplementsLeases`
proves that the scripts, with their four structures and late calls, implement
`LeaseQueue`, the specification that `RunExecution` and `DurableJob` build on.

**Execution and approvals** (`RunExecutionProofs`). `OneEnd`: there is one
terminal event because the actor whose compare-and-set ended the row, and who has
the event still to write, is the only one (`EndsOnce`). That rests on what an actor
has read when it is about to write: an active status, and a target which is
`cancelled` if that status was `cancelling` (`SlotReads`, `OtherReads`); and on the
copy of the owner being the row, unless the Run was cancelled or ended since
(`OwnerReads`). `EndsAreCarriedThrough`: without faults an ended Run whose event or
release is missing has an actor on its way to it, and a slot at work holds the
task (`CarriedThrough`). `RowFollowsTable`, `CancelledStays` and `LoserIsNotOwner` are
action properties of the row. For approvals `AllowInv` says that a hook works for its own
call and has found that call approved before it resumes the Run or goes on to the
tool (`HooksKnow`); decisions are final (`DecisionsAreFinal`), so whoever decides
meanwhile, a tool runs only with an approval (`ToolsRunApproved`).

**Quota** (`QuotaLedgerProofs`). `RowInv` (types, `NotOversold`,
`AccountedOnce`) is preserved by each transaction whoever runs it (`InsertInv`,
`CommitInv`, `ReleaseInv`). `StepIsTransaction` shows that each step of the whole
system is a transaction or leaves the tables alone, which needs `JobInv`: a
reservation that a client remembers was built from limits that were in force, and
a key about to be committed or released has a row. `EndedRunsAreFree` needs
`HeldInv`: an active reservation of an ended Run is on the list of a client that
releases it, and a Run that is being created is its creator's alone. It speaks of
behaviours without a crash, as the property does: after one the reaper waits for
the reservation to expire. `CountersAreSums`: the counters are sums over the
reservations. A sum is a fold, so its laws (`TotalIsSum`, `SumAny`, `TotalAdds`:
the order does not matter, an element more adds its amount) are proved first, by
induction in the form of a set of numbers that has 0 and every successor
(`AllNumbers`, from the well-foundedness of `<`); then a reservation more or less
changes the sum of each counter that counts it by its amount (`HeldMore`,
`HeldLess`, `UsedMore`), which is what a transaction adds or takes away.

**Control plane** (`ControlPlaneProofs`). `JobTypes` and the lemmas about
`Go`, `Plan`, `Rest`, `Ask` and `Begin` are shared by the kinds. `PassedIsComplete`:
every copy of an Eval Run's row that a controller or a request holds claims only
cases that have a result (`Grounded`), results stay, and a controller that wants to
store `passed` has seen all cases pass; so it holds for a controller without a
lease too. `AppliedOnce` and `RoutesServe`: stored orders fit the policy of the
revision they expect (`Sound`, `DeployInv`), an applied one expects an earlier
revision than the present one, and, while nothing crashes, fails or overruns,
whoever works on a job holds its lease (`Alone`), so the row that it read is the
row (`Fresh`) and what is applied gets reported (`LandInv`). `PreviewsKeepAccount`:
the move that ends a Preview and the release of its reservation are joined by a
controller at `release` (`Accounted`), and a request stores a row only after it
has reserved (`Reserved`). `JobsFollowTables`: what controllers and
requests are about to write is a move from the copy they hold (`MoveInv`), and the
compare-and-set makes the copy the row; it states `JobsMoveOnce`, the state
machines and tokens of all three tables.

**Rights, governance, erasure** (`ServicesProofs`). `GateRemembersRun`: what a
result makes of the Run's context is counted or pending until its hook has run
(`ResultCounted`), a call that got past the policy did so by the level it was judged
with (`Judged`), and a file is the Run's own only after a write of the Run to a file
that was missing (`WritesOwn`). `SecretsFollow`, `RevocationsStay`,
`PublicationsAreKept`: an administrator's copy of a row with the row's revision is
the row (`EditCurrent`, `DraftOK`), and a lease names the revision it was granted
under. `FamiliesStayEnded`: a family of refresh tokens has one live token or none,
and a request's token is one that was issued. `ToolsActForCaller`: a token says for
whom it was issued, and a call that is admitted carries a live one (`CallOK`).
`SearchesAreChecked`, `SyncsAreHarmless`: what a search has checked was true of its
reader since the search began (`SearchKnows`); a synchronisation holds the row it
wants to replace (`JobKnown`). `AccessStaysCurrent` and `RevokedStaysRevoked` join
these into the properties of the run. `ErasureGoesInOrder`: a round of a job is one
keeper's (`OneRound`), adapters before the one it is at have succeeded
(`RoundHolds`), and the database, which is the last adapter, forgets an item only
when no other store has it, or when it is a trace that retention's cutoff keeps and
whose Session the other cutoff does not (`IndexLast`).

**What people edit** (`StudioProofs`). `DraftsAreReleasedAsShown`: a window
publishes the copy that its user saw, and what the registry has under a released
version is that copy. `MemoriesAreConfirmed` and `CatalogKeepsEdits`: a request's
copy with the row's version is the row. `ArchivesComeBackAsMade`: an archive is what
the compiler makes of its draft and the catalog of the revision it names, and
revisions name catalogs. `NoEditIsLost` joins them with `SyncsAreHarmless`.
`ReadyPreviewsAreChecked`: a check runs only while all before it have passed, a
runner that returns `passed` has passed them and cleaned up, and a result in the
row is one a runner returned. `SuitesAreAccounted`: each stage of the runner knows
whether the case has a result and a Run that goes on (`SuiteRuns`,
`SuiteResults`): a second result needs a cancellation that raised, a Run that
goes on beside the next case's one that was lost, and the peak
that the score counts along the log bounds what was active after every one of its
events (`PeakBounds`, by the same induction, here over the length of the log).

**A2A** (`StudioProofs`). `TasksAreToldOnce`: what a client was shown is the text
up to the id it was sent last, in order (`TextIs`), and what it shows is the
artifact of the task it resumed with, followed by the updates since (`ViewIs`); a
stream has read on from the last id
and holds back the one fragment in between, if there is one (`HoldsBack`), so a
client that resumes misses and repeats nothing; an answer that says the task ended
has the text of a log in which only that end may follow (`AnswerHolds`); and the
tasks a listing has still to show, but those that moved or are of the millisecond
at which a page ended, are behind its cursor (`PagesHold`).

**A turn of the agent** (`RuntimeProofs`, stated in `ServicesProofs`). Both
theorems compare a sequence that was sent with one that was received.
`StreamIsToldOnce`: the state of the log, of a message open or closed, of how much
text and which subagents' ends it has told, is a fold of its events that needs no
fold: `Telling` is a record, `MayFollow` says which events may come next, and the
invariant joins what the log says, the events on their way to it and what the
runtime remembers into one account, at whose end the log says what the model has
said (an event that the runtime drops or sends twice breaks the account, not only
its end). A background subagent that is heard out of its turn makes the account
lose its order, not its contents: once `astray`, the log has at least what was said
and at least one end for each start, and only then may it have more
(`StrayInBackground`: nobody else strays). `CliIsHeard`: objects are in the output whole, in
order and each at the beginning of a line (`ObjectsWhole`, `ObjectsOrdered`); the
buffer is the end of what was read, decoded (`BufferIs`), begins outside of
objects and has no end of a line or of an object in it (`BufferBegins`); and what
ended before it is a message (`GotAll`). So the ends of objects in the buffer are
those in the output (`ObjectEndsAre`), their numbers go on where the messages
stop, without gaps (`EndedAre`), and the k-th object in the buffer has the k-th of
these numbers: a numbering of a set that grows with its elements is its rank
(`RanksCount`, by a bijection). `LinesEnd` says that each object has its line's
padding behind it, so that a Daytona session which holds back no more than that
holds back no object; a log of Daytona that ends early is told apart from one that
ended with its command (`short`), because only then may something be missing. A
CLI that runs was found to be the pinned one, now or when this worker prepared the
sandbox. For the files, what is written of the mirror is the
archive's, and the archive is the sandbox's unless a CLI outlived `close`.

**What a thread shows** (`RuntimeProofs`, stated in `ServicesProofs`).
`ThreadShowsBranch`: the server has no branches; it looks the prompts of the
latest Run up among the thread's Runs, each behind the one before. That this finds
the client's branch, whatever Runs of abandoned branches lie in between, needs that Runs
are in the order of the messages they answer (`KeysGrow`) and that, while no
message of the branch shares a Run, each has its own and the last one's is the
latest (`OwnRuns`): so the branch itself is a selection of the kind that is looked for
(`BranchIsPath`). By induction over the prompts, the search has never gone past
the branch's own Run (`MatchedGreedily`), so it finds a Run for every prompt and
never falls back on the whole list; and where no other Run has the prompt, the one
it finds is the answer.

**Operations** (`OperationsProofs`). `KeysRunOnce` (an invocation that got past
a place has its Session, its Run); `PromotionsPassGates` (a promoter's rows are as
late as when it asked, `AsLate`); `HalfDoneRunsAreRecorded` (unless a
reaper died, a Run ended and not finalized is with the reaper or on record; while no
claim has outlived its lease one reaper finalizes at a time); `ThreadsKeepRuns` (unless writers of a thread overlapped, a Session with a
Run is listed); `RunsGetPublishedTools` (each Agent's list is enforced against its own directory
before the Subagent's is joined to the Lead's, `ToolInv`); `OutputsAreKept` (what
an execution restored is in an indexed snapshot, and one that is about to end well
has announced what it did not leave as restored, `OutputHolds`; rows, objects and
charges advance in step); `ReleasesAreWhole` (an Agent's environment agrees with its
three Deployments, `PlaceHolds`; what an execution went past is deployed, or
undone on its way back, and an Agent on the release was answered about or is one
whose answer was lost, `AttemptHolds`); `PromotionsAreGatedAndWhole`.

**Assumptions** are the named ASSUMEs of the modules. They say that bounds are
natural numbers and at least as large as the code makes them (`BoundsAssumption`,
`MaxCallsAssumption`, `BoundAssumption`, `EventBounds`, `CasesAssumption`,
`ReleaseAssumption`, `DatasetsAssumption`, `DraftAssumption`, `StagesAssumption`,
`TriggerAssumption`, `TaskBounds`, `ListedAssumption`); that sets are of the right
kind, inhabited or finite (`TaskAssumption`, `GatesAssumption`, `PlanAssumption`,
`ScopesAssumption`, `LimitAssumption`, `UsageAssumption`, `VersionAssumption`,
`SingleAssumption`, `SourceAssumption`, `MemoryAssumption`, `CatalogAssumption`,
`StudioAssumption`, `SuiteAssumption`); that a
value which stands for "none" or for a role is not also something else
(`ReceiptAssumption`, `NoRowAssumption`, `ActorsAssumption`, `MeasuredAssumption`,
`TokenAssumption`, `ProfileAssumption`); `LifecycleAssumption`: the adapters are
different and the database is the last of them, as
`composition.py` lists them; and `WithheldAssumption`: the wrapper's padding is no
shorter than what Daytona's demultiplexer holds back, which is what the comment at
`runtime/daytona_transport.py:172` has it for. TLC evaluates all of them.

**Checked by TLC only.**

* Liveness (`EventuallyTerminal`, `ApprovalsClose`, `JobsEnd`,
  `ReservationsEnd`, `EndReachesClients`), and `SandboxesHeld`, which says with
  ENABLED that somebody can always go on: both out of reach of the prover.
* `ApprovalSettled` and `ClientsMissNothing`: nothing speaks against a proof;
  they are in the plan. The first needs the invariant of `EndsAreCarriedThrough`
  again for the steps of `RunApproval`, which pause and resume the Run; the second
  orders the sets of events that a backlog is read into.

## 6. Plan

Done: every module of section 2, and the proofs above. To do, in this order:

1. Proofs: `ApprovalSettled`, `ClientsMissNothing`.
2. Several worker processes in `Sandboxes`; a Run of `RunExecution` that
   is the Run of a trigger, a thread or an Eval case instead of the environment
   that stands for it there.
3. The transcript store of the SDK (`runtime/session_store.py`), profile and
   consent rows of the memory bank, connectors of the knowledge base.

## 7. Not modelled

`PROJECT.json` lists every component. Left out are the parts without state of
their own or without decisions worth checking: HTTP parsing and response models
(`api/`, `studio/api.py`), the wording of AG-UI frames, the wiring of
`composition.py`, observability, command line tools, retrieval and ranking. The
in-memory adapters serve tests; where PostgreSQL or Redis has an implementation
of its own, that one is modelled. The model provider, the sandbox platforms, the
object store and MCP servers are external programs; the modules see when they
answer and how they fail.
