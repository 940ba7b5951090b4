# A TLA+ model of microvm_demo

The repository is a notebook service that runs every session in its own AWS
Lambda MicroVM.  A FastAPI **proxy** stands between the browser and the VMs; it
launches, routes to, suspends, terminates and *rotates* them (a MicroVM lives a
few hours at most; in "eternal" mode a session moves to a fresh VM before the old one
dies).  Inside each VM an **app** server runs the cells, hooks save and restore
its state to S3.  This directory models the parts whose correctness depends on
order, failure and interleaving, checks them with TLC and proves the central
results with TLAPS.

## 1. Inventory

| Component | State | Operations | Hard behaviour | Module |
|---|---|---|---|---|
| Session rotator (`proxy/platform/session_rotator.py`) | `_sessions` (RotationState per session: VM, `is_quiesced`, `request_queue`), `_timers` | register, unregister, `_rotate` (launch, health, quiesce, checkpoint, restore, swap, replay, schedule, terminate, recover) on a background thread | runs against the event loop; every step can raise; retries what may have been done | `Rotation` |
| Proxy requests (`proxy/platform/routes/microvm.py`) | futures of queued requests | launch, terminate, suspend, resume, list, proxy | state read before an await and used after it; 30 s and 120 s timeouts; 502 retry | `Rotation`, `Lifecycle` |
| MicroVM manager (`microvm_manager.py`, `server.py`) | `_session_registry`, `active_microvms`, token cache, pre-terminate timers | register, launch for rotation, terminate, restore timers after a restart | two threads and an event loop on plain dicts; restart loses everything but the database | `Rotation`, `Lifecycle` |
| Lifecycle hooks (`app/platform/hooks.py`) | session id, persistence mode | /run, /suspend, /resume, /terminate, /checkpoint-save, /restore-state | the hook of a dying VM runs after its successor took over | `Rotation`, `Checkpoint`, `Catalog` |
| Checkpoint manager (`app/platform/checkpoint.py`) | S3 objects of a session | save, restore, delete | several objects, not one transaction | `Checkpoint`, `Catalog` |
| Cell executor (`app/notebook/executor.py`, `code_engine.py`, `routes.py`) | namespace, execution lock, timeout thread | execute, interrupt, reset, upload, load | asynchronous KeyboardInterrupt against the end of a cell | `Executor` |
| Data catalog and provenance (`data_catalog.py`, `executor.py`) | entry per source, completeness flag, origin of each variable | discover, refresh, save, restore; record, forget | threads that scan while uploads and saves go on | `Catalog`, `Executor` |
| SQL engine (`sql_engine.py`) | Glue cache, cached scans, statements that wait | classify, route, scan, poll, run | two caches with 300 s each, one timestamp for all databases; an await in the middle | `SqlEngine` |
| Workbook intelligence (`notebook/ai/intel/*`, `routes/intel.py`) | report and row per session, `_generating_sessions` | generate (two phases), delta, prune, get, delete | threads whose second phase runs unmarked; two stores that fail apart | `Intel` |
| Entity discovery (`batch/entity_discovery.py`) | row and document per source | check, profile, store, record; read by the panel | runs of several processes on the same rows; data that changes meanwhile | `Discovery` |
| Session routes, storage (`routes/sessions.py`, `storage/sqlite_db.py`) | rows of vm_sessions, cached documents | panel, restore, delete, list | rows and VMs drift apart | `Lifecycle`, `Discovery`, `Intel` |
| Cost tracker (`cost_tracker.py`) | transitions per VM | launch, poll, compute, rebuild | restart, states that nobody sees | `Cost` |
| Notebook agent (`notebook/ai/*`, `routes/ai.py`) | execution context per thread and a fallback, agents per session | chat, stream, report, tools | tools run on other threads than their chat | `AgentContext` |
| Web client (`web/src/App.jsx`, `useNotebookCells.js`, `useInstances.js`) | tabs with their VM and status; queue and loop of the cells on the screen | run cells, batches, interrupt, restore, poll, switch tabs | rendered state in callbacks, polls older than what happened since, components that unmount | `Notebook` |
| Terminal relay (`routes/terminal.py`) | two relay tasks | open, relay, close | whichever side ends first | - |

The remaining parts (prompts, listings, classifier, helpers, logs, metrics,
scripts) are in `PROJECT.json` with the reason they are not modelled.

How they meet: the browser calls the proxy only; the proxy forwards to the VM
that `_session_registry` names.  The rotator changes that entry from a thread of
its own, through a callback.  Hooks are called by AWS and by the rotator, and
move state between a VM and S3.  The proxy's database and S3 are all that
outlives a proxy.  Intel threads ask the VM for files and its catalog, and
discovery writes rows that the panel and the agent read.

## 2. Modules

### Rotation

`Rotation.tla` follows one session (sessions share nothing in this code but
dictionaries keyed by session id) through four actors.

| Actor | In the code | Actions |
|---|---|---|
| client request `r` | the coroutine `proxy_request` | `Lookup`, `CheckQuiesced`, `Enqueue`, `WaitTimeout`, `Forward`, `RetryForward`, `ForwardFails` |
| user | `terminate_session`, which has no await | `TermLookup`, `TermUnregister`, `TermUnroute`, `TermApi` |
| rotation thread | `SessionRotator._rotate` | `TimerFires` ... `TerminateOld`, one action per statement that touches shared state |
| MicroVMs, AWS | app server, hooks, Lambda | `VmFinish`, `TerminateHook`, `AwsKill` |

*Atomicity.*  An event-loop handler runs from one `await` to the next without
another handler in between: `LoopFree` guards every action that starts such a
stretch.  The rotation thread may interleave at every bytecode, so each of its
accesses to shared state is an action, and the terminate handler, which it can
interrupt, has four.  `is_quiesced = False` (line 233) and the registry swap
(line 241) are separate actions because they are separate statements.

*Data.*  A cell execution is its request's identity; running `r` adds `r` to
the namespace `ns` of the VM that ran it, a checkpoint copies a namespace to
`s3`, a restore merges it into a VM's.  `ran[r]` counts executions and
`tries[r]` the proxy's own retries; nothing reads `ran`.

*Failures* (`Faults`): launch, health, checkpoint and restore calls that
raise; `late`, a save or restore that is done but answers after the rotator's
30 s; `api`, a TerminateMicrovm call that raises; `kill`, a VM that AWS stops;
`hook`, a /terminate hook whose save fails; `network`, a forward or replay that
fails before the VM; `badgateway`, a 502 for a request that the VM did run.

*Timing.*  A rotation is over, including the at most 60 s its retired VM's hook
takes, before the timer it armed fires (lifetimes are hours, the lead 5
minutes): `TimerFires` needs `pc = "idle"`.  Two rotation threads of one
session, possible after a re-register that does not cancel the old timer, are
not modelled.

`AtMostOnceService.tla` is what clients are promised: a request runs at most
once, gets one answer, and is answered "ok" only after it ran.
`settled` is a history variable: the namespace at the last quiesce, empty when the
rotator could not save it.

Constants: `Req`, `MaxVm` (a bound: VMs launched in one behaviour; a rotation
needs two), `Faults`.

### Checkpoint

`Checkpoint.tla` follows the state of one session from VM to VM, object by
object, where `Rotation` follows its requests.

| Actor | In the code | Actions |
|---|---|---|
| event loop of a VM | `CheckpointManager.save`, `.restore`, `/install`, `/reset`: one at a time (`LoopFree`) | `Serialize`, `PutPkl` ... `PutMeta`, `SaveRaises`; `GetPkl` ... `GetRest`, `RestoreRaises`; `Install`, `Uninstall`, `Reset` |
| cell thread of a VM | `execute` in a pool thread, for which the loop does not wait | `CellStart`, `CellRun` |
| user and AWS | Terminate & Save, Restore, end of a lifetime, a VM that dies | `Terminate`, `Relaunch`, `StopStray`, `Kill` |
| rotator | `_rotate` as the VMs see it, with its 30 s timeouts, the probe and the recovery | `Rotate`, `AnswerTimeout`, `ProbeAlive`, `ProbeDead` |

A value is the number of the cell that wrote it.  `rot` says what a rotation
waits for; a VM that a failed rotation leaves behind is a `stray`, and its hook
still saves under the session's prefix.  History variables: `whole` (is a VM's
last save complete and nothing changed since?), `got` (what a restore really
fetched), `owed` and `dropped` (packages recorded, uninstalled), `excused` (two
VMs saved and restored across each other, or the package list could not be
downloaded: the code gives no guarantee there, and the properties say so).

The data catalog (see `Catalog`) and the provenance are steps without data:
their failures are only logged, nothing else depends on them.  A user who terminates the session
while it rotates is in `Rotation`.

### Executor

`Executor.tla` is the sandbox inside a VM.  Two threads call `execute()`: the
pool's worker for `/execute`, which takes the lock, and the event loop itself
for `/upload`, which does not (`On`).  The pool has one thread here because
`/execute` is the only user of `asyncio.to_thread` and holds the lock across it.

| Actor | In the code | Actions |
|---|---|---|
| `/execute` handler | `execute_code` | `Arrive`, `Acquire`, `Answer`; `Fails` if an exception left `execute()` |
| executing thread | `SandboxExecutor.execute`: setup, `try`, `finally`, tail | `Pick` or `Load`, `Enter`, `Write`, `End`, `Finally`, `Tail` |
| the same, second evaluation | `_capture_dataframe` (`executor.py:395-397`, `452`) | `AgainWrites`, `AgainEnds` |
| timer of an execution, `/interrupt` | read `_exec_thread_id`, then `PyThreadState_SetAsyncExc` | `TimerFires`, `TimerRaises`; `InterruptAims`, `InterruptRaises` |
| CPython, asyncio | where the KeyboardInterrupt is delivered | `Interrupted` (in the `try`), `Uncaught` (elsewhere in `execute()`: it leaves it), `Lost` (worker dies, future never completes), `LoopAbsorbs` (a handler's request fails), `Escapes` (through the loop: the server ends) |
| handlers without the lock | `/execute-sql`, `/reset` | `Sql`, `Reset` |

*Two evaluations.*  When a cell succeeded and ends in an expression, `execute()`
evaluates that expression again after its `finally`, to see whether it is a frame.  The
lock is held, but the timer is cancelled, `_exec_thread_id` is None, `sys.stdout` is
the server's own, the provenance has been recorded, and only `Exception` is caught.  So
phase `again` writes under the name "again", may raise `SystemExit`, and may become
`stuck`: an expression that waits for what its first evaluation consumed waits for
ever, and nothing aims an interrupt at it.

*Ends.*  The `try` ends as `ok`, `error`, `timeout`, `interrupted` or `exit`:
`SystemExit` is caught by no handler of `execute()`, which runs its `finally` and is left
(`raised`).  What is raised then fails the request, which gives the lock back, or ends
the server.  Two interrupts at once are one; which of the two a cell is told of is
decided when the timer fires.

A variable's value is the job that wrote it; `prov` is the provenance field
`last_cell`.  Uploads, SQL statements and resets enter at any time.  Two histories say
where that matters: `shared`, who was in the namespace while another execution was
between its snapshot and its provenance, and `spoiled`, whether two executions have
redirected `sys.stdout` at once or an exception has left a redirection in place.
`Undone` names what nothing in the code answers.  Left out: the second `execute()` of an
upload (it prints a shape), code that catches KeyboardInterrupt itself, output capture,
history entries.  `Lost`, `LoopAbsorbs` and `Escapes` are external: they model the
library code of `concurrent.futures` and `asyncio`.

`SequentialSandbox.tla` is what clients are promised: a job is asked, runs when no other
cell does, once, with `sys.stdout` to itself, concludes, has its last expression shown
(`Show`, which may change variables and prints to nobody's output), and is told how its
own run ended; or it is lost.  An upload that starts beside another job ends the promise
about the output (`crowded`), not the others.  `ImplementsSandbox` maps a phase to the
stage a client sees (`StageOf`), `stdout` to the console, `result` to the outcome and
`spoiled` to `crowded`.

### Catalog

`Catalog.tla` is the data catalog of a session over its VMs.

| Actor | In the code | Actions |
|---|---|---|
| proxy, hooks | `/launch` with what the proxy could list, `hook_run`, `/checkpoint-save`, `/restore-state`, `hook_terminate` | `Launch`, `RotateSave`, `RotateSwap`, `RotateFails`, `Stop`, `HookSaves` |
| discovery thread | `DataCatalog._discover_all`: local files, then each source, then the flag | `ScanRead`, `ScanSkip`, `ScanWrite`, `ScanEnd`, `Discover`, `Finish` |
| thread of an upload | `refresh_local_files` | the same scans |
| client, cell | `/upload`, `os.remove` | `Upload`, `Remove` |

Scans of several threads overlap; reading a file and entering its schema are two
steps.  A schema is a version number.  Only `complete` catalogs are saved; a
restore sets `complete` if it restored entries.

A rotation whose save fails, or whose answer is lost, goes on with whatever is in S3
(`session_rotator.py:266-309`): `RotateSave` saves or leaves `stored` as it is, and
`RotateSwap` restores what is there then.  `RotateFails` leaves VM1 serving, and perhaps
a VM2 with a restored catalog, which nobody ends.  Such a VM, and one that was rotated
away or stopped, saves when its hook runs, which may be hours later and after other
launches: `late` has what they will save, as it was when they stopped serving
(threads that go on in a VM that was told to end are left out).  Two histories name where a catalog comes
from: `kept`, the stored one is a complete one of the session's last launch, and
`stale`, a rotation has restored another one on the VM that serves.

### Lifecycle

`Lifecycle.tla` follows the VMs of a session in time: their idle policy and
maximum duration, the timer that wakes a sleeping VM before its end so that its
hook can run, the rows of `vm_sessions`, and a proxy that goes down and comes
back.

| Actor | In the code | Actions |
|---|---|---|
| client | `/launch`, `/suspend`, `/resume`, `/terminate`, `/instances`, forwarded requests | `Launch`, `LaunchUnrecorded`, `Suspend`, `Resume`, `Terminate`, `List`, `Request` |
| rotator, timers | `_rotate` as one step, `_pre_terminate_vm` | `Rotate`, `Fire` |
| AWS | idle policy, maximum duration, time | `FallAsleep`, `Expire`, `Tick` |
| proxy process | its end, and `restore_timers_from_db` | `Down`, `Up` |

Time is in ticks, and what is due happens before the next tick.  Handlers are
atomic here: none of them changes state after an await.  The constants keep the
code's order of its margins (`Margin < MinLead < Buffer` and so on), not their
sizes.  `Rotate` is the successful rotation; its inside and its failures are
`Rotation`'s.

### Intel

`Intel.tla` is the report about a session's files.  A generation is a thread of
the proxy with the labels of `generate_intel_async`: `begin`, `delta`, `prune`
or `full`, `save` (the object), `row`, then `report`, the second phase, for a
full report, which has given up its mark by then, and `end`, its `finally`.

| Actor | Actions |
|---|---|
| client | `Generate`, `Upload`, `DeleteFile`, `DeleteSession` |
| generation `w` | `Begin`, `Delta`, `Prune`, `Full`, `SaveDoc`, `SaveRow`, `WriteReport`, `ReportUnsaved`, `Finally` |
| VM, proxy | `VmEnds`, `Crash` |

A report is the set of files it covers, its status, and whether it has prose.
What a model answers is any answer that does what it was asked; every call may
fail.  `merged` and `pruned` are history.  `excused` names what the code gives no
guarantee for; above all `crossed`, a generation that starts while another is in
its second phase, which the code allows.

### Discovery

`Discovery.tla` gives every source (`Entity`) of every run a task: `Check` against
the signal of the row, `Mark`, `Sample`, `SaveDoc`, `Record`, with `Raise`/`Fail`
anywhere and `Die` for the process.  A run has `Workers` of them at a time.
Runs overlap: the batch is a job of its own, and a report starts one for local files.
A signal is what a source looks like (`shown`), named by a version.  That of
an S3 object is its ETag and LastModified, its own version.  `Weak` sources miss
changes: a table's item count, a prefix of 100 objects, and local files, whose signal is
the rounded size and the row count that the VM's catalog noted when it last scanned them
(`entity_discovery.py:691`).  `Change` of a local file does not alter what it looks like,
`Rescan` (after an upload or a refresh) does, to that of any version so far, for two
versions may be of one size.  `Twins` share a document name after
sanitizing.  `Panel` is the reader with its cache that never forgets.

### SqlEngine

`SqlEngine.tla` is `/execute-sql` from the statement to its rows.  `Execute` is
the handler up to its first await: it lists databases, fetches what the catalog
misses, classifies the sources, and then starts Athena, or asks PartiQL, or scans and
runs DuckDB.  `AthenaAnswers` and `GiveUp` end the wait, `Leave` is the answer.
`ChangeTable`, `ChangeDb` and `Tick` are the world.  Statements are records
(which tables, filter or sort, LIMIT).  A table is a set of rows, since AWS promises no
order, and so is a result; `Run` has the results that SQL allows for a statement, of
which a LIMIT without ORDER BY leaves many, `PartiQl` and `ScanResults` what those calls
may return, and `Materialize` also has scans that fail half-way.  LIMIT 0 is a limit
(`NoLimit` is none): the code's `if limit` takes it for none (`Limited`), in PartiQL after
it has been cut off the statement.  A request with a limit reads one page of 1 MB and no
more (`Requested`), which may hold fewer rows (`Pages`).  `AnswersRight`
asks whether `Run` could have returned the rows over what the tables held lately
(`RecentContents`).  `SqlInit`, `SqlNext`, `SqlSpec` and so on have the prefix because
`DataProofs` extends this module and `Catalog`.  `MCSqlEngine` has the statements.

### Cost, AgentContext

`Cost.tla` is the tracker: launches and polls record states, `Restart` rebuilds
the record from rows, `running` and `suspended` are what `compute` returns.

`AgentContext.tla` is `execution_tools.py`: `set_execution_context` writes a
thread-local and a fallback, chats and streams call it on their threads, tools
read it on a thread of the pool.

### Notebook

`Notebook.tla` is a tab of the web client and the cells on its screen.

| Actor | In the code | Actions |
|---|---|---|
| user | run a cell, "run from here", interrupt, look at another tab and come back | `Click`, `RunFrom`, `Interrupt`, `Remount` |
| `executeCell` of cell `c` | look the VM up, restore, or join the queue; the loop that drains it | `Begin`, `LookedRestore`, `LookedIgnored`, `LookedLaunching`, `Push`, `Drain`, `Answer`, `LaunchAnswered`, `LaunchFails`, `Return` |
| poll | `fetchInstances` every 10 s | `PollAsked`, `PollAnswered` |
| React, proxy, AWS | rendering; `/launch`; VMs that end or are rotated | `Render`, `LaunchUp`, `VmEnds` |

JavaScript runs a task to its end, microtasks included: `task` says what is left
of one.  A callback keeps the tab it was rendered with (`tabOf`), and the value
of `isExecuting` (`seen`) lags behind its setter (`executing`); the queue is a ref
and does not lag.  `Remount` starts another instance of the component with the
cells the tab kept, while the calls of the old one go on (`mountOf`).

## 3. Runs

| Run | Instance | Shows |
|---|---|---|
| `rotation_safety` | 2 requests, 2 VMs, all faults but `badgateway`, symmetric requests | types; the registry never routes to a VM the manager retired; rotator and registry agree between rotations; the whole implements `AtMostOnceService` |
| `rotation_live` | 1 request, 3 VMs, all faults but `kill` and `api`, fairness | quiescing ends, requests are answered, nothing runs more often than it was sent; what was quiesced is in every VM that serves later, unless it could not be saved |
| `checkpoint_restore` | 3 VMs, both modes, 2 operations of the user, 2 failures | a restored VM holds a checkpoint; a finished save is what the successor starts with; recorded packages are not lost |
| `executor_cells` | two of: a cell that loops for ever, a cell, an upload; 1 `/interrupt`, SQL statement or reset; fairness | the executor implements `SequentialSandbox`, second evaluations and exits included; provenance names the writer; a waiting cell is answered, unless the server or the worker died, a second evaluation waits for ever, or an upload ran beside a cell that loops |
| `catalog` | 1 remote source, 1 file, 1 upload, 3 VMs | a catalog that says it is complete has an answer for every source the launch named, unless a rotation restored one of another launch or one from before discovery was over; no entry of a serving VM stays pending |
| `lifecycle` | both modes, 2 VMs, 2 outages, lifetimes of 7 ticks | no timer is left for a VM that was terminated; owed timers ring; who is woken stays awake; a restarted proxy routes to the VM it routed to, although AWS lists VMs late |
| `intel_report` | 2 files, 2 generations, 3 actions of the user, fairness | a mark has a runner; a row has its report; nothing covered is lost, nothing pruned returns; a report does not stay "generating" |
| `discovery` | a local file, whose signal is weak, and an S3 object, 2 overlapping runs, one forced, 2 changes | the profile of an S3 object that the next run would skip is current; what is served is the source's own profile, as new as its signal |
| `sql_engine` | 1 DynamoDB table, 2 databases, 11 statements, 2 in flight, pages of 1 row, 1 change, fairness | rows are those asked for, unless the LIMIT was misapplied; statements are routed by a catalog of at most 300 s; every statement ends |
| `notebook` | 2 cells, 2 VMs, 2 mounts, fairness | cells run one at a time and none stays in the queue; a spinner tells the truth; the tab gets to its session's VM |
| `agent_leak` (violation) | 2 sessions, 2 pool threads | the agent of one session runs code in the VM of another |
| `cost_terminated` (violation) | 1 VM, 4 ticks, 1 restart | a terminated VM goes on costing |

*Bounds.*  Two VMs are one rotation with its failure and recovery paths, three
are two rotations, which the queue entry that survives into the next rotation
needs.  Two requests let one be in flight on the old VM while the other is
queued; a third adds no new pair of places.  `rotation_live` has one request, whose
entry may be late for one rotation and replayed by the next, and leaves out `kill` and
`api`, which `rotation_safety` has, to keep the liveness check small.
`QuiescedStateIsCarried` holds with every fault for three VMs, and not for four with
`kill`: a VM that a recovery left behind may be stopped by AWS between the checkpoint
and the restore of a later rotation, and its hook then saves over that checkpoint.
Without `badgateway`, 502s are never resent, and `RunsAtMostOnce` holds (it is
proved, and part of what `ImplementsService` says); `RunsOncePerSend`, the form
that survives resends, is checked with it.

`Checkpoint`: three VMs are a save, a restore, a save of what was restored, and
a second restore, the generation in which a lost package list would show; two
operations of the user are a change before and one during or after the save (or
install and uninstall); two failures are a rotation that fails and a recovery
that fails too.  One visible and one hidden variable, one file, one package:
names do not influence each other.

`Executor`: two executions are the one that holds the lock or the thread and
the one that waits, overlaps or is hit by the other's late timer (`MaxJobs`,
drawn from two cells and an upload).  `MaxOthers = 1` call of `/interrupt`, `/reset` or
`/execute-sql` besides: with the timers that gives up to three exceptions for one
thread, or one handler without the lock.  Exceptions and a second handler in one behaviour are
left to the proofs, which have no bound.

`Catalog`: three VMs are a launch, a rotation and a second rotation or relaunch,
in which the catalog restored once is saved and restored again, or the hook of the
first VM saves late.  One upload gives two scans of one file and versions 0 and 1.  With one
source the catalog is complete or not; that sources do not influence each other is
proved, as `CatalogIsWhole` is for any number of them.

`Lifecycle`: two VMs are a VM and its replacement (by rotation, or by a second
launch of one session); one outage may come before, between and after them.  The
ticks are the code's seconds divided by about ten: `Lifetime` is long enough for
a VM to sleep, be woken by a request and sleep again before its timer, and
`RestoredIdle` exceeds `Idle`, as 60 s exceed short idle policies.

`Intel`: two generations are all that can be relevant at once, one of them
marked and one in its second phase.  Three actions of the user are an upload, its
deletion and another upload.

`Discovery`: two runs overlap, one forced and one that skips; two changes put one
before the signal and one between signal and sample.  Only the panel of the S3 object
is opened (`Viewed`): the cache is read by no property of the run.  `Workers = 1`: the
pool of a run has fewer workers than sources, so that its bound counts, and tasks of the
two runs still interleave.  `Twins` is empty in
the run: two sources with one document are outside of what the properties claim.

`SqlEngine`: each path has a statement, most of them one with a filter, a sort or a
LIMIT (0, 1, or 2 over pages of one row); the table is empty or has two rows, one of which `Other` shares; `Ttl = 2` has a
cache that is fresh, one that is about to expire and one that is stale; two databases
are what the one timestamp needs to go wrong.

`Notebook`: of two cells one runs while the other is queued, restored or looked up,
alone or in a batch; two VMs are the session's VM and its successor, by a rotation or
a restore; the second mount is a switch of tabs.  A cell has one call at a time,
and one poll is on its way.  That two cells and mounts are enough is not left to the
bound: `NotebookProofs` proves the safety properties for any number.

`AgentContext` and `Cost` have the smallest instances in which their property fails.

`CHECK_DEADLOCK FALSE`: a behaviour ends when the bounded requests, VMs, generations,
runs or uploads are used up; in `Executor`, also when the server has gone down.

*Fairness.*  `Rotation`: the thread and the terminate handler run on; an
event-loop handler that is ready runs even though others interleave (strong
fairness, the loop's ready queue is FIFO); a sent request finishes or fails,
since every HTTP call has a timeout.  Clients, timers, users and AWS owe
nothing.  `Executor`: both threads run on, timers go off, a
pending exception is delivered, and a cell that is not in `Looping` ends; nobody
has to call anything.  Not assumed: that a second evaluation
ends that waits for ever (`stuck`), or that an exception is delivered to it.  `Intel`: a generation's thread goes on, since its
calls have timeouts.  `Catalog`: the threads of a VM run on while it runs.
`SqlEngine`: time passes (strong fairness: statements may come without end), a
handler that has its rows answers, and one whose polls are used up gets its turn.
`Notebook`: microtasks run, the poll repeats and is answered, and a launch is answered
or fails, since the proxy has a timeout for it (strong fairness: other tasks come in
between); users, rotations and cells that run owe nothing.
`Lifecycle` and `Discovery` state no liveness.

*Findings.*  The two violation runs contradict a sentence of the code:
`execution_tools.py:18` promises that concurrent agent sessions do not leak;
`cost_tracker.py:6` says that cost is based on the time in each state.

*Known disagreements that are stated but not run.*  These definitions are in the
modules; each is false of the code, and TLC shows it when the definition
is checked as an invariant or property of the run's instance, or of the one named here.

| Definition | What the code does | What the repository says |
|---|---|---|
| `QueuedRequestsAreReplayed` (`Rotation`) | `request_queue.clear()` (`session_rotator.py:409`) drops what the event loop appended after the replay loop ended | `microvm.py:45`: queued requests are replayed after the swap |
| `TerminatedSessionStaysUnrouted` (`Rotation`) | the swap callback (`server.py:116`) registers a session that the user terminated meanwhile | `microvm_manager.py:135`: VM terminated, no rotation |
| `AcknowledgedStateIsCarried` (`Rotation`) | a request forwarded before the gate closed runs on while the VM is checkpointed | `tests/eternal/test_rotation.py:5`: preserving all state transparently |
| `UninstalledStaysUninstalled` (`Checkpoint`) | `save` leaves `requirements.txt` alone when the list is empty (`checkpoint.py:289`) | `checkpoint.py:150`: an uninstalled package doesn't reappear |
| `TerminateSaves` (`Checkpoint`) | in eternal mode the hook of the first VM saves nothing (`hooks.py:211`) | `useInstances.js:183`: checkpoint was saved |
| `NoLostUpdate` (`Intel`) | a generation may start in another's second phase, which then stores its older copy (`generate.py:344`) | the in-progress check of `generate_intel_async` |
| `SavedAtEnd` (`Lifecycle`) | no timer is scheduled in checkpoint mode (`microvm.py:302`), so a VM that sleeps at its end saves nothing | the repository's `README.md:473`: the proxy resumes the VM so that the hook fires |
| `AnswersAreRight` (`SqlEngine`) | a LIMIT goes to the scan or to PartiQL before the filter, sort or join (`sql_engine.py:357`), and ends there with the first page (`:579`); LIMIT 0 of one DynamoDB table is lost (`:622`), and all rows come | the repository's `README.md:144`: write standard SQL |
| `PanelAgrees` (`Discovery`) | the cached document is never loaded again, and neither is one that failed to load (`sessions.py:340`) | `sessions.py:337`: the cached documents change rarely |
| `SequentialInTab` (`Notebook`) | a switch of tabs forgets the loop that runs: the new instance starts another (`App.jsx:485`) | `useNotebookCells.js:298`: cells run sequentially |
| `SpinnersEnd` (`Notebook`) | the answer to a cell that ran during a switch of tabs is dropped, and its spinner stays | `useNotebookCells.js:133`: cells survive tab switches |
| `RestoresTheTerminated` (`Notebook`) | after a reload a saved session is launched again although `/instances` has just listed its VM, once for every cell of a batch (`useNotebookCells.js:241`) | `useNotebookCells.js:242`: if the VM was terminated |

Besides: the sandbox does not run one execution at a time, as `code_engine.py:23` says,
because an upload executes without the lock (`routes.py:536`); what that spoils is in
`spoiled` and `shared`.  An infinite loop can hang the VM, although `executor.py:316` says
otherwise: beside an upload, whose `finally` clears the one `_exec_thread_id` that both
timers read, and in the second evaluation of a last expression, which has neither timer nor thread
id (`Undone` is both).  A rotation after which discovery is never completed: it restores
what is stored and calls that complete, and what is stored is not a complete catalog of this
launch if the rotation came before discovery was over, if its save failed, or if the
hook of an earlier launch's VM saved last; and if the catalog is not read, no discovery
follows although `checkpoint.py:471` logs that it will.  The excuse in `CompleteIsWhole`
(`stale`) is this.  The
panel goes on asking the VM it looked up, although its retries (`sessions.py:404`) are
meant to outlast a rotation.  In a tab, `_autoRestoreFailed` is never reset, so one
failed restore is the last one (`failed`); and a job pushed after the last loop ended
but before that was rendered waits for the next click (`late`, excused in `RunInTurn`);
and a call made while the tab was launching first looks its VM up, and then goes by the
`isExecuting` it was rendered with, although a loop may have started since (`raced`,
excused there too).

## 4. Proofs

For all `Req`, `MaxVm`, `Faults` (assumptions: `MaxVm` a positive integer,
`Faults` a subset of `FaultKinds`); likewise for all names, files, packages, cells and
bounds of the other modules, under the `ASSUME`s they state.

* `RotationProofs`: `TypeCorrect` and `RoutedVmIsAlwaysActive`.
  `RoutedVmIsActive` alone is not inductive: the swap puts VM2 into the
  registry, so VM2 must still be active, so nobody may have terminated it while
  it stood by (`StandbyIsUnreachable`); and the thread's last step must not
  retire a VM the registry holds (`RegistryAfterSwap`).  `RoutingInv` is the
  conjunction.  Typing needs `StagesHaveVm2`, so both are proved as one
  invariant.
* `RotationProofs`: `RequestsRunOncePerSend` from `OnceInv`: a request
  is in at most one place that can still run it: before the forward, in one
  VM, or in the part of the queue not yet replayed (`RunnableOnce`), and
  enters the queue once (`QueuedOnce`).  `RequestsRunAtMostOnce` and
  `Refinement` (`Spec => ImplementsService`) assume `"badgateway" \notin
  Faults`, under which nothing is ever sent twice (`NoRetries`); every action
  then maps to a `Submit`, `Run`, `Reject` or a stutter.

* `CheckpointProofs`: `TypeCorrect` and `RestoresReportTruth` from `RestoreInv`,
  which adds that only one VM restores for a launch and that the VM2 of a
  rotation never serves yet (`OneRestores`), and what a restore has fetched at
  each of its labels (`Progress`).  `PackagesAreNeverForgotten` from
  `PackageInv`: what is owed is in the S3 list, in every VM that is about to
  serve and in the one that does (`Recorded`), because during a rotation the old
  VM's packages go to the list and from it to VM2 (`ListFollows`); that needs that
  saves and restores of different VMs do not cross unless excused (`OneAtATime`)
  and that one VM does one of them at a time (`ListSound`).
* `ExecutorProofs`, without hypotheses: `TypeCorrect`; `StdoutIsRestored`, by way of
  what `spoiled` leaves: until then one execution at a time redirects, so what it saved as
  `old_stdout` is the real one (`Kept`), uploads included.  `Refinement` (`Spec =>
  ImplementsSandbox`): the lock is held from `Acquire` until the request is answered or
  fails, so one cell is in the sandbox, its second evaluation included (`Locked`), and
  an execution has its result when its `try` is over and not before (`Concludes`); every
  action then maps to one of `SequentialSandbox` or a stutter.  `ProvenanceIsRight`: what has not
  begun is in no variable and no snapshot (`Traceless`), executions that meet share the
  namespace (`Apart`), and what an execution finds there, written by one that was alone, is
  in its snapshot, so that it does not take it for its own (`Remembered`).

* `RotationProofs` also has `RotatorFollowsRegistry`: while the session is tracked the
  rotator and the registry name the same VM, except between `SwapState` and the callback
  (`SwapIsTheOnlyGap`); and `QuiescedIsCarried`, for any number of rotations, under
  `"kill" \notin Faults`: then only the VM that was rotated away is ever stopping, and
  only between rotations (`OnlyOldStops`), so no hook saves between a checkpoint and its
  restore, and what was settled is in every later checkpoint and in VM2 before the swap
  (`SettledIsKept`).  With `kill` and four VMs it is false, as said above.
* `CheckpointProofs` also has `SuccessorIsUpToDate` (`RestoredStateIsLatest`, an action
  property): what a save of the serving VM has put so far is in the bucket and is what
  the VM holds, unless it changed since (`SavedIsThere`); a VM that is being restored
  holds nothing but what the bucket still holds, also when it is restored a second time
  (`LoadedIsThere`); so the step that hands the session over finds both to be the same.
* `IntelProofs`: `TypeCorrect`, `MarkIsTrue`, `RowIsBacked`, `ReportIsKept`.  A row is
  written after its object (`RowAfterDoc`), once per generation (`OneRowEach`, which
  bounds the row's number and needs cardinalities); of the generations that do not
  cross, one at a time is past `begin` (`OneAtATime`), so the report it holds covers
  what the stored one covers (`HeldMatchesFiles`), except the file whose removal started
  it (`GoneIsDeleted`).
* `DiscoveryProofs`: `TypeCorrect`, `ProfileIsOwn`, `SkipIsSafe`.  The signal is read
  before the sample (`SignalFirst`), nothing looks newer than it is (`ShownIsPast`), so
  nothing that was read is newer than the data (`DocIsPast`), the document is stored
  before its row is ready (`StoredFirst`), and without overlap one worker has a document
  name (`OneWorker`), whose rows are not ready meanwhile (`UnreadyWhileWorking`).
  `SkipIsSafe` is about S3 objects alone; `ProfileIsOwn` is about tables and local files
  too.
* `DataProofs`, of `Catalog`: `TypeCorrect` and `CatalogIsWhole`: what was listed is
  still to be discovered or has an answer (`TodoOrVisited`), and only the discovery thread's
  own scan lets it go on (`MainScan`); the same holds of what is stored, if it is a
  complete catalog of this launch (`KeptIsWhole`), and of what a late hook of a VM of
  this launch will store (`LateIsWhole`). It assumes that a path under /tmp is not the
  address of a source (`CatalogAssumption`).
* `DataProofs`, of `SqlEngine`: `SqlTypeCorrect`, `AnswersAreTrue`, `RoutingIsFresh`,
  for any tables, databases, statements and slots.  What is cached of a table it held no
  longer ago than the age of the scan (`ScanIsRecent`), so a statement that mixes cached
  and new scans joins contents of the last 300 s, each table's at a time of its own
  (`MaterializedIsRight`); a LIMIT in the scan and again in the statement is one LIMIT
  (`CutOfCut`), in PartiQL it is the statement's if nothing is selected after it
  (`PartiQlIsRight`), and a request that no page ends is a LIMIT (`RequestedInOnePage`).
  `OnlyLimitsAreWrong`: where no statement's LIMIT is misapplied (is LIMIT 0 over
  PartiQL, comes before a filter, sort or join, or is beyond a page: `LimitIsMisapplied`),
  `AnswersAreRight` holds, which is false otherwise (section 3).
  An entry is not older than the one timestamp unless that was renewed without it
  (`EntryIsRecent`); that a fetch has anything to renew or trust needs a database to ask
  for (`DefaultStays`).
* `LifecycleProofs`: `TypeCorrect`, `TerminatedIsCancelled`, `OwedTimersRing`,
  `RousedIsAwake`, `RestartFindsVm`.  A VM that lives in an eternal session, has a row
  and is not excused has a timer that is due before its end, or is past it
  (`TimerIsOwed`); what ended has none (`EndedIsDead`); what the proxy can list it
  tracks (`ActiveIsListed`).  `LifecycleTimes` are the margins of the code: a timer has
  a lead, and the least delay is shorter than a lifetime and than what a restarted proxy
  leaves.
* `NotebookProofs`: `TypeCorrect`, `CellsRunInTurn`, `SpinnersAreTrue`.  `RunInTurn`
  alone says nothing of the step that starts a loop, so `IInv` says what lets it: where
  no one raced a launch, an instance has one loop, counting the call that drains it now
  (`OneLoop`), and the callbacks of the instance on the screen know of it
  (`LoopIsSeen`), so a click joins the queue; a batch that may start loops awaits the
  one of its cell (`BatchAwaits`), and between two of its cells there is none
  (`BatchGoesOn`).  Below that, what is in a queue is there once and is all that says so
  (`QueuedOnce`, `QueuedIsThere`), a loop has sent one job of its instance, no other
  loop the same (`LoopHasSent`), and a batch has left cells that nobody has begun
  (`BatchInOrder`).  The steps are first sorted by what they do to cells, queues and
  loops (`StepKinds`), and each invariant is proved of those kinds.

What proving showed about the model and the code.  `EveryTimerRings` was stated without
its last exception and is false without it once the proxy restarts twice: a proxy that
has just started knows no active VMs, so `GET /instances` marks the row of a VM that AWS
does not list yet as terminated, and the next start schedules no timer for it.  The run
now has two outages; the comment of the property and `Up` say whom it excuses.
`RousedIsAwake` has a hypothesis, `LongIdle`: the timer wakes a VM at least 15 s before
its end, the comment in `schedule_pre_terminate` promises that this is too late for any idle
policy to send it back to sleep, and `idleTimeoutSeconds` is the client's choice (60 by
default): with 15 or less it sleeps again.
`RunInTurn` was false for three cells, which the run, with two, could not show: of a batch
over three cells the second runs when a call that was made while the tab was launching
starts a loop beside it; that one ends first, the batch's loop next, and `raced`, the
excuse, was dropped although the batch goes on.  Its third cell then starts a loop that no
rendering knows of, and a click starts another.  `raced` now lasts as long as a batch goes
on from such a loop.
`CatalogIsFresh` had a second hypothesis, that Glue has the database; the proof never
used it, so the property is now stated, and checked, without it. The rows of `SqlEngine`
were sequences, compared after sorting and filtering; as sets they say the same of an
engine that promises no order, and more: a result is compared with everything that SQL
allows, not with one reference order.

Model-checked only:

* liveness (`QuiesceEnds`, `RequestsAreAnswered`, `CellsAreAnswered`,
  `ReportIsFinished`, `NothingStaysPending`, `StatementsEnd`,
  `TabFollowsSession`), because TLAPS cannot reason about fairness and ENABLED here;
* what a recursive definition computes for every input would need induction over data,
  which the installed provers cannot do; no module with a theorem declares a RECURSIVE
  operator.

## 5. Plan

What is left, the most important first:

1. Two rotation threads of one session, after a re-register that does not cancel.
2. The web client's cells as a state that two parties write: `cells` of the
   component and `tab._cells`, which the agent and the sidebar change.
3. The terminal relay: liveness of two tasks.

## 6. Not modelled

LLM calls and prompts (their decisions are the provider's), listings of data sources,
logs and metrics (read-only I/O), the package classifier (one call and a cache), the
terminal relay (two tasks that copy bytes and keep nothing), the helpers that cells call
(`helpers.py`: read or list one source, plot), rendering, editing and persisting of
cells in the web client, deployment scripts (straight-line CLI calls).  Of the modelled
files: the token cache of the manager, two rotation threads of one session at once,
secrets in the hooks, the executor's variable introspection and output capture,
statistics in profiles, prices in the cost tracker, and aliases of SQL tables that
become equal.
