# Formal models of DBX

DBX is a database client: a Rust core (`crates/dbx-core`) shared by a desktop
application (Tauri), a web server, an MCP server and a command line, talking to
databases through native drivers, JVM and Go agents and plugins.  Much of it is SQL
text, protocols and user interface.  What can go wrong without any single function
being wrong is elsewhere: statements that are cancelled, time out or outlive the
request that started them; transactions whose end is not acknowledged; receipts and
logs that must be right after a crash.  This directory models those parts in TLA+,
checks them with TLC on small instances and proves their safety properties with TLAPS
for instances of any size.

Paths below are relative to the repository.

## Inventory

| Part | State | Operations | Works with | What is hard |
|---|---|---|---|---|
| Running query registry, `crates/dbx-core/src/query/query_cancel.rs` | map of execution id to `RunningTask`, remembered completions, `RegisteredQuery` guards | register, set pool key, register interrupt, cancel, cancel and wait, cancel matching, detach, drop | every statement of every host; pool keepalive and eviction ask it whether a pool is in use | effects after the mutex is released, ids registered twice, late drops, grace timers |
| TYPE execution receipts, `crates/dbx-core/src/persistence/storage/type_execution_receipts.rs`, `finish_conditional_update` and `observe_type_execution` in `query_cancel.rs`, `src-tauri/src/commands/query.rs` | a durable row per execution id: binding and `database_terminal` | claim, finish, read twice around a wait | registry, storage, a client that lost the answer | repeated delivery, failing storage, restarts |
| SQL Server manual transactions, `crates/dbx-core/src/query/sqlserver_manual_transaction.rs` | map of sessions (busy, last activity), one locked connection per session, `EndedSessions` | begin, execute, commit, rollback, guard of a dropped execute, idle watcher, disconnect, shutdown | connection lifecycles, registry, TDS driver | dropped futures, half-read streams, lost acknowledgements, several owners of the end |
| MCP transaction owner, `crates/dbx-mcp/src/transaction.rs` | status, gate, channel of one command, cancellation, the connection | acquire, run, batch, cancel, clean up, disconnect | MCP server and session store, MySQL driver | dropped requests, timeouts, servers that end or chain transactions |
| Two-phase commit, `crates/dbx-core/src/query/two_phase_commit.rs` | durable log with one status; outcomes in memory | execute, recover, retries | participants given as closures; a library, nothing calls it yet | crashes between log and calls, lost replies |
| Connection pools and lifecycles, `crates/dbx-core/src/connection/mod.rs` | pools, lifecycles with a generation and a token, tunnels, keepalive tasks | create, touch, evict, invalidate, drain | everything that executes | eviction against use, reconnects in flight |
| Task supervisor, `crates/dbx-core/src/connection/task_supervisor.rs` | map of join handles, accepting flag | spawn once, spawn replace, stop, shut down | pools, cleanup guards | a shut down while tasks are being spawned |
| Scheduled backups, `crates/dbx-core/src/scheduled_backup` | SQLite tables of schedules, runs and jobs; files | save, enqueue, claim, progress, cancel, finish, retain, delete, recover | several hosts on one data directory | crashes, two processes, cancellation against completion |
| Durable state machine, `crates/dbx-core/src/persistence/state_persistence.rs` | versioned documents in SQLite, Redis or PostgreSQL | transition with compare-and-swap | two-phase commit (progress only) | retries against concurrent writers |
| MCP session store, `crates/dbx-mcp/src/session.rs`, and its users in `server.rs` and `http.rs` | opening, active and closing sessions; detached tasks that open and dispose | reserve, promote, resolve, close, restore, sweep, take all | tool calls, transaction owners, backend pools | calls cancelled between two steps, expiry, failed closes, shutdown |
| Tool approvals, `crates/dbx-core/src/ai/tool_approval.rs` | pending approvals by id | register, resolve, wait, drop | agent loop, hosts | timeout against a late answer |
| Drivers, agents, plugins, SQLite worker | processes and sockets | RPC | the core | external; appear as environment |
| SQL parsing, dialects, formats, cloud sync merge | none, or documents | pure functions | everything | out of reach of TLC beyond toy inputs |
| Front end, web routes, CLI, MCP server | UI and request state | decode, call the core | the core | appear as callers |

For each modelled part the properties that make it correct are listed with its module.
`PROJECT.json` lists every part with its status, and under `hazards` the lines where
the code is hard to test with the properties that watch them.

## Modules

| Module | Models | Checked by | Proved in |
|---|---|---|---|
| `RunningQueries` | the registry | `MCRunningQueries*` | `RunningQueries_proofs` |
| `TypeExecution` | TYPE receipts | `MCTypeExecution` | `TypeExecution_proofs` |
| `ManualTransaction` | SQL Server manual transactions | `MCManualTransaction*` | `ManualTransaction_proofs` |
| `TransactionOwner` | MCP transaction owner | `MCTransactionOwner*` | `TransactionOwner_proofs` |
| `TwoPhaseCommit` | the coordinator | `MCTwoPhaseCommit*` | `TwoPhaseCommit_proofs` |
| `BackupStore` | the tables of scheduled backups and the transactions on them | through `ScheduledBackup` | through `ScheduledBackup_proofs` |
| `ScheduledBackup` | processes, commands and files on top of `BackupStore` | `MCScheduledBackup*` | `ScheduledBackup_proofs`, `BackupFiles_proofs` |
| `RunLifecycle` | abstract: what the history promises of a run | as a property of `ScheduledBackup` | `ScheduledBackup_proofs` |
| `McpSessions` | the MCP session store with its calls and tasks | `MCMcpSessions` | `McpSessions_proofs` |

An `MC...` module only adds symmetry sets and names for model values; constants get
their values in the `.cfg` files.  A definition whose comment begins with "Mutant" is a
plausible bug of the definition that follows it: replacing that definition by it must
make the property it is paired with in `PROJECT.json` fail.

### RunningQueries

One step is one critical section of the mutex `inner`, or one effect that a call
performs after it has released it (cancel a displaced token, publish completion, run an
interrupt closure).  These effects are queued per thread in `todo` and performed by
`Perform`; a thread does nothing else before, but every other thread may.  The
`RunningTask` of a registration is what it was made with (`task`), the closure and the
pool key in it (`interrupt`, `pool`), its token (`cancelled`) and its completion channel
(`done`); `guard` is its `RegisteredQuery`: held by the executing task, detached to the
grace timer after a timeout (plain registrations only), or gone.  `stmt` is the statement on the server, which goes on whether or not anybody
waits.  Registrations have three kinds: plain, tracked (their completion is remembered)
and bound (tracked, with a token below that of the connection).

Properties: `InterruptFollowsCancel` (a closure handed over before, during or after a
cancel runs exactly when it should); `NoneIsForgotten`, which joins `AliveIsReachable`
(ids registered again, and the answer of `is_pool_active`, on which keepalive, idle
eviction and reconnects rely, for ids used on one connection only) and `GoneIsSignalled`; `MatchingIsComplete`;
`AnswersAreHonest`, which joins `TerminalMeansFinished` and `DatabaseTerminalIsHonest`
(what `cancel_and_wait` may say); `DetachedIsReclaimed` and `CallsReturn` (liveness).
`TerminalMeansFinished` is about one registration, the one whose completion the call
subscribed to: its owner has dropped its guard or (`Finished`) has been cancelled and is
either plain, where `cancel` itself publishes completion (see Findings), or replaced
under its id.  The answer from a remembered completion needs no subscription; it stands
for the latest registration of the id, which then has no guard any more.
The ghosts `fired` and `asked` record interrupts that ran and registrations a cancel was
addressed to.

### TypeExecution

A request is delivered with a binding (`execution_id` and everything else, of which only
equality matters, as one plan), claims a receipt, spawns a task, sends the statement,
gets a result that proves the statement over or not, and saves the receipt before it
answers.  `Crash` stops the backend between any two steps; receipts and statements
already on the server survive.  The registry's part is only how long an observer waits
between its two reads, so the wait may end at any time.

Properties: `AnswersAreReliable`, which joins `TerminalIsSettled` (an observer that hears
terminal may read the definitions back: no statement under this id can take effect any
more) and `DefiniteIsDurable`; `NoReplay`; `TerminalStays` (two reads around a wait never
take an answer back).

### ManualTransaction

One session from `begin` to its end.  Actors are the requests (execute, commit,
rollback), the guard a dropped execute leaves behind, the idle watcher and the
disconnect; each has a `pc`.  They share the entry in the session map (`sess`), the
connection and its lock, and the record in `EndedSessions`.  The TDS stream is the
sequence `sent` of commands the server has not executed and the sequence `replies` of
replies nobody has read: a command written while either is not empty would take
somebody else's reply for its own, which is what "interrupted streams are poisoned" in
the source is about.  Any await may be where a request is dropped (`DropRequest`).  Time
is a choice: a session may be found expired and an operation may time out whenever the
code looks.

Properties: `OutcomesAreHonest`, which joins `RecordIsHonest` and `RepliesAreHonest`
(committed or rolled back is said only when it is so), `CleanStream`, `CommittedIsKept`,
`NoLateSession` (a begin under way during a disconnect installs nothing), `SessionsEnd`
(liveness: a session does not stay busy and its transaction ends on the server).  A
disconnect may overwrite a definite rolled_back by unknown; that is conservative and
allowed.

Not in the model: the corridor of the JDBC agent transport inside `execute`; ATTENTION,
which is best effort and proves nothing; the status query before COMMIT and ROLLBACK,
which is merged with them.  Assumed of SQL Server and the driver: a batch that the server
rejects is read to its end, a batch answered with success and an active transaction has
not ended it, a session without a connection is rolled back.

### TransactionOwner

The worker `run_owner` alone touches the connection.  Clients wait for the permit
(`gate`), send one command through a channel of capacity one and wait for its answer; a
request may be dropped at any of these points, which the worker sees through the
command's own cancellation.  `wire` is the statement on the connection: written,
executed, answered.  The server (external) may end a transaction by itself, start
another one (COMMIT AND CHAIN, implicit commits) and report truthfully whether one is
open.  Statements that control transactions are rejected before they reach the owner
(`validate_transaction_sql_shape` in `crates/dbx-mcp/src/server.rs`), which is why a
probe that finds the transaction gone may say rolled back.

Properties: `OutcomesAreHonest` (`OutcomeIsHonest` and `RepliesAreHonest`),
`IdleHasNoTransaction`, `OneLiveCommand`, `UnknownIsFinal`, `CancelledIsClosed`, `RequestsAreAnswered`.

### TwoPhaseCommit

`execute` and `recover` for one transaction id, executed once: ids are taken to be unique,
since `execute` starts by overwriting whatever log the id has.  The log holds nothing but the status;
who acknowledged what is in memory and lost when the coordinator stops (a crash, or a
log write whose error is propagated).  Participants are called in order; a call may fail
without effect or, with `LostReplies`, after it took effect.  The progress the
coordinator also writes to the state machine is never read and is left out.

Properties: `LogIsHonest`, which joins `CommittedIsComplete`, `MixedIsMixed` and
`HeardCommitIsTold` (as long as the coordinator was not stopped, rolled_back is logged
over no participant of which a commit call returned success; `lost` is the set of those
that committed although no call said so, which the coordinator cannot know of);
`CommitNeedsUnanimity`; `Terminates`.

### BackupStore, ScheduledBackup and RunLifecycle

`BackupStore` has one operator per transaction of `store.rs`: the row of a run is its
`state` column, the `status` of its JSON payload, the list of its files reduced to one
file (`listed`: none, recorded but not made by this export, owned) and its `path`.  The
two copies of the state, column and payload, are kept apart because the code writes them
apart.  `ScheduledBackup` adds everything that calls it: `Procs` run `serve` and compete
for `worker.lock`; the leader recovers, then ticks: it queues due schedules, claims a
run, spawns the export worker on a thread, polls the watch channel that the worker
announces its record on (`view`, `poll`), collects the outcome, finishes the run and
applies retention.  `Users` are commands in progress, in any process, that delete or
import; saving, running, cancelling and migrating are single transactions.  Deletion is
as in `service.rs`: mark, take a snapshot, decide, remove the file, remove the row or put
it back, each a step with its own copy of the run (`cstatus`, `cfile`, `shared`).  A
process or a command may end at any step (`Crash`, `CrashCommand`), a store operation or
a removal may fail, another program may write a file.  Of the other program it is assumed
that it stays away from a path whose file a run counts as its own: in its row, in the
copy of who deletes it, or in the process that exports it (`ForeignFile`, `Owning`).
Where such a file has vanished, the code takes whatever is at the path for its own.

`RunLifecycle` is the promise without processes: a schedule has one active run, a queued
run is claimed or cancelled, a claimed one ends and never becomes active again, only a
run marked for deletion disappears.  `ScheduledBackup` implements it with the identity on
`state` and `plan`; every other variable is hidden.

Properties: `KeepsLifecycle` (the refinement); `InHandIsRunning` (finish has no guard, so
the run a tick works on must still be running and its process the leader);
`SuccessHasFile` (with the windows the code leaves open collected in the history
`exposed`: the poll's stale copy, a record made while a cleanup is about to remove the
path, deletions that overlap or end early);
`ForeignFileStays`; `NoReplay`; `Settles` and `DueIsServed` (liveness).

Abstracted: one file per run, one time scale instead of `next_after`'s calendar, names of
files reduced to whether two runs share a path, the databases that are exported.  The
worker checks its path, records its file and announces it in one step.  `migrate` brings
in the browser's schedules; the ended runs it copies from the browser's history are
left out, so `SuccessHasFile` and `KeepsLifecycle` say nothing of them.

### McpSessions

A method of the store runs under its mutex and is one step.  Tool calls open, use and
close sessions; each first awaits the cleanup of the sessions it found expired, and may
be cancelled at that or any later await (`CancelCall`).  Opening with transactions and
disposing happen in detached tasks (`opener`, `cleanup`), which go on when the call is
gone: that is the point of the acknowledgement in `spawn_transaction_session_open`.  The
HTTP shutdown cleans up with a server whose store is a new one, so what it finishes or
restores changes nothing in the store the calls use.  The transaction owner is seen from
outside only (cancelled, closed); `CancelledIsClosed` of `TransactionOwner` is what the
fairness of `OwnerEnds` stands for.

Properties: `NothingIsLeftBehind` (an owner or a pinned pool belongs to a session of the
store or to a task that disposes of it), `ActiveIsUndisturbed` (a session that calls can
resolve is in no task's hands), `ReservationsEnd` (liveness: opening and closing do not
last).  Three exceptions are part of the statements because the code does not exclude
them: a pool pinned again by a call that resolved its session before it was closed, a
pool the backend failed to close, and a session whose call was cancelled while it awaited
the cleanup of others, before it spawned the task for its own; such a session stays in
opening or closing and counts against the limit.  The shutdown does not look at sessions
that are opening; one promoted afterwards stays active until the store is dropped.
A call that executes is modelled by its plain path: it creates its pool, if it needs one,
and returns in one step; batches would do so repeatedly.

## Runs

| Run | Instance | Shows |
|---|---|---|
| `registry` | 2 registrations of 2 ids or of one used again, 1 caller | all safety properties of the registry |
| `registry_live` | 1 registration, 2 callers, fairness | detached entries are reclaimed, calls return |
| `registry_terminal` | 1 registration | violation, see Findings |
| `type_execution` | 2 ids, 2 plans, 3 requests, 2 observers, 1 restart | receipts are right under repetition, failure and restart |
| `manual` | 2 requests, 2 batches each, watcher, disconnect, shutdown, fairness | honest outcomes, clean stream, sessions and transactions end |
| `owner` | 2 clients, 2 transactions, fairness | honest outcomes and replies, a cancelled owner closes, clients are answered |
| `two_phase` | 3 participants, 2 retries, 2 crashes, 12 failed calls, lost replies | safety of the log, termination |
| `two_phase_crash` | 2 participants, 1 crash | violation, see Findings |
| `backup` | 2 processes, 1 command, 1 schedule, 2 runs, 2 paths (own or shared), 1 event | refinement of `RunLifecycle`, leadership, files |
| `backup_live` | 1 process, 1 schedule, 2 runs, limit of 1 pending, 1 event, fairness | runs end, schedules are served once |
| `backup_stale` | 2 processes, 1 run, 1 crash | violation, see Findings |
| `sessions` | 2 calls, 2 sessions, limit of 2, 1 fault, fairness | nothing left behind, reservations end |

Bounds.  The registry compares registrations pairwise (an entry and the guard, closure
or completion that may belong to it), so two registrations show every confusion of one
with another; a second caller matters for liveness only, because an effect that is still
to be performed outside the mutex already interleaves with everything.  For receipts,
three deliveries for two ids and two plans give a repeated delivery, a conflicting one
and an unrelated one; two observers are what `TerminalStays` compares.  Two requests on a
manual session give one that executes or ends and one that interferes, while watcher,
guard and disconnect are always there; two batches give a batch after a batch.  Two
transactions let a chained or a second transaction be mistaken for the first.  Three
participants give one that committed, one that failed and one not called yet; with two
retries each can fail in every round, and two crashes include one during recovery.  Two
backup processes give a leader and its successor; two runs give an old one that retention
or a command deletes and a new one that may share its path; one event (a crash, a failed
operation or a foreign file) at any step gives every window between two steps once, and
the theorems have no such bound.  Two sessions and two calls let one call expire, close
or use the session of the other; one fault is one cancelled call or one pool not closed.
Where theorems exist they remove these bounds.

Runs without deadlock checking are those where the system stops by design: a transaction
with a final status, a manual session that has ended, backups when their ids and events
are used up, sessions after the shutdown.

## Fairness

- Registry: calls that began take their mutex (which nobody keeps) or wait with a
  timeout, and the grace timer fires.  Nothing is assumed of the owners of statements or
  of the server.
- Manual transactions: tasks that can run are polled; the server executes what it has
  received and notices a closed connection; the watcher's timer fires.  No query need
  time out and no request need be dropped.
- Transaction owner: every wait of the worker ends, with a timeout at the latest;
  `tokio::select!` without `biased` chooses at random, so a pending cancellation is not
  passed over for ever (strong fairness of leaving the loop once cancelled).
- Scheduled backups: processes are started again (the desktop respawns its worker,
  systemd and the login agents restart it), their tasks and export threads run.  Nobody
  need edit, cancel or delete; the poll's read of the channel need not happen.
- MCP sessions: calls and spawned tasks are polled, connecting ends with a timeout at the
  latest, a cancelled owner ends.  No session need expire and no call be cancelled.
- Two-phase commit: the coordinator runs, somebody calls `recover` for what was left
  unfinished, and calls fail a bounded number of times.

## Theorems

All are proved by TLAPS without further assumptions than the `ASSUME`s of the modules
(constants are disjoint, bounds are natural numbers).

- `TypeExecution_proofs`: `TypeCorrect`, `Settled`, `OneExecution`, `DurableAnswer`,
  `ReliableAnswers`, `NoStaleAnswer`.  None of the properties is inductive, since they speak of statements
  and answers but not of who may still send.  The strengthening `IInv` says who holds a
  receipt (`HolderInv`: the requests that went past the claim and still matter have
  different ids, and the receipt carries their binding), that what is about to be saved
  is over (`TaskInv`), what a terminal receipt stands for (`ReceiptInv`) and that what
  was told is in it (`ToldInv`).
- `TransactionOwner_proofs`: `TypeCorrect`, `HonestOutcome`, `HonestReplies`,
  `HonestOutcomes`, `IdleIsIdle`, `UnknownFinal`, `OneCommand`.  The argument goes from the server to the
  clients: at most the last transaction is open and a fate that is settled stays
  (`FateInv`, `FateStep`); as long as no statement has been executed since, status is
  what the server has (`SyncInv`, `WorkerInv`); so what is published and told is true
  (`SessionInv`).  `GateInv`, separately, ties commands to the permit.
- `TwoPhaseCommit_proofs`: `TypeCorrect`, `CommittedComplete`, `Unanimity`,
  `MixedHonest`, for any participants, retries and crashes, from where the coordinator
  can be for each status (`PhaseInv`), who has voted (`VoteInv`), whom `commit_phase` has
  still to call (`CommitInv`) and what it was told (`AckInv`).  `HeardCommitTold` holds
  until the coordinator stops (`ReliableInv`: until then whoever has committed is
  acknowledged or `lost`); the run `two_phase_crash` shows that the condition is
  needed.  `HonestLog` joins the three statements about the log.
- `ScheduledBackup_proofs`: `TypeCorrect`, `InHand`, `OneActive`, `OneRunForATime` and
  `Refinement`, for any processes, commands, schedules, runs, paths and events.  The
  inductive invariant is `Safe`: the type invariant and `Thread` (at each `pc` who holds
  the lock and what is in hand), `EndedCopies` and `EndedRows` (the runs in a deletion's
  hands, and the rows whose payload says that they ended, are not active), `FreshIds`
  (ids not issued are absent) and `InHandIsRunning`.  Each is needed: finish writes
  without a guard, so that it writes the outcome of a running row rests on who can have
  touched the row since the claim, and that rests on what every other actor's copies can
  still contain.  Each step of `ScheduledBackup` is then one step of `RunLifecycle` or
  leaves `state` and `plan` alone.
- `BackupFiles_proofs`: `SuccessFile` and `ForeignStays`, on top of `Safe`.  Files are
  shared by path, so that the file of a run is there depends on every cleanup of every
  other run.  `FilesSafe` adds what the worker of a process says of its file at each step
  (`WorkerInv`), that a run that has ended says how in both places (`SettledRows`), that
  an actor has one copy of a run (`CopyInv`), of one that has ended (`HeldInv`), and for
  the runs outside `exposed` that one actor holds them, with a copy that says what the
  row says (`HoldInv`), and that from the record on they list their file and no cleanup
  is past its snapshot and about to remove it for another run (`FileInv`).  `ClaimInv` is
  about all runs: no foreign file is at the path of a run whose file somebody counts as
  its own.  The lemmas `...After` each follow one piece of state through all actions; the
  invariants then follow without going through the actions again.
- `McpSessions_proofs`: `TypeCorrect`, `NothingLeft` and `Undisturbed`, for any number of
  calls, sessions, cancelled calls and pools that are not closed.  A session changes hands
  several times (call, store, opener, cleanup), and no single one of them sees that
  something is left; `IInv` adds what each holder relies on: a call that has reserved a
  session is the only one and its session waits for it (`CallsInv`), where the session of
  a task can be in the store (`TasksInv`), and what a task that has come this far has
  released (`GoodsInv`).  The four steps of a call that end in `GoOn` are handled
  together (`Moved`).

- `ManualTransaction_proofs`: `TypeCorrect`, `HonestOutcomes`, `NoLate`, `StreamIsClean`
  and `CommitIsKept`, for any number of requests and batches.  `OutcomesAreHonest` speaks
  of what was recorded; that a reply read from the stream is the reply to the command
  just sent is the discipline of the stream, and that rests on who may touch it.  `IInv`
  goes that way: which step an actor can be at and with which arguments (`PhaseInv`,
  `StepsInv`), that the session has one owner, besides a disconnect that waits for an
  execute to close the connection behind it (`OwnerInv`), that an owner that may write
  finds the stream clean and one that reads finds the answer to its own command
  (`StreamInv`), hence what is about to be recorded is true (`TruthInv`); and that nobody
  is left to overwrite a recorded commit (`KeptInv`).
- `RunningQueries_proofs`: `TypeCorrect`, `NoneForgotten`, `InterruptsFollow`,
  `HonestAnswers` and `CompleteMatching`, for any number of registrations, ids,
  connections and callers.  First the lemmas about effects: what a thread takes on and
  performs changes who has what pending, and nothing else.  Every step is one of ten
  steps of the registry (`RegistryStep`: owners and timers drop guards alike, callers
  cancel an entry or change nothing).  `IInv` says that the map holds the latest
  registration of an id (`MapInv`) and whoever lives uncancelled (`AliveInv`), where pool
  keys, completions and closures can be (`PoolInv`, `DoneInv`, `ClosureInv`), what a call
  is about (`CallInv`), and that what `cancel_matching` found is settled or still to be
  cancelled (`MatchInv`), which no step of anybody else undoes (`SettledStep`).  `HonestAnswers` rests on
  `StopInv`: completion is published only for a registration whose guard is gone or whose
  token is cancelled, and a thread that is about to publish it otherwise cancels the
  token first.  That is about the order of the effects after the mutex is released.

Only model-checked: liveness (TLAPS does not reason about fairness and ENABLED).

## Findings

1. `registry_terminal`: `cancel_and_wait` of a plain registration reports terminal while
   the owner still executes, because `cancel` itself publishes completion.  The comment
   on the function says it waits for the owner.
2. `two_phase_crash`: after a partly successful commit the log says rolling_back; a
   coordinator that stops there recovers to rolled_back, although a participant has
   committed.  The comment on `commit_phase` says partial success is always reported so
   that callers can mark it mixed; the log does not keep it.
3. `backup_stale`: the poll writes a copy of the run that it took before the worker
   recorded its file; the record is gone from the row, and after a crash the partial file
   is in no run.  `docs/background-database-backups.md` says that recorded files remain
   visible.

Five observations without a run: the closure of a cancelled statement whose id was
registered again lands in the successor's entry (`InterruptFollowsCancel` excepts ids
used twice); when an id is used again on another connection, `set_pool_key` of the older
owner writes its pool key into the successor's entry, so that the pool of the running
statement does not count as active (the proof of `NoneIsForgotten` failed there; the
property excepts such ids, `SamePool`); when two commands delete a run and another run of
the same path is exported meanwhile, the slower one removes the new file under the worker
that writes it, and the cleanup of that export would then remove what another program put
there (the proof of `ForeignFileStays` failed there, and led to `Owning`); the
sessions named as lost under McpSessions; and a participant that commits while every
reply to the coordinator's commit calls is lost, over which rolled_back is logged.

## Not modelled

Drivers, agents, plugins and servers are environment: they appear as statements that run,
end, fail or lose their reply.  SQL parsing, dialects and formats are pure functions on
text.  The front end, web routes, CLI and MCP request decoding are callers.  Cloud sync,
storage schema and start-up recovery are mostly data transformation and file I/O.

## Plan

1. Done: the registry, receipts, manual transactions, transaction owner, two-phase
   commit, scheduled backups with their abstract specification, MCP sessions; theorems
   for all of them.
2. `TaskSupervisor` and, composed with it, the keepalive and eviction of pools in
   `connection/mod.rs` against `RunningQueries`' `is_pool_active`.
3. `ToolApproval`, and `StateMachine` (compare-and-swap with retries).
4. An abstract specification of "an outcome is told honestly" that both
   `TransactionOwner` and `ManualTransaction` implement.
