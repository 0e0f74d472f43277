-------------------------- MODULE ScheduledBackup --------------------------
(***************************************************************************)
(* Scheduled backups (crates/dbx-core/src/scheduled_backup): processes     *)
(* that compete for the lock file worker.lock, the leader's tick with its  *)
(* export worker and its poll (engine.rs), and the commands of users in    *)
(* any process (service.rs), all on the store of BackupStore and on the    *)
(* output files.  A process or a user's command may stop at any step; a    *)
(* store operation or a file removal may fail.                             *)
(*                                                                         *)
(* The heartbeat and the gate of the data migration are left out: nothing  *)
(* here reads the first, and the second only delays the lock.              *)
(***************************************************************************)
EXTENDS BackupStore

CONSTANTS
  Procs,        \* processes that run BackupService::serve
  Users,        \* commands in progress that delete or import
  NoProc,       \* no process
  Retention,    \* retention_count of the schedules, 0 keeps every run
  EventKinds,   \* what may happen, among the kinds of AllEvents
  MaxEvents     \* bound: how many events happen

Actors == Procs \cup Users

\* A process or a command ends without warning; a store operation or a removal
\* fails; a process is asked to stop or to drain; another program makes a file; a
\* schedule is saved or deleted.
AllEvents == {"crash", "failure", "stop", "file", "edit"}

NoRun == 0
\* What is at a path, when it is not the file of a run.
NoFile == 0
Foreign == MaxRuns + 1

ASSUME BackupAssumption ==
  /\ NoProc \notin Procs
  /\ Procs \cap Users = {}
  /\ Retention \in Nat
  /\ EventKinds \subseteq AllEvents
  /\ MaxEvents \in Nat

VARIABLES
  lock,      \* the process that holds worker.lock
  pc,        \* where serve and tick of a process are
  mode,      \* its stop and drain tokens
  job,       \* the run its tick has claimed and not finished
  token,     \* the cancellation token of the export
  worker,    \* where the export worker is
  wfile,     \* the file in the worker's copy of the run
  view,      \* the file in the watch channel
  poll,      \* the copy the poll took of it, or "idle"
  outcome,   \* the status the worker returned
  fs,        \* who made the file at a path: a run, Foreign, or NoFile
  stage,     \* what an actor does in cleanup or delete_runs
  cur,       \* the run it is at
  cstatus,   \* the status in its copy of that run
  cfile,     \* the file in its copy of that run
  shared,    \* did its snapshot show another run with that path?
  ids,       \* runs to delete, picked by retention or by the user
  todo,      \* copies of runs marked deleting and not handled yet
  failures,  \* failed operations so far
  events,    \* the other events that MaxEvents bounds
  exposed    \* history: runs that two deletions held at a time, that were
             \* recorded between the snapshot and the removal of a cleanup,
             \* whose record the poll overwrote with an older copy, or whose
             \* deletion ended early

procs == <<lock, pc, mode, job, token, worker, wfile, view, poll, outcome>>
hands == <<stage, cur, cstatus, cfile, shared, ids, todo>>
bounds == <<failures, events>>
vars == <<store, procs, fs, hands, bounds, exposed>>

Copies == [run : Runs, status : Statuses, file : Marks]

ServeTypeOK ==
  /\ lock \in Procs \cup {NoProc}
  /\ pc \in [Procs -> {"loop", "locked", "due", "claim", "check", "export",
                       "clean", "finish", "retain", "mark", "delete"}]
  /\ mode \in [Procs -> {"serve", "drain", "stop"}]
  /\ job \in [Procs -> Runs \cup {NoRun}]
  /\ token \in [Procs -> {"live", "cancelled"}]
  /\ worker \in [Procs -> {"none", "begin", "create", "write", "ended"}]
  /\ wfile \in [Procs -> Marks]
  /\ view \in [Procs -> Marks]
  /\ poll \in [Procs -> Marks \cup {"idle"}]
  /\ outcome \in [Procs -> Final]

HandsTypeOK ==
  /\ stage \in [Actors -> {"idle", "remove", "drop", "restore", "import"}]
  /\ cur \in [Actors -> Runs \cup {NoRun}]
  /\ cstatus \in [Actors -> Statuses]
  /\ cfile \in [Actors -> Marks]
  /\ shared \in [Actors -> {"yes", "no"}]
  /\ ids \in [Actors -> SUBSET Runs]
  /\ todo \in [Actors -> SUBSET Copies]

TypeOK ==
  /\ StoreTypeOK /\ ServeTypeOK /\ HandsTypeOK
  /\ fs \in [Paths -> Runs \cup {NoFile, Foreign}]
  /\ failures \in Nat /\ events \in Nat
  /\ failures + events <= MaxEvents
  /\ exposed \in SUBSET Runs

Init ==
  /\ StoreInit
  /\ lock = NoProc
  /\ pc = [p \in Procs |-> "loop"]
  /\ mode = [p \in Procs |-> "serve"]
  /\ job = [p \in Procs |-> NoRun]
  /\ token = [p \in Procs |-> "live"]
  /\ worker = [p \in Procs |-> "none"]
  /\ wfile = [p \in Procs |-> "none"]
  /\ view = [p \in Procs |-> "none"]
  /\ poll = [p \in Procs |-> "idle"]
  /\ outcome = [p \in Procs |-> "failed"]
  /\ fs = [place \in Paths |-> NoFile]
  /\ stage = [a \in Actors |-> "idle"]
  /\ cur = [a \in Actors |-> NoRun]
  /\ cstatus = [a \in Actors |-> "running"]
  /\ cfile = [a \in Actors |-> "none"]
  /\ shared = [a \in Actors |-> "no"]
  /\ ids = [a \in Actors |-> {}]
  /\ todo = [a \in Actors |-> {}]
  /\ failures = 0 /\ events = 0
  /\ exposed = {}

\* A store operation or a removal returned an error, within the budget.
Failure ==
  /\ "failure" \in EventKinds
  /\ failures + events < MaxEvents
  /\ failures' = failures + 1
  /\ UNCHANGED events

\* A deletion that ends early leaves a run marked, its file perhaps removed.
HalfDeleted(a) == {r \in Runs : cur[a] = r /\ stage[a] # "idle"}

\* Something else happens that MaxEvents bounds.
Event(kind) ==
  /\ kind \in EventKinds
  /\ failures + events < MaxEvents
  /\ events' = events + 1
  /\ UNCHANGED failures

\* stop is the parent of the export's token.
Cancelled(p) == token[p] = "cancelled" \/ mode[p] = "stop"

\* The locals of cleanup and delete_runs go out of scope.
Forget(a) ==
  /\ cur' = [cur EXCEPT ![a] = NoRun]
  /\ cstatus' = [cstatus EXCEPT ![a] = "running"]
  /\ cfile' = [cfile EXCEPT ![a] = "none"]
  /\ shared' = [shared EXCEPT ![a] = "no"]

GoTo(p, label) == pc' = [pc EXCEPT ![p] = label]

-----------------------------------------------------------------------------
(* serve: leadership *)

\* A process that is down, and will be started again, does not differ from one that
\* waits for the lock: both are in the loop.

\* The leader is asked to stop, or to finish its job and leave.
RequestStop(p, how) ==
  /\ lock = p /\ mode[p] # "stop" /\ mode[p] # how
  /\ Event("stop")
  /\ mode' = [mode EXCEPT ![p] = how]
  /\ UNCHANGED <<store, lock, pc, job, token, worker, wfile, view, poll, outcome, fs, hands, exposed>>

\* Leaving the loop drops the handle of the lock file.
Leave(p) ==
  /\ pc[p] = "loop" /\ mode[p] # "serve"
  /\ lock' = IF lock = p THEN NoProc ELSE lock
  /\ mode' = [mode EXCEPT ![p] = "serve"]
  /\ UNCHANGED <<store, pc, job, token, worker, wfile, view, poll, outcome, fs, hands, bounds, exposed>>

\* Mutant: a lock that another process holds is no obstacle.
AcquireAnyway(p) ==
  /\ pc[p] = "loop" /\ mode[p] = "serve"
  /\ lock' = p
  /\ GoTo(p, "locked")
  /\ UNCHANGED <<store, mode, job, token, worker, wfile, view, poll, outcome, fs, hands, bounds, exposed>>

Acquire(p) ==
  /\ pc[p] = "loop" /\ mode[p] = "serve"
  /\ lock = NoProc
  /\ lock' = p
  /\ GoTo(p, "locked")
  /\ UNCHANGED <<store, mode, job, token, worker, wfile, view, poll, outcome, fs, hands, bounds, exposed>>

\* Leadership starts when the store is recovered; when it cannot be, the handle
\* is dropped.  A tick follows unless the process drains.
Recover(p) ==
  /\ pc[p] = "locked"
  /\ \/ recover /\ GoTo(p, IF mode[p] = "drain" THEN "loop" ELSE "due")
        /\ UNCHANGED <<lock, bounds>>
     \/ Failure /\ lock' = NoProc /\ GoTo(p, "loop") /\ UNCHANGED store
  /\ UNCHANGED <<mode, job, token, worker, wfile, view, poll, outcome, fs, hands, exposed>>

-----------------------------------------------------------------------------
(* tick: from the queue to the worker *)

\* A tick begins, of the leader or right after recovery.
EnqueueDue(p) ==
  /\ pc[p] = "due" \/ (pc[p] = "loop" /\ mode[p] = "serve" /\ lock = p)
  /\ \/ /\ \E S \in SUBSET Due :
             \E owner \in [(issued + 1)..(issued + Cardinality(S)) -> S] : enqueue_due(S, owner)
        /\ GoTo(p, "claim")
        /\ UNCHANGED bounds
     \/ Failure /\ GoTo(p, "loop") /\ UNCHANGED store
  /\ UNCHANGED <<lock, mode, job, token, worker, wfile, view, poll, outcome, fs, hands, exposed>>

Claim(p) ==
  /\ pc[p] = "claim"
  /\ \/ \E r \in Runs :
          /\ claim(r)
          /\ job' = [job EXCEPT ![p] = r]
          /\ GoTo(p, "check")
          /\ UNCHANGED bounds
     \/ InState({"queued"}) = {} /\ GoTo(p, "loop") /\ UNCHANGED <<store, job, bounds>>
     \/ Failure /\ GoTo(p, "loop") /\ UNCHANGED <<store, job>>
  /\ UNCHANGED <<lock, mode, token, worker, wfile, view, poll, outcome, fs, hands, exposed>>

\* Reads the cancel flag and spawns the worker.  When the read fails, tick
\* returns, and the claimed run stays running.
SpawnWorker(p) ==
  /\ pc[p] = "check"
  /\ \/ /\ token' = [token EXCEPT ![p] = IF job[p] \in asked THEN "cancelled" ELSE "live"]
        /\ worker' = [worker EXCEPT ![p] = "begin"]
        /\ GoTo(p, "export")
        /\ UNCHANGED <<job, bounds>>
     \/ Failure /\ GoTo(p, "loop") /\ job' = [job EXCEPT ![p] = NoRun] /\ UNCHANGED <<token, worker>>
  /\ UNCHANGED <<store, lock, mode, wfile, view, poll, outcome, fs, hands, exposed>>

-----------------------------------------------------------------------------
(* execute and export_job, on the worker's thread *)

\* Mutant: an error of the export is not looked at.
WorkerEndsWell(p, result, file) ==
  /\ worker' = [worker EXCEPT ![p] = "ended"]
  /\ outcome' = [outcome EXCEPT ![p] = IF Cancelled(p) THEN "cancelled" ELSE "success"]
  /\ wfile' = [wfile EXCEPT ![p] = file]

WorkerEnds(p, result, file) ==
  /\ worker' = [worker EXCEPT ![p] = "ended"]
  /\ outcome' = [outcome EXCEPT ![p] =
                   IF Cancelled(p) THEN "cancelled" ELSE IF result = "ok" THEN "success" ELSE "failed"]
  /\ wfile' = [wfile EXCEPT ![p] = file]

\* Some cleanup has seen who lists the file at this place, and not removed it yet.
BeingRemoved(place) == \E a \in Actors : stage[a] = "remove" /\ path[cur[a]] = place

\* Preparation and the check that the path is free; an error on the way
\* (connection, metadata, snapshot, path taken) ends the worker with no file.
\* Then the file is recorded in the store, not owned, before it is created, and
\* announced on the channel; it stays in the worker's copy when that fails.  Check,
\* record and announcement are one step: a poll that misses the announcement is one
\* that has read the channel before it.
WorkerRecord(p) ==
  /\ worker[p] = "begin"
  /\ \/ /\ ~Cancelled(p) /\ fs[path[job[p]]] = NoFile
        /\ progress(job[p], "recorded")
        /\ exposed' = exposed \cup {r \in Runs : job[p] = r /\ BeingRemoved(path[r])}
        /\ worker' = [worker EXCEPT ![p] = "create"]
        /\ wfile' = [wfile EXCEPT ![p] = "recorded"]
        /\ view' = [view EXCEPT ![p] = "recorded"]
        /\ UNCHANGED <<outcome, bounds>>
     \/ WorkerEnds(p, "error", "none") /\ UNCHANGED <<store, view, exposed, bounds>>
     \/ Failure /\ WorkerEnds(p, "error", "recorded") /\ UNCHANGED <<store, view, exposed>>
  /\ UNCHANGED <<lock, pc, mode, job, token, poll, fs, hands>>

\* Mutant: a file that is there already is overwritten.
WorkerOverwrites(p) ==
  /\ worker[p] = "create"
  /\ fs' = [fs EXCEPT ![path[job[p]]] = job[p]]
  /\ worker' = [worker EXCEPT ![p] = "write"]
  /\ UNCHANGED <<store, lock, pc, mode, job, token, view, poll, wfile, outcome, hands, bounds, exposed>>

\* create_new: the export makes the file, or finds another program's and ends;
\* a file it did not create is taken out of the worker's copy.
WorkerCreate(p) ==
  /\ worker[p] = "create"
  /\ \/ /\ fs[path[job[p]]] = NoFile
        /\ fs' = [fs EXCEPT ![path[job[p]]] = job[p]]
        /\ worker' = [worker EXCEPT ![p] = "write"]
        /\ UNCHANGED <<wfile, outcome>>
     \/ WorkerEnds(p, "error", "none") /\ UNCHANGED fs
  /\ UNCHANGED <<store, lock, pc, mode, job, token, view, poll, hands, bounds, exposed>>

\* A progress event of the export: the channel now says that the file is owned.
WorkerEvent(p) ==
  /\ worker[p] = "write" /\ view[p] # "owned"
  /\ view' = [view EXCEPT ![p] = "owned"]
  /\ UNCHANGED <<store, lock, pc, mode, job, token, worker, wfile, poll, outcome, fs, hands, bounds, exposed>>

WorkerFinish(p) ==
  /\ worker[p] = "write"
  /\ \E result \in {"ok", "error"} : WorkerEnds(p, result, "owned")
  /\ UNCHANGED <<store, lock, pc, mode, job, token, view, poll, fs, hands, bounds, exposed>>

\* The worker panics: the run is taken from the channel, failed.
WorkerPanic(p) ==
  /\ worker[p] \in {"begin", "create", "write"}
  /\ Failure
  /\ worker' = [worker EXCEPT ![p] = "ended"]
  /\ outcome' = [outcome EXCEPT ![p] = "failed"]
  /\ wfile' = [wfile EXCEPT ![p] = view[p]]
  /\ UNCHANGED <<store, lock, pc, mode, job, token, view, poll, fs, hands, exposed>>

-----------------------------------------------------------------------------
(* cleanup, part one: which other runs list the file? *)

CleanupSnapshot(a, r) ==
  /\ shared' = [shared EXCEPT ![a] = IF SharedPath(r) THEN "yes" ELSE "no"]
  /\ stage' = [stage EXCEPT ![a] = "remove"]

-----------------------------------------------------------------------------
(* tick: the poll while the worker runs, and what follows it *)

\* Every 500 ms: the cancel flag (an error counts as set), the heartbeat (an
\* error cancels), and a copy of the channel's run ...
PollRead(p) ==
  /\ pc[p] = "export" /\ poll[p] = "idle" /\ worker[p] # "ended"
  /\ poll' = [poll EXCEPT ![p] = view[p]]
  /\ \/ /\ token' = [token EXCEPT ![p] = IF mode[p] = "stop" \/ job[p] \in asked THEN "cancelled" ELSE @]
        /\ UNCHANGED bounds
     \/ Failure /\ token' = [token EXCEPT ![p] = "cancelled"]
  /\ UNCHANGED <<store, lock, pc, mode, job, worker, wfile, view, outcome, fs, hands, exposed>>

\* ... which is then written to the store.
PollWrite(p) ==
  /\ poll[p] # "idle"
  /\ poll' = [poll EXCEPT ![p] = "idle"]
  /\ \/ /\ progress(job[p], poll[p])
        /\ exposed' = exposed \cup {r \in Runs : job[p] = r /\ poll[p] = "none" /\ listed[r] # "none"}
        /\ UNCHANGED <<token, bounds>>
     \/ Failure /\ token' = [token EXCEPT ![p] = "cancelled"] /\ UNCHANGED <<store, exposed>>
  /\ UNCHANGED <<lock, pc, mode, job, worker, wfile, view, outcome, fs, hands>>

\* The select sees the worker's result ...
Collected(p) == pc[p] = "export" /\ worker[p] = "ended" /\ poll[p] = "idle"

WorkerGone(p) ==
  /\ worker' = [worker EXCEPT ![p] = "none"]
  /\ wfile' = [wfile EXCEPT ![p] = "none"]
  /\ view' = [view EXCEPT ![p] = "none"]
  /\ token' = [token EXCEPT ![p] = "live"]
  /\ outcome' = [outcome EXCEPT ![p] = "failed"]

\* ... and cleans up after a run that is not a success: cleanup begins with the
\* snapshot, and when that fails the files stay.
CollectFailed(p) ==
  /\ Collected(p) /\ outcome[p] # "success"
  /\ WorkerGone(p)
  /\ cur' = [cur EXCEPT ![p] = job[p]]
  /\ cstatus' = [cstatus EXCEPT ![p] = outcome[p]]
  /\ cfile' = [cfile EXCEPT ![p] = wfile[p]]
  /\ \/ /\ CleanupSnapshot(p, job[p])
        /\ GoTo(p, "clean")
        /\ UNCHANGED bounds
     \/ Failure /\ GoTo(p, "finish") /\ UNCHANGED <<stage, shared>>
  /\ UNCHANGED <<store, lock, mode, job, poll, fs, ids, todo, exposed>>

\* The outcome is stored.  When that fails, tick returns, and the run stays running.
FinishFailed(p) ==
  /\ pc[p] = "finish"
  /\ job' = [job EXCEPT ![p] = NoRun]
  /\ \/ finish(job[p], cstatus[p], cfile[p]) /\ UNCHANGED bounds
     \/ Failure /\ UNCHANGED store
  /\ GoTo(p, "loop")
  /\ Forget(p)
  /\ UNCHANGED <<lock, mode, token, worker, wfile, view, poll, outcome, fs, stage, ids, todo, exposed>>

FinishSuccess(p) ==
  /\ Collected(p) /\ outcome[p] = "success"
  /\ WorkerGone(p)
  /\ job' = [job EXCEPT ![p] = NoRun]
  /\ \/ /\ finish(job[p], "success", wfile[p])
        /\ cur' = [cur EXCEPT ![p] = job[p]]
        /\ GoTo(p, "retain")
        /\ UNCHANGED bounds
     \/ Failure /\ GoTo(p, "loop") /\ UNCHANGED <<store, cur>>
  /\ UNCHANGED <<lock, mode, poll, fs, stage, cstatus, cfile, shared, ids, todo, exposed>>

\* The successes of the plan, newest first, without the first Retention: those
\* whose payload says success, also when a deletion has marked them.
Excess(s) ==
  LET Good == {q \in Present : plan[q] = s /\ status[q] = "success"}
  IN {r \in Good : Cardinality({q \in Good : q > r}) >= Retention}

RetainSnapshot(p) ==
  /\ pc[p] = "retain"
  /\ LET s == plan[cur[p]] IN
     IF s \in Schedules /\ enabled[s] # "absent" /\ Retention > 0
     THEN \/ ids' = [ids EXCEPT ![p] = Excess(s)] /\ GoTo(p, "mark") /\ UNCHANGED bounds
          \/ Failure /\ GoTo(p, "loop") /\ UNCHANGED ids
     ELSE GoTo(p, "loop") /\ UNCHANGED <<ids, bounds>>
  /\ Forget(p)
  /\ UNCHANGED <<store, lock, mode, job, token, worker, wfile, view, poll, outcome, fs,
                 stage, todo, exposed>>

-----------------------------------------------------------------------------
(* delete_runs, of retention and of the users' command *)

Held(r) == {a \in Actors : (cur[a] = r /\ stage[a] # "idle") \/ \E c \in todo[a] : c.run = r}

MarkDeleting(a, S) ==
  /\ mark_deleting(S)
  /\ todo' = [todo EXCEPT ![a] = {[run |-> r, status |-> status[r], file |-> listed[r]] : r \in S}]
  /\ exposed' = exposed \cup {r \in S : Held(r) # {}}

RetainMark(p) ==
  /\ pc[p] = "mark"
  /\ ids' = [ids EXCEPT ![p] = {}]
  /\ \/ /\ MarkDeleting(p, ids[p])
        /\ GoTo(p, IF ids[p] = {} THEN "loop" ELSE "delete")
        /\ UNCHANGED bounds
     \/ /\ ~ (ids[p] \subseteq InState(Final \cup {"deleting"}))
        /\ GoTo(p, "loop") /\ UNCHANGED <<store, todo, exposed, bounds>>
     \/ Failure /\ GoTo(p, "loop") /\ UNCHANGED <<store, todo, exposed>>
  /\ UNCHANGED <<lock, mode, job, token, worker, wfile, view, poll, outcome, fs,
                 stage, cur, cstatus, cfile, shared>>

\* The user's command; the runs to delete are picked on a screen that may be stale.
DeleteRuns(u, S) ==
  /\ stage[u] = "idle" /\ todo[u] = {} /\ S # {}
  /\ MarkDeleting(u, S)
  /\ UNCHANGED <<procs, fs, stage, cur, cstatus, cfile, shared, ids, bounds>>

\* After a run is handled: retention is over with the last of its list.
DeletionEnds(a, left) ==
  pc' = [p \in Procs |-> IF p = a /\ left = {} THEN "loop" ELSE pc[p]]

\* Of an imported run only the row goes.
DeleteImported(a) ==
  /\ stage[a] = "idle"
  /\ \E c \in todo[a] :
       /\ plan[c.run] = "imported"
       /\ \/ /\ remove_run(c.run)
             /\ todo' = [todo EXCEPT ![a] = @ \ {c}]
             /\ UNCHANGED bounds
          \/ Failure /\ todo' = [todo EXCEPT ![a] = {}] /\ UNCHANGED store
  /\ DeletionEnds(a, todo'[a])
  /\ UNCHANGED <<lock, mode, job, token, worker, wfile, view, poll, outcome, fs,
                 stage, cur, cstatus, cfile, shared, ids, exposed>>

\* The next marked run goes to cleanup, which begins with the snapshot.
DeleteNext(a) ==
  /\ stage[a] = "idle"
  /\ \E c \in todo[a] :
       /\ plan[c.run] # "imported"
       /\ todo' = [todo EXCEPT ![a] = @ \ {c}]
       /\ cur' = [cur EXCEPT ![a] = c.run]
       /\ cstatus' = [cstatus EXCEPT ![a] = c.status]
       /\ cfile' = [cfile EXCEPT ![a] = c.file]
       /\ \/ CleanupSnapshot(a, c.run) /\ UNCHANGED bounds
          \/ Failure /\ stage' = [stage EXCEPT ![a] = "restore"] /\ UNCHANGED shared
  /\ UNCHANGED <<store, procs, fs, ids, exposed>>

\* What follows cleanup: the leader stores the outcome of its job whether cleanup
\* succeeded or not, a deletion removes the row or puts it back.
AfterCleanup(a, result) ==
  IF a \in Procs /\ pc[a] = "clean"
  THEN stage' = [stage EXCEPT ![a] = "idle"] /\ GoTo(a, "finish")
  ELSE /\ stage' = [stage EXCEPT ![a] = IF result = "ok" THEN "drop" ELSE "restore"]
       /\ UNCHANGED pc

\* The file is removed when no other run lists it, it exists, and it is owned.
CleanupRemove(a) ==
  LET place == path[cur[a]] IN
  /\ stage[a] = "remove"
  /\ \/ /\ cfile[a] = "none" \/ shared[a] = "yes" \/ fs[place] = NoFile
        /\ cfile' = [cfile EXCEPT ![a] = "none"]
        /\ AfterCleanup(a, "ok")
        /\ UNCHANGED <<fs, bounds>>
     \/ /\ cfile[a] # "none" /\ shared[a] = "no" /\ fs[place] # NoFile
        /\ \/ cfile[a] = "recorded" /\ UNCHANGED bounds
           \/ cfile[a] = "owned" /\ Failure
        /\ AfterCleanup(a, "error")
        /\ UNCHANGED <<cfile, fs>>
     \/ /\ cfile[a] = "owned" /\ shared[a] = "no" /\ fs[place] # NoFile
        /\ fs' = [fs EXCEPT ![place] = NoFile]
        /\ cfile' = [cfile EXCEPT ![a] = "none"]
        /\ AfterCleanup(a, "ok")
        /\ UNCHANGED bounds
  /\ UNCHANGED <<store, lock, mode, job, token, worker, wfile, view, poll, outcome,
                 cur, cstatus, shared, ids, todo, exposed>>

\* The row goes, or comes back with the files that are left.  An error here
\* gives up the rest of the list.
DeleteSettle(a) ==
  /\ \/ stage[a] = "drop" /\ remove_run(cur[a]) /\ exposed' = exposed \ {r \in Runs : state'[r] = "gone"}
        /\ UNCHANGED <<todo, bounds>>
     \/ /\ stage[a] = "restore"
        /\ deletion_failed(cur[a], cstatus[a], cfile[a])
        /\ UNCHANGED <<todo, bounds, exposed>>
     \/ /\ stage[a] \in {"drop", "restore"} /\ Failure
        /\ todo' = [todo EXCEPT ![a] = {}]
        /\ exposed' = exposed \cup HalfDeleted(a)
        /\ UNCHANGED store
  /\ stage' = [stage EXCEPT ![a] = "idle"]
  /\ Forget(a)
  /\ DeletionEnds(a, todo'[a])
  /\ UNCHANGED <<lock, mode, job, token, worker, wfile, view, poll, outcome, fs, ids>>

-----------------------------------------------------------------------------
(* The other commands *)

Save(s) ==
  /\ migrated = 1 /\ Event("edit")
  /\ \E flag \in {"on", "off"}, timing_changed \in BOOLEAN : save_schedule(s, flag, timing_changed)
  /\ UNCHANGED <<procs, fs, hands, exposed>>

DeleteSchedule(s) ==
  /\ delete_schedule(s) /\ Event("edit")
  /\ UNCHANGED <<procs, fs, hands, exposed>>

\* The first thing a front end does (useScheduledDatabaseBackups).
Migrate ==
  /\ \E S \in SUBSET Schedules, time \in {0} : migrate(S, time)
  /\ UNCHANGED <<procs, fs, hands, bounds, exposed>>

RunNow(s) ==
  /\ enqueue(s)
  /\ UNCHANGED <<procs, fs, hands, bounds, exposed>>

Cancel(r) ==
  /\ r \notin asked
  /\ cancel(r)
  /\ UNCHANGED <<procs, fs, hands, bounds, exposed>>

\* import_files: the paths known to the history, and later the new row.
ImportCheck(u) ==
  /\ stage[u] = "idle" /\ todo[u] = {} /\ issued < MaxRuns
  /\ LET r == issued + 1 IN
     /\ fs[path[r]] # NoFile
     /\ ~SharedPath(r)
     /\ cur' = [cur EXCEPT ![u] = r]
  /\ stage' = [stage EXCEPT ![u] = "import"]
  /\ UNCHANGED <<store, procs, fs, cstatus, cfile, shared, ids, todo, bounds, exposed>>

\* The id is drawn now; the bound on ids makes the path follow it.
ImportInsert(u) ==
  /\ stage[u] = "import" /\ issued < MaxRuns
  /\ path[issued + 1] = path[cur[u]]
  /\ insert_completed(issued + 1)
  /\ stage' = [stage EXCEPT ![u] = "idle"]
  /\ Forget(u)
  /\ UNCHANGED <<procs, fs, ids, todo, bounds, exposed>>

-----------------------------------------------------------------------------
(* The environment *)

Clock ==
  /\ now < MaxTime
  /\ now' = now + 1
  /\ UNCHANGED <<path, plans, rows, served, procs, fs, hands, bounds, exposed>>

\* The process has made the file of its job, or says so.
Owning(p) ==
  \/ worker[p] = "write" \/ "owned" \in {wfile[p], view[p]}
  \/ pc[p] = "finish" /\ cfile[p] = "owned"

\* Another program puts a file at a path that no run has as its own: not in its row,
\* not in the hands of who deletes it or of the process that exports it.
ForeignFile(place) ==
  /\ fs[place] = NoFile /\ Event("file")
  /\ \A r \in Runs : path[r] = place =>
       /\ listed[r] # "owned" /\ Held(r) = {}
       /\ \A p \in Procs : job[p] = r => ~Owning(p)
  /\ fs' = [fs EXCEPT ![place] = Foreign]
  /\ UNCHANGED <<store, procs, hands, exposed>>

\* The leader ends, and is started again: the operating system releases its lock.
Crash(p) ==
  /\ lock = p /\ Event("crash")
  /\ lock' = NoProc
  /\ GoTo(p, "loop")
  /\ job' = [job EXCEPT ![p] = NoRun]
  /\ worker' = [worker EXCEPT ![p] = "none"]
  /\ wfile' = [wfile EXCEPT ![p] = "none"]
  /\ view' = [view EXCEPT ![p] = "none"]
  /\ poll' = [poll EXCEPT ![p] = "idle"]
  /\ stage' = [stage EXCEPT ![p] = "idle"]
  /\ ids' = [ids EXCEPT ![p] = {}]
  /\ todo' = [todo EXCEPT ![p] = {}]
  /\ mode' = [mode EXCEPT ![p] = "serve"]
  /\ token' = [token EXCEPT ![p] = "live"]
  /\ outcome' = [outcome EXCEPT ![p] = "failed"]
  /\ Forget(p)
  /\ exposed' = exposed \cup HalfDeleted(p)
  /\ UNCHANGED <<store, fs>>

\* The process of a user's command ends.
CrashCommand(u) ==
  /\ stage[u] # "idle" \/ todo[u] # {}
  /\ Event("crash")
  /\ stage' = [stage EXCEPT ![u] = "idle"]
  /\ todo' = [todo EXCEPT ![u] = {}]
  /\ Forget(u)
  /\ exposed' = exposed \cup HalfDeleted(u)
  /\ UNCHANGED <<store, procs, fs, ids>>

-----------------------------------------------------------------------------
(* Specification *)

DeleteStep(a) ==
  DeleteImported(a) \/ DeleteNext(a) \/ CleanupRemove(a) \/ DeleteSettle(a)

\* What the thread of serve does by itself; the poll's first step is only due.
ServeStep(p) ==
  \/ Leave(p) \/ Acquire(p) \/ Recover(p)
  \/ EnqueueDue(p) \/ Claim(p) \/ SpawnWorker(p) \/ PollWrite(p)
  \/ CollectFailed(p) \/ FinishFailed(p) \/ FinishSuccess(p)
  \/ RetainSnapshot(p) \/ RetainMark(p) \/ DeleteStep(p)

WorkerStep(p) == WorkerRecord(p) \/ WorkerCreate(p) \/ WorkerFinish(p)

Next ==
  \/ \E p \in Procs :
       \/ ServeStep(p) \/ PollRead(p)
       \/ WorkerStep(p) \/ WorkerEvent(p) \/ WorkerPanic(p)
       \/ Crash(p) \/ \E how \in {"drain", "stop"} : RequestStop(p, how)
  \/ \E u \in Users :
       \/ DeleteStep(u) \/ \E S \in SUBSET Runs : DeleteRuns(u, S)
       \/ ImportCheck(u) \/ ImportInsert(u) \/ CrashCommand(u)
  \/ \E s \in Schedules : Save(s) \/ DeleteSchedule(s)
  \/ \E s \in Schedules \cup {"one-shot"} : RunNow(s)
  \/ \E r \in Runs : Cancel(r)
  \/ Migrate \/ Clock
  \/ \E place \in Paths : ForeignFile(place)

Spec == Init /\ [][Next]_vars

\* Processes are started again (the desktop respawns its worker, systemd and the
\* login agents restart it), and the tasks and threads of a process are scheduled.
Fairness ==
  /\ \A p \in Procs : WF_vars(ServeStep(p)) /\ WF_vars(WorkerStep(p))
  /\ \A u \in Users : WF_vars(DeleteStep(u))

FairSpec == Spec /\ Fairness

-----------------------------------------------------------------------------
(* Properties *)

\* A schedule has at most one run that is queued or running, whoever asks for
\* runs: the scheduler of any leader, or users.
OneActivePerPlan ==
  \A r, q \in InState(Active) : r # q /\ plan[r] \in Schedules => plan[r] # plan[q]

\* A time at which a schedule was due gives one run, also when processes crash,
\* leadership moves, or the schedule is edited or deleted and saved again.
NoReplay == replays = 0

\* A run that a tick has in hand is running and its process is the leader:
\* finish, which has no guard, never overwrites an outcome or revives a row, and
\* no two processes export at a time.
InHandIsRunning ==
  \A p \in Procs : job[p] # NoRun => lock = p /\ state[job[p]] = "running"

\* A backup reported as successful has its file, however deletions, crashes,
\* recovery and runs with the same path interleave.  What the code does not
\* rule out (exposed): two deletions of the run at a time; a run that records its
\* file while a cleanup of the same path is between its snapshot and its removal;
\* a record erased by the poll; a deletion that ended early and is tried again.
SuccessHasFile ==
  \A r \in Runs : state[r] = "success" /\ plan[r] # "imported" /\ r \notin exposed =>
    listed[r] = "owned" /\ fs[path[r]] = r

\* A file that another program made is never removed: neither by the cleanup of
\* an export that lost the race for the path, nor by deleting a run that
\* recorded it, nor by deleting an import.
ForeignFileStays ==
  [][\A place \in Paths : fs[place] = Foreign => fs'[place] = Foreign]_vars

\* The history keeps the promises of RunLifecycle: the column state of a row is the
\* state of the run there, its plan the plan.
Lifecycle == INSTANCE RunLifecycle WITH state <- state, plan <- plan
KeepsLifecycle == Lifecycle!Spec

\* "Files recorded before the interruption remain visible": a file that a worker
\* recorded and created is listed by its run, once no process has it in hand.
RecordedStaysVisible ==
  \A r \in Runs : fs[path[r]] = r /\ state[r] = "failed" => listed[r] # "none"

\* Unless a store operation fails, a run that was asked for comes to an end, also
\* when its process crashes, stops or drains.
Settles ==
  \A r \in Runs : state[r] \in Active ~> (state[r] \notin Active \/ failures > 0)

\* A schedule whose time has come is served, also when the queue is at its
\* limit, leadership moves or the schedule's last run still works at that time:
\* it gets a new time, unless it is switched off or the ids are used up.
DueIsServed ==
  \A s \in Schedules :
    enabled[s] = "on" /\ next[s] <= now ~>
      (enabled[s] # "on" \/ next[s] > now \/ issued = MaxRuns \/ failures > 0)

=============================================================================
