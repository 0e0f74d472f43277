---------------------------- MODULE BackupStore ----------------------------
(***************************************************************************)
(* The durable store of scheduled backups (crates/dbx-core/src/            *)
(* scheduled_backup/store.rs): the schedules and the runs of state.db and  *)
(* the operations on them.  Every operation is one SQLite transaction, so  *)
(* it is one step here; an operation that fails changes nothing.           *)
(*                                                                         *)
(* A run records one file, at a path that the naming template of its plan  *)
(* gives: templates without {runId} may give several runs one path.        *)
(* One unit of time is the interval of a schedule, so next_after(t) is     *)
(* t + 1.  Names, progress, errors and timestamps are left out, and so is  *)
(* rename, which changes nothing else.                                     *)
(***************************************************************************)
EXTENDS Naturals, FiniteSets

CONSTANTS
  Schedules,    \* ids of backup schedules
  MaxRuns,      \* bound: run ids handed out (uuids in the code, never reused)
  Paths,        \* output paths
  Namings,      \* ways in which naming templates may give paths to the runs
  MaxPending,   \* queued and running runs allowed (100 in the code)
  MaxTime       \* bound: the clock

Runs == 1..MaxRuns

ASSUME StoreAssumption ==
  /\ MaxRuns \in Nat
  /\ Namings \subseteq [Runs -> Paths]
  /\ MaxPending \in Nat \ {0}
  /\ MaxTime \in Nat \ {0}
  /\ IsFiniteSet(Schedules)
  /\ {"one-shot", "imported"} \cap Schedules = {}

VARIABLES
  path,     \* the path that its template gives to each run; never changes
  now,      \* the clock
  enabled,  \* a schedule: "absent", or its enabled flag
  next,     \* BackupSchedule.next_run_at
  migrated, \* the 'migrated' key of metadata
  issued,   \* run ids handed out so far, in the order of created_at
  state,    \* the column runs.state; "absent" before the insert, "gone" after the delete
  status,   \* status in runs.payload
  listed,   \* the file in runs.payload: none, recorded, or recorded as owned
  plan,     \* runs.schedule_id, or the source of a run that has none
  asked,    \* running runs with cancel = 1; the column is not read for others
  last,     \* history: when enqueue_due last served the schedule
  replays   \* history: runs it inserted for a time that already had one

plans == <<enabled, next, migrated>>
rows == <<issued, state, status, listed, plan, asked>>
served == <<last, replays>>
store == <<path, now, plans, rows, served>>

Final == {"success", "failed", "cancelled"}
Active == {"queued", "running"}
States == Final \cup Active \cup {"absent", "deleting", "gone"}
Statuses == Final \cup {"running"}
Marks == {"none", "recorded", "owned"}
Plans == Schedules \cup {"one-shot", "imported"}

StoreTypeOK ==
  /\ path \in [Runs -> Paths]
  /\ now \in 0..MaxTime
  /\ enabled \in [Schedules -> {"absent", "on", "off"}]
  /\ next \in [Schedules -> 0..MaxTime + 1]
  /\ migrated \in {0, 1}
  /\ issued \in 0..MaxRuns
  /\ state \in [Runs -> States]
  /\ status \in [Runs -> Statuses]
  /\ listed \in [Runs -> Marks]
  /\ plan \in [Runs -> Plans]
  /\ asked \in SUBSET Runs
  /\ last \in [Schedules -> 0..MaxTime]
  /\ replays \in Nat

StoreInit ==
  /\ path \in Namings
  /\ now = 1
  /\ enabled = [s \in Schedules |-> "absent"]
  /\ next = [s \in Schedules |-> 0]
  /\ migrated = 0
  /\ issued = 0
  /\ state = [r \in Runs |-> "absent"]
  /\ status = [r \in Runs |-> "running"]
  /\ listed = [r \in Runs |-> "none"]
  /\ plan = [r \in Runs |-> "one-shot"]
  /\ asked = {}
  /\ last = [s \in Schedules |-> 0]
  /\ replays = 0

Present == {r \in Runs : state[r] \notin {"absent", "gone"}}
InState(S) == {r \in Runs : state[r] \in S}
active(s) == \E r \in InState(Active) : plan[r] = s
Oldest(S, r) == r \in S /\ \A q \in S : r <= q

\* Some other row lists the path of r.
SharedPath(r) ==
  \E q \in Present \ {r} : listed[q] # "none" /\ path[q] = path[r]

-----------------------------------------------------------------------------
(* Schedules *)

\* The optimistic check of updated_at is left out: a refused save changes
\* nothing.  A new schedule, and one whose timing changed or that was enabled,
\* gets a new time.
save_schedule(s, flag, timing_changed) ==
  /\ ~active(s)
  /\ enabled' = [enabled EXCEPT ![s] = flag]
  /\ next' = [next EXCEPT ![s] =
                 IF \/ enabled[s] = "absent"
                    \/ timing_changed
                    \/ enabled[s] = "off" /\ flag = "on"
                 THEN now + 1 ELSE @]
  /\ UNCHANGED <<path, now, migrated, rows, served>>

delete_schedule(s) ==
  /\ enabled[s] # "absent" /\ ~active(s)
  /\ enabled' = [enabled EXCEPT ![s] = "absent"]
  /\ UNCHANGED <<path, now, next, migrated, rows, served>>

\* The browser's schedules keep the time they had, also a missed one.
\* INSERT OR IGNORE: what the store has stays.  The ended runs of the browser's
\* history that are inserted with them are left out.
migrate(S, time) ==
  /\ migrated = 0
  /\ migrated' = 1
  /\ enabled' = [s \in Schedules |-> IF s \in S /\ enabled[s] = "absent" THEN "on" ELSE enabled[s]]
  /\ next' = [s \in Schedules |-> IF s \in S /\ enabled[s] = "absent" THEN time ELSE next[s]]
  /\ UNCHANGED <<path, now, rows, served>>

-----------------------------------------------------------------------------
(* The queue *)

\* insert_job for the runs New, which belong to the plans owner gives.
insert_job(New, owner) ==
  /\ Cardinality(InState(Active)) + Cardinality(New) <= MaxPending
  /\ issued' = issued + Cardinality(New)
  /\ state' = [r \in Runs |-> IF r \in New THEN "queued" ELSE state[r]]
  /\ plan' = [r \in Runs |-> IF r \in New THEN owner[r] ELSE plan[r]]
  /\ UNCHANGED <<path, now, status, listed, asked, migrated>>

\* The Run command, of a schedule or of a one-shot configuration.
enqueue(s) ==
  /\ s \in Schedules => enabled[s] # "absent" /\ ~active(s)
  /\ issued < MaxRuns
  /\ insert_job({issued + 1}, [r \in {issued + 1} |-> s])
  /\ UNCHANGED <<enabled, next, served>>

\* Mutant: a run of the schedule that is still active does not hold back the next.
DueWhileActive == {s \in Schedules : enabled[s] = "on" /\ next[s] <= now}

\* Mutant: a time that was missed is not made up for.
DueExactly == {s \in Schedules : enabled[s] = "on" /\ next[s] = now /\ ~active(s)}

Due == {s \in Schedules : enabled[s] = "on" /\ next[s] <= now /\ ~active(s)}

\* Mutant: the schedule keeps its time.
enqueue_due_keeps_time(S, owner) ==
  /\ S = Due /\ issued + Cardinality(S) <= MaxRuns
  /\ \A r, q \in (issued + 1)..(issued + Cardinality(S)) : owner[r] = owner[q] => r = q
  /\ insert_job((issued + 1)..(issued + Cardinality(S)), owner)
  /\ last' = [s \in Schedules |-> IF s \in S THEN now ELSE last[s]]
  /\ replays' = replays + Cardinality({s \in S : last[s] = now})
  /\ UNCHANGED <<enabled, next>>

\* The loop stops at the limit of pending runs (here also when the ids are used
\* up), so only S of the due schedules are served; each gets one run, and the next
\* time after now.
enqueue_due(S, owner) ==
  LET New == (issued + 1)..(issued + Cardinality(S)) IN
  /\ S \subseteq Due
  /\ S # Due => \/ Cardinality(InState(Active)) + Cardinality(S) = MaxPending
                \/ issued + Cardinality(S) = MaxRuns
  /\ issued + Cardinality(S) <= MaxRuns
  /\ \A r, q \in New : owner[r] = owner[q] => r = q
  /\ insert_job(New, owner)
  /\ next' = [s \in Schedules |-> IF s \in S THEN now + 1 ELSE next[s]]
  /\ last' = [s \in Schedules |-> IF s \in S THEN now ELSE last[s]]
  /\ replays' = replays + Cardinality({s \in S : last[s] = now})
  /\ UNCHANGED enabled

claim(r) ==
  /\ Oldest(InState({"queued"}), r)
  /\ state' = [state EXCEPT ![r] = "running"]
  /\ UNCHANGED <<path, now, plans, issued, status, listed, plan, asked, served>>

\* Mutant: the payload takes over the state of the row.
cancel_copies_state(r) ==
  /\ state[r] \in Active
  /\ asked' = IF state[r] = "running" THEN asked \cup {r} ELSE asked
  /\ state' = [state EXCEPT ![r] = IF @ = "queued" THEN "cancelled" ELSE @]
  /\ status' = [status EXCEPT ![r] = state[r]]
  /\ UNCHANGED <<path, now, plans, issued, listed, plan, served>>

cancel(r) ==
  /\ state[r] \in Active
  /\ asked' = IF state[r] = "running" THEN asked \cup {r} ELSE asked
  /\ state' = [state EXCEPT ![r] = IF @ = "queued" THEN "cancelled" ELSE @]
  /\ status' = [status EXCEPT ![r] = IF state[r] = "queued" THEN "cancelled" ELSE @]
  /\ UNCHANGED <<path, now, plans, issued, listed, plan, served>>

progress(r, mark) ==
  /\ listed' = [listed EXCEPT ![r] = IF state[r] = "running" THEN mark ELSE @]
  /\ UNCHANGED <<path, now, plans, issued, state, status, plan, asked, served>>

\* The row is written whatever its state; a schedule whose time has passed
\* meanwhile gets a new one.
finish(r, outcome, mark) ==
  /\ state' = [state EXCEPT ![r] = outcome]
  /\ status' = [status EXCEPT ![r] = outcome]
  /\ listed' = [listed EXCEPT ![r] = mark]
  /\ next' = [s \in Schedules |->
                IF s = plan[r] /\ enabled[s] # "absent" /\ next[s] <= now THEN now + 1 ELSE next[s]]
  /\ asked' = asked \ {r}
  /\ UNCHANGED <<path, now, enabled, migrated, issued, plan, served>>

\* Mutant: only deletions are given up.
recover_deletions ==
  LET Left == InState({"deleting"}) IN
  /\ state' = [r \in Runs |-> IF r \in Left THEN "failed" ELSE state[r]]
  /\ status' = [r \in Runs |-> IF r \in Left THEN "failed" ELSE status[r]]
  /\ asked' = {}
  /\ UNCHANGED <<path, now, plans, issued, listed, plan, served>>

\* The new leader gives up what a previous one left, and every deletion.
recover ==
  LET Left == InState({"running", "deleting"}) IN
  /\ state' = [r \in Runs |-> IF r \in Left THEN "failed" ELSE state[r]]
  /\ status' = [r \in Runs |-> IF r \in Left THEN "failed" ELSE status[r]]
  /\ asked' = {}
  /\ UNCHANGED <<path, now, plans, issued, listed, plan, served>>

-----------------------------------------------------------------------------
(* Finished runs *)

\* An imported backup: a finished run of no schedule, its file not owned.
insert_completed(r) ==
  /\ issued' = r
  /\ state' = [state EXCEPT ![r] = "success"]
  /\ status' = [status EXCEPT ![r] = "success"]
  /\ listed' = [listed EXCEPT ![r] = "recorded"]
  /\ plan' = [plan EXCEPT ![r] = "imported"]
  /\ UNCHANGED <<path, now, plans, asked, served>>

\* One id that is not there, or not finished, and nothing is marked.
mark_deleting(S) ==
  /\ S \subseteq InState(Final \cup {"deleting"})
  /\ state' = [r \in Runs |-> IF r \in S THEN "deleting" ELSE state[r]]
  /\ UNCHANGED <<path, now, plans, issued, status, listed, plan, asked, served>>

\* Mutant: the row goes whatever has become of it.
remove_any_run(r) ==
  /\ state' = [state EXCEPT ![r] = "gone"]
  /\ UNCHANGED <<path, now, plans, issued, status, listed, plan, asked, served>>

\* The row goes, and its payload with it, unless recovery has taken the run back.
remove_run(r) ==
  /\ state' = [state EXCEPT ![r] = IF @ = "deleting" THEN "gone" ELSE @]
  /\ status' = [status EXCEPT ![r] = IF state[r] = "deleting" THEN "running" ELSE @]
  /\ listed' = [listed EXCEPT ![r] = IF state[r] = "deleting" THEN "none" ELSE @]
  /\ UNCHANGED <<path, now, plans, issued, plan, asked, served>>

deletion_failed(r, outcome, mark) ==
  /\ state' = [state EXCEPT ![r] = IF @ = "deleting" THEN outcome ELSE @]
  /\ status' = [status EXCEPT ![r] = IF state[r] = "deleting" THEN outcome ELSE @]
  /\ listed' = [listed EXCEPT ![r] = IF state[r] = "deleting" THEN mark ELSE @]
  /\ UNCHANGED <<path, now, plans, issued, plan, asked, served>>

=============================================================================
