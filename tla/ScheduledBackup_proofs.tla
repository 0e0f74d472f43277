------------------------ MODULE ScheduledBackup_proofs ------------------------
(***************************************************************************)
(* Proofs about ScheduledBackup, for any number of processes, commands,    *)
(* schedules, runs and paths, and any limit of pending runs.               *)
(***************************************************************************)
EXTENDS ScheduledBackup, FiniteSetTheorems, TLAPS

\* The operations of the store that insert rows or close a run keep its type.
LEMMA EnqueueDueFacts ==
  ASSUME StoreTypeOK, NEW S \in SUBSET Due,
         NEW owner \in [(issued + 1)..(issued + Cardinality(S)) -> S], enqueue_due(S, owner)
  PROVE  /\ S \subseteq Schedules /\ IsFiniteSet(S) /\ Cardinality(S) \in Nat
         /\ issued' = issued + Cardinality(S) /\ issued' \in 0..MaxRuns
<1>1. S \subseteq Schedules /\ IsFiniteSet(S) /\ Cardinality(S) \in Nat
  <2>1. S \subseteq Schedules
    BY DEF Due
  <2> QED
    BY <2>1, StoreAssumption, FS_Subset, FS_CardinalityType
<1>2. Cardinality((issued + 1)..(issued + Cardinality(S))) = Cardinality(S)
  BY <1>1, FS_Interval DEF StoreTypeOK
<1> QED
  BY <1>1, <1>2 DEF StoreTypeOK, enqueue_due, insert_job

LEMMA EnqueueDueType ==
  ASSUME StoreTypeOK, NEW S \in SUBSET Due,
         NEW owner \in [(issued + 1)..(issued + Cardinality(S)) -> S], enqueue_due(S, owner)
  PROVE  StoreTypeOK'
<1>1. S \subseteq Schedules /\ IsFiniteSet(S) /\ issued' \in 0..MaxRuns
  BY EnqueueDueFacts
<1>2. {s \in S : last[s] = now} \in SUBSET S
  OBVIOUS
<1>3. Cardinality({s \in S : last[s] = now}) \in Nat
  BY <1>1, <1>2, FS_Subset, FS_CardinalityType
<1>4. replays' \in Nat /\ last' \in [Schedules -> 0..MaxTime] /\ next' \in [Schedules -> 0..MaxTime + 1]
  BY <1>3, StoreAssumption DEF StoreTypeOK, enqueue_due
<1>5. state' \in [Runs -> States] /\ plan' \in [Runs -> Plans]
  BY <1>1 DEF StoreTypeOK, enqueue_due, insert_job, States, Active, Plans
<1> QED
  BY <1>1, <1>4, <1>5 DEF StoreTypeOK, enqueue_due, insert_job

LEMMA EnqueueType ==
  ASSUME StoreTypeOK, NEW s \in Schedules \cup {"one-shot"}, enqueue(s)
  PROVE  StoreTypeOK'
<1>1. Cardinality({issued + 1}) = 1
  BY FS_Singleton
<1>2. issued' \in 0..MaxRuns
  BY <1>1, StoreAssumption DEF StoreTypeOK, enqueue, insert_job
<1>3. state' \in [Runs -> States] /\ plan' \in [Runs -> Plans]
  BY DEF StoreTypeOK, enqueue, insert_job, States, Active, Plans
<1> QED
  BY <1>2, <1>3 DEF StoreTypeOK, enqueue, insert_job, served

LEMMA FinishType ==
  ASSUME StoreTypeOK, NEW r, NEW o \in Statuses, NEW mark \in Marks, finish(r, o, mark)
  PROVE  StoreTypeOK'
<1>1. next' \in [Schedules -> 0..MaxTime + 1]
  BY StoreAssumption DEF StoreTypeOK, finish
<1>2. state' \in [Runs -> States] /\ status' \in [Runs -> Statuses] /\ listed' \in [Runs -> Marks]
  BY DEF StoreTypeOK, finish, Statuses, States, Active
<1> QED
  BY <1>1, <1>2 DEF StoreTypeOK, finish, served

LEMMA RecoverType ==
  ASSUME StoreTypeOK, recover
  PROVE  StoreTypeOK'
<1>1. state' \in [Runs -> States] /\ status' \in [Runs -> Statuses]
  BY DEF StoreTypeOK, recover, States, Statuses, Final
<1> QED
  BY <1>1 DEF StoreTypeOK, recover, plans, served

LEMMA ProgressType ==
  ASSUME StoreTypeOK, NEW r, NEW mark \in Marks, progress(r, mark)
  PROVE  StoreTypeOK'
BY DEF StoreTypeOK, progress, plans, served

LEMMA MarkDeletingType ==
  ASSUME StoreTypeOK, NEW S, mark_deleting(S)
  PROVE  StoreTypeOK'
<1>1. state' \in [Runs -> States]
  BY DEF StoreTypeOK, mark_deleting, States
<1> QED
  BY <1>1 DEF StoreTypeOK, mark_deleting, plans, served

LEMMA RemoveRunType ==
  ASSUME StoreTypeOK, NEW r, remove_run(r)
  PROVE  StoreTypeOK'
<1>1. state' \in [Runs -> States] /\ status' \in [Runs -> Statuses] /\ listed' \in [Runs -> Marks]
  BY DEF StoreTypeOK, remove_run, States, Statuses, Marks
<1> QED
  BY <1>1 DEF StoreTypeOK, remove_run, plans, served

LEMMA DeletionFailedType ==
  ASSUME StoreTypeOK, NEW r, NEW o \in Statuses, NEW mark \in Marks, deletion_failed(r, o, mark)
  PROVE  StoreTypeOK'
<1>1. state' \in [Runs -> States] /\ status' \in [Runs -> Statuses] /\ listed' \in [Runs -> Marks]
  BY DEF StoreTypeOK, deletion_failed, States, Statuses, Active
<1> QED
  BY <1>1 DEF StoreTypeOK, deletion_failed, plans, served

\* Every step keeps the type of the store.
LEMMA StoreTypeStep ==
  ASSUME TypeOK, Next
  PROVE  StoreTypeOK'
<1>1. ASSUME NEW p \in Procs, Leave(p) \/ Acquire(p) \/ SpawnWorker(p) \/ CollectFailed(p) \/
             RetainSnapshot(p) \/ PollRead(p) \/ WorkerCreate(p) \/ WorkerFinish(p) \/
             WorkerEvent(p) \/ WorkerPanic(p) \/ Crash(p)
      PROVE  StoreTypeOK'
  <2>1. UNCHANGED store
    BY <1>1 DEF Leave, Acquire, SpawnWorker, CollectFailed, RetainSnapshot, PollRead, WorkerCreate,
      WorkerFinish, WorkerEvent, WorkerPanic, Crash
  <2> QED
    BY <2>1 DEF TypeOK, StoreTypeOK, store, plans, rows, served
<1>2. ASSUME NEW a \in Actors, DeleteNext(a) \/ CleanupRemove(a)
      PROVE  StoreTypeOK'
  <2>1. UNCHANGED store
    BY <1>2 DEF DeleteNext, CleanupRemove
  <2> QED
    BY <2>1 DEF TypeOK, StoreTypeOK, store, plans, rows, served
<1>3. ASSUME NEW p \in Procs, NEW how \in {"drain", "stop"}, RequestStop(p, how)
      PROVE  StoreTypeOK'
  <2>1. UNCHANGED store
    BY <1>3 DEF RequestStop
  <2> QED
    BY <2>1 DEF TypeOK, StoreTypeOK, store, plans, rows, served
<1>4. ASSUME NEW u \in Users, ImportCheck(u) \/ CrashCommand(u)
      PROVE  StoreTypeOK'
  <2>1. UNCHANGED store
    BY <1>4 DEF ImportCheck, CrashCommand
  <2> QED
    BY <2>1 DEF TypeOK, StoreTypeOK, store, plans, rows, served
<1>5. ASSUME NEW place \in Paths, ForeignFile(place)
      PROVE  StoreTypeOK'
  <2>1. UNCHANGED store
    BY <1>5 DEF ForeignFile
  <2> QED
    BY <2>1 DEF TypeOK, StoreTypeOK, store, plans, rows, served
<1>6. ASSUME NEW p \in Procs, Recover(p)
      PROVE  StoreTypeOK'
  <2>1. CASE UNCHANGED store
    BY <2>1 DEF TypeOK, StoreTypeOK, store, plans, rows, served
  <2>2. CASE recover
    BY <2>2, RecoverType DEF TypeOK
  <2> QED
    BY <1>6, <2>1, <2>2 DEF Recover
<1>7. ASSUME NEW p \in Procs, EnqueueDue(p)
      PROVE  StoreTypeOK'
  <2>1. CASE UNCHANGED store
    BY <2>1 DEF TypeOK, StoreTypeOK, store, plans, rows, served
  <2>2. ASSUME NEW S \in SUBSET Due,
               NEW owner \in [(issued + 1)..(issued + Cardinality(S)) -> S], enqueue_due(S, owner)
        PROVE  StoreTypeOK'
    BY <2>2, EnqueueDueType DEF TypeOK
  <2> QED
    BY <1>7, <2>1, <2>2 DEF EnqueueDue
<1>8. ASSUME NEW p \in Procs, Claim(p)
      PROVE  StoreTypeOK'
BY <1>8, StoreAssumption DEF TypeOK, Claim, claim, store, plans, rows, served, StoreTypeOK,
    Runs, Final, Active, States, Statuses, Marks, Plans
<1>9. ASSUME NEW p \in Procs, PollWrite(p)
      PROVE  StoreTypeOK'
  <2>1. CASE UNCHANGED store
    BY <2>1 DEF TypeOK, StoreTypeOK, store, plans, rows, served
  <2>2. CASE progress(job[p], poll[p])
    BY <1>9, <2>2, ProgressType DEF TypeOK, ServeTypeOK, PollWrite
  <2> QED
    BY <1>9, <2>1, <2>2 DEF PollWrite
<1>10. ASSUME NEW p \in Procs, FinishFailed(p)
      PROVE  StoreTypeOK'
  <2>1. CASE UNCHANGED store
    BY <2>1 DEF TypeOK, StoreTypeOK, store, plans, rows, served
  <2>2. CASE finish(job[p], cstatus[p], cfile[p])
    BY <2>2, FinishType DEF TypeOK, HandsTypeOK, Actors
  <2> QED
    BY <1>10, <2>1, <2>2 DEF FinishFailed
<1>11. ASSUME NEW p \in Procs, FinishSuccess(p)
      PROVE  StoreTypeOK'
  <2>1. CASE UNCHANGED store
    BY <2>1 DEF TypeOK, StoreTypeOK, store, plans, rows, served
  <2>2. CASE finish(job[p], "success", wfile[p])
    BY <2>2, FinishType DEF TypeOK, ServeTypeOK, Statuses, Final
  <2> QED
    BY <1>11, <2>1, <2>2 DEF FinishSuccess
<1>12. ASSUME NEW p \in Procs, RetainMark(p)
      PROVE  StoreTypeOK'
  <2>1. CASE UNCHANGED store
    BY <2>1 DEF TypeOK, StoreTypeOK, store, plans, rows, served
  <2>2. CASE mark_deleting(ids[p])
    BY <1>12, <2>2, MarkDeletingType DEF TypeOK, HandsTypeOK
  <2> QED
    BY <1>12, <2>1, <2>2 DEF RetainMark, MarkDeleting
<1>13. ASSUME NEW p \in Procs, WorkerRecord(p)
      PROVE  StoreTypeOK'
  <2>1. CASE UNCHANGED store
    BY <2>1 DEF TypeOK, StoreTypeOK, store, plans, rows, served
  <2>2. CASE progress(job[p], "recorded")
    BY <1>13, <2>2, ProgressType DEF TypeOK, Marks
  <2> QED
    BY <1>13, <2>1, <2>2 DEF WorkerRecord
<1>14. ASSUME NEW a \in Actors, DeleteImported(a)
      PROVE  StoreTypeOK'
  <2>1. CASE UNCHANGED store
    BY <2>1 DEF TypeOK, StoreTypeOK, store, plans, rows, served
  <2>2. ASSUME NEW r, remove_run(r)
        PROVE  StoreTypeOK'
    BY <2>2, RemoveRunType DEF TypeOK
  <2> QED
    BY <1>14, <2>1, <2>2 DEF DeleteImported
<1>15. ASSUME NEW a \in Actors, DeleteSettle(a)
      PROVE  StoreTypeOK'
  <2>1. CASE UNCHANGED store
    BY <2>1 DEF TypeOK, StoreTypeOK, store, plans, rows, served
  <2>2. CASE remove_run(cur[a])
    BY <2>2, RemoveRunType DEF TypeOK
  <2>3. CASE deletion_failed(cur[a], cstatus[a], cfile[a])
    BY <2>3, DeletionFailedType DEF TypeOK, HandsTypeOK
  <2> QED
    BY <1>15, <2>1, <2>2, <2>3 DEF DeleteSettle
<1>16. ASSUME NEW u \in Users, NEW S \in SUBSET Runs, DeleteRuns(u, S)
      PROVE  StoreTypeOK'
BY <1>16, MarkDeletingType DEF TypeOK, DeleteRuns, MarkDeleting
<1>17. ASSUME NEW u \in Users, ImportInsert(u)
      PROVE  StoreTypeOK'
BY <1>17, StoreAssumption DEF TypeOK, ImportInsert, insert_completed, plans, served,
    StoreTypeOK, Runs, Final, Active, States, Statuses, Marks, Plans
<1>18. ASSUME NEW s \in Schedules, Save(s)
      PROVE  StoreTypeOK'
BY <1>18, StoreAssumption DEF TypeOK, Save, save_schedule, rows, served, StoreTypeOK, Runs,
    Final, Active, States, Statuses, Marks, Plans
<1>19. ASSUME NEW s \in Schedules, DeleteSchedule(s)
      PROVE  StoreTypeOK'
BY <1>19, StoreAssumption DEF TypeOK, DeleteSchedule, delete_schedule, rows, served,
    StoreTypeOK, Runs, Final, Active, States, Statuses, Marks, Plans
<1>20. ASSUME NEW s \in Schedules \cup {"one-shot"}, RunNow(s)
      PROVE  StoreTypeOK'
BY <1>20, EnqueueType DEF TypeOK, RunNow
<1>21. ASSUME NEW r \in Runs, Cancel(r)
      PROVE  StoreTypeOK'
BY <1>21, StoreAssumption DEF TypeOK, Cancel, cancel, plans, served, StoreTypeOK, Runs,
    Final, Active, States, Statuses, Marks, Plans
<1>22. ASSUME Migrate
      PROVE  StoreTypeOK'
BY <1>22, StoreAssumption DEF TypeOK, Migrate, migrate, rows, served, StoreTypeOK, Runs,
    Final, Active, States, Statuses, Marks, Plans
<1>23. ASSUME Clock
      PROVE  StoreTypeOK'
BY <1>23, StoreAssumption DEF TypeOK, Clock, store, plans, rows, served, StoreTypeOK, Runs,
    Final, Active, States, Statuses, Marks, Plans
<1> QED
  BY <1>1, <1>2, <1>3, <1>4, <1>5, <1>6, <1>7, <1>8, <1>9, <1>10, <1>11, <1>12, <1>13, <1>14,
      <1>15, <1>16, <1>17, <1>18, <1>19, <1>20, <1>21, <1>22, <1>23
  DEF Next, ServeStep, WorkerStep, DeleteStep, Actors

\* Every step keeps the type of the processes and their workers.
LEMMA ServeTypeStep ==
  ASSUME TypeOK, Next
  PROVE  ServeTypeOK'
<1>1. ASSUME NEW a \in Actors, DeleteNext(a)
      PROVE  ServeTypeOK'
  <2>1. UNCHANGED procs
    BY <1>1 DEF DeleteNext
  <2> QED
    BY <2>1 DEF TypeOK, ServeTypeOK, procs
<1>2. ASSUME NEW u \in Users, NEW S \in SUBSET Runs, DeleteRuns(u, S)
      PROVE  ServeTypeOK'
  <2>1. UNCHANGED procs
    BY <1>2 DEF DeleteRuns
  <2> QED
    BY <2>1 DEF TypeOK, ServeTypeOK, procs
<1>3. ASSUME NEW u \in Users, ImportCheck(u) \/ ImportInsert(u) \/ CrashCommand(u)
      PROVE  ServeTypeOK'
  <2>1. UNCHANGED procs
    BY <1>3 DEF ImportCheck, ImportInsert, CrashCommand
  <2> QED
    BY <2>1 DEF TypeOK, ServeTypeOK, procs
<1>4. ASSUME NEW s \in Schedules, Save(s) \/ DeleteSchedule(s)
      PROVE  ServeTypeOK'
  <2>1. UNCHANGED procs
    BY <1>4 DEF Save, DeleteSchedule
  <2> QED
    BY <2>1 DEF TypeOK, ServeTypeOK, procs
<1>5. ASSUME NEW s \in Schedules \cup {"one-shot"}, RunNow(s)
      PROVE  ServeTypeOK'
  <2>1. UNCHANGED procs
    BY <1>5 DEF RunNow
  <2> QED
    BY <2>1 DEF TypeOK, ServeTypeOK, procs
<1>6. ASSUME NEW r \in Runs, Cancel(r)
      PROVE  ServeTypeOK'
  <2>1. UNCHANGED procs
    BY <1>6 DEF Cancel
  <2> QED
    BY <2>1 DEF TypeOK, ServeTypeOK, procs
<1>7. ASSUME NEW place \in Paths, ForeignFile(place)
      PROVE  ServeTypeOK'
  <2>1. UNCHANGED procs
    BY <1>7 DEF ForeignFile
  <2> QED
    BY <2>1 DEF TypeOK, ServeTypeOK, procs
<1>8. ASSUME Migrate \/ Clock
      PROVE  ServeTypeOK'
  <2>1. UNCHANGED procs
    BY <1>8 DEF Migrate, Clock
  <2> QED
    BY <2>1 DEF TypeOK, ServeTypeOK, procs
<1>9. ASSUME NEW p \in Procs, Leave(p)
      PROVE  ServeTypeOK'
BY <1>9, StoreAssumption, BackupAssumption DEF TypeOK, Leave, ServeTypeOK, procs, Runs,
    NoRun, Final, Marks, GoTo
<1>10. ASSUME NEW p \in Procs, Acquire(p)
      PROVE  ServeTypeOK'
BY <1>10, StoreAssumption, BackupAssumption DEF TypeOK, Acquire, ServeTypeOK, procs, Runs,
    NoRun, Final, Marks, GoTo
<1>11. ASSUME NEW p \in Procs, Recover(p)
      PROVE  ServeTypeOK'
BY <1>11, StoreAssumption, BackupAssumption DEF TypeOK, Recover, ServeTypeOK, procs, Runs,
    NoRun, Final, Marks, GoTo
<1>12. ASSUME NEW p \in Procs, EnqueueDue(p)
      PROVE  ServeTypeOK'
BY <1>12, StoreAssumption, BackupAssumption DEF TypeOK, EnqueueDue, ServeTypeOK, procs,
    Runs, NoRun, Final, Marks, GoTo
<1>13. ASSUME NEW p \in Procs, Claim(p)
      PROVE  ServeTypeOK'
  <2>1. job' \in [Procs -> Runs \cup {NoRun}]
    BY <1>13 DEF TypeOK, ServeTypeOK, Claim
  <2>2. pc' \in [Procs -> {"loop", "locked", "due", "claim", "check", "export",
                          "clean", "finish", "retain", "mark", "delete"}]
    BY <1>13 DEF TypeOK, ServeTypeOK, Claim, GoTo
  <2> QED
    BY <1>13, <2>1, <2>2 DEF TypeOK, ServeTypeOK, Claim
<1>14. ASSUME NEW p \in Procs, SpawnWorker(p)
      PROVE  ServeTypeOK'
  <2>1. job' \in [Procs -> Runs \cup {NoRun}]
    BY <1>14 DEF TypeOK, ServeTypeOK, SpawnWorker, NoRun
  <2>2. pc' \in [Procs -> {"loop", "locked", "due", "claim", "check", "export",
                          "clean", "finish", "retain", "mark", "delete"}]
    BY <1>14 DEF TypeOK, ServeTypeOK, SpawnWorker, GoTo
  <2>3. token' \in [Procs -> {"live", "cancelled"}]
    BY <1>14 DEF TypeOK, ServeTypeOK, SpawnWorker
  <2>4. worker' \in [Procs -> {"none", "begin", "create", "write", "ended"}]
    BY <1>14 DEF TypeOK, ServeTypeOK, SpawnWorker
  <2> QED
    BY <1>14, <2>1, <2>2, <2>3, <2>4 DEF TypeOK, ServeTypeOK, SpawnWorker
<1>15. ASSUME NEW p \in Procs, PollWrite(p)
      PROVE  ServeTypeOK'
BY <1>15, StoreAssumption, BackupAssumption DEF TypeOK, PollWrite, ServeTypeOK, procs, Runs,
    NoRun, Final, Marks, GoTo
<1>16. ASSUME NEW p \in Procs, CollectFailed(p)
      PROVE  ServeTypeOK'
BY <1>16, StoreAssumption, BackupAssumption DEF TypeOK, CollectFailed, WorkerGone,
    ServeTypeOK, procs, Runs, NoRun, Final, Marks, GoTo
<1>17. ASSUME NEW p \in Procs, FinishFailed(p)
      PROVE  ServeTypeOK'
BY <1>17, StoreAssumption, BackupAssumption DEF TypeOK, FinishFailed, ServeTypeOK, procs,
    Runs, NoRun, Final, Marks, GoTo
<1>18. ASSUME NEW p \in Procs, FinishSuccess(p)
      PROVE  ServeTypeOK'
BY <1>18, StoreAssumption, BackupAssumption DEF TypeOK, FinishSuccess, WorkerGone,
    ServeTypeOK, procs, Runs, NoRun, Final, Marks, GoTo
<1>19. ASSUME NEW p \in Procs, RetainSnapshot(p)
      PROVE  ServeTypeOK'
BY <1>19, StoreAssumption, BackupAssumption DEF TypeOK, RetainSnapshot, ServeTypeOK, procs,
    Runs, NoRun, Final, Marks, GoTo
<1>20. ASSUME NEW p \in Procs, RetainMark(p)
      PROVE  ServeTypeOK'
BY <1>20, StoreAssumption, BackupAssumption DEF TypeOK, RetainMark, ServeTypeOK, procs,
    Runs, NoRun, Final, Marks, GoTo
<1>21. ASSUME NEW p \in Procs, PollRead(p)
      PROVE  ServeTypeOK'
BY <1>21, StoreAssumption, BackupAssumption DEF TypeOK, PollRead, ServeTypeOK, procs, Runs,
    NoRun, Final, Marks, GoTo
<1>22. ASSUME NEW p \in Procs, WorkerRecord(p)
      PROVE  ServeTypeOK'
  <2>1. worker' \in [Procs -> {"none", "begin", "create", "write", "ended"}]
    BY <1>22 DEF TypeOK, ServeTypeOK, WorkerRecord, WorkerEnds
  <2>2. wfile' \in [Procs -> Marks] /\ view' \in [Procs -> Marks]
    BY <1>22 DEF TypeOK, ServeTypeOK, WorkerRecord, WorkerEnds, Marks
  <2>3. outcome' \in [Procs -> Final]
    BY <1>22 DEF TypeOK, ServeTypeOK, WorkerRecord, WorkerEnds, Final
  <2> QED
    BY <1>22, <2>1, <2>2, <2>3 DEF TypeOK, ServeTypeOK, WorkerRecord
<1>23. ASSUME NEW p \in Procs, WorkerCreate(p)
      PROVE  ServeTypeOK'
  <2>1. worker' \in [Procs -> {"none", "begin", "create", "write", "ended"}]
    BY <1>23 DEF TypeOK, ServeTypeOK, WorkerCreate, WorkerEnds
  <2>2. wfile' \in [Procs -> Marks]
    BY <1>23 DEF TypeOK, ServeTypeOK, WorkerCreate, WorkerEnds, Marks
  <2>3. outcome' \in [Procs -> Final]
    BY <1>23 DEF TypeOK, ServeTypeOK, WorkerCreate, WorkerEnds, Final
  <2> QED
    BY <1>23, <2>1, <2>2, <2>3 DEF TypeOK, ServeTypeOK, WorkerCreate
<1>24. ASSUME NEW p \in Procs, WorkerFinish(p)
      PROVE  ServeTypeOK'
BY <1>24, StoreAssumption, BackupAssumption DEF TypeOK, WorkerFinish, WorkerEnds,
    ServeTypeOK, procs, Runs, NoRun, Final, Marks, GoTo
<1>25. ASSUME NEW p \in Procs, WorkerEvent(p)
      PROVE  ServeTypeOK'
BY <1>25, StoreAssumption, BackupAssumption DEF TypeOK, WorkerEvent, ServeTypeOK, procs,
    Runs, NoRun, Final, Marks, GoTo
<1>26. ASSUME NEW p \in Procs, WorkerPanic(p)
      PROVE  ServeTypeOK'
BY <1>26, StoreAssumption, BackupAssumption DEF TypeOK, WorkerPanic, ServeTypeOK, procs,
    Runs, NoRun, Final, Marks, GoTo
<1>27. ASSUME NEW p \in Procs, Crash(p)
      PROVE  ServeTypeOK'
BY <1>27, StoreAssumption, BackupAssumption DEF TypeOK, Crash, ServeTypeOK, procs, Runs,
    NoRun, Final, Marks, GoTo
<1>28. ASSUME NEW p \in Procs, NEW how \in {"drain", "stop"}, RequestStop(p, how)
      PROVE  ServeTypeOK'
BY <1>28, StoreAssumption, BackupAssumption DEF TypeOK, RequestStop, ServeTypeOK, procs,
    Runs, NoRun, Final, Marks, GoTo
<1>29. ASSUME NEW a \in Actors, DeleteImported(a)
      PROVE  ServeTypeOK'
BY <1>29, StoreAssumption, BackupAssumption DEF TypeOK, DeleteImported, DeletionEnds,
    ServeTypeOK, procs, Runs, NoRun, Final, Marks, GoTo
<1>30. ASSUME NEW a \in Actors, CleanupRemove(a)
      PROVE  ServeTypeOK'
BY <1>30, StoreAssumption, BackupAssumption DEF TypeOK, CleanupRemove, AfterCleanup,
    ServeTypeOK, procs, Runs, NoRun, Final, Marks, GoTo
<1>31. ASSUME NEW a \in Actors, DeleteSettle(a)
      PROVE  ServeTypeOK'
BY <1>31, StoreAssumption, BackupAssumption DEF TypeOK, DeleteSettle, DeletionEnds,
    ServeTypeOK, procs, Runs, NoRun, Final, Marks, GoTo
<1> QED
  BY <1>1, <1>2, <1>3, <1>4, <1>5, <1>6, <1>7, <1>8, <1>9, <1>10, <1>11, <1>12, <1>13, <1>14,
      <1>15, <1>16, <1>17, <1>18, <1>19, <1>20, <1>21, <1>22, <1>23, <1>24, <1>25, <1>26, <1>27,
      <1>28, <1>29, <1>30, <1>31
  DEF Next, ServeStep, WorkerStep, DeleteStep, Actors

\* The copies that mark_deleting returns.
LEMMA MarkCopies ==
  ASSUME TypeOK, NEW a \in Actors, NEW S \in SUBSET Runs, MarkDeleting(a, S)
  PROVE  todo' \in [Actors -> SUBSET Copies]
BY DEF TypeOK, StoreTypeOK, HandsTypeOK, MarkDeleting, Copies

\* Every step keeps the type of what the actors have in hand.
LEMMA HandsTypeStep ==
  ASSUME TypeOK, Next
  PROVE  HandsTypeOK'
<1>1. ASSUME NEW p \in Procs, Leave(p) \/ Acquire(p) \/ Recover(p) \/ EnqueueDue(p) \/ Claim(p)
             \/ SpawnWorker(p) \/ PollWrite(p) \/ PollRead(p) \/ WorkerRecord(p) \/
             WorkerCreate(p) \/ WorkerFinish(p) \/ WorkerEvent(p) \/ WorkerPanic(p)
      PROVE  HandsTypeOK'
  <2>1. UNCHANGED hands
    BY <1>1 DEF Leave, Acquire, Recover, EnqueueDue, Claim, SpawnWorker, PollWrite, PollRead,
      WorkerRecord, WorkerCreate, WorkerFinish, WorkerEvent, WorkerPanic
  <2> QED
    BY <2>1 DEF TypeOK, HandsTypeOK, hands
<1>2. ASSUME NEW p \in Procs, NEW how \in {"drain", "stop"}, RequestStop(p, how)
      PROVE  HandsTypeOK'
  <2>1. UNCHANGED hands
    BY <1>2 DEF RequestStop
  <2> QED
    BY <2>1 DEF TypeOK, HandsTypeOK, hands
<1>3. ASSUME NEW s \in Schedules, Save(s) \/ DeleteSchedule(s)
      PROVE  HandsTypeOK'
  <2>1. UNCHANGED hands
    BY <1>3 DEF Save, DeleteSchedule
  <2> QED
    BY <2>1 DEF TypeOK, HandsTypeOK, hands
<1>4. ASSUME NEW s \in Schedules \cup {"one-shot"}, RunNow(s)
      PROVE  HandsTypeOK'
  <2>1. UNCHANGED hands
    BY <1>4 DEF RunNow
  <2> QED
    BY <2>1 DEF TypeOK, HandsTypeOK, hands
<1>5. ASSUME NEW r \in Runs, Cancel(r)
      PROVE  HandsTypeOK'
  <2>1. UNCHANGED hands
    BY <1>5 DEF Cancel
  <2> QED
    BY <2>1 DEF TypeOK, HandsTypeOK, hands
<1>6. ASSUME NEW place \in Paths, ForeignFile(place)
      PROVE  HandsTypeOK'
  <2>1. UNCHANGED hands
    BY <1>6 DEF ForeignFile
  <2> QED
    BY <2>1 DEF TypeOK, HandsTypeOK, hands
<1>7. ASSUME Migrate \/ Clock
      PROVE  HandsTypeOK'
  <2>1. UNCHANGED hands
    BY <1>7 DEF Migrate, Clock
  <2> QED
    BY <2>1 DEF TypeOK, HandsTypeOK, hands
<1>8. ASSUME NEW p \in Procs, CollectFailed(p)
      PROVE  HandsTypeOK'
  <2>1. stage' \in [Actors -> {"idle", "remove", "drop", "restore", "import"}]
    BY <1>8 DEF TypeOK, HandsTypeOK, CollectFailed, CleanupSnapshot
  <2>2. cur' \in [Actors -> Runs \cup {NoRun}]
    BY <1>8 DEF TypeOK, HandsTypeOK, ServeTypeOK, CollectFailed, Actors
  <2>3. cstatus' \in [Actors -> Statuses]
    BY <1>8 DEF TypeOK, HandsTypeOK, ServeTypeOK, CollectFailed, Actors, Statuses
  <2>4. cfile' \in [Actors -> Marks]
    BY <1>8 DEF TypeOK, HandsTypeOK, ServeTypeOK, CollectFailed, Actors
  <2>5. shared' \in [Actors -> {"yes", "no"}]
    BY <1>8 DEF TypeOK, HandsTypeOK, CollectFailed, CleanupSnapshot
  <2> QED
    BY <1>8, <2>1, <2>2, <2>3, <2>4, <2>5 DEF TypeOK, HandsTypeOK, CollectFailed
<1>9. ASSUME NEW p \in Procs, FinishFailed(p)
      PROVE  HandsTypeOK'
BY <1>9, StoreAssumption, BackupAssumption DEF TypeOK, FinishFailed, Forget, Statuses,
    Marks, HandsTypeOK, hands, Actors, Runs, NoRun
<1>10. ASSUME NEW p \in Procs, FinishSuccess(p)
      PROVE  HandsTypeOK'
  <2>1. cur' \in [Actors -> Runs \cup {NoRun}]
    BY <1>10 DEF TypeOK, HandsTypeOK, ServeTypeOK, FinishSuccess
  <2> QED
    BY <1>10, <2>1 DEF TypeOK, HandsTypeOK, FinishSuccess
<1>11. ASSUME NEW p \in Procs, RetainSnapshot(p)
      PROVE  HandsTypeOK'
  <2>1. ids' \in [Actors -> SUBSET Runs]
    BY <1>11 DEF TypeOK, HandsTypeOK, RetainSnapshot, Excess, Present
  <2>2. cur' \in [Actors -> Runs \cup {NoRun}]
    BY <1>11 DEF TypeOK, HandsTypeOK, RetainSnapshot, Forget
  <2>3. cstatus' \in [Actors -> Statuses]
    BY <1>11 DEF TypeOK, HandsTypeOK, RetainSnapshot, Forget, Statuses
  <2>4. cfile' \in [Actors -> Marks]
    BY <1>11 DEF TypeOK, HandsTypeOK, RetainSnapshot, Forget, Marks
  <2>5. shared' \in [Actors -> {"yes", "no"}]
    BY <1>11 DEF TypeOK, HandsTypeOK, RetainSnapshot, Forget
  <2> QED
    BY <1>11, <2>1, <2>2, <2>3, <2>4, <2>5 DEF TypeOK, HandsTypeOK, RetainSnapshot
<1>12. ASSUME NEW p \in Procs, RetainMark(p)
      PROVE  HandsTypeOK'
  <2>1. ids' \in [Actors -> SUBSET Runs]
    BY <1>12 DEF TypeOK, HandsTypeOK, RetainMark
  <2>2. todo' \in [Actors -> SUBSET Copies]
    BY <1>12, MarkCopies DEF TypeOK, HandsTypeOK, RetainMark, Actors
  <2> QED
    BY <1>12, <2>1, <2>2 DEF TypeOK, HandsTypeOK, RetainMark
<1>13. ASSUME NEW p \in Procs, Crash(p)
      PROVE  HandsTypeOK'
BY <1>13, StoreAssumption, BackupAssumption DEF TypeOK, Crash, Forget, Statuses, Marks,
    HandsTypeOK, hands, Actors, Runs, NoRun
<1>14. ASSUME NEW a \in Actors, DeleteImported(a)
      PROVE  HandsTypeOK'
  <2>1. todo' \in [Actors -> SUBSET Copies]
    BY <1>14 DEF TypeOK, HandsTypeOK, DeleteImported
  <2> QED
    BY <1>14, <2>1 DEF TypeOK, HandsTypeOK, DeleteImported
<1>15. ASSUME NEW a \in Actors, DeleteNext(a)
      PROVE  HandsTypeOK'
  <2>1. stage' \in [Actors -> {"idle", "remove", "drop", "restore", "import"}]
    BY <1>15 DEF TypeOK, HandsTypeOK, DeleteNext, CleanupSnapshot
  <2>2. cur' \in [Actors -> Runs \cup {NoRun}]
    BY <1>15 DEF TypeOK, HandsTypeOK, DeleteNext, Copies
  <2>3. cstatus' \in [Actors -> Statuses]
    BY <1>15 DEF TypeOK, HandsTypeOK, DeleteNext, Copies
  <2>4. cfile' \in [Actors -> Marks]
    BY <1>15 DEF TypeOK, HandsTypeOK, DeleteNext, Copies
  <2>5. shared' \in [Actors -> {"yes", "no"}]
    BY <1>15 DEF TypeOK, HandsTypeOK, DeleteNext, CleanupSnapshot
  <2>6. todo' \in [Actors -> SUBSET Copies]
    BY <1>15 DEF TypeOK, HandsTypeOK, DeleteNext
  <2> QED
    BY <1>15, <2>1, <2>2, <2>3, <2>4, <2>5, <2>6 DEF TypeOK, HandsTypeOK, DeleteNext
<1>16. ASSUME NEW a \in Actors, CleanupRemove(a)
      PROVE  HandsTypeOK'
BY <1>16, StoreAssumption, BackupAssumption DEF TypeOK, CleanupRemove, AfterCleanup, Marks,
    HandsTypeOK, hands, Actors, Runs, NoRun
<1>17. ASSUME NEW a \in Actors, DeleteSettle(a)
      PROVE  HandsTypeOK'
BY <1>17, StoreAssumption, BackupAssumption DEF TypeOK, DeleteSettle, Forget, Statuses,
    Marks, HandsTypeOK, hands, Actors, Runs, NoRun
<1>18. ASSUME NEW u \in Users, NEW S \in SUBSET Runs, DeleteRuns(u, S)
      PROVE  HandsTypeOK'
  <2>1. todo' \in [Actors -> SUBSET Copies]
    BY <1>18, MarkCopies DEF TypeOK, HandsTypeOK, DeleteRuns, Actors
  <2> QED
    BY <1>18, <2>1 DEF TypeOK, HandsTypeOK, DeleteRuns
<1>19. ASSUME NEW u \in Users, ImportCheck(u)
      PROVE  HandsTypeOK'
BY <1>19, StoreAssumption, BackupAssumption DEF TypeOK, ImportCheck, StoreTypeOK,
    HandsTypeOK, hands, Actors, Runs, NoRun
<1>20. ASSUME NEW u \in Users, ImportInsert(u)
      PROVE  HandsTypeOK'
BY <1>20, StoreAssumption, BackupAssumption DEF TypeOK, ImportInsert, Forget, Statuses,
    Marks, HandsTypeOK, hands, Actors, Runs, NoRun
<1>21. ASSUME NEW u \in Users, CrashCommand(u)
      PROVE  HandsTypeOK'
BY <1>21, StoreAssumption, BackupAssumption DEF TypeOK, CrashCommand, Forget, Statuses,
    Marks, HandsTypeOK, hands, Actors, Runs, NoRun
<1> QED
  BY <1>1, <1>2, <1>3, <1>4, <1>5, <1>6, <1>7, <1>8, <1>9, <1>10, <1>11, <1>12, <1>13, <1>14,
      <1>15, <1>16, <1>17, <1>18, <1>19, <1>20, <1>21
  DEF Next, ServeStep, WorkerStep, DeleteStep, Actors

RestTypeOK ==
  /\ fs \in [Paths -> Runs \cup {NoFile, Foreign}]
  /\ failures \in Nat /\ events \in Nat /\ failures + events <= MaxEvents
  /\ exposed \in SUBSET Runs

\* Every step keeps the type of the files, the bounds and the history.
LEMMA RestTypeStep ==
  ASSUME TypeOK, Next
  PROVE  RestTypeOK'
<1>1. ASSUME NEW p \in Procs, Leave(p) \/ Acquire(p) \/ WorkerFinish(p) \/ WorkerEvent(p)
      PROVE  RestTypeOK'
  <2>1. UNCHANGED <<fs, bounds, exposed>>
    BY <1>1 DEF Leave, Acquire, WorkerFinish, WorkerEvent
  <2> QED
    BY <2>1 DEF TypeOK, RestTypeOK, bounds
<1>2. ASSUME NEW u \in Users, ImportCheck(u) \/ ImportInsert(u)
      PROVE  RestTypeOK'
  <2>1. UNCHANGED <<fs, bounds, exposed>>
    BY <1>2 DEF ImportCheck, ImportInsert
  <2> QED
    BY <2>1 DEF TypeOK, RestTypeOK, bounds
<1>3. ASSUME NEW s \in Schedules \cup {"one-shot"}, RunNow(s)
      PROVE  RestTypeOK'
  <2>1. UNCHANGED <<fs, bounds, exposed>>
    BY <1>3 DEF RunNow
  <2> QED
    BY <2>1 DEF TypeOK, RestTypeOK, bounds
<1>4. ASSUME NEW r \in Runs, Cancel(r)
      PROVE  RestTypeOK'
  <2>1. UNCHANGED <<fs, bounds, exposed>>
    BY <1>4 DEF Cancel
  <2> QED
    BY <2>1 DEF TypeOK, RestTypeOK, bounds
<1>5. ASSUME Migrate \/ Clock
      PROVE  RestTypeOK'
  <2>1. UNCHANGED <<fs, bounds, exposed>>
    BY <1>5 DEF Migrate, Clock
  <2> QED
    BY <2>1 DEF TypeOK, RestTypeOK, bounds
<1>6. ASSUME NEW p \in Procs, Recover(p)
      PROVE  RestTypeOK'
BY <1>6, StoreAssumption, BackupAssumption DEF TypeOK, Recover, Failure, RestTypeOK, bounds,
    Runs
<1>7. ASSUME NEW p \in Procs, EnqueueDue(p)
      PROVE  RestTypeOK'
BY <1>7, StoreAssumption, BackupAssumption DEF TypeOK, EnqueueDue, Failure, RestTypeOK,
    bounds, Runs
<1>8. ASSUME NEW p \in Procs, Claim(p)
      PROVE  RestTypeOK'
BY <1>8, StoreAssumption, BackupAssumption DEF TypeOK, Claim, Failure, RestTypeOK, bounds,
    Runs
<1>9. ASSUME NEW p \in Procs, SpawnWorker(p)
      PROVE  RestTypeOK'
BY <1>9, StoreAssumption, BackupAssumption DEF TypeOK, SpawnWorker, Failure, RestTypeOK,
    bounds, Runs
<1>10. ASSUME NEW p \in Procs, PollWrite(p)
      PROVE  RestTypeOK'
  <2>1. exposed' \in SUBSET Runs
    BY <1>10 DEF TypeOK, PollWrite
  <2>2. failures' \in Nat /\ events' \in Nat /\ failures' + events' <= MaxEvents
    BY <1>10, BackupAssumption DEF TypeOK, PollWrite, Failure, bounds
  <2> QED
    BY <1>10, <2>1, <2>2 DEF TypeOK, RestTypeOK, PollWrite
<1>11. ASSUME NEW p \in Procs, CollectFailed(p)
      PROVE  RestTypeOK'
BY <1>11, StoreAssumption, BackupAssumption DEF TypeOK, CollectFailed, Failure, RestTypeOK,
    bounds, Runs
<1>12. ASSUME NEW p \in Procs, FinishFailed(p)
      PROVE  RestTypeOK'
BY <1>12, StoreAssumption, BackupAssumption DEF TypeOK, FinishFailed, Failure, RestTypeOK,
    bounds, Runs
<1>13. ASSUME NEW p \in Procs, FinishSuccess(p)
      PROVE  RestTypeOK'
BY <1>13, StoreAssumption, BackupAssumption DEF TypeOK, FinishSuccess, Failure, RestTypeOK,
    bounds, Runs
<1>14. ASSUME NEW p \in Procs, RetainSnapshot(p)
      PROVE  RestTypeOK'
BY <1>14, StoreAssumption, BackupAssumption DEF TypeOK, RetainSnapshot, Failure, RestTypeOK,
    bounds, Runs
<1>15. ASSUME NEW p \in Procs, RetainMark(p)
      PROVE  RestTypeOK'
  <2>1. exposed' \in SUBSET Runs
    BY <1>15 DEF TypeOK, RetainMark, MarkDeleting, HandsTypeOK, Actors
  <2>2. failures' \in Nat /\ events' \in Nat /\ failures' + events' <= MaxEvents
    BY <1>15, BackupAssumption DEF TypeOK, RetainMark, Failure, bounds
  <2> QED
    BY <1>15, <2>1, <2>2 DEF TypeOK, RestTypeOK, RetainMark
<1>16. ASSUME NEW p \in Procs, PollRead(p)
      PROVE  RestTypeOK'
BY <1>16, StoreAssumption, BackupAssumption DEF TypeOK, PollRead, Failure, RestTypeOK,
    bounds, Runs
<1>17. ASSUME NEW p \in Procs, WorkerRecord(p)
      PROVE  RestTypeOK'
  <2>1. exposed' \in SUBSET Runs
    BY <1>17 DEF TypeOK, WorkerRecord
  <2>2. failures' \in Nat /\ events' \in Nat /\ failures' + events' <= MaxEvents
    BY <1>17, BackupAssumption DEF TypeOK, WorkerRecord, Failure, bounds
  <2> QED
    BY <1>17, <2>1, <2>2 DEF TypeOK, RestTypeOK, WorkerRecord
<1>18. ASSUME NEW p \in Procs, WorkerCreate(p)
      PROVE  RestTypeOK'
  <2>1. job[p] \in Runs \cup {NoFile, Foreign}
    BY <1>18 DEF TypeOK, ServeTypeOK, NoRun, NoFile
  <2>2. fs' \in [Paths -> Runs \cup {NoFile, Foreign}]
    BY <1>18, <2>1 DEF TypeOK, WorkerCreate
  <2> QED
    BY <1>18, <2>1, <2>2 DEF TypeOK, RestTypeOK, WorkerCreate, bounds
<1>19. ASSUME NEW p \in Procs, WorkerPanic(p)
      PROVE  RestTypeOK'
BY <1>19, StoreAssumption, BackupAssumption DEF TypeOK, WorkerPanic, Failure, RestTypeOK,
    bounds, Runs
<1>20. ASSUME NEW p \in Procs, Crash(p)
      PROVE  RestTypeOK'
  <2>1. exposed' \in SUBSET Runs
    BY <1>20 DEF TypeOK, Crash, HalfDeleted
  <2>2. failures' \in Nat /\ events' \in Nat /\ failures' + events' <= MaxEvents
    BY <1>20, BackupAssumption DEF TypeOK, Crash, Event
  <2> QED
    BY <1>20, <2>1, <2>2 DEF TypeOK, RestTypeOK, Crash
<1>21. ASSUME NEW a \in Actors, DeleteImported(a)
      PROVE  RestTypeOK'
BY <1>21, StoreAssumption, BackupAssumption DEF TypeOK, DeleteImported, Failure, RestTypeOK,
    bounds, Runs
<1>22. ASSUME NEW a \in Actors, DeleteNext(a)
      PROVE  RestTypeOK'
BY <1>22, StoreAssumption, BackupAssumption DEF TypeOK, DeleteNext, Failure, RestTypeOK,
    bounds, Runs
<1>23. ASSUME NEW a \in Actors, CleanupRemove(a)
      PROVE  RestTypeOK'
BY <1>23, StoreAssumption, BackupAssumption DEF TypeOK, CleanupRemove, Failure, NoFile,
    Foreign, RestTypeOK, bounds, Runs
<1>24. ASSUME NEW a \in Actors, DeleteSettle(a)
      PROVE  RestTypeOK'
  <2>1. exposed' \in SUBSET Runs
    BY <1>24 DEF TypeOK, DeleteSettle, HalfDeleted
  <2>2. failures' \in Nat /\ events' \in Nat /\ failures' + events' <= MaxEvents
    BY <1>24, BackupAssumption DEF TypeOK, DeleteSettle, Failure, bounds
  <2> QED
    BY <1>24, <2>1, <2>2 DEF TypeOK, RestTypeOK, DeleteSettle
<1>25. ASSUME NEW u \in Users, NEW S \in SUBSET Runs, DeleteRuns(u, S)
      PROVE  RestTypeOK'
BY <1>25, StoreAssumption, BackupAssumption DEF TypeOK, DeleteRuns, MarkDeleting,
    RestTypeOK, bounds, Runs
<1>26. ASSUME NEW u \in Users, CrashCommand(u)
      PROVE  RestTypeOK'
  <2>1. exposed' \in SUBSET Runs
    BY <1>26 DEF TypeOK, CrashCommand, HalfDeleted
  <2>2. failures' \in Nat /\ events' \in Nat /\ failures' + events' <= MaxEvents
    BY <1>26, BackupAssumption DEF TypeOK, CrashCommand, Event
  <2> QED
    BY <1>26, <2>1, <2>2 DEF TypeOK, RestTypeOK, CrashCommand
<1>27. ASSUME NEW s \in Schedules, Save(s)
      PROVE  RestTypeOK'
BY <1>27, StoreAssumption, BackupAssumption DEF TypeOK, Save, Event, RestTypeOK, bounds,
    Runs
<1>28. ASSUME NEW s \in Schedules, DeleteSchedule(s)
      PROVE  RestTypeOK'
BY <1>28, StoreAssumption, BackupAssumption DEF TypeOK, DeleteSchedule, Event, RestTypeOK,
    bounds, Runs
<1>29. ASSUME NEW place \in Paths, ForeignFile(place)
      PROVE  RestTypeOK'
BY <1>29, StoreAssumption, BackupAssumption DEF TypeOK, ForeignFile, Event, NoFile, Foreign,
    RestTypeOK, bounds, Runs
<1>30. ASSUME NEW p \in Procs, NEW how \in {"drain", "stop"}, RequestStop(p, how)
      PROVE  RestTypeOK'
BY <1>30, StoreAssumption, BackupAssumption DEF TypeOK, RequestStop, Event, RestTypeOK,
    bounds, Runs
<1> QED
  BY <1>1, <1>2, <1>3, <1>4, <1>5, <1>6, <1>7, <1>8, <1>9, <1>10, <1>11, <1>12, <1>13, <1>14,
      <1>15, <1>16, <1>17, <1>18, <1>19, <1>20, <1>21, <1>22, <1>23, <1>24, <1>25, <1>26, <1>27,
      <1>28, <1>29, <1>30
  DEF Next, ServeStep, WorkerStep, DeleteStep, Actors

\* The beginning, and every step, are well typed.
LEMMA InitType == Init => TypeOK
<1> SUFFICES ASSUME Init PROVE TypeOK
  OBVIOUS
<1>1. StoreTypeOK
  BY StoreAssumption DEF Init, StoreInit, StoreTypeOK, States, Statuses, Marks, Plans, Final
<1>2. ServeTypeOK
  BY DEF Init, ServeTypeOK, Marks, Final
<1>3. HandsTypeOK
  BY DEF Init, HandsTypeOK, Statuses, Marks
<1>4. RestTypeOK
  BY BackupAssumption DEF Init, RestTypeOK
<1> QED
  BY <1>1, <1>2, <1>3, <1>4 DEF TypeOK, RestTypeOK

LEMMA TypeStep == TypeOK /\ [Next]_vars => TypeOK'
<1>1. ASSUME TypeOK, Next
      PROVE  TypeOK'
  BY <1>1, StoreTypeStep, ServeTypeStep, HandsTypeStep, RestTypeStep DEF TypeOK, RestTypeOK
<1>2. ASSUME TypeOK, UNCHANGED vars
      PROVE  TypeOK'
  BY <1>2 DEF TypeOK, StoreTypeOK, ServeTypeOK, HandsTypeOK, vars, store, plans, rows, served,
      procs, hands, bounds
<1> QED
  BY <1>1, <1>2

\* The variables keep their types, for any number of processes, users, runs and
\* schedules.
THEOREM TypeCorrect == Spec => []TypeOK
<1> QED
  BY InitType, TypeStep, PTL DEF Spec

-----------------------------------------------------------------------------
(* Who works: the thread of serve and the lock *)

\* Where the thread of a process is says what it has in hand: beyond the loop it
\* holds the lock, between claim and finish it has a run, and only in retention
\* runs to delete; what it is about to store is an end.
ThreadOf(p) ==
  /\ pc[p] # "loop" => lock = p
  /\ job[p] # NoRun <=> pc[p] \in {"check", "export", "clean", "finish"}
  /\ stage[p] # "import"
  /\ stage[p] = "remove" => pc[p] \in {"clean", "delete"}
  /\ stage[p] \in {"drop", "restore"} => pc[p] = "delete"
  /\ todo[p] # {} => pc[p] = "delete"
  /\ pc[p] = "finish" => cstatus[p] \in Final

Thread == \A p \in Procs : ThreadOf(p)

\* The copies of runs in a deletion or a cleanup are of runs that have ended.
CopiesOf(a) ==
  /\ \A c \in todo[a] : c.status \in Final
  /\ stage[a] \in {"remove", "drop", "restore"} => cstatus[a] \in Final

EndedCopies == \A a \in Actors : CopiesOf(a)

\* Every step keeps the threads in order.
LEMMA ThreadStep ==
  ASSUME TypeOK, Thread, EndedCopies, Next
  PROVE  Thread'
<1>1. ASSUME NEW p \in Procs, PollWrite(p) \/ PollRead(p) \/ WorkerRecord(p) \/ WorkerCreate(p)
             \/ WorkerFinish(p) \/ WorkerEvent(p) \/ WorkerPanic(p)
      PROVE  Thread'
  <2>1. UNCHANGED <<lock, pc, job, stage, todo, cstatus>>
    BY <1>1 DEF PollWrite, PollRead, WorkerRecord, WorkerCreate, WorkerFinish, WorkerEvent, WorkerPanic,
      procs, hands
  <2> QED
    BY <2>1 DEF Thread, ThreadOf
<1>2. ASSUME NEW p \in Procs, NEW how \in {"drain", "stop"}, RequestStop(p, how)
      PROVE  Thread'
  <2>1. UNCHANGED <<lock, pc, job, stage, todo, cstatus>>
    BY <1>2 DEF RequestStop, procs, hands
  <2> QED
    BY <2>1 DEF Thread, ThreadOf
<1>3. ASSUME NEW s \in Schedules, Save(s) \/ DeleteSchedule(s)
      PROVE  Thread'
  <2>1. UNCHANGED <<lock, pc, job, stage, todo, cstatus>>
    BY <1>3 DEF Save, DeleteSchedule, procs, hands
  <2> QED
    BY <2>1 DEF Thread, ThreadOf
<1>4. ASSUME NEW s \in Schedules \cup {"one-shot"}, RunNow(s)
      PROVE  Thread'
  <2>1. UNCHANGED <<lock, pc, job, stage, todo, cstatus>>
    BY <1>4 DEF RunNow, procs, hands
  <2> QED
    BY <2>1 DEF Thread, ThreadOf
<1>5. ASSUME NEW r \in Runs, Cancel(r)
      PROVE  Thread'
  <2>1. UNCHANGED <<lock, pc, job, stage, todo, cstatus>>
    BY <1>5 DEF Cancel, procs, hands
  <2> QED
    BY <2>1 DEF Thread, ThreadOf
<1>6. ASSUME NEW place \in Paths, ForeignFile(place)
      PROVE  Thread'
  <2>1. UNCHANGED <<lock, pc, job, stage, todo, cstatus>>
    BY <1>6 DEF ForeignFile, procs, hands
  <2> QED
    BY <2>1 DEF Thread, ThreadOf
<1>7. ASSUME Migrate \/ Clock
      PROVE  Thread'
  <2>1. UNCHANGED <<lock, pc, job, stage, todo, cstatus>>
    BY <1>7 DEF Migrate, Clock, procs, hands
  <2> QED
    BY <2>1 DEF Thread, ThreadOf
<1>8. ASSUME NEW p \in Procs, Leave(p)
      PROVE  Thread'
  <2> SUFFICES ASSUME NEW q \in Procs PROVE ThreadOf(q)'
    BY DEF Thread
  <2> ThreadOf(q) /\ ThreadOf(p)
    BY DEF Thread
  <2> QED
    BY <1>8, BackupAssumption DEF TypeOK, ServeTypeOK, HandsTypeOK, ThreadOf, Leave, GoTo, Actors, NoRun, Runs, hands, procs
<1>9. ASSUME NEW p \in Procs, Acquire(p)
      PROVE  Thread'
  <2> SUFFICES ASSUME NEW q \in Procs PROVE ThreadOf(q)'
    BY DEF Thread
  <2> ThreadOf(q) /\ ThreadOf(p)
    BY DEF Thread
  <2> QED
    BY <1>9, BackupAssumption DEF TypeOK, ServeTypeOK, HandsTypeOK, ThreadOf, Acquire, GoTo, Actors, NoRun, Runs, hands, procs
<1>10. ASSUME NEW p \in Procs, Recover(p)
      PROVE  Thread'
  <2> SUFFICES ASSUME NEW q \in Procs PROVE ThreadOf(q)'
    BY DEF Thread
  <2> ThreadOf(q) /\ ThreadOf(p)
    BY DEF Thread
  <2> QED
    BY <1>10, BackupAssumption DEF TypeOK, ServeTypeOK, HandsTypeOK, ThreadOf, Recover, GoTo, Actors, NoRun, Runs, hands, procs
<1>11. ASSUME NEW p \in Procs, EnqueueDue(p)
      PROVE  Thread'
  <2> SUFFICES ASSUME NEW q \in Procs PROVE ThreadOf(q)'
    BY DEF Thread
  <2> ThreadOf(q) /\ ThreadOf(p)
    BY DEF Thread
  <2> QED
    BY <1>11, BackupAssumption DEF TypeOK, ServeTypeOK, HandsTypeOK, ThreadOf, EnqueueDue, GoTo, Actors, NoRun, Runs, hands, procs
<1>12. ASSUME NEW p \in Procs, Claim(p)
      PROVE  Thread'
  <2> SUFFICES ASSUME NEW q \in Procs PROVE ThreadOf(q)'
    BY DEF Thread
  <2> ThreadOf(q) /\ ThreadOf(p)
    BY DEF Thread
  <2> QED
    BY <1>12, BackupAssumption DEF TypeOK, ServeTypeOK, HandsTypeOK, ThreadOf, Claim, GoTo, Actors, NoRun, Runs, hands, procs
<1>13. ASSUME NEW p \in Procs, SpawnWorker(p)
      PROVE  Thread'
  <2> SUFFICES ASSUME NEW q \in Procs PROVE ThreadOf(q)'
    BY DEF Thread
  <2> ThreadOf(q) /\ ThreadOf(p)
    BY DEF Thread
  <2> QED
    BY <1>13, BackupAssumption DEF TypeOK, ServeTypeOK, HandsTypeOK, ThreadOf, SpawnWorker, GoTo, Actors, NoRun, Runs, hands, procs
<1>14. ASSUME NEW p \in Procs, CollectFailed(p)
      PROVE  Thread'
  <2> SUFFICES ASSUME NEW q \in Procs PROVE ThreadOf(q)'
    BY DEF Thread
  <2> ThreadOf(q) /\ ThreadOf(p)
    BY DEF Thread
  <2> QED
    BY <1>14, BackupAssumption DEF TypeOK, ServeTypeOK, HandsTypeOK, ThreadOf, CollectFailed, Collected, CleanupSnapshot, GoTo, Actors, NoRun, Runs, hands, procs
<1>15. ASSUME NEW p \in Procs, FinishFailed(p)
      PROVE  Thread'
  <2> SUFFICES ASSUME NEW q \in Procs PROVE ThreadOf(q)'
    BY DEF Thread
  <2> ThreadOf(q) /\ ThreadOf(p)
    BY DEF Thread
  <2> QED
    BY <1>15, BackupAssumption DEF TypeOK, ServeTypeOK, HandsTypeOK, ThreadOf, FinishFailed, Forget, GoTo, Actors, NoRun, Runs, hands, procs
<1>16. ASSUME NEW p \in Procs, FinishSuccess(p)
      PROVE  Thread'
  <2> SUFFICES ASSUME NEW q \in Procs PROVE ThreadOf(q)'
    BY DEF Thread
  <2> ThreadOf(q) /\ ThreadOf(p)
    BY DEF Thread
  <2> QED
    BY <1>16, BackupAssumption DEF TypeOK, ServeTypeOK, HandsTypeOK, ThreadOf, FinishSuccess, Collected, GoTo, Actors, NoRun, Runs, hands, procs
<1>17. ASSUME NEW p \in Procs, RetainSnapshot(p)
      PROVE  Thread'
  <2> SUFFICES ASSUME NEW q \in Procs PROVE ThreadOf(q)'
    BY DEF Thread
  <2> ThreadOf(q) /\ ThreadOf(p)
    BY DEF Thread
  <2> QED
    BY <1>17, BackupAssumption DEF TypeOK, ServeTypeOK, HandsTypeOK, ThreadOf, RetainSnapshot, Forget, GoTo, Actors, NoRun, Runs, hands, procs
<1>18. ASSUME NEW p \in Procs, RetainMark(p)
      PROVE  Thread'
  <2> SUFFICES ASSUME NEW q \in Procs PROVE ThreadOf(q)'
    BY DEF Thread
  <2> ThreadOf(q) /\ ThreadOf(p)
    BY DEF Thread
  <2> QED
    BY <1>18, BackupAssumption DEF TypeOK, ServeTypeOK, HandsTypeOK, ThreadOf, RetainMark, MarkDeleting, GoTo, Actors, NoRun, Runs, hands, procs
<1>19. ASSUME NEW p \in Procs, Crash(p)
      PROVE  Thread'
  <2> SUFFICES ASSUME NEW q \in Procs PROVE ThreadOf(q)'
    BY DEF Thread
  <2> ThreadOf(q) /\ ThreadOf(p)
    BY DEF Thread
  <2> QED
    BY <1>19, BackupAssumption DEF TypeOK, ServeTypeOK, HandsTypeOK, ThreadOf, Crash, Forget, GoTo, Actors, NoRun, Runs, hands, procs
<1>20. ASSUME NEW a \in Actors, DeleteImported(a)
      PROVE  Thread'
  <2> SUFFICES ASSUME NEW q \in Procs PROVE ThreadOf(q)'
    BY DEF Thread
  <2> ThreadOf(q)
    BY DEF Thread
  <2> QED
    BY <1>20, BackupAssumption DEF TypeOK, ServeTypeOK, HandsTypeOK, ThreadOf, DeleteImported, DeletionEnds, GoTo, Actors, NoRun, Runs, hands, procs
<1>21. ASSUME NEW a \in Actors, DeleteNext(a)
      PROVE  Thread'
  <2> SUFFICES ASSUME NEW q \in Procs PROVE ThreadOf(q)'
    BY DEF Thread
  <2> ThreadOf(q)
    BY DEF Thread
  <2> QED
    BY <1>21, BackupAssumption DEF TypeOK, ServeTypeOK, HandsTypeOK, ThreadOf, DeleteNext, CleanupSnapshot, GoTo, Actors, NoRun, Runs, hands, procs
<1>22. ASSUME NEW a \in Actors, CleanupRemove(a)
      PROVE  Thread'
  <2> SUFFICES ASSUME NEW q \in Procs PROVE ThreadOf(q)'
    BY DEF Thread
  <2> ThreadOf(q)
    BY DEF Thread
  <2> QED
    BY <1>22, BackupAssumption DEF TypeOK, ServeTypeOK, HandsTypeOK, ThreadOf, CleanupRemove, AfterCleanup, EndedCopies, CopiesOf, GoTo, Actors, NoRun, Runs, hands, procs
<1>23. ASSUME NEW a \in Actors, DeleteSettle(a)
      PROVE  Thread'
  <2> SUFFICES ASSUME NEW q \in Procs PROVE ThreadOf(q)'
    BY DEF Thread
  <2> ThreadOf(q)
    BY DEF Thread
  <2> QED
    BY <1>23, BackupAssumption DEF TypeOK, ServeTypeOK, HandsTypeOK, ThreadOf, DeleteSettle, Forget, DeletionEnds, GoTo, Actors, NoRun, Runs, hands, procs
<1>24. ASSUME NEW u \in Users, NEW S \in SUBSET Runs, DeleteRuns(u, S)
      PROVE  Thread'
  <2> SUFFICES ASSUME NEW q \in Procs PROVE ThreadOf(q)'
    BY DEF Thread
  <2> ThreadOf(q)
    BY DEF Thread
  <2> QED
    BY <1>24, BackupAssumption DEF TypeOK, ServeTypeOK, HandsTypeOK, ThreadOf, DeleteRuns, MarkDeleting, GoTo, Actors, NoRun, Runs, hands, procs
<1>25. ASSUME NEW u \in Users, ImportCheck(u)
      PROVE  Thread'
  <2> SUFFICES ASSUME NEW q \in Procs PROVE ThreadOf(q)'
    BY DEF Thread
  <2> ThreadOf(q)
    BY DEF Thread
  <2> QED
    BY <1>25, BackupAssumption DEF TypeOK, ServeTypeOK, HandsTypeOK, ThreadOf, ImportCheck, GoTo, Actors, NoRun, Runs, hands, procs
<1>26. ASSUME NEW u \in Users, ImportInsert(u)
      PROVE  Thread'
  <2> SUFFICES ASSUME NEW q \in Procs PROVE ThreadOf(q)'
    BY DEF Thread
  <2> ThreadOf(q)
    BY DEF Thread
  <2> QED
    BY <1>26, BackupAssumption DEF TypeOK, ServeTypeOK, HandsTypeOK, ThreadOf, ImportInsert, Forget, GoTo, Actors, NoRun, Runs, hands, procs
<1>27. ASSUME NEW u \in Users, CrashCommand(u)
      PROVE  Thread'
  <2> SUFFICES ASSUME NEW q \in Procs PROVE ThreadOf(q)'
    BY DEF Thread
  <2> ThreadOf(q)
    BY DEF Thread
  <2> QED
    BY <1>27, BackupAssumption DEF TypeOK, ServeTypeOK, HandsTypeOK, ThreadOf, CrashCommand, Forget, GoTo, Actors, NoRun, Runs, hands, procs
<1> QED
  BY <1>1, <1>2, <1>3, <1>4, <1>5, <1>6, <1>7, <1>8, <1>9, <1>10, <1>11, <1>12, <1>13, <1>14,
      <1>15, <1>16, <1>17, <1>18, <1>19, <1>20, <1>21, <1>22, <1>23, <1>24, <1>25, <1>26, <1>27
  DEF Next, ServeStep, WorkerStep, DeleteStep, Actors

\* A run that has ended, or that is being deleted, says how it ended.
EndedRows == \A r \in Runs : state[r] \in Final \cup {"deleting"} => status[r] \in Final

\* Every step keeps the copies those of runs that have ended.
LEMMA CopiesStep ==
  ASSUME TypeOK, Thread, EndedCopies, EndedRows, Next
  PROVE  EndedCopies'
<1>1. ASSUME NEW p \in Procs, Leave(p) \/ Acquire(p) \/ Recover(p) \/ EnqueueDue(p) \/ Claim(p)
             \/ SpawnWorker(p) \/ PollWrite(p) \/ FinishSuccess(p) \/ PollRead(p) \/
             WorkerRecord(p) \/ WorkerCreate(p) \/ WorkerFinish(p) \/ WorkerEvent(p) \/
             WorkerPanic(p)
      PROVE  EndedCopies'
  <2>1. UNCHANGED <<stage, todo, cstatus>>
    BY <1>1 DEF Leave, Acquire, Recover, EnqueueDue, Claim, SpawnWorker, PollWrite, FinishSuccess,
      PollRead, WorkerRecord, WorkerCreate, WorkerFinish, WorkerEvent, WorkerPanic, hands
  <2> QED
    BY <2>1 DEF EndedCopies, CopiesOf
<1>2. ASSUME NEW p \in Procs, NEW how \in {"drain", "stop"}, RequestStop(p, how)
      PROVE  EndedCopies'
  <2>1. UNCHANGED <<stage, todo, cstatus>>
    BY <1>2 DEF RequestStop, hands
  <2> QED
    BY <2>1 DEF EndedCopies, CopiesOf
<1>3. ASSUME NEW s \in Schedules, Save(s) \/ DeleteSchedule(s)
      PROVE  EndedCopies'
  <2>1. UNCHANGED <<stage, todo, cstatus>>
    BY <1>3 DEF Save, DeleteSchedule, hands
  <2> QED
    BY <2>1 DEF EndedCopies, CopiesOf
<1>4. ASSUME NEW s \in Schedules \cup {"one-shot"}, RunNow(s)
      PROVE  EndedCopies'
  <2>1. UNCHANGED <<stage, todo, cstatus>>
    BY <1>4 DEF RunNow, hands
  <2> QED
    BY <2>1 DEF EndedCopies, CopiesOf
<1>5. ASSUME NEW r \in Runs, Cancel(r)
      PROVE  EndedCopies'
  <2>1. UNCHANGED <<stage, todo, cstatus>>
    BY <1>5 DEF Cancel, hands
  <2> QED
    BY <2>1 DEF EndedCopies, CopiesOf
<1>6. ASSUME NEW place \in Paths, ForeignFile(place)
      PROVE  EndedCopies'
  <2>1. UNCHANGED <<stage, todo, cstatus>>
    BY <1>6 DEF ForeignFile, hands
  <2> QED
    BY <2>1 DEF EndedCopies, CopiesOf
<1>7. ASSUME Migrate \/ Clock
      PROVE  EndedCopies'
  <2>1. UNCHANGED <<stage, todo, cstatus>>
    BY <1>7 DEF Migrate, Clock, hands
  <2> QED
    BY <2>1 DEF EndedCopies, CopiesOf
<1>8. ASSUME NEW p \in Procs, CollectFailed(p)
      PROVE  EndedCopies'
  <2> SUFFICES ASSUME NEW b \in Actors PROVE CopiesOf(b)'
    BY DEF EndedCopies
  <2> CopiesOf(b)
    BY DEF EndedCopies
  <2> QED
    BY <1>8, BackupAssumption DEF TypeOK, ServeTypeOK, HandsTypeOK, CopiesOf, CollectFailed, Collected, CleanupSnapshot, Actors
<1>9. ASSUME NEW p \in Procs, RetainMark(p)
      PROVE  EndedCopies'
  <2> SUFFICES ASSUME NEW b \in Actors PROVE CopiesOf(b)'
    BY DEF EndedCopies
  <2> CopiesOf(b)
    BY DEF EndedCopies
  <2> QED
    BY <1>9, BackupAssumption DEF TypeOK, ServeTypeOK, HandsTypeOK, CopiesOf, RetainMark, MarkDeleting, mark_deleting, EndedRows, InState, Actors
<1>10. ASSUME NEW u \in Users, NEW S \in SUBSET Runs, DeleteRuns(u, S)
      PROVE  EndedCopies'
  <2> SUFFICES ASSUME NEW b \in Actors PROVE CopiesOf(b)'
    BY DEF EndedCopies
  <2> CopiesOf(b)
    BY DEF EndedCopies
  <2> QED
    BY <1>10, BackupAssumption DEF TypeOK, ServeTypeOK, HandsTypeOK, CopiesOf, DeleteRuns, MarkDeleting, mark_deleting, EndedRows, InState, Actors
<1>11. ASSUME NEW a \in Actors, DeleteNext(a)
      PROVE  EndedCopies'
  <2> SUFFICES ASSUME NEW b \in Actors PROVE CopiesOf(b)'
    BY DEF EndedCopies
  <2> CopiesOf(b)
    BY DEF EndedCopies
  <2> QED
    BY <1>11, BackupAssumption DEF TypeOK, ServeTypeOK, HandsTypeOK, CopiesOf, DeleteNext, CleanupSnapshot, Actors
<1>12. ASSUME NEW a \in Actors, CleanupRemove(a)
      PROVE  EndedCopies'
  <2> SUFFICES ASSUME NEW b \in Actors PROVE CopiesOf(b)'
    BY DEF EndedCopies
  <2> CopiesOf(b)
    BY DEF EndedCopies
  <2> QED
    BY <1>12, BackupAssumption DEF TypeOK, ServeTypeOK, HandsTypeOK, CopiesOf, CleanupRemove, AfterCleanup, Actors
<1>13. ASSUME NEW a \in Actors, DeleteSettle(a)
      PROVE  EndedCopies'
  <2> SUFFICES ASSUME NEW b \in Actors PROVE CopiesOf(b)'
    BY DEF EndedCopies
  <2> CopiesOf(b)
    BY DEF EndedCopies
  <2> QED
    BY <1>13, BackupAssumption DEF TypeOK, ServeTypeOK, HandsTypeOK, CopiesOf, DeleteSettle, Forget, Actors
<1>14. ASSUME NEW p \in Procs, FinishFailed(p)
      PROVE  EndedCopies'
  <2> SUFFICES ASSUME NEW b \in Actors PROVE CopiesOf(b)'
    BY DEF EndedCopies
  <2> CopiesOf(b)
    BY DEF EndedCopies
  <2> QED
    BY <1>14, BackupAssumption DEF TypeOK, ServeTypeOK, HandsTypeOK, CopiesOf, FinishFailed, Forget, ThreadOf, Thread, Actors
<1>15. ASSUME NEW p \in Procs, RetainSnapshot(p)
      PROVE  EndedCopies'
  <2> SUFFICES ASSUME NEW b \in Actors PROVE CopiesOf(b)'
    BY DEF EndedCopies
  <2> CopiesOf(b)
    BY DEF EndedCopies
  <2> QED
    BY <1>15, BackupAssumption DEF TypeOK, ServeTypeOK, HandsTypeOK, CopiesOf, RetainSnapshot, Forget, ThreadOf, Thread, Actors
<1>16. ASSUME NEW u \in Users, ImportInsert(u)
      PROVE  EndedCopies'
  <2> SUFFICES ASSUME NEW b \in Actors PROVE CopiesOf(b)'
    BY DEF EndedCopies
  <2> CopiesOf(b)
    BY DEF EndedCopies
  <2> QED
    BY <1>16, BackupAssumption DEF TypeOK, ServeTypeOK, HandsTypeOK, CopiesOf, ImportInsert, Forget, Actors
<1>17. ASSUME NEW p \in Procs, Crash(p)
      PROVE  EndedCopies'
  <2> SUFFICES ASSUME NEW b \in Actors PROVE CopiesOf(b)'
    BY DEF EndedCopies
  <2> CopiesOf(b)
    BY DEF EndedCopies
  <2> QED
    BY <1>17, BackupAssumption DEF TypeOK, ServeTypeOK, HandsTypeOK, CopiesOf, Crash, Forget, Actors
<1>18. ASSUME NEW u \in Users, CrashCommand(u)
      PROVE  EndedCopies'
  <2> SUFFICES ASSUME NEW b \in Actors PROVE CopiesOf(b)'
    BY DEF EndedCopies
  <2> CopiesOf(b)
    BY DEF EndedCopies
  <2> QED
    BY <1>18, BackupAssumption DEF TypeOK, ServeTypeOK, HandsTypeOK, CopiesOf, CrashCommand, Forget, Actors
<1>19. ASSUME NEW u \in Users, ImportCheck(u)
      PROVE  EndedCopies'
  <2> SUFFICES ASSUME NEW b \in Actors PROVE CopiesOf(b)'
    BY DEF EndedCopies
  <2> CopiesOf(b)
    BY DEF EndedCopies
  <2> QED
    BY <1>19, BackupAssumption DEF TypeOK, ServeTypeOK, HandsTypeOK, CopiesOf, ImportCheck, Actors
<1>20. ASSUME NEW a \in Actors, DeleteImported(a)
      PROVE  EndedCopies'
  <2> SUFFICES ASSUME NEW b \in Actors PROVE CopiesOf(b)'
    BY DEF EndedCopies
  <2> CopiesOf(b)
    BY DEF EndedCopies
  <2> QED
    BY <1>20, BackupAssumption DEF TypeOK, ServeTypeOK, HandsTypeOK, CopiesOf, DeleteImported, Actors
<1> QED
  BY <1>1, <1>2, <1>3, <1>4, <1>5, <1>6, <1>7, <1>8, <1>9, <1>10, <1>11, <1>12, <1>13, <1>14,
      <1>15, <1>16, <1>17, <1>18, <1>19, <1>20
  DEF Next, ServeStep, WorkerStep, DeleteStep, Actors

-----------------------------------------------------------------------------
(* What a step does to the rows *)

\* Ids beyond the last one handed out belong to nobody.
FreshIds == \A r \in Runs : r > issued => state[r] = "absent"

\* What the proofs about rows use of the other parts of the state.
Safe == TypeOK /\ Thread /\ EndedCopies /\ EndedRows /\ FreshIds /\ InHandIsRunning

\* The rows as one step leaves them.  Only the leader closes a run, which is
\* running; a new leader finds no run in anybody's hands; a deletion puts
\* back how a run ended.
NoRowOp == UNCHANGED <<issued, state, status, plan>>
EnqueueDueOp ==
  \E S \in SUBSET Due : \E owner \in [(issued + 1)..(issued + Cardinality(S)) -> S] : enqueue_due(S, owner)
EnqueueOp == \E s \in Schedules \cup {"one-shot"} : enqueue(s)
ClaimOp == \E r \in Runs : claim(r)
CancelOp == \E r \in Runs : cancel(r)
FinishOp ==
  \E p \in Procs, o \in Final, mark \in Marks :
    job[p] \in Runs /\ job'[p] = NoRun /\ state[job[p]] = "running" /\ finish(job[p], o, mark)
RecoverOp == recover /\ \A p \in Procs : job[p] = NoRun
MarkOp == \E S \in SUBSET Runs : mark_deleting(S)
RemoveOp == \E r : remove_run(r)
RestoreOp == \E r, mark : \E o \in Final : deletion_failed(r, o, mark)
ImportOp == issued < MaxRuns /\ insert_completed(issued + 1)

RowStep ==
  \/ NoRowOp \/ EnqueueDueOp \/ EnqueueOp \/ ClaimOp \/ CancelOp \/ FinishOp
  \/ RecoverOp \/ MarkOp \/ RemoveOp \/ RestoreOp \/ ImportOp

\* Every step does one of these.
LEMMA RowSteps ==
  ASSUME Safe, Next
  PROVE  RowStep
<1>1. ASSUME NEW p \in Procs, Leave(p) \/ Acquire(p) \/ SpawnWorker(p) \/ CollectFailed(p) \/
             RetainSnapshot(p) \/ PollRead(p) \/ WorkerCreate(p) \/ WorkerFinish(p) \/
             WorkerEvent(p) \/ WorkerPanic(p) \/ Crash(p)
      PROVE  RowStep
  <2>1. UNCHANGED store
    BY <1>1 DEF Leave, Acquire, SpawnWorker, CollectFailed, RetainSnapshot, PollRead, WorkerCreate,
      WorkerFinish, WorkerEvent, WorkerPanic, Crash
  <2> QED
    BY <2>1 DEF RowStep, NoRowOp, store, rows
<1>2. ASSUME NEW a \in Actors, DeleteNext(a) \/ CleanupRemove(a)
      PROVE  RowStep
  <2>1. UNCHANGED store
    BY <1>2 DEF DeleteNext, CleanupRemove
  <2> QED
    BY <2>1 DEF RowStep, NoRowOp, store, rows
<1>3. ASSUME NEW p \in Procs, NEW how \in {"drain", "stop"}, RequestStop(p, how)
      PROVE  RowStep
  <2>1. UNCHANGED store
    BY <1>3 DEF RequestStop
  <2> QED
    BY <2>1 DEF RowStep, NoRowOp, store, rows
<1>4. ASSUME NEW u \in Users, ImportCheck(u) \/ CrashCommand(u)
      PROVE  RowStep
  <2>1. UNCHANGED store
    BY <1>4 DEF ImportCheck, CrashCommand
  <2> QED
    BY <2>1 DEF RowStep, NoRowOp, store, rows
<1>5. ASSUME NEW place \in Paths, ForeignFile(place)
      PROVE  RowStep
  <2>1. UNCHANGED store
    BY <1>5 DEF ForeignFile
  <2> QED
    BY <2>1 DEF RowStep, NoRowOp, store, rows
<1>6. ASSUME NEW p \in Procs, Recover(p)
      PROVE  RowStep
  <2>1. CASE UNCHANGED store
    BY <2>1 DEF RowStep, NoRowOp, store, rows
  <2>2. CASE recover
    <3>1. \A q \in Procs : job[q] = NoRun
      BY <1>6 DEF Safe, Recover, InHandIsRunning, Thread, ThreadOf
    <3> QED
      BY <2>2, <3>1 DEF RowStep, RecoverOp
  <2> QED
    BY <1>6, <2>1, <2>2 DEF Recover
<1>7. ASSUME NEW p \in Procs, EnqueueDue(p)
      PROVE  RowStep
BY <1>7 DEF EnqueueDue, RowStep, EnqueueDueOp, NoRowOp, store, rows
<1>8. ASSUME NEW p \in Procs, Claim(p)
      PROVE  RowStep
BY <1>8 DEF Claim, RowStep, ClaimOp, NoRowOp, store, rows
<1>9. ASSUME NEW p \in Procs, PollWrite(p)
      PROVE  RowStep
BY <1>9 DEF PollWrite, progress, RowStep, NoRowOp, store, rows
<1>10. ASSUME NEW p \in Procs, WorkerRecord(p)
      PROVE  RowStep
BY <1>10 DEF WorkerRecord, progress, RowStep, NoRowOp, store, rows
<1>11. ASSUME NEW p \in Procs, FinishFailed(p)
      PROVE  RowStep
  <2>1. CASE UNCHANGED store
    BY <2>1 DEF RowStep, NoRowOp, store, rows
  <2>2. CASE finish(job[p], cstatus[p], cfile[p])
    <3>1. job[p] # NoRun /\ cstatus[p] \in Final
      BY <1>11 DEF Safe, FinishFailed, Thread, ThreadOf
    <3>2. job[p] \in Runs /\ job'[p] = NoRun /\ cfile[p] \in Marks
      BY <1>11, <3>1 DEF Safe, TypeOK, ServeTypeOK, HandsTypeOK, FinishFailed, Actors
    <3> QED
      BY <2>2, <3>1, <3>2 DEF Safe, InHandIsRunning, RowStep, FinishOp
  <2> QED
    BY <1>11, <2>1, <2>2 DEF FinishFailed
<1>12. ASSUME NEW p \in Procs, FinishSuccess(p)
      PROVE  RowStep
  <2>1. CASE UNCHANGED store
    BY <2>1 DEF RowStep, NoRowOp, store, rows
  <2>2. CASE finish(job[p], "success", wfile[p])
    <3>1. job[p] # NoRun
      BY <1>12 DEF Safe, FinishSuccess, Collected, Thread, ThreadOf
    <3>2. job[p] \in Runs /\ job'[p] = NoRun /\ wfile[p] \in Marks
      BY <1>12, <3>1 DEF Safe, TypeOK, ServeTypeOK, FinishSuccess
    <3>3. "success" \in Final
      BY DEF Final
    <3> QED
      BY <2>2, <3>1, <3>2, <3>3 DEF Safe, InHandIsRunning, RowStep, FinishOp
  <2> QED
    BY <1>12, <2>1, <2>2 DEF FinishSuccess
<1>13. ASSUME NEW p \in Procs, RetainMark(p)
      PROVE  RowStep
  <2>1. ids[p] \in SUBSET Runs
    BY DEF Safe, TypeOK, HandsTypeOK, Actors
  <2> QED
    BY <1>13, <2>1 DEF RetainMark, MarkDeleting, RowStep, MarkOp, NoRowOp, store, rows
<1>14. ASSUME NEW a \in Actors, DeleteImported(a)
      PROVE  RowStep
BY <1>14 DEF DeleteImported, RowStep, RemoveOp, NoRowOp, store, rows
<1>15. ASSUME NEW a \in Actors, DeleteSettle(a)
      PROVE  RowStep
  <2>1. stage[a] = "restore" => cstatus[a] \in Final
    BY DEF Safe, EndedCopies, CopiesOf
  <2> QED
    BY <1>15, <2>1 DEF DeleteSettle, RowStep, RemoveOp, RestoreOp, NoRowOp, store, rows
<1>16. ASSUME NEW u \in Users, NEW S \in SUBSET Runs, DeleteRuns(u, S)
      PROVE  RowStep
BY <1>16 DEF DeleteRuns, MarkDeleting, RowStep, MarkOp
<1>17. ASSUME NEW u \in Users, ImportInsert(u)
      PROVE  RowStep
BY <1>17 DEF ImportInsert, RowStep, ImportOp
<1>18. ASSUME NEW s \in Schedules \cup {"one-shot"}, RunNow(s)
      PROVE  RowStep
BY <1>18 DEF RunNow, RowStep, EnqueueOp
<1>19. ASSUME NEW r \in Runs, Cancel(r)
      PROVE  RowStep
BY <1>19 DEF Cancel, RowStep, CancelOp
<1>20. ASSUME NEW s \in Schedules, Save(s)
      PROVE  RowStep
BY <1>20 DEF Save, save_schedule, rows, RowStep, NoRowOp
<1>21. ASSUME NEW s \in Schedules, DeleteSchedule(s)
      PROVE  RowStep
BY <1>21 DEF DeleteSchedule, delete_schedule, rows, RowStep, NoRowOp
<1>22. ASSUME Migrate
      PROVE  RowStep
BY <1>22 DEF Migrate, migrate, rows, RowStep, NoRowOp
<1>23. ASSUME Clock
      PROVE  RowStep
BY <1>23 DEF Clock, rows, RowStep, NoRowOp
<1> QED
  BY <1>1, <1>2, <1>3, <1>4, <1>5, <1>6, <1>7, <1>8, <1>9, <1>10, <1>11, <1>12, <1>13, <1>14,
      <1>15, <1>16, <1>17, <1>18, <1>19, <1>20, <1>21, <1>22, <1>23
  DEF Next, ServeStep, WorkerStep, DeleteStep, Actors


\* A step of the rows keeps them consistent.
LEMMA RowsStep ==
  ASSUME Safe, RowStep
  PROVE  EndedRows' /\ FreshIds'
<1> USE DEF Safe, TypeOK, StoreTypeOK, EndedRows, FreshIds
<1>1. CASE NoRowOp
  BY <1>1 DEF NoRowOp
<1>2. CASE EnqueueDueOp
  <2> PICK S \in SUBSET Due : \E f \in [(issued + 1)..(issued + Cardinality(S)) -> S] : enqueue_due(S, f)
    BY <1>2 DEF EnqueueDueOp
  <2> PICK owner \in [(issued + 1)..(issued + Cardinality(S)) -> S] : enqueue_due(S, owner)
    OBVIOUS
  <2>1. Cardinality(S) \in Nat /\ issued' = issued + Cardinality(S)
    BY EnqueueDueFacts
  <2> QED
    BY <2>1 DEF enqueue_due, insert_job, Final, Runs
<1>3. CASE EnqueueOp
  <2>1. Cardinality({issued + 1}) = 1
    BY FS_Singleton
  <2> QED
    BY <1>3, <2>1 DEF EnqueueOp, enqueue, insert_job, Final, Runs
<1>4. CASE ClaimOp
  BY <1>4 DEF ClaimOp, claim, Oldest, InState, Final
<1>5. CASE CancelOp
  BY <1>5 DEF CancelOp, cancel, Active, Final
<1>6. CASE FinishOp
  BY <1>6 DEF FinishOp, finish
<1>7. CASE RecoverOp
  BY <1>7 DEF RecoverOp, recover, InState, Final
<1>8. CASE MarkOp
  BY <1>8 DEF MarkOp, mark_deleting, InState, Final
<1>9. CASE RemoveOp
  BY <1>9 DEF RemoveOp, remove_run, Final
<1>10. CASE RestoreOp
  BY <1>10 DEF RestoreOp, deletion_failed, Final
<1>11. CASE ImportOp
  BY <1>11 DEF ImportOp, insert_completed, Final, Runs
<1> QED
  BY <1>1, <1>2, <1>3, <1>4, <1>5, <1>6, <1>7, <1>8, <1>9, <1>10, <1>11 DEF RowStep

\* A running run stays running, unless its leader lets go of it or nobody has a
\* run in hand.
LEMMA RunningStays ==
  ASSUME Safe, RowStep, NEW r \in Runs, state[r] = "running"
  PROVE  \/ state'[r] = "running"
         \/ \E p \in Procs : job[p] = r /\ job'[p] = NoRun
         \/ \A p \in Procs : job[p] = NoRun
<1> USE DEF Safe, TypeOK, StoreTypeOK, FreshIds
<1>1. CASE NoRowOp
  BY <1>1 DEF NoRowOp
<1>2. CASE EnqueueDueOp
  <2> PICK S \in SUBSET Due : \E f \in [(issued + 1)..(issued + Cardinality(S)) -> S] : enqueue_due(S, f)
    BY <1>2 DEF EnqueueDueOp
  <2> PICK owner \in [(issued + 1)..(issued + Cardinality(S)) -> S] : enqueue_due(S, owner)
    OBVIOUS
  <2>1. Cardinality(S) \in Nat
    BY EnqueueDueFacts
  <2> QED
    BY <2>1 DEF enqueue_due, insert_job, Runs
<1>3. CASE EnqueueOp
  BY <1>3 DEF EnqueueOp, enqueue, insert_job, Runs
<1>4. CASE ClaimOp
  BY <1>4 DEF ClaimOp, claim
<1>5. CASE CancelOp
  BY <1>5 DEF CancelOp, cancel
<1>6. CASE FinishOp
  BY <1>6 DEF FinishOp, finish
<1>7. CASE RecoverOp
  BY <1>7 DEF RecoverOp
<1>8. CASE MarkOp
  BY <1>8 DEF MarkOp, mark_deleting, InState, Final
<1>9. CASE RemoveOp
  BY <1>9 DEF RemoveOp, remove_run
<1>10. CASE RestoreOp
  BY <1>10 DEF RestoreOp, deletion_failed
<1>11. CASE ImportOp
  BY <1>11 DEF ImportOp, insert_completed, Runs
<1> QED
  BY <1>1, <1>2, <1>3, <1>4, <1>5, <1>6, <1>7, <1>8, <1>9, <1>10, <1>11 DEF RowStep

\* A process that has a run in hand after a step holds the lock, and had the run
\* before or has just claimed it.
LEMMA HandStep ==
  ASSUME Safe, NEW q \in Procs, job'[q] # NoRun, Next
  PROVE  lock' = q /\ (job'[q] = job[q] \/ state'[job'[q]] = "running")
<1>1. ASSUME NEW p \in Procs, EnqueueDue(p) \/ PollWrite(p) \/ CollectFailed(p) \/
             RetainSnapshot(p) \/ RetainMark(p) \/ PollRead(p) \/ WorkerRecord(p) \/
             WorkerCreate(p) \/ WorkerFinish(p) \/ WorkerEvent(p) \/ WorkerPanic(p)
      PROVE  lock' = q /\ (job'[q] = job[q] \/ state'[job'[q]] = "running")
  <2>1. UNCHANGED <<lock, job>>
    BY <1>1 DEF EnqueueDue, PollWrite, CollectFailed, RetainSnapshot, RetainMark, PollRead, WorkerRecord,
      WorkerCreate, WorkerFinish, WorkerEvent, WorkerPanic, procs
  <2> QED
    BY <2>1 DEF Safe, InHandIsRunning
<1>2. ASSUME NEW a \in Actors, DeleteImported(a) \/ DeleteNext(a) \/ CleanupRemove(a) \/
             DeleteSettle(a)
      PROVE  lock' = q /\ (job'[q] = job[q] \/ state'[job'[q]] = "running")
  <2>1. UNCHANGED <<lock, job>>
    BY <1>2 DEF DeleteImported, DeleteNext, CleanupRemove, DeleteSettle, procs
  <2> QED
    BY <2>1 DEF Safe, InHandIsRunning
<1>3. ASSUME NEW p \in Procs, NEW how \in {"drain", "stop"}, RequestStop(p, how)
      PROVE  lock' = q /\ (job'[q] = job[q] \/ state'[job'[q]] = "running")
  <2>1. UNCHANGED <<lock, job>>
    BY <1>3 DEF RequestStop, procs
  <2> QED
    BY <2>1 DEF Safe, InHandIsRunning
<1>4. ASSUME NEW u \in Users, NEW S \in SUBSET Runs, DeleteRuns(u, S)
      PROVE  lock' = q /\ (job'[q] = job[q] \/ state'[job'[q]] = "running")
  <2>1. UNCHANGED <<lock, job>>
    BY <1>4 DEF DeleteRuns, procs
  <2> QED
    BY <2>1 DEF Safe, InHandIsRunning
<1>5. ASSUME NEW u \in Users, ImportCheck(u) \/ ImportInsert(u) \/ CrashCommand(u)
      PROVE  lock' = q /\ (job'[q] = job[q] \/ state'[job'[q]] = "running")
  <2>1. UNCHANGED <<lock, job>>
    BY <1>5 DEF ImportCheck, ImportInsert, CrashCommand, procs
  <2> QED
    BY <2>1 DEF Safe, InHandIsRunning
<1>6. ASSUME NEW s \in Schedules, Save(s) \/ DeleteSchedule(s)
      PROVE  lock' = q /\ (job'[q] = job[q] \/ state'[job'[q]] = "running")
  <2>1. UNCHANGED <<lock, job>>
    BY <1>6 DEF Save, DeleteSchedule, procs
  <2> QED
    BY <2>1 DEF Safe, InHandIsRunning
<1>7. ASSUME NEW s \in Schedules \cup {"one-shot"}, RunNow(s)
      PROVE  lock' = q /\ (job'[q] = job[q] \/ state'[job'[q]] = "running")
  <2>1. UNCHANGED <<lock, job>>
    BY <1>7 DEF RunNow, procs
  <2> QED
    BY <2>1 DEF Safe, InHandIsRunning
<1>8. ASSUME NEW r \in Runs, Cancel(r)
      PROVE  lock' = q /\ (job'[q] = job[q] \/ state'[job'[q]] = "running")
  <2>1. UNCHANGED <<lock, job>>
    BY <1>8 DEF Cancel, procs
  <2> QED
    BY <2>1 DEF Safe, InHandIsRunning
<1>9. ASSUME NEW place \in Paths, ForeignFile(place)
      PROVE  lock' = q /\ (job'[q] = job[q] \/ state'[job'[q]] = "running")
  <2>1. UNCHANGED <<lock, job>>
    BY <1>9 DEF ForeignFile, procs
  <2> QED
    BY <2>1 DEF Safe, InHandIsRunning
<1>10. ASSUME Migrate \/ Clock
      PROVE  lock' = q /\ (job'[q] = job[q] \/ state'[job'[q]] = "running")
  <2>1. UNCHANGED <<lock, job>>
    BY <1>10 DEF Migrate, Clock, procs
  <2> QED
    BY <2>1 DEF Safe, InHandIsRunning
<1>11. ASSUME NEW p \in Procs, Leave(p)
      PROVE  lock' = q /\ (job'[q] = job[q] \/ state'[job'[q]] = "running")
BY <1>11, BackupAssumption DEF Safe, TypeOK, ServeTypeOK, Thread, ThreadOf, InHandIsRunning,
    Leave
<1>12. ASSUME NEW p \in Procs, Acquire(p)
      PROVE  lock' = q /\ (job'[q] = job[q] \/ state'[job'[q]] = "running")
BY <1>12, BackupAssumption DEF Safe, TypeOK, ServeTypeOK, Thread, ThreadOf, InHandIsRunning,
    Acquire
<1>13. ASSUME NEW p \in Procs, Recover(p)
      PROVE  lock' = q /\ (job'[q] = job[q] \/ state'[job'[q]] = "running")
BY <1>13, BackupAssumption DEF Safe, TypeOK, ServeTypeOK, Thread, ThreadOf, InHandIsRunning,
    Recover
<1>14. ASSUME NEW p \in Procs, SpawnWorker(p)
      PROVE  lock' = q /\ (job'[q] = job[q] \/ state'[job'[q]] = "running")
BY <1>14, BackupAssumption DEF Safe, TypeOK, ServeTypeOK, Thread, ThreadOf, InHandIsRunning,
    SpawnWorker
<1>15. ASSUME NEW p \in Procs, FinishFailed(p)
      PROVE  lock' = q /\ (job'[q] = job[q] \/ state'[job'[q]] = "running")
BY <1>15, BackupAssumption DEF Safe, TypeOK, ServeTypeOK, Thread, ThreadOf, InHandIsRunning,
    FinishFailed
<1>16. ASSUME NEW p \in Procs, FinishSuccess(p)
      PROVE  lock' = q /\ (job'[q] = job[q] \/ state'[job'[q]] = "running")
BY <1>16, BackupAssumption DEF Safe, TypeOK, ServeTypeOK, Thread, ThreadOf, InHandIsRunning,
    FinishSuccess
<1>17. ASSUME NEW p \in Procs, Crash(p)
      PROVE  lock' = q /\ (job'[q] = job[q] \/ state'[job'[q]] = "running")
BY <1>17, BackupAssumption DEF Safe, TypeOK, ServeTypeOK, Thread, ThreadOf, InHandIsRunning,
    Crash
<1>18. ASSUME NEW p \in Procs, Claim(p)
      PROVE  lock' = q /\ (job'[q] = job[q] \/ state'[job'[q]] = "running")
BY <1>18 DEF Safe, TypeOK, ServeTypeOK, Thread, ThreadOf, InHandIsRunning, Claim, claim,
    StoreTypeOK
<1> QED
  BY <1>1, <1>2, <1>3, <1>4, <1>5, <1>6, <1>7, <1>8, <1>9, <1>10, <1>11, <1>12, <1>13, <1>14,
      <1>15, <1>16, <1>17, <1>18
  DEF Next, ServeStep, WorkerStep, DeleteStep, Actors

LEMMA InHandStep ==
  ASSUME Safe, Next
  PROVE  InHandIsRunning'
<1> SUFFICES ASSUME NEW q \in Procs, job'[q] # NoRun
             PROVE  lock' = q /\ state'[job'[q]] = "running"
  BY DEF InHandIsRunning
<1>1. lock' = q /\ (job'[q] = job[q] \/ state'[job'[q]] = "running")
  BY HandStep
<1>2. CASE job'[q] = job[q]
  <2>1. job[q] \in Runs /\ lock = q /\ state[job[q]] = "running"
    BY <1>2 DEF Safe, TypeOK, ServeTypeOK, InHandIsRunning
  <2>2. \A p \in Procs : job[p] = job[q] => p = q
    BY <2>1, <1>2 DEF Safe, InHandIsRunning
  <2> QED
    BY <1>1, <1>2, <2>1, <2>2, RowSteps, RunningStays
<1> QED
  BY <1>1, <1>2

LEMMA SafeInit == Init => Safe
<1> SUFFICES ASSUME Init PROVE Safe
  OBVIOUS
<1>1. TypeOK
  BY InitType
<1>2. Thread /\ EndedCopies
  BY DEF Init, Thread, ThreadOf, EndedCopies, CopiesOf, Actors
<1>3. EndedRows /\ FreshIds
  BY DEF Init, StoreInit, EndedRows, FreshIds, Final
<1>4. InHandIsRunning
  BY DEF Init, InHandIsRunning
<1> QED
  BY <1>1, <1>2, <1>3, <1>4 DEF Safe

LEMMA SafeStep == Safe /\ [Next]_vars => Safe'
<1>1. ASSUME Safe, Next
      PROVE  Safe'
  <2>1. TypeOK' /\ Thread' /\ EndedCopies'
    BY <1>1, TypeStep, ThreadStep, CopiesStep DEF Safe
  <2>2. EndedRows' /\ FreshIds' /\ InHandIsRunning'
    BY <1>1, RowSteps, RowsStep, InHandStep
  <2> QED
    BY <2>1, <2>2 DEF Safe
<1>2. ASSUME Safe, UNCHANGED vars
      PROVE  Safe'
  <2>1. TypeOK'
    BY <1>2, TypeStep DEF Safe
  <2>2. UNCHANGED <<lock, pc, job, stage, todo, cstatus>> /\ UNCHANGED <<issued, state, status>>
    BY <1>2 DEF vars, store, rows, procs, hands
  <2>3. Thread' /\ EndedCopies'
    BY <1>2, <2>2 DEF Safe, Thread, ThreadOf, EndedCopies, CopiesOf
  <2>4. EndedRows' /\ FreshIds' /\ InHandIsRunning'
    BY <1>2, <2>2 DEF Safe, EndedRows, FreshIds, InHandIsRunning
  <2> QED
    BY <2>1, <2>3, <2>4 DEF Safe
<1> QED
  BY <1>1, <1>2

LEMMA AlwaysSafe == Spec => []Safe
<1> QED
  BY SafeInit, SafeStep, PTL DEF Spec

\* A run that a tick has in hand is running and its process holds the lock: no
\* two processes export at a time, and finish never overwrites an outcome,
\* however leadership moves.
THEOREM InHand == Spec => []InHandIsRunning
<1>1. Safe => InHandIsRunning
  BY DEF Safe
<1> QED
  BY <1>1, AlwaysSafe, PTL

-----------------------------------------------------------------------------
(* One active run of a schedule *)

LEMMA OneActiveStep ==
  ASSUME Safe, RowStep, OneActivePerPlan
  PROVE  OneActivePerPlan'
<1> USE DEF Safe, TypeOK, StoreTypeOK, OneActivePerPlan, InState
<1>1. CASE NoRowOp
  BY <1>1 DEF NoRowOp
<1>2. CASE EnqueueDueOp
  <2> PICK S \in SUBSET Due : \E f \in [(issued + 1)..(issued + Cardinality(S)) -> S] : enqueue_due(S, f)
    BY <1>2 DEF EnqueueDueOp
  <2> PICK owner \in [(issued + 1)..(issued + Cardinality(S)) -> S] : enqueue_due(S, owner)
    OBVIOUS
  <2> DEFINE New == (issued + 1)..(issued + Cardinality(S))
  <2>1. \A r \in Runs \cap New : plan'[r] = owner[r] /\ owner[r] \in S
    BY DEF enqueue_due, insert_job
  <2>2. \A r \in Runs \ New : plan'[r] = plan[r] /\ state'[r] = state[r]
    BY DEF enqueue_due, insert_job
  <2>3. \A s \in S, q \in Runs : state[q] \in Active => plan[q] # s
    BY DEF Due, active
  <2>4. \A r, q \in New : owner[r] = owner[q] => r = q
    BY DEF enqueue_due
  <2> SUFFICES ASSUME NEW r \in Runs, NEW q \in Runs, state'[r] \in Active, state'[q] \in Active,
                      r # q, plan'[r] \in Schedules
               PROVE  plan'[r] # plan'[q]
    OBVIOUS
  <2> HIDE DEF New
  <2>5. CASE r \in New /\ q \in New
    BY <2>5, <2>1, <2>4
  <2>6. CASE r \in New /\ q \notin New
    BY <2>6, <2>1, <2>2, <2>3
  <2>7. CASE r \notin New /\ q \in New
    BY <2>7, <2>1, <2>2, <2>3
  <2>8. CASE r \notin New /\ q \notin New
    BY <2>8, <2>2
  <2> QED
    BY <2>5, <2>6, <2>7, <2>8
<1>3. CASE EnqueueOp
  BY <1>3, StoreAssumption DEF EnqueueOp, enqueue, insert_job, active, Runs
<1>4. CASE ClaimOp
  BY <1>4 DEF ClaimOp, claim, Oldest, Active
<1>5. CASE CancelOp
  BY <1>5 DEF CancelOp, cancel, Active
<1>6. CASE FinishOp
  BY <1>6 DEF FinishOp, finish, Active, Final
<1>7. CASE RecoverOp
  BY <1>7 DEF RecoverOp, recover, Active
<1>8. CASE MarkOp
  BY <1>8 DEF MarkOp, mark_deleting, Active
<1>9. CASE RemoveOp
  BY <1>9 DEF RemoveOp, remove_run, Active
<1>10. CASE RestoreOp
  BY <1>10 DEF RestoreOp, deletion_failed, Active, Final
<1>11. CASE ImportOp
  BY <1>11, StoreAssumption DEF ImportOp, insert_completed, Active
<1> QED
  BY <1>1, <1>2, <1>3, <1>4, <1>5, <1>6, <1>7, <1>8, <1>9, <1>10, <1>11 DEF RowStep

\* A schedule has at most one queued or running run, for any number of
\* processes that become leader and of users who ask for runs.
THEOREM OneActive == Spec => []OneActivePerPlan
<1>1. Init => OneActivePerPlan
  BY DEF Init, StoreInit, OneActivePerPlan, InState, Active
<1>2. Safe /\ OneActivePerPlan /\ [Next]_vars => OneActivePerPlan'
  <2>1. ASSUME UNCHANGED vars, OneActivePerPlan
        PROVE  OneActivePerPlan'
    BY <2>1 DEF OneActivePerPlan, InState, vars, store, rows
  <2> QED
    BY <2>1, OneActiveStep, RowSteps
<1> QED
  BY <1>1, <1>2, AlwaysSafe, PTL DEF Spec

-----------------------------------------------------------------------------
(* One run for each time *)

\* A schedule that was served has its next time ahead of it, until the clock
\* moves; the times the browser kept are taken over before any was served.
ServedOnce ==
  /\ replays = 0
  /\ now >= 1
  /\ \A s \in Schedules :
       /\ last[s] <= now
       /\ last[s] = now => next[s] > now
       /\ migrated = 0 => enabled[s] = "absent" /\ last[s] = 0

\* Every step keeps it so.
LEMMA ServedStep ==
  ASSUME TypeOK, ServedOnce, Next
  PROVE  ServedOnce'
<1>1. ASSUME NEW p \in Procs, Leave(p) \/ Acquire(p) \/ Recover(p) \/ Claim(p) \/ SpawnWorker(p)
             \/ PollWrite(p) \/ CollectFailed(p) \/ RetainSnapshot(p) \/ RetainMark(p) \/
             PollRead(p) \/ WorkerRecord(p) \/ WorkerCreate(p) \/ WorkerFinish(p) \/
             WorkerEvent(p) \/ WorkerPanic(p) \/ Crash(p)
      PROVE  ServedOnce'
  <2>1. UNCHANGED <<now, plans, served>>
    BY <1>1 DEF Leave, Acquire, Recover, Claim, SpawnWorker, PollWrite, CollectFailed, RetainSnapshot,
      RetainMark, PollRead, WorkerRecord, WorkerCreate, WorkerFinish, WorkerEvent, WorkerPanic,
      Crash, store, plans, recover, claim, cancel, progress, MarkDeleting, mark_deleting,
      remove_run, deletion_failed, insert_completed, enqueue, insert_job
  <2> QED
    BY <2>1 DEF ServedOnce, plans, served
<1>2. ASSUME NEW a \in Actors, DeleteImported(a) \/ DeleteNext(a) \/ CleanupRemove(a) \/
             DeleteSettle(a)
      PROVE  ServedOnce'
  <2>1. UNCHANGED <<now, plans, served>>
    BY <1>2 DEF DeleteImported, DeleteNext, CleanupRemove, DeleteSettle, store, plans, recover, claim,
      cancel, progress, MarkDeleting, mark_deleting, remove_run, deletion_failed,
      insert_completed, enqueue, insert_job
  <2> QED
    BY <2>1 DEF ServedOnce, plans, served
<1>3. ASSUME NEW p \in Procs, NEW how \in {"drain", "stop"}, RequestStop(p, how)
      PROVE  ServedOnce'
  <2>1. UNCHANGED <<now, plans, served>>
    BY <1>3 DEF RequestStop, store, plans, recover, claim, cancel, progress, MarkDeleting, mark_deleting,
      remove_run, deletion_failed, insert_completed, enqueue, insert_job
  <2> QED
    BY <2>1 DEF ServedOnce, plans, served
<1>4. ASSUME NEW u \in Users, NEW S \in SUBSET Runs, DeleteRuns(u, S)
      PROVE  ServedOnce'
  <2>1. UNCHANGED <<now, plans, served>>
    BY <1>4 DEF DeleteRuns, store, plans, recover, claim, cancel, progress, MarkDeleting, mark_deleting,
      remove_run, deletion_failed, insert_completed, enqueue, insert_job
  <2> QED
    BY <2>1 DEF ServedOnce, plans, served
<1>5. ASSUME NEW u \in Users, ImportCheck(u) \/ ImportInsert(u) \/ CrashCommand(u)
      PROVE  ServedOnce'
  <2>1. UNCHANGED <<now, plans, served>>
    BY <1>5 DEF ImportCheck, ImportInsert, CrashCommand, store, plans, recover, claim, cancel, progress,
      MarkDeleting, mark_deleting, remove_run, deletion_failed, insert_completed, enqueue,
      insert_job
  <2> QED
    BY <2>1 DEF ServedOnce, plans, served
<1>6. ASSUME NEW s \in Schedules \cup {"one-shot"}, RunNow(s)
      PROVE  ServedOnce'
  <2>1. UNCHANGED <<now, plans, served>>
    BY <1>6 DEF RunNow, store, plans, recover, claim, cancel, progress, MarkDeleting, mark_deleting,
      remove_run, deletion_failed, insert_completed, enqueue, insert_job
  <2> QED
    BY <2>1 DEF ServedOnce, plans, served
<1>7. ASSUME NEW r \in Runs, Cancel(r)
      PROVE  ServedOnce'
  <2>1. UNCHANGED <<now, plans, served>>
    BY <1>7 DEF Cancel, store, plans, recover, claim, cancel, progress, MarkDeleting, mark_deleting,
      remove_run, deletion_failed, insert_completed, enqueue, insert_job
  <2> QED
    BY <2>1 DEF ServedOnce, plans, served
<1>8. ASSUME NEW place \in Paths, ForeignFile(place)
      PROVE  ServedOnce'
  <2>1. UNCHANGED <<now, plans, served>>
    BY <1>8 DEF ForeignFile, store, plans, recover, claim, cancel, progress, MarkDeleting, mark_deleting,
      remove_run, deletion_failed, insert_completed, enqueue, insert_job
  <2> QED
    BY <2>1 DEF ServedOnce, plans, served
<1>9. ASSUME NEW p \in Procs, EnqueueDue(p)
      PROVE  ServedOnce'
  <2>1. CASE UNCHANGED store
    BY <2>1 DEF ServedOnce, store, plans, served
  <2>2. ASSUME NEW S \in SUBSET Due, NEW owner, enqueue_due(S, owner)
        PROVE  ServedOnce'
    <3>1. {s \in S : last[s] = now} = {}
      BY DEF TypeOK, StoreTypeOK, ServedOnce, Due
    <3>2. Cardinality({s \in S : last[s] = now}) = 0
      BY <3>1, FS_EmptySet, Zenon
    <3>3. replays' = 0
      BY <2>2, <3>2 DEF enqueue_due, ServedOnce
    <3> QED
      BY <2>2, <3>3 DEF TypeOK, StoreTypeOK, ServedOnce, enqueue_due, insert_job, Due
  <2> QED
    BY <1>9, <2>1, <2>2 DEF EnqueueDue
<1>10. ASSUME NEW p \in Procs, FinishFailed(p)
      PROVE  ServedOnce'
  <2>1. CASE UNCHANGED store
    BY <2>1 DEF ServedOnce, store, plans, served
  <2>2. CASE finish(job[p], cstatus[p], cfile[p])
    BY <2>2 DEF TypeOK, StoreTypeOK, ServedOnce, finish, served
  <2> QED
    BY <1>10, <2>1, <2>2 DEF FinishFailed
<1>11. ASSUME NEW p \in Procs, FinishSuccess(p)
      PROVE  ServedOnce'
  <2>1. CASE UNCHANGED store
    BY <2>1 DEF ServedOnce, store, plans, served
  <2>2. CASE finish(job[p], "success", wfile[p])
    BY <2>2 DEF TypeOK, StoreTypeOK, ServedOnce, finish, served
  <2> QED
    BY <1>11, <2>1, <2>2 DEF FinishSuccess
<1>12. ASSUME NEW s \in Schedules, Save(s)
      PROVE  ServedOnce'
BY <1>12 DEF TypeOK, StoreTypeOK, ServedOnce, Save, save_schedule, served
<1>13. ASSUME NEW s \in Schedules, DeleteSchedule(s)
      PROVE  ServedOnce'
BY <1>13 DEF TypeOK, StoreTypeOK, ServedOnce, DeleteSchedule, delete_schedule, served
<1>14. ASSUME Migrate
      PROVE  ServedOnce'
BY <1>14 DEF TypeOK, StoreTypeOK, ServedOnce, Migrate, migrate, served
<1>15. ASSUME Clock
      PROVE  ServedOnce'
BY <1>15 DEF TypeOK, StoreTypeOK, ServedOnce, Clock, plans, served
<1> QED
  BY <1>1, <1>2, <1>3, <1>4, <1>5, <1>6, <1>7, <1>8, <1>9, <1>10, <1>11, <1>12, <1>13, <1>14,
      <1>15
  DEF Next, ServeStep, WorkerStep, DeleteStep, Actors


\* A time at which a schedule is due gives one run, for any number of schedules,
\* leaders, crashes and edits.
THEOREM OneRunForATime == Spec => []NoReplay
<1>1. Init => ServedOnce
  BY DEF Init, StoreInit, ServedOnce
<1>2. TypeOK /\ ServedOnce /\ [Next]_vars => ServedOnce'
  <2>1. ASSUME UNCHANGED vars, ServedOnce
        PROVE  ServedOnce'
    BY <2>1 DEF ServedOnce, vars, store, plans, served
  <2> QED
    BY <2>1, ServedStep
<1>3. ServedOnce => NoReplay
  BY DEF ServedOnce, NoReplay
<1> QED
  BY <1>1, <1>2, <1>3, TypeCorrect, PTL DEF Spec

-----------------------------------------------------------------------------
(* The refinement of RunLifecycle *)

LEMMA LifecycleStep ==
  ASSUME Safe, RowStep, OneActivePerPlan'
  PROVE  Lifecycle!Next \/ UNCHANGED <<state, plan>>
<1> USE DEF Safe, TypeOK, StoreTypeOK
<1>1. CASE NoRowOp
  BY <1>1 DEF NoRowOp
<1>2. CASE EnqueueDueOp
  <2> PICK S \in SUBSET Due : \E f \in [(issued + 1)..(issued + Cardinality(S)) -> S] : enqueue_due(S, f)
    BY <1>2 DEF EnqueueDueOp
  <2> PICK owner \in [(issued + 1)..(issued + Cardinality(S)) -> S] : enqueue_due(S, owner)
    OBVIOUS
  <2>1. Cardinality(S) \in Nat
    BY EnqueueDueFacts
  <2>2. \A r \in Runs : \/ state[r] = "absent" /\ state'[r] = "queued"
                        \/ state'[r] = state[r] /\ plan'[r] = plan[r]
    BY <2>1 DEF enqueue_due, insert_job, FreshIds, Runs
  <2>3. Lifecycle!Enqueue(Lifecycle!Moved)
    BY <2>2 DEF Lifecycle!Enqueue, Lifecycle!Moved, Lifecycle!Move, Lifecycle!Active,
                OneActivePerPlan, InState, Active
  <2> QED
    BY <2>3 DEF Lifecycle!Next
<1>3. CASE EnqueueOp
  <2>1. \A r \in Runs : \/ state[r] = "absent" /\ state'[r] = "queued"
                        \/ state'[r] = state[r] /\ plan'[r] = plan[r]
    BY <1>3 DEF EnqueueOp, enqueue, insert_job, FreshIds, Runs
  <2>2. Lifecycle!Enqueue(Lifecycle!Moved)
    BY <2>1 DEF Lifecycle!Enqueue, Lifecycle!Moved, Lifecycle!Move, Lifecycle!Active,
                OneActivePerPlan, InState, Active
  <2> QED
    BY <2>2 DEF Lifecycle!Next
<1>4. CASE ClaimOp
  <2> PICK r \in Runs : claim(r)
    BY <1>4 DEF ClaimOp
  <2>1. r \in Lifecycle!Moved /\ Lifecycle!Claim(r)
    BY DEF claim, Oldest, InState, Lifecycle!Moved, Lifecycle!Claim, Lifecycle!Move
  <2> QED
    BY <2>1 DEF Lifecycle!Next
<1>5. CASE CancelOp
  <2> PICK r \in Runs : cancel(r)
    BY <1>5 DEF CancelOp
  <2>1. CASE state[r] = "queued"
    <3>1. r \in Lifecycle!Moved /\ Lifecycle!Claim(r)
      BY <2>1 DEF cancel, Lifecycle!Moved, Lifecycle!Claim, Lifecycle!Move
    <3> QED
      BY <3>1 DEF Lifecycle!Next
  <2>2. CASE state[r] # "queued"
    BY <2>2 DEF cancel
  <2> QED
    BY <2>1, <2>2
<1>6. CASE FinishOp
  <2>1. Lifecycle!Settle(Lifecycle!Moved)
    BY <1>6 DEF FinishOp, finish, Final, Lifecycle!Settle, Lifecycle!Moved, Lifecycle!Move, Lifecycle!Final
  <2> QED
    BY <2>1 DEF Lifecycle!Next
<1>7. CASE RecoverOp
  <2>1. Lifecycle!Settle(Lifecycle!Moved)
    BY <1>7 DEF RecoverOp, recover, InState, Lifecycle!Settle, Lifecycle!Moved, Lifecycle!Move, Lifecycle!Final
  <2> QED
    BY <2>1 DEF Lifecycle!Next
<1>8. CASE MarkOp
  <2>1. Lifecycle!Mark(Lifecycle!Moved)
    BY <1>8 DEF MarkOp, mark_deleting, InState, Final, Lifecycle!Mark, Lifecycle!Moved, Lifecycle!Move, Lifecycle!Final
  <2> QED
    BY <2>1 DEF Lifecycle!Next
<1>9. CASE RemoveOp
  <2> PICK r : remove_run(r)
    BY <1>9 DEF RemoveOp
  <2>1. CASE r \in Runs /\ state[r] = "deleting"
    <3>1. r \in Lifecycle!Moved /\ Lifecycle!Remove(r)
      BY <2>1 DEF remove_run, Lifecycle!Moved, Lifecycle!Remove, Lifecycle!Move
    <3> QED
      BY <3>1 DEF Lifecycle!Next
  <2>2. CASE ~ (r \in Runs /\ state[r] = "deleting")
    BY <2>2 DEF remove_run
  <2> QED
    BY <2>1, <2>2
<1>10. CASE RestoreOp
  <2>1. Lifecycle!Settle(Lifecycle!Moved)
    BY <1>10 DEF RestoreOp, deletion_failed, Final, Lifecycle!Settle, Lifecycle!Moved, Lifecycle!Move, Lifecycle!Final
  <2> QED
    BY <2>1 DEF Lifecycle!Next
<1>11. CASE ImportOp
  <2>1. issued + 1 \in Lifecycle!Moved /\ Lifecycle!Import(issued + 1)
    BY <1>11, StoreAssumption DEF ImportOp, insert_completed, FreshIds, Runs,
        Lifecycle!Moved, Lifecycle!Import, Lifecycle!Move
  <2> QED
    BY <2>1 DEF Lifecycle!Next
<1> QED
  BY <1>1, <1>2, <1>3, <1>4, <1>5, <1>6, <1>7, <1>8, <1>9, <1>10, <1>11 DEF RowStep

\* Scheduled backups implement RunLifecycle: whatever processes and commands do,
\* a run only moves forward, from the queue to its end, and disappears only when
\* a deletion has marked it.
THEOREM Refinement == Spec => KeepsLifecycle
<1>1. Init => Lifecycle!Init
  BY DEF Init, StoreInit, Lifecycle!Init
<1>2. Safe /\ OneActivePerPlan' /\ [Next]_vars => [Lifecycle!Next]_<<state, plan>>
  <2>1. ASSUME UNCHANGED vars
        PROVE  UNCHANGED <<state, plan>>
    BY <2>1 DEF vars, store, rows
  <2> QED
    BY <2>1, LifecycleStep, RowSteps
<1> QED
  BY <1>1, <1>2, AlwaysSafe, OneActive, PTL DEF Spec, KeepsLifecycle, Lifecycle!Spec

=============================================================================
