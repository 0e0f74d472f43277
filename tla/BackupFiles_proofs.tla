------------------------ MODULE BackupFiles_proofs -------------------------
(***************************************************************************)
(* Proofs about the files of scheduled backups, on top of those about the  *)
(* rows in ScheduledBackup_proofs.                                         *)
(*                                                                         *)
(* A run that says success has its file because, from the record on, the   *)
(* run lists it, so that no cleanup that begins later takes the file of    *)
(* another run for unshared (FileInv); a deletion is the only one to hold  *)
(* the run, and puts back what it found (HoldInv).  A foreign file stays   *)
(* because whoever calls a file its own got that from who created it       *)
(* (ClaimInv).                                                             *)
(***************************************************************************)
EXTENDS ScheduledBackup_proofs

\* Who deletes a run, or cleans up after it.
Busy == {"remove", "drop", "restore"}
Holds(a, r) == (cur[a] = r /\ stage[a] \in Busy) \/ \E c \in todo[a] : c.run = r

\* What the export of a process has done shows in what it says of its file.
WorkerOf(p) ==
  /\ worker[p] # "none" \/ poll[p] # "idle" => pc[p] = "export"
  /\ view[p] = "owned" => worker[p] \in {"write", "ended"}
  /\ wfile[p] = "owned" => worker[p] = "ended"
  /\ poll[p] = "owned" => view[p] = "owned"
  /\ worker[p] = "ended" /\ outcome[p] = "success" => wfile[p] = "owned"
  /\ pc[p] \in {"clean", "finish"} => cur[p] = job[p] /\ cstatus[p] # "success"
  /\ pc[p] = "clean" => stage[p] = "remove"

WorkerInv == \A p \in Procs : WorkerOf(p)

\* A run that has ended says how.
SettledOf(r) == state[r] \in Final => status[r] = state[r]

SettledRows == \A r \in Runs : SettledOf(r)

\* An actor has one copy of a run.
CopyOf(a) ==
  /\ stage[a] \in Busy => cur[a] \in Runs /\ \A c \in todo[a] : c.run # cur[a]
  /\ \A c, d \in todo[a] : c.run = d.run => c = d

CopyInv == \A a \in Actors : CopyOf(a)

\* A run in an actor's hands has ended, but for the job of a process that cleans up.
HeldBy(a, r) ==
  Holds(a, r) =>
    \/ state[r] \in Final \cup {"deleting", "gone"}
    \/ a \in Procs /\ pc[a] = "clean" /\ job[a] = r

HeldInv == \A a \in Actors, r \in Runs : HeldBy(a, r)

\* A run whose deletions and records did not get in each other's way.
Plain(r) == r \notin exposed /\ state[r] # "gone"

\* a has a copy of the row of r, to delete it or to put it back.
CopyAt(a, r, st, file) ==
  \/ \E c \in todo[a] : c.run = r /\ c.status = st /\ c.file = file
  \/ cur[a] = r /\ stage[a] \in {"remove", "restore"} /\ cstatus[a] = st /\ cfile[a] = file

\* A plain run is in the hands of one actor, does not say success meanwhile, and when it
\* is being deleted the copies say what its row says.
OneHolder(r) == \A a, b \in Actors : Holds(a, r) /\ Holds(b, r) => a = b
Unsettled(r) == \A a \in Actors : Holds(a, r) => state[r] # "success"
TrueCopies(r) ==
  state[r] = "deleting" =>
    \A a \in Actors, st \in Statuses, file \in Marks :
      CopyAt(a, r, st, file) => st = status[r] /\ file = listed[r]

HoldInv == \A r \in Runs : Plain(r) => OneHolder(r) /\ Unsettled(r) /\ TrueCopies(r)

\* The file of r is about to be made, is made, or belongs to a success.
Making(r) == \E p \in Procs : job[p] = r /\ worker[p] = "create"
Made(r) == \E p \in Procs : job[p] = r /\ (worker[p] = "write" \/ wfile[p] = "owned")
Drops(a, r) == cur[a] = r /\ stage[a] = "drop"
Good(r) ==
  \/ state[r] = "success"
  \/ state[r] = "deleting" /\ status[r] = "success" /\ \A a \in Actors : ~Drops(a, r)

\* a removes whatever is at the path of r, for another run.
Threatens(a, r) ==
  /\ stage[a] = "remove" /\ cfile[a] = "owned" /\ shared[a] = "no"
  /\ cur[a] # r /\ path[cur[a]] = path[r]

\* From its record to its deletion a run lists its file, which is safe from the cleanup
\* of others, and from its creation the file is there.
Kept(r) ==
  /\ Making(r) \/ Made(r) \/ Good(r) => listed[r] # "none" /\ \A a \in Actors : ~Threatens(a, r)
  /\ Made(r) \/ Good(r) => fs[path[r]] = r
  /\ Good(r) => listed[r] = "owned"

FileInv == \A r \in Runs : Plain(r) /\ plan[r] # "imported" => Kept(r)

\* Somebody has it that the file is the run's own: its row, the process that exports it,
\* or who has a copy of the row.
Claimed(r) ==
  \/ listed[r] = "owned"
  \/ \E p \in Procs : job[p] = r /\ Owning(p)
  \/ \E a \in Actors, st \in Statuses : CopyAt(a, r, st, "owned")

ClaimInv == \A r \in Runs : Claimed(r) => fs[path[r]] # Foreign

\* The inductive invariant.
FilesSafe ==
  /\ Safe /\ WorkerInv /\ SettledRows /\ CopyInv
  /\ HeldInv /\ HoldInv /\ FileInv /\ ClaimInv

-----------------------------------------------------------------------------
(* What one step does to a run *)

\* An actor marks the run.
MarksRun(a, r) ==
  /\ \E S \in SUBSET Runs : r \in S /\ MarkDeleting(a, S)
  /\ stage[a] \notin Busy /\ UNCHANGED <<stage, cur, cstatus, cfile>>

\* A process begins to clean up after its job, which is the run.
Cleans(a, r) == a \in Procs /\ job[a] = r /\ CollectFailed(a)

\* Its row stays; a process stores its job as a success; a deletion puts it back; it is
\* imported.
Stays(r) ==
  state'[r] = state[r] /\ status'[r] = status[r] /\ listed'[r] = listed[r] /\ plan'[r] = plan[r]
Succeeds(p, r) == job[p] = r /\ FinishSuccess(p) /\ listed'[r] = wfile[p]
Restores(a, r) ==
  /\ stage[a] = "restore" /\ cur[a] = r /\ DeleteSettle(a)
  /\ state[r] = "deleting" /\ state'[r] = cstatus[a] /\ listed'[r] = cfile[a]
Imported(r) == state[r] = "absent" /\ state'[r] = "success" /\ plan'[r] = "imported"

RowMoves(r) ==
  state'[r] \in {"success", "deleting"} =>
    \/ Stays(r) \/ Imported(r)
    \/ \E a \in Actors : MarksRun(a, r) \/ Restores(a, r)
    \/ \E p \in Procs : Succeeds(p, r)

\* The worker of a process records its file, or creates it.
Records(p) ==
  /\ listed'[job[p]] = "recorded"
  /\ exposed' = exposed \cup {r \in Runs : job[p] = r /\ BeingRemoved(path[r])}
  /\ UNCHANGED <<path, stage, cur>>
Creates(p) == worker[p] = "create" /\ fs' = [fs EXCEPT ![path[job[p]]] = job[p]]

\* The cleanup of a run removes its file.
Removes(a, r) == stage[a] = "remove" /\ cur[a] = r /\ CleanupRemove(a) /\ fs'[path[r]] = NoFile

\* What may be done to a file.
FilesTouched ==
  \/ \E a \in Actors : CleanupRemove(a)
  \/ \E p \in Procs : WorkerCreate(p)
  \/ \E place \in Paths : ForeignFile(place)

\* Every step keeps what the export of a process says of its file.
LEMMA WorkerKept ==
  ASSUME Safe, WorkerInv, Next, NEW q \in Procs
  PROVE  WorkerOf(q)'
<1>0. TypeOK /\ ThreadOf(q) /\ WorkerOf(q)
  BY DEF Safe, Thread, WorkerInv
<1>1. ASSUME UNCHANGED <<pc, job, worker, wfile, view, poll, outcome, stage, cur, cstatus>>
      PROVE  WorkerOf(q)'
  BY <1>1, <1>0 DEF WorkerOf
<1>2. ASSUME NEW p \in Procs, Leave(p)
      PROVE  WorkerOf(q)'
  BY <1>2, <1>1 DEF Leave, hands
<1>3. ASSUME NEW p \in Procs, NEW how \in {"drain", "stop"}, RequestStop(p, how)
      PROVE  WorkerOf(q)'
  BY <1>3, <1>1 DEF RequestStop, hands
<1>4. ASSUME NEW u \in Users, NEW S \in SUBSET Runs, DeleteRuns(u, S)
      PROVE  WorkerOf(q)'
  BY <1>4, <1>1 DEF DeleteRuns, procs
<1>5. ASSUME NEW s \in Schedules, Save(s) \/ DeleteSchedule(s)
      PROVE  WorkerOf(q)'
  BY <1>5, <1>1 DEF Save, DeleteSchedule, procs, hands
<1>6. ASSUME NEW s \in Schedules \cup {"one-shot"}, RunNow(s)
      PROVE  WorkerOf(q)'
  BY <1>6, <1>1 DEF RunNow, procs, hands
<1>7. ASSUME NEW x \in Runs, Cancel(x)
      PROVE  WorkerOf(q)'
  BY <1>7, <1>1 DEF Cancel, procs, hands
<1>8. ASSUME Migrate \/ Clock
      PROVE  WorkerOf(q)'
  BY <1>8, <1>1 DEF Migrate, Clock, procs, hands
<1>9. ASSUME NEW place \in Paths, ForeignFile(place)
      PROVE  WorkerOf(q)'
  BY <1>9, <1>1 DEF ForeignFile, procs, hands
<1>10. ASSUME NEW p \in Procs, Acquire(p)
       PROVE  WorkerOf(q)'
  BY <1>10, <1>0, BackupAssumption DEF TypeOK, ServeTypeOK, HandsTypeOK, ThreadOf, WorkerOf,
      Actors, NoRun, Runs, Acquire, GoTo, hands
<1>11. ASSUME NEW p \in Procs, Recover(p)
       PROVE  WorkerOf(q)'
  BY <1>11, <1>0, BackupAssumption DEF TypeOK, ServeTypeOK, HandsTypeOK, ThreadOf, WorkerOf,
      Actors, NoRun, Runs, Recover, GoTo, hands
<1>12. ASSUME NEW p \in Procs, EnqueueDue(p)
       PROVE  WorkerOf(q)'
  BY <1>12, <1>0, BackupAssumption DEF TypeOK, ServeTypeOK, HandsTypeOK, ThreadOf, WorkerOf,
      Actors, NoRun, Runs, EnqueueDue, GoTo, hands
<1>13. ASSUME NEW p \in Procs, Claim(p)
       PROVE  WorkerOf(q)'
  BY <1>13, <1>0, BackupAssumption DEF TypeOK, ServeTypeOK, HandsTypeOK, ThreadOf, WorkerOf,
      Actors, NoRun, Runs, Claim, GoTo, hands
<1>14. ASSUME NEW p \in Procs, SpawnWorker(p)
       PROVE  WorkerOf(q)'
  BY <1>14, <1>0, BackupAssumption DEF TypeOK, ServeTypeOK, HandsTypeOK, ThreadOf, WorkerOf,
      Actors, NoRun, Runs, SpawnWorker, GoTo, hands
<1>15. ASSUME NEW p \in Procs, PollRead(p)
       PROVE  WorkerOf(q)'
  BY <1>15, <1>0, BackupAssumption DEF TypeOK, ServeTypeOK, HandsTypeOK, ThreadOf, WorkerOf,
      Actors, NoRun, Runs, PollRead, hands
<1>16. ASSUME NEW p \in Procs, PollWrite(p)
       PROVE  WorkerOf(q)'
  BY <1>16, <1>0, BackupAssumption DEF TypeOK, ServeTypeOK, HandsTypeOK, ThreadOf, WorkerOf,
      Actors, NoRun, Runs, PollWrite, hands
<1>17. ASSUME NEW p \in Procs, WorkerRecord(p)
       PROVE  WorkerOf(q)'
  BY <1>17, <1>0, BackupAssumption DEF TypeOK, ServeTypeOK, HandsTypeOK, ThreadOf, WorkerOf,
      Actors, NoRun, Runs, WorkerRecord, WorkerEnds, hands
<1>18. ASSUME NEW p \in Procs, WorkerCreate(p)
       PROVE  WorkerOf(q)'
  BY <1>18, <1>0, BackupAssumption DEF TypeOK, ServeTypeOK, HandsTypeOK, ThreadOf, WorkerOf,
      Actors, NoRun, Runs, WorkerCreate, WorkerEnds, hands
<1>19. ASSUME NEW p \in Procs, WorkerEvent(p)
       PROVE  WorkerOf(q)'
  BY <1>19, <1>0, BackupAssumption DEF TypeOK, ServeTypeOK, HandsTypeOK, ThreadOf, WorkerOf,
      Actors, NoRun, Runs, WorkerEvent, hands
<1>20. ASSUME NEW p \in Procs, WorkerFinish(p)
       PROVE  WorkerOf(q)'
  BY <1>20, <1>0, BackupAssumption DEF TypeOK, ServeTypeOK, HandsTypeOK, ThreadOf, WorkerOf,
      Actors, NoRun, Runs, WorkerFinish, WorkerEnds, hands
<1>21. ASSUME NEW p \in Procs, WorkerPanic(p)
       PROVE  WorkerOf(q)'
  BY <1>21, <1>0, BackupAssumption DEF TypeOK, ServeTypeOK, HandsTypeOK, ThreadOf, WorkerOf,
      Actors, NoRun, Runs, WorkerPanic, hands
<1>22. ASSUME NEW p \in Procs, CollectFailed(p)
       PROVE  WorkerOf(q)'
  BY <1>22, <1>0, BackupAssumption DEF TypeOK, ServeTypeOK, HandsTypeOK, ThreadOf, WorkerOf,
      Actors, NoRun, Runs, CollectFailed, WorkerGone, CleanupSnapshot, GoTo, Collected
<1>23. ASSUME NEW p \in Procs, FinishFailed(p)
       PROVE  WorkerOf(q)'
  BY <1>23, <1>0, BackupAssumption DEF TypeOK, ServeTypeOK, HandsTypeOK, ThreadOf, WorkerOf,
      Actors, NoRun, Runs, FinishFailed, GoTo, Forget
<1>24. ASSUME NEW p \in Procs, FinishSuccess(p)
       PROVE  WorkerOf(q)'
  BY <1>24, <1>0, BackupAssumption DEF TypeOK, ServeTypeOK, HandsTypeOK, ThreadOf, WorkerOf,
      Actors, NoRun, Runs, FinishSuccess, WorkerGone, GoTo, Collected
<1>25. ASSUME NEW p \in Procs, RetainSnapshot(p)
       PROVE  WorkerOf(q)'
  BY <1>25, <1>0, BackupAssumption DEF TypeOK, ServeTypeOK, HandsTypeOK, ThreadOf, WorkerOf,
      Actors, NoRun, Runs, RetainSnapshot, GoTo, Forget
<1>26. ASSUME NEW p \in Procs, RetainMark(p)
       PROVE  WorkerOf(q)'
  BY <1>26, <1>0, BackupAssumption DEF TypeOK, ServeTypeOK, HandsTypeOK, ThreadOf, WorkerOf,
      Actors, NoRun, Runs, RetainMark, GoTo
<1>27. ASSUME NEW p \in Procs, Crash(p)
       PROVE  WorkerOf(q)'
  BY <1>27, <1>0, BackupAssumption DEF TypeOK, ServeTypeOK, HandsTypeOK, ThreadOf, WorkerOf,
      Actors, NoRun, Runs, Crash, GoTo, Forget
<1>28. ASSUME NEW a \in Actors, DeleteImported(a)
       PROVE  WorkerOf(q)'
  BY <1>28, <1>0, BackupAssumption DEF TypeOK, ServeTypeOK, HandsTypeOK, ThreadOf, WorkerOf,
      Actors, NoRun, Runs, DeleteImported, DeletionEnds
<1>29. ASSUME NEW a \in Actors, DeleteNext(a)
       PROVE  WorkerOf(q)'
  BY <1>29, <1>0, BackupAssumption DEF TypeOK, ServeTypeOK, HandsTypeOK, ThreadOf, WorkerOf,
      Actors, NoRun, Runs, DeleteNext, CleanupSnapshot, procs
<1>30. ASSUME NEW a \in Actors, CleanupRemove(a)
       PROVE  WorkerOf(q)'
  BY <1>30, <1>0, BackupAssumption DEF TypeOK, ServeTypeOK, HandsTypeOK, ThreadOf, WorkerOf,
      Actors, NoRun, Runs, CleanupRemove, AfterCleanup, GoTo
<1>31. ASSUME NEW a \in Actors, DeleteSettle(a)
       PROVE  WorkerOf(q)'
  BY <1>31, <1>0, BackupAssumption DEF TypeOK, ServeTypeOK, HandsTypeOK, ThreadOf, WorkerOf,
      Actors, NoRun, Runs, DeleteSettle, Forget, DeletionEnds
<1>32. ASSUME NEW u \in Users, ImportCheck(u)
       PROVE  WorkerOf(q)'
  BY <1>32, <1>0, BackupAssumption DEF TypeOK, ServeTypeOK, HandsTypeOK, ThreadOf, WorkerOf,
      Actors, NoRun, Runs, ImportCheck, procs
<1>33. ASSUME NEW u \in Users, ImportInsert(u)
       PROVE  WorkerOf(q)'
  BY <1>33, <1>0, BackupAssumption DEF TypeOK, ServeTypeOK, HandsTypeOK, ThreadOf, WorkerOf,
      Actors, NoRun, Runs, ImportInsert, Forget, procs
<1>34. ASSUME NEW u \in Users, CrashCommand(u)
       PROVE  WorkerOf(q)'
  BY <1>34, <1>0, BackupAssumption DEF TypeOK, ServeTypeOK, HandsTypeOK, ThreadOf, WorkerOf,
      Actors, NoRun, Runs, CrashCommand, Forget, procs
<1> QED
  BY <1>2, <1>3, <1>4, <1>5, <1>6, <1>7, <1>8, <1>9, <1>10, <1>11, <1>12, <1>13,
     <1>14, <1>15, <1>16, <1>17, <1>18, <1>19, <1>20, <1>21, <1>22, <1>23, <1>24, <1>25,
     <1>26, <1>27, <1>28, <1>29, <1>30, <1>31, <1>32, <1>33, <1>34
  DEF Next, ServeStep, WorkerStep, DeleteStep, Actors

\* Every step leaves an actor one copy of a run.
LEMMA CopyKept ==
  ASSUME Safe, WorkerInv, CopyInv, Next, NEW b \in Actors
  PROVE  CopyOf(b)'
<1>0. TypeOK /\ Thread /\ CopyOf(b)
  BY DEF Safe, CopyInv
<1>1. ASSUME UNCHANGED <<stage, cur, todo>>
      PROVE  CopyOf(b)'
  BY <1>1, <1>0 DEF CopyOf
<1>2. ASSUME NEW p \in Procs, Leave(p) \/ Acquire(p) \/ Recover(p) \/ EnqueueDue(p)
             \/ Claim(p) \/ SpawnWorker(p) \/ PollRead(p) \/ PollWrite(p) \/ WorkerRecord(p)
             \/ WorkerCreate(p) \/ WorkerEvent(p) \/ WorkerFinish(p) \/ WorkerPanic(p)
      PROVE  CopyOf(b)'
  BY <1>2, <1>1 DEF Leave, Acquire, Recover, EnqueueDue, Claim, SpawnWorker, PollRead,
      PollWrite, WorkerRecord, WorkerCreate, WorkerEvent, WorkerFinish, WorkerPanic, hands
<1>3. ASSUME NEW p \in Procs, NEW how \in {"drain", "stop"}, RequestStop(p, how)
      PROVE  CopyOf(b)'
  BY <1>3, <1>1 DEF RequestStop, hands
<1>4. ASSUME NEW s \in Schedules, Save(s) \/ DeleteSchedule(s)
      PROVE  CopyOf(b)'
  BY <1>4, <1>1 DEF Save, DeleteSchedule, hands
<1>5. ASSUME NEW s \in Schedules \cup {"one-shot"}, RunNow(s)
      PROVE  CopyOf(b)'
  BY <1>5, <1>1 DEF RunNow, hands
<1>6. ASSUME NEW x \in Runs, Cancel(x)
      PROVE  CopyOf(b)'
  BY <1>6, <1>1 DEF Cancel, hands
<1>7. ASSUME Migrate \/ Clock
      PROVE  CopyOf(b)'
  BY <1>7, <1>1 DEF Migrate, Clock, hands
<1>8. ASSUME NEW place \in Paths, ForeignFile(place)
      PROVE  CopyOf(b)'
  BY <1>8, <1>1 DEF ForeignFile, hands
<1>9. ASSUME NEW p \in Procs, CollectFailed(p)
      PROVE  CopyOf(b)'
  BY <1>9, <1>0, BackupAssumption DEF TypeOK, ServeTypeOK, HandsTypeOK, Thread, ThreadOf,
      CopyOf, Busy, Actors, NoRun, Runs, CollectFailed, CleanupSnapshot, Collected
<1>10. ASSUME NEW p \in Procs, FinishFailed(p)
       PROVE  CopyOf(b)'
  BY <1>10, <1>0, BackupAssumption DEF TypeOK, ServeTypeOK, HandsTypeOK, Thread, ThreadOf,
      CopyOf, Busy, Actors, NoRun, Runs, FinishFailed, Forget
<1>11. ASSUME NEW p \in Procs, FinishSuccess(p)
       PROVE  CopyOf(b)'
  BY <1>11, <1>0, BackupAssumption DEF TypeOK, ServeTypeOK, HandsTypeOK, Thread, ThreadOf,
      CopyOf, Busy, Actors, NoRun, Runs, FinishSuccess, Collected
<1>12. ASSUME NEW p \in Procs, RetainSnapshot(p)
       PROVE  CopyOf(b)'
  BY <1>12, <1>0, BackupAssumption DEF TypeOK, ServeTypeOK, HandsTypeOK, Thread, ThreadOf,
      CopyOf, Busy, Actors, NoRun, Runs, RetainSnapshot, Forget
<1>13. ASSUME NEW p \in Procs, RetainMark(p)
       PROVE  CopyOf(b)'
  BY <1>13, <1>0, BackupAssumption DEF TypeOK, ServeTypeOK, HandsTypeOK, Thread, ThreadOf,
      CopyOf, Busy, Actors, NoRun, Runs, RetainMark, MarkDeleting
<1>14. ASSUME NEW p \in Procs, Crash(p)
       PROVE  CopyOf(b)'
  BY <1>14, <1>0, BackupAssumption DEF TypeOK, ServeTypeOK, HandsTypeOK, Thread, ThreadOf,
      CopyOf, Busy, Actors, NoRun, Runs, Crash, Forget
<1>15. ASSUME NEW a \in Actors, DeleteImported(a)
       PROVE  CopyOf(b)'
  BY <1>15, <1>0, BackupAssumption DEF TypeOK, ServeTypeOK, HandsTypeOK, Thread, ThreadOf,
      CopyOf, Busy, Actors, NoRun, Runs, DeleteImported
<1>16. ASSUME NEW a \in Actors, DeleteNext(a)
       PROVE  CopyOf(b)'
  <2>1. PICK c \in todo[a] :
          /\ stage[a] = "idle"
          /\ todo' = [todo EXCEPT ![a] = @ \ {c}]
          /\ cur' = [cur EXCEPT ![a] = c.run]
          /\ \E s \in {"remove", "restore"} : stage' = [stage EXCEPT ![a] = s]
    BY <1>16 DEF DeleteNext, CleanupSnapshot
  <2>2. c \in todo[a] /\ c.run \in Runs
    BY <1>0 DEF TypeOK, HandsTypeOK, Copies
  <2>3. CASE b = a
    <3>1. cur'[b] = c.run /\ todo'[b] = todo[b] \ {c}
      BY <1>0, <2>1, <2>3 DEF TypeOK, HandsTypeOK
    <3>2. \A d \in todo[b] : d.run = c.run => d = c
      BY <1>0, <2>2, <2>3 DEF CopyOf
    <3> QED
      BY <1>0, <2>2, <3>1, <3>2 DEF CopyOf
  <2>4. CASE b # a
    <3>1. cur'[b] = cur[b] /\ todo'[b] = todo[b] /\ stage'[b] = stage[b]
      BY <1>0, <2>1, <2>4 DEF TypeOK, HandsTypeOK
    <3> QED
      BY <1>0, <3>1 DEF CopyOf
  <2> QED
    BY <2>3, <2>4
<1>17. ASSUME NEW a \in Actors, CleanupRemove(a)
       PROVE  CopyOf(b)'
  BY <1>17, <1>0, BackupAssumption DEF TypeOK, ServeTypeOK, HandsTypeOK, Thread, ThreadOf,
      CopyOf, Busy, Actors, NoRun, Runs, CleanupRemove, AfterCleanup
<1>18. ASSUME NEW a \in Actors, DeleteSettle(a)
       PROVE  CopyOf(b)'
  BY <1>18, <1>0, BackupAssumption DEF TypeOK, ServeTypeOK, HandsTypeOK, Thread, ThreadOf,
      CopyOf, Busy, Actors, NoRun, Runs, DeleteSettle, Forget
<1>19. ASSUME NEW u \in Users, NEW S \in SUBSET Runs, DeleteRuns(u, S)
       PROVE  CopyOf(b)'
  BY <1>19, <1>0, BackupAssumption DEF TypeOK, ServeTypeOK, HandsTypeOK, Thread, ThreadOf,
      CopyOf, Busy, Actors, NoRun, Runs, DeleteRuns, MarkDeleting
<1>20. ASSUME NEW u \in Users, ImportCheck(u)
       PROVE  CopyOf(b)'
  BY <1>20, <1>0, BackupAssumption DEF TypeOK, ServeTypeOK, HandsTypeOK, Thread, ThreadOf,
      CopyOf, Busy, Actors, NoRun, Runs, ImportCheck
<1>21. ASSUME NEW u \in Users, ImportInsert(u)
       PROVE  CopyOf(b)'
  BY <1>21, <1>0, BackupAssumption DEF TypeOK, ServeTypeOK, HandsTypeOK, Thread, ThreadOf,
      CopyOf, Busy, Actors, NoRun, Runs, ImportInsert, Forget
<1>22. ASSUME NEW u \in Users, CrashCommand(u)
       PROVE  CopyOf(b)'
  BY <1>22, <1>0, BackupAssumption DEF TypeOK, ServeTypeOK, HandsTypeOK, Thread, ThreadOf,
      CopyOf, Busy, Actors, NoRun, Runs, CrashCommand, Forget
<1> QED
  BY <1>2, <1>3, <1>4, <1>5, <1>6, <1>7, <1>8, <1>9, <1>10, <1>11, <1>12, <1>13,
     <1>14, <1>15, <1>16, <1>17, <1>18, <1>19, <1>20, <1>21, <1>22
  DEF Next, ServeStep, WorkerStep, DeleteStep, Actors

\* Every step of the rows says of a run that ends how it ended.
LEMMA SettledKept ==
  ASSUME Safe, SettledRows, RowStep
  PROVE  SettledRows'
<1> USE DEF Safe, TypeOK, StoreTypeOK, SettledRows, SettledOf, FreshIds
<1>1. CASE NoRowOp
  BY <1>1 DEF NoRowOp
<1>2. CASE EnqueueDueOp
  BY <1>2 DEF EnqueueDueOp, enqueue_due, insert_job, Final
<1>3. CASE EnqueueOp
  BY <1>3 DEF EnqueueOp, enqueue, insert_job, Final
<1>4. CASE ClaimOp
  BY <1>4 DEF ClaimOp, claim, Final
<1>5. CASE CancelOp
  BY <1>5 DEF CancelOp, cancel, Active, Final
<1>6. CASE FinishOp
  BY <1>6 DEF FinishOp, finish
<1>7. CASE RecoverOp
  BY <1>7 DEF RecoverOp, recover, InState, Final
<1>8. CASE MarkOp
  BY <1>8 DEF MarkOp, mark_deleting, InState, Final
<1>9. CASE RemoveOp
  BY <1>9 DEF RemoveOp, remove_run, Final
<1>10. CASE RestoreOp
  BY <1>10 DEF RestoreOp, deletion_failed, Final
<1>11. CASE ImportOp
  BY <1>11 DEF ImportOp, insert_completed, Final, Runs
<1> QED
  BY <1>1, <1>2, <1>3, <1>4, <1>5, <1>6, <1>7, <1>8, <1>9, <1>10, <1>11 DEF RowStep

\* Asking for runs adds rows at ids that were not used, and changes no file.
LEMMA RowsAdded ==
  ASSUME Safe, NEW r \in Runs,
         (\E p \in Procs : EnqueueDue(p)) \/ (\E s \in Schedules \cup {"one-shot"} : RunNow(s))
  PROVE  /\ \/ state'[r] = state[r] /\ plan'[r] = plan[r]
            \/ state[r] = "absent" /\ state'[r] = "queued"
         /\ UNCHANGED <<path, status, listed, job, worker, wfile, view, poll, outcome, fs, hands, exposed>>
         /\ \A p \in Procs : pc'[p] = pc[p] \/ {pc[p], pc'[p]} \subseteq {"due", "loop", "claim"}
<1>1. ASSUME NEW p \in Procs, EnqueueDue(p)
      PROVE  /\ UNCHANGED <<path, status, listed, job, worker, wfile, view, poll, outcome, fs, hands, exposed>>
             /\ \A x \in Procs : pc'[x] = pc[x] \/ {pc[x], pc'[x]} \subseteq {"due", "loop", "claim"}
             /\ UNCHANGED store \/ EnqueueDueOp
  BY <1>1 DEF EnqueueDue, enqueue_due, insert_job, EnqueueDueOp, store, rows, GoTo, Safe, TypeOK, ServeTypeOK
<1>2. ASSUME NEW s \in Schedules \cup {"one-shot"}, RunNow(s)
      PROVE  UNCHANGED <<path, status, listed, procs, fs, hands, exposed>> /\ EnqueueOp
  BY <1>2 DEF RunNow, enqueue, insert_job, EnqueueOp
<1>3. ASSUME EnqueueDueOp
      PROVE  \/ state'[r] = state[r] /\ plan'[r] = plan[r]
             \/ state[r] = "absent" /\ state'[r] = "queued"
  <2> PICK S \in SUBSET Due : \E f \in [(issued + 1)..(issued + Cardinality(S)) -> S] : enqueue_due(S, f)
    BY <1>3 DEF EnqueueDueOp
  <2> PICK owner \in [(issued + 1)..(issued + Cardinality(S)) -> S] : enqueue_due(S, owner)
    OBVIOUS
  <2>1. Cardinality(S) \in Nat
    BY EnqueueDueFacts DEF Safe, TypeOK
  <2> QED
    BY <2>1 DEF enqueue_due, insert_job, Runs, Safe, TypeOK, StoreTypeOK, FreshIds
<1>4. ASSUME EnqueueOp
      PROVE  \/ state'[r] = state[r] /\ plan'[r] = plan[r]
             \/ state[r] = "absent" /\ state'[r] = "queued"
  BY <1>4 DEF EnqueueOp, enqueue, insert_job, Runs, Safe, TypeOK, StoreTypeOK, FreshIds
<1> QED
  BY <1>1, <1>2, <1>3, <1>4 DEF store, rows, procs

\* Marking runs gives an actor a copy of each, and exposes those that are in somebody's
\* hands already.
LEMMA Marked ==
  ASSUME Safe, NEW a \in Actors, NEW S \in SUBSET Runs, MarkDeleting(a, S)
  PROVE  /\ UNCHANGED <<path, status, listed, plan>>
         /\ S \subseteq InState(Final \cup {"deleting"})
         /\ \A r \in Runs : state'[r] = IF r \in S THEN "deleting" ELSE state[r]
         /\ \A x \in Actors : x # a => todo'[x] = todo[x]
         /\ \A c \in todo'[a] : c.run \in S /\ c.status = status[c.run] /\ c.file = listed[c.run]
         /\ exposed' = exposed \cup {r \in S : Held(r) # {}}
<1>1. todo'[a] = {[run |-> r, status |-> status[r], file |-> listed[r]] : r \in S}
  BY DEF Safe, TypeOK, HandsTypeOK, MarkDeleting
<1>2. \A c \in todo'[a] : c.run \in S /\ c.status = status[c.run] /\ c.file = listed[c.run]
  BY <1>1
<1>3. \A x \in Actors : x # a => todo'[x] = todo[x]
  BY DEF Safe, TypeOK, HandsTypeOK, MarkDeleting
<1> QED
  BY <1>2, <1>3 DEF MarkDeleting, mark_deleting

\* Every step keeps it that what is in an actor's hands has ended.
LEMMA HeldKept ==
  ASSUME Safe, WorkerInv, CopyInv, HeldInv, Next, NEW b \in Actors, NEW r \in Runs
  PROVE  HeldBy(b, r)'
<1>0. TypeOK /\ Thread /\ InHandIsRunning /\ HeldBy(b, r)
  BY DEF Safe, HeldInv
<1>1. ASSUME UNCHANGED <<state, pc, job, stage, cur, todo>>
      PROVE  HeldBy(b, r)'
  BY <1>1, <1>0 DEF HeldBy, Holds
<1>2. ASSUME NEW p \in Procs, Leave(p) \/ PollRead(p) \/ PollWrite(p) \/ WorkerRecord(p)
             \/ WorkerCreate(p) \/ WorkerEvent(p) \/ WorkerFinish(p) \/ WorkerPanic(p)
      PROVE  HeldBy(b, r)'
  BY <1>2, <1>1 DEF Leave, PollRead, PollWrite, WorkerRecord, WorkerCreate, WorkerEvent,
      WorkerFinish, WorkerPanic, store, rows, hands, progress
<1>3. ASSUME NEW p \in Procs, NEW how \in {"drain", "stop"}, RequestStop(p, how)
      PROVE  HeldBy(b, r)'
  BY <1>3, <1>1 DEF RequestStop, store, rows, hands
<1>4. ASSUME NEW s \in Schedules, Save(s) \/ DeleteSchedule(s)
      PROVE  HeldBy(b, r)'
  BY <1>4, <1>1 DEF Save, DeleteSchedule, save_schedule, rows, procs, hands, delete_schedule
<1>5. ASSUME Migrate \/ Clock
      PROVE  HeldBy(b, r)'
  BY <1>5, <1>1 DEF Migrate, Clock, migrate, rows, procs, hands
<1>6. ASSUME NEW place \in Paths, ForeignFile(place)
      PROVE  HeldBy(b, r)'
  BY <1>6, <1>1 DEF ForeignFile, store, rows, procs, hands
<1>7. ASSUME NEW p \in Procs, Acquire(p)
      PROVE  HeldBy(b, r)'
  BY <1>7, <1>0, BackupAssumption DEF TypeOK, ServeTypeOK, HandsTypeOK, StoreTypeOK, Thread,
      ThreadOf, HeldBy, Holds, Busy, Actors, NoRun, Runs, Final, Active, InState, Acquire,
      GoTo, store, rows, hands
<1>8. ASSUME NEW p \in Procs, Recover(p)
      PROVE  HeldBy(b, r)'
  <2>1. UNCHANGED <<stage, cur, todo, job>> /\ state'[r] \in {state[r], "failed"}
    BY <1>8, <1>0 DEF TypeOK, StoreTypeOK, Recover, recover, store, rows, hands
  <2>2. pc[p] # "clean" /\ \A x \in Procs : x # p => pc'[x] = pc[x]
    BY <1>8, <1>0 DEF TypeOK, ServeTypeOK, Recover, GoTo
  <2> QED
    BY <1>0, <2>1, <2>2 DEF HeldBy, Holds, Final
<1>9. ASSUME NEW p \in Procs, EnqueueDue(p)
      PROVE  HeldBy(b, r)'
  BY <1>9, <1>0, RowsAdded DEF HeldBy, Holds, Final, hands
<1>10. ASSUME NEW p \in Procs, Claim(p)
       PROVE  HeldBy(b, r)'
  <2>1. UNCHANGED <<stage, cur, todo>> /\ (state'[r] = state[r] \/ state[r] = "queued")
    BY <1>10, <1>0 DEF TypeOK, StoreTypeOK, Claim, claim, Oldest, InState, store, rows, hands
  <2>2. pc[p] # "clean" /\ \A x \in Procs : x # p => pc'[x] = pc[x] /\ job'[x] = job[x]
    BY <1>10, <1>0 DEF TypeOK, ServeTypeOK, Claim, GoTo
  <2> QED
    BY <1>0, <2>1, <2>2 DEF HeldBy, Holds, Final, InHandIsRunning, NoRun, Runs
<1>11. ASSUME NEW p \in Procs, SpawnWorker(p)
       PROVE  HeldBy(b, r)'
  BY <1>11, <1>0, BackupAssumption DEF TypeOK, ServeTypeOK, HandsTypeOK, StoreTypeOK,
      Thread, ThreadOf, HeldBy, Holds, Busy, Actors, NoRun, Runs, Final, Active, InState,
      SpawnWorker, GoTo, store, rows, hands
<1>12. ASSUME NEW p \in Procs, CollectFailed(p)
       PROVE  HeldBy(b, r)'
  BY <1>12, <1>0, BackupAssumption DEF TypeOK, ServeTypeOK, HandsTypeOK, StoreTypeOK,
      Thread, ThreadOf, HeldBy, Holds, Busy, Actors, NoRun, Runs, Final, Active, InState,
      CollectFailed, CleanupSnapshot, GoTo, finish, store, rows, Collected
<1>13. ASSUME NEW p \in Procs, FinishFailed(p)
       PROVE  HeldBy(b, r)'
  <2>1. UNCHANGED <<stage, todo>> /\ cur' = [cur EXCEPT ![p] = NoRun] /\ state'[r] \in {state[r]} \cup Final
    BY <1>13, <1>0 DEF TypeOK, StoreTypeOK, Thread, ThreadOf, FinishFailed, finish, Forget, store, rows
  <2>2. pc[p] # "clean" /\ \A x \in Procs : x # p => pc'[x] = pc[x] /\ job'[x] = job[x]
    BY <1>13, <1>0 DEF TypeOK, ServeTypeOK, FinishFailed, GoTo
  <2>3. Holds(b, r)' => Holds(b, r)
    BY <1>0, <2>1 DEF TypeOK, HandsTypeOK, Holds, NoRun, Runs
  <2> QED
    BY <1>0, <2>1, <2>2, <2>3 DEF HeldBy
<1>14. ASSUME NEW p \in Procs, FinishSuccess(p)
       PROVE  HeldBy(b, r)'
  <2>1. UNCHANGED <<stage, todo>> /\ state'[r] \in {state[r], "success"} /\ stage[p] \notin Busy
    BY <1>14, <1>0 DEF TypeOK, StoreTypeOK, Thread, ThreadOf, FinishSuccess, Collected, finish, Busy, store, rows
  <2>2. pc[p] # "clean" /\ \A x \in Procs : x # p => pc'[x] = pc[x] /\ job'[x] = job[x]
    BY <1>14, <1>0 DEF TypeOK, ServeTypeOK, FinishSuccess, Collected, GoTo
  <2>3. \A x \in Actors : x # p => cur'[x] = cur[x]
    BY <1>14, <1>0 DEF TypeOK, HandsTypeOK, FinishSuccess
  <2>4. Holds(b, r)' => Holds(b, r)
    BY <2>1, <2>3 DEF Holds
  <2> QED
    BY <1>0, <2>1, <2>2, <2>4 DEF HeldBy, Final
<1>15. ASSUME NEW p \in Procs, RetainSnapshot(p)
       PROVE  HeldBy(b, r)'
  BY <1>15, <1>0, BackupAssumption DEF TypeOK, ServeTypeOK, HandsTypeOK, StoreTypeOK,
      Thread, ThreadOf, HeldBy, Holds, Busy, Actors, NoRun, Runs, Final, Active, InState,
      RetainSnapshot, GoTo, Forget, store, rows
<1>16. ASSUME NEW p \in Procs, RetainMark(p)
       PROVE  HeldBy(b, r)'
  <2>1. pc[p] = "mark" /\ UNCHANGED <<stage, cur, job>> /\ \A x \in Procs : x # p => pc'[x] = pc[x]
    BY <1>16, <1>0 DEF TypeOK, ServeTypeOK, RetainMark, GoTo
  <2>2. CASE UNCHANGED <<state, todo>>
    BY <1>0, <2>1, <2>2 DEF HeldBy, Holds
  <2>3. CASE MarkDeleting(p, ids[p])
    <3>1. ids[p] \in SUBSET Runs /\ p \in Actors
      BY <1>0 DEF TypeOK, HandsTypeOK, Actors
    <3>2. Holds(b, r)' => Holds(b, r) \/ r \in ids[p]
      BY <2>1, <2>3, <3>1, Marked DEF Holds
    <3> QED
      BY <1>0, <2>1, <2>3, <3>1, <3>2, Marked DEF HeldBy
  <2> QED
    BY <1>16, <2>2, <2>3 DEF RetainMark, store, rows
<1>17. ASSUME NEW p \in Procs, Crash(p)
       PROVE  HeldBy(b, r)'
  BY <1>17, <1>0, BackupAssumption DEF TypeOK, ServeTypeOK, HandsTypeOK, StoreTypeOK,
      Thread, ThreadOf, HeldBy, Holds, Busy, Actors, NoRun, Runs, Final, Active, InState,
      Crash, GoTo, Forget, store, rows
<1>18. ASSUME NEW a \in Actors, DeleteImported(a)
       PROVE  HeldBy(b, r)'
  <2>1. UNCHANGED <<stage, cur, job>> /\ state'[r] \in {state[r], "gone"}
    BY <1>18, <1>0 DEF TypeOK, StoreTypeOK, DeleteImported, remove_run, store, rows
  <2>2. \A x \in Actors : todo'[x] \subseteq todo[x]
    BY <1>18, <1>0 DEF TypeOK, HandsTypeOK, DeleteImported
  <2>3. \A x \in Procs : pc[x] = "clean" => pc'[x] = "clean"
    BY <1>18, <1>0 DEF Thread, ThreadOf, DeleteImported, DeletionEnds
  <2>4. Holds(b, r)' => Holds(b, r)
    BY <2>1, <2>2 DEF Holds
  <2> QED
    BY <1>0, <2>1, <2>3, <2>4 DEF HeldBy
<1>19. ASSUME NEW a \in Actors, DeleteNext(a)
       PROVE  HeldBy(b, r)'
  BY <1>19, <1>0, BackupAssumption DEF TypeOK, ServeTypeOK, HandsTypeOK, StoreTypeOK,
      Thread, ThreadOf, HeldBy, Holds, Busy, Actors, NoRun, Runs, Final, Active, InState,
      DeleteNext, CleanupSnapshot, store, rows, procs
<1>20. ASSUME NEW a \in Actors, CleanupRemove(a)
       PROVE  HeldBy(b, r)'
  BY <1>20, <1>0, BackupAssumption DEF TypeOK, ServeTypeOK, HandsTypeOK, StoreTypeOK,
      Thread, ThreadOf, HeldBy, Holds, Busy, Actors, NoRun, Runs, Final, Active, InState,
      CleanupRemove, AfterCleanup, GoTo, finish, store, rows
<1>21. ASSUME NEW a \in Actors, DeleteSettle(a)
       PROVE  HeldBy(b, r)'
  <2>1. UNCHANGED job /\ stage' = [stage EXCEPT ![a] = "idle"] /\ cur' = [cur EXCEPT ![a] = NoRun]
    BY <1>21 DEF DeleteSettle, Forget
  <2>2. state'[r] \in {state[r], "gone"} \cup Final
    BY <1>21, <1>0 DEF Safe, EndedCopies, CopiesOf, TypeOK, StoreTypeOK, DeleteSettle, remove_run, deletion_failed, store, rows
  <2>3. \A x \in Actors : todo'[x] \subseteq todo[x]
    BY <1>21, <1>0 DEF TypeOK, HandsTypeOK, DeleteSettle
  <2>4. \A x \in Procs : pc[x] = "clean" => pc'[x] = "clean"
    BY <1>21, <1>0 DEF Thread, ThreadOf, DeleteSettle, DeletionEnds
  <2>5. Holds(b, r)' => Holds(b, r)
    BY <1>0, <2>1, <2>3 DEF TypeOK, HandsTypeOK, Holds, Busy
  <2> QED
    BY <1>0, <2>1, <2>2, <2>4, <2>5 DEF HeldBy
<1>22. ASSUME NEW u \in Users, NEW S \in SUBSET Runs, DeleteRuns(u, S)
       PROVE  HeldBy(b, r)'
  BY <1>22, <1>0, BackupAssumption DEF TypeOK, ServeTypeOK, HandsTypeOK, StoreTypeOK,
      Thread, ThreadOf, HeldBy, Holds, Busy, Actors, NoRun, Runs, Final, Active, InState,
      DeleteRuns, MarkDeleting, mark_deleting, procs
<1>23. ASSUME NEW u \in Users, ImportCheck(u)
       PROVE  HeldBy(b, r)'
  BY <1>23, <1>0, BackupAssumption DEF TypeOK, ServeTypeOK, HandsTypeOK, StoreTypeOK,
      Thread, ThreadOf, HeldBy, Holds, Busy, Actors, NoRun, Runs, Final, Active, InState,
      ImportCheck, store, rows, procs
<1>24. ASSUME NEW u \in Users, ImportInsert(u)
       PROVE  HeldBy(b, r)'
  BY <1>24, <1>0, BackupAssumption DEF TypeOK, ServeTypeOK, HandsTypeOK, StoreTypeOK,
      Thread, ThreadOf, HeldBy, Holds, Busy, Actors, NoRun, Runs, Final, Active, InState,
      ImportInsert, insert_completed, Forget, procs
<1>25. ASSUME NEW u \in Users, CrashCommand(u)
       PROVE  HeldBy(b, r)'
  BY <1>25, <1>0, BackupAssumption DEF TypeOK, ServeTypeOK, HandsTypeOK, StoreTypeOK,
      Thread, ThreadOf, HeldBy, Holds, Busy, Actors, NoRun, Runs, Final, Active, InState,
      CrashCommand, Forget, store, rows, procs
<1>26. ASSUME NEW s \in Schedules \cup {"one-shot"}, RunNow(s)
       PROVE  HeldBy(b, r)'
  BY <1>26, <1>0, RowsAdded DEF HeldBy, Holds, Final, hands
<1>27. ASSUME NEW x \in Runs, Cancel(x)
       PROVE  HeldBy(b, r)'
  BY <1>27, <1>0, BackupAssumption DEF TypeOK, ServeTypeOK, HandsTypeOK, StoreTypeOK,
      Thread, ThreadOf, HeldBy, Holds, Busy, Actors, NoRun, Runs, Final, Active, InState,
      Cancel, cancel, procs, hands
<1> QED
  BY <1>2, <1>3, <1>4, <1>5, <1>6, <1>7, <1>8, <1>9, <1>10, <1>11, <1>12, <1>13,
     <1>14, <1>15, <1>16, <1>17, <1>18, <1>19, <1>20, <1>21, <1>22, <1>23, <1>24, <1>25,
     <1>26, <1>27
  DEF Next, ServeStep, WorkerStep, DeleteStep, Actors

\* What is in an actor's hands after a step was there before, unless the actor begins to clean up
\* after its job or marks runs.
LEMMA HoldsAfter ==
  ASSUME Safe, WorkerInv, CopyInv, Next, NEW b \in Actors, NEW r \in Runs
  PROVE  Holds(b, r)' => Holds(b, r) \/ Cleans(b, r) \/ MarksRun(b, r)
<1> DEFINE Goal ==
         Holds(b, r)' => Holds(b, r) \/ Cleans(b, r) \/ MarksRun(b, r)
<1>0. TypeOK /\ Thread /\ InHandIsRunning
  BY DEF Safe
<1>1. ASSUME UNCHANGED <<stage, cur, todo>>
      PROVE  Goal
  BY <1>1 DEF Holds
<1>2. ASSUME NEW p \in Procs, Leave(p) \/ Acquire(p) \/ Recover(p) \/ EnqueueDue(p)
             \/ Claim(p) \/ SpawnWorker(p) \/ PollRead(p) \/ PollWrite(p) \/ WorkerRecord(p)
             \/ WorkerCreate(p) \/ WorkerEvent(p) \/ WorkerFinish(p) \/ WorkerPanic(p)
      PROVE  Goal
  BY <1>2, <1>1 DEF Leave, Acquire, Recover, EnqueueDue, Claim, SpawnWorker, PollRead,
      PollWrite, WorkerRecord, WorkerCreate, WorkerEvent, WorkerFinish, WorkerPanic, hands
<1>3. ASSUME NEW p \in Procs, NEW how \in {"drain", "stop"}, RequestStop(p, how)
      PROVE  Goal
  BY <1>3, <1>1 DEF RequestStop, hands
<1>4. ASSUME NEW s \in Schedules, Save(s) \/ DeleteSchedule(s)
      PROVE  Goal
  BY <1>4, <1>1 DEF Save, DeleteSchedule, hands
<1>5. ASSUME NEW s \in Schedules \cup {"one-shot"}, RunNow(s)
      PROVE  Goal
  BY <1>5, <1>1 DEF RunNow, hands
<1>6. ASSUME NEW x \in Runs, Cancel(x)
      PROVE  Goal
  BY <1>6, <1>1 DEF Cancel, hands
<1>7. ASSUME Migrate \/ Clock
      PROVE  Goal
  BY <1>7, <1>1 DEF Migrate, Clock, hands
<1>8. ASSUME NEW place \in Paths, ForeignFile(place)
      PROVE  Goal
  BY <1>8, <1>1 DEF ForeignFile, hands
<1>9. ASSUME NEW p \in Procs, CollectFailed(p)
      PROVE  Goal
  <2>1. UNCHANGED todo /\ cur' = [cur EXCEPT ![p] = job[p]] /\ p \in Actors
    BY <1>9 DEF CollectFailed, Actors
  <2>2. cur'[p] = job[p] /\ \A x \in Actors : x # p =>
          cur'[x] = cur[x] /\ stage'[x] = stage[x] /\ cstatus'[x] = cstatus[x] /\ cfile'[x] = cfile[x]
    BY <1>9, <1>0, <2>1 DEF TypeOK, HandsTypeOK, CollectFailed, CleanupSnapshot
  <2> QED
    BY <1>9, <2>1, <2>2 DEF Holds, Cleans
<1>10. ASSUME NEW p \in Procs, FinishFailed(p)
       PROVE  Goal
  BY <1>10, <1>0, BackupAssumption DEF TypeOK, ServeTypeOK, HandsTypeOK, Thread, ThreadOf,
      Holds, Busy, Actors, NoRun, Runs, FinishFailed, Forget
<1>11. ASSUME NEW p \in Procs, FinishSuccess(p)
       PROVE  Goal
  BY <1>11, <1>0, BackupAssumption DEF TypeOK, ServeTypeOK, HandsTypeOK, Thread, ThreadOf,
      Holds, Busy, Actors, NoRun, Runs, FinishSuccess, Collected
<1>12. ASSUME NEW p \in Procs, RetainSnapshot(p)
       PROVE  Goal
  BY <1>12, <1>0, BackupAssumption DEF TypeOK, ServeTypeOK, HandsTypeOK, Thread, ThreadOf,
      Holds, Busy, Actors, NoRun, Runs, RetainSnapshot, Forget
<1>13. ASSUME NEW p \in Procs, RetainMark(p)
       PROVE  Goal
  <2>1. CASE UNCHANGED todo
    BY <1>13, <2>1 DEF RetainMark, Holds
  <2>2. CASE MarkDeleting(p, ids[p])
    <3>1. ids[p] \in SUBSET Runs /\ p \in Actors /\ stage[p] \notin Busy
      BY <1>13, <1>0 DEF TypeOK, HandsTypeOK, Actors, Thread, ThreadOf, RetainMark, Busy
    <3>2. UNCHANGED <<stage, cur, cstatus, cfile>>
      BY <1>13 DEF RetainMark
    <3>3. CASE b = p
      BY <2>2, <3>1, <3>2, <3>3, Marked DEF Holds, MarksRun, Busy
    <3>4. CASE b # p
      BY <2>2, <3>1, <3>2, <3>4, Marked DEF Holds
    <3> QED
      BY <3>3, <3>4
  <2> QED
    BY <1>13, <2>1, <2>2 DEF RetainMark
<1>14. ASSUME NEW p \in Procs, Crash(p)
       PROVE  Goal
  BY <1>14, <1>0, BackupAssumption DEF TypeOK, ServeTypeOK, HandsTypeOK, Thread, ThreadOf,
      Holds, Busy, Actors, NoRun, Runs, Crash, Forget
<1>15. ASSUME NEW a \in Actors, DeleteImported(a)
       PROVE  Goal
  BY <1>15, <1>0, BackupAssumption DEF TypeOK, ServeTypeOK, HandsTypeOK, Thread, ThreadOf,
      Holds, Busy, Actors, NoRun, Runs, DeleteImported
<1>16. ASSUME NEW a \in Actors, DeleteNext(a)
       PROVE  Goal
  BY <1>16, <1>0, BackupAssumption DEF TypeOK, ServeTypeOK, HandsTypeOK, Thread, ThreadOf,
      Holds, Busy, Actors, NoRun, Runs, DeleteNext, CleanupSnapshot
<1>17. ASSUME NEW a \in Actors, CleanupRemove(a)
       PROVE  Goal
  BY <1>17, <1>0, BackupAssumption DEF TypeOK, ServeTypeOK, HandsTypeOK, Thread, ThreadOf,
      Holds, Busy, Actors, NoRun, Runs, CleanupRemove, AfterCleanup
<1>18. ASSUME NEW a \in Actors, DeleteSettle(a)
       PROVE  Goal
  BY <1>18, <1>0, BackupAssumption DEF TypeOK, ServeTypeOK, HandsTypeOK, Thread, ThreadOf,
      Holds, Busy, Actors, NoRun, Runs, DeleteSettle, Forget
<1>19. ASSUME NEW u \in Users, NEW S \in SUBSET Runs, DeleteRuns(u, S)
       PROVE  Goal
  <2>1. CASE UNCHANGED todo
    BY <1>19, <2>1 DEF DeleteRuns, Holds
  <2>2. CASE MarkDeleting(u, S)
    <3>1. S \in SUBSET Runs /\ u \in Actors /\ stage[u] \notin Busy
      BY <1>19, <1>0 DEF TypeOK, HandsTypeOK, Actors, Thread, ThreadOf, DeleteRuns, Busy
    <3>2. UNCHANGED <<stage, cur, cstatus, cfile>>
      BY <1>19 DEF DeleteRuns
    <3>3. CASE b = u
      BY <2>2, <3>1, <3>2, <3>3, Marked DEF Holds, MarksRun, Busy
    <3>4. CASE b # u
      BY <2>2, <3>1, <3>2, <3>4, Marked DEF Holds
    <3> QED
      BY <3>3, <3>4
  <2> QED
    BY <1>19, <2>1, <2>2 DEF DeleteRuns
<1>20. ASSUME NEW u \in Users, ImportCheck(u)
       PROVE  Goal
  BY <1>20, <1>0, BackupAssumption DEF TypeOK, ServeTypeOK, HandsTypeOK, Thread, ThreadOf,
      Holds, Busy, Actors, NoRun, Runs, ImportCheck
<1>21. ASSUME NEW u \in Users, ImportInsert(u)
       PROVE  Goal
  BY <1>21, <1>0, BackupAssumption DEF TypeOK, ServeTypeOK, HandsTypeOK, Thread, ThreadOf,
      Holds, Busy, Actors, NoRun, Runs, ImportInsert, Forget
<1>22. ASSUME NEW u \in Users, CrashCommand(u)
       PROVE  Goal
  BY <1>22, <1>0, BackupAssumption DEF TypeOK, ServeTypeOK, HandsTypeOK, Thread, ThreadOf,
      Holds, Busy, Actors, NoRun, Runs, CrashCommand, Forget
<1> QED
  BY <1>2, <1>3, <1>4, <1>5, <1>6, <1>7, <1>8, <1>9, <1>10, <1>11, <1>12, <1>13,
     <1>14, <1>15, <1>16, <1>17, <1>18, <1>19, <1>20, <1>21, <1>22
  DEF Next, ServeStep, WorkerStep, DeleteStep, Actors

\* So is a copy of its row.
LEMMA CopiesAfter ==
  ASSUME Safe, WorkerInv, CopyInv, Next, NEW b \in Actors, NEW r \in Runs, NEW st \in Statuses,
         NEW file \in Marks
  PROVE  CopyAt(b, r, st, file)' =>
           \/ CopyAt(b, r, st, file)
           \/ Cleans(b, r) /\ file = wfile[b]
           \/ MarksRun(b, r) /\ st = status[r] /\ file = listed[r]
<1> DEFINE Goal ==
         CopyAt(b, r, st, file)' =>
           \/ CopyAt(b, r, st, file)
           \/ Cleans(b, r) /\ file = wfile[b]
           \/ MarksRun(b, r) /\ st = status[r] /\ file = listed[r]
<1>0. TypeOK /\ Thread /\ InHandIsRunning
  BY DEF Safe
<1>1. ASSUME UNCHANGED <<stage, cur, cstatus, cfile, todo>>
      PROVE  Goal
  BY <1>1 DEF CopyAt
<1>2. ASSUME NEW p \in Procs, Leave(p) \/ Acquire(p) \/ Recover(p) \/ EnqueueDue(p)
             \/ Claim(p) \/ SpawnWorker(p) \/ PollRead(p) \/ PollWrite(p) \/ WorkerRecord(p)
             \/ WorkerCreate(p) \/ WorkerEvent(p) \/ WorkerFinish(p) \/ WorkerPanic(p)
      PROVE  Goal
  BY <1>2, <1>1 DEF Leave, Acquire, Recover, EnqueueDue, Claim, SpawnWorker, PollRead,
      PollWrite, WorkerRecord, WorkerCreate, WorkerEvent, WorkerFinish, WorkerPanic, hands
<1>3. ASSUME NEW p \in Procs, NEW how \in {"drain", "stop"}, RequestStop(p, how)
      PROVE  Goal
  BY <1>3, <1>1 DEF RequestStop, hands
<1>4. ASSUME NEW s \in Schedules, Save(s) \/ DeleteSchedule(s)
      PROVE  Goal
  BY <1>4, <1>1 DEF Save, DeleteSchedule, hands
<1>5. ASSUME NEW s \in Schedules \cup {"one-shot"}, RunNow(s)
      PROVE  Goal
  BY <1>5, <1>1 DEF RunNow, hands
<1>6. ASSUME NEW x \in Runs, Cancel(x)
      PROVE  Goal
  BY <1>6, <1>1 DEF Cancel, hands
<1>7. ASSUME Migrate \/ Clock
      PROVE  Goal
  BY <1>7, <1>1 DEF Migrate, Clock, hands
<1>8. ASSUME NEW place \in Paths, ForeignFile(place)
      PROVE  Goal
  BY <1>8, <1>1 DEF ForeignFile, hands
<1>9. ASSUME NEW p \in Procs, CollectFailed(p)
      PROVE  Goal
  <2>1. UNCHANGED todo /\ cur' = [cur EXCEPT ![p] = job[p]] /\ p \in Actors
    BY <1>9 DEF CollectFailed, Actors
  <2>2. cur'[p] = job[p] /\ \A x \in Actors : x # p =>
          cur'[x] = cur[x] /\ stage'[x] = stage[x] /\ cstatus'[x] = cstatus[x] /\ cfile'[x] = cfile[x]
    BY <1>9, <1>0, <2>1 DEF TypeOK, HandsTypeOK, CollectFailed, CleanupSnapshot
  <2>3. cfile'[p] = wfile[p]
    BY <1>9, <1>0, <2>1 DEF TypeOK, HandsTypeOK, CollectFailed
  <2> QED
    BY <1>9, <1>0, <2>1, <2>2, <2>3 DEF CopyAt, Cleans
<1>10. ASSUME NEW p \in Procs, FinishFailed(p)
       PROVE  Goal
  BY <1>10, <1>0, BackupAssumption DEF TypeOK, ServeTypeOK, HandsTypeOK, Thread, ThreadOf,
      CopyAt, Actors, NoRun, Runs, FinishFailed, Forget
<1>11. ASSUME NEW p \in Procs, FinishSuccess(p)
       PROVE  Goal
  BY <1>11, <1>0, BackupAssumption DEF TypeOK, ServeTypeOK, HandsTypeOK, Thread, ThreadOf,
      CopyAt, Actors, NoRun, Runs, FinishSuccess, Collected
<1>12. ASSUME NEW p \in Procs, RetainSnapshot(p)
       PROVE  Goal
  BY <1>12, <1>0, BackupAssumption DEF TypeOK, ServeTypeOK, HandsTypeOK, Thread, ThreadOf,
      CopyAt, Actors, NoRun, Runs, RetainSnapshot, Forget
<1>13. ASSUME NEW p \in Procs, RetainMark(p)
       PROVE  Goal
  <2>1. CASE UNCHANGED todo
    BY <1>13, <2>1 DEF RetainMark, CopyAt
  <2>2. CASE MarkDeleting(p, ids[p])
    <3>1. ids[p] \in SUBSET Runs /\ p \in Actors /\ stage[p] \notin Busy
      BY <1>13, <1>0 DEF TypeOK, HandsTypeOK, Actors, Thread, ThreadOf, RetainMark, Busy
    <3>2. UNCHANGED <<stage, cur, cstatus, cfile>>
      BY <1>13 DEF RetainMark
    <3>3. CASE b = p
      BY <2>2, <3>1, <3>2, <3>3, Marked DEF CopyAt, MarksRun, Busy
    <3>4. CASE b # p
      BY <2>2, <3>1, <3>2, <3>4, Marked DEF CopyAt
    <3> QED
      BY <3>3, <3>4
  <2> QED
    BY <1>13, <2>1, <2>2 DEF RetainMark
<1>14. ASSUME NEW p \in Procs, Crash(p)
       PROVE  Goal
  BY <1>14, <1>0, BackupAssumption DEF TypeOK, ServeTypeOK, HandsTypeOK, Thread, ThreadOf,
      CopyAt, Actors, NoRun, Runs, Crash, Forget
<1>15. ASSUME NEW a \in Actors, DeleteImported(a)
       PROVE  Goal
  BY <1>15, <1>0, BackupAssumption DEF TypeOK, ServeTypeOK, HandsTypeOK, Thread, ThreadOf,
      CopyAt, Actors, NoRun, Runs, DeleteImported
<1>16. ASSUME NEW a \in Actors, DeleteNext(a)
       PROVE  Goal
  BY <1>16, <1>0, BackupAssumption DEF TypeOK, ServeTypeOK, HandsTypeOK, Thread, ThreadOf,
      CopyAt, Actors, NoRun, Runs, DeleteNext, CleanupSnapshot
<1>17. ASSUME NEW a \in Actors, CleanupRemove(a)
       PROVE  Goal
  BY <1>17, <1>0, BackupAssumption DEF TypeOK, ServeTypeOK, HandsTypeOK, Thread, ThreadOf,
      CopyAt, Actors, NoRun, Runs, CleanupRemove, AfterCleanup
<1>18. ASSUME NEW a \in Actors, DeleteSettle(a)
       PROVE  Goal
  BY <1>18, <1>0, BackupAssumption DEF TypeOK, ServeTypeOK, HandsTypeOK, Thread, ThreadOf,
      CopyAt, Actors, NoRun, Runs, DeleteSettle, Forget
<1>19. ASSUME NEW u \in Users, NEW S \in SUBSET Runs, DeleteRuns(u, S)
       PROVE  Goal
  <2>1. CASE UNCHANGED todo
    BY <1>19, <2>1 DEF DeleteRuns, CopyAt
  <2>2. CASE MarkDeleting(u, S)
    <3>1. S \in SUBSET Runs /\ u \in Actors /\ stage[u] \notin Busy
      BY <1>19, <1>0 DEF TypeOK, HandsTypeOK, Actors, Thread, ThreadOf, DeleteRuns, Busy
    <3>2. UNCHANGED <<stage, cur, cstatus, cfile>>
      BY <1>19 DEF DeleteRuns
    <3>3. CASE b = u
      BY <2>2, <3>1, <3>2, <3>3, Marked DEF CopyAt, MarksRun, Busy
    <3>4. CASE b # u
      BY <2>2, <3>1, <3>2, <3>4, Marked DEF CopyAt
    <3> QED
      BY <3>3, <3>4
  <2> QED
    BY <1>19, <2>1, <2>2 DEF DeleteRuns
<1>20. ASSUME NEW u \in Users, ImportCheck(u)
       PROVE  Goal
  BY <1>20, <1>0, BackupAssumption DEF TypeOK, ServeTypeOK, HandsTypeOK, Thread, ThreadOf,
      CopyAt, Actors, NoRun, Runs, ImportCheck
<1>21. ASSUME NEW u \in Users, ImportInsert(u)
       PROVE  Goal
  BY <1>21, <1>0, BackupAssumption DEF TypeOK, ServeTypeOK, HandsTypeOK, Thread, ThreadOf,
      CopyAt, Actors, NoRun, Runs, ImportInsert, Forget
<1>22. ASSUME NEW u \in Users, CrashCommand(u)
       PROVE  Goal
  BY <1>22, <1>0, BackupAssumption DEF TypeOK, ServeTypeOK, HandsTypeOK, Thread, ThreadOf,
      CopyAt, Actors, NoRun, Runs, CrashCommand, Forget
<1> QED
  BY <1>2, <1>3, <1>4, <1>5, <1>6, <1>7, <1>8, <1>9, <1>10, <1>11, <1>12, <1>13,
     <1>14, <1>15, <1>16, <1>17, <1>18, <1>19, <1>20, <1>21, <1>22
  DEF Next, ServeStep, WorkerStep, DeleteStep, Actors

\* A run that is plain after a step was before.
LEMMA PlainBefore ==
  ASSUME Safe, Next, NEW r \in Runs
  PROVE  Plain(r)' => Plain(r)
<1>0. TypeOK /\ Thread /\ InHandIsRunning
  BY DEF Safe
<1>1. ASSUME UNCHANGED <<state, exposed>>
      PROVE  Plain(r)' => Plain(r)
  BY <1>1 DEF Plain
<1>2. ASSUME NEW p \in Procs, Leave(p) \/ Acquire(p) \/ SpawnWorker(p) \/ PollRead(p)
             \/ WorkerCreate(p) \/ WorkerEvent(p) \/ WorkerFinish(p) \/ WorkerPanic(p)
             \/ RetainSnapshot(p)
      PROVE  Plain(r)' => Plain(r)
  BY <1>2, <1>1 DEF Leave, Acquire, SpawnWorker, PollRead, WorkerCreate, WorkerEvent,
      WorkerFinish, WorkerPanic, RetainSnapshot, store, rows
<1>3. ASSUME NEW p \in Procs, NEW how \in {"drain", "stop"}, RequestStop(p, how)
      PROVE  Plain(r)' => Plain(r)
  BY <1>3, <1>1 DEF RequestStop, store, rows
<1>4. ASSUME NEW a \in Actors, DeleteNext(a)
      PROVE  Plain(r)' => Plain(r)
  BY <1>4, <1>1 DEF DeleteNext, store, rows
<1>5. ASSUME NEW u \in Users, ImportCheck(u)
      PROVE  Plain(r)' => Plain(r)
  BY <1>5, <1>1 DEF ImportCheck, store, rows
<1>6. ASSUME NEW s \in Schedules, Save(s) \/ DeleteSchedule(s)
      PROVE  Plain(r)' => Plain(r)
  BY <1>6, <1>1 DEF Save, DeleteSchedule, save_schedule, rows, delete_schedule
<1>7. ASSUME Migrate \/ Clock
      PROVE  Plain(r)' => Plain(r)
  BY <1>7, <1>1 DEF Migrate, Clock, migrate, rows
<1>8. ASSUME NEW place \in Paths, ForeignFile(place)
      PROVE  Plain(r)' => Plain(r)
  BY <1>8, <1>1 DEF ForeignFile, store, rows
<1>9. ASSUME NEW p \in Procs, Recover(p)
      PROVE  Plain(r)' => Plain(r)
  BY <1>9, <1>0 DEF TypeOK, ServeTypeOK, HandsTypeOK, StoreTypeOK, Plain, Recover, recover,
      store, rows, InState
<1>10. ASSUME NEW p \in Procs, EnqueueDue(p)
       PROVE  Plain(r)' => Plain(r)
  BY <1>10, RowsAdded DEF Plain, hands
<1>11. ASSUME NEW p \in Procs, Claim(p)
       PROVE  Plain(r)' => Plain(r)
  BY <1>11, <1>0 DEF TypeOK, ServeTypeOK, HandsTypeOK, StoreTypeOK, Plain, Claim, claim,
      store, rows, Oldest, InState
<1>12. ASSUME NEW p \in Procs, PollWrite(p)
       PROVE  Plain(r)' => Plain(r)
  BY <1>12, <1>0 DEF TypeOK, ServeTypeOK, HandsTypeOK, StoreTypeOK, Plain, PollWrite,
      progress, store, rows
<1>13. ASSUME NEW p \in Procs, WorkerRecord(p)
       PROVE  Plain(r)' => Plain(r)
  BY <1>13, <1>0 DEF TypeOK, ServeTypeOK, HandsTypeOK, StoreTypeOK, Plain, WorkerRecord,
      progress, store, rows
<1>14. ASSUME NEW p \in Procs, CollectFailed(p)
       PROVE  Plain(r)' => Plain(r)
  BY <1>14, <1>0 DEF TypeOK, ServeTypeOK, HandsTypeOK, StoreTypeOK, Plain, CollectFailed,
      finish, store, rows, Collected
<1>15. ASSUME NEW p \in Procs, FinishFailed(p)
       PROVE  Plain(r)' => Plain(r)
  BY <1>15, <1>0 DEF TypeOK, ServeTypeOK, HandsTypeOK, StoreTypeOK, Plain, FinishFailed,
      finish, store, rows, InHandIsRunning, ThreadOf, Thread
<1>16. ASSUME NEW p \in Procs, FinishSuccess(p)
       PROVE  Plain(r)' => Plain(r)
  BY <1>16, <1>0 DEF TypeOK, ServeTypeOK, HandsTypeOK, StoreTypeOK, Plain, FinishSuccess,
      finish, store, rows, Collected, InHandIsRunning, ThreadOf, Thread
<1>17. ASSUME NEW p \in Procs, RetainMark(p)
       PROVE  Plain(r)' => Plain(r)
  <2>1. CASE UNCHANGED <<exposed, state>>
    BY <2>1 DEF Plain
  <2>2. CASE MarkDeleting(p, ids[p])
    <3>1. ids[p] \in SUBSET Runs /\ p \in Actors
      BY <1>0 DEF TypeOK, HandsTypeOK, Actors
    <3> QED
      BY <2>2, <3>1, Marked DEF Plain, InState, Final
  <2> QED
    BY <1>17, <2>1, <2>2 DEF RetainMark, store, rows
<1>18. ASSUME NEW p \in Procs, Crash(p)
       PROVE  Plain(r)' => Plain(r)
  BY <1>18, <1>0 DEF TypeOK, ServeTypeOK, HandsTypeOK, StoreTypeOK, Plain, Crash, store,
      rows
<1>19. ASSUME NEW a \in Actors, DeleteImported(a)
       PROVE  Plain(r)' => Plain(r)
  BY <1>19, <1>0 DEF TypeOK, ServeTypeOK, HandsTypeOK, StoreTypeOK, Plain, DeleteImported,
      remove_run, store, rows
<1>20. ASSUME NEW a \in Actors, CleanupRemove(a)
       PROVE  Plain(r)' => Plain(r)
  BY <1>20, <1>0 DEF TypeOK, ServeTypeOK, HandsTypeOK, StoreTypeOK, Plain, CleanupRemove,
      AfterCleanup, finish, store, rows
<1>21. ASSUME NEW a \in Actors, DeleteSettle(a)
       PROVE  Plain(r)' => Plain(r)
  BY <1>21, <1>0 DEF TypeOK, ServeTypeOK, HandsTypeOK, StoreTypeOK, Plain, DeleteSettle,
      remove_run, store, rows, deletion_failed
<1>22. ASSUME NEW u \in Users, NEW S \in SUBSET Runs, DeleteRuns(u, S)
       PROVE  Plain(r)' => Plain(r)
  <2>1. CASE UNCHANGED <<exposed, state>>
    BY <2>1 DEF Plain
  <2>2. CASE MarkDeleting(u, S)
    <3>1. S \in SUBSET Runs /\ u \in Actors
      BY <1>0 DEF TypeOK, HandsTypeOK, Actors
    <3> QED
      BY <2>2, <3>1, Marked DEF Plain, InState, Final
  <2> QED
    BY <1>22, <2>1, <2>2 DEF DeleteRuns, store, rows
<1>23. ASSUME NEW u \in Users, ImportInsert(u)
       PROVE  Plain(r)' => Plain(r)
  BY <1>23, <1>0, StoreAssumption DEF Safe, FreshIds, TypeOK, StoreTypeOK, Plain, ImportInsert, insert_completed, Runs
<1>24. ASSUME NEW u \in Users, CrashCommand(u)
       PROVE  Plain(r)' => Plain(r)
  BY <1>24, <1>0 DEF TypeOK, ServeTypeOK, HandsTypeOK, StoreTypeOK, Plain, CrashCommand,
      store, rows
<1>25. ASSUME NEW s \in Schedules \cup {"one-shot"}, RunNow(s)
       PROVE  Plain(r)' => Plain(r)
  BY <1>25, RowsAdded DEF Plain, hands
<1>26. ASSUME NEW x \in Runs, Cancel(x)
       PROVE  Plain(r)' => Plain(r)
  BY <1>26, <1>0 DEF TypeOK, ServeTypeOK, HandsTypeOK, StoreTypeOK, Plain, Cancel, cancel
<1> QED
  BY <1>2, <1>3, <1>4, <1>5, <1>6, <1>7, <1>8, <1>9, <1>10, <1>11, <1>12, <1>13,
     <1>14, <1>15, <1>16, <1>17, <1>18, <1>19, <1>20, <1>21, <1>22, <1>23, <1>24, <1>25,
     <1>26
  DEF Next, ServeStep, WorkerStep, DeleteStep, Actors

\* How a row comes to say success or deleting.
LEMMA RowAfter ==
  ASSUME Safe, WorkerInv, Next, NEW r \in Runs
  PROVE  RowMoves(r)
<1>0. TypeOK /\ Thread /\ InHandIsRunning
  BY DEF Safe
<1>1. ASSUME UNCHANGED <<state, status, listed, plan>>
      PROVE  RowMoves(r)
  BY <1>1 DEF RowMoves, Stays
<1>2. ASSUME NEW p \in Procs, Leave(p) \/ Acquire(p) \/ SpawnWorker(p) \/ PollRead(p)
             \/ WorkerCreate(p) \/ WorkerEvent(p) \/ WorkerFinish(p) \/ WorkerPanic(p)
             \/ RetainSnapshot(p) \/ Crash(p)
      PROVE  RowMoves(r)
  BY <1>2, <1>1 DEF Leave, Acquire, SpawnWorker, PollRead, WorkerCreate, WorkerEvent,
      WorkerFinish, WorkerPanic, RetainSnapshot, Crash, store, rows
<1>3. ASSUME NEW p \in Procs, NEW how \in {"drain", "stop"}, RequestStop(p, how)
      PROVE  RowMoves(r)
  BY <1>3, <1>1 DEF RequestStop, store, rows
<1>4. ASSUME NEW a \in Actors, DeleteNext(a)
      PROVE  RowMoves(r)
  BY <1>4, <1>1 DEF DeleteNext, store, rows
<1>5. ASSUME NEW u \in Users, ImportCheck(u) \/ CrashCommand(u)
      PROVE  RowMoves(r)
  BY <1>5, <1>1 DEF ImportCheck, CrashCommand, store, rows
<1>6. ASSUME NEW s \in Schedules, Save(s) \/ DeleteSchedule(s)
      PROVE  RowMoves(r)
  BY <1>6, <1>1 DEF Save, DeleteSchedule, save_schedule, rows, delete_schedule
<1>7. ASSUME Migrate \/ Clock
      PROVE  RowMoves(r)
  BY <1>7, <1>1 DEF Migrate, Clock, migrate, rows
<1>8. ASSUME NEW place \in Paths, ForeignFile(place)
      PROVE  RowMoves(r)
  BY <1>8, <1>1 DEF ForeignFile, store, rows
<1>9. ASSUME NEW p \in Procs, Recover(p)
      PROVE  RowMoves(r)
  <2>1. CASE UNCHANGED store
    BY <2>1 DEF RowMoves, Stays, store, rows
  <2>2. CASE recover
    BY <1>0, <2>2 DEF TypeOK, StoreTypeOK, recover, InState, RowMoves, Stays
  <2> QED
    BY <1>9, <2>1, <2>2 DEF Recover
<1>10. ASSUME NEW p \in Procs, EnqueueDue(p)
       PROVE  RowMoves(r)
  BY <1>10, RowsAdded DEF RowMoves, Stays
<1>11. ASSUME NEW p \in Procs, Claim(p)
       PROVE  RowMoves(r)
  <2>1. CASE UNCHANGED store
    BY <2>1 DEF RowMoves, Stays, store, rows
  <2>2. ASSUME NEW x \in Runs, claim(x)
        PROVE  RowMoves(r)
    BY <1>0, <2>2 DEF TypeOK, StoreTypeOK, claim, RowMoves, Stays
  <2> QED
    BY <1>11, <2>1, <2>2 DEF Claim
<1>12. ASSUME NEW p \in Procs, PollWrite(p)
       PROVE  RowMoves(r)
  <2>1. CASE UNCHANGED store
    BY <2>1 DEF RowMoves, Stays, store, rows
  <2>2. CASE progress(job[p], poll[p])
    BY <1>0, <2>2 DEF TypeOK, StoreTypeOK, progress, RowMoves, Stays
  <2> QED
    BY <1>12, <2>1, <2>2 DEF PollWrite
<1>13. ASSUME NEW p \in Procs, WorkerRecord(p)
       PROVE  RowMoves(r)
  <2>1. CASE UNCHANGED store
    BY <2>1 DEF RowMoves, Stays, store, rows
  <2>2. CASE progress(job[p], "recorded")
    BY <1>0, <2>2 DEF TypeOK, StoreTypeOK, progress, RowMoves, Stays
  <2> QED
    BY <1>13, <2>1, <2>2 DEF WorkerRecord
<1>14. ASSUME NEW p \in Procs, CollectFailed(p)
       PROVE  RowMoves(r)
  BY <1>14, <1>0 DEF TypeOK, ServeTypeOK, HandsTypeOK, StoreTypeOK, RowMoves, Stays,
      InHandIsRunning, Thread, ThreadOf, Actors, NoRun, Runs, CollectFailed, finish, store,
      rows, Collected
<1>15. ASSUME NEW p \in Procs, FinishFailed(p)
       PROVE  RowMoves(r)
  <2>1. CASE UNCHANGED store
    BY <2>1 DEF RowMoves, Stays, store, rows
  <2>2. CASE finish(job[p], cstatus[p], cfile[p])
    <3>1. cstatus[p] \notin {"success", "deleting"}
      BY <1>15, <1>0 DEF WorkerInv, WorkerOf, FinishFailed, Thread, ThreadOf, Final
    <3> QED
      BY <1>0, <2>2, <3>1 DEF TypeOK, StoreTypeOK, finish, RowMoves, Stays
  <2> QED
    BY <1>15, <2>1, <2>2 DEF FinishFailed
<1>16. ASSUME NEW p \in Procs, FinishSuccess(p)
       PROVE  RowMoves(r)
  <2>1. CASE UNCHANGED store
    BY <2>1 DEF RowMoves, Stays, store, rows
  <2>2. CASE finish(job[p], "success", wfile[p])
    <3>1. CASE job[p] = r
      <4>1. listed'[r] = wfile[p]
        BY <1>0, <2>2, <3>1 DEF TypeOK, StoreTypeOK, finish
      <4> QED
        BY <1>16, <3>1, <4>1 DEF RowMoves, Succeeds
    <3>2. CASE job[p] # r
      BY <1>0, <2>2, <3>2 DEF TypeOK, StoreTypeOK, finish, RowMoves, Stays
    <3> QED
      BY <3>1, <3>2
  <2> QED
    BY <1>16, <2>1, <2>2 DEF FinishSuccess
<1>17. ASSUME NEW p \in Procs, RetainMark(p)
       PROVE  RowMoves(r)
  <2>1. CASE UNCHANGED store
    BY <2>1 DEF RowMoves, Stays, store, rows
  <2>2. CASE MarkDeleting(p, ids[p])
    <3>1. ids[p] \in SUBSET Runs /\ p \in Actors /\ stage[p] \notin Busy
      BY <1>17, <1>0 DEF TypeOK, HandsTypeOK, Actors, Thread, ThreadOf, RetainMark, Busy
    <3>2. UNCHANGED <<stage, cur, cstatus, cfile>>
      BY <1>17 DEF RetainMark
    <3> QED
      BY <2>2, <3>1, <3>2, Marked DEF RowMoves, Stays, MarksRun
  <2> QED
    BY <1>17, <2>1, <2>2 DEF RetainMark
<1>18. ASSUME NEW a \in Actors, DeleteImported(a)
       PROVE  RowMoves(r)
  <2>1. CASE UNCHANGED store
    BY <2>1 DEF RowMoves, Stays, store, rows
  <2>2. ASSUME NEW x, remove_run(x)
        PROVE  RowMoves(r)
    BY <1>0, <2>2 DEF TypeOK, StoreTypeOK, remove_run, RowMoves, Stays
  <2> QED
    BY <1>18, <2>1, <2>2 DEF DeleteImported
<1>19. ASSUME NEW a \in Actors, CleanupRemove(a)
       PROVE  RowMoves(r)
  BY <1>19, <1>0 DEF TypeOK, ServeTypeOK, HandsTypeOK, StoreTypeOK, RowMoves, Stays,
      InHandIsRunning, Thread, ThreadOf, Actors, NoRun, Runs, CleanupRemove, AfterCleanup,
      finish, store, rows
<1>20. ASSUME NEW a \in Actors, DeleteSettle(a)
       PROVE  RowMoves(r)
  <2>1. CASE UNCHANGED store
    BY <2>1 DEF RowMoves, Stays, store, rows
  <2>2. CASE stage[a] = "drop" /\ remove_run(cur[a])
    BY <1>0, <2>2 DEF TypeOK, StoreTypeOK, remove_run, RowMoves, Stays
  <2>3. CASE stage[a] = "restore" /\ deletion_failed(cur[a], cstatus[a], cfile[a])
    <3>1. CASE cur[a] = r /\ state[r] = "deleting"
      <4>1. state'[r] = cstatus[a] /\ listed'[r] = cfile[a]
        BY <1>0, <2>3, <3>1 DEF TypeOK, StoreTypeOK, deletion_failed
      <4> QED
        BY <1>20, <2>3, <3>1, <4>1 DEF RowMoves, Restores
    <3>2. CASE cur[a] # r \/ state[r] # "deleting"
      BY <1>0, <2>3, <3>2 DEF TypeOK, StoreTypeOK, deletion_failed, RowMoves, Stays
    <3> QED
      BY <3>1, <3>2
  <2> QED
    BY <1>20, <2>1, <2>2, <2>3 DEF DeleteSettle
<1>21. ASSUME NEW u \in Users, NEW S \in SUBSET Runs, DeleteRuns(u, S)
       PROVE  RowMoves(r)
  <2>1. CASE UNCHANGED store
    BY <2>1 DEF RowMoves, Stays, store, rows
  <2>2. CASE MarkDeleting(u, S)
    <3>1. S \in SUBSET Runs /\ u \in Actors /\ stage[u] \notin Busy
      BY <1>21, <1>0 DEF TypeOK, HandsTypeOK, Actors, Thread, ThreadOf, DeleteRuns, Busy
    <3>2. UNCHANGED <<stage, cur, cstatus, cfile>>
      BY <1>21 DEF DeleteRuns
    <3> QED
      BY <2>2, <3>1, <3>2, Marked DEF RowMoves, Stays, MarksRun
  <2> QED
    BY <1>21, <2>1, <2>2 DEF DeleteRuns
<1>22. ASSUME NEW u \in Users, ImportInsert(u)
       PROVE  RowMoves(r)
  BY <1>22, <1>0, StoreAssumption DEF Safe, FreshIds, TypeOK, StoreTypeOK, ImportInsert, insert_completed, RowMoves, Stays, Imported, Runs
<1>23. ASSUME NEW s \in Schedules \cup {"one-shot"}, RunNow(s)
       PROVE  RowMoves(r)
  BY <1>23, RowsAdded DEF RowMoves, Stays
<1>24. ASSUME NEW x \in Runs, Cancel(x)
       PROVE  RowMoves(r)
  BY <1>24, <1>0 DEF TypeOK, ServeTypeOK, HandsTypeOK, StoreTypeOK, RowMoves, Stays,
      InHandIsRunning, Thread, ThreadOf, Actors, NoRun, Runs, Cancel, cancel, Active
<1> QED
  BY <1>2, <1>3, <1>4, <1>5, <1>6, <1>7, <1>8, <1>9, <1>10, <1>11, <1>12, <1>13,
     <1>14, <1>15, <1>16, <1>17, <1>18, <1>19, <1>20, <1>21, <1>22, <1>23, <1>24
  DEF Next, ServeStep, WorkerStep, DeleteStep, Actors

\* Who drops a run goes on until its row is gone.
LEMMA DropsAfter ==
  ASSUME Safe, Next, NEW b \in Actors, NEW r \in Runs
  PROVE  Drops(b, r) /\ state'[r] = "deleting" /\ Plain(r)' => Drops(b, r)'
<1> DEFINE Goal ==
         Drops(b, r) /\ state'[r] = "deleting" /\ Plain(r)' => Drops(b, r)'
<1>0. TypeOK /\ Thread /\ InHandIsRunning
  BY DEF Safe
<1>1. ASSUME UNCHANGED <<state, stage, cur, exposed>>
      PROVE  Goal
  BY <1>1 DEF Drops, Plain
<1>2. ASSUME NEW p \in Procs, Leave(p) \/ Acquire(p) \/ SpawnWorker(p) \/ PollRead(p)
             \/ WorkerCreate(p) \/ WorkerEvent(p) \/ WorkerFinish(p) \/ WorkerPanic(p)
      PROVE  Goal
  BY <1>2, <1>1 DEF Leave, Acquire, SpawnWorker, PollRead, WorkerCreate, WorkerEvent,
      WorkerFinish, WorkerPanic, store, rows, hands
<1>3. ASSUME NEW p \in Procs, NEW how \in {"drain", "stop"}, RequestStop(p, how)
      PROVE  Goal
  BY <1>3, <1>1 DEF RequestStop, store, rows, hands
<1>4. ASSUME NEW s \in Schedules, Save(s) \/ DeleteSchedule(s)
      PROVE  Goal
  BY <1>4, <1>1 DEF Save, DeleteSchedule, save_schedule, rows, hands, delete_schedule
<1>5. ASSUME Migrate \/ Clock
      PROVE  Goal
  BY <1>5, <1>1 DEF Migrate, Clock, migrate, rows, hands
<1>6. ASSUME NEW place \in Paths, ForeignFile(place)
      PROVE  Goal
  BY <1>6, <1>1 DEF ForeignFile, store, rows, hands
<1>7. ASSUME NEW p \in Procs, Recover(p)
      PROVE  Goal
  BY <1>7, <1>0, BackupAssumption DEF TypeOK, ServeTypeOK, HandsTypeOK, StoreTypeOK, Plain,
      Drops, Thread, ThreadOf, Actors, NoRun, Runs, Recover, recover, store, rows, hands
<1>8. ASSUME NEW p \in Procs, EnqueueDue(p)
      PROVE  Goal
  BY <1>8, RowsAdded DEF Drops, hands
<1>9. ASSUME NEW p \in Procs, Claim(p)
      PROVE  Goal
  BY <1>9, <1>0, BackupAssumption DEF TypeOK, ServeTypeOK, HandsTypeOK, StoreTypeOK, Plain,
      Drops, Thread, ThreadOf, Actors, NoRun, Runs, Claim, claim, store, rows, hands
<1>10. ASSUME NEW p \in Procs, PollWrite(p)
       PROVE  Goal
  BY <1>10, <1>0, BackupAssumption DEF TypeOK, ServeTypeOK, HandsTypeOK, StoreTypeOK, Plain,
      Drops, Thread, ThreadOf, Actors, NoRun, Runs, PollWrite, progress, store, rows, hands
<1>11. ASSUME NEW p \in Procs, WorkerRecord(p)
       PROVE  Goal
  BY <1>11, <1>0, BackupAssumption DEF TypeOK, ServeTypeOK, HandsTypeOK, StoreTypeOK, Plain,
      Drops, Thread, ThreadOf, Actors, NoRun, Runs, WorkerRecord, progress, store, rows,
      hands
<1>12. ASSUME NEW p \in Procs, CollectFailed(p)
       PROVE  Goal
  BY <1>12, <1>0, BackupAssumption DEF TypeOK, ServeTypeOK, HandsTypeOK, StoreTypeOK, Plain,
      Drops, Thread, ThreadOf, Actors, NoRun, Runs, CollectFailed, CleanupSnapshot, finish,
      store, rows, Collected
<1>13. ASSUME NEW p \in Procs, FinishFailed(p)
       PROVE  Goal
  BY <1>13, <1>0, BackupAssumption DEF TypeOK, ServeTypeOK, HandsTypeOK, StoreTypeOK, Plain,
      Drops, Thread, ThreadOf, Actors, NoRun, Runs, FinishFailed, finish, store, rows,
      Forget
<1>14. ASSUME NEW p \in Procs, FinishSuccess(p)
       PROVE  Goal
  BY <1>14, <1>0, BackupAssumption DEF TypeOK, ServeTypeOK, HandsTypeOK, StoreTypeOK, Plain,
      Drops, Thread, ThreadOf, Actors, NoRun, Runs, FinishSuccess, finish, store, rows,
      Collected
<1>15. ASSUME NEW p \in Procs, RetainSnapshot(p)
       PROVE  Goal
  BY <1>15, <1>0, BackupAssumption DEF TypeOK, ServeTypeOK, HandsTypeOK, StoreTypeOK, Plain,
      Drops, Thread, ThreadOf, Actors, NoRun, Runs, RetainSnapshot, Forget, store, rows
<1>16. ASSUME NEW p \in Procs, RetainMark(p)
       PROVE  Goal
  BY <1>16, <1>0, BackupAssumption DEF TypeOK, ServeTypeOK, HandsTypeOK, StoreTypeOK, Plain,
      Drops, Thread, ThreadOf, Actors, NoRun, Runs, RetainMark, MarkDeleting, mark_deleting,
      store, rows
<1>17. ASSUME NEW p \in Procs, Crash(p)
       PROVE  Goal
  BY <1>17, <1>0, BackupAssumption DEF TypeOK, ServeTypeOK, HandsTypeOK, StoreTypeOK, Plain,
      Drops, Thread, ThreadOf, Actors, NoRun, Runs, Crash, Forget, store, rows, HalfDeleted
<1>18. ASSUME NEW a \in Actors, DeleteImported(a)
       PROVE  Goal
  BY <1>18, <1>0, BackupAssumption DEF TypeOK, ServeTypeOK, HandsTypeOK, StoreTypeOK, Plain,
      Drops, Thread, ThreadOf, Actors, NoRun, Runs, DeleteImported, remove_run, store, rows
<1>19. ASSUME NEW a \in Actors, DeleteNext(a)
       PROVE  Goal
  BY <1>19, <1>0, BackupAssumption DEF TypeOK, ServeTypeOK, HandsTypeOK, StoreTypeOK, Plain,
      Drops, Thread, ThreadOf, Actors, NoRun, Runs, DeleteNext, CleanupSnapshot, store, rows
<1>20. ASSUME NEW a \in Actors, CleanupRemove(a)
       PROVE  Goal
  BY <1>20, <1>0, BackupAssumption DEF TypeOK, ServeTypeOK, HandsTypeOK, StoreTypeOK, Plain,
      Drops, Thread, ThreadOf, Actors, NoRun, Runs, CleanupRemove, AfterCleanup, finish,
      store, rows
<1>21. ASSUME NEW a \in Actors, DeleteSettle(a)
       PROVE  Goal
  <2>1. CASE a = b
    <3>1. CASE stage[a] = "drop" /\ remove_run(cur[a])
      BY <1>0, <2>1, <3>1 DEF TypeOK, StoreTypeOK, remove_run, Drops
    <3>2. CASE stage[a] = "drop" /\ exposed' = exposed \cup HalfDeleted(a)
      BY <2>1, <3>2 DEF HalfDeleted, Drops, Plain
    <3> QED
      BY <1>21, <2>1, <3>1, <3>2 DEF DeleteSettle, Drops
  <2>2. CASE a # b
    BY <1>21, <1>0, <2>2 DEF TypeOK, HandsTypeOK, DeleteSettle, Forget, Drops
  <2> QED
    BY <2>1, <2>2
<1>22. ASSUME NEW u \in Users, NEW S \in SUBSET Runs, DeleteRuns(u, S)
       PROVE  Goal
  BY <1>22, <1>0, BackupAssumption DEF TypeOK, ServeTypeOK, HandsTypeOK, StoreTypeOK, Plain,
      Drops, Thread, ThreadOf, Actors, NoRun, Runs, DeleteRuns, MarkDeleting, mark_deleting
<1>23. ASSUME NEW u \in Users, ImportCheck(u)
       PROVE  Goal
  BY <1>23, <1>0, BackupAssumption DEF TypeOK, ServeTypeOK, HandsTypeOK, StoreTypeOK, Plain,
      Drops, Thread, ThreadOf, Actors, NoRun, Runs, ImportCheck, store, rows
<1>24. ASSUME NEW u \in Users, ImportInsert(u)
       PROVE  Goal
  BY <1>24, <1>0, BackupAssumption DEF TypeOK, ServeTypeOK, HandsTypeOK, StoreTypeOK, Plain,
      Drops, Thread, ThreadOf, Actors, NoRun, Runs, ImportInsert, insert_completed, Forget
<1>25. ASSUME NEW u \in Users, CrashCommand(u)
       PROVE  Goal
  BY <1>25, <1>0, BackupAssumption DEF TypeOK, ServeTypeOK, HandsTypeOK, StoreTypeOK, Plain,
      Drops, Thread, ThreadOf, Actors, NoRun, Runs, CrashCommand, Forget, store, rows,
      HalfDeleted
<1>26. ASSUME NEW s \in Schedules \cup {"one-shot"}, RunNow(s)
       PROVE  Goal
  BY <1>26, RowsAdded DEF Drops, hands
<1>27. ASSUME NEW x \in Runs, Cancel(x)
       PROVE  Goal
  BY <1>27, <1>0, BackupAssumption DEF TypeOK, ServeTypeOK, HandsTypeOK, StoreTypeOK, Plain,
      Drops, Thread, ThreadOf, Actors, NoRun, Runs, Cancel, cancel, hands
<1> QED
  BY <1>2, <1>3, <1>4, <1>5, <1>6, <1>7, <1>8, <1>9, <1>10, <1>11, <1>12, <1>13,
     <1>14, <1>15, <1>16, <1>17, <1>18, <1>19, <1>20, <1>21, <1>22, <1>23, <1>24, <1>25,
     <1>26, <1>27
  DEF Next, ServeStep, WorkerStep, DeleteStep, Actors

\* A process that is about to make a file was before, or has just recorded it.
LEMMA MakingAfter ==
  ASSUME Safe, WorkerInv, Next, NEW q \in Procs, NEW r \in Runs
  PROVE  job'[q] = r /\ worker'[q] = "create" =>
           job[q] = r /\ (worker[q] = "create" \/ Records(q))
<1> DEFINE Goal ==
         job'[q] = r /\ worker'[q] = "create" =>
           job[q] = r /\ (worker[q] = "create" \/ Records(q))
<1>0. TypeOK /\ Thread /\ InHandIsRunning
  BY DEF Safe
<1>00. WorkerOf(q)
  BY DEF WorkerInv
<1>1. ASSUME UNCHANGED <<job, worker>>
      PROVE  Goal
  BY <1>1
<1>2. ASSUME NEW p \in Procs, Leave(p) \/ Acquire(p) \/ Recover(p) \/ EnqueueDue(p)
             \/ PollRead(p) \/ PollWrite(p) \/ WorkerEvent(p) \/ RetainSnapshot(p)
             \/ RetainMark(p)
      PROVE  Goal
  BY <1>2, <1>1 DEF Leave, Acquire, Recover, EnqueueDue, PollRead, PollWrite, WorkerEvent,
      RetainSnapshot, RetainMark
<1>3. ASSUME NEW p \in Procs, NEW how \in {"drain", "stop"}, RequestStop(p, how)
      PROVE  Goal
  BY <1>3, <1>1 DEF RequestStop
<1>4. ASSUME NEW a \in Actors, DeleteImported(a) \/ DeleteNext(a) \/ CleanupRemove(a)
             \/ DeleteSettle(a)
      PROVE  Goal
  BY <1>4, <1>1 DEF DeleteImported, DeleteNext, CleanupRemove, DeleteSettle, procs
<1>5. ASSUME NEW u \in Users, NEW S \in SUBSET Runs, DeleteRuns(u, S)
      PROVE  Goal
  BY <1>5, <1>1 DEF DeleteRuns, procs
<1>6. ASSUME NEW u \in Users, ImportCheck(u) \/ ImportInsert(u) \/ CrashCommand(u)
      PROVE  Goal
  BY <1>6, <1>1 DEF ImportCheck, ImportInsert, CrashCommand, procs
<1>7. ASSUME NEW s \in Schedules, Save(s) \/ DeleteSchedule(s)
      PROVE  Goal
  BY <1>7, <1>1 DEF Save, DeleteSchedule, procs
<1>8. ASSUME NEW s \in Schedules \cup {"one-shot"}, RunNow(s)
      PROVE  Goal
  BY <1>8, <1>1 DEF RunNow, procs
<1>9. ASSUME NEW x \in Runs, Cancel(x)
      PROVE  Goal
  BY <1>9, <1>1 DEF Cancel, procs
<1>10. ASSUME Migrate \/ Clock
       PROVE  Goal
  BY <1>10, <1>1 DEF Migrate, Clock, procs
<1>11. ASSUME NEW place \in Paths, ForeignFile(place)
       PROVE  Goal
  BY <1>11, <1>1 DEF ForeignFile, procs
<1>12. ASSUME NEW p \in Procs, Claim(p)
       PROVE  Goal
  BY <1>12, <1>0, <1>00 DEF TypeOK, ServeTypeOK, HandsTypeOK, StoreTypeOK, Records,
      WorkerOf, Actors, NoRun, Runs, Claim
<1>13. ASSUME NEW p \in Procs, SpawnWorker(p)
       PROVE  Goal
  BY <1>13, <1>0, <1>00 DEF TypeOK, ServeTypeOK, HandsTypeOK, StoreTypeOK, Records,
      WorkerOf, Actors, NoRun, Runs, SpawnWorker
<1>14. ASSUME NEW p \in Procs, WorkerRecord(p)
       PROVE  Goal
  <2>1. CASE progress(job[p], "recorded") /\ worker' = [worker EXCEPT ![p] = "create"]
    <3>1. q = p /\ job[p] = r => state[r] = "running"
      BY <1>0 DEF InHandIsRunning, NoRun, Runs
    <3>2. q = p /\ job[p] = r => Records(p)
      BY <1>14, <1>0, <2>1, <3>1 DEF TypeOK, StoreTypeOK, WorkerRecord, WorkerEnds, progress, Records, ServeTypeOK, hands
    <3> QED
      BY <1>14, <1>0, <2>1, <3>2 DEF TypeOK, ServeTypeOK, WorkerRecord
  <2>2. CASE worker' = [worker EXCEPT ![p] = "ended"]
    BY <1>14, <1>0, <2>2 DEF TypeOK, ServeTypeOK, WorkerRecord
  <2> QED
    BY <1>14, <2>1, <2>2 DEF WorkerRecord, WorkerEnds
<1>15. ASSUME NEW p \in Procs, WorkerCreate(p)
       PROVE  Goal
  BY <1>15, <1>0, <1>00 DEF TypeOK, ServeTypeOK, HandsTypeOK, StoreTypeOK, Records,
      WorkerOf, Actors, NoRun, Runs, WorkerCreate, WorkerEnds
<1>16. ASSUME NEW p \in Procs, WorkerFinish(p)
       PROVE  Goal
  BY <1>16, <1>0, <1>00 DEF TypeOK, ServeTypeOK, HandsTypeOK, StoreTypeOK, Records,
      WorkerOf, Actors, NoRun, Runs, WorkerFinish, WorkerEnds
<1>17. ASSUME NEW p \in Procs, WorkerPanic(p)
       PROVE  Goal
  BY <1>17, <1>0, <1>00 DEF TypeOK, ServeTypeOK, HandsTypeOK, StoreTypeOK, Records,
      WorkerOf, Actors, NoRun, Runs, WorkerPanic
<1>18. ASSUME NEW p \in Procs, CollectFailed(p)
       PROVE  Goal
  BY <1>18, <1>0, <1>00 DEF TypeOK, ServeTypeOK, HandsTypeOK, StoreTypeOK, Records,
      WorkerOf, Actors, NoRun, Runs, CollectFailed, WorkerGone, Collected
<1>19. ASSUME NEW p \in Procs, FinishFailed(p)
       PROVE  Goal
  BY <1>19, <1>0, <1>00 DEF TypeOK, ServeTypeOK, HandsTypeOK, StoreTypeOK, Records,
      WorkerOf, Actors, NoRun, Runs, FinishFailed
<1>20. ASSUME NEW p \in Procs, FinishSuccess(p)
       PROVE  Goal
  BY <1>20, <1>0, <1>00 DEF TypeOK, ServeTypeOK, HandsTypeOK, StoreTypeOK, Records,
      WorkerOf, Actors, NoRun, Runs, FinishSuccess, WorkerGone, Collected
<1>21. ASSUME NEW p \in Procs, Crash(p)
       PROVE  Goal
  BY <1>21, <1>0, <1>00 DEF TypeOK, ServeTypeOK, HandsTypeOK, StoreTypeOK, Records,
      WorkerOf, Actors, NoRun, Runs, Crash
<1> QED
  BY <1>2, <1>3, <1>4, <1>5, <1>6, <1>7, <1>8, <1>9, <1>10, <1>11, <1>12, <1>13,
     <1>14, <1>15, <1>16, <1>17, <1>18, <1>19, <1>20, <1>21
  DEF Next, ServeStep, WorkerStep, DeleteStep, Actors

\* A process that has made its file had before, or has just created it.
LEMMA MadeAfter ==
  ASSUME Safe, WorkerInv, Next, NEW q \in Procs, NEW r \in Runs
  PROVE  job'[q] = r /\ (worker'[q] = "write" \/ wfile'[q] = "owned") =>
           /\ job[q] = r
           /\ worker[q] = "write" \/ wfile[q] = "owned" \/ Creates(q)
<1> DEFINE Goal ==
         job'[q] = r /\ (worker'[q] = "write" \/ wfile'[q] = "owned") =>
           /\ job[q] = r
           /\ worker[q] = "write" \/ wfile[q] = "owned" \/ Creates(q)
<1>0. TypeOK /\ Thread /\ InHandIsRunning
  BY DEF Safe
<1>00. WorkerOf(q)
  BY DEF WorkerInv
<1>1. ASSUME UNCHANGED <<job, worker, wfile>>
      PROVE  Goal
  BY <1>1
<1>2. ASSUME NEW p \in Procs, Leave(p) \/ Acquire(p) \/ Recover(p) \/ EnqueueDue(p)
             \/ PollRead(p) \/ PollWrite(p) \/ WorkerEvent(p) \/ RetainSnapshot(p)
             \/ RetainMark(p)
      PROVE  Goal
  BY <1>2, <1>1 DEF Leave, Acquire, Recover, EnqueueDue, PollRead, PollWrite, WorkerEvent,
      RetainSnapshot, RetainMark
<1>3. ASSUME NEW p \in Procs, NEW how \in {"drain", "stop"}, RequestStop(p, how)
      PROVE  Goal
  BY <1>3, <1>1 DEF RequestStop
<1>4. ASSUME NEW a \in Actors, DeleteImported(a) \/ DeleteNext(a) \/ CleanupRemove(a)
             \/ DeleteSettle(a)
      PROVE  Goal
  BY <1>4, <1>1 DEF DeleteImported, DeleteNext, CleanupRemove, DeleteSettle, procs
<1>5. ASSUME NEW u \in Users, NEW S \in SUBSET Runs, DeleteRuns(u, S)
      PROVE  Goal
  BY <1>5, <1>1 DEF DeleteRuns, procs
<1>6. ASSUME NEW u \in Users, ImportCheck(u) \/ ImportInsert(u) \/ CrashCommand(u)
      PROVE  Goal
  BY <1>6, <1>1 DEF ImportCheck, ImportInsert, CrashCommand, procs
<1>7. ASSUME NEW s \in Schedules, Save(s) \/ DeleteSchedule(s)
      PROVE  Goal
  BY <1>7, <1>1 DEF Save, DeleteSchedule, procs
<1>8. ASSUME NEW s \in Schedules \cup {"one-shot"}, RunNow(s)
      PROVE  Goal
  BY <1>8, <1>1 DEF RunNow, procs
<1>9. ASSUME NEW x \in Runs, Cancel(x)
      PROVE  Goal
  BY <1>9, <1>1 DEF Cancel, procs
<1>10. ASSUME Migrate \/ Clock
       PROVE  Goal
  BY <1>10, <1>1 DEF Migrate, Clock, procs
<1>11. ASSUME NEW place \in Paths, ForeignFile(place)
       PROVE  Goal
  BY <1>11, <1>1 DEF ForeignFile, procs
<1>12. ASSUME NEW p \in Procs, Claim(p)
       PROVE  Goal
  BY <1>12, <1>0, <1>00 DEF TypeOK, ServeTypeOK, HandsTypeOK, StoreTypeOK, Creates,
      WorkerOf, Actors, NoRun, Runs, Claim
<1>13. ASSUME NEW p \in Procs, SpawnWorker(p)
       PROVE  Goal
  BY <1>13, <1>0, <1>00 DEF TypeOK, ServeTypeOK, HandsTypeOK, StoreTypeOK, Creates,
      WorkerOf, Actors, NoRun, Runs, SpawnWorker
<1>14. ASSUME NEW p \in Procs, WorkerRecord(p)
       PROVE  Goal
  BY <1>14, <1>0, <1>00 DEF TypeOK, ServeTypeOK, HandsTypeOK, StoreTypeOK, Creates,
      WorkerOf, Actors, NoRun, Runs, WorkerRecord, WorkerEnds
<1>15. ASSUME NEW p \in Procs, WorkerCreate(p)
       PROVE  Goal
  BY <1>15, <1>0, <1>00 DEF TypeOK, ServeTypeOK, HandsTypeOK, StoreTypeOK, Creates,
      WorkerOf, Actors, NoRun, Runs, WorkerCreate, WorkerEnds
<1>16. ASSUME NEW p \in Procs, WorkerFinish(p)
       PROVE  Goal
  BY <1>16, <1>0, <1>00 DEF TypeOK, ServeTypeOK, HandsTypeOK, StoreTypeOK, Creates,
      WorkerOf, Actors, NoRun, Runs, WorkerFinish, WorkerEnds
<1>17. ASSUME NEW p \in Procs, WorkerPanic(p)
       PROVE  Goal
  BY <1>17, <1>0, <1>00 DEF TypeOK, ServeTypeOK, HandsTypeOK, StoreTypeOK, Creates,
      WorkerOf, Actors, NoRun, Runs, WorkerPanic
<1>18. ASSUME NEW p \in Procs, CollectFailed(p)
       PROVE  Goal
  BY <1>18, <1>0, <1>00 DEF TypeOK, ServeTypeOK, HandsTypeOK, StoreTypeOK, Creates,
      WorkerOf, Actors, NoRun, Runs, CollectFailed, WorkerGone, Collected
<1>19. ASSUME NEW p \in Procs, FinishFailed(p)
       PROVE  Goal
  BY <1>19, <1>0, <1>00 DEF TypeOK, ServeTypeOK, HandsTypeOK, StoreTypeOK, Creates,
      WorkerOf, Actors, NoRun, Runs, FinishFailed
<1>20. ASSUME NEW p \in Procs, FinishSuccess(p)
       PROVE  Goal
  BY <1>20, <1>0, <1>00 DEF TypeOK, ServeTypeOK, HandsTypeOK, StoreTypeOK, Creates,
      WorkerOf, Actors, NoRun, Runs, FinishSuccess, WorkerGone, Collected
<1>21. ASSUME NEW p \in Procs, Crash(p)
       PROVE  Goal
  BY <1>21, <1>0, <1>00 DEF TypeOK, ServeTypeOK, HandsTypeOK, StoreTypeOK, Creates,
      WorkerOf, Actors, NoRun, Runs, Crash
<1> QED
  BY <1>2, <1>3, <1>4, <1>5, <1>6, <1>7, <1>8, <1>9, <1>10, <1>11, <1>12, <1>13,
     <1>14, <1>15, <1>16, <1>17, <1>18, <1>19, <1>20, <1>21
  DEF Next, ServeStep, WorkerStep, DeleteStep, Actors

\* A running run goes on to list its file, unless the poll erases it.
LEMMA ListedAfter ==
  ASSUME Safe, WorkerInv, Next, NEW r \in Runs
  PROVE  /\ state[r] = "running" /\ listed[r] # "none"
         /\ state'[r] = "running" /\ r \notin exposed'
         => listed'[r] # "none"
<1> DEFINE Goal ==
         /\ state[r] = "running" /\ listed[r] # "none"
         /\ state'[r] = "running" /\ r \notin exposed'
         => listed'[r] # "none"
<1>0. TypeOK /\ Thread /\ InHandIsRunning
  BY DEF Safe
<1>1. ASSUME UNCHANGED <<state, listed, exposed>>
      PROVE  Goal
  BY <1>1
<1>2. ASSUME NEW p \in Procs, Leave(p) \/ Acquire(p) \/ SpawnWorker(p) \/ PollRead(p)
             \/ WorkerCreate(p) \/ WorkerEvent(p) \/ WorkerFinish(p) \/ WorkerPanic(p)
             \/ RetainSnapshot(p)
      PROVE  Goal
  BY <1>2, <1>1 DEF Leave, Acquire, SpawnWorker, PollRead, WorkerCreate, WorkerEvent,
      WorkerFinish, WorkerPanic, RetainSnapshot, store, rows
<1>3. ASSUME NEW p \in Procs, NEW how \in {"drain", "stop"}, RequestStop(p, how)
      PROVE  Goal
  BY <1>3, <1>1 DEF RequestStop, store, rows
<1>4. ASSUME NEW a \in Actors, DeleteNext(a)
      PROVE  Goal
  BY <1>4, <1>1 DEF DeleteNext, store, rows
<1>5. ASSUME NEW u \in Users, ImportCheck(u)
      PROVE  Goal
  BY <1>5, <1>1 DEF ImportCheck, store, rows
<1>6. ASSUME NEW s \in Schedules, Save(s) \/ DeleteSchedule(s)
      PROVE  Goal
  BY <1>6, <1>1 DEF Save, DeleteSchedule, save_schedule, rows, delete_schedule
<1>7. ASSUME Migrate \/ Clock
      PROVE  Goal
  BY <1>7, <1>1 DEF Migrate, Clock, migrate, rows
<1>8. ASSUME NEW place \in Paths, ForeignFile(place)
      PROVE  Goal
  BY <1>8, <1>1 DEF ForeignFile, store, rows
<1>9. ASSUME NEW p \in Procs, Recover(p)
      PROVE  Goal
  BY <1>9, <1>0 DEF TypeOK, ServeTypeOK, HandsTypeOK, StoreTypeOK, Actors, NoRun, Runs,
      Recover, recover, store, rows
<1>10. ASSUME NEW p \in Procs, EnqueueDue(p)
       PROVE  Goal
  BY <1>10, RowsAdded
<1>11. ASSUME NEW p \in Procs, Claim(p)
       PROVE  Goal
  BY <1>11, <1>0 DEF TypeOK, ServeTypeOK, HandsTypeOK, StoreTypeOK, Actors, NoRun, Runs,
      Claim, claim, store, rows
<1>12. ASSUME NEW p \in Procs, PollWrite(p)
       PROVE  Goal
  <2>1. CASE UNCHANGED store
    BY <2>1 DEF store, rows
  <2>2. CASE progress(job[p], poll[p]) /\
             exposed' = exposed \cup {x \in Runs : job[p] = x /\ poll[p] = "none" /\ listed[x] # "none"}
    BY <1>0, <2>2 DEF TypeOK, StoreTypeOK, progress
  <2> QED
    BY <1>12, <2>1, <2>2 DEF PollWrite
<1>13. ASSUME NEW p \in Procs, WorkerRecord(p)
       PROVE  Goal
  <2>1. CASE UNCHANGED store
    BY <2>1 DEF store, rows
  <2>2. CASE progress(job[p], "recorded")
    BY <1>0, <2>2 DEF TypeOK, StoreTypeOK, progress
  <2> QED
    BY <1>13, <2>1, <2>2 DEF WorkerRecord
<1>14. ASSUME NEW p \in Procs, CollectFailed(p)
       PROVE  Goal
  BY <1>14, <1>0 DEF TypeOK, ServeTypeOK, HandsTypeOK, StoreTypeOK, Actors, NoRun, Runs,
      CollectFailed, finish, store, rows, Collected
<1>15. ASSUME NEW p \in Procs, FinishFailed(p)
       PROVE  Goal
  <2>1. CASE UNCHANGED store
    BY <2>1 DEF store, rows
  <2>2. CASE finish(job[p], cstatus[p], cfile[p])
    <3>1. cstatus[p] # "running"
      BY <1>15, <1>0 DEF FinishFailed, Thread, ThreadOf, Final
    <3> QED
      BY <1>0, <2>2, <3>1 DEF TypeOK, StoreTypeOK, finish
  <2> QED
    BY <1>15, <2>1, <2>2 DEF FinishFailed
<1>16. ASSUME NEW p \in Procs, FinishSuccess(p)
       PROVE  Goal
  BY <1>16, <1>0 DEF TypeOK, ServeTypeOK, HandsTypeOK, StoreTypeOK, Actors, NoRun, Runs,
      FinishSuccess, finish, store, rows, Collected
<1>17. ASSUME NEW p \in Procs, RetainMark(p)
       PROVE  Goal
  BY <1>17, <1>0 DEF TypeOK, ServeTypeOK, HandsTypeOK, StoreTypeOK, Actors, NoRun, Runs,
      RetainMark, MarkDeleting, mark_deleting, store, rows
<1>18. ASSUME NEW p \in Procs, Crash(p)
       PROVE  Goal
  BY <1>18, <1>0 DEF TypeOK, ServeTypeOK, HandsTypeOK, StoreTypeOK, Actors, NoRun, Runs,
      Crash, store, rows
<1>19. ASSUME NEW a \in Actors, DeleteImported(a)
       PROVE  Goal
  <2>1. CASE UNCHANGED store
    BY <2>1 DEF store, rows
  <2>2. ASSUME NEW x, remove_run(x), state[r] = "running"
        PROVE  listed'[r] = listed[r]
    BY <1>0, <2>2 DEF TypeOK, StoreTypeOK, remove_run
  <2> QED
    BY <1>19, <2>1, <2>2 DEF DeleteImported
<1>20. ASSUME NEW a \in Actors, CleanupRemove(a)
       PROVE  Goal
  BY <1>20, <1>0 DEF TypeOK, ServeTypeOK, HandsTypeOK, StoreTypeOK, Actors, NoRun, Runs,
      CleanupRemove, AfterCleanup, finish, store, rows
<1>21. ASSUME NEW a \in Actors, DeleteSettle(a)
       PROVE  Goal
  <2>1. CASE UNCHANGED store
    BY <2>1 DEF store, rows
  <2>2. CASE remove_run(cur[a])
    BY <1>0, <2>2 DEF TypeOK, StoreTypeOK, remove_run
  <2>3. CASE deletion_failed(cur[a], cstatus[a], cfile[a])
    BY <1>0, <2>3 DEF TypeOK, StoreTypeOK, deletion_failed
  <2> QED
    BY <1>21, <2>1, <2>2, <2>3 DEF DeleteSettle
<1>22. ASSUME NEW u \in Users, NEW S \in SUBSET Runs, DeleteRuns(u, S)
       PROVE  Goal
  BY <1>22, <1>0 DEF TypeOK, ServeTypeOK, HandsTypeOK, StoreTypeOK, Actors, NoRun, Runs,
      DeleteRuns, MarkDeleting, mark_deleting
<1>23. ASSUME NEW u \in Users, ImportInsert(u)
       PROVE  Goal
  BY <1>23, <1>0 DEF TypeOK, ServeTypeOK, HandsTypeOK, StoreTypeOK, Actors, NoRun, Runs,
      ImportInsert, insert_completed
<1>24. ASSUME NEW u \in Users, CrashCommand(u)
       PROVE  Goal
  BY <1>24, <1>0 DEF TypeOK, ServeTypeOK, HandsTypeOK, StoreTypeOK, Actors, NoRun, Runs,
      CrashCommand, store, rows
<1>25. ASSUME NEW s \in Schedules \cup {"one-shot"}, RunNow(s)
       PROVE  Goal
  BY <1>25, RowsAdded
<1>26. ASSUME NEW x \in Runs, Cancel(x)
       PROVE  Goal
  BY <1>26, <1>0 DEF TypeOK, ServeTypeOK, HandsTypeOK, StoreTypeOK, Actors, NoRun, Runs,
      Cancel, cancel
<1> QED
  BY <1>2, <1>3, <1>4, <1>5, <1>6, <1>7, <1>8, <1>9, <1>10, <1>11, <1>12, <1>13,
     <1>14, <1>15, <1>16, <1>17, <1>18, <1>19, <1>20, <1>21, <1>22, <1>23, <1>24, <1>25,
     <1>26
  DEF Next, ServeStep, WorkerStep, DeleteStep, Actors

\* No cleanup begins that would remove a file another run lists.
LEMMA ThreatAfter ==
  ASSUME Safe, CopyInv, Next, NEW b \in Actors, NEW r \in Runs
  PROVE  listed[r] # "none" /\ r \in Present /\ Threatens(b, r)' => Threatens(b, r)
<1> DEFINE Goal ==
         listed[r] # "none" /\ r \in Present /\ Threatens(b, r)' => Threatens(b, r)
<1>0. TypeOK /\ Thread /\ InHandIsRunning
  BY DEF Safe
<1>1. ASSUME UNCHANGED <<path, stage, cur, cfile, shared>>
      PROVE  Goal
  BY <1>1 DEF Threatens
<1>2. ASSUME NEW p \in Procs, Leave(p) \/ Acquire(p) \/ Recover(p) \/ EnqueueDue(p)
             \/ Claim(p) \/ SpawnWorker(p) \/ PollRead(p) \/ PollWrite(p) \/ WorkerRecord(p)
             \/ WorkerCreate(p) \/ WorkerEvent(p) \/ WorkerFinish(p) \/ WorkerPanic(p)
             \/ RetainMark(p)
      PROVE  Goal
  BY <1>2, <1>1 DEF Leave, Acquire, Recover, EnqueueDue, Claim, SpawnWorker, PollRead,
      PollWrite, WorkerRecord, WorkerCreate, WorkerEvent, WorkerFinish, WorkerPanic,
      RetainMark, store, hands, recover, enqueue_due, insert_job, claim, progress,
      MarkDeleting, mark_deleting
<1>3. ASSUME NEW p \in Procs, NEW how \in {"drain", "stop"}, RequestStop(p, how)
      PROVE  Goal
  BY <1>3, <1>1 DEF RequestStop, store, hands
<1>4. ASSUME NEW a \in Actors, DeleteImported(a)
      PROVE  Goal
  BY <1>4, <1>1 DEF DeleteImported, remove_run, store
<1>5. ASSUME NEW u \in Users, NEW S \in SUBSET Runs, DeleteRuns(u, S)
      PROVE  Goal
  BY <1>5, <1>1 DEF DeleteRuns, MarkDeleting, mark_deleting
<1>6. ASSUME NEW s \in Schedules, Save(s) \/ DeleteSchedule(s)
      PROVE  Goal
  BY <1>6, <1>1 DEF Save, DeleteSchedule, save_schedule, hands, delete_schedule
<1>7. ASSUME NEW s \in Schedules \cup {"one-shot"}, RunNow(s)
      PROVE  Goal
  BY <1>7, <1>1 DEF RunNow, enqueue, insert_job, hands
<1>8. ASSUME NEW x \in Runs, Cancel(x)
      PROVE  Goal
  BY <1>8, <1>1 DEF Cancel, cancel, hands
<1>9. ASSUME Migrate \/ Clock
      PROVE  Goal
  BY <1>9, <1>1 DEF Migrate, Clock, migrate, hands
<1>10. ASSUME NEW place \in Paths, ForeignFile(place)
       PROVE  Goal
  BY <1>10, <1>1 DEF ForeignFile, store, hands
<1>11. ASSUME NEW p \in Procs, CollectFailed(p)
       PROVE  Goal
  <2>1. p \in Actors /\ stage[p] # "remove" /\ path' = path /\ cur' = [cur EXCEPT ![p] = job[p]]
    BY <1>11, <1>0 DEF Actors, Thread, ThreadOf, CollectFailed, Collected, store
  <2>2. CASE b = p
    <3>1. cur'[b] = job[p] /\ (stage'[b] = "remove" => CleanupSnapshot(p, job[p]))
      BY <1>11, <1>0, <2>1, <2>2 DEF TypeOK, HandsTypeOK, CollectFailed
    <3>2. CleanupSnapshot(p, job[p]) /\ SharedPath(job[p]) => shared'[b] = "yes"
      BY <1>0, <2>1, <2>2 DEF TypeOK, HandsTypeOK, CleanupSnapshot
    <3>3. listed[r] # "none" /\ r \in Present /\ job[p] # r /\ path[job[p]] = path[r] => SharedPath(job[p])
      BY DEF SharedPath
    <3> QED
      BY <2>1, <3>1, <3>2, <3>3 DEF Threatens
  <2>3. CASE b # p
    BY <1>11, <1>0, <2>1, <2>3 DEF TypeOK, HandsTypeOK, CollectFailed, CleanupSnapshot, Threatens
  <2> QED
    BY <2>2, <2>3
<1>12. ASSUME NEW p \in Procs, FinishFailed(p)
       PROVE  Goal
  BY <1>12, <1>0 DEF TypeOK, ServeTypeOK, HandsTypeOK, StoreTypeOK, Threatens, Thread,
      ThreadOf, SharedPath, Actors, NoRun, Runs, FinishFailed, finish, store, Forget
<1>13. ASSUME NEW p \in Procs, FinishSuccess(p)
       PROVE  Goal
  BY <1>13, <1>0 DEF TypeOK, ServeTypeOK, HandsTypeOK, StoreTypeOK, Threatens, Thread,
      ThreadOf, SharedPath, Actors, NoRun, Runs, FinishSuccess, finish, store, Collected
<1>14. ASSUME NEW p \in Procs, RetainSnapshot(p)
       PROVE  Goal
  BY <1>14, <1>0 DEF TypeOK, ServeTypeOK, HandsTypeOK, StoreTypeOK, Threatens, Thread,
      ThreadOf, SharedPath, Actors, NoRun, Runs, RetainSnapshot, Forget, store
<1>15. ASSUME NEW p \in Procs, Crash(p)
       PROVE  Goal
  BY <1>15, <1>0 DEF TypeOK, ServeTypeOK, HandsTypeOK, StoreTypeOK, Threatens, Thread,
      ThreadOf, SharedPath, Actors, NoRun, Runs, Crash, Forget, store
<1>16. ASSUME NEW a \in Actors, DeleteNext(a)
       PROVE  Goal
  BY <1>16, <1>0 DEF TypeOK, ServeTypeOK, HandsTypeOK, StoreTypeOK, Threatens, Thread,
      ThreadOf, SharedPath, Actors, NoRun, Runs, DeleteNext, CleanupSnapshot, store
<1>17. ASSUME NEW a \in Actors, CleanupRemove(a)
       PROVE  Goal
  BY <1>17, <1>0 DEF TypeOK, ServeTypeOK, HandsTypeOK, StoreTypeOK, Threatens, Thread,
      ThreadOf, SharedPath, Actors, NoRun, Runs, CleanupRemove, AfterCleanup, finish, store
<1>18. ASSUME NEW a \in Actors, DeleteSettle(a)
       PROVE  Goal
  BY <1>18, <1>0 DEF TypeOK, ServeTypeOK, HandsTypeOK, StoreTypeOK, Threatens, Thread,
      ThreadOf, SharedPath, Actors, NoRun, Runs, DeleteSettle, remove_run, store,
      deletion_failed, Forget
<1>19. ASSUME NEW u \in Users, ImportCheck(u)
       PROVE  Goal
  BY <1>19, <1>0 DEF TypeOK, ServeTypeOK, HandsTypeOK, StoreTypeOK, Threatens, Thread,
      ThreadOf, SharedPath, Actors, NoRun, Runs, ImportCheck, store
<1>20. ASSUME NEW u \in Users, ImportInsert(u)
       PROVE  Goal
  BY <1>20, <1>0 DEF TypeOK, ServeTypeOK, HandsTypeOK, StoreTypeOK, Threatens, Thread,
      ThreadOf, SharedPath, Actors, NoRun, Runs, ImportInsert, insert_completed, Forget
<1>21. ASSUME NEW u \in Users, CrashCommand(u)
       PROVE  Goal
  BY <1>21, <1>0 DEF TypeOK, ServeTypeOK, HandsTypeOK, StoreTypeOK, Threatens, Thread,
      ThreadOf, SharedPath, Actors, NoRun, Runs, CrashCommand, Forget, store
<1> QED
  BY <1>2, <1>3, <1>4, <1>5, <1>6, <1>7, <1>8, <1>9, <1>10, <1>11, <1>12, <1>13,
     <1>14, <1>15, <1>16, <1>17, <1>18, <1>19, <1>20, <1>21
  DEF Next, ServeStep, WorkerStep, DeleteStep, Actors

\* A file goes with its run, or by the cleanup of another.
LEMMA FsAfter ==
  ASSUME Safe, CopyInv, Next, NEW r \in Runs
  PROVE  /\ path' = path
         /\ \/ fs[path[r]] = r => fs'[path[r]] = r
            \/ \E a \in Actors : Threatens(a, r) \/ Removes(a, r)
<1> DEFINE Goal ==
         /\ path' = path
         /\ \/ fs[path[r]] = r => fs'[path[r]] = r
            \/ \E a \in Actors : Threatens(a, r) \/ Removes(a, r)
<1>0. TypeOK /\ Thread /\ InHandIsRunning
  BY DEF Safe
<1>1. ASSUME UNCHANGED <<path, fs>>
      PROVE  Goal
  BY <1>1
<1>2. ASSUME NEW p \in Procs, Leave(p) \/ Acquire(p) \/ Recover(p) \/ EnqueueDue(p)
             \/ Claim(p) \/ SpawnWorker(p) \/ PollRead(p) \/ PollWrite(p) \/ WorkerRecord(p)
             \/ WorkerEvent(p) \/ WorkerFinish(p) \/ WorkerPanic(p) \/ CollectFailed(p)
             \/ FinishFailed(p) \/ FinishSuccess(p) \/ RetainSnapshot(p) \/ RetainMark(p)
             \/ Crash(p)
      PROVE  Goal
  BY <1>2, <1>1 DEF Leave, Acquire, Recover, EnqueueDue, Claim, SpawnWorker, PollRead,
      PollWrite, WorkerRecord, WorkerEvent, WorkerFinish, WorkerPanic, CollectFailed,
      FinishFailed, FinishSuccess, RetainSnapshot, RetainMark, Crash, store, recover,
      enqueue_due, insert_job, claim, progress, finish, MarkDeleting, mark_deleting
<1>3. ASSUME NEW p \in Procs, NEW how \in {"drain", "stop"}, RequestStop(p, how)
      PROVE  Goal
  BY <1>3, <1>1 DEF RequestStop, store
<1>4. ASSUME NEW a \in Actors, DeleteImported(a) \/ DeleteNext(a) \/ DeleteSettle(a)
      PROVE  Goal
  BY <1>4, <1>1 DEF DeleteImported, DeleteNext, DeleteSettle, remove_run, store,
      deletion_failed
<1>5. ASSUME NEW u \in Users, NEW S \in SUBSET Runs, DeleteRuns(u, S)
      PROVE  Goal
  BY <1>5, <1>1 DEF DeleteRuns, MarkDeleting, mark_deleting
<1>6. ASSUME NEW u \in Users, ImportCheck(u) \/ ImportInsert(u) \/ CrashCommand(u)
      PROVE  Goal
  BY <1>6, <1>1 DEF ImportCheck, ImportInsert, CrashCommand, store, insert_completed
<1>7. ASSUME NEW s \in Schedules, Save(s) \/ DeleteSchedule(s)
      PROVE  Goal
  BY <1>7, <1>1 DEF Save, DeleteSchedule, save_schedule, delete_schedule
<1>8. ASSUME NEW s \in Schedules \cup {"one-shot"}, RunNow(s)
      PROVE  Goal
  BY <1>8, <1>1 DEF RunNow, enqueue, insert_job
<1>9. ASSUME NEW x \in Runs, Cancel(x)
      PROVE  Goal
  BY <1>9, <1>1 DEF Cancel, cancel
<1>10. ASSUME Migrate \/ Clock
       PROVE  Goal
  BY <1>10, <1>1 DEF Migrate, Clock, migrate
<1>11. ASSUME NEW p \in Procs, WorkerCreate(p)
       PROVE  Goal
  <2>1. fs' = fs \/ (fs[path[job[p]]] = NoFile /\ fs' = [fs EXCEPT ![path[job[p]]] = job[p]])
    BY <1>11 DEF WorkerCreate
  <2>2. path' = path /\ r # NoFile
    BY <1>11, <1>0 DEF WorkerCreate, store, NoFile, Runs
  <2> QED
    BY <1>0, <2>1, <2>2 DEF TypeOK, StoreTypeOK
<1>12. ASSUME NEW a \in Actors, CleanupRemove(a)
       PROVE  Goal
  <2>1. path' = path
    BY <1>12 DEF CleanupRemove, store
  <2>2. CASE fs' = fs
    BY <2>1, <2>2
  <2>3. CASE cfile[a] = "owned" /\ shared[a] = "no" /\ fs' = [fs EXCEPT ![path[cur[a]]] = NoFile]
    <3>1. stage[a] = "remove"
      BY <1>12 DEF CleanupRemove
    <3>2. CASE path[cur[a]] # path[r]
      BY <1>0, <2>1, <2>3, <3>2 DEF TypeOK
    <3>3. CASE path[cur[a]] = path[r] /\ cur[a] # r
      BY <2>1, <2>3, <3>1, <3>3 DEF Threatens
    <3>4. CASE cur[a] = r
      <4>1. fs'[path[r]] = NoFile
        BY <1>0, <2>3, <3>4 DEF TypeOK, StoreTypeOK
      <4> QED
        BY <1>12, <2>1, <3>1, <3>4, <4>1 DEF Removes
    <3> QED
      BY <3>2, <3>3, <3>4
  <2> QED
    BY <1>12, <2>2, <2>3 DEF CleanupRemove
<1>13. ASSUME NEW place \in Paths, ForeignFile(place)
       PROVE  Goal
  <2>1. fs[place] = NoFile /\ fs' = [fs EXCEPT ![place] = Foreign]
    BY <1>13 DEF ForeignFile
  <2>2. path' = path /\ r # NoFile
    BY <1>13, <1>0 DEF ForeignFile, store, NoFile, Runs
  <2> QED
    BY <1>0, <2>1, <2>2 DEF TypeOK, StoreTypeOK
<1> QED
  BY <1>2, <1>3, <1>4, <1>5, <1>6, <1>7, <1>8, <1>9, <1>10, <1>11, <1>12, <1>13
  DEF Next, ServeStep, WorkerStep, DeleteStep, Actors

\* A process that has its file as its own had before, has just created it, or cleaned up.
LEMMA OwningAfter ==
  ASSUME Safe, WorkerInv, Next, NEW q \in Procs, NEW r \in Runs
  PROVE  job'[q] = r /\ Owning(q)' =>
           job[q] = r /\ (Owning(q) \/ Creates(q) \/ CopyAt(q, r, cstatus[q], "owned"))
<1> DEFINE Goal ==
         job'[q] = r /\ Owning(q)' =>
           job[q] = r /\ (Owning(q) \/ Creates(q) \/ CopyAt(q, r, cstatus[q], "owned"))
<1>0. TypeOK /\ ThreadOf(q) /\ WorkerOf(q)
  BY DEF Safe, Thread, WorkerInv
<1>1. ASSUME UNCHANGED <<pc, job, worker, wfile, view, cfile>>
      PROVE  Goal
  BY <1>1 DEF Owning
<1>2. ASSUME NEW p \in Procs, Leave(p) \/ PollRead(p) \/ PollWrite(p)
      PROVE  Goal
  BY <1>2, <1>1 DEF Leave, PollRead, PollWrite, hands
<1>3. ASSUME NEW p \in Procs, NEW how \in {"drain", "stop"}, RequestStop(p, how)
      PROVE  Goal
  BY <1>3, <1>1 DEF RequestStop, hands
<1>4. ASSUME NEW u \in Users, NEW S \in SUBSET Runs, DeleteRuns(u, S)
      PROVE  Goal
  BY <1>4, <1>1 DEF DeleteRuns, procs
<1>5. ASSUME NEW u \in Users, ImportCheck(u)
      PROVE  Goal
  BY <1>5, <1>1 DEF ImportCheck, procs
<1>6. ASSUME NEW s \in Schedules, Save(s) \/ DeleteSchedule(s)
      PROVE  Goal
  BY <1>6, <1>1 DEF Save, DeleteSchedule, procs, hands
<1>7. ASSUME NEW s \in Schedules \cup {"one-shot"}, RunNow(s)
      PROVE  Goal
  BY <1>7, <1>1 DEF RunNow, procs, hands
<1>8. ASSUME NEW x \in Runs, Cancel(x)
      PROVE  Goal
  BY <1>8, <1>1 DEF Cancel, procs, hands
<1>9. ASSUME Migrate \/ Clock
      PROVE  Goal
  BY <1>9, <1>1 DEF Migrate, Clock, procs, hands
<1>10. ASSUME NEW place \in Paths, ForeignFile(place)
       PROVE  Goal
  BY <1>10, <1>1 DEF ForeignFile, procs, hands
<1>11. ASSUME NEW p \in Procs, Acquire(p)
       PROVE  Goal
  BY <1>11, <1>0 DEF TypeOK, ServeTypeOK, HandsTypeOK, Owning, ThreadOf, WorkerOf, Creates,
      Actors, NoRun, Runs, Acquire, GoTo, hands
<1>12. ASSUME NEW p \in Procs, Recover(p)
       PROVE  Goal
  BY <1>12, <1>0 DEF TypeOK, ServeTypeOK, HandsTypeOK, Owning, ThreadOf, WorkerOf, Creates,
      Actors, NoRun, Runs, Recover, GoTo, hands
<1>13. ASSUME NEW p \in Procs, EnqueueDue(p)
       PROVE  Goal
  BY <1>13, <1>0 DEF TypeOK, ServeTypeOK, HandsTypeOK, Owning, ThreadOf, WorkerOf, Creates,
      Actors, NoRun, Runs, EnqueueDue, GoTo, hands
<1>14. ASSUME NEW p \in Procs, Claim(p)
       PROVE  Goal
  BY <1>14, <1>0 DEF TypeOK, ServeTypeOK, HandsTypeOK, Owning, ThreadOf, WorkerOf, Creates,
      Actors, NoRun, Runs, Claim, GoTo, hands
<1>15. ASSUME NEW p \in Procs, SpawnWorker(p)
       PROVE  Goal
  BY <1>15, <1>0 DEF TypeOK, ServeTypeOK, HandsTypeOK, Owning, ThreadOf, WorkerOf, Creates,
      Actors, NoRun, Runs, SpawnWorker, GoTo, hands
<1>16. ASSUME NEW p \in Procs, WorkerRecord(p)
       PROVE  Goal
  BY <1>16, <1>0 DEF TypeOK, ServeTypeOK, HandsTypeOK, Owning, ThreadOf, WorkerOf, Creates,
      Actors, NoRun, Runs, WorkerRecord, WorkerEnds, hands
<1>17. ASSUME NEW p \in Procs, WorkerCreate(p)
       PROVE  Goal
  BY <1>17, <1>0 DEF TypeOK, ServeTypeOK, HandsTypeOK, Owning, ThreadOf, WorkerOf, Creates,
      Actors, NoRun, Runs, WorkerCreate, WorkerEnds, hands
<1>18. ASSUME NEW p \in Procs, WorkerEvent(p)
       PROVE  Goal
  BY <1>18, <1>0 DEF TypeOK, ServeTypeOK, HandsTypeOK, Owning, ThreadOf, WorkerOf, Creates,
      Actors, NoRun, Runs, WorkerEvent, hands
<1>19. ASSUME NEW p \in Procs, WorkerFinish(p)
       PROVE  Goal
  BY <1>19, <1>0 DEF TypeOK, ServeTypeOK, HandsTypeOK, Owning, ThreadOf, WorkerOf, Creates,
      Actors, NoRun, Runs, WorkerFinish, WorkerEnds, hands
<1>20. ASSUME NEW p \in Procs, WorkerPanic(p)
       PROVE  Goal
  BY <1>20, <1>0 DEF TypeOK, ServeTypeOK, HandsTypeOK, Owning, ThreadOf, WorkerOf, Creates,
      Actors, NoRun, Runs, WorkerPanic, hands
<1>21. ASSUME NEW p \in Procs, CollectFailed(p)
       PROVE  Goal
  BY <1>21, <1>0 DEF TypeOK, ServeTypeOK, HandsTypeOK, Owning, ThreadOf, WorkerOf, Creates,
      Actors, NoRun, Runs, CollectFailed, WorkerGone, GoTo, Collected
<1>22. ASSUME NEW p \in Procs, FinishFailed(p)
       PROVE  Goal
  BY <1>22, <1>0 DEF TypeOK, ServeTypeOK, HandsTypeOK, Owning, ThreadOf, WorkerOf, Creates,
      Actors, NoRun, Runs, FinishFailed, GoTo, Forget
<1>23. ASSUME NEW p \in Procs, FinishSuccess(p)
       PROVE  Goal
  BY <1>23, <1>0 DEF TypeOK, ServeTypeOK, HandsTypeOK, Owning, ThreadOf, WorkerOf, Creates,
      Actors, NoRun, Runs, FinishSuccess, WorkerGone, GoTo, Collected
<1>24. ASSUME NEW p \in Procs, RetainSnapshot(p)
       PROVE  Goal
  BY <1>24, <1>0 DEF TypeOK, ServeTypeOK, HandsTypeOK, Owning, ThreadOf, WorkerOf, Creates,
      Actors, NoRun, Runs, RetainSnapshot, GoTo, Forget
<1>25. ASSUME NEW p \in Procs, RetainMark(p)
       PROVE  Goal
  BY <1>25, <1>0 DEF TypeOK, ServeTypeOK, HandsTypeOK, Owning, ThreadOf, WorkerOf, Creates,
      Actors, NoRun, Runs, RetainMark, GoTo
<1>26. ASSUME NEW p \in Procs, Crash(p)
       PROVE  Goal
  BY <1>26, <1>0 DEF TypeOK, ServeTypeOK, HandsTypeOK, Owning, ThreadOf, WorkerOf, Creates,
      Actors, NoRun, Runs, Crash, GoTo, Forget
<1>27. ASSUME NEW a \in Actors, DeleteImported(a)
       PROVE  Goal
  BY <1>27, <1>0 DEF TypeOK, ServeTypeOK, HandsTypeOK, Owning, ThreadOf, WorkerOf, Creates,
      Actors, NoRun, Runs, DeleteImported, DeletionEnds
<1>28. ASSUME NEW a \in Actors, DeleteNext(a)
       PROVE  Goal
  BY <1>28, <1>0 DEF TypeOK, ServeTypeOK, HandsTypeOK, Owning, ThreadOf, WorkerOf, Creates,
      Actors, NoRun, Runs, DeleteNext, procs
<1>29. ASSUME NEW a \in Actors, CleanupRemove(a)
       PROVE  Goal
  <2>1. UNCHANGED <<job, worker, wfile, view>>
    BY <1>29 DEF CleanupRemove
  <2>2. CASE q = a /\ pc[q] = "clean"
    <3>1. cur[q] = job[q] /\ stage[q] = "remove"
      BY <1>0, <2>2 DEF WorkerOf
    <3>2. cfile'[q] = "owned" => cfile[q] = "owned"
      BY <1>29, <1>0, <2>2 DEF TypeOK, HandsTypeOK, CleanupRemove
    <3> QED
      BY <2>1, <3>1, <3>2 DEF Owning, CopyAt
  <2>3. CASE q # a \/ pc[q] # "clean"
    <3>1. pc'[q] = "finish" => pc[q] = "finish" /\ q # a
      BY <1>29, <1>0, <2>3 DEF TypeOK, ServeTypeOK, ThreadOf, CleanupRemove, AfterCleanup, GoTo
    <3>2. q # a => cfile'[q] = cfile[q]
      BY <1>29, <1>0 DEF TypeOK, HandsTypeOK, CleanupRemove, Actors
    <3> QED
      BY <2>1, <3>1, <3>2 DEF Owning
  <2> QED
    BY <2>2, <2>3
<1>30. ASSUME NEW a \in Actors, DeleteSettle(a)
       PROVE  Goal
  BY <1>30, <1>0 DEF TypeOK, ServeTypeOK, HandsTypeOK, Owning, ThreadOf, WorkerOf, Creates,
      Actors, NoRun, Runs, DeleteSettle, Forget, DeletionEnds
<1>31. ASSUME NEW u \in Users, ImportInsert(u)
       PROVE  Goal
  BY <1>31, <1>0 DEF TypeOK, ServeTypeOK, HandsTypeOK, Owning, ThreadOf, WorkerOf, Creates,
      Actors, NoRun, Runs, ImportInsert, Forget, procs
<1>32. ASSUME NEW u \in Users, CrashCommand(u)
       PROVE  Goal
  BY <1>32, <1>0 DEF TypeOK, ServeTypeOK, HandsTypeOK, Owning, ThreadOf, WorkerOf, Creates,
      Actors, NoRun, Runs, CrashCommand, Forget, procs
<1> QED
  BY <1>2, <1>3, <1>4, <1>5, <1>6, <1>7, <1>8, <1>9, <1>10, <1>11, <1>12, <1>13,
     <1>14, <1>15, <1>16, <1>17, <1>18, <1>19, <1>20, <1>21, <1>22, <1>23, <1>24, <1>25,
     <1>26, <1>27, <1>28, <1>29, <1>30, <1>31, <1>32
  DEF Next, ServeStep, WorkerStep, DeleteStep, Actors

\* A row says that the run owns its file after somebody had it so.
LEMMA OwnedAfter ==
  ASSUME Safe, WorkerInv, Next, NEW r \in Runs
  PROVE  listed'[r] = "owned" => Claimed(r)
<1>0. TypeOK /\ Thread /\ InHandIsRunning
  BY DEF Safe
<1>1. ASSUME UNCHANGED <<listed>>
      PROVE  listed'[r] = "owned" => Claimed(r)
  BY <1>1 DEF Claimed
<1>2. ASSUME NEW p \in Procs, Leave(p) \/ Acquire(p) \/ Recover(p) \/ EnqueueDue(p)
             \/ Claim(p) \/ SpawnWorker(p) \/ PollRead(p) \/ WorkerCreate(p) \/ WorkerEvent(p)
             \/ WorkerFinish(p) \/ WorkerPanic(p) \/ RetainSnapshot(p) \/ RetainMark(p)
             \/ Crash(p)
      PROVE  listed'[r] = "owned" => Claimed(r)
  BY <1>2, <1>1 DEF Leave, Acquire, Recover, EnqueueDue, Claim, SpawnWorker, PollRead,
      WorkerCreate, WorkerEvent, WorkerFinish, WorkerPanic, RetainSnapshot, RetainMark,
      Crash, store, rows, recover, enqueue_due, insert_job, claim, MarkDeleting,
      mark_deleting
<1>3. ASSUME NEW p \in Procs, NEW how \in {"drain", "stop"}, RequestStop(p, how)
      PROVE  listed'[r] = "owned" => Claimed(r)
  BY <1>3, <1>1 DEF RequestStop, store, rows
<1>4. ASSUME NEW a \in Actors, DeleteNext(a)
      PROVE  listed'[r] = "owned" => Claimed(r)
  BY <1>4, <1>1 DEF DeleteNext, store, rows
<1>5. ASSUME NEW u \in Users, NEW S \in SUBSET Runs, DeleteRuns(u, S)
      PROVE  listed'[r] = "owned" => Claimed(r)
  BY <1>5, <1>1 DEF DeleteRuns, MarkDeleting, mark_deleting
<1>6. ASSUME NEW u \in Users, ImportCheck(u) \/ CrashCommand(u)
      PROVE  listed'[r] = "owned" => Claimed(r)
  BY <1>6, <1>1 DEF ImportCheck, CrashCommand, store, rows
<1>7. ASSUME NEW s \in Schedules, Save(s) \/ DeleteSchedule(s)
      PROVE  listed'[r] = "owned" => Claimed(r)
  BY <1>7, <1>1 DEF Save, DeleteSchedule, save_schedule, rows, delete_schedule
<1>8. ASSUME NEW s \in Schedules \cup {"one-shot"}, RunNow(s)
      PROVE  listed'[r] = "owned" => Claimed(r)
  BY <1>8, <1>1 DEF RunNow, enqueue, insert_job
<1>9. ASSUME NEW x \in Runs, Cancel(x)
      PROVE  listed'[r] = "owned" => Claimed(r)
  BY <1>9, <1>1 DEF Cancel, cancel
<1>10. ASSUME Migrate \/ Clock
       PROVE  listed'[r] = "owned" => Claimed(r)
  BY <1>10, <1>1 DEF Migrate, Clock, migrate, rows
<1>11. ASSUME NEW place \in Paths, ForeignFile(place)
       PROVE  listed'[r] = "owned" => Claimed(r)
  BY <1>11, <1>1 DEF ForeignFile, store, rows
<1>12. ASSUME NEW p \in Procs, PollWrite(p)
       PROVE  listed'[r] = "owned" => Claimed(r)
  <2>1. CASE UNCHANGED store
    BY <2>1 DEF Claimed, store, rows
  <2>2. CASE progress(job[p], poll[p])
    <3>1. poll[p] = "owned" => Owning(p)
      BY DEF WorkerInv, WorkerOf, Owning
    <3> QED
      BY <1>0, <2>2, <3>1 DEF TypeOK, StoreTypeOK, progress, Claimed
  <2> QED
    BY <1>12, <2>1, <2>2 DEF PollWrite
<1>13. ASSUME NEW p \in Procs, WorkerRecord(p)
       PROVE  listed'[r] = "owned" => Claimed(r)
  <2>1. CASE UNCHANGED store
    BY <2>1 DEF Claimed, store, rows
  <2>2. CASE progress(job[p], "recorded")
    BY <1>0, <2>2 DEF TypeOK, StoreTypeOK, progress, Claimed
  <2> QED
    BY <1>13, <2>1, <2>2 DEF WorkerRecord
<1>14. ASSUME NEW p \in Procs, CollectFailed(p)
       PROVE  listed'[r] = "owned" => Claimed(r)
  BY <1>14, <1>0 DEF TypeOK, ServeTypeOK, HandsTypeOK, StoreTypeOK, Claimed, Owning, Actors,
      NoRun, Runs, CollectFailed, finish, store, rows, Collected
<1>15. ASSUME NEW p \in Procs, FinishFailed(p)
       PROVE  listed'[r] = "owned" => Claimed(r)
  <2>1. CASE UNCHANGED store
    BY <2>1 DEF Claimed, store, rows
  <2>2. CASE finish(job[p], cstatus[p], cfile[p])
    BY <1>15, <1>0, <2>2 DEF TypeOK, StoreTypeOK, FinishFailed, finish, Claimed, Owning
  <2> QED
    BY <1>15, <2>1, <2>2 DEF FinishFailed
<1>16. ASSUME NEW p \in Procs, FinishSuccess(p)
       PROVE  listed'[r] = "owned" => Claimed(r)
  <2>1. CASE UNCHANGED store
    BY <2>1 DEF Claimed, store, rows
  <2>2. CASE finish(job[p], "success", wfile[p])
    BY <1>0, <2>2 DEF TypeOK, StoreTypeOK, finish, Claimed, Owning
  <2> QED
    BY <1>16, <2>1, <2>2 DEF FinishSuccess
<1>17. ASSUME NEW a \in Actors, DeleteImported(a)
       PROVE  listed'[r] = "owned" => Claimed(r)
  <2>1. CASE UNCHANGED store
    BY <2>1 DEF Claimed, store, rows
  <2>2. ASSUME NEW x, remove_run(x)
        PROVE  listed'[r] = "owned" => listed[r] = "owned"
    BY <1>0, <2>2 DEF TypeOK, StoreTypeOK, remove_run
  <2> QED
    BY <1>17, <2>1, <2>2 DEF DeleteImported, Claimed
<1>18. ASSUME NEW a \in Actors, CleanupRemove(a)
       PROVE  listed'[r] = "owned" => Claimed(r)
  BY <1>18, <1>0 DEF TypeOK, ServeTypeOK, HandsTypeOK, StoreTypeOK, Claimed, Owning, Actors,
      NoRun, Runs, CleanupRemove, AfterCleanup, finish, store, rows
<1>19. ASSUME NEW a \in Actors, DeleteSettle(a)
       PROVE  listed'[r] = "owned" => Claimed(r)
  <2>1. CASE UNCHANGED store
    BY <2>1 DEF Claimed, store, rows
  <2>2. CASE remove_run(cur[a])
    BY <1>0, <2>2 DEF TypeOK, StoreTypeOK, remove_run, Claimed
  <2>3. CASE stage[a] = "restore" /\ deletion_failed(cur[a], cstatus[a], cfile[a])
    <3>1. listed'[r] = listed[r] \/ (cur[a] = r /\ listed'[r] = cfile[a])
      BY <1>0, <2>3 DEF TypeOK, StoreTypeOK, deletion_failed
    <3>2. cur[a] = r /\ cfile[a] = "owned" => CopyAt(a, r, cstatus[a], "owned")
      BY <2>3 DEF CopyAt
    <3>3. cstatus[a] \in Statuses
      BY <1>0 DEF TypeOK, HandsTypeOK
    <3> QED
      BY <3>1, <3>2, <3>3 DEF Claimed
  <2> QED
    BY <1>19, <2>1, <2>2, <2>3 DEF DeleteSettle
<1>20. ASSUME NEW u \in Users, ImportInsert(u)
       PROVE  listed'[r] = "owned" => Claimed(r)
  BY <1>20, <1>0 DEF TypeOK, ServeTypeOK, HandsTypeOK, StoreTypeOK, Claimed, Owning, Actors,
      NoRun, Runs, ImportInsert, insert_completed
<1> QED
  BY <1>2, <1>3, <1>4, <1>5, <1>6, <1>7, <1>8, <1>9, <1>10, <1>11, <1>12, <1>13,
     <1>14, <1>15, <1>16, <1>17, <1>18, <1>19, <1>20
  DEF Next, ServeStep, WorkerStep, DeleteStep, Actors

\* A foreign file was there before, or another program has just put it there.
LEMMA ForeignAfter ==
  ASSUME Safe, Next, NEW r \in Runs
  PROVE  /\ path' = path
         /\ fs'[path[r]] = Foreign => fs[path[r]] = Foreign \/ ForeignFile(path[r])
<1> DEFINE Goal ==
         /\ path' = path
         /\ fs'[path[r]] = Foreign => fs[path[r]] = Foreign \/ ForeignFile(path[r])
<1>0. TypeOK /\ Thread /\ InHandIsRunning
  BY DEF Safe
<1>1. ASSUME UNCHANGED <<path, fs>>
      PROVE  Goal
  BY <1>1
<1>2. ASSUME NEW p \in Procs, Leave(p) \/ Acquire(p) \/ Recover(p) \/ EnqueueDue(p)
             \/ Claim(p) \/ SpawnWorker(p) \/ PollRead(p) \/ PollWrite(p) \/ WorkerRecord(p)
             \/ WorkerEvent(p) \/ WorkerFinish(p) \/ WorkerPanic(p) \/ CollectFailed(p)
             \/ FinishFailed(p) \/ FinishSuccess(p) \/ RetainSnapshot(p) \/ RetainMark(p)
             \/ Crash(p)
      PROVE  Goal
  BY <1>2, <1>1 DEF Leave, Acquire, Recover, EnqueueDue, Claim, SpawnWorker, PollRead,
      PollWrite, WorkerRecord, WorkerEvent, WorkerFinish, WorkerPanic, CollectFailed,
      FinishFailed, FinishSuccess, RetainSnapshot, RetainMark, Crash, store, recover,
      enqueue_due, insert_job, claim, progress, finish, MarkDeleting, mark_deleting
<1>3. ASSUME NEW p \in Procs, NEW how \in {"drain", "stop"}, RequestStop(p, how)
      PROVE  Goal
  BY <1>3, <1>1 DEF RequestStop, store
<1>4. ASSUME NEW a \in Actors, DeleteImported(a) \/ DeleteNext(a) \/ DeleteSettle(a)
      PROVE  Goal
  BY <1>4, <1>1 DEF DeleteImported, DeleteNext, DeleteSettle, remove_run, store,
      deletion_failed
<1>5. ASSUME NEW u \in Users, NEW S \in SUBSET Runs, DeleteRuns(u, S)
      PROVE  Goal
  BY <1>5, <1>1 DEF DeleteRuns, MarkDeleting, mark_deleting
<1>6. ASSUME NEW u \in Users, ImportCheck(u) \/ ImportInsert(u) \/ CrashCommand(u)
      PROVE  Goal
  BY <1>6, <1>1 DEF ImportCheck, ImportInsert, CrashCommand, store, insert_completed
<1>7. ASSUME NEW s \in Schedules, Save(s) \/ DeleteSchedule(s)
      PROVE  Goal
  BY <1>7, <1>1 DEF Save, DeleteSchedule, save_schedule, delete_schedule
<1>8. ASSUME NEW s \in Schedules \cup {"one-shot"}, RunNow(s)
      PROVE  Goal
  BY <1>8, <1>1 DEF RunNow, enqueue, insert_job
<1>9. ASSUME NEW x \in Runs, Cancel(x)
      PROVE  Goal
  BY <1>9, <1>1 DEF Cancel, cancel
<1>10. ASSUME Migrate \/ Clock
       PROVE  Goal
  BY <1>10, <1>1 DEF Migrate, Clock, migrate
<1>11. ASSUME NEW p \in Procs, WorkerCreate(p)
       PROVE  Goal
  <2>1. fs' = fs \/ fs' = [fs EXCEPT ![path[job[p]]] = job[p]]
    BY <1>11 DEF WorkerCreate
  <2>2. path' = path /\ job[p] # Foreign
    BY <1>11, <1>0, StoreAssumption DEF TypeOK, ServeTypeOK, WorkerCreate, store, Foreign, Runs, NoRun
  <2> QED
    BY <1>0, <2>1, <2>2 DEF TypeOK, StoreTypeOK
<1>12. ASSUME NEW a \in Actors, CleanupRemove(a)
       PROVE  Goal
  <2>1. fs' = fs \/ fs' = [fs EXCEPT ![path[cur[a]]] = NoFile]
    BY <1>12 DEF CleanupRemove
  <2>2. path' = path /\ NoFile # Foreign
    BY <1>12, StoreAssumption DEF CleanupRemove, store, NoFile, Foreign
  <2> QED
    BY <1>0, <2>1, <2>2 DEF TypeOK, StoreTypeOK
<1>13. ASSUME NEW place \in Paths, ForeignFile(place)
       PROVE  Goal
  <2>1. path' = path /\ fs' = [fs EXCEPT ![place] = Foreign]
    BY <1>13 DEF ForeignFile, store
  <2> QED
    BY <1>13, <1>0, <2>1 DEF TypeOK, StoreTypeOK
<1> QED
  BY <1>2, <1>3, <1>4, <1>5, <1>6, <1>7, <1>8, <1>9, <1>10, <1>11, <1>12, <1>13
  DEF Next, ServeStep, WorkerStep, DeleteStep, Actors

\* Only a cleanup, an export and another program touch files.
LEMMA FileSteps ==
  ASSUME Next
  PROVE  fs' = fs \/ FilesTouched
<1>1. ASSUME UNCHANGED <<fs>>
      PROVE  fs' = fs \/ FilesTouched
  BY <1>1
<1>2. ASSUME NEW p \in Procs, Leave(p) \/ Acquire(p) \/ Recover(p) \/ EnqueueDue(p)
             \/ Claim(p) \/ SpawnWorker(p) \/ PollRead(p) \/ PollWrite(p) \/ WorkerRecord(p)
             \/ WorkerEvent(p) \/ WorkerFinish(p) \/ WorkerPanic(p) \/ CollectFailed(p)
             \/ FinishFailed(p) \/ FinishSuccess(p) \/ RetainSnapshot(p) \/ RetainMark(p)
             \/ Crash(p)
      PROVE  fs' = fs \/ FilesTouched
  BY <1>2, <1>1 DEF Leave, Acquire, Recover, EnqueueDue, Claim, SpawnWorker, PollRead,
      PollWrite, WorkerRecord, WorkerEvent, WorkerFinish, WorkerPanic, CollectFailed,
      FinishFailed, FinishSuccess, RetainSnapshot, RetainMark, Crash
<1>3. ASSUME NEW p \in Procs, NEW how \in {"drain", "stop"}, RequestStop(p, how)
      PROVE  fs' = fs \/ FilesTouched
  BY <1>3, <1>1 DEF RequestStop
<1>4. ASSUME NEW a \in Actors, DeleteImported(a) \/ DeleteNext(a) \/ DeleteSettle(a)
      PROVE  fs' = fs \/ FilesTouched
  BY <1>4, <1>1 DEF DeleteImported, DeleteNext, DeleteSettle
<1>5. ASSUME NEW u \in Users, NEW S \in SUBSET Runs, DeleteRuns(u, S)
      PROVE  fs' = fs \/ FilesTouched
  BY <1>5, <1>1 DEF DeleteRuns
<1>6. ASSUME NEW u \in Users, ImportCheck(u) \/ ImportInsert(u) \/ CrashCommand(u)
      PROVE  fs' = fs \/ FilesTouched
  BY <1>6, <1>1 DEF ImportCheck, ImportInsert, CrashCommand
<1>7. ASSUME NEW s \in Schedules, Save(s) \/ DeleteSchedule(s)
      PROVE  fs' = fs \/ FilesTouched
  BY <1>7, <1>1 DEF Save, DeleteSchedule
<1>8. ASSUME NEW s \in Schedules \cup {"one-shot"}, RunNow(s)
      PROVE  fs' = fs \/ FilesTouched
  BY <1>8, <1>1 DEF RunNow
<1>9. ASSUME NEW x \in Runs, Cancel(x)
      PROVE  fs' = fs \/ FilesTouched
  BY <1>9, <1>1 DEF Cancel
<1>10. ASSUME Migrate \/ Clock
       PROVE  fs' = fs \/ FilesTouched
  BY <1>10, <1>1 DEF Migrate, Clock
<1>11. ASSUME NEW p \in Procs, WorkerCreate(p)
       PROVE  fs' = fs \/ FilesTouched
  BY <1>11 DEF FilesTouched
<1>12. ASSUME NEW a \in Actors, CleanupRemove(a)
       PROVE  fs' = fs \/ FilesTouched
  BY <1>12 DEF FilesTouched
<1>13. ASSUME NEW place \in Paths, ForeignFile(place)
       PROVE  fs' = fs \/ FilesTouched
  BY <1>13 DEF FilesTouched
<1> QED
  BY <1>2, <1>3, <1>4, <1>5, <1>6, <1>7, <1>8, <1>9, <1>10, <1>11, <1>12, <1>13
  DEF Next, ServeStep, WorkerStep, DeleteStep, Actors

-----------------------------------------------------------------------------
(* Deletions *)

\* A process that begins to clean up after a run has it in hand, and it is running.
LEMMA CleansRunning ==
  ASSUME Safe, NEW a, NEW r \in Runs, Cleans(a, r)
  PROVE  a \in Procs /\ lock = a /\ state[r] = "running" /\ pc[a] = "export" /\ outcome[a] # "success"
BY DEF Cleans, CollectFailed, Collected, Safe, InHandIsRunning, NoRun, Runs

\* An actor that marks a run, and leaves it plain, finds it ended and in nobody's hands.
LEMMA MarksEnded ==
  ASSUME Safe, NEW a \in Actors, NEW r \in Runs, MarksRun(a, r), Plain(r)'
  PROVE  /\ state[r] \in Final \cup {"deleting"} /\ state'[r] = "deleting"
         /\ status'[r] = status[r] /\ listed'[r] = listed[r]
         /\ \A b \in Actors : ~Holds(b, r) /\ (b # a => ~Holds(b, r)')
<1> PICK S \in SUBSET Runs : r \in S /\ MarkDeleting(a, S)
  BY DEF MarksRun
<1>1. /\ state'[r] = "deleting" /\ status'[r] = status[r] /\ listed'[r] = listed[r]
      /\ state[r] \in Final \cup {"deleting"}
  BY Marked DEF InState
<1>2. Held(r) = {}
  BY Marked DEF Plain
<1>3. \A b \in Actors : ~Holds(b, r)
  BY <1>2 DEF Held, Holds, Busy
<1>4. \A b \in Actors : b # a => todo'[b] = todo[b]
  BY Marked
<1>5. UNCHANGED <<stage, cur>>
  BY DEF MarksRun
<1> QED
  BY <1>1, <1>3, <1>4, <1>5 DEF Holds

\* Who holds a run that is running is the process that cleans up after it.
LEMMA HolderRunning ==
  ASSUME Safe, HeldInv, NEW a \in Actors, NEW r \in Runs, Holds(a, r),
         state[r] \notin Final \cup {"deleting", "gone"}
  PROVE  a \in Procs /\ lock = a /\ pc[a] = "clean" /\ state[r] = "running"
BY DEF HeldInv, HeldBy, Safe, InHandIsRunning, NoRun, Runs

\* No second actor gets hold of a run that stays plain.
LEMMA OneHolderKept ==
  ASSUME Safe, WorkerInv, CopyInv, HeldInv, Next, NEW r \in Runs, Plain(r)', OneHolder(r)
  PROVE  OneHolder(r)'
<1> SUFFICES ASSUME NEW a \in Actors, NEW b \in Actors, Holds(a, r)', Holds(b, r)'
             PROVE  a = b
  BY DEF OneHolder, Actors
<1>1. Holds(a, r) \/ Cleans(a, r) \/ MarksRun(a, r)
  BY HoldsAfter
<1>2. Holds(b, r) \/ Cleans(b, r) \/ MarksRun(b, r)
  BY HoldsAfter
<1>3. CASE MarksRun(a, r) \/ MarksRun(b, r)
  BY <1>3, MarksEnded
<1>4. CASE Cleans(a, r) \/ Cleans(b, r)
  <2>1. state[r] = "running"
    BY <1>4, CleansRunning
  <2>2. (Holds(a, r) => lock = a) /\ (Holds(b, r) => lock = b)
    BY <2>1, HolderRunning DEF Final
  <2> QED
    BY <1>1, <1>2, <1>3, <2>2, CleansRunning
<1>5. CASE Holds(a, r) /\ Holds(b, r)
  BY <1>5 DEF OneHolder
<1> QED
  BY <1>1, <1>2, <1>3, <1>4, <1>5

\* No run becomes a success in somebody's hands.
LEMMA UnsettledKept ==
  ASSUME Safe, WorkerInv, CopyInv, HeldInv, Next, NEW r \in Runs, Plain(r)', OneHolder(r), Unsettled(r)
  PROVE  Unsettled(r)'
<1> SUFFICES ASSUME NEW b \in Actors, Holds(b, r)', state'[r] = "success"
             PROVE  FALSE
  BY DEF Unsettled, Actors
<1>1. Holds(b, r) \/ Cleans(b, r)
  BY HoldsAfter, MarksEnded
<1>2. Stays(r) \/ Imported(r) \/ (\E a \in Actors : Restores(a, r)) \/ (\E p \in Procs : Succeeds(p, r))
  BY RowAfter, MarksEnded DEF RowMoves
<1>3. CASE Stays(r)
  BY <1>1, <1>3, CleansRunning DEF Stays, Unsettled
<1>4. CASE Imported(r)
  BY <1>1, <1>4, CleansRunning, HolderRunning DEF Imported, Final
<1>5. ASSUME NEW p \in Procs, Succeeds(p, r)
      PROVE  FALSE
  <2>1. lock = p /\ state[r] = "running" /\ pc[p] = "export" /\ outcome[p] = "success"
    BY <1>5 DEF Succeeds, FinishSuccess, Collected, Safe, InHandIsRunning, NoRun, Runs
  <2> QED
    BY <1>1, <2>1, CleansRunning, HolderRunning DEF Final
<1>6. ASSUME NEW a \in Actors, Restores(a, r)
      PROVE  FALSE
  <2>1. Holds(a, r) /\ state[r] = "deleting"
    BY <1>6 DEF Restores, Holds, Busy
  <2>2. b = a
    BY <1>1, <2>1, CleansRunning DEF OneHolder
  <2>3. CopyOf(a) /\ TypeOK
    BY DEF CopyInv, Safe
  <2>4. stage'[a] = "idle" /\ todo'[a] \subseteq todo[a]
    BY <1>6, <2>3 DEF Restores, DeleteSettle, TypeOK, HandsTypeOK
  <2>5. \A c \in todo[a] : c.run # r
    BY <1>6, <2>3 DEF Restores, CopyOf, Busy
  <2> QED
    BY <2>2, <2>4, <2>5 DEF Holds, Busy
<1> QED
  BY <1>2, <1>3, <1>4, <1>5, <1>6

\* The copies of a run that is being deleted go on to say what its row says.
LEMMA TrueCopiesKept ==
  ASSUME Safe, WorkerInv, CopyInv, HeldInv, Next, NEW r \in Runs, Plain(r)', TrueCopies(r)
  PROVE  TrueCopies(r)'
<1> SUFFICES ASSUME NEW b \in Actors, NEW st \in Statuses, NEW file \in Marks,
                    state'[r] = "deleting", CopyAt(b, r, st, file)'
             PROVE  st = status'[r] /\ file = listed'[r]
  BY DEF TrueCopies, Actors, Statuses, Marks, Final
<1>1. \/ CopyAt(b, r, st, file) \/ Cleans(b, r)
      \/ MarksRun(b, r) /\ st = status[r] /\ file = listed[r]
  BY CopiesAfter
<1>2. Stays(r) \/ (\E a \in Actors : MarksRun(a, r))
  <2>1. \A a \in Actors : Restores(a, r) => state'[r] # "deleting"
    BY DEF Restores, Safe, EndedCopies, CopiesOf, Final
  <2>2. ASSUME NEW p \in Procs, Succeeds(p, r)
        PROVE  FALSE
    <3>1. job[p] = r /\ state[r] = "running"
      BY <2>2 DEF Succeeds, Safe, InHandIsRunning, NoRun, Runs
    <3>2. CASE UNCHANGED store
      BY <3>1, <3>2 DEF store, rows
    <3>3. CASE finish(job[p], "success", wfile[p])
      BY <3>1, <3>3 DEF finish, Safe, TypeOK, StoreTypeOK
    <3> QED
      BY <2>2, <3>2, <3>3 DEF Succeeds, FinishSuccess
  <2> QED
    BY <2>1, <2>2, RowAfter DEF RowMoves, Imported
<1>3. CASE MarksRun(b, r) /\ st = status[r] /\ file = listed[r]
  BY <1>3, MarksEnded
<1>4. ASSUME NEW a \in Actors, MarksRun(a, r), CopyAt(b, r, st, file)
      PROVE  FALSE
  <2>1. ~Holds(b, r)
    BY <1>4, MarksEnded
  <2> QED
    BY <1>4, <2>1 DEF Holds, CopyAt, Busy
<1>5. ASSUME NEW a \in Actors, MarksRun(a, r), Cleans(b, r)
      PROVE  FALSE
  BY <1>5, MarksEnded, CleansRunning DEF Final
<1>6. CASE Stays(r) /\ (CopyAt(b, r, st, file) \/ Cleans(b, r))
  BY <1>6, CleansRunning DEF Stays, TrueCopies
<1> QED
  BY <1>1, <1>2, <1>3, <1>4, <1>5, <1>6

\* Every step keeps what deletions rely on.
LEMMA HoldKept ==
  ASSUME Safe, WorkerInv, CopyInv, HeldInv, HoldInv, Next
  PROVE  HoldInv'
<1> SUFFICES ASSUME NEW r \in Runs, Plain(r)'
             PROVE  OneHolder(r)' /\ Unsettled(r)' /\ TrueCopies(r)'
  BY DEF HoldInv, Runs
<1>1. OneHolder(r) /\ Unsettled(r) /\ TrueCopies(r)
  BY PlainBefore DEF HoldInv
<1> QED
  BY <1>1, OneHolderKept, UnsettledKept, TrueCopiesKept

-----------------------------------------------------------------------------
(* Files *)

\* A run that has or gets its file, in a step that leaves it plain.
LEMMA GoodAfter ==
  ASSUME Safe, WorkerInv, SettledRows, CopyInv, HeldInv, HoldInv, Next, NEW r \in Runs,
         Plain(r)', plan'[r] # "imported", Good(r)'
  PROVE  \/ Good(r) /\ listed'[r] = listed[r] /\ plan[r] # "imported"
         \/ \E p \in Procs : Succeeds(p, r)
<1>1. Plain(r) /\ OneHolder(r) /\ TrueCopies(r)
  BY PlainBefore DEF HoldInv
<1>2. state'[r] \in {"success", "deleting"}
  BY DEF Good
<1>3. Stays(r) \/ (\E a \in Actors : MarksRun(a, r) \/ Restores(a, r)) \/ (\E p \in Procs : Succeeds(p, r))
  BY <1>2, RowAfter DEF RowMoves, Imported
<1>4. CASE Stays(r)
  <2>1. \A a \in Actors : state'[r] = "deleting" /\ Drops(a, r) => Drops(a, r)'
    BY DropsAfter
  <2> QED
    BY <1>4, <2>1 DEF Stays, Good, Actors
<1>5. ASSUME NEW a \in Actors, MarksRun(a, r)
      PROVE  Good(r) /\ listed'[r] = listed[r] /\ plan[r] # "imported"
  <2>1. /\ state[r] \in Final \cup {"deleting"} /\ state'[r] = "deleting" /\ status'[r] = status[r]
        /\ listed'[r] = listed[r] /\ \A b \in Actors : ~Holds(b, r)
    BY <1>5, MarksEnded
  <2>2. plan' = plan
    BY <1>5, Marked DEF MarksRun
  <2>3. state[r] \in Final => status[r] = state[r]
    BY DEF SettledRows, SettledOf
  <2>4. \A b \in Actors : ~Drops(b, r)
    BY <2>1 DEF Holds, Drops, Busy
  <2> QED
    BY <2>1, <2>2, <2>3, <2>4 DEF Good
<1>6. ASSUME NEW a \in Actors, Restores(a, r)
      PROVE  Good(r) /\ listed'[r] = listed[r] /\ plan[r] # "imported"
  <2>1. cstatus[a] \in Statuses /\ cfile[a] \in Marks /\ cstatus[a] # "deleting"
    BY DEF Safe, TypeOK, HandsTypeOK, Statuses, Final
  <2>2. CopyAt(a, r, cstatus[a], cfile[a]) /\ Holds(a, r)
    BY <1>6 DEF Restores, CopyAt, Holds, Busy
  <2>3. state[r] = "deleting" /\ status[r] = cstatus[a] /\ listed[r] = cfile[a]
    BY <1>1, <1>6, <2>1, <2>2 DEF Restores, TrueCopies
  <2>4. state'[r] = "success" /\ cstatus[a] = "success" /\ listed'[r] = cfile[a]
    BY <1>2, <1>6, <2>1 DEF Restores
  <2>5. \A b \in Actors : ~Drops(b, r)
    <3>1. \A b \in Actors : Drops(b, r) => Holds(b, r)
      BY DEF Drops, Holds, Busy
    <3>2. ~Drops(a, r)
      BY <1>6 DEF Restores, Drops
    <3> QED
      BY <1>1, <2>2, <3>1, <3>2 DEF OneHolder
  <2>6. plan' = plan
    BY <1>6, <2>3 DEF Restores, DeleteSettle, deletion_failed, remove_run, store, rows
  <2> QED
    BY <2>3, <2>4, <2>5, <2>6 DEF Good
<1> QED
  BY <1>3, <1>4, <1>5, <1>6

\* The plan of a run in hand does not change.
LEMMA PlanKept ==
  ASSUME Safe, Next, NEW r \in Runs, state[r] # "absent"
  PROVE  plan'[r] = plan[r]
<1> USE DEF Safe, TypeOK, StoreTypeOK, FreshIds
<1>0. RowStep
  BY RowSteps
<1>1. CASE EnqueueDueOp
  <2> PICK S \in SUBSET Due : \E f \in [(issued + 1)..(issued + Cardinality(S)) -> S] : enqueue_due(S, f)
    BY <1>1 DEF EnqueueDueOp
  <2> PICK owner \in [(issued + 1)..(issued + Cardinality(S)) -> S] : enqueue_due(S, owner)
    OBVIOUS
  <2>1. Cardinality(S) \in Nat
    BY EnqueueDueFacts
  <2> QED
    BY <2>1 DEF enqueue_due, insert_job, Runs
<1>2. CASE EnqueueOp
  BY <1>2 DEF EnqueueOp, enqueue, insert_job, Runs
<1>3. CASE ImportOp
  BY <1>3 DEF ImportOp, insert_completed, Runs
<1>4. CASE NoRowOp \/ ClaimOp \/ CancelOp \/ FinishOp \/ RecoverOp \/ MarkOp \/ RemoveOp \/ RestoreOp
  BY <1>4 DEF NoRowOp, ClaimOp, claim, CancelOp, cancel, FinishOp, finish, RecoverOp, recover,
      MarkOp, mark_deleting, RemoveOp, remove_run, RestoreOp, deletion_failed
<1> QED
  BY <1>0, <1>1, <1>2, <1>3, <1>4 DEF RowStep

\* What a run had before a step in which it is about to have its file, or has it.
LEMMA LiveAfter ==
  ASSUME Safe, WorkerInv, SettledRows, CopyInv, HeldInv, HoldInv, Next, NEW r \in Runs,
         Plain(r)', plan'[r] # "imported", Making(r)' \/ Made(r)' \/ Good(r)'
  PROVE  /\ plan[r] # "imported" /\ r \in Present
         /\ \/ Making(r) \/ Made(r) \/ Good(r)
            \/ \E p \in Procs : job[p] = r /\ Records(p)
<1>1. ASSUME NEW p \in Procs, job[p] = r
      PROVE  plan[r] # "imported" /\ r \in Present
  <2>1. state[r] = "running"
    BY <1>1 DEF Safe, InHandIsRunning, NoRun, Runs
  <2> QED
    BY <2>1, PlanKept DEF Present
<1>2. CASE Making(r)'
  <2>1. PICK p \in Procs : job'[p] = r /\ worker'[p] = "create"
    BY <1>2 DEF Making
  <2>2. job[p] = r /\ (worker[p] = "create" \/ Records(p))
    BY <2>1, MakingAfter
  <2> QED
    BY <2>2, <1>1 DEF Making
<1>3. CASE Made(r)'
  <2>1. PICK p \in Procs : job'[p] = r /\ (worker'[p] = "write" \/ wfile'[p] = "owned")
    BY <1>3 DEF Made
  <2>2. job[p] = r /\ (worker[p] = "write" \/ wfile[p] = "owned" \/ Creates(p))
    BY <2>1, MadeAfter
  <2> QED
    BY <2>2, <1>1 DEF Made, Making, Creates
<1>4. CASE Good(r)'
  <2>1. CASE Good(r) /\ plan[r] # "imported"
    BY <2>1 DEF Good, Present
  <2>2. ASSUME NEW p \in Procs, Succeeds(p, r)
        PROVE  job[p] = r /\ wfile[p] = "owned"
    BY <2>2 DEF Succeeds, FinishSuccess, Collected, WorkerInv, WorkerOf
  <2> QED
    BY <1>1, <1>4, <2>1, <2>2, GoodAfter DEF Made
<1> QED
  BY <1>2, <1>3, <1>4

\* The file of a run that has it is removed by no step that leaves the run with it.
LEMMA NotRemoved ==
  ASSUME Safe, WorkerInv, SettledRows, CopyInv, HeldInv, HoldInv, Next, NEW r \in Runs,
         Plain(r)', Made(r) \/ (Good(r) /\ Good(r)'), fs[path[r]] = r,
         \A a \in Actors : ~Threatens(a, r)
  PROVE  path' = path /\ fs'[path[r]] = r
<1> SUFFICES ASSUME NEW a \in Actors, Removes(a, r)
             PROVE  FALSE
  BY FsAfter
<1>1. stage[a] = "remove" /\ cur[a] = r /\ Holds(a, r)
  BY DEF Removes, Holds, Busy
<1>2. CASE Made(r)
  <2>1. PICK p \in Procs : job[p] = r /\ (worker[p] = "write" \/ wfile[p] = "owned")
    BY <1>2 DEF Made
  <2>2. lock = p /\ state[r] = "running" /\ pc[p] = "export"
    BY <2>1 DEF Safe, InHandIsRunning, NoRun, Runs, WorkerInv, WorkerOf
  <2> QED
    BY <1>1, <2>2, HolderRunning DEF Final
<1>3. CASE Good(r) /\ Good(r)'
  <2>1. state[r] = "deleting"
    <3>1. Plain(r) /\ Unsettled(r)
      BY PlainBefore DEF HoldInv
    <3> QED
      BY <1>1, <1>3, <3>1 DEF Unsettled, Good
  <2>2. state' = state /\ cur' = cur
    BY DEF Removes, CleanupRemove, store, rows
  <2>3. ~(a \in Procs /\ pc[a] = "clean")
    BY <1>1, <2>1 DEF WorkerInv, WorkerOf, Safe, InHandIsRunning, NoRun, Runs
  <2>4. AfterCleanup(a, "ok")
    <3>1. fs'[path[r]] = NoFile /\ fs[path[r]] # NoFile
      BY DEF Removes, NoFile, Runs
    <3> QED
      BY <1>1, <3>1 DEF Removes, CleanupRemove
  <2>5. stage'[a] = "drop"
    BY <2>3, <2>4 DEF AfterCleanup, Safe, TypeOK, HandsTypeOK
  <2>6. Drops(a, r)'
    BY <1>1, <2>2, <2>5 DEF Drops
  <2> QED
    BY <1>3, <2>1, <2>2, <2>6 DEF Good, Actors
<1> QED
  BY <1>2, <1>3

\* Every step keeps the files of the runs that have them.
LEMMA FileKept ==
  ASSUME Safe, WorkerInv, SettledRows, CopyInv, HeldInv, HoldInv, FileInv, Next
  PROVE  FileInv'
<1> SUFFICES ASSUME NEW r \in Runs, Plain(r)', plan'[r] # "imported"
             PROVE  Kept(r)'
  BY DEF FileInv, Runs
<1>1. plan[r] # "imported" => Kept(r)
  BY PlainBefore DEF FileInv
<1>2. ASSUME NEW p \in Procs, Succeeds(p, r)
      PROVE  Made(r) /\ listed'[r] = "owned"
  BY <1>2 DEF Succeeds, FinishSuccess, Collected, WorkerInv, WorkerOf, Made
<1>3. ASSUME Making(r)' \/ Made(r)' \/ Good(r)'
      PROVE  listed'[r] # "none" /\ \A a \in Actors : ~Threatens(a, r)'
  <2>1. CASE Making(r) \/ Made(r) \/ Good(r)
    <3>1. plan[r] # "imported" /\ r \in Present
      BY <1>3, LiveAfter
    <3>2. listed[r] # "none" /\ \A a \in Actors : ~Threatens(a, r)
      BY <1>1, <2>1, <3>1 DEF Kept
    <3>3. \A a \in Actors : ~Threatens(a, r)'
      BY <3>1, <3>2, ThreatAfter
    <3>4. CASE Good(r)'
      BY <1>2, <3>2, <3>3, <3>4, GoodAfter
    <3>5. CASE Making(r)' \/ Made(r)'
      <4>1. PICK p \in Procs : job'[p] = r /\ job[p] = r
        BY <3>5, MakingAfter, MadeAfter DEF Making, Made
      <4>2. state[r] = "running" /\ state'[r] = "running"
        BY <4>1, InHandStep DEF Safe, InHandIsRunning, NoRun, Runs
      <4> QED
        BY <3>2, <3>3, <4>2, ListedAfter DEF Plain
    <3> QED
      BY <1>3, <3>3, <3>4, <3>5
  <2>2. ASSUME NEW p \in Procs, job[p] = r, Records(p)
        PROVE  listed'[r] # "none" /\ \A a \in Actors : ~Threatens(a, r)'
    <3>1. ~BeingRemoved(path[r])
      BY <2>2 DEF Records, Plain
    <3> QED
      BY <2>2, <3>1 DEF Records, BeingRemoved, Threatens
  <2> QED
    BY <1>3, <2>1, <2>2, LiveAfter
<1>4. ASSUME Made(r)' \/ Good(r)'
      PROVE  fs'[path'[r]] = r
  <2>1. plan[r] # "imported"
    BY <1>4, LiveAfter
  <2>2. CASE Made(r) \/ (Good(r) /\ Good(r)')
    BY <1>1, <2>1, <2>2, NotRemoved DEF Kept
  <2>3. ASSUME NEW p \in Procs, job[p] = r, Creates(p)
        PROVE  fs'[path'[r]] = r
    <3>1. path' = path
      BY FsAfter
    <3> QED
      BY <2>3, <3>1 DEF Creates, Safe, TypeOK, StoreTypeOK
  <2>4. CASE Made(r)'
    BY <2>2, <2>3, <2>4, MadeAfter DEF Made
  <2>5. CASE Good(r)'
    BY <1>2, <2>2, <2>5, GoodAfter
  <2> QED
    BY <1>4, <2>4, <2>5
<1>5. ASSUME Good(r)'
      PROVE  listed'[r] = "owned"
  <2>1. CASE Good(r) /\ listed'[r] = listed[r] /\ plan[r] # "imported"
    BY <1>1, <2>1 DEF Kept
  <2> QED
    BY <1>2, <1>5, <2>1, GoodAfter
<1> QED
  BY <1>3, <1>4, <1>5 DEF Kept, Actors

\* No step leaves a foreign file at the path of a run that somebody has it is its own.
LEMMA ClaimKept ==
  ASSUME Safe, WorkerInv, CopyInv, ClaimInv, Next
  PROVE  ClaimInv'
<1> SUFFICES ASSUME NEW r \in Runs, Claimed(r)', fs'[path'[r]] = Foreign
             PROVE  FALSE
  BY DEF ClaimInv, Runs
<1>1. path' = path /\ (fs[path[r]] = Foreign \/ ForeignFile(path[r]))
  BY ForeignAfter
<1>2. CASE ForeignFile(path[r])
  <2>1. UNCHANGED <<listed, pc, job, worker, wfile, view, stage, cur, cstatus, cfile, todo>>
    BY <1>2 DEF ForeignFile, store, rows, procs, hands
  <2>2. Claimed(r)
    BY <2>1 DEF Claimed, Owning, CopyAt, Actors, Statuses
  <2>3. /\ listed[r] # "owned" /\ Held(r) = {}
        /\ \A p \in Procs : job[p] = r => ~Owning(p)
    BY <1>2 DEF ForeignFile
  <2>4. \A a \in Actors, st \in Statuses : ~CopyAt(a, r, st, "owned")
    BY <2>3 DEF CopyAt, Held
  <2> QED
    BY <2>2, <2>3, <2>4 DEF Claimed
<1>3. CASE fs[path[r]] = Foreign
  <2>1. ~Claimed(r)
    BY <1>3 DEF ClaimInv
  <2>2. listed'[r] # "owned"
    BY <2>1, OwnedAfter
  <2>3. ASSUME NEW p \in Procs, job'[p] = r, Owning(p)'
        PROVE  FALSE
    <3>1. job[p] = r /\ (Owning(p) \/ Creates(p) \/ CopyAt(p, r, cstatus[p], "owned"))
      BY <2>3, OwningAfter
    <3>2. p \in Actors /\ cstatus[p] \in Statuses
      BY DEF Actors, Safe, TypeOK, HandsTypeOK
    <3>3. ~Creates(p)
      BY <1>1, <3>1, StoreAssumption DEF Creates, Safe, TypeOK, StoreTypeOK, Foreign, Runs
    <3> QED
      BY <2>1, <3>1, <3>2, <3>3 DEF Claimed
  <2>4. ASSUME NEW a \in Actors, NEW st \in Statuses, CopyAt(a, r, st, "owned")'
        PROVE  FALSE
    <3>1. \/ CopyAt(a, r, st, "owned")
          \/ Cleans(a, r) /\ "owned" = wfile[a]
          \/ listed[r] = "owned"
      BY <2>4, CopiesAfter DEF Marks
    <3>2. Cleans(a, r) /\ "owned" = wfile[a] => Claimed(r)
      BY DEF Cleans, Claimed, Owning
    <3> QED
      BY <2>1, <3>1, <3>2 DEF Claimed
  <2> QED
    BY <2>2, <2>3, <2>4 DEF Claimed, Actors, Statuses
<1> QED
  BY <1>1, <1>2, <1>3

-----------------------------------------------------------------------------
(* The theorems *)

LEMMA FilesInit == Init => FilesSafe
<1> SUFFICES ASSUME Init PROVE FilesSafe
  OBVIOUS
<1>1. Safe
  BY SafeInit
<1>2. WorkerInv /\ SettledRows /\ CopyInv
  BY DEF Init, StoreInit, WorkerInv, WorkerOf, SettledRows, SettledOf, CopyInv, CopyOf, Actors, Busy, Final
<1>3. \A a \in Actors, r \in Runs : ~Holds(a, r)
  BY DEF Init, Holds, Actors, Busy
<1>4. HeldInv /\ HoldInv
  BY <1>3 DEF Init, StoreInit, HeldInv, HeldBy, HoldInv, OneHolder, Unsettled, TrueCopies
<1>5. \A r \in Runs : ~Making(r) /\ ~Made(r) /\ ~Good(r)
  BY DEF Init, StoreInit, Making, Made, Good
<1>6. FileInv
  BY <1>5 DEF FileInv, Kept
<1>7. ClaimInv
  BY <1>1, StoreAssumption DEF Init, ClaimInv, Safe, TypeOK, StoreTypeOK, NoFile, Foreign
<1> QED
  BY <1>1, <1>2, <1>4, <1>6, <1>7 DEF FilesSafe

LEMMA FilesStep == FilesSafe /\ [Next]_vars => FilesSafe'
<1>1. ASSUME FilesSafe, Next
      PROVE  FilesSafe'
  <2> USE <1>1 DEF FilesSafe
  <2>1. Safe'
    BY SafeStep
  <2>2. WorkerInv' /\ CopyInv' /\ HeldInv'
    BY WorkerKept, CopyKept, HeldKept DEF WorkerInv, CopyInv, HeldInv, Actors, Runs
  <2>3. SettledRows'
    BY SettledKept, RowSteps
  <2>4. HoldInv' /\ FileInv' /\ ClaimInv'
    BY HoldKept, FileKept, ClaimKept
  <2> QED
    BY <2>1, <2>2, <2>3, <2>4
<1>2. ASSUME FilesSafe, UNCHANGED vars
      PROVE  FilesSafe'
  <2> USE <1>2 DEF FilesSafe
  <2>1. Safe'
    BY SafeStep
  <2>2. UNCHANGED <<path, state, status, listed, plan, pc, job, worker, wfile, view, poll, outcome>>
        /\ UNCHANGED <<fs, stage, cur, cstatus, cfile, shared, todo, exposed>>
    BY DEF vars, store, rows, procs, hands
  <2>3. WorkerInv' /\ CopyInv' /\ HeldInv' /\ SettledRows'
    BY <2>2 DEF WorkerInv, WorkerOf, CopyInv, CopyOf, HeldInv, HeldBy, Holds, SettledRows, SettledOf
  <2>4. HoldInv'
    BY <2>2 DEF HoldInv, Plain, OneHolder, Unsettled, TrueCopies, CopyAt, Holds
  <2>5. FileInv'
    BY <2>2 DEF FileInv, Plain, Kept, Making, Made, Good, Drops, Threatens
  <2>6. ClaimInv'
    BY <2>2 DEF ClaimInv, Claimed, Owning, CopyAt
  <2> QED
    BY <2>1, <2>3, <2>4, <2>5, <2>6
<1> QED
  BY <1>1, <1>2

LEMMA AlwaysFilesSafe == Spec => []FilesSafe
<1> QED
  BY FilesInit, FilesStep, PTL DEF Spec

\* A backup reported as successful has its file, for any number of processes, commands,
\* runs and shared paths and any order of exports, deletions, retention, crashes and
\* recovery, unless the run met one of the races that exposed names.
THEOREM SuccessFile == Spec => []SuccessHasFile
<1>1. FilesSafe => SuccessHasFile
  <2> SUFFICES ASSUME FilesSafe, NEW r \in Runs, state[r] = "success", plan[r] # "imported", r \notin exposed
               PROVE  listed[r] = "owned" /\ fs[path[r]] = r
    BY DEF SuccessHasFile
  <2>1. Plain(r) /\ Good(r)
    BY DEF Plain, Good
  <2> QED
    BY <2>1 DEF FilesSafe, FileInv, Kept
<1> QED
  BY <1>1, AlwaysFilesSafe, PTL

\* No cleanup, deletion or import removes a file that another program made, also not
\* one at a path that runs share, and one that came between a record and the creation.
THEOREM ForeignStays == Spec => ForeignFileStays
<1>1. ASSUME FilesSafe, [Next]_vars
      PROVE  [\A place \in Paths : fs[place] = Foreign => fs'[place] = Foreign]_vars
  <2> SUFFICES ASSUME NEW place \in Paths, Next, fs[place] = Foreign
               PROVE  fs'[place] = Foreign
    BY <1>1
  <2>1. Foreign # NoFile /\ TypeOK
    BY <1>1, StoreAssumption DEF Foreign, NoFile, FilesSafe, Safe
  <2>2. ASSUME NEW a \in Actors, CleanupRemove(a)
        PROVE  fs'[place] = Foreign
    <3>1. CASE fs' = fs
      BY <3>1
    <3>2. CASE cfile[a] = "owned" /\ fs' = [fs EXCEPT ![path[cur[a]]] = NoFile]
      <4>1. stage[a] = "remove" /\ cur[a] \in Runs /\ cstatus[a] \in Statuses
        BY <1>1, <2>1, <2>2 DEF CleanupRemove, FilesSafe, CopyInv, CopyOf, Busy, TypeOK, HandsTypeOK
      <4>2. Claimed(cur[a])
        BY <3>2, <4>1 DEF Claimed, CopyAt
      <4>3. path[cur[a]] # place
        BY <1>1, <4>1, <4>2 DEF FilesSafe, ClaimInv
      <4> QED
        BY <2>1, <3>2, <4>3 DEF TypeOK
    <3> QED
      BY <2>2, <3>1, <3>2 DEF CleanupRemove
  <2>3. ASSUME NEW p \in Procs, WorkerCreate(p)
        PROVE  fs'[place] = Foreign
    BY <2>1, <2>3 DEF WorkerCreate, TypeOK
  <2>4. ASSUME NEW x \in Paths, ForeignFile(x)
        PROVE  fs'[place] = Foreign
    BY <2>1, <2>4 DEF ForeignFile, TypeOK
  <2> QED
    BY <2>2, <2>3, <2>4, FileSteps DEF FilesTouched
<1> QED
  BY <1>1, AlwaysFilesSafe, PTL DEF Spec, ForeignFileStays

=============================================================================
