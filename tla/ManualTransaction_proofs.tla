--------------------- MODULE ManualTransaction_proofs ----------------------
(***************************************************************************)
(* Proofs about ManualTransaction, for any number of requests and batches. *)
(***************************************************************************)
EXTENDS ManualTransaction, TLAPS

\* An actor that has the session or waits for its connection, or the guard of a
\* dropped execute that has not looked yet.
Engaged(a) == pc[a] \notin {"new", "done", "stopped", "guardLock"}
Executor(a) == a \in Requests /\ mode[a] = "execute"
\* The disconnect found the session busy: it will only close the connection.
Discards(a) == a = Disconnector /\ a \in unfit

\* The session was begun once, and the disconnect ends its lifecycle before it looks
\* for the session.
PhaseInv ==
  /\ opening = "new" => txn = "none"
  /\ opening # "installed" => sess = "none" /\ sent = <<>> /\ replies = <<>>
  /\ pc[Disconnector] # "new" => lifecycle = "ended"
  /\ NoLateSession

\* What the steps of an actor say of its arguments.
StepsInv ==
  /\ \A a \in Actors :
       /\ pc[a] \in {"ending", "waiting"} => mode[a] # "execute"
       /\ pc[a] = "running" => left[a] # 0
       /\ verdict[a] = "committed" =>
            a \in Requests /\ mode[a] # "execute" /\ pc[a] \in {"release", "done"}
  /\ Disconnector \in unfit => pc[Disconnector] \in {"taken", "locking", "release", "done"}

\* The session has one owner, besides a disconnect that waits for an execute to
\* close the connection behind it.
OwnerInv ==
  /\ sess \in {"none", "idle"} => \A a \in Actors : ~Engaged(a)
  /\ sess = "busy" => \A a \in Actors : Engaged(a) => Executor(a)
  /\ \A a, b \in Actors :
       Engaged(a) /\ Engaged(b) /\ a # b =>
         (Discards(a) /\ Executor(b)) \/ (Discards(b) /\ Executor(a))

Clean == link = "up" => sent = <<>> /\ replies = <<>>

\* The command is on its way, or its reply is; an ok says what became of the transaction.
Answering(cmd, end) ==
  link = "up" =>
    \/ sent = <<cmd>> /\ replies = <<>>
    \/ /\ sent = <<>>
       /\ \E reply \in Replies : replies = <<reply>> /\ (reply = "ok" => txn = end)

\* Who may write finds the stream clean; who reads, the answer to what it wrote.
StreamInv ==
  /\ sess \in {"none", "idle"} => Clean
  /\ \A a \in Actors :
       /\ pc[a] \in {"checking", "removing", "running", "succeeded", "failed", "rollback",
                    "ending"} => Clean
       /\ pc[a] \in {"taken", "locking"} /\ ~Discards(a) => Clean
       /\ pc[a] = "reading" => Answering("query", "open")
       /\ pc[a] = "rolling" => Answering("rollback", "rolled_back")
       /\ pc[a] = "waiting" => Answering(mode[a], EndVerdict(mode[a]))

\* What is, or is about to be, recorded or told is true.
TruthInv ==
  /\ OutcomesAreHonest
  /\ \A a \in Actors : Honest(verdict[a])

\* When committed is recorded nobody is left that records something else.
KeptInv ==
  record = "committed" =>
    /\ sess = "gone"
    /\ \A a \in Actors :
         pc[a] \in {"new", "done", "stopped", "guard", "guardLock"}
           \/ (pc[a] = "release" /\ verdict[a] = "committed")

\* The inductive invariant.
IInv == TypeOK /\ PhaseInv /\ StepsInv /\ OwnerInv /\ StreamInv /\ TruthInv /\ KeptInv

\* What a step may do, for the two action properties.
WritesClean == Len(sent') > Len(sent) => sent = <<>> /\ replies = <<>>
KeepsCommitted == record = "committed" => record' \in {"committed", "none"}

-----------------------------------------------------------------------------
(* Facts about a state *)

\* The only element of a stream.
LEMMA OneElement ==
  ASSUME NEW x
  PROVE  <<x>> # <<>> /\ Head(<<x>>) = x /\ Tail(<<x>>) = <<>> /\ Append(<<>>, x) = <<x>>
OBVIOUS

\* Whoever uses the stream has it for itself: another actor has nothing to do with the
\* session, or will only close its connection.
LEMMA Alone ==
  ASSUME IInv, NEW a \in Actors, Engaged(a), ~Discards(a), NEW b \in Actors, b # a
  PROVE  \/ pc[b] \in {"new", "done", "stopped", "guardLock"}
         \/ Discards(b) /\ pc[b] \in {"taken", "locking", "release", "done"}
  BY DEF IInv, StepsInv, OwnerInv, Engaged, Discards

-----------------------------------------------------------------------------
(* Preservation *)

\* Every step keeps the types.
LEMMA TypeStep ==
  ASSUME IInv, [Next]_vars
  PROVE  TypeOK'
<1>1. ASSUME Begin
      PROVE  TypeOK'
  BY <1>1, ManualAssumption DEF IInv, TypeOK, StepsInv, Actors, Steps, Executing, Finishing,
      Outcomes, Commands, Replies, Begin, calls
<1>2. ASSUME BeginFails
      PROVE  TypeOK'
  BY <1>2, ManualAssumption DEF IInv, TypeOK, StepsInv, Actors, Steps, Executing, Finishing,
      Outcomes, Commands, Replies, BeginFails, calls
<1>3. ASSUME Install
      PROVE  TypeOK'
  BY <1>3, ManualAssumption DEF IInv, TypeOK, StepsInv, Actors, Steps, Executing, Finishing,
      Outcomes, Commands, Replies, Install, calls
<1>4. ASSUME NEW r \in Requests, ExecuteRefused(r)
      PROVE  TypeOK'
  BY <1>4, ManualAssumption DEF IInv, TypeOK, StepsInv, Actors, Steps, Executing, Finishing,
      Outcomes, Commands, Replies, ExecuteRefused, Tell, Missing, Goto, wire
<1>5. ASSUME NEW r \in Requests, NEW expired \in BOOLEAN, NEW n \in 0..MaxBatches,
             ExecuteStart(r, expired, n)
      PROVE  TypeOK'
  BY <1>5, ManualAssumption DEF IInv, TypeOK, StepsInv, Actors, Steps, Executing, Finishing,
      Outcomes, Commands, Replies, ExecuteStart, Goto, wire
<1>6. ASSUME NEW r \in Requests, ExecuteLock(r)
      PROVE  TypeOK'
  BY <1>6, ManualAssumption DEF IInv, TypeOK, StepsInv, Actors, Steps, Executing, Finishing,
      Outcomes, Commands, Replies, ExecuteLock, Goto, wire, calls
<1>7. ASSUME NEW r \in Requests, ExecuteUnfit(r)
      PROVE  TypeOK'
  BY <1>7, ManualAssumption DEF IInv, TypeOK, StepsInv, Actors, Steps, Executing, Finishing,
      Outcomes, Commands, Replies, ExecuteUnfit, RemoveSession, InMap, Goto, wire, calls
<1>8. ASSUME NEW r \in Requests, ReadOnlyRefused(r)
      PROVE  TypeOK'
  BY <1>8, ManualAssumption DEF IInv, TypeOK, StepsInv, Actors, Steps, Executing, Finishing,
      Outcomes, Commands, Replies, ReadOnlyRefused, InMap, Unlock, Tell, Goto, wire
<1>9. ASSUME NEW r \in Requests, ReadOnlyPassed(r)
      PROVE  TypeOK'
  BY <1>9, ManualAssumption DEF IInv, TypeOK, StepsInv, Actors, Steps, Executing, Finishing,
      Outcomes, Commands, Replies, ReadOnlyPassed, Goto, wire, calls
<1>10. ASSUME NEW r \in Requests, SendBatch(r)
       PROVE  TypeOK'
  BY <1>10, ManualAssumption DEF IInv, TypeOK, StepsInv, Actors, Steps, Executing,
      Finishing, Outcomes, Commands, Replies, SendBatch, Write, Goto
<1>11. ASSUME NEW r \in Requests, NEW reply \in Replies, ReadBatch(r, reply)
       PROVE  TypeOK'
  BY <1>11, ManualAssumption DEF IInv, TypeOK, StepsInv, Actors, Steps, Executing,
      Finishing, Outcomes, Commands, Replies, ReadBatch, Read, Goto, calls
<1>12. ASSUME NEW r \in Requests, NEW step \in {"failed", "interrupted"}, RunFails(r, step)
       PROVE  TypeOK'
  BY <1>12, ManualAssumption DEF IInv, TypeOK, StepsInv, Actors, Steps, Executing,
      Finishing, Outcomes, Commands, Replies, RunFails, Goto, wire, calls
<1>13. ASSUME NEW r \in Requests, Interrupt(r)
       PROVE  TypeOK'
  BY <1>13, ManualAssumption DEF IInv, TypeOK, StepsInv, Actors, Steps, Executing,
      Finishing, Outcomes, Commands, Replies, Interrupt, Goto, wire, calls
<1>14. ASSUME NEW r \in Requests, ExecuteSucceeds(r)
       PROVE  TypeOK'
  BY <1>14, ManualAssumption DEF IInv, TypeOK, StepsInv, Actors, Steps, Executing,
      Finishing, Outcomes, Commands, Replies, ExecuteSucceeds, InMap, Tell, Unlock, Goto,
      wire
<1>15. ASSUME NEW r \in Requests, ExecuteFails(r)
       PROVE  TypeOK'
  BY <1>15, ManualAssumption DEF IInv, TypeOK, StepsInv, Actors, Steps, Executing,
      Finishing, Outcomes, Commands, Replies, ExecuteFails, RemoveSession, InMap, Goto,
      wire, calls
<1>16. ASSUME NEW a \in Actors, SendRollback(a)
       PROVE  TypeOK'
  BY <1>16, ManualAssumption DEF IInv, TypeOK, StepsInv, Actors, Steps, Executing,
      Finishing, Outcomes, Commands, Replies, SendRollback, Write, Goto, calls
<1>17. ASSUME NEW a \in Actors, NEW reply \in Replies, ReadRollback(a, reply)
       PROVE  TypeOK'
  BY <1>17, ManualAssumption DEF IInv, TypeOK, StepsInv, Actors, Steps, Executing,
      Finishing, Outcomes, Commands, Replies, ReadRollback, Read, RollbackVerdict, Goto
<1>18. ASSUME NEW a \in Actors, RollbackFails(a)
       PROVE  TypeOK'
  BY <1>18, ManualAssumption DEF IInv, TypeOK, StepsInv, Actors, Steps, Executing,
      Finishing, Outcomes, Commands, Replies, RollbackFails, Goto, wire, calls
<1>19. ASSUME NEW a \in Actors, Release(a)
       PROVE  TypeOK'
  BY <1>19, ManualAssumption DEF IInv, TypeOK, StepsInv, Actors, Steps, Executing,
      Finishing, Outcomes, Commands, Replies, Release, Unlock, Goto
<1>20. ASSUME NEW r \in Requests, NEW end \in {"commit", "rollback"}, FinishStart(r, end)
       PROVE  TypeOK'
  BY <1>20, ManualAssumption DEF IInv, TypeOK, StepsInv, Actors, Steps, Executing,
      Finishing, Outcomes, Commands, Replies, FinishStart, Goto, wire
<1>21. ASSUME NEW r \in Requests, NEW expired \in BOOLEAN, FinishLock(r, expired)
       PROVE  TypeOK'
  BY <1>21, ManualAssumption DEF IInv, TypeOK, StepsInv, Actors, Steps, Executing,
      Finishing, Outcomes, Commands, Replies, FinishLock, Goto, wire, calls
<1>22. ASSUME NEW r \in Requests, SendEnd(r)
       PROVE  TypeOK'
  BY <1>22, ManualAssumption DEF IInv, TypeOK, StepsInv, Actors, Steps, Executing,
      Finishing, Outcomes, Commands, Replies, SendEnd, Write, Goto, calls
<1>23. ASSUME NEW r \in Requests, NEW reply \in Replies, ReadEnd(r, reply)
       PROVE  TypeOK'
  BY <1>23, ManualAssumption DEF IInv, TypeOK, StepsInv, Actors, Steps, Executing,
      Finishing, Outcomes, Commands, Replies, ReadEnd, Read, EndVerdict, Goto
<1>24. ASSUME NEW r \in Requests, EndFails(r)
       PROVE  TypeOK'
  BY <1>24, ManualAssumption DEF IInv, TypeOK, StepsInv, Actors, Steps, Executing,
      Finishing, Outcomes, Commands, Replies, EndFails, Goto, wire, calls
<1>25. ASSUME NEW r \in Requests, DropRequest(r)
       PROVE  TypeOK'
  BY <1>25, ManualAssumption DEF IInv, TypeOK, StepsInv, Actors, Steps, Executing,
      Finishing, Outcomes, Commands, Replies, DropRequest, Unlock, Goto, wire, calls
<1>26. ASSUME NEW r \in Requests, Guard(r)
       PROVE  TypeOK'
  BY <1>26, ManualAssumption DEF IInv, TypeOK, StepsInv, Actors, Steps, Executing,
      Finishing, Outcomes, Commands, Replies, Guard, RemoveSession, InMap, Goto, wire, calls
<1>27. ASSUME NEW r \in Requests, GuardInterrupts(r)
       PROVE  TypeOK'
  BY <1>27, ManualAssumption DEF IInv, TypeOK, StepsInv, Actors, Steps, Executing,
      Finishing, Outcomes, Commands, Replies, GuardInterrupts, Goto, wire, calls
<1>28. ASSUME CloseUnowned
       PROVE  TypeOK'
  BY <1>28, ManualAssumption DEF IInv, TypeOK, StepsInv, Actors, Steps, Executing,
      Finishing, Outcomes, Commands, Replies, CloseUnowned, InMap, calls
<1>29. ASSUME WatcherExpires
       PROVE  TypeOK'
  BY <1>29, ManualAssumption DEF IInv, TypeOK, StepsInv, Actors, Steps, Executing,
      Finishing, Outcomes, Commands, Replies, WatcherExpires, Goto, wire, calls
<1>30. ASSUME WatcherReturns
       PROVE  TypeOK'
  BY <1>30, ManualAssumption DEF IInv, TypeOK, StepsInv, Actors, Steps, Executing,
      Finishing, Outcomes, Commands, Replies, WatcherReturns, Goto, wire, calls
<1>31. ASSUME Invalidate
       PROVE  TypeOK'
  BY <1>31, ManualAssumption DEF IInv, TypeOK, StepsInv, Actors, Steps, Executing,
      Finishing, Outcomes, Commands, Replies, Invalidate, Goto, wire, calls
<1>32. ASSUME TakeSession
       PROVE  TypeOK'
  BY <1>32, ManualAssumption DEF IInv, TypeOK, StepsInv, Actors, Steps, Executing,
      Finishing, Outcomes, Commands, Replies, TakeSession, RemoveSession, InMap, Goto, wire
<1>33. ASSUME NEW a \in Actors, RecordTaken(a)
       PROVE  TypeOK'
  BY <1>33, ManualAssumption DEF IInv, TypeOK, StepsInv, Actors, Steps, Executing,
      Finishing, Outcomes, Commands, Replies, RecordTaken, Goto, wire, calls
<1>34. ASSUME NEW a \in Actors, LockTaken(a)
       PROVE  TypeOK'
  BY <1>34, ManualAssumption DEF IInv, TypeOK, StepsInv, Actors, Steps, Executing,
      Finishing, Outcomes, Commands, Replies, LockTaken, Goto, wire, calls
<1>35. ASSUME ClearSessions
       PROVE  TypeOK'
  BY <1>35, ManualAssumption DEF IInv, TypeOK, StepsInv, Actors, Steps, Executing,
      Finishing, Outcomes, Commands, Replies, ClearSessions, InMap, wire, calls
<1>36. ASSUME Forget
       PROVE  TypeOK'
  BY <1>36, ManualAssumption DEF IInv, TypeOK, StepsInv, Actors, Steps, Executing,
      Finishing, Outcomes, Commands, Replies, Forget, wire, calls
<1>37. ASSUME NEW reply \in Replies, NEW after \in {"none", "open", "committed", "rolled_back"},
              ServerExecutes(reply, after)
       PROVE  TypeOK'
  BY <1>37, ManualAssumption DEF IInv, TypeOK, StepsInv, Actors, Steps, Executing,
      Finishing, Outcomes, Commands, Replies, ServerExecutes, EndVerdict, calls
<1>38. ASSUME LinkBreaks
       PROVE  TypeOK'
  BY <1>38, ManualAssumption DEF IInv, TypeOK, StepsInv, Actors, Steps, Executing,
      Finishing, Outcomes, Commands, Replies, LinkBreaks, calls
<1>39. ASSUME ServerEndsSession
       PROVE  TypeOK'
  BY <1>39, ManualAssumption DEF IInv, TypeOK, StepsInv, Actors, Steps, Executing,
      Finishing, Outcomes, Commands, Replies, ServerEndsSession, calls
<1>40. ASSUME UNCHANGED vars
       PROVE  TypeOK'
  BY <1>40, ManualAssumption DEF IInv, TypeOK, vars
<1> QED
  BY <1>1, <1>2, <1>3, <1>4, <1>5, <1>6, <1>7, <1>8, <1>9, <1>10, <1>11, <1>12,
     <1>13, <1>14, <1>15, <1>16, <1>17, <1>18, <1>19, <1>20, <1>21, <1>22, <1>23, <1>24,
     <1>25, <1>26, <1>27, <1>28, <1>29, <1>30, <1>31, <1>32, <1>33, <1>34, <1>35, <1>36,
     <1>37, <1>38, <1>39, <1>40
  DEF Next, Opener, Execute, Finish, Cleanup, Guarded, Taken, Watching, Disconnecting,
      Server

\* The phases of the session and of the disconnect.
LEMMA PhaseStep ==
  ASSUME IInv, [Next]_vars
  PROVE  PhaseInv'
<1>1. ASSUME Begin
      PROVE  PhaseInv'
  BY <1>1, ManualAssumption DEF IInv, TypeOK, PhaseInv, OwnerInv, Engaged, NoLateSession,
      InMap, Actors, Begin
<1>2. ASSUME BeginFails
      PROVE  PhaseInv'
  BY <1>2, ManualAssumption DEF IInv, TypeOK, PhaseInv, OwnerInv, Engaged, NoLateSession,
      InMap, Actors, BeginFails
<1>3. ASSUME Install
      PROVE  PhaseInv'
  BY <1>3, ManualAssumption DEF IInv, TypeOK, PhaseInv, OwnerInv, Engaged, NoLateSession,
      InMap, Actors, Install
<1>4. ASSUME NEW r \in Requests, ExecuteRefused(r)
      PROVE  PhaseInv'
  BY <1>4, ManualAssumption DEF IInv, TypeOK, PhaseInv, OwnerInv, Engaged, NoLateSession,
      InMap, Actors, ExecuteRefused, Missing, Goto, wire
<1>5. ASSUME NEW r \in Requests, NEW expired \in BOOLEAN, NEW n \in 0..MaxBatches,
             ExecuteStart(r, expired, n)
      PROVE  PhaseInv'
  BY <1>5, ManualAssumption DEF IInv, TypeOK, PhaseInv, OwnerInv, Engaged, NoLateSession,
      InMap, Actors, ExecuteStart, Goto, wire
<1>6. ASSUME NEW r \in Requests, ExecuteLock(r)
      PROVE  PhaseInv'
  BY <1>6, ManualAssumption DEF IInv, TypeOK, PhaseInv, OwnerInv, Engaged, NoLateSession,
      InMap, Actors, ExecuteLock, Goto, wire
<1>7. ASSUME NEW r \in Requests, ExecuteUnfit(r)
      PROVE  PhaseInv'
  BY <1>7, ManualAssumption DEF IInv, TypeOK, PhaseInv, OwnerInv, Engaged, NoLateSession,
      InMap, Actors, ExecuteUnfit, RemoveSession, Goto, wire
<1>8. ASSUME NEW r \in Requests, ReadOnlyRefused(r)
      PROVE  PhaseInv'
  BY <1>8, ManualAssumption DEF IInv, TypeOK, PhaseInv, OwnerInv, Engaged, NoLateSession,
      InMap, Actors, ReadOnlyRefused, Goto, wire
<1>9. ASSUME NEW r \in Requests, ReadOnlyPassed(r)
      PROVE  PhaseInv'
  BY <1>9, ManualAssumption DEF IInv, TypeOK, PhaseInv, OwnerInv, Engaged, NoLateSession,
      InMap, Actors, ReadOnlyPassed, Goto, wire
<1>10. ASSUME NEW r \in Requests, SendBatch(r)
       PROVE  PhaseInv'
  BY <1>10, ManualAssumption DEF IInv, TypeOK, PhaseInv, OwnerInv, Engaged, NoLateSession,
      InMap, Actors, SendBatch, Write, Goto
<1>11. ASSUME NEW r \in Requests, NEW reply \in Replies, ReadBatch(r, reply)
       PROVE  PhaseInv'
  BY <1>11, ManualAssumption DEF IInv, TypeOK, PhaseInv, OwnerInv, Engaged, NoLateSession,
      InMap, Actors, ReadBatch, Read, Goto
<1>12. ASSUME NEW r \in Requests, NEW step \in {"failed", "interrupted"}, RunFails(r, step)
       PROVE  PhaseInv'
  BY <1>12, ManualAssumption DEF IInv, TypeOK, PhaseInv, OwnerInv, Engaged, NoLateSession,
      InMap, Actors, RunFails, Goto, wire
<1>13. ASSUME NEW r \in Requests, Interrupt(r)
       PROVE  PhaseInv'
  BY <1>13, ManualAssumption DEF IInv, TypeOK, PhaseInv, OwnerInv, Engaged, NoLateSession,
      InMap, Actors, Interrupt, Goto, wire
<1>14. ASSUME NEW r \in Requests, ExecuteSucceeds(r)
       PROVE  PhaseInv'
  BY <1>14, ManualAssumption DEF IInv, TypeOK, PhaseInv, OwnerInv, Engaged, NoLateSession,
      InMap, Actors, ExecuteSucceeds, Goto, wire
<1>15. ASSUME NEW r \in Requests, ExecuteFails(r)
       PROVE  PhaseInv'
  BY <1>15, ManualAssumption DEF IInv, TypeOK, PhaseInv, OwnerInv, Engaged, NoLateSession,
      InMap, Actors, ExecuteFails, RemoveSession, Goto, wire
<1>16. ASSUME NEW a \in Actors, SendRollback(a)
       PROVE  PhaseInv'
  BY <1>16, ManualAssumption DEF IInv, TypeOK, PhaseInv, OwnerInv, Engaged, NoLateSession,
      InMap, Actors, SendRollback, Write, Goto
<1>17. ASSUME NEW a \in Actors, NEW reply \in Replies, ReadRollback(a, reply)
       PROVE  PhaseInv'
  BY <1>17, ManualAssumption DEF IInv, TypeOK, PhaseInv, OwnerInv, Engaged, NoLateSession,
      InMap, Actors, ReadRollback, Read, RollbackVerdict, Goto
<1>18. ASSUME NEW a \in Actors, RollbackFails(a)
       PROVE  PhaseInv'
  BY <1>18, ManualAssumption DEF IInv, TypeOK, PhaseInv, OwnerInv, Engaged, NoLateSession,
      InMap, Actors, RollbackFails, Goto, wire
<1>19. ASSUME NEW a \in Actors, Release(a)
       PROVE  PhaseInv'
  BY <1>19, ManualAssumption DEF IInv, TypeOK, PhaseInv, OwnerInv, Engaged, NoLateSession,
      InMap, Actors, Release, Goto
<1>20. ASSUME NEW r \in Requests, NEW end \in {"commit", "rollback"}, FinishStart(r, end)
       PROVE  PhaseInv'
  BY <1>20, ManualAssumption DEF IInv, TypeOK, PhaseInv, OwnerInv, Engaged, NoLateSession,
      InMap, Actors, FinishStart, Goto, wire
<1>21. ASSUME NEW r \in Requests, NEW expired \in BOOLEAN, FinishLock(r, expired)
       PROVE  PhaseInv'
  BY <1>21, ManualAssumption DEF IInv, TypeOK, PhaseInv, OwnerInv, Engaged, NoLateSession,
      InMap, Actors, FinishLock, Goto, wire
<1>22. ASSUME NEW r \in Requests, SendEnd(r)
       PROVE  PhaseInv'
  BY <1>22, ManualAssumption DEF IInv, TypeOK, PhaseInv, OwnerInv, Engaged, NoLateSession,
      InMap, Actors, SendEnd, Write, Goto
<1>23. ASSUME NEW r \in Requests, NEW reply \in Replies, ReadEnd(r, reply)
       PROVE  PhaseInv'
  BY <1>23, ManualAssumption DEF IInv, TypeOK, PhaseInv, OwnerInv, Engaged, NoLateSession,
      InMap, Actors, ReadEnd, Read, EndVerdict, Goto
<1>24. ASSUME NEW r \in Requests, EndFails(r)
       PROVE  PhaseInv'
  BY <1>24, ManualAssumption DEF IInv, TypeOK, PhaseInv, OwnerInv, Engaged, NoLateSession,
      InMap, Actors, EndFails, Goto, wire
<1>25. ASSUME NEW r \in Requests, DropRequest(r)
       PROVE  PhaseInv'
  BY <1>25, ManualAssumption DEF IInv, TypeOK, PhaseInv, OwnerInv, Engaged, NoLateSession,
      InMap, Actors, DropRequest, Goto, wire
<1>26. ASSUME NEW r \in Requests, Guard(r)
       PROVE  PhaseInv'
  BY <1>26, ManualAssumption DEF IInv, TypeOK, PhaseInv, OwnerInv, Engaged, NoLateSession,
      InMap, Actors, Guard, RemoveSession, Goto, wire
<1>27. ASSUME NEW r \in Requests, GuardInterrupts(r)
       PROVE  PhaseInv'
  BY <1>27, ManualAssumption DEF IInv, TypeOK, PhaseInv, OwnerInv, Engaged, NoLateSession,
      InMap, Actors, GuardInterrupts, Goto, wire
<1>28. ASSUME CloseUnowned
       PROVE  PhaseInv'
  BY <1>28, ManualAssumption DEF IInv, TypeOK, PhaseInv, OwnerInv, Engaged, NoLateSession,
      InMap, Actors, CloseUnowned
<1>29. ASSUME WatcherExpires
       PROVE  PhaseInv'
  BY <1>29, ManualAssumption DEF IInv, TypeOK, PhaseInv, OwnerInv, Engaged, NoLateSession,
      InMap, Actors, WatcherExpires, Goto, wire
<1>30. ASSUME WatcherReturns
       PROVE  PhaseInv'
  BY <1>30, ManualAssumption DEF IInv, TypeOK, PhaseInv, OwnerInv, Engaged, NoLateSession,
      InMap, Actors, WatcherReturns, Goto, wire
<1>31. ASSUME Invalidate
       PROVE  PhaseInv'
  BY <1>31, ManualAssumption DEF IInv, TypeOK, PhaseInv, OwnerInv, Engaged, NoLateSession,
      InMap, Actors, Invalidate, Goto, wire
<1>32. ASSUME TakeSession
       PROVE  PhaseInv'
  BY <1>32, ManualAssumption DEF IInv, TypeOK, PhaseInv, OwnerInv, Engaged, NoLateSession,
      InMap, Actors, TakeSession, RemoveSession, Goto, wire
<1>33. ASSUME NEW a \in Actors, RecordTaken(a)
       PROVE  PhaseInv'
  BY <1>33, ManualAssumption DEF IInv, TypeOK, PhaseInv, OwnerInv, Engaged, NoLateSession,
      InMap, Actors, RecordTaken, Goto, wire
<1>34. ASSUME NEW a \in Actors, LockTaken(a)
       PROVE  PhaseInv'
  BY <1>34, ManualAssumption DEF IInv, TypeOK, PhaseInv, OwnerInv, Engaged, NoLateSession,
      InMap, Actors, LockTaken, Goto, wire
<1>35. ASSUME ClearSessions
       PROVE  PhaseInv'
  BY <1>35, ManualAssumption DEF IInv, TypeOK, PhaseInv, OwnerInv, Engaged, NoLateSession,
      InMap, Actors, ClearSessions, wire
<1>36. ASSUME Forget
       PROVE  PhaseInv'
  BY <1>36, ManualAssumption DEF IInv, TypeOK, PhaseInv, OwnerInv, Engaged, NoLateSession,
      InMap, Actors, Forget, wire
<1>37. ASSUME NEW reply \in Replies, NEW after \in {"none", "open", "committed", "rolled_back"},
              ServerExecutes(reply, after)
       PROVE  PhaseInv'
  BY <1>37, ManualAssumption DEF IInv, TypeOK, PhaseInv, OwnerInv, Engaged, NoLateSession,
      InMap, Actors, ServerExecutes, EndVerdict
<1>38. ASSUME LinkBreaks
       PROVE  PhaseInv'
  BY <1>38, ManualAssumption DEF IInv, TypeOK, PhaseInv, OwnerInv, Engaged, NoLateSession,
      InMap, Actors, LinkBreaks
<1>39. ASSUME ServerEndsSession
       PROVE  PhaseInv'
  BY <1>39, ManualAssumption DEF IInv, TypeOK, PhaseInv, OwnerInv, Engaged, NoLateSession,
      InMap, Actors, ServerEndsSession
<1>40. ASSUME UNCHANGED vars
       PROVE  PhaseInv'
  BY <1>40, ManualAssumption DEF IInv, PhaseInv, NoLateSession, InMap, vars
<1> QED
  BY <1>1, <1>2, <1>3, <1>4, <1>5, <1>6, <1>7, <1>8, <1>9, <1>10, <1>11, <1>12,
     <1>13, <1>14, <1>15, <1>16, <1>17, <1>18, <1>19, <1>20, <1>21, <1>22, <1>23, <1>24,
     <1>25, <1>26, <1>27, <1>28, <1>29, <1>30, <1>31, <1>32, <1>33, <1>34, <1>35, <1>36,
     <1>37, <1>38, <1>39, <1>40
  DEF Next, Opener, Execute, Finish, Cleanup, Guarded, Taken, Watching, Disconnecting,
      Server

\* Every step leaves its actor where its arguments fit.
LEMMA StepsStep ==
  ASSUME IInv, [Next]_vars
  PROVE  StepsInv'
<1>1. ASSUME Begin
      PROVE  StepsInv'
  BY <1>1, ManualAssumption DEF IInv, TypeOK, StepsInv, Actors, Begin, calls
<1>2. ASSUME BeginFails
      PROVE  StepsInv'
  BY <1>2, ManualAssumption DEF IInv, TypeOK, StepsInv, Actors, BeginFails, calls
<1>3. ASSUME Install
      PROVE  StepsInv'
  BY <1>3, ManualAssumption DEF IInv, TypeOK, StepsInv, Actors, Install, calls
<1>4. ASSUME NEW r \in Requests, ExecuteRefused(r)
      PROVE  StepsInv'
  BY <1>4, ManualAssumption DEF IInv, TypeOK, StepsInv, Actors, ExecuteRefused, Missing,
      Goto
<1>5. ASSUME NEW r \in Requests, NEW expired \in BOOLEAN, NEW n \in 0..MaxBatches,
             ExecuteStart(r, expired, n)
      PROVE  StepsInv'
  BY <1>5, ManualAssumption DEF IInv, TypeOK, StepsInv, Actors, ExecuteStart, Goto
<1>6. ASSUME NEW r \in Requests, ExecuteLock(r)
      PROVE  StepsInv'
  BY <1>6, ManualAssumption DEF IInv, TypeOK, StepsInv, Actors, ExecuteLock, Goto, calls
<1>7. ASSUME NEW r \in Requests, ExecuteUnfit(r)
      PROVE  StepsInv'
  BY <1>7, ManualAssumption DEF IInv, TypeOK, StepsInv, Actors, ExecuteUnfit, InMap, Goto,
      calls
<1>8. ASSUME NEW r \in Requests, ReadOnlyRefused(r)
      PROVE  StepsInv'
  BY <1>8, ManualAssumption DEF IInv, TypeOK, StepsInv, Actors, ReadOnlyRefused, InMap, Goto
<1>9. ASSUME NEW r \in Requests, ReadOnlyPassed(r)
      PROVE  StepsInv'
  BY <1>9, ManualAssumption DEF IInv, TypeOK, StepsInv, Actors, ReadOnlyPassed, Goto, calls
<1>10. ASSUME NEW r \in Requests, SendBatch(r)
       PROVE  StepsInv'
  BY <1>10, ManualAssumption DEF IInv, TypeOK, StepsInv, Actors, SendBatch, Goto
<1>11. ASSUME NEW r \in Requests, NEW reply \in Replies, ReadBatch(r, reply)
       PROVE  StepsInv'
  <2>1. pc[r] = "reading" /\ pc \in [Actors -> Steps] /\ r \in Actors
    BY <1>11 DEF ReadBatch, IInv, TypeOK, Actors
  <2>2. UNCHANGED <<left, mode, unfit, verdict>>
    BY <1>11 DEF ReadBatch, calls
  <2>3. CASE reply = "ok"
    <3>1. pc' = [pc EXCEPT ![r] = IF left[r] = 0 THEN "succeeded" ELSE "running"]
      BY <1>11, <2>3 DEF ReadBatch, Goto
    <3> QED
      BY <2>1, <2>2, <3>1, ManualAssumption DEF IInv, StepsInv
  <2>4. CASE reply # "ok"
    <3>1. \E step \in {"failed", "interrupted"} : pc' = [pc EXCEPT ![r] = step]
      BY <1>11, <2>4 DEF ReadBatch, Goto, Replies
    <3> QED
      BY <2>1, <2>2, <3>1, ManualAssumption DEF IInv, StepsInv
  <2> QED
    BY <2>3, <2>4
<1>12. ASSUME NEW r \in Requests, NEW step \in {"failed", "interrupted"}, RunFails(r, step)
       PROVE  StepsInv'
  BY <1>12, ManualAssumption DEF IInv, TypeOK, StepsInv, Actors, RunFails, Goto, calls
<1>13. ASSUME NEW r \in Requests, Interrupt(r)
       PROVE  StepsInv'
  BY <1>13, ManualAssumption DEF IInv, TypeOK, StepsInv, Actors, Interrupt, Goto, calls
<1>14. ASSUME NEW r \in Requests, ExecuteSucceeds(r)
       PROVE  StepsInv'
  BY <1>14, ManualAssumption DEF IInv, TypeOK, StepsInv, Actors, ExecuteSucceeds, InMap,
      Goto
<1>15. ASSUME NEW r \in Requests, ExecuteFails(r)
       PROVE  StepsInv'
  BY <1>15, ManualAssumption DEF IInv, TypeOK, StepsInv, Actors, ExecuteFails, InMap, Goto,
      calls
<1>16. ASSUME NEW a \in Actors, SendRollback(a)
       PROVE  StepsInv'
  BY <1>16, ManualAssumption DEF IInv, TypeOK, StepsInv, Actors, SendRollback, Goto, calls
<1>17. ASSUME NEW a \in Actors, NEW reply \in Replies, ReadRollback(a, reply)
       PROVE  StepsInv'
  BY <1>17, ManualAssumption DEF IInv, TypeOK, StepsInv, Actors, ReadRollback,
      RollbackVerdict, Goto
<1>18. ASSUME NEW a \in Actors, RollbackFails(a)
       PROVE  StepsInv'
  BY <1>18, ManualAssumption DEF IInv, TypeOK, StepsInv, Actors, RollbackFails, Goto, calls
<1>19. ASSUME NEW a \in Actors, Release(a)
       PROVE  StepsInv'
  BY <1>19, ManualAssumption DEF IInv, TypeOK, StepsInv, Actors, Release, Goto
<1>20. ASSUME NEW r \in Requests, NEW end \in {"commit", "rollback"}, FinishStart(r, end)
       PROVE  StepsInv'
  BY <1>20, ManualAssumption DEF IInv, TypeOK, StepsInv, Actors, FinishStart, Goto
<1>21. ASSUME NEW r \in Requests, NEW expired \in BOOLEAN, FinishLock(r, expired)
       PROVE  StepsInv'
  BY <1>21, ManualAssumption DEF IInv, TypeOK, StepsInv, Actors, FinishLock, Goto, calls
<1>22. ASSUME NEW r \in Requests, SendEnd(r)
       PROVE  StepsInv'
  BY <1>22, ManualAssumption DEF IInv, TypeOK, StepsInv, Actors, SendEnd, Goto, calls
<1>23. ASSUME NEW r \in Requests, NEW reply \in Replies, ReadEnd(r, reply)
       PROVE  StepsInv'
  BY <1>23, ManualAssumption DEF IInv, TypeOK, StepsInv, Actors, ReadEnd, EndVerdict, Goto
<1>24. ASSUME NEW r \in Requests, EndFails(r)
       PROVE  StepsInv'
  BY <1>24, ManualAssumption DEF IInv, TypeOK, StepsInv, Actors, EndFails, Goto, calls
<1>25. ASSUME NEW r \in Requests, DropRequest(r)
       PROVE  StepsInv'
  BY <1>25, ManualAssumption DEF IInv, TypeOK, StepsInv, Actors, DropRequest, Goto, calls
<1>26. ASSUME NEW r \in Requests, Guard(r)
       PROVE  StepsInv'
  BY <1>26, ManualAssumption DEF IInv, TypeOK, StepsInv, Actors, Guard, InMap, Goto, calls
<1>27. ASSUME NEW r \in Requests, GuardInterrupts(r)
       PROVE  StepsInv'
  BY <1>27, ManualAssumption DEF IInv, TypeOK, StepsInv, Actors, GuardInterrupts, Goto,
      calls
<1>28. ASSUME CloseUnowned
       PROVE  StepsInv'
  BY <1>28, ManualAssumption DEF IInv, TypeOK, StepsInv, Actors, CloseUnowned, InMap, calls
<1>29. ASSUME WatcherExpires
       PROVE  StepsInv'
  BY <1>29, ManualAssumption DEF IInv, TypeOK, StepsInv, Actors, WatcherExpires, Goto, calls
<1>30. ASSUME WatcherReturns
       PROVE  StepsInv'
  BY <1>30, ManualAssumption DEF IInv, TypeOK, StepsInv, Actors, WatcherReturns, Goto, calls
<1>31. ASSUME Invalidate
       PROVE  StepsInv'
  BY <1>31, ManualAssumption DEF IInv, TypeOK, StepsInv, Actors, Invalidate, Goto, calls
<1>32. ASSUME TakeSession
       PROVE  StepsInv'
  BY <1>32, ManualAssumption DEF IInv, TypeOK, StepsInv, Actors, TakeSession, InMap, Goto
<1>33. ASSUME NEW a \in Actors, RecordTaken(a)
       PROVE  StepsInv'
  BY <1>33, ManualAssumption DEF IInv, TypeOK, StepsInv, Actors, RecordTaken, Goto, calls
<1>34. ASSUME NEW a \in Actors, LockTaken(a)
       PROVE  StepsInv'
  BY <1>34, ManualAssumption DEF IInv, TypeOK, StepsInv, Actors, LockTaken, Goto, calls
<1>35. ASSUME ClearSessions
       PROVE  StepsInv'
  BY <1>35, ManualAssumption DEF IInv, TypeOK, StepsInv, Actors, ClearSessions, InMap, calls
<1>36. ASSUME Forget
       PROVE  StepsInv'
  BY <1>36, ManualAssumption DEF IInv, TypeOK, StepsInv, Actors, Forget, calls
<1>37. ASSUME NEW reply \in Replies, NEW after \in {"none", "open", "committed", "rolled_back"},
              ServerExecutes(reply, after)
       PROVE  StepsInv'
  BY <1>37, ManualAssumption DEF IInv, TypeOK, StepsInv, Actors, ServerExecutes, EndVerdict,
      calls
<1>38. ASSUME LinkBreaks
       PROVE  StepsInv'
  BY <1>38, ManualAssumption DEF IInv, TypeOK, StepsInv, Actors, LinkBreaks, calls
<1>39. ASSUME ServerEndsSession
       PROVE  StepsInv'
  BY <1>39, ManualAssumption DEF IInv, TypeOK, StepsInv, Actors, ServerEndsSession, calls
<1>40. ASSUME UNCHANGED vars
       PROVE  StepsInv'
  BY <1>40, ManualAssumption DEF IInv, StepsInv, vars
<1> QED
  BY <1>1, <1>2, <1>3, <1>4, <1>5, <1>6, <1>7, <1>8, <1>9, <1>10, <1>11, <1>12,
     <1>13, <1>14, <1>15, <1>16, <1>17, <1>18, <1>19, <1>20, <1>21, <1>22, <1>23, <1>24,
     <1>25, <1>26, <1>27, <1>28, <1>29, <1>30, <1>31, <1>32, <1>33, <1>34, <1>35, <1>36,
     <1>37, <1>38, <1>39, <1>40
  DEF Next, Opener, Execute, Finish, Cleanup, Guarded, Taken, Watching, Disconnecting,
      Server

\* Only an idle session is taken, but for the disconnect that finds it busy.
LEMMA OwnerStep ==
  ASSUME IInv, [Next]_vars
  PROVE  OwnerInv'
<1>1. ASSUME Begin
      PROVE  OwnerInv'
  BY <1>1, ManualAssumption DEF IInv, TypeOK, PhaseInv, StepsInv, OwnerInv, Engaged,
      Executor, Discards, Actors, Begin, calls
<1>2. ASSUME BeginFails
      PROVE  OwnerInv'
  BY <1>2, ManualAssumption DEF IInv, TypeOK, PhaseInv, StepsInv, OwnerInv, Engaged,
      Executor, Discards, Actors, BeginFails, calls
<1>3. ASSUME Install
      PROVE  OwnerInv'
  BY <1>3, ManualAssumption DEF IInv, TypeOK, PhaseInv, StepsInv, OwnerInv, Engaged,
      Executor, Discards, Actors, Install, calls
<1>4. ASSUME NEW r \in Requests, ExecuteRefused(r)
      PROVE  OwnerInv'
  BY <1>4, ManualAssumption DEF IInv, TypeOK, PhaseInv, StepsInv, OwnerInv, Engaged,
      Executor, Discards, Actors, ExecuteRefused, Missing, Goto
<1>5. ASSUME NEW r \in Requests, NEW expired \in BOOLEAN, NEW n \in 0..MaxBatches,
             ExecuteStart(r, expired, n)
      PROVE  OwnerInv'
  BY <1>5, ManualAssumption DEF IInv, TypeOK, PhaseInv, StepsInv, OwnerInv, Engaged,
      Executor, Discards, Actors, ExecuteStart, Goto
<1>6. ASSUME NEW r \in Requests, ExecuteLock(r)
      PROVE  OwnerInv'
  BY <1>6, ManualAssumption DEF IInv, TypeOK, PhaseInv, StepsInv, OwnerInv, Engaged,
      Executor, Discards, Actors, ExecuteLock, Goto, calls
<1>7. ASSUME NEW r \in Requests, ExecuteUnfit(r)
      PROVE  OwnerInv'
  BY <1>7, ManualAssumption DEF IInv, TypeOK, PhaseInv, StepsInv, OwnerInv, Engaged,
      Executor, Discards, Actors, ExecuteUnfit, RemoveSession, InMap, Goto, calls
<1>8. ASSUME NEW r \in Requests, ReadOnlyRefused(r)
      PROVE  OwnerInv'
  BY <1>8, ManualAssumption DEF IInv, TypeOK, PhaseInv, StepsInv, OwnerInv, Engaged,
      Executor, Discards, Actors, ReadOnlyRefused, InMap, Goto
<1>9. ASSUME NEW r \in Requests, ReadOnlyPassed(r)
      PROVE  OwnerInv'
  BY <1>9, ManualAssumption DEF IInv, TypeOK, PhaseInv, StepsInv, OwnerInv, Engaged,
      Executor, Discards, Actors, ReadOnlyPassed, Goto, calls
<1>10. ASSUME NEW r \in Requests, SendBatch(r)
       PROVE  OwnerInv'
  BY <1>10, ManualAssumption DEF IInv, TypeOK, PhaseInv, StepsInv, OwnerInv, Engaged,
      Executor, Discards, Actors, SendBatch, Goto
<1>11. ASSUME NEW r \in Requests, NEW reply \in Replies, ReadBatch(r, reply)
       PROVE  OwnerInv'
  BY <1>11, ManualAssumption DEF IInv, TypeOK, PhaseInv, StepsInv, OwnerInv, Engaged,
      Executor, Discards, Actors, ReadBatch, Goto, calls
<1>12. ASSUME NEW r \in Requests, NEW step \in {"failed", "interrupted"}, RunFails(r, step)
       PROVE  OwnerInv'
  BY <1>12, ManualAssumption DEF IInv, TypeOK, PhaseInv, StepsInv, OwnerInv, Engaged,
      Executor, Discards, Actors, RunFails, Goto, calls
<1>13. ASSUME NEW r \in Requests, Interrupt(r)
       PROVE  OwnerInv'
  BY <1>13, ManualAssumption DEF IInv, TypeOK, PhaseInv, StepsInv, OwnerInv, Engaged,
      Executor, Discards, Actors, Interrupt, Goto, calls
<1>14. ASSUME NEW r \in Requests, ExecuteSucceeds(r)
       PROVE  OwnerInv'
  BY <1>14, ManualAssumption DEF IInv, TypeOK, PhaseInv, StepsInv, OwnerInv, Engaged,
      Executor, Discards, Actors, ExecuteSucceeds, InMap, Goto
<1>15. ASSUME NEW r \in Requests, ExecuteFails(r)
       PROVE  OwnerInv'
  <2>1. pc[r] \in {"failed", "interrupted"} /\ pc \in [Actors -> Steps] /\ r \in Actors
    BY <1>15 DEF ExecuteFails, IInv, TypeOK, Actors
  <2>2. \E step \in {"release", "rollback"} : pc' = [pc EXCEPT ![r] = step]
    BY <1>15 DEF ExecuteFails, Goto
  <2>3. sess' \in {sess, "gone"} /\ UNCHANGED <<mode, unfit>> /\ (sess # "busy" => sess' = sess)
    BY <2>1, <1>15 DEF ExecuteFails, RemoveSession, InMap, calls, IInv, OwnerInv, Engaged
  <2> QED
    BY <2>1, <2>2, <2>3 DEF IInv, OwnerInv, Engaged, Executor, Discards
<1>16. ASSUME NEW a \in Actors, SendRollback(a)
       PROVE  OwnerInv'
  BY <1>16, ManualAssumption DEF IInv, TypeOK, PhaseInv, StepsInv, OwnerInv, Engaged,
      Executor, Discards, Actors, SendRollback, Goto, calls
<1>17. ASSUME NEW a \in Actors, NEW reply \in Replies, ReadRollback(a, reply)
       PROVE  OwnerInv'
  BY <1>17, ManualAssumption DEF IInv, TypeOK, PhaseInv, StepsInv, OwnerInv, Engaged,
      Executor, Discards, Actors, ReadRollback, RollbackVerdict, Goto
<1>18. ASSUME NEW a \in Actors, RollbackFails(a)
       PROVE  OwnerInv'
  BY <1>18, ManualAssumption DEF IInv, TypeOK, PhaseInv, StepsInv, OwnerInv, Engaged,
      Executor, Discards, Actors, RollbackFails, Goto, calls
<1>19. ASSUME NEW a \in Actors, Release(a)
       PROVE  OwnerInv'
  BY <1>19, ManualAssumption DEF IInv, TypeOK, PhaseInv, StepsInv, OwnerInv, Engaged,
      Executor, Discards, Actors, Release, Goto
<1>20. ASSUME NEW r \in Requests, NEW end \in {"commit", "rollback"}, FinishStart(r, end)
       PROVE  OwnerInv'
  BY <1>20, ManualAssumption DEF IInv, TypeOK, PhaseInv, StepsInv, OwnerInv, Engaged,
      Executor, Discards, Actors, FinishStart, Goto
<1>21. ASSUME NEW r \in Requests, NEW expired \in BOOLEAN, FinishLock(r, expired)
       PROVE  OwnerInv'
  <2>1. pc[r] = "locking" /\ pc \in [Actors -> Steps] /\ r \in Actors
    BY <1>21 DEF FinishLock, IInv, TypeOK, Actors
  <2>2. \E step \in {"rollback", "ending"} : pc' = [pc EXCEPT ![r] = step]
    BY <1>21 DEF FinishLock, Goto
  <2>3. UNCHANGED <<sess, mode, unfit>>
    BY <1>21 DEF FinishLock, calls
  <2> QED
    BY <2>1, <2>2, <2>3 DEF IInv, OwnerInv, Engaged, Executor, Discards
<1>22. ASSUME NEW r \in Requests, SendEnd(r)
       PROVE  OwnerInv'
  BY <1>22, ManualAssumption DEF IInv, TypeOK, PhaseInv, StepsInv, OwnerInv, Engaged,
      Executor, Discards, Actors, SendEnd, Goto, calls
<1>23. ASSUME NEW r \in Requests, NEW reply \in Replies, ReadEnd(r, reply)
       PROVE  OwnerInv'
  BY <1>23, ManualAssumption DEF IInv, TypeOK, PhaseInv, StepsInv, OwnerInv, Engaged,
      Executor, Discards, Actors, ReadEnd, EndVerdict, Goto
<1>24. ASSUME NEW r \in Requests, EndFails(r)
       PROVE  OwnerInv'
  BY <1>24, ManualAssumption DEF IInv, TypeOK, PhaseInv, StepsInv, OwnerInv, Engaged,
      Executor, Discards, Actors, EndFails, Goto, calls
<1>25. ASSUME NEW r \in Requests, DropRequest(r)
       PROVE  OwnerInv'
  <2>1. pc \in [Actors -> Steps] /\ r \in Actors /\ Engaged(r)
    BY <1>25 DEF DropRequest, IInv, TypeOK, Actors, Executing, Finishing, Engaged
  <2>2. pc' = [pc EXCEPT ![r] = IF mode[r] = "execute" THEN "guard" ELSE "done"]
    BY <1>25 DEF DropRequest, Goto
  <2>3. UNCHANGED <<sess, mode, unfit>>
    BY <1>25 DEF DropRequest, calls
  <2> QED
    BY <2>1, <2>2, <2>3 DEF IInv, OwnerInv, Engaged, Executor, Discards
<1>26. ASSUME NEW r \in Requests, Guard(r)
       PROVE  OwnerInv'
  BY <1>26, ManualAssumption DEF IInv, TypeOK, PhaseInv, StepsInv, OwnerInv, Engaged,
      Executor, Discards, Actors, Guard, RemoveSession, InMap, Goto, calls
<1>27. ASSUME NEW r \in Requests, GuardInterrupts(r)
       PROVE  OwnerInv'
  BY <1>27, ManualAssumption DEF IInv, TypeOK, PhaseInv, StepsInv, OwnerInv, Engaged,
      Executor, Discards, Actors, GuardInterrupts, Goto, calls
<1>28. ASSUME CloseUnowned
       PROVE  OwnerInv'
  BY <1>28, ManualAssumption DEF IInv, TypeOK, PhaseInv, StepsInv, OwnerInv, Engaged,
      Executor, Discards, Actors, CloseUnowned, InMap, calls
<1>29. ASSUME WatcherExpires
       PROVE  OwnerInv'
  BY <1>29, ManualAssumption DEF IInv, TypeOK, PhaseInv, StepsInv, OwnerInv, Engaged,
      Executor, Discards, Actors, WatcherExpires, Goto, calls
<1>30. ASSUME WatcherReturns
       PROVE  OwnerInv'
  BY <1>30, ManualAssumption DEF IInv, TypeOK, PhaseInv, StepsInv, OwnerInv, Engaged,
      Executor, Discards, Actors, WatcherReturns, Goto, calls
<1>31. ASSUME Invalidate
       PROVE  OwnerInv'
  BY <1>31, ManualAssumption DEF IInv, TypeOK, PhaseInv, StepsInv, OwnerInv, Engaged,
      Executor, Discards, Actors, Invalidate, Goto, calls
<1>32. ASSUME TakeSession
       PROVE  OwnerInv'
  BY <1>32, ManualAssumption DEF IInv, TypeOK, PhaseInv, StepsInv, OwnerInv, Engaged,
      Executor, Discards, Actors, TakeSession, RemoveSession, InMap, Goto
<1>33. ASSUME NEW a \in Actors, RecordTaken(a)
       PROVE  OwnerInv'
  BY <1>33, ManualAssumption DEF IInv, TypeOK, PhaseInv, StepsInv, OwnerInv, Engaged,
      Executor, Discards, Actors, RecordTaken, Goto, calls
<1>34. ASSUME NEW a \in Actors, LockTaken(a)
       PROVE  OwnerInv'
  BY <1>34, ManualAssumption DEF IInv, TypeOK, PhaseInv, StepsInv, OwnerInv, Engaged,
      Executor, Discards, Actors, LockTaken, Goto, calls
<1>35. ASSUME ClearSessions
       PROVE  OwnerInv'
  BY <1>35, ManualAssumption DEF IInv, TypeOK, PhaseInv, StepsInv, OwnerInv, Engaged,
      Executor, Discards, Actors, ClearSessions, InMap, calls
<1>36. ASSUME Forget
       PROVE  OwnerInv'
  BY <1>36, ManualAssumption DEF IInv, TypeOK, PhaseInv, StepsInv, OwnerInv, Engaged,
      Executor, Discards, Actors, Forget, calls
<1>37. ASSUME NEW reply \in Replies, NEW after \in {"none", "open", "committed", "rolled_back"},
              ServerExecutes(reply, after)
       PROVE  OwnerInv'
  BY <1>37, ManualAssumption DEF IInv, TypeOK, PhaseInv, StepsInv, OwnerInv, Engaged,
      Executor, Discards, Actors, ServerExecutes, EndVerdict, calls
<1>38. ASSUME LinkBreaks
       PROVE  OwnerInv'
  BY <1>38, ManualAssumption DEF IInv, TypeOK, PhaseInv, StepsInv, OwnerInv, Engaged,
      Executor, Discards, Actors, LinkBreaks, calls
<1>39. ASSUME ServerEndsSession
       PROVE  OwnerInv'
  BY <1>39, ManualAssumption DEF IInv, TypeOK, PhaseInv, StepsInv, OwnerInv, Engaged,
      Executor, Discards, Actors, ServerEndsSession, calls
<1>40. ASSUME UNCHANGED vars
       PROVE  OwnerInv'
  BY <1>40, ManualAssumption DEF IInv, OwnerInv, Engaged, Executor, Discards, vars
<1> QED
  BY <1>1, <1>2, <1>3, <1>4, <1>5, <1>6, <1>7, <1>8, <1>9, <1>10, <1>11, <1>12,
     <1>13, <1>14, <1>15, <1>16, <1>17, <1>18, <1>19, <1>20, <1>21, <1>22, <1>23, <1>24,
     <1>25, <1>26, <1>27, <1>28, <1>29, <1>30, <1>31, <1>32, <1>33, <1>34, <1>35, <1>36,
     <1>37, <1>38, <1>39, <1>40
  DEF Next, Opener, Execute, Finish, Cleanup, Guarded, Taken, Watching, Disconnecting,
      Server

\* Nobody but the owner writes, and it reads the answer before it writes again.
LEMMA StreamStep ==
  ASSUME IInv, [Next]_vars
  PROVE  StreamInv'
<1>1. ASSUME Begin
      PROVE  StreamInv'
  BY <1>1, ManualAssumption DEF IInv, TypeOK, PhaseInv, StepsInv, OwnerInv, StreamInv,
      Clean, Answering, Engaged, Executor, Discards, Actors, Begin, calls
<1>2. ASSUME BeginFails
      PROVE  StreamInv'
  BY <1>2, ManualAssumption DEF IInv, TypeOK, PhaseInv, StepsInv, OwnerInv, StreamInv,
      Clean, Answering, Engaged, Executor, Discards, Actors, BeginFails, calls
<1>3. ASSUME Install
      PROVE  StreamInv'
  BY <1>3, ManualAssumption DEF IInv, TypeOK, PhaseInv, StepsInv, OwnerInv, StreamInv,
      Clean, Answering, Engaged, Executor, Discards, Actors, Install, calls
<1>4. ASSUME NEW r \in Requests, ExecuteRefused(r)
      PROVE  StreamInv'
  BY <1>4, ManualAssumption DEF IInv, TypeOK, PhaseInv, StepsInv, OwnerInv, StreamInv,
      Clean, Answering, Engaged, Executor, Discards, Actors, ExecuteRefused, Missing, Goto,
      wire
<1>5. ASSUME NEW r \in Requests, NEW expired \in BOOLEAN, NEW n \in 0..MaxBatches,
             ExecuteStart(r, expired, n)
      PROVE  StreamInv'
  BY <1>5, ManualAssumption DEF IInv, TypeOK, PhaseInv, StepsInv, OwnerInv, StreamInv,
      Clean, Answering, Engaged, Executor, Discards, Actors, ExecuteStart, Goto, wire
<1>6. ASSUME NEW r \in Requests, ExecuteLock(r)
      PROVE  StreamInv'
  BY <1>6, ManualAssumption DEF IInv, TypeOK, PhaseInv, StepsInv, OwnerInv, StreamInv,
      Clean, Answering, Engaged, Executor, Discards, Actors, ExecuteLock, Goto, wire, calls
<1>7. ASSUME NEW r \in Requests, ExecuteUnfit(r)
      PROVE  StreamInv'
  BY <1>7, ManualAssumption DEF IInv, TypeOK, PhaseInv, StepsInv, OwnerInv, StreamInv,
      Clean, Answering, Engaged, Executor, Discards, Actors, ExecuteUnfit, RemoveSession,
      InMap, Goto, wire, calls
<1>8. ASSUME NEW r \in Requests, ReadOnlyRefused(r)
      PROVE  StreamInv'
  BY <1>8, ManualAssumption DEF IInv, TypeOK, PhaseInv, StepsInv, OwnerInv, StreamInv,
      Clean, Answering, Engaged, Executor, Discards, Actors, ReadOnlyRefused, InMap, Goto,
      wire
<1>9. ASSUME NEW r \in Requests, ReadOnlyPassed(r)
      PROVE  StreamInv'
  BY <1>9, ManualAssumption DEF IInv, TypeOK, PhaseInv, StepsInv, OwnerInv, StreamInv,
      Clean, Answering, Engaged, Executor, Discards, Actors, ReadOnlyPassed, Goto, wire,
      calls
<1>10. ASSUME NEW r \in Requests, SendBatch(r)
       PROVE  StreamInv'
  <2>1. /\ pc[r] = "running" /\ pc' = [pc EXCEPT ![r] = "reading"] /\ pc \in [Actors -> Steps]
        /\ link = "up" /\ sent' = Append(sent, "query")
        /\ UNCHANGED <<link, replies, txn, sess, mode, unfit>>
    BY <1>10 DEF SendBatch, Write, Goto, calls, IInv, TypeOK
  <2>2. r \in Actors /\ Engaged(r) /\ ~Discards(r)
    BY <1>10, <2>1 DEF Actors, Engaged, Discards, IInv, StepsInv
  <2>3. sess \notin {"none", "idle"} /\ sent = <<>> /\ replies = <<>>
    BY <2>1, <2>2 DEF IInv, OwnerInv, StreamInv, Clean
  <2>4. sent' = <<"query">>
    BY <2>1, <2>3, OneElement
  <2>5. ASSUME NEW b \in Actors, b # r
        PROVE  /\ pc'[b] = pc[b]
               /\ \/ pc[b] \in {"new", "done", "stopped", "guardLock"}
                  \/ Discards(b)' /\ pc[b] \in {"taken", "locking", "release", "done"}
    BY <2>1, <2>2, <2>5, Alone DEF Discards
  <2>6. pc'[r] = "reading"
    BY <2>1, <2>2
  <2> QED
    BY <2>1, <2>2, <2>3, <2>4, <2>5, <2>6 DEF StreamInv, Clean, Answering
<1>11. ASSUME NEW r \in Requests, NEW reply \in Replies, ReadBatch(r, reply)
       PROVE  StreamInv'
  <2>1. /\ pc[r] = "reading" /\ pc \in [Actors -> Steps]
        /\ link = "up" /\ replies # <<>> /\ replies' = Tail(replies)
        /\ UNCHANGED <<link, sent, txn, sess, mode, unfit>>
    BY <1>11 DEF ReadBatch, Read, calls, IInv, TypeOK
  <2>2. \E step \in {"succeeded", "running", "failed", "interrupted"} :
          pc' = [pc EXCEPT ![r] = step]
    BY <1>11 DEF ReadBatch, Goto, Replies
  <2>3. r \in Actors /\ Engaged(r) /\ ~Discards(r)
    BY <1>11, <2>1 DEF Actors, Engaged, Discards, IInv, StepsInv
  <2>4. sess \notin {"none", "idle"} /\ Answering("query", "open")
    BY <2>1, <2>3 DEF IInv, OwnerInv, StreamInv
  <2>5. sent = <<>> /\ \E x \in Replies : replies = <<x>>
    BY <2>1, <2>4 DEF Answering
  <2>6. sent' = <<>> /\ replies' = <<>>
    BY <2>1, <2>5, OneElement
  <2>7. ASSUME NEW b \in Actors, b # r
        PROVE  /\ pc'[b] = pc[b]
               /\ \/ pc[b] \in {"new", "done", "stopped", "guardLock"}
                  \/ Discards(b)' /\ pc[b] \in {"taken", "locking", "release", "done"}
    BY <2>1, <2>2, <2>3, <2>7, Alone DEF Discards
  <2>8. pc'[r] \in {"succeeded", "running", "failed", "interrupted"}
    BY <2>1, <2>2, <2>3
  <2> QED
    BY <2>1, <2>6, <2>7, <2>8 DEF StreamInv, Clean
<1>12. ASSUME NEW r \in Requests, NEW step \in {"failed", "interrupted"}, RunFails(r, step)
       PROVE  StreamInv'
  BY <1>12, ManualAssumption DEF IInv, TypeOK, PhaseInv, StepsInv, OwnerInv, StreamInv,
      Clean, Answering, Engaged, Executor, Discards, Actors, RunFails, Goto, wire, calls
<1>13. ASSUME NEW r \in Requests, Interrupt(r)
       PROVE  StreamInv'
  BY <1>13, ManualAssumption DEF IInv, TypeOK, PhaseInv, StepsInv, OwnerInv, StreamInv,
      Clean, Answering, Engaged, Executor, Discards, Actors, Interrupt, Goto, wire, calls
<1>14. ASSUME NEW r \in Requests, ExecuteSucceeds(r)
       PROVE  StreamInv'
  BY <1>14, ManualAssumption DEF IInv, TypeOK, PhaseInv, StepsInv, OwnerInv, StreamInv,
      Clean, Answering, Engaged, Executor, Discards, Actors, ExecuteSucceeds, InMap, Goto,
      wire
<1>15. ASSUME NEW r \in Requests, ExecuteFails(r)
       PROVE  StreamInv'
  BY <1>15, ManualAssumption DEF IInv, TypeOK, PhaseInv, StepsInv, OwnerInv, StreamInv,
      Clean, Answering, Engaged, Executor, Discards, Actors, ExecuteFails, RemoveSession,
      InMap, Goto, wire, calls
<1>16. ASSUME NEW a \in Actors, SendRollback(a)
       PROVE  StreamInv'
  <2>1. /\ pc[a] = "rollback" /\ pc' = [pc EXCEPT ![a] = "rolling"] /\ pc \in [Actors -> Steps]
        /\ link = "up" /\ sent' = Append(sent, "rollback")
        /\ UNCHANGED <<link, replies, txn, sess, mode, unfit>>
    BY <1>16 DEF SendRollback, Write, Goto, calls, IInv, TypeOK
  <2>2. a \in Actors /\ Engaged(a) /\ ~Discards(a)
    BY <1>16, <2>1 DEF Actors, Engaged, Discards, IInv, StepsInv
  <2>3. sess \notin {"none", "idle"} /\ sent = <<>> /\ replies = <<>>
    BY <2>1, <2>2 DEF IInv, OwnerInv, StreamInv, Clean
  <2>4. sent' = <<"rollback">>
    BY <2>1, <2>3, OneElement
  <2>5. ASSUME NEW b \in Actors, b # a
        PROVE  /\ pc'[b] = pc[b]
               /\ \/ pc[b] \in {"new", "done", "stopped", "guardLock"}
                  \/ Discards(b)' /\ pc[b] \in {"taken", "locking", "release", "done"}
    BY <2>1, <2>2, <2>5, Alone DEF Discards
  <2>6. pc'[a] = "rolling"
    BY <2>1, <2>2
  <2> QED
    BY <2>1, <2>2, <2>3, <2>4, <2>5, <2>6 DEF StreamInv, Clean, Answering
<1>17. ASSUME NEW a \in Actors, NEW reply \in Replies, ReadRollback(a, reply)
       PROVE  StreamInv'
  <2>1. /\ pc[a] = "rolling" /\ pc \in [Actors -> Steps]
        /\ link = "up" /\ replies # <<>> /\ replies' = Tail(replies)
        /\ UNCHANGED <<link, sent, txn, sess, mode, unfit>>
    BY <1>17 DEF ReadRollback, Read, calls, IInv, TypeOK
  <2>2. \E step \in {"release"} :
          pc' = [pc EXCEPT ![a] = step]
    BY <1>17 DEF ReadRollback, Goto, Replies
  <2>3. a \in Actors /\ Engaged(a) /\ ~Discards(a)
    BY <1>17, <2>1 DEF Actors, Engaged, Discards, IInv, StepsInv
  <2>4. sess \notin {"none", "idle"} /\ Answering("rollback", "rolled_back")
    BY <2>1, <2>3 DEF IInv, OwnerInv, StreamInv
  <2>5. sent = <<>> /\ \E x \in Replies : replies = <<x>>
    BY <2>1, <2>4 DEF Answering
  <2>6. sent' = <<>> /\ replies' = <<>>
    BY <2>1, <2>5, OneElement
  <2>7. ASSUME NEW b \in Actors, b # a
        PROVE  /\ pc'[b] = pc[b]
               /\ \/ pc[b] \in {"new", "done", "stopped", "guardLock"}
                  \/ Discards(b)' /\ pc[b] \in {"taken", "locking", "release", "done"}
    BY <2>1, <2>2, <2>3, <2>7, Alone DEF Discards
  <2>8. pc'[a] \in {"release"}
    BY <2>1, <2>2, <2>3
  <2> QED
    BY <2>1, <2>6, <2>7, <2>8 DEF StreamInv, Clean
<1>18. ASSUME NEW a \in Actors, RollbackFails(a)
       PROVE  StreamInv'
  BY <1>18, ManualAssumption DEF IInv, TypeOK, PhaseInv, StepsInv, OwnerInv, StreamInv,
      Clean, Answering, Engaged, Executor, Discards, Actors, RollbackFails, Goto, wire,
      calls
<1>19. ASSUME NEW a \in Actors, Release(a)
       PROVE  StreamInv'
  BY <1>19, ManualAssumption DEF IInv, TypeOK, PhaseInv, StepsInv, OwnerInv, StreamInv,
      Clean, Answering, Engaged, Executor, Discards, Actors, Release, Goto
<1>20. ASSUME NEW r \in Requests, NEW end \in {"commit", "rollback"}, FinishStart(r, end)
       PROVE  StreamInv'
  BY <1>20, ManualAssumption DEF IInv, TypeOK, PhaseInv, StepsInv, OwnerInv, StreamInv,
      Clean, Answering, Engaged, Executor, Discards, Actors, FinishStart, Goto, wire
<1>21. ASSUME NEW r \in Requests, NEW expired \in BOOLEAN, FinishLock(r, expired)
       PROVE  StreamInv'
  BY <1>21, ManualAssumption DEF IInv, TypeOK, PhaseInv, StepsInv, OwnerInv, StreamInv,
      Clean, Answering, Engaged, Executor, Discards, Actors, FinishLock, Goto, wire, calls
<1>22. ASSUME NEW r \in Requests, SendEnd(r)
       PROVE  StreamInv'
  <2>1. /\ pc[r] = "ending" /\ pc' = [pc EXCEPT ![r] = "waiting"] /\ pc \in [Actors -> Steps]
        /\ link = "up" /\ sent' = Append(sent, mode[r])
        /\ UNCHANGED <<link, replies, txn, sess, mode, unfit>>
    BY <1>22 DEF SendEnd, Write, Goto, calls, IInv, TypeOK
  <2>2. r \in Actors /\ Engaged(r) /\ ~Discards(r)
    BY <1>22, <2>1 DEF Actors, Engaged, Discards, IInv, StepsInv
  <2>3. sess \notin {"none", "idle"} /\ sent = <<>> /\ replies = <<>>
    BY <2>1, <2>2 DEF IInv, OwnerInv, StreamInv, Clean
  <2>4. sent' = <<mode[r]>>
    BY <2>1, <2>3, OneElement
  <2>5. ASSUME NEW b \in Actors, b # r
        PROVE  /\ pc'[b] = pc[b]
               /\ \/ pc[b] \in {"new", "done", "stopped", "guardLock"}
                  \/ Discards(b)' /\ pc[b] \in {"taken", "locking", "release", "done"}
    BY <2>1, <2>2, <2>5, Alone DEF Discards
  <2>6. pc'[r] = "waiting"
    BY <2>1, <2>2
  <2> QED
    BY <2>1, <2>2, <2>3, <2>4, <2>5, <2>6 DEF StreamInv, Clean, Answering
<1>23. ASSUME NEW r \in Requests, NEW reply \in Replies, ReadEnd(r, reply)
       PROVE  StreamInv'
  <2>1. /\ pc[r] = "waiting" /\ pc \in [Actors -> Steps]
        /\ link = "up" /\ replies # <<>> /\ replies' = Tail(replies)
        /\ UNCHANGED <<link, sent, txn, sess, mode, unfit>>
    BY <1>23 DEF ReadEnd, Read, calls, IInv, TypeOK
  <2>2. \E step \in {"release"} :
          pc' = [pc EXCEPT ![r] = step]
    BY <1>23 DEF ReadEnd, Goto, Replies
  <2>3. r \in Actors /\ Engaged(r) /\ ~Discards(r)
    BY <1>23, <2>1 DEF Actors, Engaged, Discards, IInv, StepsInv
  <2>4. sess \notin {"none", "idle"} /\ Answering(mode[r], EndVerdict(mode[r]))
    BY <2>1, <2>3 DEF IInv, OwnerInv, StreamInv
  <2>5. sent = <<>> /\ \E x \in Replies : replies = <<x>>
    BY <2>1, <2>4 DEF Answering
  <2>6. sent' = <<>> /\ replies' = <<>>
    BY <2>1, <2>5, OneElement
  <2>7. ASSUME NEW b \in Actors, b # r
        PROVE  /\ pc'[b] = pc[b]
               /\ \/ pc[b] \in {"new", "done", "stopped", "guardLock"}
                  \/ Discards(b)' /\ pc[b] \in {"taken", "locking", "release", "done"}
    BY <2>1, <2>2, <2>3, <2>7, Alone DEF Discards
  <2>8. pc'[r] \in {"release"}
    BY <2>1, <2>2, <2>3
  <2> QED
    BY <2>1, <2>6, <2>7, <2>8 DEF StreamInv, Clean
<1>24. ASSUME NEW r \in Requests, EndFails(r)
       PROVE  StreamInv'
  BY <1>24, ManualAssumption DEF IInv, TypeOK, PhaseInv, StepsInv, OwnerInv, StreamInv,
      Clean, Answering, Engaged, Executor, Discards, Actors, EndFails, Goto, wire, calls
<1>25. ASSUME NEW r \in Requests, DropRequest(r)
       PROVE  StreamInv'
  BY <1>25, ManualAssumption DEF IInv, TypeOK, PhaseInv, StepsInv, OwnerInv, StreamInv,
      Clean, Answering, Engaged, Executor, Discards, Actors, DropRequest, Goto, wire, calls
<1>26. ASSUME NEW r \in Requests, Guard(r)
       PROVE  StreamInv'
  BY <1>26, ManualAssumption DEF IInv, TypeOK, PhaseInv, StepsInv, OwnerInv, StreamInv,
      Clean, Answering, Engaged, Executor, Discards, Actors, Guard, RemoveSession, InMap,
      Goto, wire, calls
<1>27. ASSUME NEW r \in Requests, GuardInterrupts(r)
       PROVE  StreamInv'
  BY <1>27, ManualAssumption DEF IInv, TypeOK, PhaseInv, StepsInv, OwnerInv, StreamInv,
      Clean, Answering, Engaged, Executor, Discards, Actors, GuardInterrupts, Goto, wire,
      calls
<1>28. ASSUME CloseUnowned
       PROVE  StreamInv'
  BY <1>28, ManualAssumption DEF IInv, TypeOK, PhaseInv, StepsInv, OwnerInv, StreamInv,
      Clean, Answering, Engaged, Executor, Discards, Actors, CloseUnowned, InMap, calls
<1>29. ASSUME WatcherExpires
       PROVE  StreamInv'
  BY <1>29, ManualAssumption DEF IInv, TypeOK, PhaseInv, StepsInv, OwnerInv, StreamInv,
      Clean, Answering, Engaged, Executor, Discards, Actors, WatcherExpires, Goto, wire,
      calls
<1>30. ASSUME WatcherReturns
       PROVE  StreamInv'
  BY <1>30, ManualAssumption DEF IInv, TypeOK, PhaseInv, StepsInv, OwnerInv, StreamInv,
      Clean, Answering, Engaged, Executor, Discards, Actors, WatcherReturns, Goto, wire,
      calls
<1>31. ASSUME Invalidate
       PROVE  StreamInv'
  BY <1>31, ManualAssumption DEF IInv, TypeOK, PhaseInv, StepsInv, OwnerInv, StreamInv,
      Clean, Answering, Engaged, Executor, Discards, Actors, Invalidate, Goto, wire, calls
<1>32. ASSUME TakeSession
       PROVE  StreamInv'
  BY <1>32, ManualAssumption DEF IInv, TypeOK, PhaseInv, StepsInv, OwnerInv, StreamInv,
      Clean, Answering, Engaged, Executor, Discards, Actors, TakeSession, RemoveSession,
      InMap, Goto, wire
<1>33. ASSUME NEW a \in Actors, RecordTaken(a)
       PROVE  StreamInv'
  BY <1>33, ManualAssumption DEF IInv, TypeOK, PhaseInv, StepsInv, OwnerInv, StreamInv,
      Clean, Answering, Engaged, Executor, Discards, Actors, RecordTaken, Goto, wire, calls
<1>34. ASSUME NEW a \in Actors, LockTaken(a)
       PROVE  StreamInv'
  BY <1>34, ManualAssumption DEF IInv, TypeOK, PhaseInv, StepsInv, OwnerInv, StreamInv,
      Clean, Answering, Engaged, Executor, Discards, Actors, LockTaken, Goto, wire, calls
<1>35. ASSUME ClearSessions
       PROVE  StreamInv'
  BY <1>35, ManualAssumption DEF IInv, TypeOK, PhaseInv, StepsInv, OwnerInv, StreamInv,
      Clean, Answering, Engaged, Executor, Discards, Actors, ClearSessions, InMap, wire,
      calls
<1>36. ASSUME Forget
       PROVE  StreamInv'
  BY <1>36, ManualAssumption DEF IInv, TypeOK, PhaseInv, StepsInv, OwnerInv, StreamInv,
      Clean, Answering, Engaged, Executor, Discards, Actors, Forget, wire, calls
<1>37. ASSUME NEW reply \in Replies, NEW after \in {"none", "open", "committed", "rolled_back"},
              ServerExecutes(reply, after)
       PROVE  StreamInv'
  <2>1. /\ sent # <<>> /\ sent' = Tail(sent) /\ txn' = after
        /\ replies' = IF link = "up" THEN Append(replies, reply) ELSE replies
        /\ UNCHANGED <<sess, link, pc, mode, unfit>>
    BY <1>37 DEF ServerExecutes, calls
  <2>2. ASSUME Clean PROVE Clean'
    BY <2>1, <2>2 DEF Clean
  <2>3. ASSUME NEW cmd \in Commands, NEW end, Answering(cmd, end),
               Head(sent) = cmd /\ reply = "ok" => after = end
        PROVE  Answering(cmd, end)'
    <3> SUFFICES ASSUME link = "up"
                 PROVE  sent' = <<>> /\ replies' = <<reply>> /\ (reply = "ok" => txn' = end)
      BY <2>1, <1>37 DEF Answering
    <3>1. sent = <<cmd>> /\ replies = <<>>
      BY <2>1, <2>3 DEF Answering
    <3> QED
      BY <2>1, <2>3, <3>1, OneElement
  <2>4. ASSUME NEW b \in Actors, pc[b] = "reading" PROVE Answering("query", "open")'
    <3>1. Head(sent) = "query" /\ reply = "ok" => after = "open"
      BY <1>37 DEF ServerExecutes
    <3> QED
      BY <2>3, <2>4, <3>1 DEF Commands, IInv, StreamInv
  <2>5. ASSUME NEW b \in Actors, pc[b] = "rolling" PROVE Answering("rollback", "rolled_back")'
    <3>1. Head(sent) = "rollback" /\ reply = "ok" => after = "rolled_back"
      BY <1>37 DEF ServerExecutes, EndVerdict
    <3> QED
      BY <2>3, <2>5, <3>1 DEF Commands, IInv, StreamInv
  <2>6. ASSUME NEW b \in Actors, pc[b] = "waiting"
        PROVE  Answering(mode[b], EndVerdict(mode[b]))'
    <3>1. mode[b] \in {"commit", "rollback"}
      BY <2>6 DEF IInv, TypeOK, StepsInv
    <3>2. Head(sent) = mode[b] /\ reply = "ok" => after = EndVerdict(mode[b])
      BY <1>37, <3>1 DEF ServerExecutes
    <3>3. Answering(mode[b], EndVerdict(mode[b]))
      BY <2>6 DEF IInv, StreamInv
    <3>4. mode' = mode /\ mode[b] \in Commands
      BY <2>1, <3>1 DEF Commands
    <3>5. ASSUME NEW cmd, cmd = mode[b], NEW end, end = EndVerdict(mode[b])
          PROVE  Answering(cmd, end)'
      BY <2>3, <3>2, <3>3, <3>4, <3>5
    <3> QED
      BY <3>4, <3>5 DEF Answering, EndVerdict
  <2>7. StreamInv /\ UNCHANGED <<sess, pc, unfit>>
    BY <2>1 DEF IInv
  <2> QED
    BY <2>2, <2>4, <2>5, <2>6, <2>7 DEF StreamInv, Discards
<1>38. ASSUME LinkBreaks
       PROVE  StreamInv'
  BY <1>38, ManualAssumption DEF IInv, TypeOK, PhaseInv, StepsInv, OwnerInv, StreamInv,
      Clean, Answering, Engaged, Executor, Discards, Actors, LinkBreaks, calls
<1>39. ASSUME ServerEndsSession
       PROVE  StreamInv'
  BY <1>39, ManualAssumption DEF IInv, TypeOK, PhaseInv, StepsInv, OwnerInv, StreamInv,
      Clean, Answering, Engaged, Executor, Discards, Actors, ServerEndsSession, calls
<1>40. ASSUME UNCHANGED vars
       PROVE  StreamInv'
  BY <1>40, ManualAssumption DEF IInv, StreamInv, Clean, Answering, EndVerdict, Discards,
      vars
<1> QED
  BY <1>1, <1>2, <1>3, <1>4, <1>5, <1>6, <1>7, <1>8, <1>9, <1>10, <1>11, <1>12,
     <1>13, <1>14, <1>15, <1>16, <1>17, <1>18, <1>19, <1>20, <1>21, <1>22, <1>23, <1>24,
     <1>25, <1>26, <1>27, <1>28, <1>29, <1>30, <1>31, <1>32, <1>33, <1>34, <1>35, <1>36,
     <1>37, <1>38, <1>39, <1>40
  DEF Next, Opener, Execute, Finish, Cleanup, Guarded, Taken, Watching, Disconnecting,
      Server

\* What is recorded or told is what the server did, and the server does not go back on it.
LEMMA TruthStep ==
  ASSUME IInv, [Next]_vars
  PROVE  TruthInv'
<1>1. ASSUME Begin
      PROVE  TruthInv'
  BY <1>1 DEF IInv, TypeOK, PhaseInv, StreamInv, TruthInv, OutcomesAreHonest,
      RecordIsHonest, RepliesAreHonest, Honest, Actors, Begin, calls
<1>2. ASSUME BeginFails
      PROVE  TruthInv'
  BY <1>2 DEF IInv, TypeOK, PhaseInv, StreamInv, TruthInv, OutcomesAreHonest,
      RecordIsHonest, RepliesAreHonest, Honest, Actors, BeginFails, calls
<1>3. ASSUME Install
      PROVE  TruthInv'
  BY <1>3 DEF IInv, TypeOK, PhaseInv, StreamInv, TruthInv, OutcomesAreHonest,
      RecordIsHonest, RepliesAreHonest, Honest, Actors, Install, calls
<1>4. ASSUME NEW r \in Requests, ExecuteRefused(r)
      PROVE  TruthInv'
  BY <1>4 DEF IInv, TypeOK, PhaseInv, StreamInv, TruthInv, OutcomesAreHonest,
      RecordIsHonest, RepliesAreHonest, Honest, Actors, ExecuteRefused, Tell, Missing, wire
<1>5. ASSUME NEW r \in Requests, NEW expired \in BOOLEAN, NEW n \in 0..MaxBatches,
             ExecuteStart(r, expired, n)
      PROVE  TruthInv'
  BY <1>5 DEF IInv, TypeOK, PhaseInv, StreamInv, TruthInv, OutcomesAreHonest,
      RecordIsHonest, RepliesAreHonest, Honest, Actors, ExecuteStart, wire
<1>6. ASSUME NEW r \in Requests, ExecuteLock(r)
      PROVE  TruthInv'
  BY <1>6 DEF IInv, TypeOK, PhaseInv, StreamInv, TruthInv, OutcomesAreHonest,
      RecordIsHonest, RepliesAreHonest, Honest, Actors, ExecuteLock, wire, calls
<1>7. ASSUME NEW r \in Requests, ExecuteUnfit(r)
      PROVE  TruthInv'
  BY <1>7 DEF IInv, TypeOK, PhaseInv, StreamInv, TruthInv, OutcomesAreHonest,
      RecordIsHonest, RepliesAreHonest, Honest, Actors, ExecuteUnfit, InMap, wire, calls
<1>8. ASSUME NEW r \in Requests, ReadOnlyRefused(r)
      PROVE  TruthInv'
  BY <1>8 DEF IInv, TypeOK, PhaseInv, StreamInv, TruthInv, OutcomesAreHonest,
      RecordIsHonest, RepliesAreHonest, Honest, Actors, ReadOnlyRefused, InMap, Tell, wire
<1>9. ASSUME NEW r \in Requests, ReadOnlyPassed(r)
      PROVE  TruthInv'
  BY <1>9 DEF IInv, TypeOK, PhaseInv, StreamInv, TruthInv, OutcomesAreHonest,
      RecordIsHonest, RepliesAreHonest, Honest, Actors, ReadOnlyPassed, wire, calls
<1>10. ASSUME NEW r \in Requests, SendBatch(r)
       PROVE  TruthInv'
  BY <1>10 DEF IInv, TypeOK, PhaseInv, StreamInv, TruthInv, OutcomesAreHonest,
      RecordIsHonest, RepliesAreHonest, Honest, Actors, SendBatch, Write
<1>11. ASSUME NEW r \in Requests, NEW reply \in Replies, ReadBatch(r, reply)
       PROVE  TruthInv'
  BY <1>11 DEF IInv, TypeOK, PhaseInv, StreamInv, TruthInv, OutcomesAreHonest,
      RecordIsHonest, RepliesAreHonest, Honest, Actors, ReadBatch, Read, calls
<1>12. ASSUME NEW r \in Requests, NEW step \in {"failed", "interrupted"}, RunFails(r, step)
       PROVE  TruthInv'
  BY <1>12 DEF IInv, TypeOK, PhaseInv, StreamInv, TruthInv, OutcomesAreHonest,
      RecordIsHonest, RepliesAreHonest, Honest, Actors, RunFails, wire, calls
<1>13. ASSUME NEW r \in Requests, Interrupt(r)
       PROVE  TruthInv'
  BY <1>13 DEF IInv, TypeOK, PhaseInv, StreamInv, TruthInv, OutcomesAreHonest,
      RecordIsHonest, RepliesAreHonest, Honest, Actors, Interrupt, wire, calls
<1>14. ASSUME NEW r \in Requests, ExecuteSucceeds(r)
       PROVE  TruthInv'
  BY <1>14 DEF IInv, TypeOK, PhaseInv, StreamInv, TruthInv, OutcomesAreHonest,
      RecordIsHonest, RepliesAreHonest, Honest, Actors, ExecuteSucceeds, InMap, Tell, wire
<1>15. ASSUME NEW r \in Requests, ExecuteFails(r)
       PROVE  TruthInv'
  BY <1>15 DEF IInv, TypeOK, PhaseInv, StreamInv, TruthInv, OutcomesAreHonest,
      RecordIsHonest, RepliesAreHonest, Honest, Actors, ExecuteFails, InMap, wire, calls
<1>16. ASSUME NEW a \in Actors, SendRollback(a)
       PROVE  TruthInv'
  BY <1>16 DEF IInv, TypeOK, PhaseInv, StreamInv, TruthInv, OutcomesAreHonest,
      RecordIsHonest, RepliesAreHonest, Honest, Actors, SendRollback, Write, calls
<1>17. ASSUME NEW a \in Actors, NEW reply \in Replies, ReadRollback(a, reply)
       PROVE  TruthInv'
  <2>1. /\ pc[a] = "rolling" /\ link = "up" /\ replies # <<>> /\ reply = Head(replies)
        /\ UNCHANGED <<txn, told, mode>> /\ a \in Actors
        /\ verdict \in [Actors -> Outcomes]
    BY <1>17 DEF ReadRollback, Read, IInv, TypeOK, Actors
  <2>2. \E x \in Replies : replies = <<x>> /\ (x = "ok" => txn = "rolled_back")
    BY <2>1 DEF IInv, StreamInv, Answering
  <2>3. reply = "ok" => txn = "rolled_back"
    BY <2>1, <2>2, OneElement
  <2>4. /\ verdict' = [verdict EXCEPT ![a] = IF reply = "ok" THEN "rolled_back" ELSE "unknown"]
        /\ record' = record
    BY <1>17 DEF ReadRollback, RollbackVerdict
  <2> QED
    BY <2>1, <2>3, <2>4 DEF IInv, TruthInv, OutcomesAreHonest, RecordIsHonest, RepliesAreHonest,
       Honest
<1>18. ASSUME NEW a \in Actors, RollbackFails(a)
       PROVE  TruthInv'
  BY <1>18 DEF IInv, TypeOK, PhaseInv, StreamInv, TruthInv, OutcomesAreHonest,
      RecordIsHonest, RepliesAreHonest, Honest, Actors, RollbackFails, wire, calls
<1>19. ASSUME NEW a \in Actors, Release(a)
       PROVE  TruthInv'
  BY <1>19 DEF IInv, TypeOK, PhaseInv, StreamInv, TruthInv, OutcomesAreHonest,
      RecordIsHonest, RepliesAreHonest, Honest, Actors, Release
<1>20. ASSUME NEW r \in Requests, NEW end \in {"commit", "rollback"}, FinishStart(r, end)
       PROVE  TruthInv'
  BY <1>20 DEF IInv, TypeOK, PhaseInv, StreamInv, TruthInv, OutcomesAreHonest,
      RecordIsHonest, RepliesAreHonest, Honest, Actors, FinishStart, wire
<1>21. ASSUME NEW r \in Requests, NEW expired \in BOOLEAN, FinishLock(r, expired)
       PROVE  TruthInv'
  BY <1>21 DEF IInv, TypeOK, PhaseInv, StreamInv, TruthInv, OutcomesAreHonest,
      RecordIsHonest, RepliesAreHonest, Honest, Actors, FinishLock, wire, calls
<1>22. ASSUME NEW r \in Requests, SendEnd(r)
       PROVE  TruthInv'
  BY <1>22 DEF IInv, TypeOK, PhaseInv, StreamInv, TruthInv, OutcomesAreHonest,
      RecordIsHonest, RepliesAreHonest, Honest, Actors, SendEnd, Write, calls
<1>23. ASSUME NEW r \in Requests, NEW reply \in Replies, ReadEnd(r, reply)
       PROVE  TruthInv'
  <2>1. /\ pc[r] = "waiting" /\ link = "up" /\ replies # <<>> /\ reply = Head(replies)
        /\ UNCHANGED <<txn, told, mode>> /\ r \in Actors
        /\ verdict \in [Actors -> Outcomes]
    BY <1>23 DEF ReadEnd, Read, IInv, TypeOK, Actors
  <2>2. \E x \in Replies : replies = <<x>> /\ (x = "ok" => txn = EndVerdict(mode[r]))
    BY <2>1 DEF IInv, StreamInv, Answering
  <2>3. reply = "ok" => txn = EndVerdict(mode[r])
    BY <2>1, <2>2, OneElement
  <2>4. /\ verdict' = [verdict EXCEPT ![r] = IF reply = "ok" THEN EndVerdict(mode[r])
                                                  ELSE "unknown"]
        /\ record' = IF reply = "ok" THEN EndVerdict(mode[r]) ELSE record
    BY <1>23 DEF ReadEnd
  <2> QED
    BY <2>1, <2>3, <2>4 DEF IInv, TruthInv, OutcomesAreHonest, RecordIsHonest, RepliesAreHonest,
       Honest
<1>24. ASSUME NEW r \in Requests, EndFails(r)
       PROVE  TruthInv'
  BY <1>24 DEF IInv, TypeOK, PhaseInv, StreamInv, TruthInv, OutcomesAreHonest,
      RecordIsHonest, RepliesAreHonest, Honest, Actors, EndFails, wire, calls
<1>25. ASSUME NEW r \in Requests, DropRequest(r)
       PROVE  TruthInv'
  BY <1>25 DEF IInv, TypeOK, PhaseInv, StreamInv, TruthInv, OutcomesAreHonest,
      RecordIsHonest, RepliesAreHonest, Honest, Actors, DropRequest, wire, calls
<1>26. ASSUME NEW r \in Requests, Guard(r)
       PROVE  TruthInv'
  BY <1>26 DEF IInv, TypeOK, PhaseInv, StreamInv, TruthInv, OutcomesAreHonest,
      RecordIsHonest, RepliesAreHonest, Honest, Actors, Guard, InMap, wire, calls
<1>27. ASSUME NEW r \in Requests, GuardInterrupts(r)
       PROVE  TruthInv'
  BY <1>27 DEF IInv, TypeOK, PhaseInv, StreamInv, TruthInv, OutcomesAreHonest,
      RecordIsHonest, RepliesAreHonest, Honest, Actors, GuardInterrupts, wire, calls
<1>28. ASSUME CloseUnowned
       PROVE  TruthInv'
  BY <1>28 DEF IInv, TypeOK, PhaseInv, StreamInv, TruthInv, OutcomesAreHonest,
      RecordIsHonest, RepliesAreHonest, Honest, Actors, CloseUnowned, InMap, calls
<1>29. ASSUME WatcherExpires
       PROVE  TruthInv'
  BY <1>29 DEF IInv, TypeOK, PhaseInv, StreamInv, TruthInv, OutcomesAreHonest,
      RecordIsHonest, RepliesAreHonest, Honest, Actors, WatcherExpires, wire, calls
<1>30. ASSUME WatcherReturns
       PROVE  TruthInv'
  BY <1>30 DEF IInv, TypeOK, PhaseInv, StreamInv, TruthInv, OutcomesAreHonest,
      RecordIsHonest, RepliesAreHonest, Honest, Actors, WatcherReturns, wire, calls
<1>31. ASSUME Invalidate
       PROVE  TruthInv'
  BY <1>31 DEF IInv, TypeOK, PhaseInv, StreamInv, TruthInv, OutcomesAreHonest,
      RecordIsHonest, RepliesAreHonest, Honest, Actors, Invalidate, wire, calls
<1>32. ASSUME TakeSession
       PROVE  TruthInv'
  BY <1>32 DEF IInv, TypeOK, PhaseInv, StreamInv, TruthInv, OutcomesAreHonest,
      RecordIsHonest, RepliesAreHonest, Honest, Actors, TakeSession, InMap, wire
<1>33. ASSUME NEW a \in Actors, RecordTaken(a)
       PROVE  TruthInv'
  BY <1>33 DEF IInv, TypeOK, PhaseInv, StreamInv, TruthInv, OutcomesAreHonest,
      RecordIsHonest, RepliesAreHonest, Honest, Actors, RecordTaken, wire, calls
<1>34. ASSUME NEW a \in Actors, LockTaken(a)
       PROVE  TruthInv'
  BY <1>34 DEF IInv, TypeOK, PhaseInv, StreamInv, TruthInv, OutcomesAreHonest,
      RecordIsHonest, RepliesAreHonest, Honest, Actors, LockTaken, wire, calls
<1>35. ASSUME ClearSessions
       PROVE  TruthInv'
  BY <1>35 DEF IInv, TypeOK, PhaseInv, StreamInv, TruthInv, OutcomesAreHonest,
      RecordIsHonest, RepliesAreHonest, Honest, Actors, ClearSessions, InMap, wire, calls
<1>36. ASSUME Forget
       PROVE  TruthInv'
  BY <1>36 DEF IInv, TypeOK, PhaseInv, StreamInv, TruthInv, OutcomesAreHonest,
      RecordIsHonest, RepliesAreHonest, Honest, Actors, Forget, wire, calls
<1>37. ASSUME NEW reply \in Replies, NEW after \in {"none", "open", "committed", "rolled_back"},
              ServerExecutes(reply, after)
       PROVE  TruthInv'
  BY <1>37 DEF IInv, TypeOK, PhaseInv, StreamInv, TruthInv, OutcomesAreHonest,
      RecordIsHonest, RepliesAreHonest, Honest, Actors, ServerExecutes, EndVerdict, calls
<1>38. ASSUME LinkBreaks
       PROVE  TruthInv'
  BY <1>38 DEF IInv, TypeOK, PhaseInv, StreamInv, TruthInv, OutcomesAreHonest,
      RecordIsHonest, RepliesAreHonest, Honest, Actors, LinkBreaks, calls
<1>39. ASSUME ServerEndsSession
       PROVE  TruthInv'
  BY <1>39 DEF IInv, TypeOK, PhaseInv, StreamInv, TruthInv, OutcomesAreHonest,
      RecordIsHonest, RepliesAreHonest, Honest, Actors, ServerEndsSession, calls
<1>40. ASSUME UNCHANGED vars
       PROVE  TruthInv'
  BY <1>40 DEF IInv, TruthInv, OutcomesAreHonest, RecordIsHonest, RepliesAreHonest, Honest,
      vars
<1> QED
  BY <1>1, <1>2, <1>3, <1>4, <1>5, <1>6, <1>7, <1>8, <1>9, <1>10, <1>11, <1>12,
     <1>13, <1>14, <1>15, <1>16, <1>17, <1>18, <1>19, <1>20, <1>21, <1>22, <1>23, <1>24,
     <1>25, <1>26, <1>27, <1>28, <1>29, <1>30, <1>31, <1>32, <1>33, <1>34, <1>35, <1>36,
     <1>37, <1>38, <1>39, <1>40
  DEF Next, Opener, Execute, Finish, Cleanup, Guarded, Taken, Watching, Disconnecting,
      Server

\* The one who commits is the last to record.
LEMMA KeptStep ==
  ASSUME IInv, [Next]_vars
  PROVE  KeptInv'
<1>1. ASSUME Begin
      PROVE  KeptInv'
  BY <1>1, ManualAssumption DEF IInv, TypeOK, PhaseInv, StepsInv, OwnerInv, KeptInv,
      Engaged, Executor, Discards, Actors, Begin, calls
<1>2. ASSUME BeginFails
      PROVE  KeptInv'
  BY <1>2, ManualAssumption DEF IInv, TypeOK, PhaseInv, StepsInv, OwnerInv, KeptInv,
      Engaged, Executor, Discards, Actors, BeginFails, calls
<1>3. ASSUME Install
      PROVE  KeptInv'
  BY <1>3, ManualAssumption DEF IInv, TypeOK, PhaseInv, StepsInv, OwnerInv, KeptInv,
      Engaged, Executor, Discards, Actors, Install, calls
<1>4. ASSUME NEW r \in Requests, ExecuteRefused(r)
      PROVE  KeptInv'
  BY <1>4, ManualAssumption DEF IInv, TypeOK, PhaseInv, StepsInv, OwnerInv, KeptInv,
      Engaged, Executor, Discards, Actors, ExecuteRefused, Missing, Goto
<1>5. ASSUME NEW r \in Requests, NEW expired \in BOOLEAN, NEW n \in 0..MaxBatches,
             ExecuteStart(r, expired, n)
      PROVE  KeptInv'
  BY <1>5, ManualAssumption DEF IInv, TypeOK, PhaseInv, StepsInv, OwnerInv, KeptInv,
      Engaged, Executor, Discards, Actors, ExecuteStart, Goto
<1>6. ASSUME NEW r \in Requests, ExecuteLock(r)
      PROVE  KeptInv'
  BY <1>6, ManualAssumption DEF IInv, TypeOK, PhaseInv, StepsInv, OwnerInv, KeptInv,
      Engaged, Executor, Discards, Actors, ExecuteLock, Goto, calls
<1>7. ASSUME NEW r \in Requests, ExecuteUnfit(r)
      PROVE  KeptInv'
  BY <1>7, ManualAssumption DEF IInv, TypeOK, PhaseInv, StepsInv, OwnerInv, KeptInv,
      Engaged, Executor, Discards, Actors, ExecuteUnfit, RemoveSession, InMap, Goto, calls
<1>8. ASSUME NEW r \in Requests, ReadOnlyRefused(r)
      PROVE  KeptInv'
  BY <1>8, ManualAssumption DEF IInv, TypeOK, PhaseInv, StepsInv, OwnerInv, KeptInv,
      Engaged, Executor, Discards, Actors, ReadOnlyRefused, InMap, Goto
<1>9. ASSUME NEW r \in Requests, ReadOnlyPassed(r)
      PROVE  KeptInv'
  BY <1>9, ManualAssumption DEF IInv, TypeOK, PhaseInv, StepsInv, OwnerInv, KeptInv,
      Engaged, Executor, Discards, Actors, ReadOnlyPassed, Goto, calls
<1>10. ASSUME NEW r \in Requests, SendBatch(r)
       PROVE  KeptInv'
  BY <1>10, ManualAssumption DEF IInv, TypeOK, PhaseInv, StepsInv, OwnerInv, KeptInv,
      Engaged, Executor, Discards, Actors, SendBatch, Goto
<1>11. ASSUME NEW r \in Requests, NEW reply \in Replies, ReadBatch(r, reply)
       PROVE  KeptInv'
  BY <1>11, ManualAssumption DEF IInv, TypeOK, PhaseInv, StepsInv, OwnerInv, KeptInv,
      Engaged, Executor, Discards, Actors, ReadBatch, Goto, calls
<1>12. ASSUME NEW r \in Requests, NEW step \in {"failed", "interrupted"}, RunFails(r, step)
       PROVE  KeptInv'
  BY <1>12, ManualAssumption DEF IInv, TypeOK, PhaseInv, StepsInv, OwnerInv, KeptInv,
      Engaged, Executor, Discards, Actors, RunFails, Goto, calls
<1>13. ASSUME NEW r \in Requests, Interrupt(r)
       PROVE  KeptInv'
  BY <1>13, ManualAssumption DEF IInv, TypeOK, PhaseInv, StepsInv, OwnerInv, KeptInv,
      Engaged, Executor, Discards, Actors, Interrupt, Goto, calls
<1>14. ASSUME NEW r \in Requests, ExecuteSucceeds(r)
       PROVE  KeptInv'
  BY <1>14, ManualAssumption DEF IInv, TypeOK, PhaseInv, StepsInv, OwnerInv, KeptInv,
      Engaged, Executor, Discards, Actors, ExecuteSucceeds, InMap, Goto
<1>15. ASSUME NEW r \in Requests, ExecuteFails(r)
       PROVE  KeptInv'
  BY <1>15, ManualAssumption DEF IInv, TypeOK, PhaseInv, StepsInv, OwnerInv, KeptInv,
      Engaged, Executor, Discards, Actors, ExecuteFails, RemoveSession, InMap, Goto, calls
<1>16. ASSUME NEW a \in Actors, SendRollback(a)
       PROVE  KeptInv'
  BY <1>16, ManualAssumption DEF IInv, TypeOK, PhaseInv, StepsInv, OwnerInv, KeptInv,
      Engaged, Executor, Discards, Actors, SendRollback, Goto, calls
<1>17. ASSUME NEW a \in Actors, NEW reply \in Replies, ReadRollback(a, reply)
       PROVE  KeptInv'
  BY <1>17, ManualAssumption DEF IInv, TypeOK, PhaseInv, StepsInv, OwnerInv, KeptInv,
      Engaged, Executor, Discards, Actors, ReadRollback, RollbackVerdict, Goto
<1>18. ASSUME NEW a \in Actors, RollbackFails(a)
       PROVE  KeptInv'
  BY <1>18, ManualAssumption DEF IInv, TypeOK, PhaseInv, StepsInv, OwnerInv, KeptInv,
      Engaged, Executor, Discards, Actors, RollbackFails, Goto, calls
<1>19. ASSUME NEW a \in Actors, Release(a)
       PROVE  KeptInv'
  <2>1. /\ pc[a] = "release" /\ pc' = [pc EXCEPT ![a] = "done"] /\ pc \in [Actors -> Steps]
        /\ record' = verdict[a] /\ UNCHANGED <<sess, verdict>>
    BY <1>19 DEF Release, Goto, IInv, TypeOK
  <2> SUFFICES ASSUME verdict[a] = "committed"
               PROVE  /\ sess = "gone"
                      /\ \A b \in Actors \ {a} : pc[b] \in {"new", "done", "stopped", "guardLock"}
    BY <2>1 DEF KeptInv
  <2>2. Engaged(a) /\ a \in Requests /\ mode[a] # "execute" /\ ~Discards(a)
    BY <2>1, ManualAssumption DEF Engaged, Discards, IInv, StepsInv
  <2>3. sess = "gone"
    BY <2>2 DEF IInv, TypeOK, OwnerInv, Executor
  <2>4. ASSUME NEW b \in Actors, b # a PROVE pc[b] \in {"new", "done", "stopped", "guardLock"}
    BY <2>2, <2>4 DEF IInv, OwnerInv, Engaged, Executor, Discards
  <2> QED
    BY <2>3, <2>4
<1>20. ASSUME NEW r \in Requests, NEW end \in {"commit", "rollback"}, FinishStart(r, end)
       PROVE  KeptInv'
  BY <1>20, ManualAssumption DEF IInv, TypeOK, PhaseInv, StepsInv, OwnerInv, KeptInv,
      Engaged, Executor, Discards, Actors, FinishStart, Goto
<1>21. ASSUME NEW r \in Requests, NEW expired \in BOOLEAN, FinishLock(r, expired)
       PROVE  KeptInv'
  BY <1>21, ManualAssumption DEF IInv, TypeOK, PhaseInv, StepsInv, OwnerInv, KeptInv,
      Engaged, Executor, Discards, Actors, FinishLock, Goto, calls
<1>22. ASSUME NEW r \in Requests, SendEnd(r)
       PROVE  KeptInv'
  BY <1>22, ManualAssumption DEF IInv, TypeOK, PhaseInv, StepsInv, OwnerInv, KeptInv,
      Engaged, Executor, Discards, Actors, SendEnd, Goto, calls
<1>23. ASSUME NEW r \in Requests, NEW reply \in Replies, ReadEnd(r, reply)
       PROVE  KeptInv'
  <2>1. /\ pc[r] = "waiting" /\ pc' = [pc EXCEPT ![r] = "release"] /\ pc \in [Actors -> Steps]
        /\ record' = IF reply = "ok" THEN EndVerdict(mode[r]) ELSE record
        /\ verdict' = [verdict EXCEPT ![r] = IF reply = "ok" THEN EndVerdict(mode[r])
                                                  ELSE "unknown"]
        /\ verdict \in [Actors -> Outcomes]
        /\ UNCHANGED <<sess, mode, unfit>> /\ r \in Actors
    BY <1>23 DEF ReadEnd, Goto, IInv, TypeOK, Actors
  <2>2. Engaged(r) /\ mode[r] # "execute" /\ ~Discards(r) /\ r # Disconnector
    BY <1>23, <2>1, ManualAssumption DEF Engaged, Discards, IInv, StepsInv
  <2>3. sess = "gone"
    BY <2>1, <2>2 DEF IInv, TypeOK, OwnerInv, Executor
  <2>4. ASSUME NEW b \in Actors, b # r PROVE pc[b] \in {"new", "done", "stopped", "guardLock"}
    BY <2>1, <2>2, <2>4 DEF IInv, OwnerInv, Engaged, Executor, Discards
  <2>5. record # "committed"
    BY <2>1 DEF IInv, KeptInv
  <2>6. verdict'[r] = "committed" \/ record' # "committed"
    BY <2>1, <2>5
  <2> QED
    BY <2>1, <2>3, <2>4, <2>6 DEF KeptInv
<1>24. ASSUME NEW r \in Requests, EndFails(r)
       PROVE  KeptInv'
  BY <1>24, ManualAssumption DEF IInv, TypeOK, PhaseInv, StepsInv, OwnerInv, KeptInv,
      Engaged, Executor, Discards, Actors, EndFails, Goto, calls
<1>25. ASSUME NEW r \in Requests, DropRequest(r)
       PROVE  KeptInv'
  BY <1>25, ManualAssumption DEF IInv, TypeOK, PhaseInv, StepsInv, OwnerInv, KeptInv,
      Engaged, Executor, Discards, Actors, DropRequest, Goto, calls
<1>26. ASSUME NEW r \in Requests, Guard(r)
       PROVE  KeptInv'
  BY <1>26, ManualAssumption DEF IInv, TypeOK, PhaseInv, StepsInv, OwnerInv, KeptInv,
      Engaged, Executor, Discards, Actors, Guard, RemoveSession, InMap, Goto, calls
<1>27. ASSUME NEW r \in Requests, GuardInterrupts(r)
       PROVE  KeptInv'
  BY <1>27, ManualAssumption DEF IInv, TypeOK, PhaseInv, StepsInv, OwnerInv, KeptInv,
      Engaged, Executor, Discards, Actors, GuardInterrupts, Goto, calls
<1>28. ASSUME CloseUnowned
       PROVE  KeptInv'
  BY <1>28, ManualAssumption DEF IInv, TypeOK, PhaseInv, StepsInv, OwnerInv, KeptInv,
      Engaged, Executor, Discards, Actors, CloseUnowned, InMap, calls
<1>29. ASSUME WatcherExpires
       PROVE  KeptInv'
  BY <1>29, ManualAssumption DEF IInv, TypeOK, PhaseInv, StepsInv, OwnerInv, KeptInv,
      Engaged, Executor, Discards, Actors, WatcherExpires, Goto, calls
<1>30. ASSUME WatcherReturns
       PROVE  KeptInv'
  BY <1>30, ManualAssumption DEF IInv, TypeOK, PhaseInv, StepsInv, OwnerInv, KeptInv,
      Engaged, Executor, Discards, Actors, WatcherReturns, Goto, calls
<1>31. ASSUME Invalidate
       PROVE  KeptInv'
  BY <1>31, ManualAssumption DEF IInv, TypeOK, PhaseInv, StepsInv, OwnerInv, KeptInv,
      Engaged, Executor, Discards, Actors, Invalidate, Goto, calls
<1>32. ASSUME TakeSession
       PROVE  KeptInv'
  BY <1>32, ManualAssumption DEF IInv, TypeOK, PhaseInv, StepsInv, OwnerInv, KeptInv,
      Engaged, Executor, Discards, Actors, TakeSession, RemoveSession, InMap, Goto
<1>33. ASSUME NEW a \in Actors, RecordTaken(a)
       PROVE  KeptInv'
  BY <1>33, ManualAssumption DEF IInv, TypeOK, PhaseInv, StepsInv, OwnerInv, KeptInv,
      Engaged, Executor, Discards, Actors, RecordTaken, Goto, calls
<1>34. ASSUME NEW a \in Actors, LockTaken(a)
       PROVE  KeptInv'
  BY <1>34, ManualAssumption DEF IInv, TypeOK, PhaseInv, StepsInv, OwnerInv, KeptInv,
      Engaged, Executor, Discards, Actors, LockTaken, Goto, calls
<1>35. ASSUME ClearSessions
       PROVE  KeptInv'
  BY <1>35, ManualAssumption DEF IInv, TypeOK, PhaseInv, StepsInv, OwnerInv, KeptInv,
      Engaged, Executor, Discards, Actors, ClearSessions, InMap, calls
<1>36. ASSUME Forget
       PROVE  KeptInv'
  BY <1>36, ManualAssumption DEF IInv, TypeOK, PhaseInv, StepsInv, OwnerInv, KeptInv,
      Engaged, Executor, Discards, Actors, Forget, calls
<1>37. ASSUME NEW reply \in Replies, NEW after \in {"none", "open", "committed", "rolled_back"},
              ServerExecutes(reply, after)
       PROVE  KeptInv'
  BY <1>37, ManualAssumption DEF IInv, TypeOK, PhaseInv, StepsInv, OwnerInv, KeptInv,
      Engaged, Executor, Discards, Actors, ServerExecutes, EndVerdict, calls
<1>38. ASSUME LinkBreaks
       PROVE  KeptInv'
  BY <1>38, ManualAssumption DEF IInv, TypeOK, PhaseInv, StepsInv, OwnerInv, KeptInv,
      Engaged, Executor, Discards, Actors, LinkBreaks, calls
<1>39. ASSUME ServerEndsSession
       PROVE  KeptInv'
  BY <1>39, ManualAssumption DEF IInv, TypeOK, PhaseInv, StepsInv, OwnerInv, KeptInv,
      Engaged, Executor, Discards, Actors, ServerEndsSession, calls
<1>40. ASSUME UNCHANGED vars
       PROVE  KeptInv'
  BY <1>40, ManualAssumption DEF IInv, KeptInv, vars
<1> QED
  BY <1>1, <1>2, <1>3, <1>4, <1>5, <1>6, <1>7, <1>8, <1>9, <1>10, <1>11, <1>12,
     <1>13, <1>14, <1>15, <1>16, <1>17, <1>18, <1>19, <1>20, <1>21, <1>22, <1>23, <1>24,
     <1>25, <1>26, <1>27, <1>28, <1>29, <1>30, <1>31, <1>32, <1>33, <1>34, <1>35, <1>36,
     <1>37, <1>38, <1>39, <1>40
  DEF Next, Opener, Execute, Finish, Cleanup, Guarded, Taken, Watching, Disconnecting,
      Server

\* The inductive step.
LEMMA StepInv ==
  ASSUME IInv, [Next]_vars
  PROVE  IInv'
BY TypeStep, PhaseStep, StepsStep, OwnerStep, StreamStep, TruthStep, KeptStep DEF IInv

\* Before begin nothing was sent and nobody has the session.
LEMMA InitInv == Init => IInv
<1> SUFFICES ASSUME Init PROVE IInv
  OBVIOUS
<1>1. TypeOK
  BY ManualAssumption DEF Init, TypeOK, Actors, Outcomes, Commands, Replies, Steps
<1>2. PhaseInv /\ StepsInv
  BY ManualAssumption DEF Init, PhaseInv, NoLateSession, StepsInv, Actors
<1>3. OwnerInv
  BY DEF Init, OwnerInv, Engaged
<1>4. StreamInv
  BY DEF Init, StreamInv, Clean
<1>5. TruthInv
  BY DEF Init, TruthInv, OutcomesAreHonest, RecordIsHonest, RepliesAreHonest, Honest, Actors
<1>6. KeptInv
  BY DEF Init, KeptInv
<1> QED
  BY <1>1, <1>2, <1>3, <1>4, <1>5, <1>6 DEF IInv

\* The invariant holds of every behaviour.
THEOREM Inductive == Spec => []IInv
BY InitInv, StepInv, PTL DEF Spec

-----------------------------------------------------------------------------
(* Theorems *)

\* Every variable keeps its type, for any number of requests and of batches.
THEOREM TypeCorrect == Spec => []TypeOK
<1>1. IInv => TypeOK
  BY DEF IInv
<1> QED
  BY <1>1, Inductive, PTL

\* What EndedSessions records of the session, and what any request is told of its
\* outcome, is what the server did with the transaction: COMMIT and ROLLBACK count only
\* when their own reply acknowledges them, although requests are dropped and time out
\* with replies unread, the watcher and a disconnect end the session at any step, and
\* the connection breaks.
THEOREM HonestOutcomes == Spec => []OutcomesAreHonest
<1>1. IInv => OutcomesAreHonest
  BY DEF IInv, TruthInv
<1> QED
  BY <1>1, Inductive, PTL

\* After the disconnect has taken the sessions of the connection none is in the map, not
\* even one that begin was opening meanwhile.
THEOREM NoLate == Spec => []NoLateSession
<1>1. IInv => NoLateSession
  BY DEF IInv, PhaseInv
<1> QED
  BY <1>1, Inductive, PTL

\* Three steps write to the connection, and each finds its stream clean.
LEMMA WriteStep ==
  ASSUME IInv, [Next]_vars
  PROVE  WritesClean
<1>1. ASSUME Begin
      PROVE  WritesClean
  BY <1>1 DEF IInv, TypeOK, WritesClean, Begin
<1>2. ASSUME BeginFails
      PROVE  WritesClean
  BY <1>2 DEF IInv, TypeOK, WritesClean, BeginFails
<1>3. ASSUME Install
      PROVE  WritesClean
  BY <1>3 DEF IInv, TypeOK, WritesClean, Install
<1>4. ASSUME NEW r \in Requests, ExecuteRefused(r)
      PROVE  WritesClean
  BY <1>4 DEF IInv, TypeOK, WritesClean, ExecuteRefused, Missing, wire
<1>5. ASSUME NEW r \in Requests, NEW expired \in BOOLEAN, NEW n \in 0..MaxBatches,
             ExecuteStart(r, expired, n)
      PROVE  WritesClean
  BY <1>5 DEF IInv, TypeOK, WritesClean, ExecuteStart, wire
<1>6. ASSUME NEW r \in Requests, ExecuteLock(r)
      PROVE  WritesClean
  BY <1>6 DEF IInv, TypeOK, WritesClean, ExecuteLock, wire
<1>7. ASSUME NEW r \in Requests, ExecuteUnfit(r)
      PROVE  WritesClean
  BY <1>7 DEF IInv, TypeOK, WritesClean, ExecuteUnfit, InMap, wire
<1>8. ASSUME NEW r \in Requests, ReadOnlyRefused(r)
      PROVE  WritesClean
  BY <1>8 DEF IInv, TypeOK, WritesClean, ReadOnlyRefused, InMap, wire
<1>9. ASSUME NEW r \in Requests, ReadOnlyPassed(r)
      PROVE  WritesClean
  BY <1>9 DEF IInv, TypeOK, WritesClean, ReadOnlyPassed, wire
<1>10. ASSUME NEW r \in Requests, SendBatch(r)
       PROVE  WritesClean
  BY <1>10 DEF SendBatch, Write, WritesClean, IInv, StreamInv, Clean, Actors
<1>11. ASSUME NEW r \in Requests, NEW reply \in Replies, ReadBatch(r, reply)
       PROVE  WritesClean
  BY <1>11 DEF IInv, TypeOK, WritesClean, ReadBatch, Read
<1>12. ASSUME NEW r \in Requests, NEW step \in {"failed", "interrupted"}, RunFails(r, step)
       PROVE  WritesClean
  BY <1>12 DEF IInv, TypeOK, WritesClean, RunFails, wire
<1>13. ASSUME NEW r \in Requests, Interrupt(r)
       PROVE  WritesClean
  BY <1>13 DEF IInv, TypeOK, WritesClean, Interrupt, wire
<1>14. ASSUME NEW r \in Requests, ExecuteSucceeds(r)
       PROVE  WritesClean
  BY <1>14 DEF IInv, TypeOK, WritesClean, ExecuteSucceeds, InMap, wire
<1>15. ASSUME NEW r \in Requests, ExecuteFails(r)
       PROVE  WritesClean
  BY <1>15 DEF IInv, TypeOK, WritesClean, ExecuteFails, InMap, wire
<1>16. ASSUME NEW a \in Actors, SendRollback(a)
       PROVE  WritesClean
  BY <1>16 DEF SendRollback, Write, WritesClean, IInv, StreamInv, Clean, Actors
<1>17. ASSUME NEW a \in Actors, NEW reply \in Replies, ReadRollback(a, reply)
       PROVE  WritesClean
  BY <1>17 DEF IInv, TypeOK, WritesClean, ReadRollback, Read, RollbackVerdict
<1>18. ASSUME NEW a \in Actors, RollbackFails(a)
       PROVE  WritesClean
  BY <1>18 DEF IInv, TypeOK, WritesClean, RollbackFails, wire
<1>19. ASSUME NEW a \in Actors, Release(a)
       PROVE  WritesClean
  BY <1>19 DEF IInv, TypeOK, WritesClean, Release
<1>20. ASSUME NEW r \in Requests, NEW end \in {"commit", "rollback"}, FinishStart(r, end)
       PROVE  WritesClean
  BY <1>20 DEF IInv, TypeOK, WritesClean, FinishStart, wire
<1>21. ASSUME NEW r \in Requests, NEW expired \in BOOLEAN, FinishLock(r, expired)
       PROVE  WritesClean
  BY <1>21 DEF IInv, TypeOK, WritesClean, FinishLock, wire
<1>22. ASSUME NEW r \in Requests, SendEnd(r)
       PROVE  WritesClean
  BY <1>22 DEF SendEnd, Write, WritesClean, IInv, StreamInv, Clean, Actors
<1>23. ASSUME NEW r \in Requests, NEW reply \in Replies, ReadEnd(r, reply)
       PROVE  WritesClean
  BY <1>23 DEF IInv, TypeOK, WritesClean, ReadEnd, Read, EndVerdict
<1>24. ASSUME NEW r \in Requests, EndFails(r)
       PROVE  WritesClean
  BY <1>24 DEF IInv, TypeOK, WritesClean, EndFails, wire
<1>25. ASSUME NEW r \in Requests, DropRequest(r)
       PROVE  WritesClean
  BY <1>25 DEF IInv, TypeOK, WritesClean, DropRequest, wire
<1>26. ASSUME NEW r \in Requests, Guard(r)
       PROVE  WritesClean
  BY <1>26 DEF IInv, TypeOK, WritesClean, Guard, InMap, wire
<1>27. ASSUME NEW r \in Requests, GuardInterrupts(r)
       PROVE  WritesClean
  BY <1>27 DEF IInv, TypeOK, WritesClean, GuardInterrupts, wire
<1>28. ASSUME CloseUnowned
       PROVE  WritesClean
  BY <1>28 DEF IInv, TypeOK, WritesClean, CloseUnowned, InMap
<1>29. ASSUME WatcherExpires
       PROVE  WritesClean
  BY <1>29 DEF IInv, TypeOK, WritesClean, WatcherExpires, wire
<1>30. ASSUME WatcherReturns
       PROVE  WritesClean
  BY <1>30 DEF IInv, TypeOK, WritesClean, WatcherReturns, wire
<1>31. ASSUME Invalidate
       PROVE  WritesClean
  BY <1>31 DEF IInv, TypeOK, WritesClean, Invalidate, wire
<1>32. ASSUME TakeSession
       PROVE  WritesClean
  BY <1>32 DEF IInv, TypeOK, WritesClean, TakeSession, InMap, wire
<1>33. ASSUME NEW a \in Actors, RecordTaken(a)
       PROVE  WritesClean
  BY <1>33 DEF IInv, TypeOK, WritesClean, RecordTaken, wire
<1>34. ASSUME NEW a \in Actors, LockTaken(a)
       PROVE  WritesClean
  BY <1>34 DEF IInv, TypeOK, WritesClean, LockTaken, wire
<1>35. ASSUME ClearSessions
       PROVE  WritesClean
  BY <1>35 DEF IInv, TypeOK, WritesClean, ClearSessions, InMap, wire
<1>36. ASSUME Forget
       PROVE  WritesClean
  BY <1>36 DEF IInv, TypeOK, WritesClean, Forget, wire
<1>37. ASSUME NEW reply \in Replies, NEW after \in {"none", "open", "committed", "rolled_back"},
              ServerExecutes(reply, after)
       PROVE  WritesClean
  BY <1>37 DEF IInv, TypeOK, WritesClean, ServerExecutes, EndVerdict
<1>38. ASSUME LinkBreaks
       PROVE  WritesClean
  BY <1>38 DEF IInv, TypeOK, WritesClean, LinkBreaks
<1>39. ASSUME ServerEndsSession
       PROVE  WritesClean
  BY <1>39 DEF IInv, TypeOK, WritesClean, ServerEndsSession
<1>40. ASSUME UNCHANGED vars
       PROVE  WritesClean
  BY <1>40 DEF IInv, WritesClean, vars
<1> QED
  BY <1>1, <1>2, <1>3, <1>4, <1>5, <1>6, <1>7, <1>8, <1>9, <1>10, <1>11, <1>12,
     <1>13, <1>14, <1>15, <1>16, <1>17, <1>18, <1>19, <1>20, <1>21, <1>22, <1>23, <1>24,
     <1>25, <1>26, <1>27, <1>28, <1>29, <1>30, <1>31, <1>32, <1>33, <1>34, <1>35, <1>36,
     <1>37, <1>38, <1>39, <1>40
  DEF Next, Opener, Execute, Finish, Cleanup, Guarded, Taken, Watching, Disconnecting,
      Server

\* Nobody who is left records another outcome.
LEMMA RecordStep ==
  ASSUME IInv, [Next]_vars
  PROVE  KeepsCommitted
<1>1. ASSUME Begin
      PROVE  KeepsCommitted
  BY <1>1 DEF IInv, TypeOK, StepsInv, KeptInv, KeepsCommitted, Actors, Begin
<1>2. ASSUME BeginFails
      PROVE  KeepsCommitted
  BY <1>2 DEF IInv, TypeOK, StepsInv, KeptInv, KeepsCommitted, Actors, BeginFails
<1>3. ASSUME Install
      PROVE  KeepsCommitted
  BY <1>3 DEF IInv, TypeOK, StepsInv, KeptInv, KeepsCommitted, Actors, Install
<1>4. ASSUME NEW r \in Requests, ExecuteRefused(r)
      PROVE  KeepsCommitted
  BY <1>4 DEF IInv, TypeOK, StepsInv, KeptInv, KeepsCommitted, Actors, ExecuteRefused,
      Missing
<1>5. ASSUME NEW r \in Requests, NEW expired \in BOOLEAN, NEW n \in 0..MaxBatches,
             ExecuteStart(r, expired, n)
      PROVE  KeepsCommitted
  BY <1>5 DEF IInv, TypeOK, StepsInv, KeptInv, KeepsCommitted, Actors, ExecuteStart
<1>6. ASSUME NEW r \in Requests, ExecuteLock(r)
      PROVE  KeepsCommitted
  BY <1>6 DEF IInv, TypeOK, StepsInv, KeptInv, KeepsCommitted, Actors, ExecuteLock
<1>7. ASSUME NEW r \in Requests, ExecuteUnfit(r)
      PROVE  KeepsCommitted
  BY <1>7 DEF IInv, TypeOK, StepsInv, KeptInv, KeepsCommitted, Actors, ExecuteUnfit, InMap
<1>8. ASSUME NEW r \in Requests, ReadOnlyRefused(r)
      PROVE  KeepsCommitted
  BY <1>8 DEF IInv, TypeOK, StepsInv, KeptInv, KeepsCommitted, Actors, ReadOnlyRefused,
      InMap
<1>9. ASSUME NEW r \in Requests, ReadOnlyPassed(r)
      PROVE  KeepsCommitted
  BY <1>9 DEF IInv, TypeOK, StepsInv, KeptInv, KeepsCommitted, Actors, ReadOnlyPassed
<1>10. ASSUME NEW r \in Requests, SendBatch(r)
       PROVE  KeepsCommitted
  BY <1>10 DEF IInv, TypeOK, StepsInv, KeptInv, KeepsCommitted, Actors, SendBatch
<1>11. ASSUME NEW r \in Requests, NEW reply \in Replies, ReadBatch(r, reply)
       PROVE  KeepsCommitted
  BY <1>11 DEF IInv, TypeOK, StepsInv, KeptInv, KeepsCommitted, Actors, ReadBatch
<1>12. ASSUME NEW r \in Requests, NEW step \in {"failed", "interrupted"}, RunFails(r, step)
       PROVE  KeepsCommitted
  BY <1>12 DEF IInv, TypeOK, StepsInv, KeptInv, KeepsCommitted, Actors, RunFails
<1>13. ASSUME NEW r \in Requests, Interrupt(r)
       PROVE  KeepsCommitted
  BY <1>13 DEF IInv, TypeOK, StepsInv, KeptInv, KeepsCommitted, Actors, Interrupt
<1>14. ASSUME NEW r \in Requests, ExecuteSucceeds(r)
       PROVE  KeepsCommitted
  BY <1>14 DEF IInv, TypeOK, StepsInv, KeptInv, KeepsCommitted, Actors, ExecuteSucceeds,
      InMap
<1>15. ASSUME NEW r \in Requests, ExecuteFails(r)
       PROVE  KeepsCommitted
  BY <1>15 DEF IInv, TypeOK, StepsInv, KeptInv, KeepsCommitted, Actors, ExecuteFails, InMap
<1>16. ASSUME NEW a \in Actors, SendRollback(a)
       PROVE  KeepsCommitted
  BY <1>16 DEF IInv, TypeOK, StepsInv, KeptInv, KeepsCommitted, Actors, SendRollback
<1>17. ASSUME NEW a \in Actors, NEW reply \in Replies, ReadRollback(a, reply)
       PROVE  KeepsCommitted
  BY <1>17 DEF IInv, TypeOK, StepsInv, KeptInv, KeepsCommitted, Actors, ReadRollback,
      RollbackVerdict
<1>18. ASSUME NEW a \in Actors, RollbackFails(a)
       PROVE  KeepsCommitted
  BY <1>18 DEF IInv, TypeOK, StepsInv, KeptInv, KeepsCommitted, Actors, RollbackFails
<1>19. ASSUME NEW a \in Actors, Release(a)
       PROVE  KeepsCommitted
  BY <1>19 DEF IInv, TypeOK, StepsInv, KeptInv, KeepsCommitted, Actors, Release
<1>20. ASSUME NEW r \in Requests, NEW end \in {"commit", "rollback"}, FinishStart(r, end)
       PROVE  KeepsCommitted
  BY <1>20 DEF IInv, TypeOK, StepsInv, KeptInv, KeepsCommitted, Actors, FinishStart
<1>21. ASSUME NEW r \in Requests, NEW expired \in BOOLEAN, FinishLock(r, expired)
       PROVE  KeepsCommitted
  BY <1>21 DEF IInv, TypeOK, StepsInv, KeptInv, KeepsCommitted, Actors, FinishLock
<1>22. ASSUME NEW r \in Requests, SendEnd(r)
       PROVE  KeepsCommitted
  BY <1>22 DEF IInv, TypeOK, StepsInv, KeptInv, KeepsCommitted, Actors, SendEnd
<1>23. ASSUME NEW r \in Requests, NEW reply \in Replies, ReadEnd(r, reply)
       PROVE  KeepsCommitted
  BY <1>23 DEF IInv, TypeOK, StepsInv, KeptInv, KeepsCommitted, Actors, ReadEnd, EndVerdict
<1>24. ASSUME NEW r \in Requests, EndFails(r)
       PROVE  KeepsCommitted
  BY <1>24 DEF IInv, TypeOK, StepsInv, KeptInv, KeepsCommitted, Actors, EndFails
<1>25. ASSUME NEW r \in Requests, DropRequest(r)
       PROVE  KeepsCommitted
  BY <1>25 DEF IInv, TypeOK, StepsInv, KeptInv, KeepsCommitted, Actors, DropRequest
<1>26. ASSUME NEW r \in Requests, Guard(r)
       PROVE  KeepsCommitted
  BY <1>26 DEF IInv, TypeOK, StepsInv, KeptInv, KeepsCommitted, Actors, Guard, InMap
<1>27. ASSUME NEW r \in Requests, GuardInterrupts(r)
       PROVE  KeepsCommitted
  BY <1>27 DEF IInv, TypeOK, StepsInv, KeptInv, KeepsCommitted, Actors, GuardInterrupts
<1>28. ASSUME CloseUnowned
       PROVE  KeepsCommitted
  BY <1>28 DEF IInv, TypeOK, StepsInv, KeptInv, KeepsCommitted, Actors, CloseUnowned, InMap
<1>29. ASSUME WatcherExpires
       PROVE  KeepsCommitted
  BY <1>29 DEF IInv, TypeOK, StepsInv, KeptInv, KeepsCommitted, Actors, WatcherExpires
<1>30. ASSUME WatcherReturns
       PROVE  KeepsCommitted
  BY <1>30 DEF IInv, TypeOK, StepsInv, KeptInv, KeepsCommitted, Actors, WatcherReturns
<1>31. ASSUME Invalidate
       PROVE  KeepsCommitted
  BY <1>31 DEF IInv, TypeOK, StepsInv, KeptInv, KeepsCommitted, Actors, Invalidate
<1>32. ASSUME TakeSession
       PROVE  KeepsCommitted
  BY <1>32 DEF IInv, TypeOK, StepsInv, KeptInv, KeepsCommitted, Actors, TakeSession, InMap
<1>33. ASSUME NEW a \in Actors, RecordTaken(a)
       PROVE  KeepsCommitted
  BY <1>33 DEF IInv, TypeOK, StepsInv, KeptInv, KeepsCommitted, Actors, RecordTaken
<1>34. ASSUME NEW a \in Actors, LockTaken(a)
       PROVE  KeepsCommitted
  BY <1>34 DEF IInv, TypeOK, StepsInv, KeptInv, KeepsCommitted, Actors, LockTaken
<1>35. ASSUME ClearSessions
       PROVE  KeepsCommitted
  BY <1>35 DEF IInv, TypeOK, StepsInv, KeptInv, KeepsCommitted, Actors, ClearSessions, InMap
<1>36. ASSUME Forget
       PROVE  KeepsCommitted
  BY <1>36 DEF IInv, TypeOK, StepsInv, KeptInv, KeepsCommitted, Actors, Forget
<1>37. ASSUME NEW reply \in Replies, NEW after \in {"none", "open", "committed", "rolled_back"},
              ServerExecutes(reply, after)
       PROVE  KeepsCommitted
  BY <1>37 DEF IInv, TypeOK, StepsInv, KeptInv, KeepsCommitted, Actors, ServerExecutes,
      EndVerdict
<1>38. ASSUME LinkBreaks
       PROVE  KeepsCommitted
  BY <1>38 DEF IInv, TypeOK, StepsInv, KeptInv, KeepsCommitted, Actors, LinkBreaks
<1>39. ASSUME ServerEndsSession
       PROVE  KeepsCommitted
  BY <1>39 DEF IInv, TypeOK, StepsInv, KeptInv, KeepsCommitted, Actors, ServerEndsSession
<1>40. ASSUME UNCHANGED vars
       PROVE  KeepsCommitted
  BY <1>40 DEF IInv, KeepsCommitted, vars
<1> QED
  BY <1>1, <1>2, <1>3, <1>4, <1>5, <1>6, <1>7, <1>8, <1>9, <1>10, <1>11, <1>12,
     <1>13, <1>14, <1>15, <1>16, <1>17, <1>18, <1>19, <1>20, <1>21, <1>22, <1>23, <1>24,
     <1>25, <1>26, <1>27, <1>28, <1>29, <1>30, <1>31, <1>32, <1>33, <1>34, <1>35, <1>36,
     <1>37, <1>38, <1>39, <1>40
  DEF Next, Opener, Execute, Finish, Cleanup, Guarded, Taken, Watching, Disconnecting,
      Server

\* Whoever sends a command, the execute, the end of the transaction or a rollback by
\* anybody, everything sent before was executed and every reply to it was read.
THEOREM StreamIsClean == Spec => CleanStream
<1>1. IInv /\ [Next]_vars => [Len(sent') > Len(sent) => sent = <<>> /\ replies = <<>>]_vars
  BY WriteStep DEF WritesClean
<1> QED
  BY <1>1, Inductive, PTL DEF Spec, CleanStream

\* Once a commit has been recorded nothing else is: whoever cleans up later, an execute
\* that failed, the watcher, a disconnect, records nothing or the same.
THEOREM CommitIsKept == Spec => CommittedIsKept
<1>1. IInv /\ [Next]_vars => [record = "committed" => record' \in {"committed", "none"}]_vars
  BY RecordStep DEF KeepsCommitted
<1> QED
  BY <1>1, Inductive, PTL DEF Spec, CommittedIsKept

=============================================================================
