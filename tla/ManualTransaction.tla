------------------------- MODULE ManualTransaction -------------------------
(***************************************************************************)
(* A manual SQL Server transaction (crates/dbx-core/src/query/             *)
(* sqlserver_manual_transaction.rs) on its dedicated native connection:    *)
(* begin, execute, commit and rollback requests, the guard of a dropped    *)
(* request, the idle watcher, and the disconnect of the whole connection.  *)
(* They share the map of sessions (an RwLock), the connection of the       *)
(* session (a Mutex each of them waits for) and the record of how sessions *)
(* ended, which answers late callers.                                      *)
(*                                                                         *)
(* Time is a choice: a session may turn out to be idle for too long, a     *)
(* request may time out, whenever the code looks at the clock.  ATTENTION  *)
(* is best effort and proves nothing, so it is left out.                   *)
(***************************************************************************)
EXTENDS Naturals, Sequences

CONSTANTS
  Requests,       \* calls of execute_in_manual_transaction, commit, rollback
  Disconnector,   \* the caller of rollback_manual_transaction_sessions
  Watcher,        \* the task of spawn_idle_watcher
  Nobody,         \* the connection is not locked
  MaxBatches      \* bound: GO batches of one execute

Actors == Requests \cup {Disconnector, Watcher}

ASSUME ManualAssumption ==
  /\ Disconnector \notin Requests
  /\ Watcher \notin Requests \cup {Disconnector}
  /\ Nobody \notin Actors
  /\ MaxBatches \in Nat \ {0}

VARIABLES
  opening,    \* begin: how far it is
  sess,       \* the entry of the session in transaction_sessions
  lifecycle,  \* that the session was opened under: the current one, or has it ended?
  lock,       \* who holds the connection of the session
  link,       \* the connection itself
  sent,       \* commands the server has received and not executed
  replies,    \* replies on the wire that nobody has read
  txn,        \* what became of the transaction on the server
  record,     \* the entry of the session in EndedSessions
  pc,         \* where each actor is
  mode,       \* what each request is for
  unfit,      \* actors whose session has expired, is for another context or was busy
  left,       \* batches a request has still to send
  verdict,    \* the outcome an actor is about to record
  told        \* what each request was told

vars == <<opening, sess, lifecycle, lock, link, sent, replies, txn, record, pc, mode,
          unfit, left, verdict, told>>
wire == <<link, sent, replies, txn>>
calls == <<mode, unfit, left, verdict, told>>

Outcomes == {"unknown", "committed", "rolled_back"}
Commands == {"query", "commit", "rollback"}
Replies == {"ok", "error", "lost"}

\* Execute after it has set busy; its guard is armed until it returns.
Executing == {"locking", "checking", "removing", "running", "reading", "succeeded",
              "failed", "interrupted", "rollback", "rolling", "release"}
Finishing == {"locking", "ending", "waiting", "rollback", "rolling", "release"}
Steps == {"new", "done", "guard", "guardLock", "taken", "stopped"}
           \cup Executing \cup Finishing

TypeOK ==
  /\ opening \in {"new", "begun", "installed", "failed"}
  /\ sess \in {"none", "idle", "busy", "gone"}
  /\ lifecycle \in {"current", "ended"}
  /\ lock \in Actors \cup {Nobody}
  /\ link \in {"up", "broken", "closed"}
  /\ sent \in Seq(Commands)
  /\ replies \in Seq(Replies)
  /\ txn \in {"none", "open", "committed", "rolled_back"}
  /\ record \in Outcomes \cup {"none"}
  /\ pc \in [Actors -> Steps]
  /\ mode \in [Actors -> {"execute", "commit", "rollback"}]
  /\ unfit \in SUBSET Actors
  /\ left \in [Actors -> 0..MaxBatches]
  /\ verdict \in [Actors -> Outcomes]
  /\ told \in [Actors -> Outcomes \cup {"none", "ok", "busy", "refused"}]

Init ==
  /\ opening = "new"
  /\ sess = "none"
  /\ lifecycle = "current"
  /\ lock = Nobody
  /\ link = "up" /\ sent = <<>> /\ replies = <<>> /\ txn = "none"
  /\ record = "none"
  /\ pc = [a \in Actors |-> "new"]
  /\ mode = [a \in Actors |-> "rollback"]
  /\ unfit = {}
  /\ left = [a \in Actors |-> 0]
  /\ verdict = [a \in Actors |-> "unknown"]
  /\ told = [a \in Actors |-> "none"]

InMap == sess \in {"idle", "busy"}
RemoveSession == sess' = IF InMap THEN "gone" ELSE sess

Goto(a, step) == pc' = [pc EXCEPT ![a] = step]
Tell(a, what) == told' = [told EXCEPT ![a] = what]

\* What a request hears that finds no session.
Missing == IF record = "none" THEN "unknown" ELSE record

Unlock(a) == lock' = IF lock = a THEN Nobody ELSE lock

-----------------------------------------------------------------------------
(* begin *)

\* BEGIN TRANSACTION was sent on the new connection and acknowledged.
Begin ==
  /\ opening = "new"
  /\ opening' = "begun"
  /\ txn' = "open"
  /\ UNCHANGED <<sess, lifecycle, lock, link, sent, replies, record, pc, calls>>

\* It failed, timed out or was overtaken by a disconnect; it may have arrived.
BeginFails ==
  /\ opening = "new"
  /\ opening' = "failed"
  /\ txn' \in {"none", "open"}
  /\ link' = "closed"
  /\ UNCHANGED <<sess, lifecycle, lock, sent, replies, record, pc, calls>>

\* Mutant: the lifecycle is not looked at again.
InstallUnchecked ==
  /\ opening = "begun"
  /\ opening' = "installed" /\ sess' = "idle"
  /\ UNCHANGED <<lifecycle, lock, wire, record, pc, calls>>

\* Under the lock of the map: the session goes in if its lifecycle still is
\* the current one; otherwise its connection is dropped.
Install ==
  /\ opening = "begun"
  /\ IF lifecycle = "ended"
       THEN opening' = "failed" /\ link' = "closed" /\ UNCHANGED sess
       ELSE opening' = "installed" /\ sess' = "idle" /\ UNCHANGED link
  /\ UNCHANGED <<lifecycle, lock, sent, replies, txn, record, pc, calls>>

-----------------------------------------------------------------------------
(* The connection, by whoever holds its lock *)

\* A command is written, whatever is still unread.
Write(cmd) ==
  /\ link = "up"
  /\ sent' = Append(sent, cmd)
  /\ UNCHANGED <<link, replies, txn>>

\* The next reply on the stream.
Read(reply) ==
  /\ link = "up"
  /\ replies # <<>>
  /\ reply = Head(replies)
  /\ replies' = Tail(replies)
  /\ UNCHANGED <<link, sent, txn>>

-----------------------------------------------------------------------------
(* execute *)

\* A request with the id of the session; it is refused when the session is
\* not there or busy.
ExecuteRefused(r) ==
  /\ opening = "installed"
  /\ pc[r] = "new"
  /\ sess # "idle"
  /\ Tell(r, IF sess = "busy" THEN "busy" ELSE Missing)
  /\ Goto(r, "done")
  /\ UNCHANGED <<opening, sess, lifecycle, lock, wire, record, mode, unfit, left, verdict>>

\* It takes the session by setting busy.
ExecuteStart(r, expired, n) ==
  /\ opening = "installed"
  /\ pc[r] = "new"
  /\ sess = "idle"
  /\ sess' = "busy"
  /\ mode' = [mode EXCEPT ![r] = "execute"]
  /\ unfit' = IF expired THEN unfit \cup {r} ELSE unfit
  /\ left' = [left EXCEPT ![r] = n]
  /\ Goto(r, "locking")
  /\ UNCHANGED <<opening, lifecycle, lock, wire, record, verdict, told>>

ExecuteLock(r) ==
  /\ pc[r] = "locking" /\ mode[r] = "execute"
  /\ lock = Nobody
  /\ lock' = r
  /\ Goto(r, IF r \in unfit \/ lifecycle = "ended" THEN "removing" ELSE "checking")
  /\ UNCHANGED <<opening, sess, lifecycle, wire, record, calls>>

\* The session is no longer fit for use: it is removed and rolled back.
ExecuteUnfit(r) ==
  /\ pc[r] = "removing"
  /\ RemoveSession
  /\ Goto(r, "rollback")
  /\ UNCHANGED <<opening, lifecycle, lock, wire, record, calls>>

\* The read-only check refuses the batches; the session goes on.
ReadOnlyRefused(r) ==
  /\ pc[r] = "checking"
  /\ sess' = IF InMap THEN "idle" ELSE sess
  /\ Unlock(r)
  /\ Tell(r, "refused")
  /\ Goto(r, "done")
  /\ UNCHANGED <<opening, lifecycle, wire, record, mode, unfit, left, verdict>>

ReadOnlyPassed(r) ==
  /\ pc[r] = "checking"
  /\ Goto(r, IF left[r] = 0 THEN "succeeded" ELSE "running")
  /\ UNCHANGED <<opening, sess, lifecycle, lock, wire, record, calls>>

SendBatch(r) ==
  /\ pc[r] = "running"
  /\ Write("query")
  /\ left' = [left EXCEPT ![r] = @ - 1]
  /\ Goto(r, "reading")
  /\ UNCHANGED <<opening, sess, lifecycle, lock, record, mode, unfit, verdict, told>>

\* Mutant: one batch too many.
ReadBatchOneMore(r, reply) ==
  /\ pc[r] = "reading"
  /\ Read(reply)
  /\ Goto(r, CASE reply = "ok" -> "running"
               [] reply = "error" -> "failed"
               [] reply = "lost" -> "interrupted")
  /\ UNCHANGED <<opening, sess, lifecycle, lock, record, calls>>

\* The batch is done and the transaction still there, the server rejected it,
\* or require_native_transaction found the transaction gone.
ReadBatch(r, reply) ==
  /\ pc[r] = "reading"
  /\ Read(reply)
  /\ Goto(r, CASE reply = "ok" -> IF left[r] = 0 THEN "succeeded" ELSE "running"
               [] reply = "error" -> "failed"
               [] reply = "lost" -> "interrupted")
  /\ UNCHANGED <<opening, sess, lifecycle, lock, record, calls>>

\* The connection is broken, or was discarded by a disconnect; whether this
\* counts as interrupted hangs on the wording of the error.
RunFails(r, step) ==
  /\ pc[r] \in {"running", "reading"}
  /\ link # "up"
  /\ step \in {"failed", "interrupted"}
  /\ Goto(r, step)
  /\ UNCHANGED <<opening, sess, lifecycle, lock, wire, record, calls>>

\* A timeout, a cancelled query, or the end of the lifecycle.
Interrupt(r) ==
  /\ pc[r] \in {"running", "reading"}
  /\ Goto(r, "interrupted")
  /\ UNCHANGED <<opening, sess, lifecycle, lock, wire, record, calls>>

\* The session is idle again, unless somebody has taken it away meanwhile.
ExecuteSucceeds(r) ==
  /\ pc[r] = "succeeded"
  /\ sess' = IF InMap THEN "idle" ELSE sess
  /\ Tell(r, IF InMap THEN "ok" ELSE "unknown")
  /\ Unlock(r)
  /\ Goto(r, "done")
  /\ UNCHANGED <<opening, lifecycle, wire, record, mode, unfit, left, verdict>>

\* The session is removed; it is rolled back unless its stream was interrupted.
ExecuteFails(r) ==
  /\ pc[r] \in {"failed", "interrupted"}
  /\ RemoveSession
  /\ Goto(r, IF pc[r] = "interrupted" THEN "release" ELSE "rollback")
  /\ UNCHANGED <<opening, lifecycle, lock, wire, record, calls>>

-----------------------------------------------------------------------------
(* cleanup_failure: rollback, release of the connection, record *)

SendRollback(a) ==
  /\ pc[a] = "rollback"
  /\ Write("rollback")
  /\ Goto(a, "rolling")
  /\ UNCHANGED <<opening, sess, lifecycle, lock, record, calls>>

\* Mutant: as for other databases, a transaction that has ended is tolerated.
RollbackVerdictTolerant(reply) == IF reply \in {"ok", "error"} THEN "rolled_back" ELSE "unknown"

\* Only an acknowledged ROLLBACK counts.
RollbackVerdict(reply) == IF reply = "ok" THEN "rolled_back" ELSE "unknown"

ReadRollback(a, reply) ==
  /\ pc[a] = "rolling"
  /\ Read(reply)
  /\ verdict' = [verdict EXCEPT ![a] = RollbackVerdict(reply)]
  /\ Goto(a, "release")
  /\ UNCHANGED <<opening, sess, lifecycle, lock, record, mode, unfit, left, told>>

\* There is no connection to roll back, it broke, or the time is up.
RollbackFails(a) ==
  /\ \/ pc[a] = "rollback" /\ link # "up"
     \/ pc[a] = "rolling"
  /\ Goto(a, "release")
  /\ UNCHANGED <<opening, sess, lifecycle, lock, wire, record, calls>>

\* The connection is released, the outcome recorded and, if this is a request,
\* returned.
Release(a) ==
  /\ pc[a] = "release"
  /\ link' = "closed"
  /\ record' = verdict[a]
  /\ told' = IF a \in Requests THEN [told EXCEPT ![a] = verdict[a]] ELSE told
  /\ Unlock(a)
  /\ Goto(a, "done")
  /\ UNCHANGED <<opening, sess, lifecycle, sent, replies, txn, mode, unfit, left, verdict>>

-----------------------------------------------------------------------------
(* finish: commit or rollback *)

\* Mutant: the session stays in the map while it is being ended.
FinishStartKeeps(r, end) ==
  /\ opening = "installed"
  /\ pc[r] = "new"
  /\ sess = "idle"
  /\ mode' = [mode EXCEPT ![r] = end]
  /\ Goto(r, "locking")
  /\ UNCHANGED <<opening, sess, lifecycle, lock, wire, record, unfit, left, verdict, told>>

\* It takes the session out of the map; it is refused like an execute.
FinishStart(r, end) ==
  /\ opening = "installed"
  /\ pc[r] = "new"
  /\ sess = "idle"
  /\ sess' = "gone"
  /\ mode' = [mode EXCEPT ![r] = end]
  /\ Goto(r, "locking")
  /\ UNCHANGED <<opening, lifecycle, lock, wire, record, unfit, left, verdict, told>>

\* With the lifecycle over, or after the idle timeout, it only cleans up;
\* otherwise late requests hear unknown from now on.
FinishLock(r, expired) ==
  /\ pc[r] = "locking" /\ mode[r] # "execute"
  /\ lock = Nobody
  /\ lock' = r
  /\ IF lifecycle = "ended" \/ expired
       THEN Goto(r, "rollback") /\ UNCHANGED record
       ELSE Goto(r, "ending") /\ record' = "unknown"
  /\ UNCHANGED <<opening, sess, lifecycle, wire, calls>>

SendEnd(r) ==
  /\ pc[r] = "ending"
  /\ Write(mode[r])
  /\ Goto(r, "waiting")
  /\ UNCHANGED <<opening, sess, lifecycle, lock, record, calls>>

EndVerdict(end) == IF end = "commit" THEN "committed" ELSE "rolled_back"

\* Mutant: a reply is an acknowledgement, whatever it says.
ReadEndOptimistic(r, reply) ==
  /\ pc[r] = "waiting"
  /\ Read(reply)
  /\ verdict' = [verdict EXCEPT ![r] = EndVerdict(mode[r])]
  /\ UNCHANGED record
  /\ Goto(r, "release")
  /\ UNCHANGED <<opening, sess, lifecycle, lock, mode, unfit, left, told>>

\* An acknowledged end is recorded before the connection is released.
ReadEnd(r, reply) ==
  /\ pc[r] = "waiting"
  /\ Read(reply)
  /\ verdict' = [verdict EXCEPT ![r] = IF reply = "ok" THEN EndVerdict(mode[r]) ELSE "unknown"]
  /\ record' = IF reply = "ok" THEN EndVerdict(mode[r]) ELSE record
  /\ Goto(r, "release")
  /\ UNCHANGED <<opening, sess, lifecycle, lock, mode, unfit, left, told>>

\* The connection is not there, it broke, or the time is up.
EndFails(r) ==
  /\ \/ pc[r] = "ending" /\ link # "up"
     \/ pc[r] = "waiting"
  /\ Goto(r, "release")
  /\ UNCHANGED <<opening, sess, lifecycle, lock, wire, record, calls>>

-----------------------------------------------------------------------------
(* Dropped requests *)

\* Mutant: there is no ExecutionGuard.
DropRequestUnguarded(r) ==
  /\ pc[r] \in Executing \cup Finishing
  /\ Unlock(r)
  /\ Goto(r, "done")
  /\ UNCHANGED <<opening, sess, lifecycle, wire, record, calls>>

\* The future of a request is dropped at one of its awaits.  An execute leaves
\* its guard behind; a finish owned the session.
DropRequest(r) ==
  /\ pc[r] \in Executing \cup Finishing
  /\ Unlock(r)
  /\ Goto(r, IF mode[r] = "execute" THEN "guard" ELSE "done")
  /\ UNCHANGED <<opening, sess, lifecycle, wire, record, calls>>

\* ExecutionGuard::drop removes the session if it is still there.
Guard(r) ==
  /\ pc[r] = "guard"
  /\ RemoveSession
  /\ record' = IF InMap THEN "unknown" ELSE record
  /\ Goto(r, IF InMap THEN "guardLock" ELSE "done")
  /\ UNCHANGED <<opening, lifecycle, lock, wire, calls>>

\* It waits for the connection to interrupt it, and drops it.
GuardInterrupts(r) ==
  /\ pc[r] = "guardLock"
  /\ lock = Nobody
  /\ Goto(r, "done")
  /\ UNCHANGED <<opening, sess, lifecycle, lock, wire, record, calls>>

\* The last owner of the connection is gone: it is closed.
CloseUnowned ==
  /\ opening = "installed"
  /\ ~InMap
  /\ \A a \in Actors : pc[a] \in {"new", "done", "guard", "stopped"}
  /\ link # "closed"
  /\ link' = "closed"
  /\ UNCHANGED <<opening, sess, lifecycle, lock, sent, replies, txn, record, pc, calls>>

-----------------------------------------------------------------------------
(* The idle watcher *)

\* The session is idle and its time is up: the watcher takes it.
WatcherExpires ==
  /\ pc[Watcher] = "new"
  /\ sess = "idle"
  /\ sess' = "gone"
  /\ Goto(Watcher, "taken")
  /\ UNCHANGED <<opening, lifecycle, lock, wire, record, calls>>

\* Mutant: the watcher leaves a session that is busy when it looks.
WatcherReturnsEarly ==
  /\ pc[Watcher] = "new"
  /\ sess \in {"gone", "busy"}
  /\ Goto(Watcher, "done")
  /\ UNCHANGED <<opening, sess, lifecycle, lock, wire, record, calls>>

\* The session is gone: the watcher returns.
WatcherReturns ==
  /\ pc[Watcher] = "new"
  /\ sess = "gone"
  /\ Goto(Watcher, "done")
  /\ UNCHANGED <<opening, sess, lifecycle, lock, wire, record, calls>>

-----------------------------------------------------------------------------
(* Disconnecting *)

\* invalidate_connection_lifecycle ends the lifecycle first ...
Invalidate ==
  /\ pc[Disconnector] = "new"
  /\ lifecycle' = "ended"
  /\ Goto(Disconnector, "stopped")
  /\ UNCHANGED <<opening, sess, lock, wire, record, calls>>

\* ... then the session is taken out of the map; that it was busy is kept.
TakeSession ==
  /\ pc[Disconnector] = "stopped"
  /\ RemoveSession
  /\ unfit' = IF sess = "busy" THEN unfit \cup {Disconnector} ELSE unfit
  /\ Goto(Disconnector, IF InMap THEN "taken" ELSE "done")
  /\ UNCHANGED <<opening, lifecycle, lock, wire, record, mode, left, verdict, told>>

\* The watcher and disconnect record unknown before they wait.
RecordTaken(a) ==
  /\ a \in {Watcher, Disconnector}
  /\ pc[a] = "taken"
  /\ record' = "unknown"
  /\ Goto(a, "locking")
  /\ UNCHANGED <<opening, sess, lifecycle, lock, wire, calls>>

\* Mutant: a busy connection is rolled back like an idle one.
LockTakenRollsBack(a) ==
  /\ a \in {Watcher, Disconnector}
  /\ pc[a] = "locking"
  /\ lock = Nobody
  /\ lock' = a
  /\ Goto(a, "rollback")
  /\ UNCHANGED <<opening, sess, lifecycle, wire, record, calls>>

\* They roll back, except that disconnect discards a connection that was busy.
LockTaken(a) ==
  /\ a \in {Watcher, Disconnector}
  /\ pc[a] = "locking"
  /\ lock = Nobody
  /\ lock' = a
  /\ Goto(a, IF a \in unfit THEN "release" ELSE "rollback")
  /\ UNCHANGED <<opening, sess, lifecycle, wire, record, calls>>

\* A shutdown clears the map.
ClearSessions ==
  /\ InMap
  /\ sess' = "gone"
  /\ UNCHANGED <<opening, lifecycle, lock, wire, record, pc, calls>>

\* The entry in EndedSessions expires or is evicted.
Forget ==
  /\ record # "none"
  /\ record' = "none"
  /\ UNCHANGED <<opening, sess, lifecycle, lock, wire, pc, calls>>

-----------------------------------------------------------------------------
(* SQL Server and the network (external) *)

\* The server executes the next command.  A query may end the transaction; the
\* reply then is an error, of the server or of the check that follows it.
\* A COMMIT may be rejected; ending a transaction that is gone is an error.
ServerExecutes(reply, after) ==
  /\ sent # <<>>
  /\ \/ /\ Head(sent) = "query"
        /\ reply = "ok" => txn = "open" /\ after = "open"
        /\ reply = "lost" => after # "open"
        /\ after = txn \/ (txn = "open" /\ after \in {"committed", "rolled_back"})
     \/ /\ Head(sent) # "query" /\ txn = "open"
        /\ reply = "ok" /\ after = EndVerdict(Head(sent))
     \/ /\ Head(sent) = "commit" /\ txn = "open"
        /\ reply = "error" /\ after = "rolled_back"
     \/ /\ Head(sent) # "query" /\ txn # "open"
        /\ reply = "error" /\ after = txn
  /\ sent' = Tail(sent)
  /\ replies' = IF link = "up" THEN Append(replies, reply) ELSE replies
  /\ txn' = after
  /\ UNCHANGED <<opening, sess, lifecycle, lock, link, record, pc, calls>>

LinkBreaks ==
  /\ opening = "installed"
  /\ link = "up"
  /\ link' = "broken"
  /\ UNCHANGED <<opening, sess, lifecycle, lock, sent, replies, txn, record, pc, calls>>

\* Without a connection, an open transaction is rolled back and what was not
\* executed is lost.
ServerEndsSession ==
  /\ link # "up"
  /\ txn = "open"
  /\ txn' = "rolled_back"
  /\ sent' = <<>>
  /\ UNCHANGED <<opening, sess, lifecycle, lock, link, replies, record, pc, calls>>

-----------------------------------------------------------------------------

Execute(r) ==
  \/ ExecuteLock(r) \/ ExecuteUnfit(r) \/ ReadOnlyRefused(r) \/ ReadOnlyPassed(r)
  \/ SendBatch(r) \/ ExecuteSucceeds(r) \/ ExecuteFails(r)
  \/ \E reply \in Replies : ReadBatch(r, reply)
  \/ \E step \in {"failed", "interrupted"} : RunFails(r, step)

Finish(r) ==
  \/ \E expired \in BOOLEAN : FinishLock(r, expired)
  \/ SendEnd(r) \/ EndFails(r)
  \/ \E reply \in Replies : ReadEnd(r, reply)

Cleanup(a) ==
  \/ SendRollback(a) \/ RollbackFails(a) \/ Release(a)
  \/ \E reply \in Replies : ReadRollback(a, reply)

Opener == Begin \/ BeginFails \/ Install
Guarded(r) == Guard(r) \/ GuardInterrupts(r)
Taken(a) == RecordTaken(a) \/ LockTaken(a)
Watching == WatcherExpires \/ WatcherReturns
Disconnecting == Invalidate \/ TakeSession

Server ==
  \/ ServerEndsSession
  \/ \E reply \in Replies : \E after \in {"none", "open", "committed", "rolled_back"} :
       ServerExecutes(reply, after)

Next ==
  \/ Opener \/ Watching \/ Disconnecting \/ Server
  \/ ClearSessions \/ Forget \/ LinkBreaks \/ CloseUnowned
  \/ \E r \in Requests :
       \/ ExecuteRefused(r) \/ Execute(r) \/ Interrupt(r) \/ Finish(r)
       \/ DropRequest(r) \/ Guarded(r)
       \/ \E expired \in BOOLEAN : \E n \in 0..MaxBatches : ExecuteStart(r, expired, n)
       \/ \E end \in {"commit", "rollback"} : FinishStart(r, end)
  \/ \E a \in Actors : Cleanup(a) \/ Taken(a)

Spec == Init /\ [][Next]_vars

\* Tasks that can run do, the server executes what it received and notices a
\* closed connection, and an idle session expires.  No query need time out.
Fairness ==
  /\ WF_vars(Opener) /\ WF_vars(Watching) /\ WF_vars(Server) /\ WF_vars(CloseUnowned)
  /\ WF_vars(TakeSession)
  /\ \A r \in Requests : WF_vars(Execute(r)) /\ WF_vars(Finish(r)) /\ WF_vars(Guarded(r))
  /\ \A a \in Actors : WF_vars(Cleanup(a)) /\ WF_vars(Taken(a))

FairSpec == Spec /\ Fairness

-----------------------------------------------------------------------------
(* Properties *)

Honest(outcome) == outcome \in {"committed", "rolled_back"} => txn = outcome

\* "Only acknowledged COMMIT/ROLLBACK responses establish a known database
\* outcome": what EndedSessions says of a session is what became of it.
RecordIsHonest == Honest(record)

\* What execute, commit and rollback return is, too, also when the session was
\* ended by somebody else before or while they ran.
RepliesAreHonest == \A r \in Requests : Honest(told[r])

\* So nothing the service says of a session's outcome is untrue, whoever ended
\* the session and whenever it is asked.
OutcomesAreHonest == RecordIsHonest /\ RepliesAreHonest

\* No command is written into a stream with unread packets, whoever ends the
\* session after a request was dropped, timed out or was cancelled.
CleanStream == [][Len(sent') > Len(sent) => sent = <<>> /\ replies = <<>>]_vars

\* A committed outcome is not overwritten by whoever cleans up later.
CommittedIsKept == [][record = "committed" => record' \in {"committed", "none"}]_vars

\* After rollback_manual_transaction_sessions took the sessions of the
\* connection, a begin that was under way does not bring one in.
NoLateSession == pc[Disconnector] \notin {"new", "stopped"} => ~InMap

\* Whatever is dropped, times out or disconnects: a session does not stay busy,
\* it becomes usable again or is removed, and no transaction stays open for ever
\* on the server.
SessionsEnd ==
  /\ sess = "busy" ~> sess # "busy"
  /\ txn = "open" ~> txn # "open"

=============================================================================
