--------------------------- MODULE RunningQueries ---------------------------
(***************************************************************************)
(* The registry of running queries (crates/dbx-core/src/query/             *)
(* query_cancel.rs): every statement the application executes is           *)
(* registered under an execution id, and commands that run on other        *)
(* threads cancel it, wait for it, or close every statement of a           *)
(* connection through that id.                                             *)
(*                                                                         *)
(* One step is one critical section of the mutex inner (with completed     *)
(* nested in it), or one of the effects a call performs after it has       *)
(* released the mutex: cancelling a displaced token, publishing the        *)
(* completion flag, running an interrupt closure.  Those effects are kept  *)
(* in todo, one sequence per thread; a thread does nothing else until its  *)
(* sequence is empty.                                                      *)
(***************************************************************************)
EXTENDS Naturals, Sequences

CONSTANTS
  ExecIds,    \* execution ids, chosen by the caller of a query
  Conns,      \* connections; also the pool each of them executes on
  Callers,    \* threads that call cancel, cancel_and_wait, ...
  MaxReg,     \* bound: registrations in one behaviour
  Reusable    \* execution ids that may be registered again

NoConn == "none"
NoExec == "none"

ASSUME RegistryAssumption ==
  /\ MaxReg \in Nat \ {0}
  /\ Reusable \subseteq ExecIds
  /\ NoExec \notin ExecIds /\ NoConn \notin Conns
  /\ Callers \cap (1..MaxReg) = {}

Regs == 1..MaxReg
NoReg == 0

\* A registration is plain (register_task), tracked (its completion is
\* remembered) or bound (tracked, and its token is a child of the connection's).
Kinds == {"plain", "tracked", "bound"}

\* The threads: the callers, and for each registration the task that owns it.
Threads == Callers \cup Regs

Ops == {"cancel", "complete", "interrupt"}
Effects == [op : Ops, reg : Regs]

VARIABLES
  inner,      \* execution id -> registration held by the map, or NoReg
  completed,  \* execution id -> registration remembered as completed, or NoReg
  nextReg,    \* registrations made so far
  task,       \* what each registration was made with
  interrupt,  \* the interrupt closure in its RunningTask, by who handed it over
  pool,       \* the pool key in its RunningTask
  cancelled,  \* registrations whose CancellationToken is cancelled
  done,       \* registrations whose completion was published
  guard,      \* the RegisteredQuery of each registration
  proven,     \* registrations whose guard has database_terminal set
  stmt,       \* the statement of each registration, on the database server
  handed,     \* registrations whose driver handed over an interrupt closure
  fired,      \* registrations whose interrupt closure has run
  asked,      \* registrations a cancel or a replacement was addressed to
  todo,       \* effects a thread still has to perform outside the mutex
  pc,         \* where each caller is in its call
  req         \* the arguments and intermediate results of that call

map == <<inner, completed, nextReg, task>>
flags == <<cancelled, done>>
registry == <<map, interrupt, pool, flags>>
owners == <<guard, proven, stmt, handed>>
ghosts == <<fired, asked>>
callers == <<pc, req>>
vars == <<inner, completed, nextReg, task, interrupt, pool, cancelled, done, guard,
          proven, stmt, handed, fired, asked, todo, pc, req>>

-----------------------------------------------------------------------------
(* State *)

Task == [exec : ExecIds \cup {NoExec}, kind : Kinds, conn : Conns \cup {NoConn}]

NoTask == [exec |-> NoExec, kind |-> "plain", conn |-> NoConn]

\* RegisteredQuery: held by the executing task, detached to the grace timer,
\* or gone.
GuardStates == {"none", "held", "detached", "gone"}
StmtStates == {"none", "idle", "pooled", "running", "ended"}

\* cancel: not requested, requested, or requested and its completion awaited.
Request == [id : ExecIds \cup {NoExec}, sub : Regs \cup {NoReg},
            cancel : {"none", "requested", "terminal"},
            ids : SUBSET ExecIds, seen : SUBSET Regs]

NoRequest == [id |-> NoExec, sub |-> NoReg, cancel |-> "none", ids |-> {}, seen |-> {}]

Init ==
  /\ inner = [e \in ExecIds |-> NoReg]
  /\ completed = [e \in ExecIds |-> NoReg]
  /\ nextReg = 0
  /\ task = [r \in Regs |-> NoTask]
  /\ interrupt = [r \in Regs |-> NoReg]
  /\ pool = [r \in Regs |-> NoConn]
  /\ cancelled = {}
  /\ done = {}
  /\ guard = [r \in Regs |-> "none"]
  /\ proven = {}
  /\ stmt = [r \in Regs |-> "none"]
  /\ handed = {}
  /\ fired = {}
  /\ asked = {}
  /\ todo = [t \in Threads |-> <<>>]
  /\ pc = [c \in Callers |-> "idle"]
  /\ req = [c \in Callers |-> NoRequest]

Tracked(r) == task[r].kind # "plain"

InterruptTail(r) ==
  IF interrupt[r] = NoReg THEN <<>> ELSE <<[op |-> "interrupt", reg |-> interrupt[r]]>>

-----------------------------------------------------------------------------
(* The owner of a registration: the task that executes the statement *)

\* Mutant: the displaced task never publishes its completion.
DisplacedTailSilent(r) ==
  IF r = NoReg THEN <<>>
  ELSE <<[op |-> "cancel", reg |-> r]>> \o InterruptTail(r)

\* Mutant: completion is published before the token is cancelled.
DisplacedTailSwapped(r) ==
  IF r = NoReg THEN <<>>
  ELSE <<[op |-> "complete", reg |-> r], [op |-> "cancel", reg |-> r]>>
         \o InterruptTail(r)

\* What register_task_with_token does to the task it displaced, once the
\* mutex is released: cancel its token, publish completion, interrupt it.
DisplacedTail(r) ==
  IF r = NoReg THEN <<>>
  ELSE <<[op |-> "cancel", reg |-> r], [op |-> "complete", reg |-> r]>>
         \o InterruptTail(r)

\* register_task, register_task_for_terminal_confirmation and its _with_parent
\* form: the new entry replaces whatever the map holds under this id, and
\* forgets the completion remembered for it.
Register(e, k, n) ==
  LET r == nextReg + 1
      previous == inner[e]
  IN  /\ r \in Regs
      /\ e \in Reusable \/ \A q \in 1..nextReg : task[q].exec # e
      /\ nextReg' = r
      /\ inner' = [inner EXCEPT ![e] = r]
      /\ completed' = [completed EXCEPT ![e] = NoReg]
      /\ task' = [task EXCEPT ![r] = [exec |-> e, kind |-> k, conn |-> n]]
      /\ interrupt' = [q \in Regs |-> IF q = previous THEN NoReg ELSE interrupt[q]]
      /\ guard' = [guard EXCEPT ![r] = "held"]
      /\ stmt' = [stmt EXCEPT ![r] = "idle"]
      /\ asked' = asked \cup ({previous} \cap Regs)
      /\ todo' = [todo EXCEPT ![r] = DisplacedTail(previous)]
      /\ UNCHANGED <<pool, flags, proven, handed, fired, callers>>

\* Mutant: the execution id is stored as the pool key.
SetPoolKeyFromId(r) ==
  LET q == inner[task[r].exec]
  IN  /\ guard[r] = "held" /\ stmt[r] = "idle" /\ todo[r] = <<>> /\ q # NoReg
      /\ stmt' = [stmt EXCEPT ![r] = "pooled"]
      /\ pool' = [pool EXCEPT ![q] = task[r].exec]
      /\ UNCHANGED <<map, interrupt, flags, guard, proven, handed,
                     ghosts, todo, callers>>

\* set_pool_key: by execution id, so it lands on whatever entry is there.
SetPoolKey(r) ==
  LET q == inner[task[r].exec]
  IN  /\ guard[r] = "held" /\ stmt[r] = "idle" /\ todo[r] = <<>>
      /\ stmt' = [stmt EXCEPT ![r] = "pooled"]
      /\ pool' = IF q = NoReg THEN pool ELSE [pool EXCEPT ![q] = task[r].conn]
      /\ UNCHANGED <<map, interrupt, flags, guard, proven, handed,
                     ghosts, todo, callers>>

\* Mutant: stored in the entry even when that entry is already cancelled.
RegisterInterruptLate(r) ==
  LET q == inner[task[r].exec]
  IN  /\ guard[r] = "held" /\ stmt[r] \in {"pooled", "running"}
      /\ todo[r] = <<>> /\ r \notin handed
      /\ handed' = handed \cup {r}
      /\ interrupt' = IF q = NoReg THEN interrupt ELSE [interrupt EXCEPT ![q] = r]
      /\ UNCHANGED <<map, pool, flags, guard, proven, stmt, ghosts,
                     todo, callers>>

\* Mutant: run at once without looking at the entry.
RegisterInterruptEager(r) ==
  /\ guard[r] = "held" /\ stmt[r] \in {"pooled", "running"}
  /\ todo[r] = <<>> /\ r \notin handed
  /\ handed' = handed \cup {r}
  /\ todo' = [todo EXCEPT ![r] = <<[op |-> "interrupt", reg |-> r]>>]
  /\ UNCHANGED <<registry, guard, proven, stmt, ghosts, callers>>

\* register_interrupt: stored in the entry under this id unless that entry is
\* cancelled or missing; then the closure runs at once, after the unlock.
RegisterInterrupt(r) ==
  LET q == inner[task[r].exec]
      stored == q # NoReg /\ q \notin cancelled
  IN  /\ guard[r] = "held" /\ stmt[r] \in {"pooled", "running"}
      /\ todo[r] = <<>> /\ r \notin handed
      /\ handed' = handed \cup {r}
      /\ \/ /\ stored
            /\ interrupt' = [interrupt EXCEPT ![q] = r]
            /\ todo' = todo
         \/ /\ ~stored
            /\ interrupt' = interrupt
            /\ todo' = [todo EXCEPT ![r] = <<[op |-> "interrupt", reg |-> r]>>]
      /\ UNCHANGED <<map, pool, flags, guard, proven, stmt, ghosts,
                     callers>>

\* The statement is sent to the server, by an owner that still holds its guard.
StartStatement(r) ==
  /\ guard[r] = "held" /\ stmt[r] = "pooled" /\ todo[r] = <<>>
  /\ stmt' = [stmt EXCEPT ![r] = "running"]
  /\ UNCHANGED <<registry, guard, proven, handed, ghosts, todo, callers>>

\* The server ends the statement, whether or not anybody still waits for it.
EndStatement(r) ==
  /\ stmt[r] = "running"
  /\ stmt' = [stmt EXCEPT ![r] = "ended"]
  /\ UNCHANGED <<registry, guard, proven, handed, ghosts, todo, callers>>

\* Mutant: the registration is not compared.
RemoveById(r) ==
  LET e == task[r].exec
      q == inner[e]
  IN  /\ inner' = [inner EXCEPT ![e] = NoReg]
      /\ completed' = [completed EXCEPT ![e] = IF q # NoReg /\ Tracked(q) THEN q ELSE @]
      /\ UNCHANGED interrupt
      /\ todo' = [todo EXCEPT ![r] =
                    IF q # NoReg THEN <<[op |-> "complete", reg |-> q]>> ELSE <<>>]

\* remove: only the registration itself takes its entry out of the map; the
\* entry is remembered as completed when its kind asks for it.
Remove(r) ==
  LET e == task[r].exec
      mine == inner[e] = r
  IN  /\ inner' = [inner EXCEPT ![e] = IF mine THEN NoReg ELSE @]
      /\ completed' = [completed EXCEPT ![e] = IF mine /\ Tracked(r) THEN r ELSE @]
      /\ interrupt' = [interrupt EXCEPT ![r] = IF mine THEN NoReg ELSE @]
      /\ todo' = [todo EXCEPT ![r] =
                    IF mine THEN <<[op |-> "complete", reg |-> r]>> ELSE <<>>]

\* Mutant: a timeout or a transport error counts as the end of the statement.
AnyResultProves(r) == stmt[r] # "none"

\* finish_with_database_result: which results prove that the database request
\* has stopped.  A success or an SQL rejection while executing needs a statement
\* the server has ended, NotStarted one that was never sent; anything else
\* (transport error, timeout, cancellation, a panic) proves nothing.
ResultProves(r) == stmt[r] \in {"idle", "pooled", "ended"}

\* The guard is dropped with the result of the execution.
Finish(r, terminal) ==
  /\ guard[r] = "held" /\ todo[r] = <<>>
  /\ terminal => Tracked(r) /\ ResultProves(r)
  /\ guard' = [guard EXCEPT ![r] = "gone"]
  /\ proven' = IF terminal THEN proven \cup {r} ELSE proven
  /\ Remove(r)
  /\ UNCHANGED <<nextReg, task, pool, flags, stmt, handed, ghosts, callers>>

\* Mutant: the registration is dropped on a timeout like on any other result.
DetachDrops(r) ==
  /\ guard[r] = "held" /\ stmt[r] = "running" /\ todo[r] = <<>>
  /\ ~Tracked(r)
  /\ guard' = [guard EXCEPT ![r] = "detached"]
  /\ Remove(r)
  /\ UNCHANGED <<nextReg, task, pool, flags, proven, stmt, handed, ghosts, callers>>

\* finish / finish_with_late_cancel after a timeout: the caller stops waiting,
\* the entry stays reachable, a timer will reclaim it.
Detach(r) ==
  /\ guard[r] = "held" /\ stmt[r] = "running" /\ todo[r] = <<>>
  /\ ~Tracked(r)
  /\ guard' = [guard EXCEPT ![r] = "detached"]
  /\ UNCHANGED <<registry, proven, stmt, handed, ghosts, todo, callers>>

\* Mutant: the timer ends and the entry stays.
GraceOverKeeps(r) ==
  /\ guard[r] = "detached"
  /\ guard' = [guard EXCEPT ![r] = "gone"]
  /\ UNCHANGED <<registry, proven, stmt, handed, ghosts, todo, callers>>

\* The grace period of a detached registration is over.
GraceOver(r) ==
  /\ guard[r] = "detached"
  /\ guard' = [guard EXCEPT ![r] = "gone"]
  /\ Remove(r)
  /\ UNCHANGED <<nextReg, task, pool, flags, proven, stmt, handed, ghosts, callers>>

-----------------------------------------------------------------------------
(* Effects outside the mutex *)

Perform(t) ==
  /\ todo[t] # <<>>
  /\ todo' = [todo EXCEPT ![t] = Tail(@)]
  /\ LET f == Head(todo[t])
     IN  /\ cancelled' = IF f.op = "cancel" THEN cancelled \cup {f.reg} ELSE cancelled
         /\ done' = IF f.op = "complete" THEN done \cup {f.reg} ELSE done
         /\ fired' = IF f.op = "interrupt" THEN fired \cup {f.reg} ELSE fired
  /\ UNCHANGED <<map, interrupt, pool, owners, asked, callers>>

-----------------------------------------------------------------------------
(* The callers *)

\* What cancel does once the mutex is released: the closure runs, and the
\* completion of a plain entry is published.
CancelTail(r) ==
  InterruptTail(r) \o IF Tracked(r) THEN <<>> ELSE <<[op |-> "complete", reg |-> r]>>

\* Mutant: completion is published for tracked entries too.
CancelEntryCompletes(e, t) ==
  LET r == inner[e]
  IN  /\ r # NoReg
      /\ cancelled' = cancelled \cup {r}
      /\ interrupt' = [interrupt EXCEPT ![r] = NoReg]
      /\ inner' = [inner EXCEPT ![e] = IF Tracked(r) THEN @ ELSE NoReg]
      /\ asked' = asked \cup {r}
      /\ todo' = [todo EXCEPT ![t] =
                    InterruptTail(r) \o <<[op |-> "complete", reg |-> r]>>]

\* The critical section of cancel, by thread t: the token is cancelled, the
\* interrupt is taken; a tracked entry stays until its guard is dropped, a
\* plain one leaves the map and is completed by this thread.
CancelEntry(e, t) ==
  LET r == inner[e]
  IN  /\ r # NoReg
      /\ cancelled' = cancelled \cup {r}
      /\ interrupt' = [interrupt EXCEPT ![r] = NoReg]
      /\ inner' = [inner EXCEPT ![e] = IF Tracked(r) THEN @ ELSE NoReg]
      /\ asked' = asked \cup {r}
      /\ todo' = [todo EXCEPT ![t] = CancelTail(r)]

NothingToCancel(e) ==
  /\ inner[e] = NoReg
  /\ UNCHANGED <<cancelled, interrupt, inner, asked, todo>>

\* cancel
Cancel(c, e) ==
  /\ pc[c] = "idle" /\ todo[c] = <<>>
  /\ CancelEntry(e, c)
  /\ UNCHANGED <<completed, nextReg, task, pool, done, owners, fired, callers>>

\* cancel_and_wait and wait_for_completion begin alike: subscribe to the
\* completion of the entry under this id, or look at the completed ones.
Subscribe(c, e, cancel) ==
  /\ pc[c] = "idle" /\ todo[c] = <<>>
  /\ req' = [req EXCEPT ![c] = [NoRequest EXCEPT !.id = e, !.sub = inner[e]]]
  /\ pc' = [pc EXCEPT ![c] = IF inner[e] = NoReg THEN "reading"
                             ELSE IF cancel THEN "subscribed"
                             ELSE "waiting"]
  /\ UNCHANGED <<registry, owners, ghosts, todo>>

\* cancel_and_wait calls cancel, after the subscription released the mutex.
CancelSubscribed(c) ==
  LET e == req[c].id
      present == inner[e] # NoReg
  IN  /\ pc[c] = "subscribed"
      /\ CancelEntry(e, c) \/ NothingToCancel(e)
      /\ req' = [req EXCEPT ![c].cancel = IF present THEN "requested" ELSE "none"]
      /\ pc' = [pc EXCEPT ![c] = IF present THEN "waiting" ELSE "reading"]
      /\ UNCHANGED <<completed, nextReg, task, pool, done, owners, fired>>

\* Mutant: the wait has no timeout.
WaitForCompletion(c, terminal) ==
  /\ pc[c] = "waiting" /\ todo[c] = <<>>
  /\ terminal /\ req[c].sub \in done
  /\ req' = [req EXCEPT ![c].cancel = IF @ = "none" THEN @ ELSE "terminal"]
  /\ pc' = [pc EXCEPT ![c] = "reading"]
  /\ UNCHANGED <<registry, owners, ghosts, todo>>

\* The wait ends with the completion flag or with the timeout.
WaitEnds(c, terminal) ==
  /\ pc[c] = "waiting" /\ todo[c] = <<>>
  /\ terminal => req[c].sub \in done
  /\ req' = [req EXCEPT ![c].cancel = IF @ = "none" \/ ~terminal THEN @ ELSE "terminal"]
  /\ pc' = [pc EXCEPT ![c] = "reading"]
  /\ UNCHANGED <<registry, owners, ghosts, todo>>

\* CancellationWaitResult, from completed_execution_result; a call that asked
\* for the cancellation reports its own wait as terminal.
Result(c) ==
  LET e == req[c].id
      known == inner[e] = NoReg /\ completed[e] # NoReg
  IN  [terminal |-> req[c].cancel = "terminal" \/ (req[c].cancel = "none" /\ known),
       database |-> known /\ completed[e] \in proven]

Answers(c) == pc[c] = "reading" /\ todo[c] = <<>>

\* The caller gets its Result, in one critical section.
ReadCompleted(c) ==
  /\ Answers(c)
  /\ pc' = [pc EXCEPT ![c] = "idle"]
  /\ req' = [req EXCEPT ![c] = NoRequest]
  /\ UNCHANGED <<registry, owners, ghosts, todo>>

\* cancel_matching (cancel_connection): the ids are collected under the mutex...
CollectMatching(c, n) ==
  LET matching == {e \in ExecIds : inner[e] # NoReg /\ task[inner[e]].conn = n}
  IN  /\ pc[c] = "idle" /\ todo[c] = <<>>
      /\ req' = [req EXCEPT ![c] = [NoRequest EXCEPT !.ids = matching,
                                      !.seen = {inner[e] : e \in matching}]]
      /\ pc' = [pc EXCEPT ![c] = "matching"]
      /\ UNCHANGED <<registry, owners, ghosts, todo>>

\* Mutant: stops after the first id.
CancelMatchingFirst(c, e) ==
  /\ pc[c] = "matching" /\ todo[c] = <<>>
  /\ e \in req[c].ids
  /\ CancelEntry(e, c) \/ NothingToCancel(e)
  /\ req' = [req EXCEPT ![c].ids = {}]
  /\ UNCHANGED <<completed, nextReg, task, pool, done, owners, fired, pc>>

\* ...and cancelled one by one after it was released.
CancelMatching(c, e) ==
  /\ pc[c] = "matching" /\ todo[c] = <<>>
  /\ e \in req[c].ids
  /\ CancelEntry(e, c) \/ NothingToCancel(e)
  /\ req' = [req EXCEPT ![c].ids = @ \ {e}]
  /\ UNCHANGED <<completed, nextReg, task, pool, done, owners, fired, pc>>

MatchingDone(c) ==
  /\ pc[c] = "matching" /\ todo[c] = <<>> /\ req[c].ids = {}
  /\ pc' = [pc EXCEPT ![c] = "idle"]
  /\ req' = [req EXCEPT ![c] = NoRequest]
  /\ UNCHANGED <<registry, owners, ghosts, todo>>

-----------------------------------------------------------------------------
(* The environment *)

\* The connection's own token is cancelled (its lifecycle ends): every child
\* token of a bound registration with it, without any registry call.
CancelLifecycle(n) ==
  /\ \E r \in Regs : guard[r] = "held" /\ task[r].kind = "bound"
                     /\ task[r].conn = n /\ r \notin cancelled
  /\ cancelled' = cancelled \cup {r \in Regs : guard[r] = "held" /\ task[r].kind = "bound"
                                               /\ task[r].conn = n}
  /\ UNCHANGED <<map, interrupt, pool, done, owners, ghosts, todo, callers>>

\* A remembered completion reaches its retention and is pruned by whoever looks
\* at the map next.
ForgetCompleted(e) ==
  /\ completed[e] # NoReg
  /\ completed' = [completed EXCEPT ![e] = NoReg]
  /\ UNCHANGED <<inner, nextReg, task, interrupt, pool, flags, owners, ghosts, todo,
                 callers>>

OwnerStep(r) ==
  \/ SetPoolKey(r)
  \/ RegisterInterrupt(r)
  \/ StartStatement(r)
  \/ EndStatement(r)
  \/ \E terminal \in BOOLEAN : Finish(r, terminal)
  \/ Detach(r)
  \/ GraceOver(r)

CallerStep(c) ==
  \/ \E e \in ExecIds : Cancel(c, e)
  \/ \E e \in ExecIds, cancel \in BOOLEAN : Subscribe(c, e, cancel)
  \/ CancelSubscribed(c)
  \/ \E terminal \in BOOLEAN : WaitEnds(c, terminal)
  \/ ReadCompleted(c)
  \/ \E n \in Conns : CollectMatching(c, n)
  \/ \E e \in ExecIds : CancelMatching(c, e)
  \/ MatchingDone(c)

Next ==
  \/ \E e \in ExecIds, k \in Kinds, n \in Conns : Register(e, k, n)
  \/ \E r \in Regs : OwnerStep(r)
  \/ \E t \in Threads : Perform(t)
  \/ \E c \in Callers : CallerStep(c)
  \/ \E n \in Conns : CancelLifecycle(n)
  \/ \E e \in ExecIds : ForgetCompleted(e)

Spec == Init /\ [][Next]_vars

\* Every call runs to its end once it has begun (it takes the mutex, which no
\* thread keeps, or waits with a timeout), and the grace timer fires.  Nothing
\* is assumed of owners or of the database server.
Fairness ==
  /\ \A t \in Threads : WF_vars(Perform(t))
  /\ \A r \in Regs : WF_vars(GraceOver(r))
  /\ \A c \in Callers :
       /\ WF_vars(CancelSubscribed(c))
       /\ WF_vars(\E terminal \in BOOLEAN : WaitEnds(c, terminal))
       /\ WF_vars(ReadCompleted(c))
       /\ WF_vars(\E e \in ExecIds : CancelMatching(c, e))
       /\ WF_vars(MatchingDone(c))

FairSpec == Spec /\ Fairness

-----------------------------------------------------------------------------
(* Properties *)

\* Type correctness.
TypeOK ==
  /\ inner \in [ExecIds -> Regs \cup {NoReg}]
  /\ completed \in [ExecIds -> Regs \cup {NoReg}]
  /\ nextReg \in 0..MaxReg
  /\ task \in [Regs -> Task]
  /\ interrupt \in [Regs -> Regs \cup {NoReg}]
  /\ pool \in [Regs -> Conns \cup {NoConn}]
  /\ cancelled \subseteq Regs
  /\ done \subseteq Regs
  /\ guard \in [Regs -> GuardStates]
  /\ proven \subseteq Regs
  /\ stmt \in [Regs -> StmtStates]
  /\ handed \subseteq Regs
  /\ fired \subseteq Regs
  /\ asked \subseteq Regs
  /\ todo \in [Threads -> Seq(Effects)]
  /\ pc \in [Callers -> {"idle", "subscribed", "waiting", "reading", "matching"}]
  /\ req \in [Callers -> Request]

Pending(op, r) ==
  \E t \in Threads : \E i \in 1..Len(todo[t]) :
    todo[t][i] = [op |-> op, reg |-> r]

Replaced(r) == \E q \in Regs : q > r /\ q <= nextReg /\ task[q].exec = task[r].exec

SamePool(r) == \A q \in 1..nextReg : task[q].exec = task[r].exec => task[q].conn = task[r].conn

Alone(r) == \A q \in 1..nextReg : task[q].exec = task[r].exec => q = r

\* is_pool_active: neither keepalive nor the sweep of idle pools closes such a pool.
IsPoolActive(n) == \E e \in ExecIds : inner[e] # NoReg /\ pool[inner[e]] = n

\* A registration stays reachable under its id for as long as its guard is
\* alive, unless a newer registration took the id or (plain ones only) it was
\* cancelled: the late drop or grace timer of an older registration with the
\* same id never takes the entry away.  While its statement executes, also after
\* the guard was detached, the pool of its connection counts as active, unless its
\* id was also used on another connection (set_pool_key goes by the id).
AliveIsReachable ==
  \A r \in 1..nextReg :
    guard[r] \in {"held", "detached"} /\ ~Replaced(r) /\ (Tracked(r) \/ r \notin asked) =>
      /\ inner[task[r].exec] = r
      /\ stmt[r] = "running" /\ SamePool(r) => IsPoolActive(task[r].conn)

\* register_interrupt against cancel, in either order: a statement that was
\* both cancelled and interruptible has been interrupted, or the thread that
\* took the closure is about to run it; no closure is left where nobody will
\* look at it again.  (Of two registrations with one id, the late closure of the
\* older is stored in the entry of the newer.)  And no statement is interrupted
\* that nobody asked to cancel and whose connection is alive.
InterruptFollowsCancel ==
  /\ \A r \in asked \cap handed :
       Alone(r) => r \in fired \/ Pending("interrupt", r)
  /\ \A r \in Regs :
       r \in fired \/ Pending("interrupt", r) => r \in asked \/ r \in cancelled

\* The owner of r is through with it; or it was told to stop, after its entry was
\* taken from it: by a newer registration or, if it is plain, by a cancel.
Finished(r) ==
  guard[r] = "gone" \/ (r \in cancelled /\ (Replaced(r) \/ ~Tracked(r)))

\* A cancel_and_wait that reports its own wait as terminal has seen the completion
\* of the registration it subscribed to, whatever became of the id since: that one
\* has finished.  A terminal from completed_execution_result is about the latest
\* registration of the id, which has finished, its guard gone.
TerminalMeansFinished ==
  \A c \in Callers :
    Answers(c) /\ Result(c).terminal =>
      \/ req[c].cancel = "terminal" /\ Finished(req[c].sub)
      \/ /\ req[c].cancel = "none"
         /\ \E r \in 1..nextReg :
              task[r].exec = req[c].id /\ ~Replaced(r) /\ guard[r] = "gone"

\* The comment on cancel_and_wait, for every kind of registration: terminal is
\* reported only after the owning task has finished.
TerminalMeansOwnerFinished ==
  \A c \in Callers :
    Answers(c) /\ Result(c).terminal =>
      \A r \in 1..nextReg : task[r].exec = req[c].id => guard[r] = "gone"

\* database_terminal is reported only for an id whose latest statement has
\* ended on the server and whose owner has let go of it.
DatabaseTerminalIsHonest ==
  \A c \in Callers :
    Answers(c) /\ Result(c).database =>
      \A r \in 1..nextReg :
        task[r].exec = req[c].id /\ ~Replaced(r) => guard[r] = "gone" /\ stmt[r] # "running"

\* What cancel_and_wait and completed_execution_result report of an execution
\* is true of its owner and of the server.
AnswersAreHonest == TerminalMeansFinished /\ DatabaseTerminalIsHonest

\* Once cancel_connection returns, every statement it found for the connection
\* has been cancelled or has left the map.
MatchingIsComplete ==
  \A c \in Callers :
    pc[c] = "matching" /\ req[c].ids = {} =>
      \A r \in req[c].seen : r \in cancelled \/ guard[r] = "gone" \/ Pending("cancel", r)

\* A task that left the map has published its completion, or some thread is
\* about to: nobody waits for it until the timeout.
GoneIsSignalled ==
  \A r \in 1..nextReg :
    inner[task[r].exec] # r => r \in done \/ Pending("complete", r)

\* No registration is forgotten: it is in the map while it lives, and whoever
\* waits for it is told when it is not.
NoneIsForgotten == AliveIsReachable /\ GoneIsSignalled

\* A registration that was detached after a timeout is eventually out of the
\* map, also when its id was cancelled meanwhile.
DetachedIsReclaimed ==
  \A r \in Regs :
    guard[r] = "detached" ~> \A e \in ExecIds : inner[e] # r

\* Every cancel_and_wait, wait_for_completion and cancel_matching returns, also
\* when the owner it waits for never finishes.
CallsReturn == \A c \in Callers : pc[c] # "idle" ~> pc[c] = "idle"

=============================================================================
