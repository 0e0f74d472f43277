--------------------------- MODULE TypeExecution ---------------------------
(***************************************************************************)
(* Durable receipts of TYPE statements (crates/dbx-core/src/persistence/   *)
(* storage/type_execution_receipts.rs and the functions that use them):    *)
(* execute_conditional_update claims a receipt for its execution id before *)
(* it runs the statement in a task of its own, finish_conditional_update   *)
(* marks it terminal once the result proves that the database is done, and *)
(* observe_type_execution reads it for a client that lost the answer.      *)
(*                                                                         *)
(* The registry of running queries only decides how long an observer waits *)
(* between its two reads (its answer is discarded), so the wait may end at *)
(* any time here.  Of the fields of a binding other than the execution id  *)
(* only equality matters: they are one plan.                               *)
(***************************************************************************)
EXTENDS Naturals

CONSTANTS
  Ids,          \* execution ids
  Plans,        \* the other fields of a TypeExecutionBinding
  None,         \* no receipt, no binding
  Requests,     \* deliveries of execute_conditional_update
  Observers,    \* callers of cancel_conditional_update with cancel = false
  MaxCrashes    \* bound: restarts of the backend

ASSUME ReceiptAssumption ==
  /\ None \notin Ids \cup Plans
  /\ MaxCrashes \in Nat

Bindings == [id : Ids, plan : Plans]
Unbound == [id |-> None, plan |-> None]
Receipts == [plan : Plans \cup {None}, terminal : BOOLEAN]

Pending(b) == [plan |-> b.plan, terminal |-> FALSE]
Terminal(b) == [plan |-> b.plan, terminal |-> TRUE]

VARIABLES
  receipt,    \* durable: the row of app_state for each execution id
  task,       \* where each request is
  binding,    \* the binding each request was delivered with
  statement,  \* the statement of each request, seen from the database
  reply,      \* what the client of each request was told
  watch,      \* where each observer is
  watched,    \* the binding each observer asks about
  crashes     \* restarts so far

vars == <<receipt, task, binding, statement, reply, watch, watched, crashes>>
requests == <<task, binding, statement, reply>>
observers == <<watch, watched>>

Live == {"claimed", "executing", "saving"}
TaskStates == {"absent", "ended"} \cup Live
StatementStates == {"notSent", "running", "ended"}
Replies == {"none", "unknown", "definite"}
Verdicts == {"terminal", "notTerminal", "error"}
WatchStates == {"idle", "waiting"} \cup Verdicts

TypeOK ==
  /\ receipt \in [Ids -> Receipts]
  /\ task \in [Requests -> TaskStates]
  /\ binding \in [Requests -> Bindings \cup {Unbound}]
  /\ statement \in [Requests -> StatementStates]
  /\ reply \in [Requests -> Replies]
  /\ watch \in [Observers -> WatchStates]
  /\ watched \in [Observers -> Bindings \cup {Unbound}]
  /\ crashes \in 0..MaxCrashes

Init ==
  /\ receipt = [i \in Ids |-> [plan |-> None, terminal |-> FALSE]]
  /\ task = [r \in Requests |-> "absent"]
  /\ binding = [r \in Requests |-> Unbound]
  /\ statement = [r \in Requests |-> "notSent"]
  /\ reply = [r \in Requests |-> "none"]
  /\ watch = [o \in Observers |-> "idle"]
  /\ watched = [o \in Observers |-> Unbound]
  /\ crashes = 0

-----------------------------------------------------------------------------
(* Executing *)

\* The client learns something, unless it no longer waits.
Tell(r, what) ==
  reply' = [reply EXCEPT ![r] = IF @ = "none" THEN what ELSE @]

\* Mutant: a repeated request with the same binding is let through.
ClaimAgain(r, b) ==
  /\ task[r] = "absent"
  /\ receipt[b.id].plan = None \/ receipt[b.id] = Pending(b)
  /\ receipt' = [receipt EXCEPT ![b.id] = Pending(b)]
  /\ task' = [task EXCEPT ![r] = "claimed"]
  /\ binding' = [binding EXCEPT ![r] = b]
  /\ UNCHANGED <<statement, reply, observers, crashes>>

\* Mutant: INSERT OR REPLACE.
ClaimReplaces(r, b) ==
  /\ task[r] = "absent"
  /\ receipt' = [receipt EXCEPT ![b.id] = Pending(b)]
  /\ task' = [task EXCEPT ![r] = "claimed"]
  /\ binding' = [binding EXCEPT ![r] = b]
  /\ UNCHANGED <<statement, reply, observers, crashes>>

\* claim_type_execution inserts a pending receipt; the handler goes on.
Claim(r, b) ==
  /\ task[r] = "absent"
  /\ receipt[b.id].plan = None
  /\ receipt' = [receipt EXCEPT ![b.id] = Pending(b)]
  /\ task' = [task EXCEPT ![r] = "claimed"]
  /\ binding' = [binding EXCEPT ![r] = b]
  /\ UNCHANGED <<statement, reply, observers, crashes>>

\* INSERT OR IGNORE inserted nothing, or the storage failed: the request is
\* refused before anything is executed.
ClaimRefused(r, b) ==
  /\ task[r] = "absent"
  /\ task' = [task EXCEPT ![r] = "ended"]
  /\ binding' = [binding EXCEPT ![r] = b]
  /\ Tell(r, "unknown")
  /\ UNCHANGED <<receipt, statement, observers, crashes>>

\* The handler registers the execution and spawns its task.
Spawn(r) ==
  /\ task[r] = "claimed"
  /\ task' = [task EXCEPT ![r] = "executing"]
  /\ UNCHANGED <<receipt, binding, statement, reply, observers, crashes>>

\* The response timeout, or a client that hangs up: the task goes on, except
\* that a handler dropped before it spawned one leaves the receipt pending.
CallerLeaves(r) ==
  /\ task[r] \in Live
  /\ reply[r] = "none"
  /\ Tell(r, "unknown")
  /\ \/ UNCHANGED task
     \/ task[r] = "claimed" /\ task' = [task EXCEPT ![r] = "ended"]
  /\ UNCHANGED <<receipt, binding, statement, observers, crashes>>

\* The driver hands the statement over; from here on it may take effect.
SendStatement(r) ==
  /\ task[r] = "executing"
  /\ statement[r] = "notSent"
  /\ statement' = [statement EXCEPT ![r] = "running"]
  /\ UNCHANGED <<receipt, task, binding, reply, observers, crashes>>

\* The database is done with it, whoever still waits for it.
EndStatement(r) ==
  /\ statement[r] = "running"
  /\ statement' = [statement EXCEPT ![r] = "ended"]
  /\ UNCHANGED <<receipt, task, binding, reply, observers, crashes>>

\* Mutant: the end of the task is taken for the end of the statement.
AnyResultProves(r) == TRUE

\* finish_with_database_result: Ok and an acknowledged SQL rejection come from
\* the database, not_started from a driver that did not hand it over.
ResultProves(r) == statement[r] # "running"

\* A result that proves the statement is over: the receipt is to be saved.
ProvenResult(r) ==
  /\ task[r] = "executing"
  /\ ResultProves(r)
  /\ task' = [task EXCEPT ![r] = "saving"]
  /\ UNCHANGED <<receipt, binding, statement, reply, observers, crashes>>

\* Any other error: a timeout, a lost connection, a cancellation under way.
UnprovenResult(r) ==
  /\ task[r] = "executing"
  /\ task' = [task EXCEPT ![r] = "ended"]
  /\ Tell(r, "unknown")
  /\ UNCHANGED <<receipt, binding, statement, observers, crashes>>

\* finish_type_execution replaces the pending receipt of this very binding.
Save(r) ==
  /\ task[r] = "saving"
  /\ receipt[binding[r].id] = Pending(binding[r])
  /\ receipt' = [receipt EXCEPT ![binding[r].id] = Terminal(binding[r])]
  /\ task' = [task EXCEPT ![r] = "ended"]
  /\ Tell(r, "definite")
  /\ UNCHANGED <<binding, statement, observers, crashes>>

\* Mutant: a failed save is only logged.
SaveFailsQuietly(r) ==
  /\ task[r] = "saving"
  /\ task' = [task EXCEPT ![r] = "ended"]
  /\ Tell(r, "definite")
  /\ UNCHANGED <<receipt, binding, statement, observers, crashes>>

\* It updated no row, or the storage failed: the result is withheld.
SaveFails(r) ==
  /\ task[r] = "saving"
  /\ task' = [task EXCEPT ![r] = "ended"]
  /\ Tell(r, "unknown")
  /\ UNCHANGED <<receipt, binding, statement, observers, crashes>>

\* The task ends without sending a result.
TaskStops(r) ==
  /\ task[r] \in {"executing", "saving"}
  /\ task' = [task EXCEPT ![r] = "ended"]
  /\ Tell(r, "unknown")
  /\ UNCHANGED <<receipt, binding, statement, observers, crashes>>

-----------------------------------------------------------------------------
(* Observing *)

\* Mutant: a pending receipt is answered with its own status.
VerdictRaw(b) ==
  IF receipt[b.id].plan \notin {None, b.plan} THEN "error"
  ELSE IF receipt[b.id] = Terminal(b) THEN "terminal"
  ELSE "pending"

\* type_execution_terminal, and what observe_type_execution makes of it.
Verdict(b) ==
  IF receipt[b.id].plan \notin {None, b.plan} THEN "error"
  ELSE IF receipt[b.id] = Terminal(b) THEN "terminal"
  ELSE "notTerminal"

\* The first read answers, unless it finds the pending receipt of b.
Observe(o, b) ==
  /\ watch[o] # "waiting"
  /\ watched' = [watched EXCEPT ![o] = b]
  /\ watch' = [watch EXCEPT ![o] =
       IF receipt[b.id] = Pending(b) THEN "waiting" ELSE Verdict(b)]
  /\ UNCHANGED <<receipt, requests, crashes>>

\* After the wait, however it ended, the second read answers.
ObserveAgain(o) ==
  /\ watch[o] = "waiting"
  /\ watch' = [watch EXCEPT ![o] = Verdict(watched[o])]
  /\ UNCHANGED <<receipt, requests, watched, crashes>>

\* The first or the second read of the storage failed.
ObserveFails(o, b) ==
  /\ watch[o] = "waiting" => watched[o] = b
  /\ watched' = [watched EXCEPT ![o] = b]
  /\ watch' = [watch EXCEPT ![o] = "error"]
  /\ UNCHANGED <<receipt, requests, crashes>>

-----------------------------------------------------------------------------
\* The backend restarts.  The receipts are still there, and so are the
\* statements the database was given; nobody gets an answer.
Crash ==
  /\ crashes < MaxCrashes
  /\ crashes' = crashes + 1
  /\ task' = [r \in Requests |-> IF task[r] \in Live THEN "ended" ELSE task[r]]
  /\ reply' = [r \in Requests |->
                 IF task[r] \in Live /\ reply[r] = "none" THEN "unknown" ELSE reply[r]]
  /\ watch' = [o \in Observers |-> IF watch[o] = "waiting" THEN "error" ELSE watch[o]]
  /\ UNCHANGED <<receipt, binding, statement, watched>>

Next ==
  \/ \E r \in Requests : \E b \in Bindings : Claim(r, b) \/ ClaimRefused(r, b)
  \/ \E r \in Requests :
       \/ Spawn(r) \/ CallerLeaves(r) \/ SendStatement(r) \/ EndStatement(r)
       \/ ProvenResult(r) \/ UnprovenResult(r) \/ TaskStops(r)
       \/ Save(r) \/ SaveFails(r)
  \/ \E o \in Observers : \E b \in Bindings : Observe(o, b) \/ ObserveFails(o, b)
  \/ \E o \in Observers : ObserveAgain(o)
  \/ Crash

Spec == Init /\ [][Next]_vars

-----------------------------------------------------------------------------
(* Properties *)

\* The statement of this request may still change the database.
MayTakeEffect(r) ==
  \/ statement[r] = "running"
  \/ statement[r] = "notSent" /\ task[r] \in {"claimed", "executing"}

\* observe_type_execution says terminal only of a statement that was claimed
\* with exactly this binding, and when no statement of this execution id can
\* take effect any more: the caller may now read the definitions back.
TerminalIsSettled ==
  \A o \in Observers :
    watch[o] = "terminal" =>
      /\ \E r \in Requests : binding[r] = watched[o]
      /\ \A r \in Requests : binding[r].id = watched[o].id => ~MayTakeEffect(r)

\* An execution id sends one statement to the database, ever: neither a
\* delivery repeated concurrently nor one repeated after a crash runs again.
NoReplay ==
  \A r, s \in Requests :
    /\ r # s
    /\ statement[r] # "notSent"
    /\ statement[s] # "notSent"
    => binding[r].id # binding[s].id

\* A client is told a definite result only after the receipt was saved: what
\* it reports can be confirmed after any crash.
DefiniteIsDurable ==
  \A r \in Requests :
    reply[r] = "definite" =>
      receipt[binding[r].id] = Terminal(binding[r]) /\ ~MayTakeEffect(r)

\* What observers and clients are told may be relied on.
AnswersAreReliable == TerminalIsSettled /\ DefiniteIsDurable

\* Once somebody was told that an execution is terminal, nobody who asks about
\* it, or asked before and still waits, is told by observe_type_execution that
\* it is not.
TerminalStays ==
  [][\A o, p \in Observers :
       /\ watch[o] = "terminal"
       /\ watch'[p] # watch[p] \/ watched'[p] # watched[p]
       /\ watched'[p] = watched[o]
       => watch'[p] # "notTerminal"]_vars

=============================================================================
