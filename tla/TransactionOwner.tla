-------------------------- MODULE TransactionOwner --------------------------
(***************************************************************************)
(* The owner of one interactive MySQL transaction session of the MCP       *)
(* server (crates/dbx-mcp/src/transaction.rs): a worker that alone touches *)
(* the connection, clients that take a lease and send it one command at a  *)
(* time, and a cancellation that may arrive between any two of its steps.  *)
(*                                                                         *)
(* The module asks whether what the owner reports - committed, rolled      *)
(* back, unknown - is what happened on the server, when requests are       *)
(* dropped, operations time out, replies are lost and the server ends      *)
(* transactions on its own.  The MySQL server is external: its part is     *)
(* what the owner relies on, statements executed at most once and a        *)
(* truthful in-transaction flag in every reply.                            *)
(***************************************************************************)
EXTENDS Naturals, Sequences

CONSTANTS
  Clients,    \* MCP requests that use this session
  MaxTxn      \* bound: transactions the server starts in one behaviour

Txns == 1..MaxTxn
NoClient == "none"
NoTxn == 0

ASSUME OwnerAssumption ==
  /\ MaxTxn \in Nat \ {0}
  /\ NoClient \notin Clients

Ops == {"begin", "query", "commit", "rollback"}

VARIABLES
  status,     \* TransactionStatus: state and outcome
  worker,     \* where run_owner is
  cancelled,  \* the owner's cancellation token
  closed,     \* the closed flag; the gate is closed with it
  gate,       \* client that holds the operation permit, or NoClient
  channel,    \* commands sent and not yet received (capacity 1)
  cmd,        \* the command handle_command works on
  client,     \* where each client is in its request
  reply,      \* the last result each client was given
  wire,       \* the statement on the connection
  link,       \* is the connection alive?
  tx,         \* is a transaction open on the server?
  txn,        \* number of the last transaction the server started
  fate,       \* what became of each transaction on the server
  known       \* the transaction that status speaks about

owner == <<status, worker, cancelled, closed, cmd>>
requests == <<gate, channel, client, reply>>
server == <<wire, link, tx, txn, fate>>
vars == <<status, worker, cancelled, closed, gate, channel, cmd, client, reply,
          wire, link, tx, txn, fate, known>>

-----------------------------------------------------------------------------
(* State *)

States == {"idle", "active", "unknown"}
Outcomes == {"none", "committed", "rolled_back", "unknown"}
Status == [state : States, outcome : Outcomes]

\* run_owner waits for a command, executes one, verifies the transaction state
\* after a server error, rolls back what is still active, disconnects, closes.
WorkerStates == {"receiving", "executing", "probing", "cleanup",
                 "disconnecting", "closing", "closed"}

\* A command remembers that its request was dropped (request_cancellation).
Command == [client : Clients, op : Ops, dropped : BOOLEAN]
NoCommand == [client |-> NoClient, op |-> "query", dropped |-> TRUE]

ClientStates == {"idle", "acquiring", "leased", "waiting", "answered", "refused"}

\* The status a client is told in its result (TransactionResult or
\* TransactionFailure), and the transaction that status speaks about.
Reply == [status : Status, txn : Txns \cup {NoTxn}]
NoReply == [status |-> [state |-> "idle", outcome |-> "none"], txn |-> NoTxn]

\* A statement: none, not yet written, written, executed (ok or server error).
Wire == [op : Ops, phase : {"none", "unsent", "sent", "done"}, ok : BOOLEAN]
NoWire == [op |-> "query", phase |-> "none", ok |-> FALSE]

Fates == {"none", "open", "committed", "rolled_back"}

Unknown == [state |-> "unknown", outcome |-> "unknown"]

Init ==
  /\ status = [state |-> "idle", outcome |-> "none"]
  /\ worker = "receiving"
  /\ cancelled = FALSE
  /\ closed = FALSE
  /\ gate = NoClient
  /\ channel = <<>>
  /\ cmd = NoCommand
  /\ client = [c \in Clients |-> "idle"]
  /\ reply = [c \in Clients |-> NoReply]
  /\ wire = NoWire
  /\ link = TRUE
  /\ tx = FALSE
  /\ txn = 0
  /\ fate = [n \in Txns |-> "none"]
  /\ known = NoTxn

-----------------------------------------------------------------------------
(* The clients: TransactionOwner::acquire and TransactionLease *)

\* A request starts to wait for the operation permit.
Request(c) ==
  /\ client[c] = "idle"
  /\ client' = [client EXCEPT ![c] = "acquiring"]
  /\ UNCHANGED <<owner, gate, channel, reply, server, known>>

Refuse(c) ==
  /\ client' = [client EXCEPT ![c] = "refused"]
  /\ reply' = [reply EXCEPT ![c] = [status |-> status, txn |-> known]]

\* Mutant: the permit is not waited for.
AcquireUngated(c) ==
  /\ client[c] = "acquiring"
  /\ ~closed /\ ~cancelled /\ status.state # "unknown"
  /\ gate' = c
  /\ client' = [client EXCEPT ![c] = "leased"]
  /\ UNCHANGED <<owner, channel, reply, server, known>>

\* acquire: the lease is granted when the permit is free and the session is
\* neither closed, nor being closed, nor in an unknown state.
Acquire(c) ==
  /\ client[c] = "acquiring" /\ gate = NoClient
  /\ ~closed /\ ~cancelled /\ status.state # "unknown"
  /\ gate' = c
  /\ client' = [client EXCEPT ![c] = "leased"]
  /\ UNCHANGED <<owner, channel, reply, server, known>>

\* acquire fails: TRANSACTION_CLOSED at once when the session is closed or
\* cancelled, TRANSACTION_OUTCOME_UNKNOWN once the permit was obtained.
AcquireFails(c) ==
  /\ client[c] = "acquiring"
  /\ closed \/ cancelled \/ (gate = NoClient /\ status.state = "unknown")
  /\ Refuse(c)
  /\ UNCHANGED <<owner, gate, channel, server, known>>

\* run_ref: the command enters the channel when there is room.
Send(c, op) ==
  /\ client[c] = "leased" /\ worker # "closed" /\ channel = <<>>
  /\ channel' = <<[client |-> c, op |-> op, dropped |-> FALSE]>>
  /\ client' = [client EXCEPT ![c] = "waiting"]
  /\ UNCHANGED <<owner, gate, reply, server, known>>

\* Mutant: only a client that has not sent its command yet is told.
ChannelClosedOnSend(c) ==
  /\ client[c] = "leased" /\ worker = "closed"
  /\ Refuse(c)
  /\ gate' = NoClient
  /\ channel' = <<>>
  /\ UNCHANGED <<owner, server, known>>

\* The receiver is gone: run_ref fails with TRANSACTION_CLOSED, whether the
\* command could no longer be sent or was never received.
ChannelClosed(c) ==
  /\ client[c] \in {"leased", "waiting"} /\ worker = "closed"
  /\ Refuse(c)
  /\ gate' = NoClient
  /\ channel' = <<>>
  /\ UNCHANGED <<owner, server, known>>

\* batch: the lease is kept for the next statement after a success, or after an
\* error that left the state known when the batch continues on errors.
NextOfBatch(c) ==
  /\ client[c] = "answered"
  /\ reply[c].status.state # "unknown"
  /\ client' = [client EXCEPT ![c] = "leased"]
  /\ reply' = [reply EXCEPT ![c] = NoReply]
  /\ UNCHANGED <<owner, gate, channel, server, known>>

\* The request is over and its lease, if it got one, is dropped.
Release(c) ==
  /\ client[c] \in {"answered", "refused"}
  /\ gate' = IF gate = c THEN NoClient ELSE gate
  /\ client' = [client EXCEPT ![c] = "idle"]
  /\ reply' = [reply EXCEPT ![c] = NoReply]
  /\ UNCHANGED <<owner, channel, server, known>>

DropIn(k, c) == IF k.client = c THEN [k EXCEPT !.dropped = TRUE] ELSE k

\* The request's future is dropped (the MCP call was cancelled, the HTTP client
\* went away): the permit is released at once, RequestDropGuard cancels the
\* command wherever it is.
DropRequest(c) ==
  /\ client[c] \in {"acquiring", "leased", "waiting"}
  /\ client' = [client EXCEPT ![c] = "idle"]
  /\ gate' = IF gate = c THEN NoClient ELSE gate
  /\ channel' = IF channel = <<>> THEN <<>> ELSE <<DropIn(Head(channel), c)>>
  /\ cmd' = DropIn(cmd, c)
  /\ UNCHANGED <<status, worker, cancelled, closed, reply, server, known>>

\* close, invalidate (connection removed, configuration changed) and the drop of
\* the last handle all cancel the owner.
Cancel ==
  /\ ~cancelled
  /\ cancelled' = TRUE
  /\ UNCHANGED <<status, worker, closed, cmd, requests, server, known>>

-----------------------------------------------------------------------------
(* The worker: run_owner and handle_command *)

\* Mutant: the client is told the outcome it asked for.
AnswerOptimistic ==
  IF cmd.dropped THEN UNCHANGED <<client, reply>>
  ELSE /\ client' = [client EXCEPT ![cmd.client] = "answered"]
       /\ reply' = [reply EXCEPT ![cmd.client] =
                      [status |-> IF cmd.op = "commit"
                                  THEN [state |-> "idle", outcome |-> "committed"]
                                  ELSE status',
                       txn |-> known']]

\* The answer to the current command, as status stands after this step; nobody
\* receives the answer to a dropped request.
Answer ==
  IF cmd.dropped THEN UNCHANGED <<client, reply>>
  ELSE /\ client' = [client EXCEPT ![cmd.client] = "answered"]
       /\ reply' = [reply EXCEPT ![cmd.client] =
                      [status |-> status', txn |-> known']]

\* BEGIN inside a transaction, COMMIT or ROLLBACK outside one.
Invalid(op) ==
  \/ op = "begin" /\ status.state = "active"
  \/ op \in {"commit", "rollback"} /\ status.state # "active"

\* An invalid command is answered from the status, nothing is sent.
RejectInvalid ==
  LET k == Head(channel)
  IN  /\ worker = "receiving" /\ channel # <<>>
      /\ Invalid(k.op)
      /\ channel' = <<>>
      /\ IF k.dropped THEN UNCHANGED <<client, reply>>
         ELSE /\ client' = [client EXCEPT ![k.client] = "answered"]
              /\ reply' = [reply EXCEPT ![k.client] =
                             [status |-> status, txn |-> known]]
      /\ UNCHANGED <<owner, gate, server, known>>

\* A valid command is received and its statement goes to the connection.
Receive ==
  LET k == Head(channel)
  IN  /\ worker = "receiving" /\ channel # <<>>
      /\ ~Invalid(k.op)
      /\ channel' = <<>>
      /\ cmd' = k
      /\ worker' = "executing"
      /\ wire' = [op |-> k.op, phase |-> "unsent", ok |-> FALSE]
      /\ UNCHANGED <<status, cancelled, closed, gate, client, reply, link, tx,
                     txn, fate, known>>

\* io.execute writes the statement.
SendStatement ==
  /\ worker \in {"executing", "cleanup"} /\ wire.phase = "unsent" /\ link
  /\ wire' = [wire EXCEPT !.phase = "sent"]
  /\ UNCHANGED <<owner, requests, link, tx, txn, fate, known>>

\* Mutant: an abandoned statement counts as rolled back by the disconnect.
EndRolledBack ==
  /\ status' = IF status.state = "active"
               THEN [state |-> "idle", outcome |-> "rolled_back"] ELSE Unknown
  /\ known' = known
  /\ Answer
  /\ cmd' = NoCommand
  /\ worker' = "disconnecting"

\* Mutant: the worker goes on with the next command.
EndUnknownContinues ==
  /\ status' = Unknown
  /\ known' = known
  /\ Answer
  /\ cmd' = NoCommand
  /\ worker' = "receiving"

\* set_unknown, and the command ends the worker's loop.
EndUnknown ==
  /\ status' = Unknown
  /\ known' = known
  /\ Answer
  /\ cmd' = NoCommand
  /\ worker' = "disconnecting"

\* The owner or the request is cancelled while the statement, or the probe that
\* follows a server error, is in flight.
Interrupted ==
  /\ worker \in {"executing", "probing"}
  /\ cancelled \/ cmd.dropped
  /\ EndUnknown
  /\ UNCHANGED <<cancelled, closed, gate, channel, server>>

\* The operation timeout; also the one of the probe.
TimedOut ==
  /\ worker \in {"executing", "probing"}
  /\ EndUnknown
  /\ UNCHANGED <<cancelled, closed, gate, channel, server>>

\* The transport fails: TransactionIoError::Transport, or a failed probe.
TransportFailed ==
  /\ worker \in {"executing", "probing"}
  /\ ~link
  /\ EndUnknown
  /\ UNCHANGED <<cancelled, closed, gate, channel, server>>

\* TransactionIoError::Policy: rejected before anything was sent.
PolicyRejected ==
  /\ worker = "executing" /\ wire.phase = "unsent" /\ wire.op = "query"
  /\ worker' = "receiving"
  /\ wire' = NoWire
  /\ status' = status /\ known' = known
  /\ Answer
  /\ cmd' = NoCommand
  /\ UNCHANGED <<cancelled, closed, gate, channel, link, tx, txn, fate>>

\* The transaction state a success must come with.
Expected(op) ==
  IF op \in {"commit", "rollback"} THEN FALSE
  ELSE IF op = "begin" THEN TRUE
  ELSE tx

\* Mutant: the operation is reported in place of its outcome.
OutcomeIsOperation(op) == op

SuccessOutcome(op) ==
  CASE op = "commit" -> "committed" [] op = "rollback" -> "rolled_back"
    [] OTHER -> "none"

\* The server acknowledged the statement and its flag is the expected one.
Succeeded ==
  /\ worker = "executing" /\ wire.phase = "done" /\ wire.ok /\ link
  /\ tx = Expected(wire.op)
  /\ status' = [state |-> IF tx THEN "active" ELSE "idle",
                outcome |-> SuccessOutcome(wire.op)]
  /\ known' = IF wire.op = "begin" THEN txn ELSE known
  /\ Answer
  /\ worker' = "receiving"
  /\ wire' = NoWire
  /\ cmd' = NoCommand
  /\ UNCHANGED <<cancelled, closed, gate, channel, link, tx, txn, fate>>

\* The server acknowledged the statement with another flag, or rejected a
\* COMMIT: nothing is known any more.
NotAsExpected ==
  /\ worker = "executing" /\ wire.phase = "done" /\ link
  /\ IF wire.ok THEN tx # Expected(wire.op) ELSE wire.op = "commit"
  /\ EndUnknown
  /\ UNCHANGED <<cancelled, closed, gate, channel, server>>

\* Any other server error: ask the connection for the transaction state.
StartProbe ==
  /\ worker = "executing" /\ wire.phase = "done" /\ ~wire.ok /\ link
  /\ wire.op # "commit"
  /\ worker' = "probing"
  /\ wire' = NoWire
  /\ UNCHANGED <<status, cancelled, closed, cmd, requests, link, tx, txn, fate,
                 known>>

\* Mutant: a statement that failed is taken to have ended its transaction.
ProbedIdle ==
  /\ worker = "probing" /\ link
  /\ status' = [state |-> "idle", outcome |-> "none"]
  /\ known' = known
  /\ Answer
  /\ worker' = "receiving"
  /\ cmd' = NoCommand
  /\ UNCHANGED <<cancelled, closed, gate, channel, server>>

\* The probe answers: a transaction that was active and is gone was rolled back.
Probed ==
  /\ worker = "probing" /\ link
  /\ status' = [state |-> IF tx THEN "active" ELSE "idle",
                outcome |-> IF status.state = "active" /\ ~tx THEN "rolled_back"
                            ELSE "none"]
  /\ known' = known
  /\ Answer
  /\ worker' = "receiving"
  /\ cmd' = NoCommand
  /\ UNCHANGED <<cancelled, closed, gate, channel, server>>

\* Mutant: the loop only ends when it is idle.
LeaveLoopWhenIdle ==
  /\ worker = "receiving" /\ ~cancelled
  /\ IF status.state = "active"
     THEN /\ worker' = "cleanup"
          /\ wire' = [op |-> "rollback", phase |-> "unsent", ok |-> FALSE]
     ELSE worker' = "disconnecting" /\ wire' = wire
  /\ UNCHANGED <<status, cancelled, closed, cmd, requests, link, tx, txn, fate,
                 known>>

\* The loop ends between two commands: the owner is cancelled, or idle for its
\* time to live.  An active transaction is rolled back first.
LeaveLoop ==
  /\ worker = "receiving"
  /\ IF status.state = "active"
     THEN /\ worker' = "cleanup"
          /\ wire' = [op |-> "rollback", phase |-> "unsent", ok |-> FALSE]
     ELSE worker' = "disconnecting" /\ wire' = wire
  /\ UNCHANGED <<status, cancelled, closed, cmd, requests, link, tx, txn, fate,
                 known>>

\* The cleanup ROLLBACK was acknowledged outside a transaction.
CleanupSucceeded ==
  /\ worker = "cleanup" /\ wire.phase = "done" /\ wire.ok /\ link /\ ~tx
  /\ status' = [state |-> "idle", outcome |-> "rolled_back"]
  /\ worker' = "disconnecting"
  /\ wire' = NoWire
  /\ UNCHANGED <<cancelled, closed, cmd, requests, link, tx, txn, fate, known>>

\* It failed, timed out, or left a transaction open.
CleanupFailed ==
  /\ worker = "cleanup"
  /\ status' = Unknown
  /\ worker' = "disconnecting"
  /\ UNCHANGED <<cancelled, closed, cmd, requests, server, known>>

\* disconnect, or its timeout: the connection is given up.
Disconnect ==
  /\ worker = "disconnecting"
  /\ worker' = "closing"
  /\ link' = FALSE
  /\ UNCHANGED <<status, cancelled, closed, cmd, requests, wire, tx, txn, fate,
                 known>>

\* The closed flag is set, the gate closed, waiters notified...
SetClosed ==
  /\ worker = "closing" /\ ~closed
  /\ closed' = TRUE
  /\ UNCHANGED <<status, worker, cancelled, cmd, requests, server, known>>

\* ...and the worker returns: its receiver and its resource permit are dropped.
WorkerReturns ==
  /\ worker = "closing" /\ closed
  /\ worker' = "closed"
  /\ UNCHANGED <<status, cancelled, closed, cmd, requests, server, known>>

-----------------------------------------------------------------------------
(* The MySQL server (external) *)

Ended(how) == [fate EXCEPT ![txn] = how]

\* A new transaction, for a START or for the chained one of a COMMIT.
Started(f) ==
  /\ txn < MaxTxn
  /\ txn' = txn + 1
  /\ tx' = TRUE
  /\ fate' = [f EXCEPT ![txn + 1] = "open"]

Done(ok) == wire' = [wire EXCEPT !.phase = "done", !.ok = ok]

\* The server executes what it was sent, even when the owner no longer waits.
\* A statement may end its whole transaction (deadlock), a COMMIT may fail in
\* any way, completion_type=CHAIN starts a new transaction, and a proxy may
\* acknowledge START without one.
ServerExecutes ==
  /\ wire.phase = "sent"
  /\ \/ /\ wire.op = "query" /\ UNCHANGED <<tx, txn, fate>>
        /\ Done(TRUE) \/ Done(FALSE)
     \/ /\ wire.op \in {"query", "rollback"} /\ tx
        /\ tx' = FALSE /\ fate' = Ended("rolled_back") /\ txn' = txn
        /\ Done(wire.op = "rollback") \/ Done(FALSE)
     \/ /\ wire.op = "begin" /\ Done(TRUE)
        /\ Started(IF tx THEN Ended("committed") ELSE fate)
     \/ /\ wire.op # "query" /\ UNCHANGED <<tx, txn, fate>> /\ Done(FALSE)
     \/ /\ wire.op = "begin" /\ ~tx /\ UNCHANGED <<tx, txn, fate>> /\ Done(TRUE)
     \/ /\ wire.op = "commit" /\ tx
        /\ \E how \in {"committed", "rolled_back"} :
             /\ tx' = FALSE /\ fate' = Ended(how) /\ txn' = txn
             /\ Done(how = "committed") \/ Done(FALSE)
     \/ /\ wire.op \in {"commit", "rollback"} /\ tx
        /\ Started(Ended(IF wire.op = "commit" THEN "committed" ELSE "rolled_back"))
        /\ Done(TRUE)
  /\ UNCHANGED <<owner, requests, link, known>>

\* The connection breaks: a reply on its way is lost.
LinkBreaks ==
  /\ link
  /\ link' = FALSE
  /\ UNCHANGED <<owner, requests, wire, tx, txn, fate, known>>

\* The server notices a broken connection: what it did not read is lost, what
\* is open is rolled back.
ServerEndsSession ==
  /\ ~link /\ (tx \/ wire.phase = "sent")
  /\ tx' = FALSE
  /\ fate' = IF tx THEN Ended("rolled_back") ELSE fate
  /\ wire' = IF wire.phase = "sent" THEN NoWire ELSE wire
  /\ UNCHANGED <<owner, requests, link, txn, known>>

-----------------------------------------------------------------------------

ClientStep(c) ==
  \/ Request(c)
  \/ Acquire(c)
  \/ AcquireFails(c)
  \/ \E op \in Ops : Send(c, op)
  \/ ChannelClosed(c)
  \/ NextOfBatch(c)
  \/ Release(c)
  \/ DropRequest(c)

WorkerStep ==
  \/ RejectInvalid
  \/ Receive
  \/ SendStatement
  \/ Interrupted
  \/ TimedOut
  \/ TransportFailed
  \/ PolicyRejected
  \/ Succeeded
  \/ NotAsExpected
  \/ StartProbe
  \/ Probed
  \/ LeaveLoop
  \/ CleanupSucceeded
  \/ CleanupFailed
  \/ Disconnect
  \/ SetClosed
  \/ WorkerReturns

Next ==
  \/ \E c \in Clients : ClientStep(c)
  \/ Cancel
  \/ WorkerStep
  \/ ServerExecutes
  \/ LinkBreaks
  \/ ServerEndsSession

Spec == Init /\ [][Next]_vars

\* The runtime keeps polling the worker: every wait of its loop, its commands
\* and its cleanup ends, with a timeout at the latest.  The choice between a
\* cancellation and a command that are both ready is random (tokio::select!
\* without biased), so a pending cancellation is not passed over for ever.  The
\* server ends the session of a connection that is gone.
Fairness ==
  /\ WF_vars(WorkerStep)
  /\ SF_vars(cancelled /\ LeaveLoop)
  /\ \A c \in Clients : WF_vars(ChannelClosed(c))
  /\ WF_vars(ServerEndsSession)

FairSpec == Spec /\ Fairness

-----------------------------------------------------------------------------
(* Properties *)

\* Type correctness.
TypeOK ==
  /\ status \in Status
  /\ worker \in WorkerStates
  /\ cancelled \in BOOLEAN
  /\ closed \in BOOLEAN
  /\ gate \in Clients \cup {NoClient}
  /\ channel \in {<<>>} \cup {<<k>> : k \in Command}
  /\ cmd \in Command \cup {NoCommand}
  /\ client \in [Clients -> ClientStates]
  /\ reply \in [Clients -> Reply]
  /\ wire \in Wire
  /\ link \in BOOLEAN
  /\ tx \in BOOLEAN
  /\ txn \in 0..MaxTxn
  /\ fate \in [Txns -> Fates]
  /\ known \in Txns \cup {NoTxn}

Truthful(s, n) ==
  /\ s.outcome = "committed" => n # NoTxn /\ fate[n] = "committed"
  /\ s.outcome = "rolled_back" => n # NoTxn /\ fate[n] = "rolled_back"

\* The outcome the owner publishes is what happened on the server to the
\* transaction it speaks about, whatever was dropped, timed out or lost on the
\* way; anything doubtful is unknown.
OutcomeIsHonest == Truthful(status, known)

\* So is every outcome a client is told, in a success or in a failure.
RepliesAreHonest == \A c \in Clients : Truthful(reply[c].status, reply[c].txn)

\* Whatever the owner publishes or answers about a transaction is true.
OutcomesAreHonest == OutcomeIsHonest /\ RepliesAreHonest

\* Between two commands an owner that says idle has no transaction open on a
\* live connection: nothing of the next client is committed or rolled back
\* together with somebody else's work, and no locks are left behind.
IdleHasNoTransaction ==
  worker = "receiving" /\ link =>
    /\ status.state = "idle" => ~tx
    /\ status.state = "active" => tx /\ fate[known] = "open" /\ known = txn

\* The gate serialises the clients even when requests are dropped: there is at
\* most one command, queued or in progress, whose client still waits for it.
OneLiveCommand ==
  /\ cmd # NoCommand /\ ~cmd.dropped =>
       gate = cmd.client /\ \A i \in 1..Len(channel) : channel[i].dropped
  /\ \A i \in 1..Len(channel) : ~channel[i].dropped => gate = channel[i].client

\* A statement is written only for a session whose state is known, that is not
\* closed; unknown is for ever, whatever the cleanup finds.
UnknownIsFinal ==
  [][status.state = "unknown" =>
       status' = status /\ (wire'.phase = "sent" => wire.phase = "sent")]_vars

\* A cancelled owner ends: closed, the connection given up, no transaction left
\* open on the server.
CancelledIsClosed == cancelled ~> (worker = "closed" /\ ~tx)

\* No client waits for ever for an answer.
RequestsAreAnswered ==
  \A c \in Clients : client[c] = "waiting" ~> client[c] # "waiting"

=============================================================================
