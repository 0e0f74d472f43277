----------------------- MODULE TransactionOwner_proofs -----------------------
(***************************************************************************)
(* Proofs about TransactionOwner, for any number of clients and of         *)
(* transactions.                                                           *)
(***************************************************************************)
EXTENDS TransactionOwner, TLAPS

\* The types of the parts that a step writes together.
LEMMA Types ==
  /\ Unknown \in Status
  /\ NoReply \in Reply
  /\ NoWire \in Wire
  /\ NoCommand.dropped = TRUE
  /\ \A op \in Ops : SuccessOutcome(op) \in Outcomes
  /\ \A k \in Command \cup {NoCommand}, c \in Clients : DropIn(k, c) \in Command \cup {NoCommand}
  /\ \A k \in Command, c \in Clients : DropIn(k, c) \in Command
  /\ \A c \in Clients : DropIn(NoCommand, c) = NoCommand
<1>1. Unknown \in Status
  BY DEF Unknown, Status, States, Outcomes
<1>2. NoReply \in Reply
  BY DEF NoReply, Reply, Status, States, Outcomes
<1>3. NoWire \in Wire
  BY DEF NoWire, Wire, Ops
<1>4. NoCommand.dropped = TRUE
  BY DEF NoCommand
<1>5. \A op \in Ops : SuccessOutcome(op) \in Outcomes
  BY DEF Ops, SuccessOutcome, Outcomes
<1>6. \A k \in Command, c \in Clients : DropIn(k, c) \in Command
  BY DEF DropIn, Command
<1>7. \A c \in Clients : DropIn(NoCommand, c) = NoCommand
  BY DEF DropIn, NoCommand
<1> QED
  BY <1>1, <1>2, <1>3, <1>4, <1>5, <1>6, <1>7

\* The command at the head of the channel.
LEMMA ChannelHead ==
  ASSUME TypeOK, channel # <<>>
  PROVE  Head(channel) \in Command /\ channel = <<Head(channel)>>
BY DEF TypeOK

\* An answer is a reply, for a client of this session.
LEMMA AnswerType ==
  ASSUME TypeOK, Answer, status' \in Status, known' \in Txns \cup {NoTxn}
  PROVE  client' \in [Clients -> ClientStates] /\ reply' \in [Clients -> Reply]
BY DEF TypeOK, Answer, Reply, ClientStates

\* So is the refusal of a request by terminal_failure.
LEMMA RefuseType ==
  ASSUME TypeOK, NEW c \in Clients, Refuse(c)
  PROVE  client' \in [Clients -> ClientStates] /\ reply' \in [Clients -> Reply]
BY DEF TypeOK, Refuse, Reply, ClientStates

\* The session starts well typed.
LEMMA InitType == Init => TypeOK
<1> SUFFICES ASSUME Init PROVE TypeOK
  OBVIOUS
<1>1. status \in Status
  BY DEF Init, Status, States, Outcomes
<1>2. reply \in [Clients -> Reply] /\ wire \in Wire
  BY Types DEF Init
<1>3. client \in [Clients -> ClientStates]
  BY DEF Init, ClientStates
<1>4. fate \in [Txns -> Fates]
  BY DEF Init, Fates
<1>5. txn \in 0..MaxTxn /\ known \in Txns \cup {NoTxn}
  BY OwnerAssumption DEF Init, Txns, NoTxn
<1>6. /\ channel \in {<<>>} \cup {<<k>> : k \in Command}
      /\ cmd \in Command \cup {NoCommand}
      /\ gate \in Clients \cup {NoClient}
      /\ worker \in WorkerStates
      /\ cancelled \in BOOLEAN /\ closed \in BOOLEAN
      /\ link \in BOOLEAN /\ tx \in BOOLEAN
  BY DEF Init, WorkerStates
<1> QED
  BY <1>1, <1>2, <1>3, <1>4, <1>5, <1>6 DEF TypeOK

\* Every step of the owner, its clients and the server keeps the types.
LEMMA TypeStep == TypeOK /\ [Next]_vars => TypeOK'
<1> SUFFICES ASSUME TypeOK, [Next]_vars PROVE TypeOK'
  OBVIOUS
<1> USE OwnerAssumption
<1>1. ASSUME NEW c \in Clients, ClientStep(c) PROVE TypeOK'
  <2>1. CASE Request(c) \/ Acquire(c)
    BY <2>1 DEF Request, Acquire, TypeOK, owner, server, ClientStates
  <2>2. CASE AcquireFails(c) \/ ChannelClosed(c)
    BY <2>2, RefuseType DEF AcquireFails, ChannelClosed, TypeOK, owner, server
  <2>3. ASSUME NEW op \in Ops, Send(c, op) PROVE TypeOK'
    <3>1. [client |-> c, op |-> op, dropped |-> FALSE] \in Command
      BY DEF Command
    <3> QED
      BY <2>3, <3>1 DEF Send, TypeOK, owner, server, ClientStates
  <2>4. CASE NextOfBatch(c) \/ Release(c)
    BY <2>4, Types DEF NextOfBatch, Release, TypeOK, owner, server, ClientStates
  <2>5. CASE DropRequest(c)
    <3>1. channel' \in {<<>>} \cup {<<k>> : k \in Command}
      BY <2>5, Types, ChannelHead DEF DropRequest
    <3> QED
      BY <2>5, <3>1, Types DEF DropRequest, TypeOK, server, ClientStates
  <2> QED
    BY <1>1, <2>1, <2>2, <2>3, <2>4, <2>5 DEF ClientStep
<1>2. CASE Cancel \/ SetClosed \/ WorkerReturns \/ Disconnect \/ LinkBreaks \/ UNCHANGED vars
  BY <1>2 DEF Cancel, SetClosed, WorkerReturns, Disconnect, LinkBreaks, vars,
       TypeOK, owner, requests, server, WorkerStates
<1>3. CASE RejectInvalid
  <2>1. Head(channel) \in Command
    BY <1>3, ChannelHead DEF RejectInvalid
  <2>2. client' \in [Clients -> ClientStates] /\ reply' \in [Clients -> Reply]
    BY <1>3, <2>1 DEF RejectInvalid, TypeOK, Reply, ClientStates
  <2> QED
    BY <1>3, <2>2 DEF RejectInvalid, TypeOK, owner, server
<1>4. CASE Receive
  <2>1. Head(channel) \in Command
    BY <1>4, ChannelHead DEF Receive
  <2>2. wire' \in Wire
    BY <1>4, <2>1 DEF Receive, Wire, Command
  <2> QED
    BY <1>4, <2>1, <2>2 DEF Receive, TypeOK, WorkerStates
<1>5. CASE SendStatement
  BY <1>5 DEF SendStatement, TypeOK, owner, requests, Wire
<1>6. CASE Interrupted \/ TimedOut \/ TransportFailed \/ NotAsExpected
  <2>1. EndUnknown /\ UNCHANGED <<cancelled, closed, gate, channel, server>>
    BY <1>6 DEF Interrupted, TimedOut, TransportFailed, NotAsExpected
  <2>2. status' \in Status /\ known' \in Txns \cup {NoTxn} /\ Answer
    BY <2>1, Types DEF EndUnknown, TypeOK
  <2>3. client' \in [Clients -> ClientStates] /\ reply' \in [Clients -> Reply]
    BY <2>2, AnswerType
  <2> QED
    BY <2>1, <2>2, <2>3 DEF EndUnknown, TypeOK, server, WorkerStates
<1>7. CASE PolicyRejected
  <2>1. client' \in [Clients -> ClientStates] /\ reply' \in [Clients -> Reply]
    BY <1>7, AnswerType DEF PolicyRejected, TypeOK
  <2> QED
    BY <1>7, <2>1, Types DEF PolicyRejected, TypeOK, WorkerStates
<1>8. CASE Succeeded
  <2>1. status' \in Status
    <3>1. SuccessOutcome(wire.op) \in Outcomes
      BY Types DEF TypeOK, Wire
    <3> QED
      BY <1>8, <3>1 DEF Succeeded, Status, States
  <2>2. known' \in Txns \cup {NoTxn}
    BY <1>8 DEF Succeeded, TypeOK, Txns, NoTxn
  <2>3. client' \in [Clients -> ClientStates] /\ reply' \in [Clients -> Reply]
    BY <1>8, <2>1, <2>2, AnswerType DEF Succeeded
  <2> QED
    BY <1>8, <2>1, <2>2, <2>3, Types DEF Succeeded, TypeOK, WorkerStates
<1>9. CASE StartProbe
  BY <1>9, Types DEF StartProbe, TypeOK, requests, WorkerStates
<1>10. CASE Probed
  <2>1. status' \in Status /\ known' \in Txns \cup {NoTxn}
    BY <1>10 DEF Probed, TypeOK, Status, States, Outcomes
  <2>2. client' \in [Clients -> ClientStates] /\ reply' \in [Clients -> Reply]
    BY <1>10, <2>1, AnswerType DEF Probed
  <2> QED
    BY <1>10, <2>1, <2>2 DEF Probed, TypeOK, server, WorkerStates
<1>11. CASE LeaveLoop
  <2>1. [op |-> "rollback", phase |-> "unsent", ok |-> FALSE] \in Wire
    BY DEF Wire, Ops
  <2>2. wire' \in Wire
    BY <1>11, <2>1 DEF LeaveLoop, TypeOK
  <2> QED
    BY <1>11, <2>2 DEF LeaveLoop, TypeOK, requests, WorkerStates
<1>12. CASE CleanupSucceeded \/ CleanupFailed
  BY <1>12, Types DEF CleanupSucceeded, CleanupFailed, TypeOK, requests, server,
       WorkerStates, Status, States, Outcomes
<1>13. CASE ServerExecutes
  <2>1. wire' \in Wire
    BY <1>13 DEF ServerExecutes, Done, TypeOK, Wire
  <2>2. \A how \in Fates : Ended(how) \in [Txns -> Fates]
    BY DEF Ended, TypeOK
  <2>3. ASSUME NEW f \in [Txns -> Fates], Started(f)
        PROVE  tx' \in BOOLEAN /\ txn' \in 0..MaxTxn /\ fate' \in [Txns -> Fates]
    <3>1. "open" \in Fates
      BY DEF Fates
    <3>2. fate' \in [Txns -> Fates]
      BY <2>3, <3>1 DEF Started
    <3>3. txn' \in 0..MaxTxn
      BY <2>3 DEF Started, TypeOK
    <3> QED
      BY <2>3, <3>2, <3>3 DEF Started
  <2>4. tx' \in BOOLEAN /\ txn' \in 0..MaxTxn /\ fate' \in [Txns -> Fates]
    <3>1. "committed" \in Fates /\ "rolled_back" \in Fates
      BY DEF Fates
    <3>2. (IF tx THEN Ended("committed") ELSE fate) \in [Txns -> Fates]
      BY <2>2, <3>1 DEF TypeOK
    <3>3. CASE UNCHANGED <<tx, txn, fate>>
      BY <3>3 DEF TypeOK
    <3>4. ASSUME NEW how \in {"committed", "rolled_back"},
                 tx' = FALSE, fate' = Ended(how), txn' = txn
          PROVE  tx' \in BOOLEAN /\ txn' \in 0..MaxTxn /\ fate' \in [Txns -> Fates]
      BY <2>2, <3>1, <3>4 DEF TypeOK
    <3>5. ASSUME NEW how \in {"committed", "rolled_back"}, Started(Ended(how))
          PROVE  tx' \in BOOLEAN /\ txn' \in 0..MaxTxn /\ fate' \in [Txns -> Fates]
      BY <2>2, <2>3, <3>1, <3>5
    <3> QED
      BY <1>13, <2>3, <3>2, <3>3, <3>4, <3>5 DEF ServerExecutes
  <2> QED
    BY <1>13, <2>1, <2>4 DEF ServerExecutes, TypeOK, owner, requests
<1>14. CASE ServerEndsSession
  BY <1>14, Types DEF ServerEndsSession, Ended, TypeOK, owner, requests, Fates
<1> QED
  BY <1>1, <1>2, <1>3, <1>4, <1>5, <1>6, <1>7, <1>8, <1>9, <1>10, <1>11, <1>12,
     <1>13, <1>14 DEF Next, WorkerStep

\* Type correctness, for any number of clients and transactions.
THEOREM TypeCorrect == Spec => []TypeOK
BY InitType, TypeStep, PTL DEF Spec

-----------------------------------------------------------------------------
(* The transactions on the server *)

\* At most the last transaction is open, and tx says whether it is.
FateInv ==
  /\ tx => txn # 0 /\ fate[txn] = "open"
  /\ \A n \in Txns : fate[n] = "open" => tx /\ n = txn
  /\ \A n \in Txns : n > txn => fate[n] = "none"

\* The fate of a transaction that ended is settled.
Settled == \A n \in Txns :
             fate[n] \in {"committed", "rolled_back"} => fate'[n] = fate[n]

\* The steps that do not touch the transactions of the server.
LEMMA FateUnchanged ==
  ASSUME TypeOK, [Next]_vars, ~ServerExecutes, ~ServerEndsSession
  PROVE  UNCHANGED <<tx, txn, fate>>
<1>1. ASSUME NEW c \in Clients, ClientStep(c) PROVE UNCHANGED <<tx, txn, fate>>
  BY <1>1 DEF ClientStep, Request, Acquire, AcquireFails, Send, ChannelClosed,
       NextOfBatch, Release, DropRequest, server
<1>2. CASE WorkerStep
  BY <1>2 DEF WorkerStep, RejectInvalid, Receive, SendStatement, Interrupted,
       TimedOut, TransportFailed, PolicyRejected, Succeeded, NotAsExpected,
       StartProbe, Probed, LeaveLoop, CleanupSucceeded, CleanupFailed,
       Disconnect, SetClosed, WorkerReturns, server
<1>3. CASE Cancel \/ LinkBreaks \/ UNCHANGED vars
  BY <1>3 DEF Cancel, LinkBreaks, vars, server
<1> QED
  BY <1>1, <1>2, <1>3 DEF Next

\* Ending the open transaction.
LEMMA EndedFate ==
  ASSUME TypeOK, FateInv, tx, NEW how \in {"committed", "rolled_back"}
  PROVE  /\ Ended(how) \in [Txns -> Fates]
         /\ txn \in Txns
         /\ Ended(how)[txn] = how
         /\ \A n \in Txns : n # txn => Ended(how)[n] = fate[n]
         /\ \A n \in Txns : Ended(how)[n] # "open"
BY OwnerAssumption DEF TypeOK, FateInv, Ended, Txns, Fates

\* Every step keeps the transactions of the server settled in order.
LEMMA FateStep ==
  ASSUME TypeOK, FateInv, [Next]_vars
  PROVE  FateInv' /\ Settled
<1> USE OwnerAssumption
<1>1. CASE UNCHANGED <<tx, txn, fate>>
  BY <1>1 DEF FateInv, Settled
<1>2. ASSUME tx, tx' = FALSE, txn' = txn, NEW how \in {"committed", "rolled_back"},
             fate' = Ended(how)
      PROVE  FateInv' /\ Settled
  BY <1>2, EndedFate DEF FateInv, Settled
<1>3. ASSUME NEW f \in [Txns -> Fates], Started(f), \A n \in Txns : f[n] # "open",
             \A n \in Txns : n # txn \/ fate[n] # "open" => f[n] = fate[n]
      PROVE  FateInv' /\ Settled
  <2>1. /\ txn + 1 \in Txns /\ txn' = txn + 1 /\ tx' = TRUE
        /\ fate'[txn + 1] = "open"
        /\ \A n \in Txns : n # txn + 1 => fate'[n] = f[n]
    BY <1>3 DEF Started, TypeOK, Txns
  <2>2. \A n \in Txns : n > txn => f[n] = "none"
    BY <1>3 DEF FateInv, TypeOK, Txns
  <2>3. FateInv'
    BY <1>3, <2>1, <2>2 DEF FateInv, TypeOK, Txns
  <2>4. Settled
    BY <1>3, <2>1, <2>2 DEF FateInv, Settled, TypeOK, Txns
  <2> QED
    BY <2>3, <2>4
<1>4. CASE ServerExecutes
  <2>1. ~tx => \A n \in Txns : fate[n] # "open"
    BY DEF FateInv
  <2>2. fate \in [Txns -> Fates]
    BY DEF TypeOK
  <2>3. ASSUME NEW how \in {"committed", "rolled_back"}, tx, Started(Ended(how))
        PROVE  FateInv' /\ Settled
    BY <1>3, <2>3, EndedFate DEF FateInv
  <2>4. ASSUME wire.op = "begin", Started(IF tx THEN Ended("committed") ELSE fate)
        PROVE  FateInv' /\ Settled
    <3>1. CASE tx
      BY <2>3, <2>4, <3>1
    <3>2. CASE ~tx
      BY <1>3, <2>1, <2>2, <2>4, <3>2
    <3> QED
      BY <3>1, <3>2
  <2> QED
    BY <1>1, <1>2, <1>4, <2>3, <2>4 DEF ServerExecutes
<1>5. CASE ServerEndsSession
  <2>1. CASE tx
    BY <1>2, <1>5, <2>1 DEF ServerEndsSession
  <2>2. CASE ~tx
    BY <1>1, <1>5, <2>2 DEF ServerEndsSession, TypeOK
  <2> QED
    BY <2>1, <2>2
<1> QED
  BY <1>1, <1>4, <1>5, FateUnchanged

-----------------------------------------------------------------------------
(* What the owner knows about the server *)

\* The transaction that status speaks about is the open one, or is gone.
Holds == tx /\ known = txn
Lost == ~tx /\ known # NoTxn /\ fate[known] = "rolled_back"

\* No statement has been executed since status was last right.
InTouch ==
  \/ worker = "receiving" /\ link
  \/ worker \in {"executing", "cleanup"} /\ wire.phase = "unsent" /\ link
  \/ worker \in {"executing", "cleanup"} /\ wire.phase = "sent"

SyncInv ==
  InTouch => /\ status.state = "idle" => ~tx
             /\ status.state = "active" => Holds

\* Which commands are executed in which state.
WorkerInv ==
  /\ worker \in {"receiving", "executing", "probing", "cleanup"} =>
       status.state # "unknown"
  /\ worker = "cleanup" => status.state = "active"
  /\ worker \in {"receiving", "probing"} => wire = NoWire
  /\ worker = "executing" /\ wire.phase # "none" =>
       IF status.state = "active" THEN wire.op # "begin"
       ELSE wire.op \in {"begin", "query"}
  /\ worker = "cleanup" /\ wire.phase # "none" => wire.op = "rollback"
  /\ status.state = "active" => known # NoTxn

\* What a reply that arrived says about the transaction.
DoneInv ==
  worker \in {"executing", "cleanup"} /\ wire.phase = "done" /\ link =>
    /\ status.state = "idle" => ~tx \/ (wire.op = "begin" /\ wire.ok)
    /\ status.state = "active" =>
         /\ wire.op = "query" /\ wire.ok => Holds
         /\ wire.op = "commit" /\ wire.ok /\ ~tx => fate[known] = "committed"
         /\ wire.op = "rollback" /\ wire.ok /\ ~tx => fate[known] = "rolled_back"
         /\ wire.op # "commit" /\ ~wire.ok => Holds \/ Lost

ProbeInv ==
  worker = "probing" /\ link =>
    /\ status.state = "idle" => ~tx
    /\ status.state = "active" => Holds \/ Lost

\* All of it, but what the clients were told.
OwnerInv == SyncInv /\ WorkerInv /\ DoneInv /\ ProbeInv /\ OutcomeIsHonest

SessionInv == TypeOK /\ FateInv /\ OwnerInv /\ RepliesAreHonest

\* SessionInv holds when the owner is spawned.
LEMMA InitSession == Init => SessionInv
<1> SUFFICES ASSUME Init PROVE SessionInv
  OBVIOUS
<1>1. TypeOK
  BY InitType
<1>2. FateInv
  BY DEF Init, FateInv
<1>3. OwnerInv
  BY DEF Init, OwnerInv, SyncInv, InTouch, WorkerInv, DoneInv, ProbeInv,
       OutcomeIsHonest, Truthful
<1>4. RepliesAreHonest
  BY DEF Init, RepliesAreHonest, Truthful, NoReply
<1> QED
  BY <1>1, <1>2, <1>3, <1>4 DEF SessionInv

\* What was true of a settled transaction stays true.
LEMMA StaysHonest ==
  ASSUME TypeOK, Settled, OutcomeIsHonest, UNCHANGED <<status, known>>
  PROVE  OutcomeIsHonest'
BY DEF TypeOK, Settled, OutcomeIsHonest, Truthful

\* The steps of the clients, and those of the worker between commands, change
\* nothing that OwnerInv speaks about.
LEMMA OwnerQuiet ==
  ASSUME OwnerInv, UNCHANGED <<status, worker, wire, link, tx, txn, fate, known>>
  PROVE  OwnerInv'
BY DEF OwnerInv, SyncInv, InTouch, WorkerInv, DoneInv, ProbeInv, Holds, Lost,
     OutcomeIsHonest, Truthful

\* The worker gives up: only what was published before it did matters.
LEMMA OwnerLeaves ==
  ASSUME OutcomeIsHonest',
         worker' \notin {"receiving", "executing", "probing", "cleanup"},
         status'.state = "active" => known' # NoTxn
  PROVE  OwnerInv'
BY DEF OwnerInv, SyncInv, InTouch, WorkerInv, DoneInv, ProbeInv

\* Unknown claims nothing.
LEMMA UnknownHonest ==
  ASSUME status' = Unknown
  PROVE  OutcomeIsHonest' /\ status'.state # "active"
BY DEF Unknown, OutcomeIsHonest, Truthful

\* The worker takes up a statement, or writes it.
LEMMA OwnerBegins ==
  ASSUME TypeOK, FateInv, OwnerInv, Receive \/ SendStatement \/ LeaveLoop
  PROVE  OwnerInv'
<1> USE DEF OwnerInv
<1>1. CASE Receive
  <2>1. Head(channel).op \in Ops
    BY <1>1, ChannelHead DEF Receive, Command
  <2>2. UNCHANGED <<status, link, tx, txn, fate, known>>
    BY <1>1 DEF Receive
  <2>3. SyncInv' /\ DoneInv' /\ ProbeInv'
    BY <1>1, <2>2 DEF Receive, SyncInv, InTouch, DoneInv, ProbeInv, Holds
  <2>4. WorkerInv'
    BY <1>1, <2>1, <2>2 DEF Receive, WorkerInv, Invalid, Ops
  <2>5. OutcomeIsHonest'
    BY <2>2 DEF OutcomeIsHonest, Truthful
  <2> QED
    BY <2>3, <2>4, <2>5
<1>2. CASE SendStatement
  <2>1. UNCHANGED <<status, worker, link, tx, txn, fate, known>>
    BY <1>2 DEF SendStatement, owner
  <2>2. wire'.op = wire.op /\ wire'.phase = "sent"
    BY <1>2 DEF SendStatement, TypeOK, Wire
  <2>3. SyncInv' /\ DoneInv' /\ ProbeInv'
    BY <1>2, <2>1, <2>2 DEF SendStatement, SyncInv, InTouch, DoneInv, ProbeInv, Holds
  <2>4. WorkerInv'
    BY <1>2, <2>1, <2>2 DEF SendStatement, WorkerInv
  <2>5. OutcomeIsHonest'
    BY <2>1 DEF OutcomeIsHonest, Truthful
  <2> QED
    BY <2>3, <2>4, <2>5
<1>3. CASE LeaveLoop
  <2>1. UNCHANGED <<status, link, tx, txn, fate, known>>
    BY <1>3 DEF LeaveLoop
  <2>2. OutcomeIsHonest'
    BY <2>1 DEF OutcomeIsHonest, Truthful
  <2>3. CASE status.state = "active"
    <3>1. SyncInv' /\ DoneInv' /\ ProbeInv'
      BY <1>3, <2>1, <2>3 DEF LeaveLoop, SyncInv, InTouch, DoneInv, ProbeInv, Holds
    <3>2. WorkerInv'
      BY <1>3, <2>1, <2>3 DEF LeaveLoop, WorkerInv
    <3> QED
      BY <2>2, <3>1, <3>2
  <2>4. CASE status.state # "active"
    BY <1>3, <2>1, <2>2, <2>4, OwnerLeaves DEF LeaveLoop
  <2> QED
    BY <2>3, <2>4
<1> QED
  BY <1>1, <1>2, <1>3

\* The worker evaluates a reply and goes on.
LEMMA OwnerEvaluates ==
  ASSUME TypeOK, FateInv, OwnerInv,
         PolicyRejected \/ Succeeded \/ StartProbe \/ Probed \/ CleanupSucceeded
  PROVE  OwnerInv'
<1> USE DEF OwnerInv
<1>1. CASE PolicyRejected
  BY <1>1 DEF PolicyRejected, SyncInv, InTouch, WorkerInv, DoneInv, ProbeInv,
       Holds, OutcomeIsHonest, Truthful
<1>2. CASE Succeeded
  <2>1. UNCHANGED <<link, tx, txn, fate>> /\ link /\ worker' = "receiving" /\ wire' = NoWire
    BY <1>2 DEF Succeeded
  <2>2. wire.op \in Ops /\ (tx => txn # NoTxn)
    BY DEF TypeOK, Wire, FateInv, NoTxn
  <2>3. status'.state = IF tx THEN "active" ELSE "idle"
    BY <1>2 DEF Succeeded
  <2>4. tx => Holds'
    BY <1>2, <2>1, <2>2 DEF Succeeded, Expected, Ops, WorkerInv, DoneInv, Holds, States,
         TypeOK, Status
  <2>5. SyncInv' /\ DoneInv' /\ ProbeInv' /\ WorkerInv'
    BY <2>1, <2>2, <2>3, <2>4 DEF SyncInv, DoneInv, ProbeInv, WorkerInv, Holds
  <2>6. OutcomeIsHonest'
    <3>1. CASE wire.op \in {"commit", "rollback"}
      <4>1. status.state = "active" /\ known' = known /\ known # NoTxn /\ ~tx
        BY <1>2, <3>1 DEF Succeeded, WorkerInv, Expected
      <4>2. status'.outcome = IF wire.op = "commit" THEN "committed" ELSE "rolled_back"
        BY <1>2, <3>1 DEF Succeeded, SuccessOutcome
      <4> QED
        BY <1>2, <2>1, <3>1, <4>1, <4>2 DEF Succeeded, DoneInv, OutcomeIsHonest, Truthful
    <3>2. CASE wire.op \notin {"commit", "rollback"}
      BY <1>2, <3>2 DEF Succeeded, SuccessOutcome, OutcomeIsHonest, Truthful
    <3> QED
      BY <3>1, <3>2
  <2> QED
    BY <2>5, <2>6
<1>3. CASE StartProbe
  BY <1>3 DEF StartProbe, SyncInv, InTouch, WorkerInv, DoneInv, ProbeInv, Holds,
       Lost, OutcomeIsHonest, Truthful
<1>4. CASE Probed
  <2>1. UNCHANGED <<wire, link, tx, txn, fate, known>> /\ link /\ worker' = "receiving"
    BY <1>4 DEF Probed, server
  <2>2. status.state \in {"idle", "active"}
    BY <1>4 DEF Probed, WorkerInv, TypeOK, Status, States
  <2>3. /\ status'.state = IF tx THEN "active" ELSE "idle"
        /\ status'.outcome = IF status.state = "active" /\ ~tx THEN "rolled_back" ELSE "none"
    BY <1>4 DEF Probed
  <2>4. SyncInv' /\ DoneInv' /\ ProbeInv' /\ WorkerInv'
    BY <1>4, <2>1, <2>2, <2>3 DEF Probed, SyncInv, DoneInv, ProbeInv, WorkerInv,
         Holds, Lost, FateInv, NoTxn
  <2>5. OutcomeIsHonest'
    BY <1>4, <2>1, <2>2, <2>3 DEF Probed, ProbeInv, Holds, Lost, OutcomeIsHonest, Truthful
  <2> QED
    BY <2>4, <2>5
<1>5. CASE CleanupSucceeded
  <2>1. fate[known] = "rolled_back" /\ known # NoTxn
    BY <1>5 DEF CleanupSucceeded, WorkerInv, DoneInv
  <2>2. OutcomeIsHonest' /\ status'.state = "idle"
    BY <1>5, <2>1 DEF CleanupSucceeded, OutcomeIsHonest, Truthful
  <2> QED
    BY <1>5, <2>2, OwnerLeaves DEF CleanupSucceeded
<1> QED
  BY <1>1, <1>2, <1>3, <1>4, <1>5

\* The server executes a statement, or ends the session.
LEMMA OwnerAndServer ==
  ASSUME TypeOK, FateInv, OwnerInv, Settled,
         ServerExecutes \/ LinkBreaks \/ ServerEndsSession
  PROVE  OwnerInv'
<1> USE DEF OwnerInv
<1>1. OutcomeIsHonest'
  BY StaysHonest DEF ServerExecutes, LinkBreaks, ServerEndsSession, owner
<1>2. UNCHANGED <<status, worker, known>>
  BY DEF ServerExecutes, LinkBreaks, ServerEndsSession, owner
<1>3. CASE ServerExecutes
  <2>1. wire'.op = wire.op /\ wire'.phase = "done" /\ link' = link
    BY <1>3 DEF ServerExecutes, Done, TypeOK, Wire
  <2>2. worker \notin {"receiving", "probing"}
    BY <1>3 DEF ServerExecutes, WorkerInv, NoWire
  <2>3. SyncInv' /\ ProbeInv' /\ WorkerInv'
    BY <1>2, <1>3, <2>1, <2>2 DEF ServerExecutes, SyncInv, InTouch, ProbeInv, WorkerInv
  <2>4. ASSUME worker \in {"executing", "cleanup"}, status.state = "idle"
        PROVE  ~tx' \/ (wire'.op = "begin" /\ wire'.ok)
    <3>1. ~tx /\ wire.op \in {"begin", "query"}
      BY <1>3, <2>4 DEF ServerExecutes, SyncInv, InTouch, WorkerInv
    <3> QED
      BY <1>3, <2>1, <3>1 DEF ServerExecutes, Done, TypeOK, Wire
  <2>5. ASSUME worker \in {"executing", "cleanup"}, status.state = "active"
        PROVE  /\ wire'.op = "query" /\ wire'.ok => Holds'
               /\ wire'.op = "commit" /\ wire'.ok /\ ~tx' => fate'[known'] = "committed"
               /\ wire'.op = "rollback" /\ wire'.ok /\ ~tx' => fate'[known'] = "rolled_back"
               /\ wire'.op # "commit" /\ ~wire'.ok => Holds' \/ Lost'
    <3>1. Holds /\ wire.op # "begin" /\ known # NoTxn
      BY <1>3, <2>5 DEF ServerExecutes, SyncInv, InTouch, WorkerInv
    <3>2. \A how \in {"committed", "rolled_back"} : Ended(how)[known] = how
      BY <3>1, EndedFate DEF Holds
    <3>3. CASE UNCHANGED <<tx, txn, fate>> /\ (wire'.ok => wire.op = "query")
      BY <1>2, <2>1, <3>1, <3>3 DEF Holds
    <3>4. CASE wire.op \in {"query", "rollback"} /\ ~tx' /\ fate' = Ended("rolled_back")
               /\ (wire'.ok => wire.op = "rollback")
      BY <1>2, <2>1, <3>1, <3>2, <3>4 DEF Lost
    <3>5. CASE wire.op = "commit" /\ (wire'.ok /\ ~tx' => fate' = Ended("committed"))
      BY <1>2, <2>1, <3>1, <3>2, <3>5
    <3>6. CASE tx' /\ wire'.ok /\ wire.op \in {"commit", "rollback"}
      BY <2>1, <3>6
    <3> QED
      BY <1>3, <2>1, <3>1, <3>3, <3>4, <3>5, <3>6
         DEF ServerExecutes, Done, Started, Holds, TypeOK, Wire
  <2>6. DoneInv'
    BY <1>2, <2>1, <2>4, <2>5 DEF DoneInv
  <2> QED
    BY <1>1, <2>3, <2>6
<1>4. CASE LinkBreaks
  BY <1>1, <1>2, <1>4 DEF LinkBreaks, SyncInv, InTouch, WorkerInv, DoneInv,
       ProbeInv, Holds
<1>5. CASE ServerEndsSession
  <2>1. ~link /\ ~link' /\ wire'.phase # "sent" /\ (wire' = wire \/ wire' = NoWire)
    BY <1>5 DEF ServerEndsSession, NoWire
  <2>2. SyncInv' /\ DoneInv' /\ ProbeInv'
    BY <2>1 DEF SyncInv, InTouch, DoneInv, ProbeInv
  <2>3. WorkerInv'
    BY <1>2, <2>1 DEF WorkerInv, NoWire
  <2> QED
    BY <1>1, <2>2, <2>3
<1> QED
  BY <1>3, <1>4, <1>5

\* Every step of the session keeps what the worker relies on.
LEMMA OwnerStep ==
  ASSUME TypeOK, FateInv, OwnerInv, Settled, [Next]_vars
  PROVE  OwnerInv'
<1>1. ASSUME NEW c \in Clients, ClientStep(c) PROVE OwnerInv'
  BY <1>1, OwnerQuiet DEF ClientStep, Request, Acquire, AcquireFails, Send,
       ChannelClosed, NextOfBatch, Release, DropRequest, owner, server
<1>2. CASE Cancel \/ RejectInvalid \/ SetClosed \/ UNCHANGED vars
  BY <1>2, OwnerQuiet DEF Cancel, RejectInvalid, SetClosed, vars, owner, server
<1>3. CASE Interrupted \/ TimedOut \/ TransportFailed \/ NotAsExpected \/ CleanupFailed
  BY <1>3, OwnerLeaves, UnknownHonest DEF Interrupted, TimedOut, TransportFailed,
       NotAsExpected, CleanupFailed, EndUnknown
<1>4. CASE Disconnect \/ WorkerReturns
  <2>1. UNCHANGED <<status, known>> /\ worker' \in {"closing", "closed"}
    BY <1>4 DEF Disconnect, WorkerReturns
  <2>2. status.state = "active" => known # NoTxn
    BY DEF OwnerInv, WorkerInv
  <2> QED
    BY <2>1, <2>2, StaysHonest, OwnerLeaves DEF OwnerInv
<1> QED
  BY <1>1, <1>2, <1>3, <1>4, OwnerBegins, OwnerEvaluates, OwnerAndServer
     DEF Next, WorkerStep

\* A step tells a client nothing, or the status as it is after the step.
LEMMA RepliesStep ==
  ASSUME TypeOK, [Next]_vars, NEW d \in Clients
  PROVE  reply'[d] \in {reply[d], NoReply, [status |-> status', txn |-> known']}
<1>1. ASSUME NEW c \in Clients, ClientStep(c)
      PROVE  reply'[d] \in {reply[d], NoReply, [status |-> status', txn |-> known']}
  BY <1>1 DEF ClientStep, Request, Acquire, AcquireFails, Send, ChannelClosed,
       NextOfBatch, Release, DropRequest, Refuse, owner, TypeOK
<1>2. ASSUME Answer
      PROVE  reply'[d] \in {reply[d], NoReply, [status |-> status', txn |-> known']}
  BY <1>2 DEF Answer, TypeOK
<1>3. CASE RejectInvalid
  BY <1>3 DEF RejectInvalid, owner, TypeOK
<1>4. CASE UNCHANGED reply
  BY <1>4
<1>5. CASE WorkerStep
  BY <1>2, <1>3, <1>4, <1>5 DEF WorkerStep, Receive, SendStatement, Interrupted,
       TimedOut, TransportFailed, NotAsExpected, EndUnknown, PolicyRejected,
       Succeeded, StartProbe, Probed, LeaveLoop, CleanupSucceeded, CleanupFailed,
       Disconnect, SetClosed, WorkerReturns, requests
<1>6. CASE Cancel \/ ServerExecutes \/ LinkBreaks \/ ServerEndsSession \/ UNCHANGED vars
  BY <1>4, <1>6 DEF Cancel, ServerExecutes, LinkBreaks, ServerEndsSession, vars, requests
<1> QED
  BY <1>1, <1>5, <1>6 DEF Next

\* SessionInv is inductive.
LEMMA SessionStep == SessionInv /\ [Next]_vars => SessionInv'
<1> SUFFICES ASSUME SessionInv, [Next]_vars PROVE SessionInv'
  OBVIOUS
<1>1. TypeOK'
  BY TypeStep DEF SessionInv
<1>2. FateInv' /\ Settled
  BY FateStep DEF SessionInv
<1>3. OwnerInv'
  BY <1>2, OwnerStep DEF SessionInv
<1>4. RepliesAreHonest'
  <2> SUFFICES ASSUME NEW d \in Clients
               PROVE  Truthful(reply[d].status, reply[d].txn)'
    BY DEF RepliesAreHonest
  <2>1. Truthful(reply[d].status, reply[d].txn)
    BY DEF SessionInv, RepliesAreHonest
  <2>2. CASE reply'[d] = reply[d]
    <3>1. reply[d].txn \in Txns \cup {NoTxn}
      BY DEF SessionInv, TypeOK, Reply
    <3> QED
      BY <1>2, <2>1, <2>2, <3>1 DEF Truthful, Settled
  <2>3. CASE reply'[d] = NoReply
    BY <2>3 DEF NoReply, Truthful
  <2>4. CASE reply'[d] = [status |-> status', txn |-> known']
    BY <1>3, <2>4 DEF OwnerInv, OutcomeIsHonest, Truthful
  <2> QED
    BY <2>2, <2>3, <2>4, RepliesStep DEF SessionInv
<1> QED
  BY <1>1, <1>2, <1>3, <1>4 DEF SessionInv

\* SessionInv holds in every behaviour.
LEMMA SpecSession == Spec => []SessionInv
BY InitSession, SessionStep, PTL DEF Spec

\* What the owner publishes as committed or rolled back is what became of the
\* transaction on the server, whatever is dropped, times out or breaks.
THEOREM HonestOutcome == Spec => []OutcomeIsHonest
BY SpecSession, PTL DEF SessionInv, OwnerInv

\* So is what handle_command, acquire and run_ref tell every client.
THEOREM HonestReplies == Spec => []RepliesAreHonest
BY SpecSession, PTL DEF SessionInv

\* Both together: nothing the owner says about a transaction is untrue.
THEOREM HonestOutcomes == Spec => []OutcomesAreHonest
BY HonestOutcome, HonestReplies, PTL DEF OutcomesAreHonest

\* Between two commands the published state is the state of a live session.
THEOREM IdleIsIdle == Spec => []IdleHasNoTransaction
<1>1. SessionInv => IdleHasNoTransaction
  BY DEF SessionInv, OwnerInv, SyncInv, InTouch, Holds, FateInv, IdleHasNoTransaction
<1> QED
  BY <1>1, SpecSession, PTL

\* set_unknown is final, and nothing is written afterwards.
THEOREM UnknownFinal == Spec => UnknownIsFinal
<1>1. SessionInv /\ [Next]_vars =>
        [status.state = "unknown" =>
           status' = status /\ (wire'.phase = "sent" => wire.phase = "sent")]_vars
  <2> SUFFICES ASSUME SessionInv, Next, status.state = "unknown"
               PROVE  status' = status /\ (wire'.phase = "sent" => wire.phase = "sent")
    OBVIOUS
  <2>1. worker \notin {"receiving", "executing", "probing", "cleanup"}
    BY DEF SessionInv, OwnerInv, WorkerInv
  <2>2. ASSUME NEW c \in Clients, ClientStep(c) PROVE UNCHANGED <<status, wire>>
    BY <2>2 DEF ClientStep, Request, Acquire, AcquireFails, Send, ChannelClosed,
         NextOfBatch, Release, DropRequest, owner, server
  <2>3. CASE WorkerStep
    BY <2>1, <2>3 DEF WorkerStep, RejectInvalid, Receive, SendStatement,
         Interrupted, TimedOut, TransportFailed, PolicyRejected, Succeeded,
         NotAsExpected, StartProbe, Probed, LeaveLoop, CleanupSucceeded,
         CleanupFailed, Disconnect, SetClosed, WorkerReturns, server
  <2>4. CASE Cancel \/ ServerExecutes \/ LinkBreaks \/ ServerEndsSession
    BY <2>4 DEF Cancel, ServerExecutes, Done, LinkBreaks, ServerEndsSession, NoWire,
         owner, server
  <2> QED
    BY <2>2, <2>3, <2>4 DEF Next
<1> QED
  BY <1>1, SpecSession, PTL DEF Spec, UnknownIsFinal

-----------------------------------------------------------------------------
(* The gate *)

\* Whoever has a lease holds the permit; a command that was not dropped belongs
\* to a client that waits for it, and that client has only the one.
GateInv ==
  /\ \A c \in Clients : client[c] \in {"leased", "waiting", "answered"} => gate = c
  /\ cmd # NoCommand => worker \in {"executing", "probing"}
  /\ cmd # NoCommand /\ ~cmd.dropped =>
       client[cmd.client] = "waiting" /\ (channel # <<>> => Head(channel).dropped)
  /\ channel # <<>> /\ ~Head(channel).dropped => client[Head(channel).client] = "waiting"

\* GateInv holds when the owner is spawned.
LEMMA InitGate == Init => GateInv
BY DEF Init, GateInv

\* Answering the current command, or the one at the head of the channel.
LEMMA GateAnswer ==
  ASSUME TypeOK, GateInv, Answer, cmd' = NoCommand, UNCHANGED <<gate, channel>>
  PROVE  GateInv'
<1>1. CASE cmd.dropped
  BY <1>1 DEF Answer, GateInv
<1>2. CASE ~cmd.dropped
  <2>1. cmd \in Command /\ cmd # NoCommand
    BY <1>2, Types DEF TypeOK
  <2>2. channel # <<>> => Head(channel).dropped
    BY <1>2, <2>1 DEF GateInv
  <2>3. \A c \in Clients : client'[c] = IF c = cmd.client THEN "answered" ELSE client[c]
    BY <1>2, <2>1 DEF Answer, TypeOK
  <2>4. cmd.client \in Clients /\ client[cmd.client] = "waiting"
    BY <1>2, <2>1 DEF GateInv, Command
  <2> QED
    BY <2>2, <2>3, <2>4 DEF GateInv
<1> QED
  BY <1>1, <1>2

\* GateInv is preserved by every step.
LEMMA GateStep ==
  ASSUME TypeOK, GateInv, [Next]_vars
  PROVE  GateInv'
<1> USE OwnerAssumption
<1>1. ASSUME NEW c \in Clients, ClientStep(c) PROVE GateInv'
  <2>1. CASE Request(c) \/ Acquire(c) \/ NextOfBatch(c)
    BY <2>1 DEF Request, Acquire, NextOfBatch, GateInv, TypeOK, owner, Command
  <2>2. CASE AcquireFails(c)
    BY <2>2 DEF AcquireFails, Refuse, GateInv, TypeOK, owner, Command
  <2>3. ASSUME NEW op \in Ops, Send(c, op) PROVE GateInv'
    <3>1. /\ channel' # <<>>
          /\ Head(channel') = [client |-> c, op |-> op, dropped |-> FALSE]
      BY <2>3 DEF Send
    <3>2. ~(cmd # NoCommand /\ ~cmd.dropped)
      BY <2>3 DEF Send, GateInv, TypeOK, Command
    <3> QED
      BY <2>3, <3>1, <3>2 DEF Send, GateInv, TypeOK, owner
  <2>4. CASE ChannelClosed(c)
    BY <2>4 DEF ChannelClosed, Refuse, GateInv, TypeOK, owner
  <2>5. CASE Release(c)
    BY <2>5 DEF Release, GateInv, TypeOK, owner, Command
  <2>6. CASE DropRequest(c)
    <3>1. cmd' = NoCommand \/ (cmd \in Command /\ cmd' = DropIn(cmd, c))
      BY <2>6, Types DEF DropRequest, TypeOK
    <3>2. channel' # <<>> =>
            channel # <<>> /\ Head(channel) \in Command /\ Head(channel') = DropIn(Head(channel), c)
      BY <2>6, ChannelHead DEF DropRequest
    <3>3. \A k \in Command : /\ DropIn(k, c).client = k.client
                             /\ k.client = c => DropIn(k, c).dropped
                             /\ k.dropped => DropIn(k, c).dropped
                             /\ k.client # c => DropIn(k, c) = k
      BY DEF DropIn, Command
    <3>4. \A d \in Clients : client'[d] = IF d = c THEN "idle" ELSE client[d]
      BY <2>6 DEF DropRequest, TypeOK
    <3>5. UNCHANGED worker /\ gate' = IF gate = c THEN NoClient ELSE gate
      BY <2>6 DEF DropRequest
    <3>6. \A d \in Clients : client'[d] \in {"leased", "waiting", "answered"} => gate' = d
      BY <3>4, <3>5 DEF GateInv
    <3>7. cmd' # NoCommand =>
            /\ cmd # NoCommand
            /\ ~cmd'.dropped => cmd' = cmd /\ cmd.client # c /\ cmd.client \in Clients
      BY <3>1, <3>3 DEF DropIn, NoCommand, Command
    <3>8. channel' # <<>> /\ ~Head(channel').dropped =>
            /\ Head(channel') = Head(channel) /\ ~Head(channel).dropped
            /\ Head(channel).client # c /\ Head(channel).client \in Clients
      BY <3>2, <3>3 DEF Command
    <3>9. channel' # <<>> /\ Head(channel).dropped => Head(channel').dropped
      BY <3>2, <3>3
    <3> QED
      BY <3>2, <3>4, <3>5, <3>6, <3>7, <3>8, <3>9 DEF GateInv
  <2> QED
    BY <1>1, <2>1, <2>2, <2>3, <2>4, <2>5, <2>6 DEF ClientStep
<1>2. CASE RejectInvalid
  <2>1. Head(channel) \in Command /\ cmd = NoCommand
    BY <1>2, ChannelHead DEF RejectInvalid, GateInv
  <2>2. UNCHANGED <<cmd, gate, worker>> /\ channel' = <<>>
    BY <1>2 DEF RejectInvalid, owner
  <2>3. \A d \in Clients : client'[d] = client[d] \/ (~Head(channel).dropped /\ d = Head(channel).client)
    BY <1>2 DEF RejectInvalid, TypeOK
  <2> QED
    BY <1>2, <2>1, <2>2, <2>3 DEF RejectInvalid, GateInv
<1>3. CASE Receive
  BY <1>3, ChannelHead DEF Receive, GateInv
<1>4. CASE Interrupted \/ TimedOut \/ TransportFailed \/ NotAsExpected
           \/ PolicyRejected \/ Succeeded \/ Probed
  BY <1>4, GateAnswer DEF Interrupted, TimedOut, TransportFailed, NotAsExpected,
       EndUnknown, PolicyRejected, Succeeded, Probed
<1>5. CASE StartProbe \/ LeaveLoop \/ CleanupSucceeded \/ CleanupFailed \/ Disconnect
           \/ WorkerReturns
  BY <1>5 DEF StartProbe, LeaveLoop, CleanupSucceeded, CleanupFailed, Disconnect,
       WorkerReturns, GateInv, requests
<1>6. CASE SendStatement \/ SetClosed \/ Cancel \/ ServerExecutes \/ LinkBreaks
           \/ ServerEndsSession \/ UNCHANGED vars
  BY <1>6 DEF SendStatement, SetClosed, Cancel, ServerExecutes, LinkBreaks,
       ServerEndsSession, vars, GateInv, owner, requests
<1> QED
  BY <1>1, <1>2, <1>3, <1>4, <1>5, <1>6 DEF Next, WorkerStep

\* At most one command at a time is waited for, and its client has the permit.
THEOREM OneCommand == Spec => []OneLiveCommand
<1>1. TypeOK /\ GateInv => OneLiveCommand
  <2> SUFFICES ASSUME TypeOK, GateInv PROVE OneLiveCommand
    OBVIOUS
  <2>1. \A i \in 1..Len(channel) : channel # <<>> /\ channel[i] = Head(channel)
    BY DEF TypeOK
  <2>2. channel # <<>> => Head(channel).client \in Clients
    BY ChannelHead DEF Command
  <2>3. cmd # NoCommand => cmd.client \in Clients
    BY DEF TypeOK, Command
  <2> QED
    BY <2>1, <2>2, <2>3 DEF GateInv, OneLiveCommand
<1>2. TypeOK /\ GateInv /\ [Next]_vars => GateInv'
  BY GateStep
<1> QED
  BY <1>1, <1>2, InitGate, TypeCorrect, PTL DEF Spec

=============================================================================
