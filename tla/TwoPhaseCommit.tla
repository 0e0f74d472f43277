--------------------------- MODULE TwoPhaseCommit ---------------------------
(***************************************************************************)
(* The two-phase commit coordinator (crates/dbx-core/src/query/            *)
(* two_phase_commit.rs): execute and recover for one transaction id, with  *)
(* a durable log that holds nothing but the status.  The coordinator may   *)
(* stop between any two steps (a crash, or a log write that failed and was *)
(* propagated with ?), losing everything but the log; participants may     *)
(* fail a call without having done anything, or, with LostReplies, after   *)
(* having done it.                                                         *)
(*                                                                         *)
(* The progress entry kept in the StateMachine is left out: no decision    *)
(* reads it.  Callers give every transaction an id of its own: execute     *)
(* does not look for an earlier log, and would overwrite it.               *)
(***************************************************************************)
EXTENDS Naturals

CONSTANTS
  N,            \* number of participants, called in the order 1..N
  MaxRetries,   \* rounds of commit_phase after the first (2 in the code)
  LostReplies,  \* may a call that was carried out report an error?
  MaxCrashes,   \* bound: times the coordinator stops
  MaxFaults     \* bound: calls that fail

ASSUME CommitAssumption ==
  /\ N \in Nat
  /\ MaxRetries \in Nat
  /\ LostReplies \in BOOLEAN
  /\ MaxCrashes \in Nat
  /\ MaxFaults \in Nat

Participants == 1..N

VARIABLES
  log,       \* durable: TransactionLog.status, or "none"
  phase,     \* what the coordinator is doing
  mode,      \* in execute or in recover
  todo,      \* participants still to be called in this pass
  retry,     \* next_pending of commit_phase
  attempt,   \* the round of commit_phase
  acked,     \* participants whose commit() returned Ok in this run
  failed,    \* participants whose last call in this run was an error
  voted,     \* participants whose prepare() returned Ok
  part,      \* what became of the work of each participant
  crashes,   \* crashes so far
  faults,    \* failed calls so far
  lost       \* participants that committed without commit() having returned Ok

volatile == <<phase, mode, todo, retry, attempt, acked, failed>>
vars == <<log, phase, mode, todo, retry, attempt, acked, failed, voted, part,
          crashes, faults, lost>>

Final == {"committed", "rolled_back", "mixed"}
LogStates == {"none", "preparing", "prepared", "committing", "rolling_back"} \cup Final
Phases == {"idle", "prepare", "prepared", "abort", "commit", "rollback"}
PartStates == {"working", "prepared", "committed", "rolled_back"}

Init ==
  /\ log = "none"
  /\ phase = "idle"
  /\ mode = "execute"
  /\ todo = {} /\ retry = {} /\ attempt = 0
  /\ acked = {} /\ failed = {} /\ voted = {}
  /\ part = [p \in Participants |-> "working"]
  /\ crashes = 0 /\ faults = 0 /\ lost = {}

\* Participants are called one at a time, in the order of the slice.
First(S, p) == p \in S /\ \A q \in S : p <= q

\* A failed call, within the budget of faults.
Fault == faults < MaxFaults /\ faults' = faults + 1

-----------------------------------------------------------------------------
(* The participants (external: closures given by the caller) *)

\* A call returns Ok and has moved the participant to after; or it fails, and
\* the participant did not move unless the reply was lost.
Call(p, after, ok) ==
  \/ ok /\ part' = [part EXCEPT ![p] = after] /\ UNCHANGED faults
  \/ ~ok /\ Fault /\ UNCHANGED part
  \/ ~ok /\ Fault /\ LostReplies /\ part' = [part EXCEPT ![p] = after]

PrepareCall(p, ok) == Call(p, "prepared", ok) /\ UNCHANGED lost

\* Work that was rolled back can no longer be committed.
CommitCall(p, ok) ==
  /\ \/ part[p] # "rolled_back" /\ Call(p, "committed", ok)
     \/ part[p] = "rolled_back" /\ ~ok /\ UNCHANGED <<part, faults>>
  /\ lost' = IF ok \/ part'[p] # "committed" THEN lost \ {p} ELSE lost \cup {p}

\* Work that was committed can no longer be rolled back.
RollbackCall(p, ok) ==
  /\ Call(p, IF part[p] = "committed" THEN "committed" ELSE "rolled_back", ok)
  /\ UNCHANGED lost

-----------------------------------------------------------------------------
(* The coordinator *)

\* A pass over all participants: prepare_phase, commit_phase, rollback_phase.
Pass(name) ==
  /\ phase' = name
  /\ todo' = Participants
  /\ retry' = {}
  /\ attempt' = 0
  /\ failed' = {}

Return == phase' = "idle" /\ UNCHANGED <<mode, todo, retry, attempt, acked, failed>>

\* execute, for an id that has no log: the log is saved as preparing, prepare_phase
\* begins.
Execute ==
  /\ phase = "idle" /\ log = "none"
  /\ log' = "preparing"
  /\ mode' = "execute"
  /\ Pass("prepare")
  /\ acked' = {}
  /\ UNCHANGED <<voted, part, crashes, faults, lost>>

\* prepare_phase asks the next participant; the first refusal ends it.
Prepare(p, ok) ==
  /\ phase = "prepare" /\ First(todo, p)
  /\ PrepareCall(p, ok)
  /\ todo' = todo \ {p}
  /\ voted' = IF ok THEN voted \cup {p} ELSE voted
  /\ phase' = IF ok THEN "prepare" ELSE "abort"
  /\ UNCHANGED <<log, mode, retry, attempt, acked, failed, crashes>>

\* Everybody agreed: the log says prepared, then committing, then commit_phase.
LogPrepared ==
  /\ phase = "prepare" /\ todo = {}
  /\ log' = "prepared"
  /\ phase' = "prepared"
  /\ UNCHANGED <<mode, todo, retry, attempt, acked, failed, voted, part,
                 crashes, faults, lost>>

LogCommitting ==
  /\ phase = "prepared"
  /\ log' = "committing"
  /\ Pass("commit")
  /\ UNCHANGED <<mode, acked, voted, part, crashes, faults, lost>>

\* Somebody refused: the log says rolling_back, then rollback_phase.
LogAborting ==
  /\ phase = "abort"
  /\ log' = "rolling_back"
  /\ Pass("rollback")
  /\ UNCHANGED <<mode, acked, voted, part, crashes, faults, lost>>

\* Mutant: one retry too many.
CommitOneMore(p, ok) ==
  /\ phase = "commit" /\ First(todo, p)
  /\ CommitCall(p, ok)
  /\ todo' = todo \ {p}
  /\ acked' = IF ok THEN acked \cup {p} ELSE acked
  /\ retry' = IF ~ok /\ attempt <= MaxRetries THEN retry \cup {p} ELSE retry
  /\ failed' = IF ~ok /\ attempt > MaxRetries THEN failed \cup {p} ELSE failed
  /\ UNCHANGED <<log, phase, mode, attempt, voted, crashes>>

\* commit_phase calls the next participant of this round; an error is retried
\* in the next round, if there is one.
Commit(p, ok) ==
  /\ phase = "commit" /\ First(todo, p)
  /\ CommitCall(p, ok)
  /\ todo' = todo \ {p}
  /\ acked' = IF ok THEN acked \cup {p} ELSE acked
  /\ retry' = IF ~ok /\ attempt < MaxRetries THEN retry \cup {p} ELSE retry
  /\ failed' = IF ~ok /\ attempt >= MaxRetries THEN failed \cup {p} ELSE failed
  /\ UNCHANGED <<log, phase, mode, attempt, voted, crashes>>

NextRound ==
  /\ phase = "commit" /\ todo = {} /\ retry # {}
  /\ todo' = retry
  /\ retry' = {}
  /\ attempt' = attempt + 1
  /\ UNCHANGED <<log, phase, mode, acked, failed, voted, part, crashes, faults, lost>>

\* Mutant: one acknowledged commit is enough.
LogCommittedAny ==
  /\ phase = "commit" /\ todo = {} /\ retry = {} /\ acked # {}
  /\ log' = "committed"
  /\ Return
  /\ UNCHANGED <<voted, part, crashes, faults, lost>>

\* commit_phase returned: everybody committed...
LogCommitted ==
  /\ phase = "commit" /\ todo = {} /\ retry = {} /\ failed = {}
  /\ log' = "committed"
  /\ Return
  /\ UNCHANGED <<voted, part, crashes, faults, lost>>

\* ...or not: execute logs rolling_back, recover leaves the log, and both call
\* rollback on every participant, the committed ones included.
CommitFailed ==
  /\ phase = "commit" /\ todo = {} /\ retry = {} /\ failed # {}
  /\ log' = IF mode = "execute" THEN "rolling_back" ELSE log
  /\ Pass("rollback")
  /\ UNCHANGED <<mode, acked, voted, part, crashes, faults, lost>>

Rollback(p, ok) ==
  /\ phase = "rollback" /\ First(todo, p)
  /\ RollbackCall(p, ok)
  /\ todo' = todo \ {p}
  /\ failed' = IF ok THEN failed ELSE failed \cup {p}
  /\ UNCHANGED <<log, phase, mode, retry, attempt, acked, voted, crashes>>

\* Mutants: the status is taken from the votes, or partial success is ignored.
FinalStatusByVotes == IF voted # {} THEN "mixed" ELSE "rolled_back"
FinalStatusRolledBack == "rolled_back"

\* The final status, from the outcomes of this run's commit_phase only.
FinalStatus == IF acked # {} THEN "mixed" ELSE "rolled_back"

\* Mutant: a recovery that rolled back does not write the log.
LogRolledBackOnce ==
  /\ phase = "rollback" /\ todo = {}
  /\ log' = IF mode = "execute" THEN FinalStatus ELSE log
  /\ Return
  /\ UNCHANGED <<voted, part, crashes, faults, lost>>

\* execute ignores the errors of rollback_phase, recover propagates them and
\* leaves the log for another recovery.
LogRolledBack ==
  /\ phase = "rollback" /\ todo = {}
  /\ log' = IF mode = "execute" \/ failed = {} THEN FinalStatus ELSE log
  /\ Return
  /\ UNCHANGED <<voted, part, crashes, faults, lost>>

\* Mutant: a transaction that was still preparing is taken forward.
RecoverForward ==
  /\ phase = "idle" /\ log \in {"preparing", "prepared", "committing", "rolling_back"}
  /\ mode' = "recover"
  /\ Pass(IF log = "rolling_back" THEN "rollback" ELSE "commit")
  /\ acked' = {}
  /\ UNCHANGED <<log, voted, part, crashes, faults, lost>>

\* recover, by what the log says: an undecided transaction is rolled back, a
\* decided one committed; nothing is left to do for a final one.
Recover ==
  /\ phase = "idle" /\ log \in {"preparing", "prepared", "committing", "rolling_back"}
  /\ mode' = "recover"
  /\ Pass(IF log = "committing" THEN "commit" ELSE "rollback")
  /\ acked' = {}
  /\ UNCHANGED <<log, voted, part, crashes, faults, lost>>

Crash ==
  /\ phase # "idle" /\ crashes < MaxCrashes
  /\ crashes' = crashes + 1
  /\ phase' = "idle" /\ mode' = "execute"
  /\ todo' = {} /\ retry' = {} /\ attempt' = 0 /\ acked' = {} /\ failed' = {}
  /\ UNCHANGED <<log, voted, part, faults, lost>>

Step ==
  \/ \E p \in Participants, ok \in BOOLEAN :
       Prepare(p, ok) \/ Commit(p, ok) \/ Rollback(p, ok)
  \/ LogPrepared
  \/ LogCommitting
  \/ LogAborting
  \/ NextRound
  \/ LogCommitted
  \/ CommitFailed
  \/ LogRolledBack

Next == Execute \/ Step \/ Recover \/ Crash

Spec == Init /\ [][Next]_vars

\* The coordinator runs, and somebody calls recover for a transaction that was
\* left unfinished.
FairSpec == Spec /\ WF_vars(Step) /\ WF_vars(Recover)

-----------------------------------------------------------------------------
(* Properties *)

\* Type correctness.
TypeOK ==
  /\ log \in LogStates
  /\ phase \in Phases
  /\ mode \in {"execute", "recover"}
  /\ todo \subseteq Participants
  /\ retry \subseteq Participants
  /\ attempt \in 0..MaxRetries
  /\ acked \subseteq Participants
  /\ failed \subseteq Participants
  /\ voted \subseteq Participants
  /\ part \in [Participants -> PartStates]
  /\ crashes \in 0..MaxCrashes
  /\ faults \in 0..MaxFaults
  /\ lost \subseteq Participants

\* The log says committed only when every participant has committed, through
\* any number of crashes, recoveries, retries and lost replies.
CommittedIsComplete ==
  log = "committed" => \A p \in Participants : part[p] = "committed"

\* No participant commits before all of them voted yes and the decision is in
\* the log.
CommitNeedsUnanimity ==
  \A p \in Participants :
    part[p] = "committed" =>
      voted = Participants /\ log \notin {"none", "preparing", "prepared"}

\* The log says rolled_back only when no participant has committed.
RolledBackIsClean ==
  log = "rolled_back" => \A p \in Participants : part[p] # "committed"

\* As long as the coordinator does not stop, rolled_back is wrong only of a
\* participant whose commit was never acknowledged, in any round: an
\* acknowledged one is always told by mixed, whatever failed or got lost elsewhere.
HeardCommitIsTold ==
  crashes = 0 /\ log = "rolled_back" =>
    \A p \in Participants : part[p] = "committed" => p \in lost

\* The log says mixed only when somebody did commit.
MixedIsMixed ==
  log = "mixed" => \E p \in Participants : part[p] = "committed"

\* What the log says of a finished transaction is true of its participants.
LogIsHonest == CommittedIsComplete /\ MixedIsMixed /\ HeardCommitIsTold

\* Every transaction reaches a final status once failures stop.
Terminates == log # "none" ~> log \in Final

=============================================================================
