------------------------ MODULE TwoPhaseCommit_proofs ------------------------
(***************************************************************************)
(* Proofs about TwoPhaseCommit, for any number of participants, retries,   *)
(* crashes and failed calls.  None of the properties is inductive: what    *)
(* the log may say rests on where the coordinator is (PhaseInv), on what   *)
(* commit_phase has still to do (CommitInv) and on what it has been told   *)
(* (AckInv).                                                               *)
(***************************************************************************)
EXTENDS TwoPhaseCommit, TLAPS

\* Where the coordinator can be for each status of the log.
PhaseInv ==
  /\ phase \in {"prepare", "abort"} => log = "preparing"
  /\ phase = "prepared" => log = "prepared"
  /\ phase = "commit" => log = "committing"
  /\ phase = "rollback" => log \notin Final \cup {"none"}

\* Nobody is asked to commit before everybody voted.
VoteInv ==
  /\ phase = "prepare" => Participants \ todo \subseteq voted
  /\ phase = "prepared" \/ log \in {"prepared", "committing"} => voted = Participants

\* commit_phase has an outcome for everybody it does not still have to call,
\* and retries only while there is a round left.
CommitInv ==
  phase = "commit" =>
    /\ Participants \subseteq todo \cup retry \cup failed \cup acked
    /\ retry # {} => attempt < MaxRetries

\* Nobody acknowledged a commit it did not carry out.
AckInv ==
  /\ phase \in {"prepare", "prepared", "abort"} => acked = {}
  /\ \A p \in acked : part[p] = "committed"

IInv ==
  /\ TypeOK
  /\ PhaseInv
  /\ VoteInv
  /\ CommitInv
  /\ AckInv
  /\ CommittedIsComplete
  /\ CommitNeedsUnanimity
  /\ MixedIsMixed

\* IInv holds before execute is called.
LEMMA InitIInv == Init => IInv
BY CommitAssumption
   DEF Init, IInv, TypeOK, PhaseInv, VoteInv, CommitInv, AckInv,
       CommittedIsComplete, CommitNeedsUnanimity, MixedIsMixed, LogStates,
       Phases, PartStates, Final

\* A call moves at most its own participant, and never takes back a commit.
LEMMA CallEffect ==
  ASSUME TypeOK, NEW p \in Participants, NEW ok \in BOOLEAN,
         NEW after \in PartStates,
         Call(p, after, ok)
  PROVE  /\ part' \in [Participants -> PartStates]
         /\ faults' \in 0..MaxFaults
         /\ \A q \in Participants : q # p => part'[q] = part[q]
         /\ part'[p] \in {part[p], after}
         /\ ok => part'[p] = after
BY CommitAssumption DEF TypeOK, Call, Fault

\* IInv is inductive: one step per action of the coordinator.
LEMMA NextIInv == IInv /\ [Next]_vars => IInv'
<1> SUFFICES ASSUME IInv, [Next]_vars PROVE IInv'
  OBVIOUS
<1> USE CommitAssumption
<1>1. CASE Execute
  BY <1>1 DEF Execute, Pass, IInv, TypeOK, PhaseInv, VoteInv, CommitInv, AckInv,
       CommittedIsComplete, CommitNeedsUnanimity, MixedIsMixed, LogStates,
       Phases, PartStates, Final
<1>2. ASSUME NEW p \in Participants, NEW ok \in BOOLEAN, Prepare(p, ok)
      PROVE  IInv'
  <2>1. /\ part' \in [Participants -> PartStates]
        /\ faults' \in 0..MaxFaults
        /\ \A q \in Participants : q # p => part'[q] = part[q]
        /\ part'[p] \in {part[p], "prepared"}
    BY <1>2, CallEffect DEF Prepare, PrepareCall, PartStates, IInv
  <2>2. TypeOK'
    BY <1>2, <2>1 DEF Prepare, PrepareCall, IInv, TypeOK, Phases
  <2>3. PhaseInv' /\ VoteInv' /\ CommitInv' /\ AckInv'
    BY <1>2 DEF Prepare, First, IInv, TypeOK, PhaseInv, VoteInv, CommitInv, AckInv, Final
  <2>4. CommittedIsComplete' /\ CommitNeedsUnanimity' /\ MixedIsMixed'
    BY <1>2, <2>1 DEF Prepare, IInv, PhaseInv, CommittedIsComplete,
         CommitNeedsUnanimity, MixedIsMixed
  <2> QED
    BY <2>2, <2>3, <2>4 DEF IInv
<1>3. ASSUME NEW p \in Participants, NEW ok \in BOOLEAN, Commit(p, ok)
      PROVE  IInv'
  <2>1. /\ part' \in [Participants -> PartStates]
        /\ faults' \in 0..MaxFaults
        /\ \A q \in Participants : q # p => part'[q] = part[q]
        /\ part'[p] \in {part[p], "committed"}
        /\ ok => part'[p] = "committed"
    <3>1. CASE Call(p, "committed", ok)
      BY <3>1, CallEffect DEF PartStates, IInv
    <3>2. CASE ~ok /\ UNCHANGED <<part, faults>>
      BY <3>2 DEF IInv, TypeOK
    <3> QED
      BY <1>3, <3>1, <3>2 DEF Commit, CommitCall
  <2>2. TypeOK'
    BY <1>3, <2>1 DEF Commit, CommitCall, IInv, TypeOK
  <2>3. PhaseInv' /\ VoteInv'
    BY <1>3 DEF Commit, IInv, PhaseInv, VoteInv, Final
  <2>4. CommitInv' /\ AckInv'
    BY <1>3, <2>1 DEF Commit, First, IInv, TypeOK, CommitInv, AckInv
  <2>5. CommittedIsComplete' /\ CommitNeedsUnanimity' /\ MixedIsMixed'
    BY <1>3, <2>1 DEF Commit, IInv, PhaseInv, VoteInv, CommittedIsComplete,
         CommitNeedsUnanimity, MixedIsMixed
  <2> QED
    BY <2>2, <2>3, <2>4, <2>5 DEF IInv
<1>4. ASSUME NEW p \in Participants, NEW ok \in BOOLEAN, Rollback(p, ok)
      PROVE  IInv'
  <2>1. /\ part' \in [Participants -> PartStates]
        /\ faults' \in 0..MaxFaults
        /\ \A q \in Participants : q # p => part'[q] = part[q]
        /\ (part'[p] = "committed") = (part[p] = "committed")
    <3>1. (IF part[p] = "committed" THEN "committed" ELSE "rolled_back") \in PartStates
      BY DEF PartStates
    <3> QED
      BY <1>4, <3>1, CallEffect DEF Rollback, RollbackCall, IInv
  <2>2. TypeOK'
    BY <1>4, <2>1 DEF Rollback, RollbackCall, IInv, TypeOK
  <2>3. PhaseInv' /\ VoteInv' /\ CommitInv'
    BY <1>4 DEF Rollback, IInv, PhaseInv, VoteInv, CommitInv, Final
  <2>4. AckInv'
    BY <1>4, <2>1 DEF Rollback, IInv, TypeOK, AckInv
  <2>5. CommittedIsComplete' /\ CommitNeedsUnanimity' /\ MixedIsMixed'
    BY <1>4, <2>1 DEF Rollback, IInv, PhaseInv, CommittedIsComplete,
         CommitNeedsUnanimity, MixedIsMixed, Final
  <2> QED
    BY <2>2, <2>3, <2>4, <2>5 DEF IInv
<1>5. CASE LogPrepared
  BY <1>5 DEF LogPrepared, IInv, TypeOK, PhaseInv, VoteInv, CommitInv, AckInv,
       CommittedIsComplete, CommitNeedsUnanimity, MixedIsMixed, LogStates,
       Phases, Final
<1>6. CASE LogCommitting
  BY <1>6 DEF LogCommitting, Pass, IInv, TypeOK, PhaseInv, VoteInv, CommitInv,
       AckInv, CommittedIsComplete, CommitNeedsUnanimity, MixedIsMixed,
       LogStates, Phases, Final
<1>7. CASE LogAborting
  BY <1>7 DEF LogAborting, Pass, IInv, TypeOK, PhaseInv, VoteInv, CommitInv,
       AckInv, CommittedIsComplete, CommitNeedsUnanimity, MixedIsMixed,
       LogStates, Phases, Final
<1>8. CASE NextRound
  BY <1>8 DEF NextRound, IInv, TypeOK, PhaseInv, VoteInv, CommitInv, AckInv,
       CommittedIsComplete, CommitNeedsUnanimity, MixedIsMixed, Final
<1>9. CASE LogCommitted
  BY <1>9 DEF LogCommitted, Return, IInv, TypeOK, PhaseInv, VoteInv, CommitInv,
       AckInv, CommittedIsComplete, CommitNeedsUnanimity, MixedIsMixed,
       LogStates, Phases, Final
<1>10. CASE CommitFailed
  BY <1>10 DEF CommitFailed, Pass, IInv, TypeOK, PhaseInv, VoteInv, CommitInv,
       AckInv, CommittedIsComplete, CommitNeedsUnanimity, MixedIsMixed,
       LogStates, Phases, Final
<1>11. CASE LogRolledBack
  <2>1. FinalStatus \in {"mixed", "rolled_back"} /\ (FinalStatus = "mixed" => acked # {})
    BY DEF FinalStatus
  <2> QED
    BY <1>11, <2>1 DEF LogRolledBack, Return, IInv, TypeOK, PhaseInv, VoteInv,
         CommitInv, AckInv, CommittedIsComplete, CommitNeedsUnanimity,
         MixedIsMixed, LogStates, Phases, Final
<1>12. CASE Recover
  BY <1>12 DEF Recover, Pass, IInv, TypeOK, PhaseInv, VoteInv, CommitInv, AckInv,
       CommittedIsComplete, CommitNeedsUnanimity, MixedIsMixed, Phases, Final
<1>13. CASE Crash
  BY <1>13 DEF Crash, IInv, TypeOK, PhaseInv, VoteInv, CommitInv, AckInv,
       CommittedIsComplete, CommitNeedsUnanimity, MixedIsMixed, Phases, Final
<1>14. CASE UNCHANGED vars
  BY <1>14 DEF vars, IInv, TypeOK, PhaseInv, VoteInv, CommitInv, AckInv,
       CommittedIsComplete, CommitNeedsUnanimity, MixedIsMixed
<1> QED
  BY <1>1, <1>2, <1>3, <1>4, <1>5, <1>6, <1>7, <1>8, <1>9, <1>10, <1>11,
     <1>12, <1>13, <1>14 DEF Next, Step

\* IInv holds in every behaviour.
LEMMA SpecIInv == Spec => []IInv
BY InitIInv, NextIInv, PTL DEF Spec

\* Type correctness, for every number of participants and retries.
THEOREM TypeCorrect == Spec => []TypeOK
BY SpecIInv, PTL DEF IInv

\* The log never says committed while some participant has not committed:
\* neither retries, nor lost replies, nor crashes and repeated recoveries of
\* execute and recover can make it so.
THEOREM CommittedComplete == Spec => []CommittedIsComplete
BY SpecIInv, PTL DEF IInv

\* No participant commits before the unanimous vote and the logged decision.
THEOREM Unanimity == Spec => []CommitNeedsUnanimity
BY SpecIInv, PTL DEF IInv

\* mixed is never logged for a transaction nobody committed.
THEOREM MixedHonest == Spec => []MixedIsMixed
BY SpecIInv, PTL DEF IInv

-----------------------------------------------------------------------------
(* As long as nothing stopped the coordinator *)

Undisturbed == crashes = 0

\* An execution reaches its own final status, and who has committed is in acked
\* or has never been heard of.
ReliableInv ==
  /\ TypeOK
  /\ phase = "idle" => log \in Final \cup {"none"}
  /\ log \in Final \cup {"none"} => phase = "idle"
  /\ mode = "execute"
  /\ phase \in {"prepare", "prepared", "abort"} => acked = {}
  /\ \A p \in Participants : part[p] = "committed" => p \in acked \cup lost
  /\ log = "none" => \A p \in Participants : part[p] # "committed"
  /\ log = "rolled_back" => acked = {}

\* ReliableInv is kept by every step that does not disturb the transaction.
LEMMA ReliableStep ==
  ASSUME ReliableInv, TypeOK', Undisturbed', [Next]_vars
  PROVE  ReliableInv'
<1> USE DEF Undisturbed
<1>1. CASE Execute
  BY <1>1 DEF Execute, Pass, ReliableInv, TypeOK, Final
<1>2. ASSUME NEW p \in Participants, NEW ok \in BOOLEAN, Prepare(p, ok)
      PROVE  ReliableInv'
  <2>1. \A q \in Participants : part'[q] = part[q] \/ part'[q] = "prepared"
    BY <1>2 DEF Prepare, PrepareCall, Call, ReliableInv, TypeOK
  <2> QED
    BY <1>2, <2>1 DEF Prepare, PrepareCall, ReliableInv, Final
<1>3. ASSUME NEW p \in Participants, NEW ok \in BOOLEAN, Commit(p, ok)
      PROVE  ReliableInv'
  <2>1. \A q \in Participants : part'[q] = part[q] \/ q = p
    BY <1>3 DEF Commit, CommitCall, Call, ReliableInv, TypeOK
  <2>2. part'[p] = "committed" => p \in acked' \cup lost'
    BY <1>3 DEF Commit, CommitCall
  <2>3. lost \ {p} \subseteq lost' /\ acked \subseteq acked'
    BY <1>3 DEF Commit, CommitCall
  <2> QED
    BY <1>3, <2>1, <2>2, <2>3 DEF Commit, ReliableInv, Final
<1>4. ASSUME NEW p \in Participants, NEW ok \in BOOLEAN, Rollback(p, ok)
      PROVE  ReliableInv'
  <2>1. \A q \in Participants : part'[q] = "committed" => part[q] = "committed"
    BY <1>4 DEF Rollback, RollbackCall, Call, ReliableInv, TypeOK
  <2> QED
    BY <1>4, <2>1 DEF Rollback, RollbackCall, ReliableInv, Final
<1>5. CASE LogPrepared \/ LogCommitting \/ LogAborting \/ NextRound \/ CommitFailed
  BY <1>5 DEF LogPrepared, LogCommitting, LogAborting, NextRound, CommitFailed,
       Pass, ReliableInv, Final
<1>6. CASE LogCommitted
  BY <1>6 DEF LogCommitted, Return, ReliableInv, Final
<1>7. CASE LogRolledBack
  BY <1>7 DEF LogRolledBack, FinalStatus, Return, ReliableInv, Final
<1>8. CASE Recover
  BY <1>8 DEF Recover, ReliableInv, Final
<1>9. CASE Crash
  BY <1>9 DEF Crash, ReliableInv, TypeOK
<1>10. CASE UNCHANGED vars
  BY <1>10 DEF vars, ReliableInv, TypeOK
<1> QED
  BY <1>1, <1>2, <1>3, <1>4, <1>5, <1>6, <1>7, <1>8, <1>9, <1>10 DEF Next, Step

\* A disturbance is not forgotten.
LEMMA StaysDisturbed == TypeOK /\ [Next]_vars /\ Undisturbed' => Undisturbed
<1> SUFFICES ASSUME TypeOK, [Next]_vars, Undisturbed' PROVE Undisturbed
  OBVIOUS
<1>1. crashes' = crashes \/ crashes' = crashes + 1
  BY DEF Next, Step, Execute, Prepare, Commit, Rollback, LogPrepared, LogCommitting,
         LogAborting, NextRound, LogCommitted, CommitFailed, LogRolledBack, Recover,
         Crash, vars
<1> QED
  BY <1>1 DEF Undisturbed, TypeOK

\* When the coordinator did not stop, execute logs rolled_back only if no commit was
\* acknowledged: the outcomes of commit_phase tell mixed from rolled_back, but for
\* participants whose every reply was lost.
THEOREM HeardCommitTold == Spec => []HeardCommitIsTold
<1>1. Init => ReliableInv
  BY CommitAssumption, InitIInv DEF IInv, Init, ReliableInv, Final
<1>2. (Undisturbed => ReliableInv) /\ TypeOK /\ TypeOK' /\ [Next]_vars
        => (Undisturbed => ReliableInv)'
  BY ReliableStep, StaysDisturbed
<1>3. (Undisturbed => ReliableInv) => HeardCommitIsTold
  BY DEF Undisturbed, ReliableInv, HeardCommitIsTold
<1> QED
  BY <1>1, <1>2, <1>3, TypeCorrect, PTL DEF Spec

\* The three final statuses together: the log of LogCommitted, LogRolledBack and
\* recover tells the truth about the participants.
THEOREM HonestLog == Spec => []LogIsHonest
BY CommittedComplete, MixedHonest, HeardCommitTold, PTL DEF LogIsHonest

=============================================================================
