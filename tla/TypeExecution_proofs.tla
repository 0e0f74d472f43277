------------------------ MODULE TypeExecution_proofs ------------------------
(***************************************************************************)
(* Proofs about TypeExecution, for any execution ids, bindings, requests,  *)
(* observers and number of restarts.  The properties rest on who holds a   *)
(* receipt: a request whose claim was inserted, as long as its task lives  *)
(* or its statement was sent, is the only one for its execution id, and    *)
(* the receipt carries its binding (HolderInv).                            *)
(***************************************************************************)
EXTENDS TypeExecution, TLAPS

\* The request went past claim_type_execution and still matters.
Holder(r) == task[r] \in Live \/ statement[r] # "notSent"

HolderInv ==
  /\ \A r \in Requests : Holder(r) =>
       /\ binding[r] \in Bindings
       /\ receipt[binding[r].id].plan = binding[r].plan
  /\ \A r, s \in Requests :
       Holder(r) /\ Holder(s) /\ r # s => binding[r].id # binding[s].id

\* A request that has not been delivered has nothing, and what is about to be
\* saved as terminal is over.
TaskInv ==
  \A r \in Requests :
    /\ task[r] = "absent" =>
         statement[r] = "notSent" /\ reply[r] = "none" /\ binding[r] = Unbound
    /\ task[r] = "saving" => statement[r] # "running"

\* What a terminal receipt stands for.
ReceiptInv ==
  \A i \in Ids : receipt[i].terminal =>
    /\ receipt[i].plan # None
    /\ \E r \in Requests : binding[r] = [id |-> i, plan |-> receipt[i].plan]
    /\ \A r \in Requests : binding[r].id = i => ~MayTakeEffect(r)

\* What was told, to observers and to clients, is in the receipt.
ToldInv ==
  /\ \A o \in Observers : watch[o] # "idle" => watched[o] \in Bindings
  /\ \A o \in Observers :
       watch[o] = "terminal" => receipt[watched[o].id] = Terminal(watched[o])
  /\ \A r \in Requests : reply[r] = "definite" =>
       /\ binding[r] \in Bindings
       /\ receipt[binding[r].id] = Terminal(binding[r])

IInv == TypeOK /\ HolderInv /\ TaskInv /\ ReceiptInv /\ ToldInv

\* IInv holds before the first request.
LEMMA InitIInv == Init => IInv
BY ReceiptAssumption
   DEF Init, IInv, TypeOK, HolderInv, TaskInv, ReceiptInv, ToldInv, Holder,
       Receipts, Bindings, Unbound, TaskStates, StatementStates, Replies,
       WatchStates, Verdicts, Live

\* Type correctness of every step.
LEMMA TypeStep == IInv /\ [Next]_vars => TypeOK'
<1> SUFFICES ASSUME IInv, [Next]_vars PROVE TypeOK'
  OBVIOUS
<1> USE ReceiptAssumption DEF IInv, TypeOK, TaskStates, StatementStates, Replies,
                              WatchStates, Verdicts, Live, observers, requests
<1>1. ASSUME NEW r \in Requests, NEW b \in Bindings, Claim(r, b) \/ ClaimRefused(r, b)
      PROVE  TypeOK'
  <2>1. Pending(b) \in Receipts
    BY DEF Pending, Receipts, Bindings
  <2>2. receipt' \in [Ids -> Receipts]
    BY <1>1, <2>1 DEF Claim, ClaimRefused
  <2> QED
    BY <1>1, <2>2 DEF Claim, ClaimRefused, Tell
<1>2. ASSUME NEW r \in Requests,
             \/ Spawn(r) \/ CallerLeaves(r) \/ SendStatement(r) \/ EndStatement(r)
             \/ ProvenResult(r) \/ UnprovenResult(r) \/ TaskStops(r) \/ SaveFails(r)
      PROVE  TypeOK'
  BY <1>2 DEF Spawn, CallerLeaves, SendStatement, EndStatement, ProvenResult,
              UnprovenResult, TaskStops, SaveFails, Tell
<1>3. ASSUME NEW r \in Requests, Save(r)
      PROVE  TypeOK'
  <2>1. binding[r] \in Bindings
    BY <1>3 DEF Save, HolderInv, Holder
  <2>2. Terminal(binding[r]) \in Receipts
    BY <2>1 DEF Terminal, Receipts, Bindings
  <2>3. receipt' \in [Ids -> Receipts]
    BY <1>3, <2>2 DEF Save
  <2> QED
    BY <1>3, <2>3 DEF Save, Tell
<1>4. ASSUME NEW o \in Observers, NEW b \in Bindings, Observe(o, b) \/ ObserveFails(o, b)
      PROVE  TypeOK'
  BY <1>4 DEF Observe, ObserveFails, Verdict
<1>5. ASSUME NEW o \in Observers, ObserveAgain(o)
      PROVE  TypeOK'
  BY <1>5 DEF ObserveAgain, Verdict
<1>6. CASE Crash
  BY <1>6 DEF Crash
<1>7. CASE UNCHANGED vars
  BY <1>7 DEF vars
<1> QED
  BY <1>1, <1>2, <1>3, <1>4, <1>5, <1>6, <1>7 DEF Next

\* A step that leaves the receipts, the requests' bindings and the observers
\* alone, and lets no statement start.
LEMMA QuietStep ==
  ASSUME IInv, NEW r \in Requests,
         UNCHANGED <<receipt, binding, watch, watched>>,
         \A s \in Requests : s # r => task'[s] = task[s] /\ statement'[s] = statement[s]
                                     /\ reply'[s] = reply[s],
         task[r] \in Live \/ statement[r] # "notSent",
         task'[r] # "absent",
         Holder(r)' => Holder(r),
         MayTakeEffect(r)' => MayTakeEffect(r),
         task'[r] = "saving" => statement'[r] # "running",
         reply'[r] = "definite" => reply[r] = "definite"
  PROVE  HolderInv' /\ TaskInv' /\ ReceiptInv' /\ ToldInv'
<1> USE DEF IInv, TypeOK
<1>1. HolderInv'
  BY DEF HolderInv, Holder
<1>2. TaskInv'
  BY DEF TaskInv
<1>3. ReceiptInv'
  <2>1. \A s \in Requests : MayTakeEffect(s)' => MayTakeEffect(s)
    BY DEF MayTakeEffect
  <2> QED
    BY <2>1 DEF ReceiptInv
<1>4. ToldInv'
  BY DEF ToldInv
<1> QED
  BY <1>1, <1>2, <1>3, <1>4

\* claim_type_execution makes a holder where there was none.
LEMMA ClaimStep ==
  ASSUME IInv, TypeOK', NEW r \in Requests, NEW b \in Bindings, Claim(r, b)
  PROVE  HolderInv' /\ TaskInv' /\ ReceiptInv' /\ ToldInv'
<1> USE ReceiptAssumption DEF IInv, TypeOK, observers
<1>1. b.id \in Ids /\ b.plan \in Plans /\ b = [id |-> b.id, plan |-> b.plan]
  BY DEF Bindings
<1>2. /\ task[r] = "absent" /\ statement[r] = "notSent" /\ reply[r] = "none"
      /\ statement' = statement /\ reply' = reply
      /\ watch' = watch /\ watched' = watched
      /\ task' = [task EXCEPT ![r] = "claimed"]
      /\ binding' = [binding EXCEPT ![r] = b]
      /\ receipt[b.id].plan = None
      /\ receipt'[b.id].plan = b.plan /\ receipt'[b.id].terminal = FALSE
      /\ \A i \in Ids : i # b.id => receipt'[i] = receipt[i]
  BY <1>1 DEF Claim, TaskInv, Pending
<1>3. \A s \in Requests : Holder(s) => binding[s] \in Bindings /\ binding[s].id # b.id
  <2> SUFFICES ASSUME NEW s \in Requests, Holder(s)
               PROVE  binding[s] \in Bindings /\ binding[s].id # b.id
    OBVIOUS
  <2>1. binding[s] \in Bindings /\ receipt[binding[s].id].plan = binding[s].plan
    BY DEF HolderInv
  <2>2. binding[s].plan # None
    BY <2>1 DEF Bindings
  <2> QED
    BY <1>2, <2>1, <2>2
<1>4. \A s \in Requests : s # r => (Holder(s)' <=> Holder(s)) /\ binding'[s] = binding[s]
                                  /\ (MayTakeEffect(s)' <=> MayTakeEffect(s))
  BY <1>2 DEF Holder, MayTakeEffect
<1>5. binding'[r] = b
  BY <1>2
<1>6. HolderInv'
  <2>1. ASSUME NEW s \in Requests, Holder(s)'
        PROVE  binding'[s] \in Bindings /\ receipt'[binding'[s].id].plan = binding'[s].plan
    <3>1. CASE s = r
      BY <3>1, <1>2, <1>5
    <3>2. CASE s # r
      BY <3>2, <2>1, <1>2, <1>3, <1>4 DEF HolderInv, Bindings
    <3> QED
      BY <3>1, <3>2
  <2>2. ASSUME NEW s \in Requests, NEW t \in Requests, Holder(s)', Holder(t)', s # t
        PROVE  binding'[s].id # binding'[t].id
    BY <2>2, <1>3, <1>4, <1>5 DEF HolderInv
  <2> QED
    BY <2>1, <2>2 DEF HolderInv
<1>7. TaskInv'
  BY <1>2 DEF TaskInv
<1>8. ReceiptInv'
  <2> SUFFICES ASSUME NEW i \in Ids, receipt'[i].terminal
               PROVE  /\ receipt'[i].plan # None
                      /\ \E s \in Requests : binding'[s] = [id |-> i, plan |-> receipt'[i].plan]
                      /\ \A s \in Requests : binding'[s].id = i => ~MayTakeEffect(s)'
    BY DEF ReceiptInv
  <2>1. i # b.id /\ receipt'[i] = receipt[i]
    BY <1>2
  <2>2. PICK s \in Requests : binding[s] = [id |-> i, plan |-> receipt[i].plan]
    BY <2>1 DEF ReceiptInv
  <2>3. binding[r].id # i
    BY <1>2 DEF TaskInv, Unbound
  <2>4. s # r
    BY <2>2, <2>3
  <2>5. \A t \in Requests : binding'[t].id = i => ~MayTakeEffect(t)'
    BY <2>1, <1>4, <1>5 DEF ReceiptInv
  <2> QED
    BY <2>1, <2>2, <2>4, <2>5, <1>4 DEF ReceiptInv
<1>9. ToldInv'
  <2>1. ASSUME NEW o \in Observers, watch[o] = "terminal"
        PROVE  receipt'[watched[o].id] = Terminal(watched[o])
    <3>1. /\ watched[o] \in Bindings
          /\ receipt[watched[o].id] = Terminal(watched[o])
      BY <2>1 DEF ToldInv
    <3>2. watched[o].id \in Ids /\ watched[o].plan # None
      BY <3>1 DEF Bindings
    <3>3. watched[o].id # b.id
      BY <3>1, <3>2, <1>2 DEF Terminal
    <3> QED
      BY <3>1, <3>2, <3>3, <1>2
  <2>2. ASSUME NEW s \in Requests, reply[s] = "definite"
        PROVE  /\ binding'[s] \in Bindings
               /\ receipt'[binding'[s].id] = Terminal(binding'[s])
    <3>1. s # r /\ binding'[s] = binding[s]
      BY <2>2, <1>2
    <3>2. binding[s] \in Bindings /\ receipt[binding[s].id] = Terminal(binding[s])
      BY <2>2 DEF ToldInv
    <3>3. binding[s].id \in Ids /\ binding[s].plan # None
      BY <3>2 DEF Bindings
    <3>4. binding[s].id # b.id
      BY <3>2, <3>3, <1>2 DEF Terminal
    <3> QED
      BY <3>1, <3>2, <3>3, <3>4, <1>2
  <2> QED
    BY <2>1, <2>2, <1>2 DEF ToldInv
<1> QED
  BY <1>6, <1>7, <1>8, <1>9

\* A refused request holds nothing.
LEMMA RefusedStep ==
  ASSUME IInv, NEW r \in Requests, NEW b \in Bindings, ClaimRefused(r, b)
  PROVE  HolderInv' /\ TaskInv' /\ ReceiptInv' /\ ToldInv'
<1> USE ReceiptAssumption DEF IInv, TypeOK, observers
<1>1. /\ task[r] = "absent" /\ statement[r] = "notSent" /\ reply[r] = "none"
      /\ binding[r] = Unbound
      /\ statement' = statement /\ receipt' = receipt
      /\ watch' = watch /\ watched' = watched
      /\ task' = [task EXCEPT ![r] = "ended"]
      /\ binding' = [binding EXCEPT ![r] = b]
      /\ reply' = [reply EXCEPT ![r] = "unknown"]
  BY DEF ClaimRefused, Tell, TaskInv
<1>2. ~Holder(r)' /\ ~MayTakeEffect(r)' /\ ~Holder(r)
  BY <1>1 DEF Holder, MayTakeEffect, Live
<1>3. \A s \in Requests : s # r => (Holder(s)' <=> Holder(s)) /\ binding'[s] = binding[s]
                                  /\ (MayTakeEffect(s)' <=> MayTakeEffect(s))
  BY <1>1 DEF Holder, MayTakeEffect
<1>4. HolderInv'
  BY <1>1, <1>2, <1>3 DEF HolderInv
<1>5. TaskInv'
  BY <1>1 DEF TaskInv
<1>6. ReceiptInv'
  <2> SUFFICES ASSUME NEW i \in Ids, receipt[i].terminal
               PROVE  /\ receipt[i].plan # None
                      /\ \E s \in Requests : binding'[s] = [id |-> i, plan |-> receipt[i].plan]
                      /\ \A s \in Requests : binding'[s].id = i => ~MayTakeEffect(s)'
    BY <1>1 DEF ReceiptInv
  <2>1. PICK s \in Requests : binding[s] = [id |-> i, plan |-> receipt[i].plan]
    BY DEF ReceiptInv
  <2>2. s # r
    BY <1>1, <2>1 DEF Unbound
  <2>3. \A t \in Requests : binding'[t].id = i => ~MayTakeEffect(t)'
    BY <1>2, <1>3 DEF ReceiptInv
  <2> QED
    BY <2>1, <2>2, <2>3, <1>3 DEF ReceiptInv
<1>7. ToldInv'
  BY <1>1 DEF ToldInv
<1> QED
  BY <1>4, <1>5, <1>6, <1>7

\* The only holder of the id saves its receipt: nothing of it is left to run.
LEMMA SaveStep ==
  ASSUME IInv, NEW r \in Requests, Save(r)
  PROVE  HolderInv' /\ TaskInv' /\ ReceiptInv' /\ ToldInv'
<1> USE ReceiptAssumption DEF IInv, TypeOK, observers
<1> DEFINE b == binding[r]
<1>1. b \in Bindings /\ Holder(r)
  BY DEF Save, Holder, Live, HolderInv
<1>2. b.id \in Ids /\ b.plan \in Plans /\ b = [id |-> b.id, plan |-> b.plan] /\ b.plan # None
  BY <1>1 DEF Bindings
<1>3. /\ task[r] = "saving" /\ statement[r] # "running"
      /\ statement' = statement /\ binding' = binding
      /\ watch' = watch /\ watched' = watched
      /\ task' = [task EXCEPT ![r] = "ended"]
      /\ reply' = [reply EXCEPT ![r] = IF @ = "none" THEN "definite" ELSE @]
      /\ receipt[b.id] = Pending(b)
      /\ receipt'[b.id] = Terminal(b)
      /\ \A i \in Ids : i # b.id => receipt'[i] = receipt[i]
  BY <1>2 DEF Save, Tell, TaskInv
<1>4. receipt[b.id].terminal = FALSE /\ receipt[b.id].plan = b.plan
      /\ receipt'[b.id].plan = b.plan
  BY <1>3 DEF Pending, Terminal
<1>5. \A s \in Requests : (Holder(s)' => Holder(s)) /\ (MayTakeEffect(s)' => MayTakeEffect(s))
  BY <1>3 DEF Holder, MayTakeEffect, Live
<1>6. \A s \in Requests : MayTakeEffect(s) => Holder(s)
  BY DEF MayTakeEffect, Holder, Live
<1>7. HolderInv'
  <2>1. \A i \in Ids : receipt'[i].plan = receipt[i].plan
    BY <1>3, <1>4
  <2>2. \A s \in Requests : binding[s] \in Bindings => binding[s].id \in Ids
    BY DEF Bindings
  <2> QED
    BY <1>3, <1>5, <2>1, <2>2 DEF HolderInv
<1>8. TaskInv'
  BY <1>3 DEF TaskInv
<1>9. ReceiptInv'
  <2> SUFFICES ASSUME NEW i \in Ids, receipt'[i].terminal
               PROVE  /\ receipt'[i].plan # None
                      /\ \E s \in Requests : binding[s] = [id |-> i, plan |-> receipt'[i].plan]
                      /\ \A s \in Requests : binding[s].id = i => ~MayTakeEffect(s)'
    BY <1>3 DEF ReceiptInv
  <2>1. CASE i = b.id
    <3>1. ~MayTakeEffect(r)'
      BY <1>3 DEF MayTakeEffect
    <3>2. \A s \in Requests : s # r /\ binding[s].id = i => ~MayTakeEffect(s)'
      BY <2>1, <1>1, <1>5, <1>6 DEF HolderInv
    <3> QED
      BY <2>1, <3>1, <3>2, <1>2, <1>4
  <2>2. CASE i # b.id
    BY <2>2, <1>3, <1>5 DEF ReceiptInv
  <2> QED
    BY <2>1, <2>2
<1>10. ToldInv'
  <2>1. ASSUME NEW o \in Observers, watch[o] = "terminal"
        PROVE  receipt'[watched[o].id] = Terminal(watched[o])
    <3>1. /\ watched[o] \in Bindings
          /\ receipt[watched[o].id] = Terminal(watched[o])
      BY <2>1 DEF ToldInv
    <3>2. watched[o].id \in Ids /\ receipt[watched[o].id].terminal
      BY <3>1 DEF Bindings, Terminal
    <3> QED
      BY <3>1, <3>2, <1>3, <1>4
  <2>2. ASSUME NEW s \in Requests, reply'[s] = "definite"
        PROVE  /\ binding[s] \in Bindings
               /\ receipt'[binding[s].id] = Terminal(binding[s])
    <3>1. CASE s = r
      BY <3>1, <1>1, <1>3
    <3>2. CASE s # r
      <4>1. binding[s] \in Bindings /\ receipt[binding[s].id] = Terminal(binding[s])
        BY <2>2, <3>2, <1>3 DEF ToldInv
      <4>2. binding[s].id \in Ids /\ receipt[binding[s].id].terminal
        BY <4>1 DEF Bindings, Terminal
      <4> QED
        BY <4>1, <4>2, <1>3, <1>4
    <3> QED
      BY <3>1, <3>2
  <2> QED
    BY <2>1, <2>2, <1>3 DEF ToldInv
<1> QED
  BY <1>7, <1>8, <1>9, <1>10

\* What an observer is told is what the receipt says at that moment.
LEMMA ObserveStep ==
  ASSUME IInv, NEW o \in Observers,
         UNCHANGED <<receipt, requests>>,
         \A p \in Observers : p # o => watch'[p] = watch[p] /\ watched'[p] = watched[p],
         watched'[o] \in Bindings,
         watch'[o] \in {"waiting", "error", Verdict(watched'[o])}
  PROVE  HolderInv' /\ TaskInv' /\ ReceiptInv' /\ ToldInv'
<1> USE DEF IInv, TypeOK, requests
<1>1. HolderInv' /\ TaskInv'
  BY DEF HolderInv, Holder, TaskInv
<1>2. ReceiptInv'
  BY DEF ReceiptInv, MayTakeEffect
<1>3. watch'[o] = "terminal" => receipt[watched'[o].id] = Terminal(watched'[o])
  BY DEF Verdict
<1>4. ToldInv'
  BY <1>3 DEF ToldInv
<1> QED
  BY <1>1, <1>2, <1>4

\* A restart takes tasks and observers, never receipts or statements.
LEMMA CrashStep ==
  ASSUME IInv, Crash
  PROVE  HolderInv' /\ TaskInv' /\ ReceiptInv' /\ ToldInv'
<1> USE DEF IInv, TypeOK
<1>1. \A r \in Requests : (Holder(r)' => Holder(r)) /\ (MayTakeEffect(r)' => MayTakeEffect(r))
  BY DEF Crash, Holder, MayTakeEffect, Live
<1>2. HolderInv'
  BY <1>1 DEF HolderInv, Crash
<1>3. TaskInv'
  BY DEF TaskInv, Crash, Live
<1>4. ReceiptInv'
  BY <1>1 DEF ReceiptInv, Crash
<1>5. ToldInv'
  BY DEF ToldInv, Crash
<1> QED
  BY <1>2, <1>3, <1>4, <1>5

\* IInv is inductive.
LEMMA NextIInv == IInv /\ [Next]_vars => IInv'
<1> SUFFICES ASSUME IInv, [Next]_vars PROVE IInv'
  OBVIOUS
<1> USE DEF IInv
<1>1. TypeOK'
  BY TypeStep
<1>2. ASSUME NEW r \in Requests, NEW b \in Bindings, Claim(r, b) \/ ClaimRefused(r, b)
      PROVE  HolderInv' /\ TaskInv' /\ ReceiptInv' /\ ToldInv'
  BY <1>1, <1>2, ClaimStep, RefusedStep
<1>3. ASSUME NEW r \in Requests,
             \/ Spawn(r) \/ CallerLeaves(r) \/ SendStatement(r) \/ EndStatement(r)
             \/ ProvenResult(r) \/ UnprovenResult(r) \/ TaskStops(r) \/ SaveFails(r)
      PROVE  HolderInv' /\ TaskInv' /\ ReceiptInv' /\ ToldInv'
  <2>1. UNCHANGED <<receipt, binding, watch, watched>>
    BY <1>3 DEF Spawn, CallerLeaves, SendStatement, EndStatement, ProvenResult,
                UnprovenResult, TaskStops, SaveFails, observers
  <2>2. \A s \in Requests : s # r => task'[s] = task[s] /\ statement'[s] = statement[s]
                                    /\ reply'[s] = reply[s]
    BY <1>3 DEF Spawn, CallerLeaves, SendStatement, EndStatement, ProvenResult,
                UnprovenResult, TaskStops, SaveFails, Tell, TypeOK
  <2>3. /\ task[r] \in Live \/ statement[r] # "notSent"
        /\ task[r] # "absent"
        /\ task'[r] # "absent"
    BY <1>3 DEF Spawn, CallerLeaves, SendStatement, EndStatement, ProvenResult,
                UnprovenResult, TaskStops, SaveFails, Live, TypeOK, TaskInv
  <2>4. /\ Holder(r)' => Holder(r)
        /\ MayTakeEffect(r)' => MayTakeEffect(r)
    BY <1>3 DEF Spawn, CallerLeaves, SendStatement, EndStatement, ProvenResult,
                UnprovenResult, TaskStops, SaveFails, Live, TypeOK, Holder, MayTakeEffect
  <2>5. task'[r] = "saving" => statement'[r] # "running"
    BY <1>3 DEF Spawn, CallerLeaves, SendStatement, EndStatement, ProvenResult,
                UnprovenResult, TaskStops, SaveFails, ResultProves, TypeOK, TaskInv
  <2>6. reply'[r] = "definite" => reply[r] = "definite"
    BY <1>3 DEF Spawn, CallerLeaves, SendStatement, EndStatement, ProvenResult,
                UnprovenResult, TaskStops, SaveFails, Tell, TypeOK
  <2> QED
    BY <2>1, <2>2, <2>3, <2>4, <2>5, <2>6, QuietStep
<1>4. ASSUME NEW r \in Requests, Save(r)
      PROVE  HolderInv' /\ TaskInv' /\ ReceiptInv' /\ ToldInv'
  BY <1>4, SaveStep
<1>5. ASSUME NEW o \in Observers, NEW b \in Bindings, Observe(o, b) \/ ObserveFails(o, b)
      PROVE  HolderInv' /\ TaskInv' /\ ReceiptInv' /\ ToldInv'
  <2>1. /\ UNCHANGED <<receipt, requests>>
        /\ \A p \in Observers : p # o => watch'[p] = watch[p] /\ watched'[p] = watched[p]
        /\ watched'[o] = b
        /\ watch'[o] \in {"waiting", "error", Verdict(b)}
    BY <1>5 DEF Observe, ObserveFails, TypeOK
  <2> QED
    BY <2>1, ObserveStep
<1>6. ASSUME NEW o \in Observers, ObserveAgain(o)
      PROVE  HolderInv' /\ TaskInv' /\ ReceiptInv' /\ ToldInv'
  <2>1. /\ UNCHANGED <<receipt, requests>>
        /\ \A p \in Observers : p # o => watch'[p] = watch[p] /\ watched'[p] = watched[p]
        /\ watched'[o] = watched[o]
        /\ watch'[o] = Verdict(watched[o])
    BY <1>6 DEF ObserveAgain, TypeOK
  <2>2. watched[o] \in Bindings
    BY <1>6 DEF ObserveAgain, ToldInv
  <2> QED
    BY <2>1, <2>2, ObserveStep
<1>7. CASE Crash
  BY <1>1, <1>7, CrashStep
<1>8. CASE UNCHANGED vars
  BY <1>1, <1>8 DEF vars, HolderInv, TaskInv, ReceiptInv, ToldInv, Holder, MayTakeEffect
<1> QED
  BY <1>1, <1>2, <1>3, <1>4, <1>5, <1>6, <1>7, <1>8 DEF Next

\* IInv holds in every behaviour.
LEMMA SpecIInv == Spec => []IInv
BY InitIInv, NextIInv, PTL DEF Spec

\* Type correctness.
THEOREM TypeCorrect == Spec => []TypeOK
<1>1. IInv => TypeOK
  BY DEF IInv
<1> QED
  BY <1>1, SpecIInv, PTL

\* What observe_type_execution calls terminal was claimed with that binding,
\* and no statement of the execution id can take effect any more, whatever
\* restarts, failed saves and repeated requests there were.
THEOREM Settled == Spec => []TerminalIsSettled
<1>1. IInv => TerminalIsSettled
  <2> SUFFICES ASSUME IInv, NEW o \in Observers, watch[o] = "terminal"
               PROVE  /\ \E r \in Requests : binding[r] = watched[o]
                      /\ \A r \in Requests : binding[r].id = watched[o].id => ~MayTakeEffect(r)
    BY DEF TerminalIsSettled
  <2>1. watched[o] \in Bindings /\ receipt[watched[o].id] = Terminal(watched[o])
    BY DEF IInv, ToldInv
  <2>2. /\ watched[o].id \in Ids
        /\ receipt[watched[o].id].terminal
        /\ watched[o] = [id |-> watched[o].id, plan |-> receipt[watched[o].id].plan]
    BY <2>1 DEF Bindings, Terminal
  <2> QED
    BY <2>2 DEF IInv, ReceiptInv
<1> QED
  BY <1>1, SpecIInv, PTL

\* claim_type_execution lets one statement per execution id reach the
\* database, across concurrent and repeated deliveries and restarts.
THEOREM OneExecution == Spec => []NoReplay
<1>1. IInv => NoReplay
  BY DEF IInv, NoReplay, HolderInv, Holder
<1> QED
  BY <1>1, SpecIInv, PTL

\* finish_conditional_update reports a definite result only with its receipt
\* saved, and nothing withdraws that receipt.
THEOREM DurableAnswer == Spec => []DefiniteIsDurable
<1>1. IInv => DefiniteIsDurable
  <2> SUFFICES ASSUME IInv, NEW r \in Requests, reply[r] = "definite"
               PROVE  receipt[binding[r].id] = Terminal(binding[r]) /\ ~MayTakeEffect(r)
    BY DEF DefiniteIsDurable
  <2>1. binding[r] \in Bindings /\ receipt[binding[r].id] = Terminal(binding[r])
    BY DEF IInv, ToldInv
  <2>2. binding[r].id \in Ids /\ receipt[binding[r].id].terminal
    BY <2>1 DEF Bindings, Terminal
  <2> QED
    BY <2>1, <2>2 DEF IInv, ReceiptInv
<1> QED
  BY <1>1, SpecIInv, PTL

\* Both together: what observe_type_execution and the desktop handler tell may be
\* relied on.
THEOREM ReliableAnswers == Spec => []AnswersAreReliable
BY Settled, DurableAnswer, PTL DEF AnswersAreReliable

\* Nobody is told that an execution is not terminal after somebody was told
\* that it is: receipts never go back, and the second read is fresh.
THEOREM NoStaleAnswer == Spec => TerminalStays
<1>1. ASSUME IInv, [Next]_vars, NEW o \in Observers, NEW p \in Observers,
             watch[o] = "terminal",
             watch'[p] # watch[p] \/ watched'[p] # watched[p],
             watched'[p] = watched[o]
      PROVE  watch'[p] # "notTerminal"
  <2> USE DEF IInv, TypeOK
  <2>1. receipt[watched[o].id] = Terminal(watched[o]) /\ watched[o] \in Bindings
    BY <1>1 DEF ToldInv
  <2>2. Verdict(watched[o]) # "notTerminal"
    BY <2>1 DEF Verdict, Terminal, Bindings
  <2>3. ASSUME NEW q \in Observers, NEW b \in Bindings, Observe(q, b) \/ ObserveFails(q, b)
        PROVE  watch'[p] # "notTerminal"
    <3>1. q = p /\ b = watched[o]
      BY <1>1, <2>3 DEF Observe, ObserveFails
    <3> QED
      BY <1>1, <2>2, <2>3, <3>1 DEF Observe, ObserveFails
  <2>4. ASSUME NEW q \in Observers, ObserveAgain(q)
        PROVE  watch'[p] # "notTerminal"
    <3>1. q = p /\ watched[p] = watched[o]
      BY <1>1, <2>4 DEF ObserveAgain
    <3> QED
      BY <1>1, <2>2, <2>4, <3>1 DEF ObserveAgain
  <2>5. CASE Crash
    BY <1>1, <2>5 DEF Crash
  <2>6. CASE UNCHANGED <<watch, watched>>
    BY <1>1, <2>6
  <2>7. CASE \/ \E r \in Requests : \E b \in Bindings : Claim(r, b) \/ ClaimRefused(r, b)
             \/ \E r \in Requests :
                  \/ Spawn(r) \/ CallerLeaves(r) \/ SendStatement(r) \/ EndStatement(r)
                  \/ ProvenResult(r) \/ UnprovenResult(r) \/ TaskStops(r)
                  \/ Save(r) \/ SaveFails(r)
    BY <2>6, <2>7 DEF Claim, ClaimRefused, Spawn, CallerLeaves, SendStatement,
         EndStatement, ProvenResult, UnprovenResult, TaskStops, Save, SaveFails, observers
  <2> QED
    BY <1>1, <2>3, <2>4, <2>5, <2>6, <2>7 DEF Next, vars
<1>2. IInv /\ [Next]_vars =>
        [\A o, p \in Observers :
           /\ watch[o] = "terminal"
           /\ watch'[p] # watch[p] \/ watched'[p] # watched[p]
           /\ watched'[p] = watched[o]
           => watch'[p] # "notTerminal"]_vars
  BY <1>1
<1> QED
  BY <1>2, SpecIInv, PTL DEF Spec, TerminalStays

=============================================================================
