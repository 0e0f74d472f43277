---------------------- MODULE RunningQueries_proofs ------------------------
(***************************************************************************)
(* Proofs about RunningQueries, for any number of registrations, ids,      *)
(* connections and callers.                                                *)
(***************************************************************************)
EXTENDS RunningQueries, SequenceTheorems, TLAPS

Made == 1..nextReg
Alive(r) == guard[r] \in {"held", "detached"}
Settled(r) == r \in cancelled \/ guard[r] = "gone" \/ Pending("cancel", r)
InMap(r) == inner[task[r].exec] = r
Found(r, ids) == Settled(r) \/ (InMap(r) /\ task[r].exec \in ids)

\* Nothing has happened yet to a registration that was not made.
MadeInv ==
  /\ \A r \in Regs \ Made : guard[r] = "none" /\ stmt[r] = "none" /\ todo[r] = <<>>
  /\ \A r \in Made : task[r].exec \in ExecIds /\ guard[r] # "none"
  /\ handed \subseteq Made /\ asked \subseteq Made /\ proven \subseteq Made
  /\ \A op \in Ops, r \in Regs : Pending(op, r) => r \in Made
  /\ done \subseteq Made /\ cancelled \subseteq Made /\ fired \subseteq Made

\* The map holds the latest registration of an id, until its guard is dropped; then the
\* completion of that registration may be remembered, until the next one is made.
MapInv ==
  \A e \in ExecIds :
    /\ inner[e] # NoReg =>
         inner[e] \in Made /\ task[inner[e]].exec = e /\ ~Replaced(inner[e]) /\ Alive(inner[e])
    /\ completed[e] # NoReg =>
         /\ completed[e] \in Made /\ task[completed[e]].exec = e /\ ~Replaced(completed[e])
         /\ guard[completed[e]] = "gone" /\ Tracked(completed[e])

\* Who lives is in the map, or has been displaced or cancelled.
AliveInv ==
  \A r \in Made :
    Alive(r) /\ (r \notin asked \/ (Tracked(r) /\ ~Replaced(r))) => InMap(r)

\* An entry has the pool key of a registration of its id, and its own one from the moment
\* its owner has set it.
PoolInv ==
  /\ \A r \in Made :
       /\ pool[r] # NoConn =>
            \E q \in Made : task[q].exec = task[r].exec /\ task[q].conn = pool[r]
       /\ stmt[r] \in {"pooled", "running"} /\ InMap(r) => pool[r] # NoConn
       /\ task[r].conn \in Conns /\ stmt[r] # "none"
  /\ \A r \in Regs \ Made : pool[r] = NoConn

\* Completion is published for who is not tracked, was replaced or has finished.
DoneInv ==
  /\ \A r \in Made :
       r \in done \/ Pending("complete", r) => ~Tracked(r) \/ Replaced(r) \/ guard[r] = "gone"
  /\ \A r \in proven : guard[r] = "gone" /\ stmt[r] # "running"
  /\ GoneIsSignalled

\* Who has finished, or has been told to stop; and the effects s publish completion for such
\* registrations only, or for one they cancel first.
Stopped == {r \in Regs : guard[r] = "gone" \/ r \in cancelled}
Told(s, S) ==
  \A i \in 1..Len(s) : \A r \in Regs :
    s[i] = [op |-> "complete", reg |-> r] =>
      r \in S \/ \E j \in 1..(i - 1) : s[j] = [op |-> "cancel", reg |-> r]

\* Completion is published for nobody who still works unaware.
StopInv == done \subseteq Stopped /\ \A t \in Threads : Told(todo[t], Stopped)

\* A closure is in the map, or it has been taken by somebody who has to run it.
ClosureInv ==
  /\ \A r \in Regs : interrupt[r] # NoReg =>
       /\ r \in Made /\ InMap(r) /\ interrupt[r] \in handed
       /\ task[interrupt[r]].exec = task[r].exec
       /\ interrupt[r] # r => interrupt[r] \in asked
  /\ \A r \in handed : Alone(r) /\ InMap(r) /\ r \notin asked =>
       interrupt[r] = r \/ r \in fired \/ Pending("interrupt", r)
  /\ \A r \in asked : InMap(r) => r \in cancelled
  /\ InterruptFollowsCancel

\* What a call is about; who is about to cancel, or has detached a guard, has nothing left
\* to perform.
CallInv ==
  /\ \A c \in Callers :
       /\ pc[c] \in {"subscribed", "waiting", "reading"} => req[c].id \in ExecIds
       /\ pc[c] \in {"subscribed", "waiting"} \/ req[c].cancel # "none" =>
            req[c].sub \in Made /\ task[req[c].sub].exec = req[c].id
       /\ pc[c] = "subscribed" => todo[c] = <<>>
       /\ req[c].cancel = "terminal" => req[c].sub \in done
       /\ req[c].seen \subseteq Made
  /\ \A r \in Regs : guard[r] = "detached" => todo[r] = <<>>

\* Who was found for a connection is cancelled, or is still to be.
MatchInv ==
  \A c \in Callers : \A r \in req[c].seen : Found(r, req[c].ids)

\* The inductive invariant.
IInv == TypeOK /\ MadeInv /\ MapInv /\ AliveInv /\ PoolInv /\ DoneInv /\ StopInv /\ ClosureInv
          /\ CallInv /\ MatchInv

-----------------------------------------------------------------------------
(* Effects *)

Holds(s, op, r) == \E i \in 1..Len(s) : s[i] = [op |-> op, reg |-> r]

\* No effect is added or performed.
LEMMA SamePending ==
  ASSUME UNCHANGED todo
  PROVE  \A op, r : Pending(op, r)' <=> Pending(op, r)
BY DEF Pending

\* A thread that has nothing to perform takes on the effects s.
LEMMA TakePending ==
  ASSUME TypeOK, NEW t \in Threads, todo[t] = <<>>, NEW s \in Seq(Effects),
         todo' = [todo EXCEPT ![t] = s]
  PROVE  \A op, r : Pending(op, r)' <=> Pending(op, r) \/ Holds(s, op, r)
<1>1. todo'[t] = s /\ \A u \in Threads \ {t} : todo'[u] = todo[u]
  BY DEF TypeOK
<1>2. Len(<<>>) = 0
  OBVIOUS
<1>3. ASSUME NEW op, NEW r, Pending(op, r)' PROVE Pending(op, r) \/ Holds(s, op, r)
  <2>1. PICK u \in Threads : Holds(todo'[u], op, r)
    BY <1>3 DEF Pending, Holds
  <2>2. CASE u = t
    BY <1>1, <2>1, <2>2
  <2>3. CASE u # t
    BY <1>1, <2>1, <2>3 DEF Pending, Holds
  <2> QED
    BY <2>2, <2>3
<1>4. ASSUME NEW op, NEW r, Pending(op, r) PROVE Pending(op, r)'
  <2>1. PICK u \in Threads : Holds(todo[u], op, r)
    BY <1>4 DEF Pending, Holds
  <2>2. u # t
    BY <1>2, <2>1 DEF Holds
  <2> QED
    BY <1>1, <2>1, <2>2 DEF Pending, Holds
<1>5. ASSUME NEW op, NEW r, Holds(s, op, r) PROVE Pending(op, r)'
  BY <1>1, <1>5 DEF Pending, Holds
<1> QED
  BY <1>3, <1>4, <1>5

\* A thread performs the first of its effects.
LEMMA PerformPending ==
  ASSUME TypeOK, NEW t \in Threads, todo[t] # <<>>,
         todo' = [todo EXCEPT ![t] = Tail(@)], NEW f, f = Head(todo[t])
  PROVE  /\ f \in Effects /\ Pending(f.op, f.reg)
         /\ \A op, r : Pending(op, r)' => Pending(op, r)
         /\ \A op, r : Pending(op, r) => Pending(op, r)' \/ (f.op = op /\ f.reg = r)
<1>1. todo'[t] = Tail(todo[t]) /\ \A u \in Threads \ {t} : todo'[u] = todo[u]
  BY DEF TypeOK
<1>2. todo[t] \in Seq(Effects) /\ Len(todo[t]) # 0
  BY DEF TypeOK
<1>3. f = todo[t][1] /\ f \in Effects /\ f = [op |-> f.op, reg |-> f.reg]
  <2>1. f = todo[t][1] /\ f \in Effects
    BY <1>2
  <2>2. f = [op |-> f.op, reg |-> f.reg]
    BY <2>1 DEF Effects
  <2> QED
    BY <2>1, <2>2
<1>4. Pending(f.op, f.reg)
  BY <1>2, <1>3 DEF Pending
<1>5. Len(Tail(todo[t])) = Len(todo[t]) - 1
      /\ \A i \in 1..Len(Tail(todo[t])) : Tail(todo[t])[i] = todo[t][i + 1]
  BY <1>2
<1>6. ASSUME NEW op, NEW r, Pending(op, r)' PROVE Pending(op, r)
  <2>1. PICK u \in Threads : Holds(todo'[u], op, r)
    BY <1>6 DEF Pending, Holds
  <2>2. CASE u = t
    <3>1. PICK i \in 1..Len(Tail(todo[t])) : Tail(todo[t])[i] = [op |-> op, reg |-> r]
      BY <1>1, <2>1, <2>2 DEF Holds
    <3>2. i + 1 \in 1..Len(todo[t]) /\ todo[t][i + 1] = [op |-> op, reg |-> r]
      BY <1>2, <1>5, <3>1
    <3> QED
      BY <3>2 DEF Pending
  <2>3. CASE u # t
    BY <1>1, <2>1, <2>3 DEF Pending, Holds
  <2> QED
    BY <2>2, <2>3
<1>7. ASSUME NEW op, NEW r, Pending(op, r) PROVE Pending(op, r)' \/ (f.op = op /\ f.reg = r)
  <2>1. PICK u \in Threads : Holds(todo[u], op, r)
    BY <1>7 DEF Pending, Holds
  <2>2. CASE u = t
    <3>1. PICK i \in 1..Len(todo[t]) : todo[t][i] = [op |-> op, reg |-> r]
      BY <2>1, <2>2 DEF Holds
    <3>2. CASE i = 1
      BY <1>3, <3>1, <3>2
    <3>3. CASE i # 1
      <4>1. i - 1 \in 1..Len(Tail(todo[t])) /\ Tail(todo[t])[i - 1] = [op |-> op, reg |-> r]
        BY <1>2, <1>5, <3>1, <3>3
      <4> QED
        BY <1>1, <4>1 DEF Pending
    <3> QED
      BY <3>2, <3>3
  <2>3. CASE u # t
    BY <1>1, <2>1, <2>3 DEF Pending, Holds
  <2> QED
    BY <2>2, <2>3
<1> QED
  BY <1>3, <1>4, <1>6, <1>7

\* No effect, a single one, and the effects of two sequences.
LEMMA OneEffect ==
  ASSUME NEW op \in Ops, NEW r \in Regs
  PROVE  /\ <<>> \in Seq(Effects) /\ <<[op |-> op, reg |-> r]>> \in Seq(Effects)
         /\ \A o, q : ~Holds(<<>>, o, q)
         /\ \A o, q : Holds(<<[op |-> op, reg |-> r]>>, o, q) <=> o = op /\ q = r
<1>1. [op |-> op, reg |-> r] \in Effects
  BY DEF Effects
<1>2. \A o, q : [op |-> op, reg |-> r] = [op |-> o, reg |-> q] <=> o = op /\ q = r
  OBVIOUS
<1> QED
  BY <1>1, <1>2 DEF Holds

LEMMA BothEffects ==
  ASSUME NEW s \in Seq(Effects), NEW t \in Seq(Effects)
  PROVE  /\ s \o t \in Seq(Effects)
         /\ \A op, r : Holds(s \o t, op, r) <=> Holds(s, op, r) \/ Holds(t, op, r)
<1>1. /\ s \o t \in Seq(Effects) /\ Len(s \o t) = Len(s) + Len(t)
      /\ \A i \in 1 .. Len(s) + Len(t) :
           (s \o t)[i] = IF i <= Len(s) THEN s[i] ELSE t[i - Len(s)]
      /\ Len(s) \in Nat /\ Len(t) \in Nat
  BY ConcatProperties
<1>2. ASSUME NEW op, NEW r, Holds(s \o t, op, r) PROVE Holds(s, op, r) \/ Holds(t, op, r)
  <2>1. PICK i \in 1..Len(s) + Len(t) : (s \o t)[i] = [op |-> op, reg |-> r]
    BY <1>1, <1>2 DEF Holds
  <2>2. i <= Len(s) \/ i - Len(s) \in 1..Len(t)
    BY <1>1, <2>1
  <2> QED
    BY <1>1, <2>1, <2>2 DEF Holds
<1>3. ASSUME NEW op, NEW r, Holds(s, op, r) PROVE Holds(s \o t, op, r)
  BY <1>1, <1>3 DEF Holds
<1>4. ASSUME NEW op, NEW r, Holds(t, op, r) PROVE Holds(s \o t, op, r)
  <2>1. PICK i \in 1..Len(t) : t[i] = [op |-> op, reg |-> r]
    BY <1>4 DEF Holds
  <2>2. i + Len(s) \in 1..Len(s) + Len(t) /\ (s \o t)[i + Len(s)] = t[i]
    BY <1>1, <2>1
  <2> QED
    BY <1>1, <2>1, <2>2 DEF Holds
<1> QED
  BY <1>1, <1>2, <1>3, <1>4

\* Taking the closure of r.
LEMMA InterruptEffects ==
  ASSUME TypeOK, NEW r \in Regs
  PROVE  /\ InterruptTail(r) \in Seq(Effects)
         /\ \A op, q : Holds(InterruptTail(r), op, q) <=>
              op = "interrupt" /\ q = interrupt[r] /\ q # NoReg
<1>1. "interrupt" \in Ops /\ (interrupt[r] # NoReg => interrupt[r] \in Regs)
  BY DEF Ops, TypeOK
<1>2. CASE interrupt[r] = NoReg
  <2>1. InterruptTail(r) = <<>>
    BY <1>2 DEF InterruptTail
  <2>2. <<>> \in Seq(Effects) /\ \A op, q : ~Holds(<<>>, op, q)
    BY <1>1, OneEffect
  <2> QED
    BY <1>2, <2>1, <2>2
<1>3. CASE interrupt[r] # NoReg
  <2>1. InterruptTail(r) = <<[op |-> "interrupt", reg |-> interrupt[r]]>>
    BY <1>3 DEF InterruptTail
  <2> QED
    BY <1>1, <1>3, <2>1, OneEffect
<1> QED
  BY <1>2, <1>3

\* The effects a displaced registration r leaves behind.
LEMMA DisplacedEffects ==
  ASSUME TypeOK, NEW r \in Regs
  PROVE  /\ DisplacedTail(r) \in Seq(Effects)
         /\ \A op, q : Holds(DisplacedTail(r), op, q) <=>
              \/ op \in {"cancel", "complete"} /\ q = r
              \/ op = "interrupt" /\ q = interrupt[r] /\ q # NoReg
<1> DEFINE two == <<[op |-> "cancel", reg |-> r], [op |-> "complete", reg |-> r]>>
<1>1. DisplacedTail(r) = two \o InterruptTail(r)
  BY DEF DisplacedTail, Regs, NoReg
<1>2. two \in Seq(Effects)
  BY DEF Effects, Ops
<1>3. \A op, q : Holds(two, op, q) <=> op \in {"cancel", "complete"} /\ q = r
  <2>1. \A o, op, q : [op |-> o, reg |-> r] = [op |-> op, reg |-> q] <=> o = op /\ q = r
    OBVIOUS
  <2>2. Len(two) = 2 /\ two[1] = [op |-> "cancel", reg |-> r]
        /\ two[2] = [op |-> "complete", reg |-> r]
    OBVIOUS
  <2>3. \A op, q : Holds(two, op, q) <=> \E i \in {1, 2} : two[i] = [op |-> op, reg |-> q]
    BY <2>2 DEF Holds
  <2> HIDE DEF two
  <2> QED
    BY <2>1, <2>2, <2>3
<1> HIDE DEF two
<1> QED
  BY <1>1, <1>2, <1>3, InterruptEffects, BothEffects

\* The effects of a cancel that finds the registration r.
LEMMA CancelEffects ==
  ASSUME TypeOK, NEW r \in Regs
  PROVE  /\ CancelTail(r) \in Seq(Effects)
         /\ \A op, q : Holds(CancelTail(r), op, q) <=>
              \/ op = "interrupt" /\ q = interrupt[r] /\ q # NoReg
              \/ op = "complete" /\ q = r /\ ~Tracked(r)
<1> DEFINE last == IF Tracked(r) THEN <<>> ELSE <<[op |-> "complete", reg |-> r]>>
<1>1. /\ last \in Seq(Effects)
      /\ \A op, q : Holds(last, op, q) <=> op = "complete" /\ q = r /\ ~Tracked(r)
  BY OneEffect DEF Ops
<1>2. CancelTail(r) = InterruptTail(r) \o last
  BY DEF CancelTail
<1> HIDE DEF last
<1> QED
  BY <1>1, <1>2, InterruptEffects, BothEffects

-----------------------------------------------------------------------------
(* Steps of the registry *)

\* A guard is dropped, by its owner or by the grace timer.
Drops(r) ==
  /\ Alive(r) /\ todo[r] = <<>>
  /\ guard' = [guard EXCEPT ![r] = "gone"]
  /\ proven' = proven \/ (ResultProves(r) /\ proven' = proven \cup {r})
  /\ Remove(r)
  /\ UNCHANGED <<nextReg, task, pool, flags, stmt, handed, ghosts>>

\* A caller cancels the entry of e.
Cancels(c, e) ==
  /\ todo[c] = <<>>
  /\ CancelEntry(e, c)
  /\ UNCHANGED <<completed, nextReg, task, pool, done, owners, fired>>

Quiet == UNCHANGED <<registry, owners, ghosts, todo>>

RegistryStep ==
  \/ \E e \in ExecIds, k \in Kinds, n \in Conns : Register(e, k, n)
  \/ \E r \in Regs : SetPoolKey(r) \/ RegisterInterrupt(r) \/ StartStatement(r)
                      \/ EndStatement(r) \/ Detach(r) \/ Drops(r)
  \/ \E t \in Threads : Perform(t)
  \/ \E c \in Callers, e \in ExecIds : Cancels(c, e)
  \/ \E n \in Conns : CancelLifecycle(n)
  \/ \E e \in ExecIds : ForgetCompleted(e)
  \/ Quiet

\* Who was settled stays so, and who leaves the map is settled, or was cancelled.
StaysSettled ==
  \A r \in Made : (Settled(r) => Settled(r)') /\ (InMap(r) => InMap(r)' \/ Settled(r)')

\* What a caller does to the registry is to cancel an entry, or nothing.
LEMMA CallerIsRegistryStep ==
  ASSUME IInv, NEW c \in Callers, CallerStep(c)
  PROVE  Quiet \/ \E e \in ExecIds : Cancels(c, e)
<1>1. ASSUME NEW e \in ExecIds, Cancel(c, e) PROVE Cancels(c, e)
  BY <1>1 DEF Cancel, Cancels
<1>2. ASSUME CancelSubscribed(c) PROVE Quiet \/ \E e \in ExecIds : Cancels(c, e)
  <2>1. req[c].id \in ExecIds /\ todo[c] = <<>>
    BY <1>2 DEF CancelSubscribed, IInv, CallInv
  <2>2. CASE CancelEntry(req[c].id, c)
    BY <1>2, <2>1, <2>2 DEF CancelSubscribed, Cancels
  <2>3. CASE NothingToCancel(req[c].id)
    BY <1>2, <2>3 DEF CancelSubscribed, NothingToCancel, Quiet, registry, map, flags, ghosts
  <2> QED
    BY <1>2, <2>2, <2>3 DEF CancelSubscribed
<1>3. ASSUME NEW e \in ExecIds, CancelMatching(c, e) PROVE Quiet \/ Cancels(c, e)
  <2>1. CASE CancelEntry(e, c)
    BY <1>3, <2>1 DEF CancelMatching, Cancels
  <2>2. CASE NothingToCancel(e)
    BY <1>3, <2>2 DEF CancelMatching, NothingToCancel, Quiet, registry, map, flags, ghosts
  <2> QED
    BY <1>3, <2>1, <2>2 DEF CancelMatching
<1>4. ASSUME NEW e \in ExecIds, NEW cancel \in BOOLEAN, Subscribe(c, e, cancel) PROVE Quiet
  BY <1>4 DEF Subscribe, Quiet
<1>5. ASSUME NEW terminal \in BOOLEAN, WaitEnds(c, terminal) PROVE Quiet
  BY <1>5 DEF WaitEnds, Quiet
<1>6. ASSUME ReadCompleted(c) \/ MatchingDone(c) PROVE Quiet
  BY <1>6 DEF ReadCompleted, MatchingDone, Quiet
<1>7. ASSUME NEW n \in Conns, CollectMatching(c, n) PROVE Quiet
  BY <1>7 DEF CollectMatching, Quiet
<1> QED
  BY <1>1, <1>2, <1>3, <1>4, <1>5, <1>6, <1>7 DEF CallerStep

\* Owners and grace timers drop guards.
LEMMA DropsGuard ==
  ASSUME IInv, NEW r \in Regs, GraceOver(r) \/ \E terminal \in BOOLEAN : Finish(r, terminal)
  PROVE  Drops(r) /\ UNCHANGED <<pc, req>>
<1>1. ASSUME NEW terminal \in BOOLEAN, Finish(r, terminal) PROVE Drops(r) /\ UNCHANGED <<pc, req>>
  BY <1>1 DEF Finish, Drops, Alive, callers
<1>2. ASSUME GraceOver(r) PROVE Drops(r) /\ UNCHANGED <<pc, req>>
  BY <1>2 DEF GraceOver, Drops, Alive, IInv, CallInv, callers
<1> QED
  BY <1>1, <1>2

\* Every step is one of them, as far as the registry goes.
LEMMA EveryStep ==
  ASSUME IInv, [Next]_vars
  PROVE  RegistryStep
<1>1. ASSUME NEW r \in Regs, OwnerStep(r) PROVE RegistryStep
  BY <1>1, DropsGuard DEF OwnerStep, RegistryStep
<1>2. ASSUME UNCHANGED vars PROVE RegistryStep
  BY <1>2 DEF vars, RegistryStep, Quiet, registry, map, flags, owners, ghosts
<1> QED
  BY <1>1, <1>2, CallerIsRegistryStep DEF Next, RegistryStep

-----------------------------------------------------------------------------
(* What steps do to the effects and to the registrations *)

LEMMA MadeAreRegs ==
  ASSUME TypeOK
  PROVE  Made \subseteq Regs /\ NoReg \notin Regs
BY RegistryAssumption DEF TypeOK, Made, Regs, NoReg

\* Nothing is registered: the registrations remain what they are.
LEMMA SameTasks ==
  ASSUME UNCHANGED <<nextReg, task>>
  PROVE  /\ Made' = Made
         /\ \A r : /\ Replaced(r)' <=> Replaced(r)
                   /\ Alone(r)' <=> Alone(r)
                   /\ Tracked(r)' <=> Tracked(r)
BY DEF Made, Replaced, Alone, Tracked

\* The new registration, and what it makes of those with its id.
LEMMA RegisterTasks ==
  ASSUME IInv, NEW e \in ExecIds, NEW k \in Kinds, NEW n \in Conns, Register(e, k, n),
         NEW new, new = nextReg + 1
  PROVE  /\ new \in Regs /\ new \notin Made /\ Made' = Made \cup {new}
         /\ task'[new] = [exec |-> e, kind |-> k, conn |-> n]
         /\ ~Replaced(new)'
         /\ \A r \in Made : /\ task'[r] = task[r]
                            /\ Replaced(r)' <=> Replaced(r) \/ task[r].exec = e
                            /\ Alone(r)' => Alone(r) /\ task[r].exec # e
                            /\ Tracked(r)' <=> Tracked(r)
<1>1. /\ new \in Regs /\ nextReg' = new /\ nextReg \in Nat /\ MaxReg \in Nat
      /\ task' = [task EXCEPT ![new] = [exec |-> e, kind |-> k, conn |-> n]]
      /\ task \in [Regs -> Task]
  BY RegistryAssumption DEF Register, IInv, TypeOK
<1>2. new \notin Made /\ Made' = Made \cup {new} /\ Made \subseteq Regs
  BY <1>1 DEF Made, Regs
<1>3. task'[new] = [exec |-> e, kind |-> k, conn |-> n] /\ task'[new].exec = e
      /\ \A r \in Made : task'[r] = task[r]
  BY <1>1, <1>2
<1>4. ~Replaced(new)'
  BY <1>1 DEF Replaced, Regs
<1>5. ASSUME NEW r \in Made PROVE Replaced(r)' <=> Replaced(r) \/ task[r].exec = e
  <2>1. r \in Nat /\ r < new /\ r \in Regs
    BY <1>1, <1>2 DEF Made
  <2>2. \A q \in Regs : q > r /\ q <= new <=> q = new \/ (q > r /\ q <= nextReg)
    BY <1>1, <2>1 DEF Regs
  <2>3. \A q \in Regs : q # new => task'[q] = task[q]
    BY <1>1
  <2> QED
    BY <1>1, <1>3, <2>1, <2>2, <2>3 DEF Replaced
<1>6. ASSUME NEW r \in Made PROVE Alone(r)' => Alone(r) /\ task[r].exec # e
  BY <1>1, <1>2, <1>3 DEF Alone, Made
<1>7. ASSUME NEW r \in Made PROVE Tracked(r)' <=> Tracked(r)
  BY <1>3 DEF Tracked
<1> QED
  BY <1>1, <1>2, <1>3, <1>4, <1>5, <1>6, <1>7

\* A registration takes on the effects for the one it displaces.
LEMMA RegisterPending ==
  ASSUME IInv, NEW e \in ExecIds, NEW k \in Kinds, NEW n \in Conns, Register(e, k, n)
  PROVE  /\ todo' \in [Threads -> Seq(Effects)]
         /\ \A op, q : Pending(op, q)' <=>
              \/ Pending(op, q)
              \/ /\ inner[e] # NoReg
                 /\ \/ op \in {"cancel", "complete"} /\ q = inner[e]
                    \/ op = "interrupt" /\ q = interrupt[inner[e]] /\ q # NoReg
<1> DEFINE new == nextReg + 1
           s == DisplacedTail(inner[e])
<1>1. new \in Regs /\ new \notin Made /\ todo' = [todo EXCEPT ![new] = s]
  BY RegisterTasks DEF Register
<1>2. TypeOK /\ new \in Threads /\ todo[new] = <<>> /\ todo \in [Threads -> Seq(Effects)]
  BY <1>1 DEF IInv, TypeOK, MadeInv, Threads
<1>3. CASE inner[e] = NoReg
  <2>1. s = <<>>
    BY <1>3 DEF DisplacedTail
  <2>2. \A op, q : ~Holds(s, op, q)
    BY <2>1 DEF Holds
  <2>3. s \in Seq(Effects)
    BY <2>1
  <2> HIDE DEF s, new
  <2> QED
    BY <1>1, <1>2, <1>3, <2>2, <2>3, TakePending
<1>4. CASE inner[e] # NoReg
  <2>1. inner[e] \in Regs
    BY <1>4 DEF IInv, TypeOK
  <2>2. /\ s \in Seq(Effects)
        /\ \A op, q : Holds(s, op, q) <=>
             \/ op \in {"cancel", "complete"} /\ q = inner[e]
             \/ op = "interrupt" /\ q = interrupt[inner[e]] /\ q # NoReg
    BY <1>2, <2>1, DisplacedEffects
  <2> HIDE DEF s, new
  <2> QED
    BY <1>1, <1>2, <1>4, <2>2, TakePending
<1> QED
  BY <1>3, <1>4

\* An owner that hands over its closure runs it itself or leaves it in the map.
LEMMA InterruptPending ==
  ASSUME IInv, NEW r \in Regs, RegisterInterrupt(r), NEW q, q = inner[task[r].exec]
  PROVE  /\ todo' \in [Threads -> Seq(Effects)]
         /\ \/ /\ q # NoReg /\ q \notin cancelled
               /\ interrupt' = [interrupt EXCEPT ![q] = r]
               /\ UNCHANGED todo
            \/ /\ q = NoReg \/ q \in cancelled
               /\ UNCHANGED interrupt
               /\ \A op, p : Pending(op, p)' <=> Pending(op, p) \/ (op = "interrupt" /\ p = r)
<1>1. TypeOK /\ r \in Threads /\ todo[r] = <<>> /\ todo \in [Threads -> Seq(Effects)]
  BY DEF RegisterInterrupt, IInv, TypeOK, Threads
<1>2. CASE q # NoReg /\ q \notin cancelled
  BY <1>1, <1>2 DEF RegisterInterrupt
<1>3. CASE q = NoReg \/ q \in cancelled
  <2>1. UNCHANGED interrupt /\ todo' = [todo EXCEPT ![r] = <<[op |-> "interrupt", reg |-> r]>>]
    BY <1>3 DEF RegisterInterrupt
  <2>2. LET s == <<[op |-> "interrupt", reg |-> r]>>
        IN  s \in Seq(Effects) /\ \A op, p : Holds(s, op, p) <=> op = "interrupt" /\ p = r
    BY OneEffect DEF Ops
  <2> QED
    BY <1>1, <1>3, <2>1, <2>2, TakePending
<1> QED
  BY <1>2, <1>3

\* Who drops its guard completes the entry it takes out of the map.
LEMMA DropPending ==
  ASSUME IInv, NEW r \in Regs, Drops(r)
  PROVE  /\ todo' \in [Threads -> Seq(Effects)]
         /\ \A op, q : Pending(op, q)' <=>
              Pending(op, q) \/ (op = "complete" /\ q = r /\ InMap(r))
<1>1. TypeOK /\ r \in Threads /\ todo[r] = <<>> /\ todo \in [Threads -> Seq(Effects)]
  BY DEF Drops, IInv, TypeOK, Threads
<1>2. LET s == <<[op |-> "complete", reg |-> r]>>
      IN  s \in Seq(Effects) /\ \A op, p : Holds(s, op, p) <=> op = "complete" /\ p = r
  BY OneEffect DEF Ops
<1>3. CASE InMap(r)
  <2>1. todo' = [todo EXCEPT ![r] = <<[op |-> "complete", reg |-> r]>>]
    BY <1>3 DEF Drops, Remove, InMap
  <2>2. todo' \in [Threads -> Seq(Effects)]
    BY <1>1, <1>2, <2>1
  <2>3. \A op, q : Pending(op, q)' <=> Pending(op, q) \/ (op = "complete" /\ q = r)
    BY <1>1, <1>2, <2>1, TakePending
  <2> QED
    BY <1>3, <2>2, <2>3
<1>4. CASE ~InMap(r)
  <2>1. UNCHANGED todo
    BY <1>1, <1>4 DEF Drops, Remove, InMap
  <2> QED
    BY <1>1, <1>4, <2>1, SamePending
<1> QED
  BY <1>3, <1>4

\* Who cancels an entry has its closure to run and, if it took the entry out of the map, its
\* completion to publish.
LEMMA CancelPending ==
  ASSUME IInv, NEW c \in Callers, NEW e \in ExecIds, Cancels(c, e), NEW r, r = inner[e]
  PROVE  /\ r \in Regs /\ todo' \in [Threads -> Seq(Effects)]
         /\ \A op, q : Pending(op, q)' <=>
              \/ Pending(op, q)
              \/ op = "interrupt" /\ q = interrupt[r] /\ q # NoReg
              \/ op = "complete" /\ q = r /\ ~Tracked(r)
<1>1. r \in Regs /\ todo' = [todo EXCEPT ![c] = CancelTail(r)]
  BY DEF Cancels, CancelEntry, IInv, TypeOK
<1>2. TypeOK /\ c \in Threads /\ todo[c] = <<>> /\ todo \in [Threads -> Seq(Effects)]
  BY DEF Cancels, IInv, TypeOK, Threads
<1>3. /\ CancelTail(r) \in Seq(Effects)
      /\ \A op, q : Holds(CancelTail(r), op, q) <=>
           \/ op = "interrupt" /\ q = interrupt[r] /\ q # NoReg
           \/ op = "complete" /\ q = r /\ ~Tracked(r)
  BY <1>1, <1>2, CancelEffects
<1>4. todo' \in [Threads -> Seq(Effects)]
  BY <1>1, <1>2, <1>3
<1>5. \A op, q : Pending(op, q)' <=> Pending(op, q) \/ Holds(CancelTail(r), op, q)
  BY <1>1, <1>2, <1>3, TakePending
<1> QED
  BY <1>1, <1>3, <1>4, <1>5

\* A registration, variable by variable.
LEMMA RegisterStep ==
  ASSUME IInv, NEW e \in ExecIds, NEW k \in Kinds, NEW n \in Conns, Register(e, k, n),
         NEW new, new = nextReg + 1, NEW previous, previous = inner[e]
  PROVE  /\ inner'[e] = new /\ \A x \in ExecIds \ {e} : inner'[x] = inner[x]
         /\ completed'[e] = NoReg /\ \A x \in ExecIds \ {e} : completed'[x] = completed[x]
         /\ guard'[new] = "held" /\ stmt'[new] = "idle"
         /\ \A r \in Made : guard'[r] = guard[r] /\ stmt'[r] = stmt[r]
         /\ \A r \in Regs : r # new => guard'[r] = guard[r] /\ stmt'[r] = stmt[r]
         /\ \A t \in Threads : t # new => todo'[t] = todo[t]
         /\ \A r \in Regs : interrupt'[r] = IF r = previous THEN NoReg ELSE interrupt[r]
         /\ asked' = asked \cup ({previous} \cap Regs)
         /\ UNCHANGED <<pool, cancelled, done, proven, handed, fired, pc, req>>
<1>1. new \in Regs /\ new \notin Made /\ Made \subseteq Regs
  BY RegisterTasks, MadeAreRegs DEF IInv
<1>2. /\ inner' = [inner EXCEPT ![e] = new]
      /\ completed' = [completed EXCEPT ![e] = NoReg]
      /\ guard' = [guard EXCEPT ![new] = "held"]
      /\ stmt' = [stmt EXCEPT ![new] = "idle"]
      /\ interrupt' = [r \in Regs |-> IF r = previous THEN NoReg ELSE interrupt[r]]
      /\ asked' = asked \cup ({previous} \cap Regs)
      /\ todo' = [todo EXCEPT ![new] = DisplacedTail(previous)]
      /\ UNCHANGED <<pool, cancelled, done, proven, handed, fired, pc, req>>
  BY DEF Register, flags, callers
<1>3. /\ inner \in [ExecIds -> Regs \cup {NoReg}] /\ completed \in [ExecIds -> Regs \cup {NoReg}]
      /\ guard \in [Regs -> GuardStates] /\ stmt \in [Regs -> StmtStates]
      /\ todo \in [Threads -> Seq(Effects)]
  BY DEF IInv, TypeOK
<1> QED
  BY <1>1, <1>2, <1>3

\* Dropping a guard, variable by variable.
LEMMA DropStep ==
  ASSUME IInv, NEW r \in Regs, Drops(r)
  PROVE  /\ r \in Made /\ Alive(r)
         /\ guard'[r] = "gone" /\ \A q \in Regs \ {r} : guard'[q] = guard[q]
         /\ \A x \in ExecIds : inner'[x] = IF inner[x] = r THEN NoReg ELSE inner[x]
         /\ \A x \in ExecIds : completed'[x] = IF inner[x] = r /\ Tracked(r) THEN r
                                               ELSE completed[x]
         /\ interrupt'[r] = NoReg /\ \A q \in Regs \ {r} : interrupt'[q] = interrupt[q]
         /\ \A t \in Threads \ {r} : todo'[t] = todo[t]
         /\ proven' = proven \/ (ResultProves(r) /\ proven' = proven \cup {r})
         /\ UNCHANGED <<nextReg, task, pool, cancelled, done, stmt, handed, fired, asked>>
<1>1. r \in Made /\ Alive(r) /\ task[r].exec \in ExecIds
  BY DEF Drops, Alive, IInv, MadeInv
<1>2. /\ inner' = [inner EXCEPT ![task[r].exec] = IF InMap(r) THEN NoReg ELSE @]
      /\ completed' = [completed EXCEPT ![task[r].exec] = IF InMap(r) /\ Tracked(r) THEN r ELSE @]
      /\ interrupt' = [interrupt EXCEPT ![r] = IF InMap(r) THEN NoReg ELSE @]
      /\ guard' = [guard EXCEPT ![r] = "gone"]
      /\ \E s : todo' = [todo EXCEPT ![r] = s]
      /\ proven' = proven \/ (ResultProves(r) /\ proven' = proven \cup {r})
      /\ UNCHANGED <<nextReg, task, pool, cancelled, done, stmt, handed, fired, asked>>
  BY DEF Drops, Remove, InMap, flags, ghosts
<1>3. /\ inner \in [ExecIds -> Regs \cup {NoReg}] /\ completed \in [ExecIds -> Regs \cup {NoReg}]
      /\ guard \in [Regs -> GuardStates] /\ todo \in [Threads -> Seq(Effects)]
      /\ interrupt \in [Regs -> Regs \cup {NoReg}] /\ NoReg \notin Regs
  BY MadeAreRegs DEF IInv, TypeOK
<1>4. \A x \in ExecIds : inner[x] = r <=> x = task[r].exec /\ InMap(r)
  BY <1>3 DEF InMap, IInv, MapInv
<1>5. ~InMap(r) => interrupt[r] = NoReg
  BY DEF IInv, ClosureInv
<1> QED
  BY <1>1, <1>2, <1>3, <1>4, <1>5

\* Cancelling an entry, variable by variable.
LEMMA CancelStep ==
  ASSUME IInv, NEW c \in Callers, NEW e \in ExecIds, Cancels(c, e), NEW r, r = inner[e]
  PROVE  /\ r \in Made /\ r \in Regs /\ task[r].exec = e /\ InMap(r)
         /\ inner'[e] = IF Tracked(r) THEN r ELSE NoReg
         /\ \A x \in ExecIds \ {e} : inner'[x] = inner[x]
         /\ interrupt'[r] = NoReg /\ \A q \in Regs \ {r} : interrupt'[q] = interrupt[q]
         /\ \A t \in Threads \ {c} : todo'[t] = todo[t]
         /\ cancelled' = cancelled \cup {r} /\ asked' = asked \cup {r}
         /\ UNCHANGED <<completed, nextReg, task, pool, done, guard, proven, stmt, handed, fired>>
<1>1. /\ r # NoReg
      /\ inner' = [inner EXCEPT ![e] = IF Tracked(r) THEN @ ELSE NoReg]
      /\ interrupt' = [interrupt EXCEPT ![r] = NoReg]
      /\ \E s : todo' = [todo EXCEPT ![c] = s]
      /\ cancelled' = cancelled \cup {r} /\ asked' = asked \cup {r}
      /\ UNCHANGED <<completed, nextReg, task, pool, done, guard, proven, stmt, handed, fired>>
  BY DEF Cancels, CancelEntry, owners
<1>2. /\ inner \in [ExecIds -> Regs \cup {NoReg}]
      /\ todo \in [Threads -> Seq(Effects)]
      /\ interrupt \in [Regs -> Regs \cup {NoReg}] /\ NoReg \notin Regs
  BY MadeAreRegs DEF IInv, TypeOK
<1>3. r \in Made /\ r \in Regs /\ task[r].exec = e /\ InMap(r)
  BY <1>1, <1>2 DEF IInv, MapInv, InMap
<1> QED
  BY <1>1, <1>2, <1>3

\* A thread performs an effect of a registration that was made.
LEMMA PerformEffect ==
  ASSUME IInv, NEW t \in Threads, Perform(t), NEW f, f = Head(todo[t])
  PROVE  /\ todo' \in [Threads -> Seq(Effects)]
         /\ f.op \in Ops /\ f.reg \in Regs /\ Pending(f.op, f.reg)
         /\ \A op, r : Pending(op, r)' => Pending(op, r)
         /\ \A op, r : Pending(op, r) => Pending(op, r)' \/ (f.op = op /\ f.reg = r)
<1>1. TypeOK /\ todo[t] # <<>> /\ todo' = [todo EXCEPT ![t] = Tail(@)]
  BY DEF Perform, IInv
<1>2. todo' \in [Threads -> Seq(Effects)]
  BY <1>1 DEF TypeOK
<1> QED
  BY <1>1, <1>2, PerformPending DEF Effects

\* Performing an effect, variable by variable.
LEMMA PerformStep ==
  ASSUME IInv, NEW t \in Threads, Perform(t), NEW f, f = Head(todo[t])
  PROVE  /\ cancelled' = IF f.op = "cancel" THEN cancelled \cup {f.reg} ELSE cancelled
         /\ done' = IF f.op = "complete" THEN done \cup {f.reg} ELSE done
         /\ fired' = IF f.op = "interrupt" THEN fired \cup {f.reg} ELSE fired
         /\ \A u \in Threads : todo[u] = <<>> => todo'[u] = <<>>
         /\ UNCHANGED <<inner, completed, nextReg, task, interrupt, pool, guard, proven, stmt,
                        handed, asked, pc, req>>
BY DEF Perform, IInv, TypeOK, map, owners, callers

-----------------------------------------------------------------------------
(* Preservation *)

\* Only what was made is touched.
LEMMA MadeStep ==
  ASSUME IInv, RegistryStep
  PROVE  MadeInv'
<1>1. ASSUME NEW e \in ExecIds, NEW k \in Kinds, NEW n \in Conns, Register(e, k, n)
      PROVE  MadeInv'
  <2>0. PICK new, previous : new = nextReg + 1 /\ previous = inner[e]
    OBVIOUS
  <2>1. /\ new \in Regs /\ new \notin Made /\ Made' = Made \cup {new} /\ Made \subseteq Regs
        /\ task'[new] = [exec |-> e, kind |-> k, conn |-> n] /\ ~Replaced(new)'
        /\ \A r \in Made : task'[r] = task[r] /\ (Tracked(r)' <=> Tracked(r))
        /\ \A r \in Made : Replaced(r)' <=> Replaced(r) \/ task[r].exec = e
    BY <1>1, <2>0, RegisterTasks, MadeAreRegs DEF IInv
  <2>2. /\ guard'[new] = "held"
        /\ \A r \in Regs : r # new => guard'[r] = guard[r] /\ stmt'[r] = stmt[r]
        /\ \A t \in Threads : t # new => todo'[t] = todo[t]
        /\ asked' = asked \cup ({previous} \cap Regs)
        /\ UNCHANGED <<cancelled, done, proven, handed, fired>>
    BY <1>1, <2>0, RegisterStep
  <2>3. \A op, q : Pending(op, q)' <=>
          \/ Pending(op, q)
          \/ /\ previous # NoReg
             /\ \/ op \in {"cancel", "complete"} /\ q = previous
                \/ op = "interrupt" /\ q = interrupt[previous] /\ q # NoReg
    BY <1>1, <2>0, RegisterPending
  <2>4. previous # NoReg => previous \in Made
    BY <2>0 DEF IInv, MapInv
  <2>5. \A r \in Regs : interrupt[r] # NoReg => interrupt[r] \in Made
    BY DEF IInv, ClosureInv, MadeInv
  <2>6. ASSUME NEW op \in Ops, NEW q \in Regs, Pending(op, q)' PROVE q \in Made
    BY <2>1, <2>3, <2>4, <2>5, <2>6 DEF IInv, MadeInv
  <2>7. task'[new].exec \in ExecIds /\ \A r \in Made : task'[r].exec \in ExecIds
    BY <2>1 DEF IInv, MadeInv
  <2>8. asked' \subseteq Made
    BY <2>2, <2>4, MadeAreRegs DEF IInv, MadeInv
  <2>9. ASSUME NEW r \in Regs, r # new, r \notin Made
        PROVE  guard'[r] = "none" /\ stmt'[r] = "none" /\ todo'[r] = <<>>
    BY <2>2, <2>9 DEF IInv, MadeInv, Threads
  <2>10. ASSUME NEW r \in Made PROVE guard'[r] # "none"
    BY <2>1, <2>2 DEF IInv, MadeInv
  <2> QED
    BY <2>1, <2>2, <2>6, <2>7, <2>8, <2>9, <2>10 DEF MadeInv, IInv
<1>2. ASSUME NEW r \in Regs, SetPoolKey(r)
      PROVE  MadeInv'
  BY <1>2, MadeAreRegs, SameTasks, SamePending DEF IInv, TypeOK, MadeInv, MapInv,
      ClosureInv, SetPoolKey, map, flags, ghosts
<1>3. ASSUME NEW r \in Regs, RegisterInterrupt(r)
      PROVE  MadeInv'

  <2>1. /\ guard[r] = "held" /\ handed' = handed \cup {r}
        /\ UNCHANGED <<nextReg, task, guard, stmt, asked, proven, done, cancelled, fired>>
    BY <1>3 DEF RegisterInterrupt, map, flags, ghosts
  <2>2. r \in Made /\ Made' = Made
    BY <2>1, SameTasks DEF IInv, MadeInv
  <2>3. \A op, q : Pending(op, q)' => Pending(op, q) \/ q = r
    BY <1>3, InterruptPending, SamePending
  <2>4. \A q \in Regs \ Made : todo'[q] = todo[q]
    BY <1>3, <2>2 DEF RegisterInterrupt, IInv, TypeOK, Threads
  <2> QED
    BY <2>1, <2>2, <2>3, <2>4 DEF IInv, MadeInv
<1>4. ASSUME NEW r \in Regs, StartStatement(r)
      PROVE  MadeInv'
  BY <1>4, MadeAreRegs, SameTasks, SamePending DEF IInv, TypeOK, MadeInv, MapInv,
      ClosureInv, StartStatement, registry, map, flags, ghosts
<1>5. ASSUME NEW r \in Regs, EndStatement(r)
      PROVE  MadeInv'
  BY <1>5, MadeAreRegs, SameTasks, SamePending DEF IInv, TypeOK, MadeInv, MapInv,
      ClosureInv, EndStatement, registry, map, flags, ghosts
<1>6. ASSUME NEW r \in Regs, Detach(r)
      PROVE  MadeInv'
  BY <1>6, MadeAreRegs, SameTasks, SamePending DEF IInv, TypeOK, MadeInv, MapInv,
      ClosureInv, Detach, registry, map, flags, ghosts
<1>7. ASSUME NEW r \in Regs, Drops(r)
      PROVE  MadeInv'

  <2>1. /\ r \in Made /\ Made' = Made
        /\ guard'[r] = "gone" /\ \A q \in Regs \ {r} : guard'[q] = guard[q]
        /\ \A t \in Threads \ {r} : todo'[t] = todo[t]
        /\ proven' \subseteq proven \cup {r}
        /\ UNCHANGED <<nextReg, task, stmt, handed, asked, done, cancelled, fired>>
    BY <1>7, DropStep, SameTasks
  <2>2. \A op, q : Pending(op, q)' => Pending(op, q) \/ q = r
    BY <1>7, DropPending
  <2>3. Made \subseteq Regs /\ Regs \subseteq Threads
    BY MadeAreRegs DEF IInv, Threads
  <2> QED
    BY <2>1, <2>2, <2>3 DEF IInv, MadeInv
<1>8. ASSUME NEW t \in Threads, Perform(t)
      PROVE  MadeInv'

  <2>1. PICK f : f = Head(todo[t])
    OBVIOUS
  <2>2. /\ cancelled' = IF f.op = "cancel" THEN cancelled \cup {f.reg} ELSE cancelled
        /\ done' = IF f.op = "complete" THEN done \cup {f.reg} ELSE done
        /\ fired' = IF f.op = "interrupt" THEN fired \cup {f.reg} ELSE fired
        /\ \A u \in Threads : todo[u] = <<>> => todo'[u] = <<>>
        /\ UNCHANGED <<nextReg, task, guard, stmt, handed, asked, proven>>
    BY <1>8, <2>1, PerformStep
  <2>3. f.op \in Ops /\ f.reg \in Regs /\ Pending(f.op, f.reg)
        /\ \A op, r : Pending(op, r)' => Pending(op, r)
    BY <1>8, <2>1, PerformEffect
  <2>4. f.reg \in Made /\ Made' = Made /\ Regs \subseteq Threads
    BY <2>2, <2>3, SameTasks DEF IInv, MadeInv, Threads
  <2>5. done' \subseteq Made /\ cancelled' \subseteq Made /\ fired' \subseteq Made
    BY <2>2, <2>4 DEF IInv, MadeInv
  <2> QED
    BY <2>2, <2>3, <2>4, <2>5 DEF IInv, MadeInv
<1>9. ASSUME NEW c \in Callers, NEW e \in ExecIds, Cancels(c, e)
      PROVE  MadeInv'

  <2>1. PICK r : r = inner[e]
    OBVIOUS
  <2>2. /\ r \in Made /\ r \in Regs /\ Made' = Made /\ cancelled' = cancelled \cup {r}
        /\ asked' = asked \cup {r} /\ \A t \in Threads \ {c} : todo'[t] = todo[t]
        /\ UNCHANGED <<nextReg, task, guard, stmt, handed, proven, done, fired>>
    BY <1>9, <2>1, CancelStep, SameTasks
  <2>3. \A op, q : Pending(op, q)' => Pending(op, q) \/ q = r \/ (q = interrupt[r] /\ q # NoReg)
    BY <1>9, <2>1, CancelPending
  <2>4. interrupt[r] # NoReg => interrupt[r] \in Made
    BY <2>2 DEF IInv, ClosureInv, MadeInv
  <2>5. Regs \subseteq Threads \ {c}
    BY RegistryAssumption DEF Threads, Regs
  <2>6. \A q \in Regs : todo'[q] = todo[q]
    BY <2>2, <2>5
  <2> QED
    BY <2>2, <2>3, <2>4, <2>6 DEF IInv, MadeInv
<1>10. ASSUME NEW n \in Conns, CancelLifecycle(n)
       PROVE  MadeInv'
  BY <1>10, MadeAreRegs, SameTasks, SamePending DEF IInv, TypeOK, MadeInv, MapInv,
      ClosureInv, CancelLifecycle, map, owners, ghosts
<1>11. ASSUME NEW e \in ExecIds, ForgetCompleted(e)
       PROVE  MadeInv'
  BY <1>11, MadeAreRegs, SameTasks, SamePending DEF IInv, TypeOK, MadeInv, MapInv,
      ClosureInv, ForgetCompleted, flags, owners, ghosts
<1>12. ASSUME Quiet
       PROVE  MadeInv'
  BY <1>12, MadeAreRegs, SameTasks, SamePending DEF IInv, TypeOK, MadeInv, MapInv,
      ClosureInv, Quiet, registry, map, flags, owners, ghosts
<1> QED
  BY <1>1, <1>2, <1>3, <1>4, <1>5, <1>6, <1>7, <1>8, <1>9, <1>10, <1>11, <1>12
  DEF RegistryStep

\* The map holds the latest registration of an id while it lives.
LEMMA MapStep ==
  ASSUME IInv, RegistryStep
  PROVE  MapInv'
<1>1. ASSUME NEW e \in ExecIds, NEW k \in Kinds, NEW n \in Conns, Register(e, k, n)
      PROVE  MapInv'
  <2>0. PICK new, previous : new = nextReg + 1 /\ previous = inner[e]
    OBVIOUS
  <2>1. /\ new \in Regs /\ new \notin Made /\ Made' = Made \cup {new} /\ Made \subseteq Regs
        /\ task'[new] = [exec |-> e, kind |-> k, conn |-> n] /\ ~Replaced(new)'
        /\ \A r \in Made : task'[r] = task[r] /\ (Tracked(r)' <=> Tracked(r))
        /\ \A r \in Made : Replaced(r)' <=> Replaced(r) \/ task[r].exec = e
    BY <1>1, <2>0, RegisterTasks, MadeAreRegs DEF IInv
  <2>2. /\ inner'[e] = new /\ \A x \in ExecIds \ {e} : inner'[x] = inner[x]
        /\ completed'[e] = NoReg /\ \A x \in ExecIds \ {e} : completed'[x] = completed[x]
        /\ guard'[new] = "held" /\ \A r \in Made : guard'[r] = guard[r]
    BY <1>1, <2>0, RegisterStep
  <2>3. ASSUME NEW x \in ExecIds, x # e, NEW r \in Made, task[r].exec = x, ~Replaced(r)
        PROVE  /\ r \in Made' /\ task'[r].exec = x /\ ~Replaced(r)' /\ guard'[r] = guard[r]
               /\ Tracked(r)' <=> Tracked(r)
    BY <2>1, <2>2, <2>3
  <2>4. ASSUME NEW x \in ExecIds, x # e, inner[x] # NoReg
        PROVE  /\ inner'[x] \in Made' /\ task'[inner'[x]].exec = x
               /\ ~Replaced(inner[x])' /\ guard'[inner[x]] \in {"held", "detached"}
    BY <2>2, <2>3, <2>4 DEF IInv, MapInv, Alive
  <2>5. ASSUME NEW x \in ExecIds, x # e, completed[x] # NoReg
        PROVE  /\ completed'[x] \in Made' /\ task'[completed'[x]].exec = x
               /\ ~Replaced(completed[x])' /\ guard'[completed[x]] = "gone"
               /\ Tracked(completed[x])'
    BY <2>2, <2>3, <2>5 DEF IInv, MapInv
  <2>6. task'[new].exec = e /\ new \in Made'
    BY <2>1
  <2> QED
    BY <2>1, <2>2, <2>4, <2>5, <2>6 DEF MapInv, Alive
<1>2. ASSUME NEW r \in Regs, SetPoolKey(r)
      PROVE  MapInv'
  BY <1>2, MadeAreRegs, SameTasks, SamePending DEF IInv, TypeOK, MadeInv, MapInv, Alive,
      SetPoolKey, map
<1>3. ASSUME NEW r \in Regs, RegisterInterrupt(r)
      PROVE  MapInv'
  BY <1>3, MadeAreRegs, SameTasks DEF IInv, MadeInv, MapInv, Alive, RegisterInterrupt, map,
      flags, ghosts, callers
<1>4. ASSUME NEW r \in Regs, StartStatement(r)
      PROVE  MapInv'
  BY <1>4, MadeAreRegs, SameTasks, SamePending DEF IInv, TypeOK, MadeInv, MapInv, Alive,
      StartStatement, registry, map
<1>5. ASSUME NEW r \in Regs, EndStatement(r)
      PROVE  MapInv'
  BY <1>5, MadeAreRegs, SameTasks, SamePending DEF IInv, TypeOK, MadeInv, MapInv, Alive,
      EndStatement, registry, map
<1>6. ASSUME NEW r \in Regs, Detach(r)
      PROVE  MapInv'
  BY <1>6, MadeAreRegs, SameTasks, SamePending DEF IInv, TypeOK, MadeInv, MapInv, Alive,
      Detach, registry, map
<1>7. ASSUME NEW r \in Regs, Drops(r)
      PROVE  MapInv'
  BY <1>7, MadeAreRegs, SameTasks, DropStep DEF IInv, MadeInv, MapInv, Alive
<1>8. ASSUME NEW t \in Threads, Perform(t)
      PROVE  MapInv'
  BY <1>8, MadeAreRegs, SameTasks, PerformEffect, PerformStep DEF IInv, MadeInv, MapInv, Alive
<1>9. ASSUME NEW c \in Callers, NEW e \in ExecIds, Cancels(c, e)
      PROVE  MapInv'
  BY <1>9, MadeAreRegs, SameTasks, CancelStep DEF IInv, MadeInv, MapInv, Alive
<1>10. ASSUME NEW n \in Conns, CancelLifecycle(n)
       PROVE  MapInv'
  BY <1>10, MadeAreRegs, SameTasks, SamePending DEF IInv, TypeOK, MadeInv, MapInv, Alive,
      CancelLifecycle, map, owners
<1>11. ASSUME NEW e \in ExecIds, ForgetCompleted(e)
       PROVE  MapInv'
  BY <1>11, MadeAreRegs, SameTasks, SamePending DEF IInv, TypeOK, MadeInv, MapInv, Alive,
      ForgetCompleted, owners
<1>12. ASSUME Quiet
       PROVE  MapInv'
  BY <1>12, MadeAreRegs, SameTasks, SamePending DEF IInv, TypeOK, MadeInv, MapInv, Alive,
      Quiet, registry, map, owners
<1> QED
  BY <1>1, <1>2, <1>3, <1>4, <1>5, <1>6, <1>7, <1>8, <1>9, <1>10, <1>11, <1>12
  DEF RegistryStep

\* Only a displaced or cancelled registration leaves the map alive.
LEMMA AliveStep ==
  ASSUME IInv, RegistryStep
  PROVE  AliveInv'
<1>1. ASSUME NEW e \in ExecIds, NEW k \in Kinds, NEW n \in Conns, Register(e, k, n)
      PROVE  AliveInv'
  <2>0. PICK new, previous : new = nextReg + 1 /\ previous = inner[e]
    OBVIOUS
  <2>1. /\ new \in Regs /\ new \notin Made /\ Made' = Made \cup {new} /\ Made \subseteq Regs
        /\ task'[new] = [exec |-> e, kind |-> k, conn |-> n] /\ ~Replaced(new)'
        /\ \A r \in Made : task'[r] = task[r] /\ (Tracked(r)' <=> Tracked(r))
        /\ \A r \in Made : Replaced(r)' <=> Replaced(r) \/ task[r].exec = e
    BY <1>1, <2>0, RegisterTasks, MadeAreRegs DEF IInv
  <2>2. /\ inner'[e] = new /\ \A x \in ExecIds \ {e} : inner'[x] = inner[x]
        /\ \A r \in Made : guard'[r] = guard[r]
        /\ asked' = asked \cup ({previous} \cap Regs)
    BY <1>1, <2>0, RegisterStep
  <2>3. ASSUME NEW r \in Made, Alive(r)', r \notin asked' \/ (Tracked(r)' /\ ~Replaced(r)')
        PROVE  inner'[task'[r].exec] = r
    <3>1. Alive(r) /\ InMap(r) /\ task[r].exec \in ExecIds
      BY <2>1, <2>2, <2>3 DEF IInv, AliveInv, MadeInv, Alive
    <3>2. task[r].exec # e
      BY <2>0, <2>1, <2>2, <2>3, <3>1 DEF InMap
    <3> QED
      BY <2>1, <2>2, <3>1, <3>2 DEF InMap
  <2> QED
    BY <2>1, <2>2, <2>3 DEF AliveInv, InMap
<1>2. ASSUME NEW r \in Regs, SetPoolKey(r)
      PROVE  AliveInv'
  BY <1>2, MadeAreRegs, SameTasks, SamePending DEF IInv, TypeOK, MadeInv, MapInv, AliveInv,
      Alive, InMap, SetPoolKey, map, ghosts
<1>3. ASSUME NEW r \in Regs, RegisterInterrupt(r)
      PROVE  AliveInv'
  BY <1>3, MadeAreRegs, SameTasks DEF IInv, MadeInv, MapInv, AliveInv, Alive, InMap,
      RegisterInterrupt, map, flags, ghosts, callers
<1>4. ASSUME NEW r \in Regs, StartStatement(r)
      PROVE  AliveInv'
  BY <1>4, MadeAreRegs, SameTasks, SamePending DEF IInv, TypeOK, MadeInv, MapInv, AliveInv,
      Alive, InMap, StartStatement, registry, map, ghosts
<1>5. ASSUME NEW r \in Regs, EndStatement(r)
      PROVE  AliveInv'
  BY <1>5, MadeAreRegs, SameTasks, SamePending DEF IInv, TypeOK, MadeInv, MapInv, AliveInv,
      Alive, InMap, EndStatement, registry, map, ghosts
<1>6. ASSUME NEW r \in Regs, Detach(r)
      PROVE  AliveInv'
  BY <1>6, MadeAreRegs, SameTasks, SamePending DEF IInv, TypeOK, MadeInv, MapInv, AliveInv,
      Alive, InMap, Detach, registry, map, ghosts
<1>7. ASSUME NEW r \in Regs, Drops(r)
      PROVE  AliveInv'
  BY <1>7, MadeAreRegs, SameTasks, DropStep DEF IInv, MadeInv, MapInv, AliveInv, Alive, InMap
<1>8. ASSUME NEW t \in Threads, Perform(t)
      PROVE  AliveInv'
  BY <1>8, MadeAreRegs, SameTasks, PerformEffect, PerformStep DEF IInv, MadeInv, MapInv,
      AliveInv, Alive, InMap
<1>9. ASSUME NEW c \in Callers, NEW e \in ExecIds, Cancels(c, e)
      PROVE  AliveInv'
  BY <1>9, MadeAreRegs, SameTasks, CancelStep DEF IInv, MadeInv, MapInv, AliveInv, Alive,
      InMap
<1>10. ASSUME NEW n \in Conns, CancelLifecycle(n)
       PROVE  AliveInv'
  BY <1>10, MadeAreRegs, SameTasks, SamePending DEF IInv, TypeOK, MadeInv, MapInv, AliveInv,
      Alive, InMap, CancelLifecycle, map, owners, ghosts
<1>11. ASSUME NEW e \in ExecIds, ForgetCompleted(e)
       PROVE  AliveInv'
  BY <1>11, MadeAreRegs, SameTasks, SamePending DEF IInv, TypeOK, MadeInv, MapInv, AliveInv,
      Alive, InMap, ForgetCompleted, owners, ghosts
<1>12. ASSUME Quiet
       PROVE  AliveInv'
  BY <1>12, MadeAreRegs, SameTasks, SamePending DEF IInv, TypeOK, MadeInv, MapInv, AliveInv,
      Alive, InMap, Quiet, registry, map, owners, ghosts
<1> QED
  BY <1>1, <1>2, <1>3, <1>4, <1>5, <1>6, <1>7, <1>8, <1>9, <1>10, <1>11, <1>12
  DEF RegistryStep

\* Pool keys.
LEMMA PoolStep ==
  ASSUME IInv, RegistryStep
  PROVE  PoolInv'
<1>1. ASSUME NEW e \in ExecIds, NEW k \in Kinds, NEW n \in Conns, Register(e, k, n)
      PROVE  PoolInv'
  <2>0. PICK new, previous : new = nextReg + 1 /\ previous = inner[e]
    OBVIOUS
  <2>1. /\ new \in Regs /\ new \notin Made /\ Made' = Made \cup {new} /\ Made \subseteq Regs
        /\ task'[new] = [exec |-> e, kind |-> k, conn |-> n] /\ ~Replaced(new)'
        /\ \A r \in Made : task'[r] = task[r] /\ (Tracked(r)' <=> Tracked(r))
        /\ \A r \in Made : Replaced(r)' <=> Replaced(r) \/ task[r].exec = e
    BY <1>1, <2>0, RegisterTasks, MadeAreRegs DEF IInv
  <2>2. /\ inner'[e] = new /\ \A x \in ExecIds \ {e} : inner'[x] = inner[x]
        /\ stmt'[new] = "idle" /\ \A r \in Made : stmt'[r] = stmt[r]
        /\ pool' = pool
    BY <1>1, <2>0, RegisterStep
  <2>3. pool[new] = NoConn
    BY <2>1 DEF IInv, PoolInv
  <2>4. ASSUME NEW r \in Made, inner'[task'[r].exec] = r PROVE InMap(r)
    <3>1. task'[r] = task[r] /\ task[r].exec \in ExecIds /\ r # new
      BY <2>1 DEF IInv, MadeInv
    <3> QED
      BY <2>2, <2>4, <3>1 DEF InMap
  <2>5. ASSUME NEW r \in Made, pool[r] # NoConn
        PROVE  \E q \in Made' : task'[q].exec = task'[r].exec /\ task'[q].conn = pool[r]
    <3>1. PICK q \in Made : task[q].exec = task[r].exec /\ task[q].conn = pool[r]
      BY <2>5 DEF IInv, PoolInv
    <3> QED
      BY <2>1, <3>1
  <2>6. ASSUME NEW r \in Made, stmt[r] \in {"pooled", "running"}, inner'[task'[r].exec] = r
        PROVE  pool[r] # NoConn
    BY <2>4, <2>6 DEF IInv, PoolInv
  <2>7. ASSUME NEW r \in Made PROVE task'[r].conn \in Conns /\ stmt'[r] # "none"
    BY <2>1, <2>2 DEF IInv, PoolInv
  <2>8. task'[new].conn \in Conns
    BY <2>1
  <2> QED
    BY <2>1, <2>2, <2>3, <2>5, <2>6, <2>7, <2>8 DEF PoolInv, InMap, IInv
<1>2. ASSUME NEW r \in Regs, SetPoolKey(r)
      PROVE  PoolInv'

  <2> DEFINE q == inner[task[r].exec]
  <2>1. /\ guard[r] = "held" /\ stmt[r] = "idle" /\ stmt' = [stmt EXCEPT ![r] = "pooled"]
        /\ pool' = IF q = NoReg THEN pool ELSE [pool EXCEPT ![q] = task[r].conn]
        /\ UNCHANGED <<inner, nextReg, task>>
    BY <1>2 DEF SetPoolKey, map
  <2>2. /\ stmt \in [Regs -> StmtStates] /\ pool \in [Regs -> Conns \cup {NoConn}]
        /\ Made \subseteq Regs /\ Made' = Made
    BY <2>1, MadeAreRegs, SameTasks DEF IInv, TypeOK
  <2>3. r \in Made /\ task[r].exec \in ExecIds /\ task[r].conn \in Conns /\ task[r].conn # NoConn
    BY <2>1, RegistryAssumption DEF IInv, MadeInv, PoolInv
  <2>4. q # NoReg => q \in Made /\ task[q].exec = task[r].exec
    BY <2>3 DEF IInv, MapInv
  <2>5. ASSUME NEW p \in Made, pool'[p] # NoConn
        PROVE  \E x \in Made : task[x].exec = task[p].exec /\ task[x].conn = pool'[p]
    <3>1. CASE q # NoReg /\ p = q
      <4>1. pool'[p] = task[r].conn
        BY <2>1, <2>2, <3>1
      <4> QED
        BY <2>3, <2>4, <3>1, <4>1
    <3>2. CASE ~(q # NoReg /\ p = q)
      <4>1. pool'[p] = pool[p]
        BY <2>1, <2>2, <3>2
      <4> QED
        BY <2>5, <4>1 DEF IInv, PoolInv
    <3> QED
      BY <3>1, <3>2
  <2>6. ASSUME NEW p \in Made, stmt'[p] \in {"pooled", "running"}, inner[task[p].exec] = p
        PROVE  pool'[p] # NoConn
    <3>1. CASE p = r
      <4>1. q = r /\ q # NoReg
        BY <2>2, <2>6, <3>1, MadeAreRegs DEF IInv
      <4> QED
        BY <2>1, <2>2, <2>3, <3>1, <4>1
    <3>2. CASE p # r
      <4>1. pool[p] # NoConn
        BY <2>1, <2>2, <2>6, <3>2 DEF IInv, PoolInv, InMap
      <4> QED
        BY <2>1, <2>2, <2>3, <4>1
    <3> QED
      BY <3>1, <3>2
  <2>7. ASSUME NEW p \in Made PROVE task[p].conn \in Conns /\ stmt'[p] # "none"
    BY <2>1, <2>2 DEF IInv, PoolInv
  <2>8. \A p \in Regs \ Made : pool'[p] = NoConn
    BY <2>1, <2>2, <2>4 DEF IInv, PoolInv
  <2> HIDE DEF q
  <2> QED
    BY <2>1, <2>2, <2>5, <2>6, <2>7, <2>8 DEF PoolInv, InMap
<1>3. ASSUME NEW r \in Regs, RegisterInterrupt(r)
      PROVE  PoolInv'
  BY <1>3, MadeAreRegs, SameTasks DEF IInv, MadeInv, MapInv, PoolInv, InMap,
      RegisterInterrupt, map, flags, ghosts, callers
<1>4. ASSUME NEW r \in Regs, StartStatement(r)
      PROVE  PoolInv'
  <2>1. /\ stmt[r] = "pooled" /\ stmt' = [stmt EXCEPT ![r] = "running"]
        /\ stmt \in [Regs -> StmtStates] /\ UNCHANGED <<inner, task, nextReg, pool>>
    BY <1>4 DEF StartStatement, registry, map, IInv, TypeOK
  <2>2. Made' = Made /\ Made \subseteq Regs
    BY <2>1, SameTasks, MadeAreRegs DEF IInv
  <2>3. \A q \in Regs : /\ stmt'[q] \in {"pooled", "running"} <=> stmt[q] \in {"pooled", "running"}
                        /\ stmt[q] # "none" => stmt'[q] # "none"
    BY <2>1
  <2> QED
    BY <2>1, <2>2, <2>3 DEF IInv, PoolInv, InMap
<1>5. ASSUME NEW r \in Regs, EndStatement(r)
      PROVE  PoolInv'
  <2>1. /\ stmt[r] = "running" /\ stmt' = [stmt EXCEPT ![r] = "ended"]
        /\ stmt \in [Regs -> StmtStates] /\ UNCHANGED <<inner, task, nextReg, pool>>
    BY <1>5 DEF EndStatement, registry, map, IInv, TypeOK
  <2>2. Made' = Made /\ Made \subseteq Regs
    BY <2>1, SameTasks, MadeAreRegs DEF IInv
  <2>3. \A q \in Regs : /\ stmt'[q] \in {"pooled", "running"} => stmt[q] \in {"pooled", "running"}
                        /\ stmt[q] # "none" => stmt'[q] # "none"
    BY <2>1
  <2> QED
    BY <2>1, <2>2, <2>3 DEF IInv, PoolInv, InMap
<1>6. ASSUME NEW r \in Regs, Detach(r)
      PROVE  PoolInv'
  BY <1>6, MadeAreRegs, SameTasks, SamePending DEF IInv, TypeOK, MadeInv, MapInv, PoolInv,
      InMap, Detach, registry, map
<1>7. ASSUME NEW r \in Regs, Drops(r)
      PROVE  PoolInv'
  BY <1>7, MadeAreRegs, SameTasks, DropStep DEF IInv, MadeInv, MapInv, PoolInv, InMap
<1>8. ASSUME NEW t \in Threads, Perform(t)
      PROVE  PoolInv'
  BY <1>8, MadeAreRegs, SameTasks, PerformEffect, PerformStep DEF IInv, MadeInv, MapInv,
      PoolInv, InMap
<1>9. ASSUME NEW c \in Callers, NEW e \in ExecIds, Cancels(c, e)
      PROVE  PoolInv'
  BY <1>9, MadeAreRegs, SameTasks, CancelStep DEF IInv, MadeInv, MapInv, PoolInv, InMap
<1>10. ASSUME NEW n \in Conns, CancelLifecycle(n)
       PROVE  PoolInv'
  BY <1>10, MadeAreRegs, SameTasks, SamePending DEF IInv, TypeOK, MadeInv, MapInv, PoolInv,
      InMap, CancelLifecycle, map, owners
<1>11. ASSUME NEW e \in ExecIds, ForgetCompleted(e)
       PROVE  PoolInv'
  BY <1>11, MadeAreRegs, SameTasks, SamePending DEF IInv, TypeOK, MadeInv, MapInv, PoolInv,
      InMap, ForgetCompleted, owners
<1>12. ASSUME Quiet
       PROVE  PoolInv'
  BY <1>12, MadeAreRegs, SameTasks, SamePending DEF IInv, TypeOK, MadeInv, MapInv, PoolInv,
      InMap, Quiet, registry, map, owners
<1> QED
  BY <1>1, <1>2, <1>3, <1>4, <1>5, <1>6, <1>7, <1>8, <1>9, <1>10, <1>11, <1>12
  DEF RegistryStep

\* Completions.
LEMMA DoneStep ==
  ASSUME IInv, RegistryStep
  PROVE  DoneInv'
<1>1. ASSUME NEW e \in ExecIds, NEW k \in Kinds, NEW n \in Conns, Register(e, k, n)
      PROVE  DoneInv'
  <2>0. PICK new, previous : new = nextReg + 1 /\ previous = inner[e]
    OBVIOUS
  <2>1. /\ new \in Regs /\ new \notin Made /\ Made' = Made \cup {new} /\ Made \subseteq Regs
        /\ task'[new] = [exec |-> e, kind |-> k, conn |-> n] /\ ~Replaced(new)'
        /\ \A r \in Made : task'[r] = task[r] /\ (Tracked(r)' <=> Tracked(r))
        /\ \A r \in Made : Replaced(r)' <=> Replaced(r) \/ task[r].exec = e
    BY <1>1, <2>0, RegisterTasks, MadeAreRegs DEF IInv
  <2>2. /\ inner'[e] = new /\ \A x \in ExecIds \ {e} : inner'[x] = inner[x]
        /\ \A r \in Made : guard'[r] = guard[r] /\ stmt'[r] = stmt[r]
        /\ UNCHANGED <<done, proven>>
    BY <1>1, <2>0, RegisterStep
  <2>3. \A op, q : Pending(op, q)' <=>
          \/ Pending(op, q)
          \/ /\ previous # NoReg
             /\ \/ op \in {"cancel", "complete"} /\ q = previous
                \/ op = "interrupt" /\ q = interrupt[previous] /\ q # NoReg
    BY <1>1, <2>0, RegisterPending
  <2>4. previous # NoReg => previous \in Made /\ task[previous].exec = e
    BY <2>0 DEF IInv, MapInv
  <2>5. new \notin done /\ ~Pending("complete", new) /\ proven \subseteq Made /\ previous # new
    BY <2>1, <2>4, MadeAreRegs DEF IInv, MadeInv, Ops
  <2>6. ASSUME NEW r \in Made, r \in done \/ Pending("complete", r)'
        PROVE  ~Tracked(r)' \/ Replaced(r)' \/ guard'[r] = "gone"
    BY <2>1, <2>2, <2>3, <2>4, <2>6 DEF IInv, DoneInv
  <2>7. ASSUME NEW r \in Made, inner'[task'[r].exec] # r PROVE r \in done \/ Pending("complete", r)'
    <3>1. task'[r] = task[r] /\ task[r].exec \in ExecIds
      BY <2>1 DEF IInv, MadeInv
    <3>2. CASE InMap(r)
      <4>1. task[r].exec = e /\ previous = r /\ previous # NoReg
        BY <2>0, <2>1, <2>2, <2>7, <3>1, <3>2, MadeAreRegs DEF InMap, IInv
      <4> QED
        BY <2>3, <4>1
    <3>3. CASE ~InMap(r)
      BY <2>3, <3>3 DEF IInv, DoneInv, GoneIsSignalled, InMap, Made
    <3> QED
      BY <3>2, <3>3
  <2>8. inner'[task'[new].exec] = new
    BY <2>1, <2>2
  <2>9. ~Pending("complete", new)'
    BY <2>3, <2>5
  <2>10. GoneIsSignalled'
    <3>1. \A r \in Made' : inner'[task'[r].exec] # r => r \in done' \/ Pending("complete", r)'
      BY <2>1, <2>2, <2>7, <2>8
    <3> QED
      BY <3>1 DEF GoneIsSignalled, Made
  <2>11. \A r \in proven' : guard'[r] = "gone" /\ stmt'[r] # "running"
    BY <2>2, <2>5 DEF IInv, DoneInv
  <2>12. \A r \in Made' : r \in done' \/ Pending("complete", r)' =>
           ~Tracked(r)' \/ Replaced(r)' \/ guard'[r] = "gone"
    BY <2>1, <2>2, <2>5, <2>6, <2>9
  <2> QED
    BY <2>10, <2>11, <2>12 DEF DoneInv
<1>2. ASSUME NEW r \in Regs, SetPoolKey(r)
      PROVE  DoneInv'
  BY <1>2, MadeAreRegs, SameTasks, SamePending DEF IInv, TypeOK, MadeInv, MapInv, DoneInv,
      GoneIsSignalled, Alive, SetPoolKey, map, flags
<1>3. ASSUME NEW r \in Regs, RegisterInterrupt(r)
      PROVE  DoneInv'
  BY <1>3, MadeAreRegs, SameTasks, SamePending, InterruptPending DEF IInv, MadeInv, MapInv,
      DoneInv, GoneIsSignalled, Alive, RegisterInterrupt, map, flags, ghosts, callers
<1>4. ASSUME NEW r \in Regs, StartStatement(r)
      PROVE  DoneInv'
  BY <1>4, MadeAreRegs, SameTasks, SamePending DEF IInv, TypeOK, MadeInv, MapInv, DoneInv,
      GoneIsSignalled, Alive, StartStatement, registry, map, flags
<1>5. ASSUME NEW r \in Regs, EndStatement(r)
      PROVE  DoneInv'
  BY <1>5, MadeAreRegs, SameTasks, SamePending DEF IInv, TypeOK, MadeInv, MapInv, DoneInv,
      GoneIsSignalled, Alive, EndStatement, registry, map, flags
<1>6. ASSUME NEW r \in Regs, Detach(r)
      PROVE  DoneInv'
  BY <1>6, MadeAreRegs, SameTasks, SamePending DEF IInv, TypeOK, MadeInv, MapInv, DoneInv,
      GoneIsSignalled, Alive, Detach, registry, map, flags
<1>7. ASSUME NEW r \in Regs, Drops(r)
      PROVE  DoneInv'

  <2>1. /\ r \in Made /\ Made' = Made /\ guard'[r] = "gone" /\ Made \subseteq Regs
        /\ \A q \in Regs \ {r} : guard'[q] = guard[q]
        /\ \A x \in ExecIds : inner'[x] = IF inner[x] = r THEN NoReg ELSE inner[x]
        /\ proven' = proven \/ (ResultProves(r) /\ proven' = proven \cup {r})
        /\ UNCHANGED <<nextReg, task, done, stmt>>
    BY <1>7, DropStep, SameTasks, MadeAreRegs DEF IInv
  <2>2. \A op, q : Pending(op, q)' <=> Pending(op, q) \/ (op = "complete" /\ q = r /\ InMap(r))
    BY <1>7, DropPending
  <2>3. \A q : (Replaced(q)' <=> Replaced(q)) /\ (Tracked(q)' <=> Tracked(q))
    BY <2>1, SameTasks
  <2>4. ASSUME NEW q \in Made, q \in done \/ Pending("complete", q)'
        PROVE  ~Tracked(q)' \/ Replaced(q)' \/ guard'[q] = "gone"
    BY <2>1, <2>2, <2>3, <2>4 DEF IInv, DoneInv
  <2>5. ASSUME NEW q \in proven' PROVE guard'[q] = "gone" /\ stmt'[q] # "running"
    <3>1. CASE q = r
      BY <2>1, <2>5, <3>1 DEF ResultProves, IInv, DoneInv
    <3>2. CASE q # r
      BY <2>1, <2>5, <3>2 DEF IInv, DoneInv, TypeOK
    <3> QED
      BY <3>1, <3>2
  <2>6. ASSUME NEW q \in Made, inner'[task[q].exec] # q PROVE q \in done \/ Pending("complete", q)'
    <3>1. task[q].exec \in ExecIds
      BY DEF IInv, MadeInv
    <3>2. CASE InMap(q)
      <4>1. q = r
        BY <2>1, <2>6, <3>1, <3>2 DEF InMap
      <4> QED
        BY <2>2, <3>2, <4>1
    <3>3. CASE ~InMap(q)
      BY <2>2, <3>3 DEF IInv, DoneInv, GoneIsSignalled, InMap, Made
    <3> QED
      BY <3>2, <3>3
  <2>7. GoneIsSignalled'
    BY <2>1, <2>6 DEF GoneIsSignalled, Made
  <2> QED
    BY <2>1, <2>4, <2>5, <2>7 DEF DoneInv
<1>8. ASSUME NEW t \in Threads, Perform(t)
      PROVE  DoneInv'
  BY <1>8, MadeAreRegs, SameTasks, PerformEffect, PerformStep DEF IInv, MadeInv, MapInv,
      DoneInv, GoneIsSignalled, Alive
<1>9. ASSUME NEW c \in Callers, NEW e \in ExecIds, Cancels(c, e)
      PROVE  DoneInv'

  <2> DEFINE r == inner[e]
  <2>1. /\ r \in Made /\ task[r].exec = e /\ InMap(r) /\ Made' = Made
        /\ inner'[e] = IF Tracked(r) THEN r ELSE NoReg
        /\ \A x \in ExecIds \ {e} : inner'[x] = inner[x]
        /\ UNCHANGED <<nextReg, task, done, guard, proven, stmt>>
    BY <1>9, CancelStep, SameTasks
  <2>2. \A op, q : Pending(op, q)' <=>
          \/ Pending(op, q)
          \/ op = "interrupt" /\ q = interrupt[r] /\ q # NoReg
          \/ op = "complete" /\ q = r /\ ~Tracked(r)
    BY <1>9, CancelPending
  <2>3. \A q : (Replaced(q)' <=> Replaced(q)) /\ (Tracked(q)' <=> Tracked(q))
    BY <2>1, SameTasks
  <2>4. ASSUME NEW q \in Made, q \in done \/ Pending("complete", q)'
        PROVE  ~Tracked(q)' \/ Replaced(q)' \/ guard'[q] = "gone"
    BY <2>1, <2>2, <2>3, <2>4 DEF IInv, DoneInv
  <2>5. ASSUME NEW q \in Made, inner'[task[q].exec] # q PROVE q \in done \/ Pending("complete", q)'
    <3>1. task[q].exec \in ExecIds
      BY DEF IInv, MadeInv
    <3>2. CASE InMap(q)
      <4>1. q = r /\ ~Tracked(r)
        BY <2>1, <2>5, <3>1, <3>2 DEF InMap
      <4> QED
        BY <2>2, <4>1
    <3>3. CASE ~InMap(q)
      BY <2>2, <3>3 DEF IInv, DoneInv, GoneIsSignalled, InMap, Made
    <3> QED
      BY <3>2, <3>3
  <2>6. GoneIsSignalled'
    BY <2>1, <2>5 DEF GoneIsSignalled, Made
  <2> QED
    BY <2>1, <2>4, <2>6 DEF DoneInv, IInv
<1>10. ASSUME NEW n \in Conns, CancelLifecycle(n)
       PROVE  DoneInv'
  BY <1>10, MadeAreRegs, SameTasks, SamePending DEF IInv, TypeOK, MadeInv, MapInv, DoneInv,
      GoneIsSignalled, Alive, CancelLifecycle, map, owners
<1>11. ASSUME NEW e \in ExecIds, ForgetCompleted(e)
       PROVE  DoneInv'
  BY <1>11, MadeAreRegs, SameTasks, SamePending DEF IInv, TypeOK, MadeInv, MapInv, DoneInv,
      GoneIsSignalled, Alive, ForgetCompleted, flags, owners
<1>12. ASSUME Quiet
       PROVE  DoneInv'
  BY <1>12, MadeAreRegs, SameTasks, SamePending DEF IInv, TypeOK, MadeInv, MapInv, DoneInv,
      GoneIsSignalled, Alive, Quiet, registry, map, flags, owners
<1> QED
  BY <1>1, <1>2, <1>3, <1>4, <1>5, <1>6, <1>7, <1>8, <1>9, <1>10, <1>11, <1>12
  DEF RegistryStep

\* Closures.
LEMMA ClosureStep ==
  ASSUME IInv, RegistryStep
  PROVE  ClosureInv'
<1>1. ASSUME NEW e \in ExecIds, NEW k \in Kinds, NEW n \in Conns, Register(e, k, n)
      PROVE  ClosureInv'
  <2>0. PICK new, previous : new = nextReg + 1 /\ previous = inner[e]
    OBVIOUS
  <2>1. /\ new \in Regs /\ new \notin Made /\ Made' = Made \cup {new} /\ Made \subseteq Regs
        /\ task'[new] = [exec |-> e, kind |-> k, conn |-> n] /\ ~Replaced(new)'
        /\ \A r \in Made : task'[r] = task[r] /\ (Tracked(r)' <=> Tracked(r))
        /\ \A r \in Made : Replaced(r)' <=> Replaced(r) \/ task[r].exec = e
    BY <1>1, <2>0, RegisterTasks, MadeAreRegs DEF IInv
  <2>2. /\ inner'[e] = new /\ \A x \in ExecIds \ {e} : inner'[x] = inner[x]
        /\ \A r \in Regs : interrupt'[r] = IF r = previous THEN NoReg ELSE interrupt[r]
        /\ asked' = asked \cup ({previous} \cap Regs)
        /\ UNCHANGED <<cancelled, handed, fired>>
    BY <1>1, <2>0, RegisterStep
  <2>3. \A op, q : Pending(op, q)' <=>
          \/ Pending(op, q)
          \/ /\ previous # NoReg
             /\ \/ op \in {"cancel", "complete"} /\ q = previous
                \/ op = "interrupt" /\ q = interrupt[previous] /\ q # NoReg
    BY <1>1, <2>0, RegisterPending
  <2>4. /\ previous # NoReg => previous \in Made /\ task[previous].exec = e
        /\ handed \subseteq Made /\ asked \subseteq Made
        /\ \A r \in Made : task[r].exec \in ExecIds
    BY <2>0 DEF IInv, MapInv, MadeInv
  <2>5. \A r \in Made : Alone(r)' => Alone(r) /\ task[r].exec # e
    BY <1>1, <2>0, RegisterTasks
  <2>6. \A r \in Made : (InMap(r)' <=> InMap(r) /\ task[r].exec # e)
    BY <2>1, <2>2, <2>4 DEF InMap
  <2>7. ASSUME NEW r \in Regs, interrupt'[r] # NoReg
        PROVE  /\ r \in Made' /\ InMap(r)' /\ interrupt'[r] \in handed
               /\ task'[interrupt'[r]].exec = task'[r].exec
               /\ interrupt'[r] # r => interrupt'[r] \in asked'
    <3>1. r # previous /\ interrupt'[r] = interrupt[r] /\ interrupt[r] # NoReg
      BY <2>2, <2>7
    <3>2. /\ r \in Made /\ InMap(r) /\ interrupt[r] \in handed
          /\ task[interrupt[r]].exec = task[r].exec
          /\ interrupt[r] # r => interrupt[r] \in asked
      BY <3>1 DEF IInv, ClosureInv
    <3>3. task[r].exec # e
      BY <2>0, <3>1, <3>2 DEF InMap
    <3> QED
      BY <2>1, <2>2, <2>4, <2>6, <3>1, <3>2, <3>3
  <2>8. ASSUME NEW r \in handed, Alone(r)', InMap(r)', r \notin asked'
        PROVE  interrupt'[r] = r \/ r \in fired \/ Pending("interrupt", r)'
    <3>1. Alone(r) /\ InMap(r) /\ r \notin asked /\ task[r].exec # e /\ r \in Made
      BY <2>2, <2>4, <2>5, <2>6, <2>8
    <3>2. r # previous
      BY <2>4, <3>1, MadeAreRegs DEF IInv
    <3> QED
      BY <2>1, <2>2, <2>3, <3>1, <3>2 DEF IInv, ClosureInv
  <2>9. ASSUME NEW r \in asked', InMap(r)' PROVE r \in cancelled
    <3>1. r \in Made
      BY <2>2, <2>4, <2>9, MadeAreRegs DEF IInv
    <3>2. InMap(r) /\ task[r].exec # e
      BY <2>6, <2>9, <3>1
    <3>3. r # previous
      BY <2>4, <3>1, <3>2, MadeAreRegs DEF IInv
    <3> QED
      BY <2>2, <2>9, <3>2, <3>3 DEF IInv, ClosureInv
  <2>10. ASSUME NEW r \in asked', r \in handed, Alone(r)'
         PROVE  r \in fired \/ Pending("interrupt", r)'
    <3>1. Alone(r) /\ task[r].exec # e /\ r \in Made
      BY <2>4, <2>5, <2>10
    <3>2. r \in asked
      BY <2>2, <2>4, <2>10, <3>1, MadeAreRegs DEF IInv
    <3> QED
      BY <2>3, <2>10, <3>1, <3>2 DEF IInv, ClosureInv, InterruptFollowsCancel
  <2>11. ASSUME NEW r \in Regs, r \in fired \/ Pending("interrupt", r)'
         PROVE  r \in asked' \/ r \in cancelled
    <3>1. CASE previous # NoReg /\ r = interrupt[previous] /\ r # NoReg
      <4>1. previous \in Regs
        BY <2>1, <2>4, <3>1
      <4>2. r = previous \/ r \in asked
        BY <3>1, <4>1 DEF IInv, ClosureInv
      <4> QED
        BY <2>2, <4>1, <4>2
    <3>2. CASE r \in fired \/ Pending("interrupt", r)
      BY <2>2, <3>2 DEF IInv, ClosureInv, InterruptFollowsCancel
    <3> QED
      BY <2>3, <2>11, <3>1, <3>2
  <2> QED
    BY <2>2, <2>7, <2>8, <2>9, <2>10, <2>11 DEF ClosureInv, InterruptFollowsCancel
<1>2. ASSUME NEW r \in Regs, SetPoolKey(r)
      PROVE  ClosureInv'
  BY <1>2, MadeAreRegs, SameTasks, SamePending DEF IInv, TypeOK, MadeInv, MapInv, AliveInv,
      ClosureInv, InterruptFollowsCancel, Alive, InMap, SetPoolKey, map, flags, ghosts
<1>3. ASSUME NEW r \in Regs, RegisterInterrupt(r)
      PROVE  ClosureInv'

  <2>0. PICK q : q = inner[task[r].exec]
    OBVIOUS
  <2>1. /\ guard[r] = "held" /\ handed' = handed \cup {r}
        /\ UNCHANGED <<inner, nextReg, task, asked, cancelled, fired>>
    BY <1>3 DEF RegisterInterrupt, map, flags, ghosts
  <2>2. /\ Made' = Made /\ \A x : (Alone(x)' <=> Alone(x)) /\ (InMap(x)' <=> InMap(x))
        /\ Made \subseteq Regs /\ NoReg \notin Regs
    BY <2>1, SameTasks, MadeAreRegs DEF InMap, IInv
  <2>3. r \in Made /\ task[r].exec \in ExecIds /\ (InMap(r) <=> q = r)
    BY <2>0, <2>1 DEF IInv, MadeInv, InMap
  <2>4. q # NoReg => q \in Made /\ InMap(q) /\ task[q].exec = task[r].exec
    BY <2>0, <2>3 DEF IInv, MapInv, InMap
  <2>5. ~InMap(r) => r \in asked
    BY <2>1, <2>3 DEF IInv, AliveInv, Alive
  <2>6. ASSUME NEW x \in Made, Alone(x), task[x].exec = task[r].exec PROVE x = r
    BY <2>3, <2>6 DEF Alone, Made
  <2>7. CASE q # NoReg /\ q \notin cancelled
    <3>1. interrupt' = [interrupt EXCEPT ![q] = r] /\ UNCHANGED todo
      BY <1>3, <2>0, <2>7, InterruptPending
    <3>2. /\ interrupt'[q] = r /\ \A x \in Regs \ {q} : interrupt'[x] = interrupt[x]
          /\ \A op, x : Pending(op, x)' <=> Pending(op, x)
      BY <2>2, <2>4, <2>7, <3>1, SamePending DEF IInv, TypeOK
    <3>3. ASSUME NEW x \in Regs, interrupt'[x] # NoReg
          PROVE  /\ x \in Made /\ InMap(x) /\ interrupt'[x] \in handed'
                 /\ task[interrupt'[x]].exec = task[x].exec
                 /\ interrupt'[x] # x => interrupt'[x] \in asked
      <4>1. CASE x = q
        BY <2>1, <2>3, <2>4, <2>5, <2>7, <3>2, <4>1
      <4>2. CASE x # q
        BY <2>1, <3>2, <3>3, <4>2 DEF IInv, ClosureInv
      <4> QED
        BY <4>1, <4>2
    <3>4. ASSUME NEW x \in handed', Alone(x), InMap(x), x \notin asked
          PROVE  interrupt'[x] = x \/ x \in fired \/ Pending("interrupt", x)
      <4>1. CASE x = r
        BY <2>3, <3>2, <3>4, <4>1
      <4>2. CASE x # r
        <5>1. x \in handed /\ x \in Made
          BY <2>1, <3>4, <4>2 DEF IInv, MadeInv
        <5>2. x # q
          BY <2>4, <2>6, <2>7, <3>4, <4>2, <5>1
        <5> QED
          BY <2>2, <3>2, <3>4, <5>1, <5>2 DEF IInv, ClosureInv
      <4> QED
        BY <4>1, <4>2
    <3>5. ASSUME NEW x \in asked, x \in handed', Alone(x)
          PROVE  x \in fired \/ Pending("interrupt", x)
      <4>1. x # r
        <5>1. SUFFICES ASSUME x = r PROVE FALSE
          OBVIOUS
        <5>2. q = r
          BY <2>4, <2>6, <2>7, <3>5, <5>1 DEF Alone, Made
        <5> QED
          BY <2>3, <2>7, <3>5, <5>1, <5>2 DEF IInv, ClosureInv
      <4> QED
        BY <2>1, <3>5, <4>1 DEF IInv, ClosureInv, InterruptFollowsCancel
    <3> QED
      BY <2>1, <2>2, <3>2, <3>3, <3>4, <3>5 DEF IInv, ClosureInv, InterruptFollowsCancel
  <2>8. CASE q = NoReg \/ q \in cancelled
    <3>1. /\ interrupt' = interrupt
          /\ \A op, x : Pending(op, x)' <=> Pending(op, x) \/ (op = "interrupt" /\ x = r)
      BY <1>3, <2>0, <2>8, InterruptPending
    <3>2. r \in asked \/ r \in cancelled
      BY <2>2, <2>3, <2>5, <2>8
    <3>3. ASSUME NEW x \in Regs, x \in fired \/ Pending("interrupt", x)'
          PROVE  x \in asked \/ x \in cancelled
      BY <3>1, <3>2, <3>3 DEF IInv, ClosureInv, InterruptFollowsCancel
    <3> QED
      BY <2>1, <2>2, <3>1, <3>3 DEF IInv, ClosureInv, InterruptFollowsCancel
  <2> QED
    BY <2>7, <2>8
<1>4. ASSUME NEW r \in Regs, StartStatement(r)
      PROVE  ClosureInv'
  BY <1>4, MadeAreRegs, SameTasks, SamePending DEF IInv, TypeOK, MadeInv, MapInv, AliveInv,
      ClosureInv, InterruptFollowsCancel, Alive, InMap, StartStatement, registry, map,
      flags, ghosts
<1>5. ASSUME NEW r \in Regs, EndStatement(r)
      PROVE  ClosureInv'
  BY <1>5, MadeAreRegs, SameTasks, SamePending DEF IInv, TypeOK, MadeInv, MapInv, AliveInv,
      ClosureInv, InterruptFollowsCancel, Alive, InMap, EndStatement, registry, map, flags,
      ghosts
<1>6. ASSUME NEW r \in Regs, Detach(r)
      PROVE  ClosureInv'
  BY <1>6, MadeAreRegs, SameTasks, SamePending DEF IInv, TypeOK, MadeInv, MapInv, AliveInv,
      ClosureInv, InterruptFollowsCancel, Alive, InMap, Detach, registry, map, flags, ghosts
<1>7. ASSUME NEW r \in Regs, Drops(r)
      PROVE  ClosureInv'
  BY <1>7, MadeAreRegs, SameTasks, DropPending, DropStep DEF IInv, MadeInv, MapInv, AliveInv,
      ClosureInv, InterruptFollowsCancel, Alive, InMap
<1>8. ASSUME NEW t \in Threads, Perform(t)
      PROVE  ClosureInv'
  BY <1>8, MadeAreRegs, SameTasks, PerformEffect, PerformStep DEF IInv, MadeInv, MapInv,
      AliveInv, ClosureInv, InterruptFollowsCancel, Alive, InMap
<1>9. ASSUME NEW c \in Callers, NEW e \in ExecIds, Cancels(c, e)
      PROVE  ClosureInv'
  BY <1>9, MadeAreRegs, SameTasks, CancelPending, CancelStep DEF IInv, MadeInv, MapInv,
      AliveInv, ClosureInv, InterruptFollowsCancel, Alive, InMap
<1>10. ASSUME NEW n \in Conns, CancelLifecycle(n)
       PROVE  ClosureInv'
  BY <1>10, MadeAreRegs, SameTasks, SamePending DEF IInv, TypeOK, MadeInv, MapInv, AliveInv,
      ClosureInv, InterruptFollowsCancel, Alive, InMap, CancelLifecycle, map, owners, ghosts
<1>11. ASSUME NEW e \in ExecIds, ForgetCompleted(e)
       PROVE  ClosureInv'
  BY <1>11, MadeAreRegs, SameTasks, SamePending DEF IInv, TypeOK, MadeInv, MapInv, AliveInv,
      ClosureInv, InterruptFollowsCancel, Alive, InMap, ForgetCompleted, flags, owners,
      ghosts
<1>12. ASSUME Quiet
       PROVE  ClosureInv'
  BY <1>12, MadeAreRegs, SameTasks, SamePending DEF IInv, TypeOK, MadeInv, MapInv, AliveInv,
      ClosureInv, InterruptFollowsCancel, Alive, InMap, Quiet, registry, map, flags, owners,
      ghosts
<1> QED
  BY <1>1, <1>2, <1>3, <1>4, <1>5, <1>6, <1>7, <1>8, <1>9, <1>10, <1>11, <1>12
  DEF RegistryStep

\* No step unsettles a registration.
LEMMA SettledStep ==
  ASSUME IInv, RegistryStep
  PROVE  StaysSettled
<1>1. ASSUME NEW e \in ExecIds, NEW k \in Kinds, NEW n \in Conns, Register(e, k, n)
      PROVE  StaysSettled
  <2>0. PICK new, previous : new = nextReg + 1 /\ previous = inner[e]
    OBVIOUS
  <2>1. /\ new \in Regs /\ new \notin Made /\ Made' = Made \cup {new} /\ Made \subseteq Regs
        /\ task'[new] = [exec |-> e, kind |-> k, conn |-> n] /\ ~Replaced(new)'
        /\ \A r \in Made : task'[r] = task[r] /\ (Tracked(r)' <=> Tracked(r))
        /\ \A r \in Made : Replaced(r)' <=> Replaced(r) \/ task[r].exec = e
    BY <1>1, <2>0, RegisterTasks, MadeAreRegs DEF IInv
  <2>2. /\ inner'[e] = new /\ \A x \in ExecIds \ {e} : inner'[x] = inner[x]
        /\ \A r \in Made : guard'[r] = guard[r]
        /\ UNCHANGED cancelled
    BY <1>1, <2>0, RegisterStep
  <2>3. \A op, q : Pending(op, q)' <=>
          \/ Pending(op, q)
          \/ /\ previous # NoReg
             /\ \/ op \in {"cancel", "complete"} /\ q = previous
                \/ op = "interrupt" /\ q = interrupt[previous] /\ q # NoReg
    BY <1>1, <2>0, RegisterPending
  <2>4. ASSUME NEW r \in Made, InMap(r) PROVE InMap(r)' \/ Settled(r)'
    <3>1. task[r].exec \in ExecIds /\ r # NoReg
      BY <2>1, MadeAreRegs DEF IInv, MadeInv
    <3>2. CASE task[r].exec = e
      BY <2>0, <2>3, <2>4, <3>1, <3>2 DEF InMap, Settled
    <3>3. CASE task[r].exec # e
      BY <2>1, <2>2, <2>4, <3>1, <3>3 DEF InMap
    <3> QED
      BY <3>2, <3>3
  <2>5. ASSUME NEW r \in Made, Settled(r) PROVE Settled(r)'
    BY <2>2, <2>3, <2>5 DEF Settled
  <2> QED
    BY <2>4, <2>5 DEF StaysSettled
<1>2. ASSUME NEW r \in Regs, SetPoolKey(r)
      PROVE  StaysSettled
  BY <1>2, MadeAreRegs, SameTasks, SamePending DEF IInv, TypeOK, StaysSettled, Settled,
      MadeInv, MapInv, Alive, InMap, SetPoolKey, map, flags
<1>3. ASSUME NEW r \in Regs, RegisterInterrupt(r)
      PROVE  StaysSettled
  BY <1>3, MadeAreRegs, SameTasks, SamePending, InterruptPending DEF IInv, StaysSettled,
      Settled, MadeInv, MapInv, Alive, InMap, RegisterInterrupt, map, flags, ghosts, callers
<1>4. ASSUME NEW r \in Regs, StartStatement(r)
      PROVE  StaysSettled
  BY <1>4, MadeAreRegs, SameTasks, SamePending DEF IInv, TypeOK, StaysSettled, Settled,
      MadeInv, MapInv, Alive, InMap, StartStatement, registry, map, flags
<1>5. ASSUME NEW r \in Regs, EndStatement(r)
      PROVE  StaysSettled
  BY <1>5, MadeAreRegs, SameTasks, SamePending DEF IInv, TypeOK, StaysSettled, Settled,
      MadeInv, MapInv, Alive, InMap, EndStatement, registry, map, flags
<1>6. ASSUME NEW r \in Regs, Detach(r)
      PROVE  StaysSettled
  BY <1>6, MadeAreRegs, SameTasks, SamePending DEF IInv, TypeOK, StaysSettled, Settled,
      MadeInv, MapInv, Alive, InMap, Detach, registry, map, flags
<1>7. ASSUME NEW r \in Regs, Drops(r)
      PROVE  StaysSettled
  BY <1>7, MadeAreRegs, SameTasks, DropPending, DropStep DEF IInv, StaysSettled, Settled,
      MadeInv, MapInv, Alive, InMap
<1>8. ASSUME NEW t \in Threads, Perform(t)
      PROVE  StaysSettled
  BY <1>8, MadeAreRegs, SameTasks, PerformEffect, PerformStep DEF IInv, StaysSettled, Settled,
      MadeInv, MapInv, Alive, InMap
<1>9. ASSUME NEW c \in Callers, NEW e \in ExecIds, Cancels(c, e)
      PROVE  StaysSettled
  BY <1>9, MadeAreRegs, SameTasks, CancelPending, CancelStep DEF IInv, StaysSettled, Settled,
      MadeInv, MapInv, Alive, InMap
<1>10. ASSUME NEW n \in Conns, CancelLifecycle(n)
       PROVE  StaysSettled
  BY <1>10, MadeAreRegs, SameTasks, SamePending DEF IInv, TypeOK, StaysSettled, Settled,
      MadeInv, MapInv, Alive, InMap, CancelLifecycle, map, owners
<1>11. ASSUME NEW e \in ExecIds, ForgetCompleted(e)
       PROVE  StaysSettled
  BY <1>11, MadeAreRegs, SameTasks, SamePending DEF IInv, TypeOK, StaysSettled, Settled,
      MadeInv, MapInv, Alive, InMap, ForgetCompleted, flags, owners
<1>12. ASSUME Quiet
       PROVE  StaysSettled
  BY <1>12, MadeAreRegs, SameTasks, SamePending DEF IInv, TypeOK, StaysSettled, Settled,
      MadeInv, MapInv, Alive, InMap, Quiet, registry, map, flags, owners
<1> QED
  BY <1>1, <1>2, <1>3, <1>4, <1>5, <1>6, <1>7, <1>8, <1>9, <1>10, <1>11, <1>12
  DEF RegistryStep

-----------------------------------------------------------------------------
(* Completion and cancellation *)

\* More registrations have been told to stop.
LEMMA ToldMore ==
  ASSUME NEW s, NEW S, NEW T, S \subseteq T, Told(s, S)
  PROVE  Told(s, T)
BY DEF Told

\* Completion is to be published for who has been told to stop.
LEMMA ToldAll ==
  ASSUME NEW s, NEW S, \A q \in Regs : Holds(s, "complete", q) => q \in S
  PROVE  Told(s, S)
BY DEF Told, Holds

\* The effects for a displaced registration begin with its cancellation.
LEMMA ToldDisplaced ==
  ASSUME TypeOK, NEW r \in Regs, NEW S
  PROVE  Told(DisplacedTail(r), S)
<1>1. PICK two : two = <<[op |-> "cancel", reg |-> r], [op |-> "complete", reg |-> r]>>
  OBVIOUS
<1>2. two \in Seq(Effects) /\ Len(two) = 2 /\ two[1] = [op |-> "cancel", reg |-> r]
  BY <1>1 DEF Effects, Ops
<1>3. PICK t \in Seq(Effects) : t = InterruptTail(r)
  BY InterruptEffects
<1>4. PICK s : s = DisplacedTail(r)
  OBVIOUS
<1>5. s = two \o t
  BY <1>1, <1>3, <1>4 DEF DisplacedTail, Regs, NoReg
<1>6. s \in Seq(Effects) /\ Len(s) \in Nat /\ s[1] = [op |-> "cancel", reg |-> r]
  BY <1>2, <1>3, <1>5, ConcatProperties
<1>7. ASSUME NEW i \in 1..Len(s), NEW q \in Regs, s[i] = [op |-> "complete", reg |-> q]
      PROVE  \E j \in 1..(i - 1) : s[j] = [op |-> "cancel", reg |-> q]
  <2>1. Holds(s, "complete", q)
    BY <1>7 DEF Holds
  <2>2. q = r
    BY <1>4, <2>1, DisplacedEffects
  <2>3. i # 1
    <3>1. [op |-> "complete", reg |-> q] # [op |-> "cancel", reg |-> r]
      OBVIOUS
    <3> QED
      BY <1>6, <1>7, <3>1
  <2>4. 1 \in 1..(i - 1)
    BY <1>6, <2>3
  <2> QED
    BY <1>6, <2>2, <2>4
<1> QED
  BY <1>4, <1>7 DEF Told

\* The first effect is performed: when it cancels, its registration has been told.
LEMMA ToldTail ==
  ASSUME NEW s \in Seq(Effects), s # <<>>, NEW S, NEW T, S \subseteq T, Told(s, S),
         NEW f, f = Head(s), f.op = "cancel" => f.reg \in T
  PROVE  /\ Told(Tail(s), T)
         /\ f.op = "complete" => f.reg \in S
<1>1. Len(s) \in Nat /\ Len(s) # 0 /\ f = s[1] /\ f \in Effects
  OBVIOUS
<1>2. /\ Len(Tail(s)) = Len(s) - 1
      /\ \A i \in 1..Len(Tail(s)) : Tail(s)[i] = s[i + 1]
  BY <1>1
<1>3. f = [op |-> f.op, reg |-> f.reg] /\ f.reg \in Regs
  BY <1>1 DEF Effects
<1>4. ASSUME f.op = "complete" PROVE f.reg \in S
  <2>1. 1 \in 1..Len(s) /\ s[1] = [op |-> "complete", reg |-> f.reg]
    BY <1>1, <1>3, <1>4
  <2>2. f.reg \in S \/ \E j \in 1..(1 - 1) : s[j] = [op |-> "cancel", reg |-> f.reg]
    BY <1>3, <2>1 DEF Told
  <2> QED
    BY <2>2
<1>5. ASSUME NEW i \in 1..Len(Tail(s)), NEW q \in Regs,
             Tail(s)[i] = [op |-> "complete", reg |-> q], q \notin T
      PROVE  \E j \in 1..(i - 1) : Tail(s)[j] = [op |-> "cancel", reg |-> q]
  <2>1. i + 1 \in 1..Len(s) /\ s[i + 1] = [op |-> "complete", reg |-> q] /\ q \notin S
    BY <1>1, <1>2, <1>5
  <2>2. PICK j \in 1..((i + 1) - 1) : s[j] = [op |-> "cancel", reg |-> q]
    BY <2>1 DEF Told
  <2>3. j # 1
    <3>1. ASSUME j = 1 PROVE q \in T
      <4>1. f = [op |-> "cancel", reg |-> q]
        BY <1>1, <2>2, <3>1
      <4>2. f.op = "cancel" /\ f.reg = q
        BY <4>1
      <4> QED
        BY <4>2
    <3> QED
      BY <1>5, <3>1
  <2>4. j - 1 \in 1..(i - 1) /\ j - 1 \in 1..Len(Tail(s)) /\ (j - 1) + 1 = j
    BY <1>1, <1>2, <2>2, <2>3
  <2>5. Tail(s)[j - 1] = s[j]
    BY <1>2, <2>4
  <2> QED
    BY <2>2, <2>4, <2>5
<1> QED
  BY <1>4, <1>5 DEF Told

\* Who has been told to stop, or has finished, remains so.
LEMMA StoppedStays ==
  ASSUME IInv, RegistryStep
  PROVE  Stopped \subseteq Stopped'
<1>1. ASSUME NEW e \in ExecIds, NEW k \in Kinds, NEW n \in Conns, Register(e, k, n)
      PROVE  Stopped \subseteq Stopped'
  <2>1. PICK new : new = nextReg + 1
    OBVIOUS
  <2>2. new \in Regs \ Made /\ guard' = [guard EXCEPT ![new] = "held"] /\ UNCHANGED cancelled
    BY <1>1, <2>1, RegisterTasks DEF Register, flags
  <2>3. guard[new] = "none" /\ guard \in [Regs -> GuardStates]
    BY <2>2 DEF IInv, MadeInv, TypeOK
  <2> QED
    BY <2>2, <2>3 DEF Stopped
<1>2. ASSUME NEW r \in Regs,
             SetPoolKey(r) \/ RegisterInterrupt(r) \/ StartStatement(r) \/ EndStatement(r)
      PROVE  Stopped \subseteq Stopped'
  BY <1>2 DEF SetPoolKey, RegisterInterrupt, StartStatement, EndStatement, registry, flags,
     Stopped
<1>3. ASSUME NEW r \in Regs, Detach(r) PROVE Stopped \subseteq Stopped'
  BY <1>3 DEF Detach, registry, flags, Stopped, IInv, TypeOK
<1>4. ASSUME NEW r \in Regs, Drops(r) PROVE Stopped \subseteq Stopped'
  BY <1>4 DEF Drops, flags, Stopped, IInv, TypeOK
<1>5. ASSUME NEW t \in Threads, Perform(t) PROVE Stopped \subseteq Stopped'
  <2>1. cancelled \subseteq cancelled' /\ UNCHANGED guard
    BY <1>5 DEF Perform, owners
  <2> QED
    BY <2>1 DEF Stopped
<1>6. ASSUME NEW c \in Callers, NEW e \in ExecIds, Cancels(c, e) PROVE Stopped \subseteq Stopped'
  BY <1>6 DEF Cancels, CancelEntry, owners, Stopped
<1>7. ASSUME NEW n \in Conns, CancelLifecycle(n) PROVE Stopped \subseteq Stopped'
  BY <1>7 DEF CancelLifecycle, owners, Stopped
<1>8. ASSUME NEW e \in ExecIds, ForgetCompleted(e) PROVE Stopped \subseteq Stopped'
  BY <1>8 DEF ForgetCompleted, flags, owners, Stopped
<1>9. ASSUME Quiet PROVE Stopped \subseteq Stopped'
  BY <1>9 DEF Quiet, registry, flags, owners, Stopped
<1> QED
  BY <1>1, <1>2, <1>3, <1>4, <1>5, <1>6, <1>7, <1>8, <1>9 DEF RegistryStep

\* Completion is published for nobody who still works unaware.
LEMMA StopStep ==
  ASSUME IInv, RegistryStep
  PROVE  StopInv'
<1>1. Stopped \subseteq Stopped' /\ TypeOK /\ todo \in [Threads -> Seq(Effects)]
  BY StoppedStays DEF IInv, TypeOK
<1>2. done \subseteq Stopped /\ \A t \in Threads : Told(todo[t], Stopped)
  BY DEF IInv, StopInv
<1>3. \A t \in Threads : Told(todo[t], Stopped')
  BY <1>1, <1>2, ToldMore
<1>4. ASSUME UNCHANGED <<done, todo>> PROVE StopInv'
  BY <1>1, <1>2, <1>3, <1>4 DEF StopInv
<1>5. ASSUME UNCHANGED done, NEW t \in Threads, NEW s, todo' = [todo EXCEPT ![t] = s],
             Told(s, Stopped')
      PROVE  StopInv'
  <2>1. \A u \in Threads : todo'[u] = todo[u] \/ todo'[u] = s
    BY <1>1, <1>5
  <2>2. \A u \in Threads : Told(todo'[u], Stopped')
    BY <1>3, <1>5, <2>1
  <2> QED
    BY <1>1, <1>2, <1>5, <2>2 DEF StopInv
<1>6. ASSUME NEW S PROVE Told(<<>>, S)
  BY DEF Told
<1>7. ASSUME NEW e \in ExecIds, NEW k \in Kinds, NEW n \in Conns, Register(e, k, n)
      PROVE  StopInv'
  <2>1. PICK new : new = nextReg + 1
    OBVIOUS
  <2>2. /\ new \in Regs /\ UNCHANGED done
        /\ todo' = [todo EXCEPT ![new] = DisplacedTail(inner[e])]
    BY <1>7, <2>1 DEF Register, flags
  <2>3. new \in Threads
    BY <2>2 DEF Threads
  <2>4. Told(DisplacedTail(inner[e]), Stopped')
    <3>1. CASE inner[e] = NoReg
      BY <1>6, <3>1 DEF DisplacedTail
    <3>2. CASE inner[e] # NoReg
      <4>1. inner[e] \in Regs
        BY <3>2 DEF IInv, TypeOK
      <4> QED
        BY <1>1, <4>1, ToldDisplaced
    <3> QED
      BY <3>1, <3>2
  <2> QED
    BY <1>5, <2>2, <2>3, <2>4
<1>8. ASSUME NEW r \in Regs, SetPoolKey(r) \/ StartStatement(r) \/ EndStatement(r) \/ Detach(r)
      PROVE  StopInv'
  BY <1>4, <1>8 DEF SetPoolKey, StartStatement, EndStatement, Detach, registry, flags
<1>9. ASSUME NEW r \in Regs, RegisterInterrupt(r) PROVE StopInv'
  <2>1. r \in Threads /\ UNCHANGED done
    BY <1>9 DEF RegisterInterrupt, flags, Threads
  <2>2. Told(<<[op |-> "interrupt", reg |-> r]>>, Stopped')
    <3>1. \A q \in Regs : ~Holds(<<[op |-> "interrupt", reg |-> r]>>, "complete", q)
      BY OneEffect DEF Ops
    <3> QED
      BY <3>1, ToldAll
  <2> QED
    BY <1>4, <1>5, <1>9, <2>1, <2>2 DEF RegisterInterrupt
<1>10. ASSUME NEW r \in Regs, Drops(r) PROVE StopInv'
  <2>1. r \in Threads /\ UNCHANGED done /\ r \in Stopped'
    BY <1>10 DEF Drops, flags, Threads, Stopped, IInv, TypeOK
  <2>2. Told(<<[op |-> "complete", reg |-> r]>>, Stopped')
    <3>1. \A q \in Regs : Holds(<<[op |-> "complete", reg |-> r]>>, "complete", q) => q \in Stopped'
      BY <2>1, OneEffect DEF Ops
    <3> QED
      BY <3>1, ToldAll
  <2>3. \/ todo' = [todo EXCEPT ![r] = <<[op |-> "complete", reg |-> r]>>]
        \/ todo' = [todo EXCEPT ![r] = <<>>]
    BY <1>10 DEF Drops, Remove
  <2> QED
    BY <1>5, <1>6, <2>1, <2>2, <2>3
<1>11. ASSUME NEW t \in Threads, Perform(t) PROVE StopInv'
  <2>1. PICK f : f = Head(todo[t])
    OBVIOUS
  <2>2. /\ todo[t] # <<>> /\ todo[t] \in Seq(Effects)
        /\ todo' = [todo EXCEPT ![t] = Tail(todo[t])]
    BY <1>1, <1>11 DEF Perform
  <2>3. f \in Effects /\ f.reg \in Regs
    <3>1. f \in Effects
      BY <2>1, <2>2
    <3> QED
      BY <3>1 DEF Effects
  <2>4. f.op = "cancel" => f.reg \in Stopped'
    BY <1>11, <2>1, <2>3 DEF Perform, Stopped
  <2>5. Told(Tail(todo[t]), Stopped') /\ (f.op = "complete" => f.reg \in Stopped)
    BY <1>1, <1>2, <2>1, <2>2, <2>4, ToldTail
  <2>6. \A u \in Threads : todo'[u] = todo[u] \/ todo'[u] = Tail(todo[t])
    BY <1>1, <2>2
  <2>7. \A u \in Threads : Told(todo'[u], Stopped')
    BY <1>3, <2>5, <2>6
  <2>8. done' = IF f.op = "complete" THEN done \cup {f.reg} ELSE done
    BY <1>11, <2>1 DEF Perform
  <2>9. done' \subseteq Stopped'
    BY <1>1, <1>2, <2>5, <2>8
  <2> QED
    BY <2>7, <2>9 DEF StopInv
<1>12. ASSUME NEW c \in Callers, NEW e \in ExecIds, Cancels(c, e) PROVE StopInv'
  <2>1. PICK r : r = inner[e]
    OBVIOUS
  <2>2. /\ c \in Threads /\ UNCHANGED done /\ r \in Regs /\ r \in cancelled'
        /\ todo' = [todo EXCEPT ![c] = CancelTail(r)]
    BY <1>12, <2>1 DEF Cancels, CancelEntry, Threads, IInv, TypeOK
  <2>3. \A q \in Regs : Holds(CancelTail(r), "complete", q) => q \in Stopped'
    <3>1. \A q : Holds(CancelTail(r), "complete", q) => q = r
      BY <1>1, <2>2, CancelEffects
    <3> QED
      BY <2>2, <3>1 DEF Stopped
  <2>4. Told(CancelTail(r), Stopped')
    BY <2>3, ToldAll
  <2> QED
    BY <1>5, <2>2, <2>4
<1>13. ASSUME NEW n \in Conns, CancelLifecycle(n) PROVE StopInv'
  BY <1>4, <1>13 DEF CancelLifecycle
<1>14. ASSUME NEW e \in ExecIds, ForgetCompleted(e) PROVE StopInv'
  BY <1>4, <1>14 DEF ForgetCompleted, flags
<1>15. ASSUME Quiet PROVE StopInv'
  BY <1>4, <1>15 DEF Quiet, registry, flags
<1> QED
  BY <1>7, <1>8, <1>9, <1>10, <1>11, <1>12, <1>13, <1>14, <1>15 DEF RegistryStep

-----------------------------------------------------------------------------
(* Types, calls and matches *)

\* Threads have effects to perform.
LEMMA TodoStep ==
  ASSUME IInv, RegistryStep
  PROVE  todo' \in [Threads -> Seq(Effects)]
<1>1. ASSUME NEW e \in ExecIds, NEW k \in Kinds, NEW n \in Conns, Register(e, k, n)
      PROVE  todo' \in [Threads -> Seq(Effects)]
  BY <1>1, RegisterPending
<1>2. ASSUME NEW r \in Regs, SetPoolKey(r)
      PROVE  todo' \in [Threads -> Seq(Effects)]
  BY <1>2, SameTasks, SamePending DEF IInv, TypeOK, SetPoolKey
<1>3. ASSUME NEW r \in Regs, RegisterInterrupt(r)
      PROVE  todo' \in [Threads -> Seq(Effects)]
  BY <1>3, InterruptPending
<1>4. ASSUME NEW r \in Regs, StartStatement(r)
      PROVE  todo' \in [Threads -> Seq(Effects)]
  BY <1>4, SameTasks, SamePending DEF IInv, TypeOK, StartStatement
<1>5. ASSUME NEW r \in Regs, EndStatement(r)
      PROVE  todo' \in [Threads -> Seq(Effects)]
  BY <1>5, SameTasks, SamePending DEF IInv, TypeOK, EndStatement
<1>6. ASSUME NEW r \in Regs, Detach(r)
      PROVE  todo' \in [Threads -> Seq(Effects)]
  BY <1>6, SameTasks, SamePending DEF IInv, TypeOK, Detach
<1>7. ASSUME NEW r \in Regs, Drops(r)
      PROVE  todo' \in [Threads -> Seq(Effects)]
  BY <1>7, DropPending
<1>8. ASSUME NEW t \in Threads, Perform(t)
      PROVE  todo' \in [Threads -> Seq(Effects)]
  BY <1>8, PerformEffect
<1>9. ASSUME NEW c \in Callers, NEW e \in ExecIds, Cancels(c, e)
      PROVE  todo' \in [Threads -> Seq(Effects)]
  BY <1>9, CancelPending
<1>10. ASSUME NEW n \in Conns, CancelLifecycle(n)
       PROVE  todo' \in [Threads -> Seq(Effects)]
  BY <1>10, SameTasks, SamePending DEF IInv, TypeOK, CancelLifecycle
<1>11. ASSUME NEW e \in ExecIds, ForgetCompleted(e)
       PROVE  todo' \in [Threads -> Seq(Effects)]
  BY <1>11, SameTasks, SamePending DEF IInv, TypeOK, ForgetCompleted
<1>12. ASSUME Quiet
       PROVE  todo' \in [Threads -> Seq(Effects)]
  BY <1>12, SameTasks, SamePending DEF IInv, TypeOK, Quiet
<1> QED
  BY <1>1, <1>2, <1>3, <1>4, <1>5, <1>6, <1>7, <1>8, <1>9, <1>10, <1>11, <1>12
  DEF RegistryStep

\* Every step keeps the types.
LEMMA TypeStep ==
  ASSUME IInv, [Next]_vars
  PROVE  TypeOK'
<1>1. ASSUME NEW e \in ExecIds, NEW k \in Kinds, NEW n \in Conns, Register(e, k, n)
      PROVE  TypeOK'

  <2>0. PICK new, previous : new = nextReg + 1 /\ previous = inner[e]
    OBVIOUS
  <2>1. new \in Regs /\ nextReg' = new /\ new \in 0..MaxReg
    BY <1>1, <2>0 DEF Register, Regs
  <2>2. todo' \in [Threads -> Seq(Effects)]
    BY <1>1, RegisterPending
  <2>3. [exec |-> e, kind |-> k, conn |-> n] \in Task
    BY DEF Task
  <2>4. task' \in [Regs -> Task]
    BY <1>1, <2>0, <2>1, <2>3 DEF Register, IInv, TypeOK
  <2>5. inner' \in [ExecIds -> Regs \cup {NoReg}] /\ completed' \in [ExecIds -> Regs \cup {NoReg}]
    BY <1>1, <2>0, <2>1 DEF Register, IInv, TypeOK
  <2>6. interrupt' \in [Regs -> Regs \cup {NoReg}]
    BY <1>1, <2>0 DEF Register, IInv, TypeOK
  <2>7. guard' \in [Regs -> GuardStates] /\ stmt' \in [Regs -> StmtStates]
    BY <1>1, <2>0, <2>1 DEF Register, IInv, TypeOK, GuardStates, StmtStates
  <2>8. asked' \subseteq Regs
    BY <1>1, <2>0 DEF Register, IInv, TypeOK
  <2> QED
    BY <1>1, <2>1, <2>2, <2>4, <2>5, <2>6, <2>7, <2>8 DEF Register, IInv, TypeOK, flags, callers
<1>2. ASSUME NEW r \in Regs, SetPoolKey(r)
      PROVE  TypeOK'
  BY <1>2, TodoStep, EveryStep, RegistryAssumption DEF IInv, TypeOK, CallInv, Regs, Task,
      Request, NoRequest, GuardStates, StmtStates, Kinds, NoReg, SetPoolKey, map, flags,
      ghosts, callers
<1>3. ASSUME NEW r \in Regs, RegisterInterrupt(r)
      PROVE  TypeOK'

  <2>1. PICK q : q = inner[task[r].exec]
    OBVIOUS
  <2>2. todo' \in [Threads -> Seq(Effects)]
    BY <1>3, <2>1, InterruptPending
  <2>3. interrupt' = interrupt \/ interrupt' = [interrupt EXCEPT ![q] = r]
    BY <1>3, <2>1, InterruptPending
  <2>4. interrupt' \in [Regs -> Regs \cup {NoReg}]
    BY <2>3 DEF IInv, TypeOK
  <2>5. handed' \subseteq Regs
    BY <1>3 DEF RegisterInterrupt, IInv, TypeOK
  <2> QED
    BY <1>3, <2>2, <2>4, <2>5
    DEF RegisterInterrupt, IInv, TypeOK, map, flags, ghosts, callers
<1>4. ASSUME NEW r \in Regs, StartStatement(r)
      PROVE  TypeOK'
  BY <1>4, TodoStep, EveryStep, RegistryAssumption DEF IInv, TypeOK, CallInv, Regs, Task,
      Request, NoRequest, GuardStates, StmtStates, Kinds, NoReg, StartStatement, registry,
      map, flags, ghosts, callers
<1>5. ASSUME NEW r \in Regs, EndStatement(r)
      PROVE  TypeOK'
  BY <1>5, TodoStep, EveryStep, RegistryAssumption DEF IInv, TypeOK, CallInv, Regs, Task,
      Request, NoRequest, GuardStates, StmtStates, Kinds, NoReg, EndStatement, registry,
      map, flags, ghosts, callers
<1>6. ASSUME NEW r \in Regs, Detach(r)
      PROVE  TypeOK'
  BY <1>6, TodoStep, EveryStep, RegistryAssumption DEF IInv, TypeOK, CallInv, Regs, Task,
      Request, NoRequest, GuardStates, StmtStates, Kinds, NoReg, Detach, registry, map,
      flags, ghosts, callers
<1>7. ASSUME NEW r \in Regs, NEW terminal \in BOOLEAN, Finish(r, terminal)
      PROVE  TypeOK'
  BY <1>7, TodoStep, EveryStep, RegistryAssumption DEF IInv, TypeOK, CallInv, Regs, Task,
      Request, NoRequest, GuardStates, StmtStates, Kinds, NoReg, Finish, ResultProves,
      Remove, flags, ghosts, callers
<1>8. ASSUME NEW r \in Regs, GraceOver(r)
      PROVE  TypeOK'
  BY <1>8, TodoStep, EveryStep, RegistryAssumption DEF IInv, TypeOK, CallInv, Regs, Task,
      Request, NoRequest, GuardStates, StmtStates, Kinds, NoReg, GraceOver, Remove, flags,
      ghosts, callers
<1>9. ASSUME NEW t \in Threads, Perform(t)
      PROVE  TypeOK'

  <2>1. PICK f : f = Head(todo[t])
    OBVIOUS
  <2>2. f.reg \in Regs /\ todo' \in [Threads -> Seq(Effects)]
    BY <1>9, <2>1, PerformEffect
  <2>3. /\ cancelled' \subseteq cancelled \cup {f.reg} /\ done' \subseteq done \cup {f.reg}
        /\ fired' \subseteq fired \cup {f.reg}
    BY <1>9, <2>1 DEF Perform
  <2> QED
    BY <1>9, <2>1, <2>2, <2>3, PerformStep DEF IInv, TypeOK
<1>10. ASSUME NEW c \in Callers, NEW e \in ExecIds, Cancel(c, e)
       PROVE  TypeOK'
  <2>1. inner' \in [ExecIds -> Regs \cup {NoReg}] /\ interrupt' \in [Regs -> Regs \cup {NoReg}]
    BY <1>10 DEF Cancel, CancelEntry, NothingToCancel, IInv, TypeOK
  <2>2. cancelled' \subseteq Regs /\ asked' \subseteq Regs
    BY <1>10 DEF Cancel, CancelEntry, NothingToCancel, IInv, TypeOK
  <2>3. todo' \in [Threads -> Seq(Effects)]
    <3>1. CallerStep(c)
      BY <1>10 DEF CallerStep
    <3> QED
      BY <3>1, CallerIsRegistryStep, TodoStep DEF RegistryStep
  <2> QED
    BY <1>10, <2>1, <2>2, <2>3 DEF Cancel, IInv, TypeOK, owners, callers
<1>11. ASSUME NEW c \in Callers, NEW e \in ExecIds, NEW cancel \in BOOLEAN,
              Subscribe(c, e, cancel)
       PROVE  TypeOK'
  BY <1>11, TodoStep, EveryStep, RegistryAssumption DEF IInv, TypeOK, CallInv, Regs, Task,
      Request, NoRequest, GuardStates, StmtStates, Kinds, NoReg, Subscribe, registry, map,
      flags, owners, ghosts
<1>12. ASSUME NEW c \in Callers, CancelSubscribed(c)
       PROVE  TypeOK'
  <2>0. req[c].id \in ExecIds
    BY <1>12 DEF CancelSubscribed, IInv, CallInv
  <2>1. inner' \in [ExecIds -> Regs \cup {NoReg}] /\ interrupt' \in [Regs -> Regs \cup {NoReg}]
    BY <1>12, <2>0 DEF CancelSubscribed, CancelEntry, NothingToCancel, IInv, TypeOK
  <2>2. cancelled' \subseteq Regs /\ asked' \subseteq Regs
    BY <1>12, <2>0 DEF CancelSubscribed, CancelEntry, NothingToCancel, IInv, TypeOK
  <2>3. todo' \in [Threads -> Seq(Effects)]
    <3>1. CallerStep(c)
      BY <1>12, <2>0 DEF CallerStep
    <3> QED
      BY <3>1, CallerIsRegistryStep, TodoStep DEF RegistryStep
  <2>4. PICK x \in {"requested", "none"} : req' = [req EXCEPT ![c].cancel = x]
    BY <1>12 DEF CancelSubscribed
  <2>5. req[c] \in Request
    BY DEF IInv, TypeOK
  <2>6. req' \in [Callers -> Request]
    BY <2>4, <2>5 DEF IInv, TypeOK, Request
  <2> QED
    BY <1>12, <2>1, <2>2, <2>3, <2>6 DEF CancelSubscribed, IInv, TypeOK, owners
<1>13. ASSUME NEW c \in Callers, NEW terminal \in BOOLEAN, WaitEnds(c, terminal)
       PROVE  TypeOK'

  <2>1. req[c] \in Request
    BY DEF IInv, TypeOK
  <2>2. PICK x \in {"none", "requested", "terminal"} : req' = [req EXCEPT ![c].cancel = x]
    BY <1>13, <2>1 DEF WaitEnds, Request
  <2>3. req' \in [Callers -> Request]
    BY <2>1, <2>2 DEF IInv, TypeOK, Request
  <2> QED
    BY <1>13, <2>3 DEF WaitEnds, IInv, TypeOK, registry, map, flags, owners, ghosts
<1>14. ASSUME NEW c \in Callers, ReadCompleted(c)
       PROVE  TypeOK'
  BY <1>14, TodoStep, EveryStep, RegistryAssumption DEF IInv, TypeOK, CallInv, Regs, Task,
      Request, NoRequest, GuardStates, StmtStates, Kinds, NoReg, ReadCompleted, Answers,
      registry, map, flags, owners, ghosts
<1>15. ASSUME NEW c \in Callers, NEW n \in Conns, CollectMatching(c, n)
       PROVE  TypeOK'

  <2>1. PICK matching : matching = {e \in ExecIds : inner[e] # NoReg /\ task[inner[e]].conn = n}
    OBVIOUS
  <2>2. PICK seen : seen = {inner[e] : e \in matching}
    OBVIOUS
  <2>3. matching \in SUBSET ExecIds /\ seen \in SUBSET Regs
    BY <2>1, <2>2 DEF IInv, TypeOK
  <2>4. req' = [req EXCEPT ![c] = [NoRequest EXCEPT !.ids = matching, !.seen = seen]]
    BY <1>15, <2>1, <2>2 DEF CollectMatching
  <2>5. [NoRequest EXCEPT !.ids = matching, !.seen = seen] \in Request
    BY <2>3 DEF NoRequest, Request
  <2>6. req' \in [Callers -> Request]
    BY <2>4, <2>5 DEF IInv, TypeOK
  <2> QED
    BY <1>15, <2>6 DEF CollectMatching, IInv, TypeOK, registry, map, flags, owners, ghosts
<1>16. ASSUME NEW c \in Callers, NEW e \in ExecIds, CancelMatching(c, e)
       PROVE  TypeOK'
  <2>1. inner' \in [ExecIds -> Regs \cup {NoReg}] /\ interrupt' \in [Regs -> Regs \cup {NoReg}]
    BY <1>16 DEF CancelMatching, CancelEntry, NothingToCancel, IInv, TypeOK
  <2>2. cancelled' \subseteq Regs /\ asked' \subseteq Regs
    BY <1>16 DEF CancelMatching, CancelEntry, NothingToCancel, IInv, TypeOK
  <2>3. todo' \in [Threads -> Seq(Effects)]
    <3>1. CallerStep(c)
      BY <1>16 DEF CallerStep
    <3> QED
      BY <3>1, CallerIsRegistryStep, TodoStep DEF RegistryStep
  <2>4. req[c] \in Request /\ req' = [req EXCEPT ![c].ids = req[c].ids \ {e}]
    BY <1>16 DEF CancelMatching, IInv, TypeOK
  <2>5. req' \in [Callers -> Request]
    BY <2>4 DEF IInv, TypeOK, Request
  <2> QED
    BY <1>16, <2>1, <2>2, <2>3, <2>5 DEF CancelMatching, IInv, TypeOK, owners
<1>17. ASSUME NEW c \in Callers, MatchingDone(c)
       PROVE  TypeOK'
  BY <1>17, TodoStep, EveryStep, RegistryAssumption DEF IInv, TypeOK, CallInv, Regs, Task,
      Request, NoRequest, GuardStates, StmtStates, Kinds, NoReg, MatchingDone, registry,
      map, flags, owners, ghosts
<1>18. ASSUME NEW n \in Conns, CancelLifecycle(n)
       PROVE  TypeOK'
  BY <1>18, TodoStep, EveryStep, RegistryAssumption DEF IInv, TypeOK, CallInv, Regs, Task,
      Request, NoRequest, GuardStates, StmtStates, Kinds, NoReg, CancelLifecycle, map,
      owners, ghosts, callers
<1>19. ASSUME NEW e \in ExecIds, ForgetCompleted(e)
       PROVE  TypeOK'
  BY <1>19, TodoStep, EveryStep, RegistryAssumption DEF IInv, TypeOK, CallInv, Regs, Task,
      Request, NoRequest, GuardStates, StmtStates, Kinds, NoReg, ForgetCompleted, flags,
      owners, ghosts, callers
<1>20. ASSUME UNCHANGED vars
       PROVE  TypeOK'
  BY <1>20, TodoStep, EveryStep, RegistryAssumption DEF IInv, TypeOK, vars
<1> QED
  BY <1>1, <1>2, <1>3, <1>4, <1>5, <1>6, <1>7, <1>8, <1>9, <1>10, <1>11, <1>12,
     <1>13, <1>14, <1>15, <1>16, <1>17, <1>18, <1>19, <1>20
  DEF Next, OwnerStep, CallerStep

\* Calls.
LEMMA CallStep ==
  ASSUME IInv, [Next]_vars
  PROVE  CallInv'
<1>1. ASSUME NEW e \in ExecIds, NEW k \in Kinds, NEW n \in Conns, Register(e, k, n)
      PROVE  CallInv'
  <2>0. PICK new, previous : new = nextReg + 1 /\ previous = inner[e]
    OBVIOUS
  <2>1. /\ new \in Regs /\ new \notin Made /\ Made' = Made \cup {new} /\ Made \subseteq Regs
        /\ task'[new] = [exec |-> e, kind |-> k, conn |-> n] /\ ~Replaced(new)'
        /\ \A r \in Made : task'[r] = task[r] /\ (Tracked(r)' <=> Tracked(r))
    BY <1>1, <2>0, RegisterTasks, MadeAreRegs DEF IInv
  <2>2. /\ guard'[new] = "held" /\ \A r \in Regs : r # new => guard'[r] = guard[r]
        /\ \A t \in Threads : t # new => todo'[t] = todo[t]
        /\ UNCHANGED <<done, pc, req>>
    BY <1>1, <2>0, RegisterStep
  <2>3. new \notin Callers /\ Callers \subseteq Threads /\ Regs \subseteq Threads
    BY <2>1, RegistryAssumption DEF Regs, Threads
  <2> QED
    BY <2>1, <2>2, <2>3 DEF IInv, CallInv
<1>2. ASSUME NEW r \in Regs, SetPoolKey(r)
      PROVE  CallInv'
  BY <1>2, RegistryAssumption, MadeAreRegs, SameTasks, SamePending DEF IInv, TypeOK,
      MadeInv, MapInv, CallInv, NoRequest, NoReg, SetPoolKey, map, flags, callers
<1>3. ASSUME NEW r \in Regs, RegisterInterrupt(r)
      PROVE  CallInv'

  <2>1. /\ guard[r] = "held" /\ UNCHANGED <<nextReg, task, done, guard, pc, req>>
    BY <1>3 DEF RegisterInterrupt, map, flags, callers
  <2>2. \A t \in Threads \ {r} : todo'[t] = todo[t]
    BY <1>3 DEF RegisterInterrupt, IInv, TypeOK
  <2>3. r \notin Callers /\ Callers \subseteq Threads /\ Regs \subseteq Threads /\ Made' = Made
    BY <2>1, RegistryAssumption, SameTasks DEF Regs, Threads
  <2> QED
    BY <2>1, <2>2, <2>3 DEF IInv, CallInv
<1>4. ASSUME NEW r \in Regs, StartStatement(r)
      PROVE  CallInv'
  BY <1>4, RegistryAssumption, MadeAreRegs, SameTasks, SamePending DEF IInv, TypeOK,
      MadeInv, MapInv, CallInv, NoRequest, NoReg, StartStatement, registry, map, flags,
      callers
<1>5. ASSUME NEW r \in Regs, EndStatement(r)
      PROVE  CallInv'
  BY <1>5, RegistryAssumption, MadeAreRegs, SameTasks, SamePending DEF IInv, TypeOK,
      MadeInv, MapInv, CallInv, NoRequest, NoReg, EndStatement, registry, map, flags,
      callers
<1>6. ASSUME NEW r \in Regs, Detach(r)
      PROVE  CallInv'
  BY <1>6, RegistryAssumption, MadeAreRegs, SameTasks, SamePending DEF IInv, TypeOK,
      MadeInv, MapInv, CallInv, NoRequest, NoReg, Detach, registry, map, flags, callers
<1>7. ASSUME NEW r \in Regs, NEW terminal \in BOOLEAN, Finish(r, terminal)
      PROVE  CallInv'
  <2>1. Drops(r) /\ UNCHANGED <<pc, req>>
    BY <1>7, DropsGuard
  <2>2. /\ guard'[r] = "gone" /\ \A q \in Regs \ {r} : guard'[q] = guard[q]
        /\ \A t \in Threads \ {r} : todo'[t] = todo[t]
        /\ UNCHANGED <<nextReg, task, done>>
    BY <2>1, DropStep
  <2>3. r \notin Callers /\ Callers \subseteq Threads /\ Regs \subseteq Threads /\ Made' = Made
    BY <2>2, RegistryAssumption, SameTasks DEF Regs, Threads
  <2> QED
    BY <2>1, <2>2, <2>3 DEF IInv, CallInv
<1>8. ASSUME NEW r \in Regs, GraceOver(r)
      PROVE  CallInv'
  <2>1. Drops(r) /\ UNCHANGED <<pc, req>>
    BY <1>8, DropsGuard
  <2>2. /\ guard'[r] = "gone" /\ \A q \in Regs \ {r} : guard'[q] = guard[q]
        /\ \A t \in Threads \ {r} : todo'[t] = todo[t]
        /\ UNCHANGED <<nextReg, task, done>>
    BY <2>1, DropStep
  <2>3. r \notin Callers /\ Callers \subseteq Threads /\ Regs \subseteq Threads /\ Made' = Made
    BY <2>2, RegistryAssumption, SameTasks DEF Regs, Threads
  <2> QED
    BY <2>1, <2>2, <2>3 DEF IInv, CallInv
<1>9. ASSUME NEW t \in Threads, Perform(t)
      PROVE  CallInv'
  BY <1>9, RegistryAssumption, MadeAreRegs, SameTasks, PerformEffect DEF IInv, TypeOK,
      MadeInv, MapInv, CallInv, NoRequest, NoReg, Perform, map, owners, callers
<1>10. ASSUME NEW c \in Callers, NEW e \in ExecIds, Cancel(c, e)
       PROVE  CallInv'
  <2>1. CallerStep(c)
    BY <1>10 DEF CallerStep
  <2>2. Quiet \/ \E x \in ExecIds : Cancels(c, x)
    BY <2>1, CallerIsRegistryStep
  <2>3. (\A t \in Threads \ {c} : todo'[t] = todo[t]) /\ UNCHANGED <<nextReg, task, done, guard>>
    BY <2>2, CancelStep DEF Quiet, registry, map, flags, owners
  <2>4. c \notin Regs /\ Callers \subseteq Threads /\ Regs \subseteq Threads /\ Made' = Made
    BY <2>3, RegistryAssumption, SameTasks DEF Regs, Threads
  <2>5. pc[c] = "idle" /\ UNCHANGED <<pc, req>>
    BY <1>10 DEF Cancel, callers
  <2> QED
    BY <2>3, <2>4, <2>5 DEF IInv, CallInv
<1>11. ASSUME NEW c \in Callers, NEW e \in ExecIds, NEW cancel \in BOOLEAN,
              Subscribe(c, e, cancel)
       PROVE  CallInv'
  BY <1>11, RegistryAssumption, MadeAreRegs, SameTasks, SamePending DEF IInv, TypeOK,
      MadeInv, MapInv, CallInv, NoRequest, NoReg, Subscribe, registry, map, flags, owners
<1>12. ASSUME NEW c \in Callers, CancelSubscribed(c)
       PROVE  CallInv'
  <2>1. CallerStep(c)
    BY <1>12 DEF CallerStep
  <2>2. Quiet \/ \E x \in ExecIds : Cancels(c, x)
    BY <2>1, CallerIsRegistryStep
  <2>3. (\A t \in Threads \ {c} : todo'[t] = todo[t]) /\ UNCHANGED <<nextReg, task, done, guard>>
    BY <2>2, CancelStep DEF Quiet, registry, map, flags, owners
  <2>4. c \notin Regs /\ Callers \subseteq Threads /\ Regs \subseteq Threads /\ Made' = Made
    BY <2>3, RegistryAssumption, SameTasks DEF Regs, Threads
  <2>5. /\ pc[c] = "subscribed"
        /\ \E x \in {"requested", "none"} : req' = [req EXCEPT ![c].cancel = x]
        /\ \E x \in {"waiting", "reading"} : pc' = [pc EXCEPT ![c] = x]
    BY <1>12 DEF CancelSubscribed
  <2>6. /\ \A d \in Callers \ {c} : pc'[d] = pc[d] /\ req'[d] = req[d]
        /\ pc'[c] \in {"waiting", "reading"} /\ req'[c].cancel \in {"requested", "none"}
        /\ req'[c].id = req[c].id /\ req'[c].sub = req[c].sub /\ req'[c].seen = req[c].seen
    BY <2>5 DEF IInv, TypeOK, Request
  <2> QED
    BY <2>3, <2>4, <2>5, <2>6 DEF IInv, CallInv
<1>13. ASSUME NEW c \in Callers, NEW terminal \in BOOLEAN, WaitEnds(c, terminal)
       PROVE  CallInv'
  BY <1>13, RegistryAssumption, MadeAreRegs, SameTasks, SamePending DEF IInv, TypeOK,
      MadeInv, MapInv, CallInv, NoRequest, NoReg, WaitEnds, registry, map, flags, owners
<1>14. ASSUME NEW c \in Callers, ReadCompleted(c)
       PROVE  CallInv'
  BY <1>14, RegistryAssumption, MadeAreRegs, SameTasks, SamePending DEF IInv, TypeOK,
      MadeInv, MapInv, CallInv, NoRequest, NoReg, ReadCompleted, Answers, registry, map,
      flags, owners
<1>15. ASSUME NEW c \in Callers, NEW n \in Conns, CollectMatching(c, n)
       PROVE  CallInv'
  BY <1>15, RegistryAssumption, MadeAreRegs, SameTasks, SamePending DEF IInv, TypeOK,
      MadeInv, MapInv, CallInv, NoRequest, NoReg, CollectMatching, registry, map, flags,
      owners
<1>16. ASSUME NEW c \in Callers, NEW e \in ExecIds, CancelMatching(c, e)
       PROVE  CallInv'
  <2>1. CallerStep(c)
    BY <1>16 DEF CallerStep
  <2>2. Quiet \/ \E x \in ExecIds : Cancels(c, x)
    BY <2>1, CallerIsRegistryStep
  <2>3. (\A t \in Threads \ {c} : todo'[t] = todo[t]) /\ UNCHANGED <<nextReg, task, done, guard>>
    BY <2>2, CancelStep DEF Quiet, registry, map, flags, owners
  <2>4. c \notin Regs /\ Callers \subseteq Threads /\ Regs \subseteq Threads /\ Made' = Made
    BY <2>3, RegistryAssumption, SameTasks DEF Regs, Threads
  <2>5. pc[c] = "matching" /\ pc' = pc /\ \E x : req' = [req EXCEPT ![c].ids = x]
    BY <1>16 DEF CancelMatching
  <2>6. /\ \A d \in Callers \ {c} : req'[d] = req[d]
        /\ req'[c].cancel = req[c].cancel
        /\ req'[c].id = req[c].id /\ req'[c].sub = req[c].sub /\ req'[c].seen = req[c].seen
    BY <2>5 DEF IInv, TypeOK, Request
  <2> QED
    BY <2>3, <2>4, <2>5, <2>6 DEF IInv, CallInv
<1>17. ASSUME NEW c \in Callers, MatchingDone(c)
       PROVE  CallInv'
  BY <1>17, RegistryAssumption, MadeAreRegs, SameTasks, SamePending DEF IInv, TypeOK,
      MadeInv, MapInv, CallInv, NoRequest, NoReg, MatchingDone, registry, map, flags, owners
<1>18. ASSUME NEW n \in Conns, CancelLifecycle(n)
       PROVE  CallInv'
  BY <1>18, RegistryAssumption, MadeAreRegs, SameTasks, SamePending DEF IInv, TypeOK,
      MadeInv, MapInv, CallInv, NoRequest, NoReg, CancelLifecycle, map, owners, callers
<1>19. ASSUME NEW e \in ExecIds, ForgetCompleted(e)
       PROVE  CallInv'
  BY <1>19, RegistryAssumption, MadeAreRegs, SameTasks, SamePending DEF IInv, TypeOK,
      MadeInv, MapInv, CallInv, NoRequest, NoReg, ForgetCompleted, flags, owners, callers
<1>20. ASSUME UNCHANGED vars
       PROVE  CallInv'
  BY <1>20, RegistryAssumption, MadeAreRegs, SameTasks, SamePending DEF IInv, CallInv, Made,
      vars
<1> QED
  BY <1>1, <1>2, <1>3, <1>4, <1>5, <1>6, <1>7, <1>8, <1>9, <1>10, <1>11, <1>12,
     <1>13, <1>14, <1>15, <1>16, <1>17, <1>18, <1>19, <1>20
  DEF Next, OwnerStep, CallerStep

\* A registration keeps what it was made with.
LEMMA TasksStay ==
  ASSUME IInv, RegistryStep
  PROVE  \A r \in Made : task'[r] = task[r]
<1>1. ASSUME NEW e \in ExecIds, NEW k \in Kinds, NEW n \in Conns, Register(e, k, n)
      PROVE  \A r \in Made : task'[r] = task[r]
  BY <1>1, RegisterTasks
<1>2. ASSUME UNCHANGED task PROVE \A r \in Made : task'[r] = task[r]
  BY <1>2
<1>3. ASSUME NEW r \in Regs,
             SetPoolKey(r) \/ RegisterInterrupt(r) \/ StartStatement(r) \/ EndStatement(r)
               \/ Detach(r) \/ Drops(r)
      PROVE  UNCHANGED task
  BY <1>3 DEF SetPoolKey, RegisterInterrupt, StartStatement, EndStatement, Detach, Drops,
     registry, map
<1>4. ASSUME NEW t \in Threads, Perform(t) PROVE UNCHANGED task
  BY <1>4 DEF Perform, map
<1>5. ASSUME NEW c \in Callers, NEW e \in ExecIds, Cancels(c, e) PROVE UNCHANGED task
  BY <1>5 DEF Cancels
<1>6. ASSUME NEW n \in Conns, CancelLifecycle(n) PROVE UNCHANGED task
  BY <1>6 DEF CancelLifecycle, map
<1>7. ASSUME NEW e \in ExecIds, ForgetCompleted(e) PROVE UNCHANGED task
  BY <1>7 DEF ForgetCompleted
<1>8. ASSUME Quiet PROVE UNCHANGED task
  BY <1>8 DEF Quiet, registry, map
<1> QED
  BY <1>1, <1>2, <1>3, <1>4, <1>5, <1>6, <1>7, <1>8 DEF RegistryStep

\* Only a call changes what a call is about.
LEMMA OnlyCallersRequest ==
  ASSUME IInv, [Next]_vars
  PROVE  UNCHANGED req \/ \E c \in Callers : CallerStep(c)
<1>1. ASSUME NEW r \in Regs, OwnerStep(r) PROVE UNCHANGED req
  BY <1>1 DEF OwnerStep, SetPoolKey, RegisterInterrupt, StartStatement, EndStatement, Finish,
     Detach, GraceOver, callers
<1>2. ASSUME NEW t \in Threads, Perform(t) PROVE UNCHANGED req
  BY <1>2 DEF Perform, callers
<1>3. ASSUME NEW e \in ExecIds, NEW k \in Kinds, NEW n \in Conns, Register(e, k, n)
      PROVE  UNCHANGED req
  BY <1>3 DEF Register, callers
<1>4. ASSUME NEW n \in Conns, CancelLifecycle(n) PROVE UNCHANGED req
  BY <1>4 DEF CancelLifecycle, callers
<1>5. ASSUME NEW e \in ExecIds, ForgetCompleted(e) PROVE UNCHANGED req
  BY <1>5 DEF ForgetCompleted, callers
<1>6. ASSUME UNCHANGED vars PROVE UNCHANGED req
  BY <1>6 DEF vars
<1> QED
  BY <1>1, <1>2, <1>3, <1>4, <1>5, <1>6 DEF Next

\* Who was found for a connection is cancelled, or is still to be: another thread that
\* cancels, replaces or drops it in between settles it.
LEMMA MatchStep ==
  ASSUME IInv, [Next]_vars
  PROVE  MatchInv'
<1>1. RegistryStep
  BY EveryStep
<1>2. StaysSettled /\ \A r \in Made : task'[r] = task[r]
  BY <1>1, SettledStep, TasksStay
<1>3. ASSUME NEW c \in Callers, NEW r \in req[c].seen, NEW ids, Found(r, ids)
      PROVE  r \in Made /\ Found(r, ids)'
  BY <1>2, <1>3 DEF StaysSettled, Found, IInv, CallInv
<1>4. ASSUME NEW c \in Callers, req'[c].seen = req[c].seen, req'[c].ids = req[c].ids
      PROVE  \A r \in req'[c].seen : Found(r, req[c].ids)'
  <2>1. PICK ids : ids = req[c].ids
    OBVIOUS
  <2>2. \A r \in req[c].seen : Found(r, ids)
    BY <2>1 DEF IInv, MatchInv
  <2> QED
    BY <1>3, <1>4, <2>1, <2>2 DEF Found
<1>5. CASE UNCHANGED req
  BY <1>4, <1>5 DEF MatchInv
<1>6. ASSUME NEW c \in Callers, CallerStep(c) PROVE MatchInv'
  <2>1. req \in [Callers -> Request] /\ req[c] \in Request
    BY DEF IInv, TypeOK
  <2>2. ASSUME NEW x, req' = [req EXCEPT ![c] = x], \A r \in x.seen : Found(r, x.ids)'
        PROVE  MatchInv'
    <3>1. req'[c] = x /\ \A d \in Callers \ {c} : req'[d] = req[d]
      BY <2>1, <2>2
    <3>2. \A r \in req'[c].seen : Found(r, req[c].ids)'
      BY <2>2, <3>1
    <3> QED
      BY <1>4, <3>1, <3>2 DEF MatchInv
  <2>3. ASSUME NEW x, req' = [req EXCEPT ![c] = x], x.seen = {} PROVE MatchInv'
    BY <2>2, <2>3
  <2>4. ASSUME NEW x, req' = [req EXCEPT ![c].cancel = x] PROVE MatchInv'
    <3>1. \A d \in Callers : req'[d].seen = req[d].seen /\ req'[d].ids = req[d].ids
      BY <2>1, <2>4 DEF Request
    <3> QED
      BY <1>4, <3>1 DEF MatchInv
  <2>5. ASSUME NEW e \in ExecIds, Cancel(c, e) PROVE MatchInv'
    BY <1>5, <2>5 DEF Cancel, callers
  <2>6. ASSUME NEW e \in ExecIds, NEW cancel \in BOOLEAN, Subscribe(c, e, cancel)
        PROVE  MatchInv'
    <3>1. PICK x : x = [NoRequest EXCEPT !.id = e, !.sub = inner[e]]
      OBVIOUS
    <3>2. req' = [req EXCEPT ![c] = x] /\ x.seen = {}
      BY <2>6, <3>1 DEF Subscribe, NoRequest
    <3> QED
      BY <2>3, <3>2
  <2>7. ASSUME CancelSubscribed(c) PROVE MatchInv'
    BY <2>4, <2>7 DEF CancelSubscribed
  <2>8. ASSUME NEW terminal \in BOOLEAN, WaitEnds(c, terminal) PROVE MatchInv'
    BY <2>4, <2>8 DEF WaitEnds
  <2>9. ASSUME ReadCompleted(c) \/ MatchingDone(c) PROVE MatchInv'
    <3>1. req' = [req EXCEPT ![c] = NoRequest] /\ NoRequest.seen = {}
      BY <2>9 DEF ReadCompleted, MatchingDone, NoRequest
    <3> QED
      BY <2>3, <3>1
  <2>10. ASSUME NEW n \in Conns, CollectMatching(c, n) PROVE MatchInv'
    <3>1. PICK matching :
            matching = {e \in ExecIds : inner[e] # NoReg /\ task[inner[e]].conn = n}
      OBVIOUS
    <3>2. PICK x : x = [NoRequest EXCEPT !.ids = matching, !.seen = {inner[e] : e \in matching}]
      OBVIOUS
    <3>3. req' = [req EXCEPT ![c] = x] /\ UNCHANGED <<inner, task>>
      BY <2>10, <3>1, <3>2 DEF CollectMatching, registry, map
    <3>4. x.ids = matching /\ x.seen = {inner[e] : e \in matching}
      BY <3>2 DEF NoRequest
    <3>5. ASSUME NEW r \in x.seen PROVE Found(r, x.ids)'
      <4>1. PICK e \in matching : r = inner[e]
        BY <3>4, <3>5
      <4>2. task[r].exec = e
        BY <3>1, <4>1 DEF IInv, MapInv
      <4> QED
        BY <3>3, <3>4, <4>1, <4>2 DEF Found, InMap
    <3> QED
      BY <2>2, <3>3, <3>5
  <2>11. ASSUME NEW e \in ExecIds, CancelMatching(c, e) PROVE MatchInv'
    <3>1. PICK x : x = [req[c] EXCEPT !.ids = req[c].ids \ {e}]
      OBVIOUS
    <3>2. req' = [req EXCEPT ![c] = x] /\ x.seen = req[c].seen /\ x.ids = req[c].ids \ {e}
      BY <2>1, <2>11, <3>1 DEF CancelMatching, Request
    <3>3. ASSUME NEW r \in x.seen PROVE Found(r, x.ids)'
      <4>1. Found(r, req[c].ids)
        BY <3>2, <3>3 DEF IInv, MatchInv
      <4>2. CASE Found(r, x.ids)
        BY <1>3, <3>2, <3>3, <4>2
      <4>3. CASE ~Found(r, x.ids)
        <5>1. InMap(r) /\ task[r].exec = e
          BY <3>2, <4>1, <4>3 DEF Found
        <5>2. r \in Made /\ r # NoReg
          BY <3>2, <3>3, MadeAreRegs DEF IInv, CallInv
        <5>3. Cancels(c, e)
          BY <2>11, <5>1, <5>2 DEF CancelMatching, NothingToCancel, Cancels, InMap
        <5>4. r \in cancelled'
          BY <5>1, <5>3, CancelStep DEF InMap
        <5> QED
          BY <5>4 DEF Found, Settled
      <4> QED
        BY <4>2, <4>3
    <3> QED
      BY <2>2, <3>2, <3>3
  <2> QED
    BY <1>6, <2>5, <2>6, <2>7, <2>8, <2>9, <2>10, <2>11 DEF CallerStep
<1> QED
  BY <1>5, <1>6, OnlyCallersRequest

-----------------------------------------------------------------------------
(* The inductive invariant *)

\* The registry starts empty.
LEMMA InitInv ==
  ASSUME Init
  PROVE  IInv
<1>1. Made = {} /\ nextReg = 0 /\ \A op, r : ~Pending(op, r)
  <2>1. nextReg = 0 /\ \A t \in Threads : todo[t] = <<>>
    BY DEF Init
  <2>2. Made = {}
    BY <2>1 DEF Made
  <2>3. \A op, r : ~Pending(op, r)
    BY <2>1 DEF Pending
  <2> QED
    BY <2>1, <2>2, <2>3
<1>2. NoTask \in Task /\ NoRequest \in Request /\ NoReg \notin Regs
  BY DEF NoTask, Task, Kinds, NoRequest, Request, Regs, NoReg
<1>3. nextReg \in 0..MaxReg /\ todo \in [Threads -> Seq(Effects)]
  BY RegistryAssumption DEF Init
<1>4. TypeOK
  BY <1>2, <1>3 DEF Init, TypeOK, GuardStates, StmtStates
<1>5. MadeInv
  BY <1>1 DEF Init, MadeInv, Threads
<1>6. MapInv /\ AliveInv /\ PoolInv
  BY <1>1 DEF Init, MapInv, AliveInv, PoolInv
<1>7. DoneInv /\ ClosureInv
  BY <1>1 DEF Init, DoneInv, GoneIsSignalled, ClosureInv, InterruptFollowsCancel, Made
<1>8. CallInv /\ MatchInv
  BY <1>1 DEF Init, CallInv, MatchInv, NoRequest
<1>9. StopInv
  BY DEF Init, StopInv, Told
<1> QED
  BY <1>4, <1>5, <1>6, <1>7, <1>8, <1>9 DEF IInv

\* No step of any thread, and nothing the environment does, breaks the invariant.
LEMMA StepInv ==
  ASSUME IInv, [Next]_vars
  PROVE  IInv'
<1>1. RegistryStep
  BY EveryStep
<1>2. MadeInv' /\ MapInv' /\ AliveInv' /\ PoolInv' /\ DoneInv' /\ StopInv' /\ ClosureInv'
  BY <1>1, MadeStep, MapStep, AliveStep, PoolStep, DoneStep, StopStep, ClosureStep
<1> QED
  BY <1>2, TypeStep, CallStep, MatchStep DEF IInv

\* The inductive invariant holds in every reachable state.
THEOREM Inductive == Spec => []IInv
<1>1. Init => IInv
  BY InitInv
<1>2. IInv /\ [Next]_vars => IInv'
  BY StepInv
<1> QED
  BY <1>1, <1>2, PTL DEF Spec

-----------------------------------------------------------------------------
(* The properties *)

\* Type correctness.
THEOREM TypeCorrect == Spec => []TypeOK
<1>1. IInv => TypeOK
  BY DEF IInv
<1> QED
  BY <1>1, Inductive, PTL

\* No registration is forgotten: however its id is reused, cancelled or dropped
\* late by an older owner, who lives and was not cancelled is in the map, its pool
\* counts as active while its statement runs, and for who left the map completion
\* has been or is about to be published.
THEOREM NoneForgotten == Spec => []NoneIsForgotten
<1>1. ASSUME IInv PROVE AliveIsReachable
  <2>1. SUFFICES ASSUME NEW r \in Made, Alive(r), ~Replaced(r), Tracked(r) \/ r \notin asked
                 PROVE  /\ InMap(r)
                        /\ stmt[r] = "running" /\ SamePool(r) => IsPoolActive(task[r].conn)
    BY DEF AliveIsReachable, Made, Alive, InMap
  <2>2. InMap(r) /\ task[r].exec \in ExecIds /\ r # NoReg
    BY <1>1, <2>1, MadeAreRegs DEF IInv, AliveInv, MadeInv
  <2>3. ASSUME stmt[r] = "running", SamePool(r) PROVE IsPoolActive(task[r].conn)
    <3>1. PICK q \in Made : task[q].exec = task[r].exec /\ task[q].conn = pool[r]
      BY <1>1, <2>2, <2>3 DEF IInv, PoolInv
    <3>2. pool[r] = task[r].conn
      BY <2>3, <3>1 DEF SamePool, Made
    <3> QED
      BY <2>2, <3>2 DEF IsPoolActive, InMap
  <2> QED
    BY <2>2, <2>3
<1>2. IInv => NoneIsForgotten
  BY <1>1 DEF NoneIsForgotten, IInv, DoneInv
<1> QED
  BY <1>2, Inductive, PTL

\* A cancelled statement that can be interrupted is interrupted, in whichever order
\* cancel and register_interrupt come, and no other one is.
THEOREM InterruptsFollow == Spec => []InterruptFollowsCancel
<1>1. IInv => InterruptFollowsCancel
  BY DEF IInv, ClosureInv
<1> QED
  BY <1>1, Inductive, PTL

\* What cancel_and_wait and completed_execution_result report is true: of the
\* registration the call subscribed to, if it reports its own wait, and else of the
\* latest one with the id, of its owner and of the server.
THEOREM HonestAnswers == Spec => []AnswersAreHonest
<1>1. ASSUME IInv PROVE TerminalMeansFinished
  <2>1. SUFFICES ASSUME NEW c \in Callers, Answers(c), Result(c).terminal
                 PROVE  \/ req[c].cancel = "terminal" /\ Finished(req[c].sub)
                        \/ /\ req[c].cancel = "none"
                           /\ \E r \in Made : /\ task[r].exec = req[c].id
                                              /\ ~Replaced(r) /\ guard[r] = "gone"
    BY DEF TerminalMeansFinished, Made
  <2>2. req[c].id \in ExecIds
    BY <1>1, <2>1 DEF IInv, CallInv, Answers
  <2>3. CASE req[c].cancel = "terminal"
    <3>1. PICK r : r = req[c].sub
      OBVIOUS
    <3>2. r \in Made /\ r \in done
      BY <1>1, <2>3, <3>1 DEF IInv, CallInv
    <3>3. ~Tracked(r) \/ Replaced(r) \/ guard[r] = "gone"
      BY <1>1, <3>2 DEF IInv, DoneInv
    <3>4. guard[r] = "gone" \/ r \in cancelled
      BY <1>1, <3>2 DEF IInv, StopInv, Stopped
    <3> QED
      BY <2>3, <3>1, <3>3, <3>4 DEF Finished
  <2>4. CASE req[c].cancel = "none" /\ completed[req[c].id] # NoReg
    BY <1>1, <2>2, <2>4 DEF IInv, MapInv
  <2> QED
    BY <2>1, <2>3, <2>4 DEF Result
<1>2. ASSUME IInv PROVE DatabaseTerminalIsHonest
  <2>1. SUFFICES ASSUME NEW c \in Callers, Answers(c), Result(c).database,
                        NEW r \in Made, task[r].exec = req[c].id, ~Replaced(r)
                 PROVE  guard[r] = "gone" /\ stmt[r] # "running"
    BY DEF DatabaseTerminalIsHonest, Made
  <2>2. PICK q : q = completed[req[c].id]
    OBVIOUS
  <2>3. q # NoReg /\ q \in proven /\ req[c].id \in ExecIds
    BY <1>2, <2>1, <2>2 DEF IInv, CallInv, Answers, Result
  <2>4. q \in Made /\ task[q].exec = req[c].id /\ ~Replaced(q)
    BY <1>2, <2>2, <2>3 DEF IInv, MapInv
  <2>5. q = r
    <3>1. q \in Regs /\ r \in Regs /\ q \in Nat /\ r \in Nat /\ q <= nextReg /\ r <= nextReg
      BY <1>2, <2>4, MadeAreRegs DEF IInv, Made, Regs
    <3> QED
      BY <2>1, <2>4, <3>1 DEF Replaced
  <2> QED
    BY <1>2, <2>3, <2>5 DEF IInv, DoneInv
<1>3. IInv => AnswersAreHonest
  BY <1>1, <1>2 DEF AnswersAreHonest
<1> QED
  BY <1>3, Inductive, PTL

\* Once cancel_connection returns, every statement it found has been cancelled or has
\* left the map, also when its id was registered again while the ids were worked off.
THEOREM CompleteMatching == Spec => []MatchingIsComplete
<1>1. IInv => MatchingIsComplete
  BY DEF IInv, MatchInv, Found, Settled, MatchingIsComplete
<1> QED
  BY <1>1, Inductive, PTL

=============================================================================
