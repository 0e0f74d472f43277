------------------------ MODULE McpSessions_proofs -------------------------
(***************************************************************************)
(* Proofs about McpSessions, for any number of calls and sessions, any     *)
(* limit and any number of faults.                                         *)
(***************************************************************************)
EXTENDS McpSessions, TLAPS

\* What a call has reserved, or resolved, is there, and it alone will spawn the task
\* for what it has reserved.
CallsInv ==
  /\ \A c \in Calls :
       /\ pc[c] \notin {"idle", "return"} =>
            target[c] \in Sessions /\ place[target[c]] # "unused"
       /\ pc[c] = "open" => place[target[c]] = "opening" /\ opener[target[c]] = "none"
       /\ pc[c] = "close" => place[target[c]] = "closing" /\ cleanup[target[c]]["call"] = "none"
  /\ \A c, d \in Calls :
       pc[c] \in {"open", "close"} /\ pc[d] \in {"open", "close"} /\ c # d => target[c] # target[d]

\* Where in the store the session of a task can be.
TasksInvAt(s) ==
  /\ opener[s] \in {"connecting", "prepared"} => place[s] = "opening"
  /\ opener[s] \in {"undo", "dispose", "failing", "failed"} => place[s] = "gone"
  /\ cleanup[s]["call"] # "none" => place[s] = "closing"
  /\ cleanup[s]["shutdown"] # "none" => place[s] \in {"active", "closing", "gone"}

TasksInv == \A s \in Sessions : TasksInvAt(s)

\* What is left of a session at each step of the tasks that dispose of it.
GoodsInv ==
  \A s \in Sessions :
    /\ place[s] = "unused" => pool[s] = "none" /\ owner[s] = "none"
    /\ owner[s] # "none" \/ place[s] = "opening" => kind[s] = "transactions"
    /\ owner[s] # "none" /\ place[s] = "opening" => opener[s] = "prepared"
    /\ opener[s] \in {"dispose", "failing", "failed"} => owner[s] # "live"
    /\ \A w \in Spawners :
         /\ cleanup[s][w] \in {"pool", "closed", "failed"} => owner[s] # "live"
         /\ cleanup[s][w] = "closed" => pool[s] = "none" \/ s \in repinned \cup kept
         /\ cleanup[s][w] = "failed" => s \in kept
    /\ cleanup[s]["shutdown"] # "none" /\ place[s] = "active" => s \in kept

\* The inductive invariant.
IInv == TypeOK /\ CallsInv /\ TasksInv /\ GoodsInv /\ NothingIsLeftBehind

-----------------------------------------------------------------------------
(* Effects *)

\* What GoOn does to each call and to each session.
Went(c, plan, s, Old) ==
  /\ pc' \in [Calls -> Plans \cup {"idle", "preparing", "using", "closing"}]
  /\ target' \in [Calls -> Sessions \cup {NoSession}]
  /\ awaiting' \in [Calls -> SUBSET Sessions]
  /\ opener' \in [Sessions -> OpenerSteps]
  /\ cleanup' \in [Sessions -> [Spawners -> CleanupSteps]]
  /\ \A d \in Calls : d # c => pc'[d] = pc[d] /\ target'[d] = target[d]
  /\ Old # {} => pc'[c] = plan
  /\ Old = {} /\ plan = "open" => pc'[c] = "preparing"
  /\ Old = {} /\ plan = "use" => pc'[c] = "using"
  /\ Old = {} /\ plan = "close" => pc'[c] = "closing"
  /\ Old = {} /\ plan = "return" => pc'[c] = "idle"
  /\ plan # "return" => target'[c] = s
  /\ \A q \in Sessions :
       /\ opener'[q] = IF plan = "open" /\ Old = {} /\ q = s THEN "connecting" ELSE opener[q]
       /\ cleanup'[q]["call"] =
            IF q \in Old \/ (plan = "close" /\ Old = {} /\ q = s)
            THEN FirstStep(q) ELSE cleanup[q]["call"]
       /\ cleanup'[q]["shutdown"] = cleanup[q]["shutdown"]
       /\ FirstStep(q) \in {"owner", "pool"}

\* sweep_expired, for each session.
SweptExcept(s) ==
  /\ place' \in [Sessions -> {"unused", "opening", "active", "closing", "gone"}]
  /\ \A q \in Expired : place[q] = "active" /\ q \in Sessions
  /\ \A q \in Sessions : q # s => place'[q] = IF q \in Expired THEN "closing" ELSE place[q]

\* What GoOn assigns, call by call and session by session.
LEMMA GoOnEffect ==
  ASSUME TypeOK, NEW c \in Calls, NEW plan \in Plans, NEW s \in Sessions \cup {NoSession},
         NEW Old \in SUBSET Sessions, plan # "return" => s \in Sessions, GoOn(c, plan, s, Old)
  PROVE  Went(c, plan, s, Old)
<1> DEFINE own == IF plan = "close" /\ Old = {} THEN {s} ELSE {}
<1>1. /\ pc' = [pc EXCEPT ![c] = IF Old = {} THEN Later[plan] ELSE plan]
      /\ target' = [target EXCEPT ![c] = IF plan = "return" THEN NoSession ELSE s]
      /\ awaiting' = [awaiting EXCEPT ![c] = Old \cup own]
      /\ cleanup' = [q \in Sessions |->
                       IF q \in Old \cup own THEN [cleanup[q] EXCEPT !["call"] = FirstStep(q)]
                       ELSE cleanup[q]]
      /\ opener' = [q \in Sessions |->
                      IF plan = "open" /\ Old = {} /\ q = s THEN "connecting" ELSE opener[q]]
  BY DEF GoOn, SpawnCleanup
<1>2. own \in SUBSET Sessions
  OBVIOUS
<1>3. /\ Later["open"] = "preparing" /\ Later["use"] = "using"
      /\ Later["close"] = "closing" /\ Later["return"] = "idle"
  BY DEF Later
<1>4. \A q \in Sessions : FirstStep(q) \in {"owner", "pool"}
  BY DEF FirstStep
<1>5. /\ pc' \in [Calls -> Plans \cup {"idle", "preparing", "using", "closing"}]
      /\ Old # {} => pc'[c] = plan
      /\ Old = {} /\ plan = "open" => pc'[c] = "preparing"
      /\ Old = {} /\ plan = "use" => pc'[c] = "using"
      /\ Old = {} /\ plan = "close" => pc'[c] = "closing"
      /\ Old = {} /\ plan = "return" => pc'[c] = "idle"
  <2>1. pc'[c] = IF Old = {} THEN Later[plan] ELSE plan
    BY <1>1 DEF TypeOK
  <2>2. Later[plan] \in {"idle", "preparing", "using", "closing"}
    BY <1>3 DEF Plans
  <2> QED BY <1>1, <1>3, <2>1, <2>2 DEF TypeOK
<1>6. /\ target' \in [Calls -> Sessions \cup {NoSession}]
      /\ awaiting' \in [Calls -> SUBSET Sessions]
      /\ opener' \in [Sessions -> OpenerSteps]
  BY <1>1, <1>2 DEF TypeOK, OpenerSteps
<1>7. cleanup' \in [Sessions -> [Spawners -> CleanupSteps]]
  BY <1>1, <1>4 DEF TypeOK, CleanupSteps, Spawners
<1>8. \A d \in Calls : d # c => pc'[d] = pc[d] /\ target'[d] = target[d]
  BY <1>1 DEF TypeOK
<1>9. plan # "return" => target'[c] = s
  BY <1>1 DEF TypeOK
<1>10. \A q \in Sessions :
         /\ opener'[q] = IF plan = "open" /\ Old = {} /\ q = s THEN "connecting" ELSE opener[q]
         /\ cleanup'[q]["call"] =
              IF q \in Old \/ (plan = "close" /\ Old = {} /\ q = s)
              THEN FirstStep(q) ELSE cleanup[q]["call"]
         /\ cleanup'[q]["shutdown"] = cleanup[q]["shutdown"]
  BY <1>1 DEF TypeOK, Spawners
<1> QED
  BY <1>4, <1>5, <1>6, <1>7, <1>8, <1>9, <1>10 DEF Went

\* The call that is refused has no session.
LEMMA NotASession == NoSession \notin Sessions
BY DEF NoSession, Sessions

\* What OpenSession does, its sweep and its GoOn included.
LEMMA OpenEffect ==
  ASSUME TypeOK, NEW c \in Calls, NEW k \in {"plain", "transactions"}, OpenSession(c, k)
  PROVE  /\ pc[c] = "idle"
         /\ stale' = stale \ Expired
         /\ UNCHANGED <<backend, shut, ghosts>>
         /\ \/ \E s \in Sessions :
                 /\ place[s] = "unused"
                 /\ SweptExcept(s)
                 /\ kind' = [kind EXCEPT ![s] = k]
                 /\ \/ k = "plain" /\ place'[s] = "active" /\ Went(c, "return", s, Expired)
                    \/ k # "plain" /\ place'[s] = "opening" /\ Went(c, "open", s, Expired)
            \/ SweptExcept(NoSession) /\ kind' = kind /\ Went(c, "return", NoSession, Expired)
<1>1. Expired \in SUBSET Sessions
  BY DEF Expired, TypeOK
<1>2. CASE HasRoom
  <2>1. PICK s \in Sessions :
          /\ Fresh(s)
          /\ place' = [Swept EXCEPT ![s] = IF k = "plain" THEN "active" ELSE "opening"]
          /\ kind' = [kind EXCEPT ![s] = k]
          /\ GoOn(c, IF k = "plain" THEN "return" ELSE "open", s, Expired)
    BY <1>2 DEF OpenSession
  <2>2. (IF k = "plain" THEN "return" ELSE "open") \in Plans
    BY DEF Plans
  <2>3. Went(c, IF k = "plain" THEN "return" ELSE "open", s, Expired)
    BY <1>1, <2>1, <2>2, GoOnEffect
  <2>4. SweptExcept(s) /\ place'[s] = IF k = "plain" THEN "active" ELSE "opening"
    BY <2>1 DEF SweptExcept, Swept, Expired, TypeOK
  <2> QED BY <2>1, <2>3, <2>4 DEF OpenSession, Fresh
<1>3. CASE ~HasRoom
  <2>1. GoOn(c, "return", NoSession, Expired) /\ place' = Swept /\ kind' = kind
    BY <1>3 DEF OpenSession
  <2>2. Went(c, "return", NoSession, Expired)
    BY <1>1, <2>1, GoOnEffect DEF Plans
  <2>3. SweptExcept(NoSession)
    BY <2>1, NotASession DEF SweptExcept, Swept, Expired, TypeOK
  <2> QED BY <2>1, <2>2, <2>3 DEF OpenSession
<1> QED BY <1>2, <1>3

\* What Resolve does, its sweep and its GoOn included.
LEMMA ResolveEffect ==
  ASSUME TypeOK, NEW c \in Calls, NEW s \in Sessions, Resolve(c, s)
  PROVE  /\ pc[c] = "idle" /\ place[s] # "unused"
         /\ SweptExcept(NoSession) /\ stale' \in SUBSET Sessions
         /\ UNCHANGED <<kind, backend, shut, ghosts>>
         /\ Went(c, "use", s, Expired) \/ Went(c, "return", s, Expired)
<1>1. Expired \in SUBSET Sessions
  BY DEF Expired, TypeOK
<1>2. (IF Swept[s] = "active" THEN "use" ELSE "return") \in Plans
  BY DEF Plans
<1>3. GoOn(c, IF Swept[s] = "active" THEN "use" ELSE "return", s, Expired)
  BY DEF Resolve
<1>4. Went(c, IF Swept[s] = "active" THEN "use" ELSE "return", s, Expired)
  BY <1>1, <1>2, <1>3, GoOnEffect
<1>5. SweptExcept(NoSession)
  BY NotASession DEF Resolve, SweptExcept, Swept, Expired, TypeOK
<1> QED BY <1>4, <1>5 DEF Resolve, TypeOK

\* What CloseSession does, its sweep and its GoOn included.
LEMMA CloseEffect ==
  ASSUME TypeOK, NEW c \in Calls, NEW s \in Sessions, CloseSession(c, s)
  PROVE  /\ pc[c] = "idle" /\ place[s] # "unused"
         /\ stale' \in SUBSET Sessions
         /\ UNCHANGED <<kind, backend, shut, ghosts>>
         /\ \/ /\ place[s] = "active" /\ s \notin Expired /\ place'[s] = "closing"
               /\ SweptExcept(s) /\ Went(c, "close", s, Expired)
            \/ SweptExcept(NoSession) /\ Went(c, "return", s, Expired)
<1>1. Expired \in SUBSET Sessions
  BY DEF Expired, TypeOK
<1>2. (IF Swept[s] = "active" THEN "close" ELSE "return") \in Plans
  BY DEF Plans
<1>3. GoOn(c, IF Swept[s] = "active" THEN "close" ELSE "return", s, Expired)
  BY DEF CloseSession
<1>4. Went(c, IF Swept[s] = "active" THEN "close" ELSE "return", s, Expired)
  BY <1>1, <1>2, <1>3, GoOnEffect
<1>5. place' = [Swept EXCEPT ![s] = IF Swept[s] = "active" THEN "closing" ELSE Swept[s]]
  BY DEF CloseSession
<1>6. CASE Swept[s] = "active"
  <2>1. place[s] = "active" /\ s \notin Expired
    BY <1>6 DEF Swept
  <2>2. SweptExcept(s) /\ place'[s] = "closing"
    BY <1>5, <1>6 DEF SweptExcept, Swept, Expired, TypeOK
  <2> QED BY <1>4, <1>6, <2>1, <2>2 DEF CloseSession, TypeOK
<1>7. CASE Swept[s] # "active"
  <2>1. SweptExcept(NoSession)
    BY <1>5, <1>7, NotASession DEF SweptExcept, Swept, Expired, TypeOK
  <2> QED BY <1>4, <1>7, <2>1 DEF CloseSession, TypeOK
<1> QED BY <1>6, <1>7

\* What Continue does, its sweep and its GoOn included.
LEMMA ContinueEffect ==
  ASSUME TypeOK, CallsInv, NEW c \in Calls, Continue(c)
  PROVE  /\ pc[c] \in Plans
         /\ UNCHANGED <<store, backend, shut, ghosts>>
         /\ Went(c, pc[c], target[c], {})
<1>1. pc[c] \in Plans /\ GoOn(c, pc[c], target[c], {})
  BY DEF Continue
<1>2. target[c] \in Sessions \cup {NoSession}
  BY DEF TypeOK
<1>3. pc[c] # "return" => target[c] \in Sessions
  BY <1>1 DEF CallsInv, Plans
<1>4. {} \in SUBSET Sessions
  OBVIOUS
<1>5. Went(c, pc[c], target[c], {})
  BY <1>1, <1>2, <1>3, <1>4, GoOnEffect
<1> QED BY <1>1, <1>5 DEF Continue

\* What the four steps that end in GoOn have in common: the sessions Old expire, the
\* session s may enter the store or be closed, and no other call has reserved it.
Moved(c, plan, s, Old) ==
  /\ Went(c, plan, s, Old)
  /\ place' \in [Sessions -> {"unused", "opening", "active", "closing", "gone"}]
  /\ kind' \in [Sessions -> {"plain", "transactions"}]
  /\ stale' \in SUBSET Sessions
  /\ UNCHANGED <<pool, owner, shut, lost, repinned, kept, faults>>
  /\ \A q \in Old : q \in Sessions /\ place[q] = "active" /\ place'[q] = "closing"
  /\ \A q \in Sessions :
       \/ /\ place[q] = "unused" /\ place'[q] \in {"active", "opening"}
          /\ place'[q] = "opening" => kind'[q] = "transactions"
       \/ kind'[q] = kind[q] /\ place[q] = "active" /\ place'[q] = "closing"
       \/ kind'[q] = kind[q] /\ place'[q] = place[q]
  /\ plan # "return" => s \in Sessions /\ place'[s] # "unused"
  /\ plan \in {"open", "close"} =>
       s \notin Old /\ \A d \in Calls : d # c /\ pc[d] \in {"open", "close"} => target[d] # s
  /\ plan = "open" => place'[s] = "opening" /\ opener[s] = "none"
  /\ plan = "close" => place'[s] = "closing" /\ cleanup[s]["call"] = "none"

\* A session that is not in the store yet, or that is active, is not reserved.
LEMMA NotReserved ==
  ASSUME IInv, NEW s \in Sessions, place[s] \in {"unused", "active"}
  PROVE  /\ \A d \in Calls : pc[d] \in {"open", "close"} => target[d] # s
         /\ opener[s] = "none" /\ cleanup[s]["call"] = "none"
<1>1. \A d \in Calls : pc[d] \in {"open", "close"} => target[d] # s
  BY DEF IInv, CallsInv
<1>2. opener[s] \in OpenerSteps
  BY DEF IInv, TypeOK
<1>3. opener[s] = "none"
  BY <1>2 DEF IInv, TasksInv, TasksInvAt, OpenerSteps
<1>4. cleanup[s]["call"] = "none"
  BY DEF IInv, TasksInv, TasksInvAt
<1> QED BY <1>1, <1>3, <1>4

\* OpenSession is such a step.
LEMMA OpenMoves ==
  ASSUME IInv, NEW c \in Calls, NEW k \in {"plain", "transactions"}, OpenSession(c, k)
  PROVE  \E plan \in Plans, s \in Sessions \cup {NoSession}, Old \in SUBSET Sessions :
           Moved(c, plan, s, Old)
<1> USE DEF backend, ghosts, histories
<1>1. TypeOK
  BY DEF IInv
<1>2. Expired \in SUBSET Sessions /\ stale' \in SUBSET Sessions
  BY <1>1, OpenEffect DEF Expired, TypeOK
<1>3. UNCHANGED <<pool, owner, shut, lost, repinned, kept, faults>>
  BY <1>1, OpenEffect
<1>4. ASSUME NEW s \in Sessions, place[s] = "unused", SweptExcept(s),
             kind' = [kind EXCEPT ![s] = k],
             \/ k = "plain" /\ place'[s] = "active" /\ Went(c, "return", s, Expired)
             \/ k # "plain" /\ place'[s] = "opening" /\ Went(c, "open", s, Expired)
      PROVE  \E plan \in Plans : Moved(c, plan, s, Expired)
  <2>1. kind' \in [Sessions -> {"plain", "transactions"}]
    BY <1>1, <1>4 DEF TypeOK
  <2>2. \A q \in Sessions : q # s => kind'[q] = kind[q]
    BY <1>1, <1>4 DEF TypeOK
  <2>3. s \notin Expired
    BY <1>4 DEF Expired
  <2>4. \A q \in Expired : q \in Sessions /\ place[q] = "active" /\ place'[q] = "closing"
    BY <1>4, <2>3 DEF SweptExcept
  <2>5. \A q \in Sessions :
          \/ /\ place[q] = "unused" /\ place'[q] \in {"active", "opening"}
             /\ place'[q] = "opening" => kind'[q] = "transactions"
          \/ kind'[q] = kind[q] /\ place[q] = "active" /\ place'[q] = "closing"
          \/ kind'[q] = kind[q] /\ place'[q] = place[q]
    <3>1. k # "plain" => kind'[s] = "transactions"
      BY <1>1, <1>4 DEF TypeOK
    <3> QED BY <1>4, <2>2, <3>1 DEF SweptExcept
  <2>6. /\ \A d \in Calls : pc[d] \in {"open", "close"} => target[d] # s
        /\ opener[s] = "none" /\ cleanup[s]["call"] = "none"
    BY <1>4, NotReserved
  <2>7. place' \in [Sessions -> {"unused", "opening", "active", "closing", "gone"}]
    BY <1>4 DEF SweptExcept
  <2>8. CASE k = "plain"
    <3>1. Moved(c, "return", s, Expired)
      BY <1>2, <1>3, <1>4, <2>1, <2>4, <2>5, <2>7, <2>8 DEF Moved
    <3> QED BY <3>1 DEF Plans
  <2>9. CASE k # "plain"
    <3>1. Moved(c, "open", s, Expired)
      BY <1>2, <1>3, <1>4, <2>1, <2>3, <2>4, <2>5, <2>6, <2>7, <2>9 DEF Moved
    <3> QED BY <3>1 DEF Plans
  <2> QED BY <2>8, <2>9
<1>5. ASSUME SweptExcept(NoSession), kind' = kind, Went(c, "return", NoSession, Expired)
      PROVE  Moved(c, "return", NoSession, Expired)
  <2>1. \A q \in Sessions : place'[q] = IF q \in Expired THEN "closing" ELSE place[q]
    BY <1>5, NotASession DEF SweptExcept
  <2> QED BY <1>1, <1>2, <1>3, <1>5, <2>1 DEF Moved, SweptExcept, TypeOK
<1> QED
  <2>1. "return" \in Plans
    BY DEF Plans
  <2> QED BY <1>1, <1>2, <1>4, <1>5, <2>1, OpenEffect

\* Resolve is such a step.
LEMMA ResolveMoves ==
  ASSUME IInv, NEW c \in Calls, NEW s \in Sessions, Resolve(c, s)
  PROVE  \E plan \in Plans, q \in Sessions \cup {NoSession}, Old \in SUBSET Sessions :
           Moved(c, plan, q, Old)
<1> USE DEF backend, ghosts, histories
<1>1. TypeOK
  BY DEF IInv
<1>2. Expired \in SUBSET Sessions
  BY <1>1 DEF Expired, TypeOK
<1>3. \A q \in Sessions : place'[q] = IF q \in Expired THEN "closing" ELSE place[q]
  BY <1>1, ResolveEffect, NotASession DEF SweptExcept
<1>4. Moved(c, "use", s, Expired) \/ Moved(c, "return", s, Expired)
  BY <1>1, <1>2, <1>3, ResolveEffect DEF Moved, SweptExcept, TypeOK
<1> QED BY <1>2, <1>4 DEF Plans

\* CloseSession is such a step.
LEMMA CloseMoves ==
  ASSUME IInv, NEW c \in Calls, NEW s \in Sessions, CloseSession(c, s)
  PROVE  \E plan \in Plans, q \in Sessions \cup {NoSession}, Old \in SUBSET Sessions :
           Moved(c, plan, q, Old)
<1> USE DEF backend, ghosts, histories
<1>1. TypeOK
  BY DEF IInv
<1>2. Expired \in SUBSET Sessions
  BY <1>1 DEF Expired, TypeOK
<1>3. CASE /\ place[s] = "active" /\ s \notin Expired /\ place'[s] = "closing"
           /\ SweptExcept(s) /\ Went(c, "close", s, Expired)
  <2>1. \A q \in Sessions : place'[q] = IF q \in Expired \cup {s} THEN "closing" ELSE place[q]
    BY <1>3 DEF SweptExcept
  <2>2. /\ \A d \in Calls : pc[d] \in {"open", "close"} => target[d] # s
        /\ cleanup[s]["call"] = "none"
    BY <1>3, NotReserved
  <2>3. Moved(c, "close", s, Expired)
    BY <1>1, <1>2, <1>3, <2>1, <2>2, CloseEffect DEF Moved, SweptExcept, TypeOK
  <2> QED BY <1>2, <2>3 DEF Plans
<1>4. CASE SweptExcept(NoSession) /\ Went(c, "return", s, Expired)
  <2>1. \A q \in Sessions : place'[q] = IF q \in Expired THEN "closing" ELSE place[q]
    BY <1>4, NotASession DEF SweptExcept
  <2>2. Moved(c, "return", s, Expired)
    BY <1>1, <1>2, <1>4, <2>1, CloseEffect DEF Moved, SweptExcept, TypeOK
  <2> QED BY <1>2, <2>2 DEF Plans
<1> QED BY <1>1, <1>3, <1>4, CloseEffect

\* Continue is such a step.
LEMMA ContinueMoves ==
  ASSUME IInv, NEW c \in Calls, Continue(c)
  PROVE  \E plan \in Plans, q \in Sessions \cup {NoSession}, Old \in SUBSET Sessions :
           Moved(c, plan, q, Old)
<1> USE DEF store, backend, ghosts, histories
<1>1. TypeOK /\ CallsInv
  BY DEF IInv
<1>2. /\ pc[c] \in Plans /\ Went(c, pc[c], target[c], {})
      /\ UNCHANGED <<place, kind, stale, pool, owner, shut, lost, repinned, kept, faults>>
  BY <1>1, ContinueEffect
<1>3. pc[c] # "return" => target[c] \in Sessions /\ place[target[c]] # "unused"
  BY <1>1, <1>2 DEF CallsInv, Plans
<1>4. /\ pc[c] = "open" => place[target[c]] = "opening" /\ opener[target[c]] = "none"
      /\ pc[c] = "close" => place[target[c]] = "closing" /\ cleanup[target[c]]["call"] = "none"
  BY <1>1 DEF CallsInv
<1>5. pc[c] \in {"open", "close"} =>
        \A d \in Calls : d # c /\ pc[d] \in {"open", "close"} => target[d] # target[c]
  BY <1>1 DEF CallsInv
<1>6. Moved(c, pc[c], target[c], {})
  BY <1>1, <1>2, <1>3, <1>4, <1>5 DEF Moved, TypeOK
<1>7. target[c] \in Sessions \cup {NoSession}
  BY <1>1 DEF TypeOK
<1> QED BY <1>2, <1>6, <1>7

\* The four steps preserve each part of the invariant.
LEMMA MovedInv ==
  ASSUME IInv, NEW c \in Calls, NEW plan \in Plans, NEW s \in Sessions \cup {NoSession},
         NEW Old \in SUBSET Sessions, Moved(c, plan, s, Old)
  PROVE  IInv'
<1>1. TypeOK'
  BY DEF IInv, TypeOK, Moved, Went
<1>2. CallsInv'
  <2>1. ASSUME NEW d \in Calls, d # c
        PROVE  /\ pc'[d] \notin {"idle", "return"} =>
                    target'[d] \in Sessions /\ place'[target'[d]] # "unused"
               /\ pc'[d] = "open" => place'[target'[d]] = "opening" /\ opener'[target'[d]] = "none"
               /\ pc'[d] = "close" =>
                    place'[target'[d]] = "closing" /\ cleanup'[target'[d]]["call"] = "none"
    <3>1. pc'[d] = pc[d] /\ target'[d] = target[d]
      BY <2>1 DEF Moved, Went
    <3>2. \A q \in Sessions : place[q] # "unused" => place'[q] # "unused"
      BY DEF Moved
    <3>3. \A q \in Sessions :
            place[q] \in {"opening", "closing"} => place'[q] = place[q] /\ q \notin Old
      BY DEF Moved
    <3>4. pc[d] \in {"open", "close"} => target[d] \in Sessions
      BY DEF IInv, CallsInv
    <3>5. pc[d] = "open" => opener'[target[d]] = "none"
      BY <2>1, <3>4 DEF IInv, CallsInv, Moved, Went
    <3>6. pc[d] = "close" => cleanup'[target[d]]["call"] = "none"
      BY <2>1, <3>3, <3>4 DEF IInv, CallsInv, Moved, Went
    <3> QED BY <3>1, <3>2, <3>3, <3>4, <3>5, <3>6 DEF IInv, CallsInv
  <2>2. /\ pc'[c] \notin {"idle", "return"} =>
             target'[c] \in Sessions /\ place'[target'[c]] # "unused"
        /\ pc'[c] = "open" => place'[target'[c]] = "opening" /\ opener'[target'[c]] = "none"
        /\ pc'[c] = "close" =>
             place'[target'[c]] = "closing" /\ cleanup'[target'[c]]["call"] = "none"
    <3>1. plan # "return" => target'[c] = s /\ s \in Sessions /\ place'[s] # "unused"
      BY DEF Moved, Went
    <3>2. plan = "return" => pc'[c] \in {"idle", "return"}
      BY DEF Moved, Went
    <3>3. pc'[c] = "open" => plan = "open" /\ Old # {}
      BY DEF Moved, Went, Plans
    <3>4. pc'[c] = "close" => plan = "close" /\ Old # {}
      BY DEF Moved, Went, Plans
    <3>5. plan = "open" /\ Old # {} => place'[s] = "opening" /\ opener'[s] = "none"
      BY <3>1 DEF Moved, Went
    <3>6. plan = "close" /\ Old # {} => place'[s] = "closing" /\ cleanup'[s]["call"] = "none"
      BY <3>1 DEF Moved, Went
    <3> QED BY <3>1, <3>2, <3>3, <3>4, <3>5, <3>6
  <2>3. ASSUME NEW d \in Calls, NEW e \in Calls, d # e,
               pc'[d] \in {"open", "close"}, pc'[e] \in {"open", "close"}
        PROVE  target'[d] # target'[e]
    <3>1. pc'[c] \in {"open", "close"} => plan \in {"open", "close"} /\ target'[c] = s
      BY DEF Moved, Went, Plans
    <3>2. \A f \in Calls : f # c => pc'[f] = pc[f] /\ target'[f] = target[f]
      BY DEF Moved, Went
    <3>3. plan \in {"open", "close"} =>
            \A f \in Calls : f # c /\ pc[f] \in {"open", "close"} => target[f] # s
      BY DEF Moved
    <3>4. CASE d = c
      BY <2>3, <3>1, <3>2, <3>3, <3>4
    <3>5. CASE e = c
      BY <2>3, <3>1, <3>2, <3>3, <3>5
    <3>6. CASE d # c /\ e # c
      BY <2>3, <3>2, <3>6 DEF IInv, CallsInv
    <3> QED BY <3>4, <3>5, <3>6
  <2> QED BY <2>1, <2>2, <2>3 DEF CallsInv
<1>3. ASSUME NEW q \in Sessions
      PROVE  /\ opener'[q] \in {"connecting", "prepared"} => place'[q] = "opening"
             /\ opener'[q] \in {"undo", "dispose", "failing", "failed"} => place'[q] = "gone"
             /\ cleanup'[q]["call"] # "none" => place'[q] = "closing"
             /\ cleanup'[q]["shutdown"] # "none" => place'[q] \in {"active", "closing", "gone"}
  <2>1. /\ opener'[q] = opener[q] \/ (opener'[q] = "connecting" /\ plan = "open" /\ q = s)
        /\ \/ cleanup'[q]["call"] = cleanup[q]["call"]
           \/ q \in Old \/ (plan = "close" /\ q = s)
        /\ cleanup'[q]["shutdown"] = cleanup[q]["shutdown"]
    BY DEF Moved, Went
  <2>2. /\ opener[q] \in {"connecting", "prepared"} => place[q] = "opening"
        /\ opener[q] \in {"undo", "dispose", "failing", "failed"} => place[q] = "gone"
        /\ cleanup[q]["call"] # "none" => place[q] = "closing"
        /\ cleanup[q]["shutdown"] # "none" => place[q] \in {"active", "closing", "gone"}
    BY DEF IInv, TasksInv, TasksInvAt
  <2>3. \/ place[q] = "unused" /\ place'[q] \in {"active", "opening"}
        \/ place[q] = "active" /\ place'[q] = "closing"
        \/ place'[q] = place[q]
    BY DEF Moved
  <2>4. /\ q \in Old => place'[q] = "closing"
        /\ plan = "open" => place'[s] = "opening"
        /\ plan = "close" => place'[s] = "closing"
    BY DEF Moved
  <2> QED BY <2>1, <2>2, <2>3, <2>4
<1>4. ASSUME NEW q \in Sessions
      PROVE  /\ place'[q] = "unused" => pool'[q] = "none" /\ owner'[q] = "none"
             /\ owner'[q] # "none" \/ place'[q] = "opening" => kind'[q] = "transactions"
             /\ owner'[q] # "none" /\ place'[q] = "opening" => opener'[q] = "prepared"
             /\ opener'[q] \in {"dispose", "failing", "failed"} => owner'[q] # "live"
             /\ cleanup'[q]["shutdown"] # "none" /\ place'[q] = "active" => q \in kept'
  <2>1. \/ /\ place[q] = "unused" /\ place'[q] \in {"active", "opening"}
           /\ place'[q] = "opening" => kind'[q] = "transactions"
        \/ kind'[q] = kind[q] /\ place[q] = "active" /\ place'[q] = "closing"
        \/ kind'[q] = kind[q] /\ place'[q] = place[q]
    BY DEF Moved
  <2>2. /\ pool' = pool /\ owner' = owner /\ kept' = kept
        /\ opener'[q] = opener[q] \/ (opener'[q] = "connecting" /\ opener[q] = "none")
        /\ cleanup'[q]["shutdown"] = cleanup[q]["shutdown"]
    BY DEF Moved, Went
  <2>3. /\ place[q] = "unused" => pool[q] = "none" /\ owner[q] = "none"
        /\ owner[q] # "none" \/ place[q] = "opening" => kind[q] = "transactions"
        /\ owner[q] # "none" /\ place[q] = "opening" => opener[q] = "prepared"
        /\ opener[q] \in {"dispose", "failing", "failed"} => owner[q] # "live"
        /\ cleanup[q]["shutdown"] # "none" /\ place[q] = "active" => q \in kept
        /\ cleanup[q]["shutdown"] # "none" => place[q] # "unused"
    BY DEF IInv, GoodsInv, TasksInv, TasksInvAt
  <2> QED BY <2>1, <2>2, <2>3
<1>5. ASSUME NEW q \in Sessions, NEW w \in Spawners
      PROVE  /\ cleanup'[q][w] \in {"pool", "closed", "failed"} => owner'[q] # "live"
             /\ cleanup'[q][w] = "closed" => pool'[q] = "none" \/ q \in repinned' \cup kept'
             /\ cleanup'[q][w] = "failed" => q \in kept'
  <2>1. cleanup'[q][w] = cleanup[q][w] \/ cleanup'[q][w] = FirstStep(q)
    BY DEF Moved, Went, Spawners
  <2>2. owner' = owner /\ pool' = pool /\ kept' = kept /\ repinned' = repinned
    BY DEF Moved
  <2>3. FirstStep(q) \in {"owner", "pool"} /\ (FirstStep(q) = "pool" => owner[q] # "live")
    BY DEF FirstStep, IInv, GoodsInv, TypeOK
  <2>4. /\ cleanup[q][w] \in {"pool", "closed", "failed"} => owner[q] # "live"
        /\ cleanup[q][w] = "closed" => pool[q] = "none" \/ q \in repinned \cup kept
        /\ cleanup[q][w] = "failed" => q \in kept
    BY DEF IInv, GoodsInv
  <2> QED BY <2>1, <2>2, <2>3, <2>4
<1>6. NothingIsLeftBehind'
  <2> SUFFICES ASSUME NEW q \in Sessions,
                      owner'[q] = "live" \/ (pool'[q] = "open" /\ q \notin (repinned \cup kept)')
               PROVE  (q \in InStore \/ AtWork(q))'
    BY DEF NothingIsLeftBehind
  <2>1. q \in InStore \/ AtWork(q)
    BY DEF IInv, NothingIsLeftBehind, Moved
  <2>2. CASE q \in InStore
    BY <2>2 DEF InStore, Moved
  <2>3. CASE AtWork(q)
    <3>1. opener[q] \notin {"none", "failed"} => opener'[q] \notin {"none", "failed"}
      BY DEF Moved, Went
    <3>2. \A w \in Spawners : cleanup[q][w] # "none" => cleanup'[q][w] # "none"
      BY DEF Moved, Went, Spawners
    <3> QED BY <2>3, <3>1, <3>2 DEF AtWork
  <2> QED BY <2>1, <2>2, <2>3
<1> QED
  BY <1>1, <1>2, <1>3, <1>4, <1>5, <1>6 DEF IInv, TasksInv, TasksInvAt, GoodsInv

\* A cleanup task goes to its next step.
LEMMA CleanupEffect ==
  ASSUME TypeOK, NEW s \in Sessions, NEW w \in Spawners, NEW step \in CleanupSteps,
         CleanupAt(s, w, step)
  PROVE  /\ cleanup' \in [Sessions -> [Spawners -> CleanupSteps]]
         /\ \A q \in Sessions, v \in Spawners :
              cleanup'[q][v] = IF q = s /\ v = w THEN step ELSE cleanup[q][v]
BY DEF TypeOK, CleanupAt

\* The pool of a session is closed, or it is not.
PoolStep(s, w, step) ==
  /\ cleanup[s][w] = "pool"
  /\ cleanup' \in [Sessions -> [Spawners -> CleanupSteps]]
  /\ \A q \in Sessions, v \in Spawners :
       cleanup'[q][v] = IF q = s /\ v = w THEN step ELSE cleanup[q][v]
  /\ step = "closed" => pool' = [pool EXCEPT ![s] = "none"] /\ kept' = kept
  /\ step = "failed" => pool' = pool /\ kept' = kept \cup {s}
  /\ faults' \in 0..MaxFaults
  /\ UNCHANGED <<place, kind, stale, owner, opener, pc, target, awaiting>>
  /\ UNCHANGED <<shut, lost, repinned>>

\* CleanupPool is such a step.
LEMMA CleanupPoolEffect ==
  ASSUME TypeOK, NEW s \in Sessions, NEW w \in Spawners, CleanupPool(s, w)
  PROVE  \E step \in {"closed", "failed"} : PoolStep(s, w, step)
<1>1. faults' \in 0..MaxFaults
  BY SessionAssumption DEF CleanupPool, Fault, TypeOK
<1>2. /\ cleanup[s][w] = "pool"
      /\ UNCHANGED <<place, kind, stale, owner, opener, pc, target, awaiting>>
      /\ UNCHANGED <<shut, lost, repinned>>
  BY DEF CleanupPool, store, calls
<1>3. "closed" \in CleanupSteps /\ "failed" \in CleanupSteps
  BY DEF CleanupSteps
<1>4. CASE /\ pool' = [pool EXCEPT ![s] = "none"] /\ CleanupAt(s, w, "closed")
           /\ UNCHANGED <<kept, faults>>
  <2>1. /\ cleanup' \in [Sessions -> [Spawners -> CleanupSteps]]
        /\ \A q \in Sessions, v \in Spawners :
             cleanup'[q][v] = IF q = s /\ v = w THEN "closed" ELSE cleanup[q][v]
    BY <1>3, <1>4, CleanupEffect
  <2> QED BY <1>1, <1>2, <1>4, <2>1 DEF PoolStep
<1>5. CASE CleanupAt(s, w, "failed") /\ kept' = kept \cup {s} /\ Fault /\ UNCHANGED pool
  <2>1. /\ cleanup' \in [Sessions -> [Spawners -> CleanupSteps]]
        /\ \A q \in Sessions, v \in Spawners :
             cleanup'[q][v] = IF q = s /\ v = w THEN "failed" ELSE cleanup[q][v]
    BY <1>3, <1>5, CleanupEffect
  <2> QED BY <1>1, <1>2, <1>5, <2>1 DEF PoolStep
<1> QED BY <1>4, <1>5 DEF CleanupPool


-----------------------------------------------------------------------------
(* Preservation *)

\* Every step keeps the types; a call that goes on has a session.
LEMMA TypeStep ==
  ASSUME IInv, [Next]_vars
  PROVE  TypeOK'
<1>1. ASSUME NEW c \in Calls, NEW k \in {"plain", "transactions"}, OpenSession(c, k)
      PROVE  TypeOK'
  BY <1>1, OpenMoves, MovedInv DEF IInv
<1>2. ASSUME NEW c \in Calls, NEW s \in Sessions, Resolve(c, s)
      PROVE  TypeOK'
  BY <1>2, ResolveMoves, MovedInv DEF IInv
<1>3. ASSUME NEW c \in Calls, NEW s \in Sessions, CloseSession(c, s)
      PROVE  TypeOK'
  BY <1>3, CloseMoves, MovedInv DEF IInv
<1>4. ASSUME NEW c \in Calls, Continue(c)
      PROVE  TypeOK'
  BY <1>4, ContinueMoves, MovedInv DEF IInv
<1>5. ASSUME NEW c \in Calls, Execute(c)
      PROVE  TypeOK'
  BY <1>5 DEF IInv, TypeOK, CallsInv, Execute, store, tasks
<1>6. ASSUME NEW c \in Calls, CloseReturns(c)
      PROVE  TypeOK'
  BY <1>6 DEF IInv, TypeOK, CleanupSteps, CloseReturns, store, backend, tasks, ghosts, histories
<1>7. ASSUME NEW c \in Calls, Promote(c)
      PROVE  TypeOK'
  BY <1>7 DEF IInv, TypeOK, OpenerSteps, Promote, backend, ghosts, histories
<1>8. ASSUME NEW c \in Calls, OpenFails(c)
      PROVE  TypeOK'
  BY <1>8 DEF IInv, TypeOK, CleanupSteps, OpenFails, store, backend, tasks, ghosts, histories
<1>9. ASSUME NEW c \in Calls, CancelCall(c)
      PROVE  TypeOK'
  <2>1. faults' \in 0..MaxFaults
    BY <1>9, SessionAssumption DEF CancelCall, Fault, IInv, TypeOK, ghosts
  <2> QED BY <1>9, <2>1 DEF IInv, TypeOK, CallsInv, CancelCall, store, backend, tasks
<1>10. ASSUME NEW s \in Sessions, OpenerConnects(s)
       PROVE  TypeOK'
  BY <1>10 DEF IInv, TypeOK, OpenerSteps, OpenerConnects, store, calls, ghosts, histories
<1>11. ASSUME NEW s \in Sessions, OpenerFails(s)
       PROVE  TypeOK'
  BY <1>11 DEF IInv, TypeOK, OpenerSteps, OpenerFails, CancelOpening, calls, ghosts, histories
<1>12. ASSUME NEW s \in Sessions, OpenerUndoes(s)
       PROVE  TypeOK'
  BY <1>12 DEF IInv, TypeOK, OpenerSteps, OpenerUndoes, CancelOpening, backend, calls, ghosts,
      histories
<1>13. ASSUME NEW s \in Sessions, OpenerCancelsOwner(s)
       PROVE  TypeOK'
  BY <1>13 DEF IInv, TypeOK, CleanupSteps, OpenerCancelsOwner, CancelOwner, store, tasks, calls,
      ghosts, histories
<1>14. ASSUME NEW s \in Sessions, OpenerOwnerClosed(s)
       PROVE  TypeOK'
  BY <1>14 DEF IInv, TypeOK, OpenerSteps, OpenerOwnerClosed, store, backend, calls, ghosts,
      histories
<1>15. ASSUME NEW s \in Sessions, OpenerDisposes(s)
       PROVE  TypeOK'
  <2>1. faults' \in 0..MaxFaults
    BY <1>15, SessionAssumption DEF OpenerDisposes, Fault, IInv, TypeOK, ghosts
  <2> QED BY <1>15, <2>1 DEF IInv, TypeOK, OpenerSteps, OpenerDisposes, store, calls
<1>16. ASSUME NEW s \in Sessions, OwnerEnds(s)
       PROVE  TypeOK'
  BY <1>16 DEF IInv, TypeOK, CleanupSteps, OwnerEnds, store, tasks, calls, ghosts, histories
<1>17. ASSUME NEW s \in Sessions, Idle(s)
       PROVE  TypeOK'
  BY <1>17 DEF IInv, TypeOK, CleanupSteps, Idle, backend, tasks, calls, ghosts, histories
<1>18. ASSUME NEW s \in Sessions, NEW w \in Spawners, CleanupCancelsOwner(s, w)
       PROVE  TypeOK'
  BY <1>18 DEF IInv, TypeOK, CleanupSteps, CleanupCancelsOwner, CancelOwner, store, tasks,
      calls, ghosts, histories
<1>19. ASSUME NEW s \in Sessions, NEW w \in Spawners, CleanupOwnerClosed(s, w)
       PROVE  TypeOK'
  BY <1>19 DEF IInv, TypeOK, CleanupSteps, CleanupOwnerClosed, CleanupAt, store, backend, calls,
      ghosts, histories
<1>20. ASSUME NEW s \in Sessions, NEW w \in Spawners, CleanupPool(s, w)
       PROVE  TypeOK'
  <2>1. PICK step \in {"closed", "failed"} : PoolStep(s, w, step)
    BY <1>20, CleanupPoolEffect DEF IInv
  <2> QED BY <2>1 DEF IInv, TypeOK, PoolStep
<1>21. ASSUME NEW s \in Sessions, NEW w \in Spawners, CleanupSettles(s, w)
       PROVE  TypeOK'
  BY <1>21 DEF IInv, TypeOK, CleanupSteps, CleanupSettles, CleanupAt, AfterCleanup, backend,
      ghosts, histories
<1>22. ASSUME Shutdown
       PROVE  TypeOK'
  BY <1>22 DEF IInv, TypeOK, CleanupSteps, Shutdown, SpawnCleanup, FirstStep, backend, calls,
      ghosts, histories
<1>23. ASSUME UNCHANGED vars
       PROVE  TypeOK'
  BY <1>23, SessionAssumption DEF IInv, TypeOK, CallsInv, OpenerSteps, CleanupSteps, Spawners,
      vars, store, backend, tasks, calls, histories, ghosts
<1> QED
  BY <1>1, <1>2, <1>3, <1>4, <1>5, <1>6, <1>7, <1>8, <1>9, <1>10, <1>11, <1>12, <1>13,
     <1>14, <1>15, <1>16, <1>17, <1>18, <1>19, <1>20, <1>21, <1>22, <1>23
  DEF Next, CallStep, OpenerStep, CleanupStep

\* No step takes away what a call has reserved or resolved.
LEMMA CallsStep ==
  ASSUME IInv, [Next]_vars
  PROVE  CallsInv'
<1>1. ASSUME NEW c \in Calls, NEW k \in {"plain", "transactions"}, OpenSession(c, k)
      PROVE  CallsInv'
  BY <1>1, OpenMoves, MovedInv DEF IInv
<1>2. ASSUME NEW c \in Calls, NEW s \in Sessions, Resolve(c, s)
      PROVE  CallsInv'
  BY <1>2, ResolveMoves, MovedInv DEF IInv
<1>3. ASSUME NEW c \in Calls, NEW s \in Sessions, CloseSession(c, s)
      PROVE  CallsInv'
  BY <1>3, CloseMoves, MovedInv DEF IInv
<1>4. ASSUME NEW c \in Calls, Continue(c)
      PROVE  CallsInv'
  BY <1>4, ContinueMoves, MovedInv DEF IInv
<1>5. ASSUME NEW c \in Calls, Execute(c)
      PROVE  CallsInv'
  BY <1>5 DEF IInv, CallsInv, TypeOK, Execute, store, tasks
<1>6. ASSUME NEW c \in Calls, CloseReturns(c)
      PROVE  CallsInv'
  BY <1>6 DEF IInv, CallsInv, TypeOK, CloseReturns, store, tasks
<1>7. ASSUME NEW c \in Calls, Promote(c)
      PROVE  CallsInv'
  BY <1>7 DEF IInv, CallsInv, TypeOK, Promote
<1>8. ASSUME NEW c \in Calls, OpenFails(c)
      PROVE  CallsInv'
  BY <1>8 DEF IInv, CallsInv, TypeOK, OpenFails, store, tasks
<1>9. ASSUME NEW c \in Calls, CancelCall(c)
      PROVE  CallsInv'
  BY <1>9 DEF IInv, CallsInv, TypeOK, CancelCall, store, tasks
<1>10. ASSUME NEW s \in Sessions, OpenerConnects(s)
       PROVE  CallsInv'
  BY <1>10 DEF IInv, CallsInv, OpenerConnects, store, calls
<1>11. ASSUME NEW s \in Sessions, OpenerFails(s)
       PROVE  CallsInv'
  BY <1>11 DEF IInv, CallsInv, OpenerFails, CancelOpening, calls
<1>12. ASSUME NEW s \in Sessions, OpenerUndoes(s)
       PROVE  CallsInv'
  BY <1>12 DEF IInv, CallsInv, OpenerUndoes, CancelOpening, calls
<1>13. ASSUME NEW s \in Sessions, OpenerCancelsOwner(s)
       PROVE  CallsInv'
  BY <1>13 DEF IInv, CallsInv, OpenerCancelsOwner, CancelOwner, store, tasks, calls
<1>14. ASSUME NEW s \in Sessions, OpenerOwnerClosed(s)
       PROVE  CallsInv'
  BY <1>14 DEF IInv, CallsInv, OpenerOwnerClosed, store, calls
<1>15. ASSUME NEW s \in Sessions, OpenerDisposes(s)
       PROVE  CallsInv'
  BY <1>15 DEF IInv, CallsInv, OpenerDisposes, store, calls
<1>16. ASSUME NEW s \in Sessions, OwnerEnds(s)
       PROVE  CallsInv'
  BY <1>16 DEF IInv, CallsInv, OwnerEnds, store, tasks, calls
<1>17. ASSUME NEW s \in Sessions, Idle(s)
       PROVE  CallsInv'
  BY <1>17 DEF IInv, CallsInv, Idle, tasks, calls
<1>18. ASSUME NEW s \in Sessions, NEW w \in Spawners, CleanupCancelsOwner(s, w)
       PROVE  CallsInv'
  BY <1>18 DEF IInv, CallsInv, CleanupCancelsOwner, CancelOwner, store, tasks, calls
<1>19. ASSUME NEW s \in Sessions, NEW w \in Spawners, CleanupOwnerClosed(s, w)
       PROVE  CallsInv'
  BY <1>19 DEF IInv, CallsInv, CleanupOwnerClosed, CleanupAt, store, calls
<1>20. ASSUME NEW s \in Sessions, NEW w \in Spawners, CleanupPool(s, w)
       PROVE  CallsInv'
  <2>1. PICK step \in {"closed", "failed"} : PoolStep(s, w, step)
    BY <1>20, CleanupPoolEffect DEF IInv
  <2>2. "call" \in Spawners
    BY DEF Spawners
  <2>3. \A q \in Sessions : cleanup[q]["call"] = "none" => cleanup'[q]["call"] = "none"
    BY <2>1, <2>2 DEF PoolStep
  <2> QED BY <2>1, <2>3 DEF IInv, CallsInv, PoolStep
<1>21. ASSUME NEW s \in Sessions, NEW w \in Spawners, CleanupSettles(s, w)
       PROVE  CallsInv'
  <2>1. /\ cleanup[s][w] \in {"closed", "failed"}
        /\ UNCHANGED <<kind, pool, owner, opener, pc, target>>
    BY <1>21 DEF CleanupSettles, backend
  <2>2. \A q \in Sessions, v \in Spawners :
          cleanup'[q][v] = IF q = s /\ v = w THEN "none" ELSE cleanup[q][v]
    BY <1>21, CleanupEffect DEF CleanupSettles, IInv, CleanupSteps
  <2>3. \A q \in Sessions :
          \/ place'[q] = place[q]
          \/ q = s /\ w = "call" /\ place[q] = "closing" /\ place'[q] \in {"active", "gone"}
    BY <1>21 DEF CleanupSettles, AfterCleanup, IInv, TypeOK, Spawners
  <2>4. cleanup[s]["call"] = "none" => w # "call"
    BY <2>1
  <2>5. \A q \in Sessions :
          cleanup[q]["call"] = "none" => place'[q] = place[q] /\ cleanup'[q]["call"] = "none"
    BY <2>2, <2>3, <2>4 DEF Spawners
  <2>6. \A q \in Sessions : place[q] = "opening" => place'[q] = "opening"
    BY <2>3
  <2>7. \A q \in Sessions : place[q] # "unused" => place'[q] # "unused"
    BY <2>3
  <2> QED BY <2>1, <2>5, <2>6, <2>7 DEF IInv, CallsInv
<1>22. ASSUME Shutdown
       PROVE  CallsInv'
  BY <1>22 DEF IInv, CallsInv, Shutdown, SpawnCleanup, calls
<1>23. ASSUME UNCHANGED vars
       PROVE  CallsInv'
  BY <1>23 DEF IInv, CallsInv, TypeOK, TasksInv, TasksInvAt, vars, store, backend, tasks, calls,
      histories, ghosts
<1> QED
  BY <1>1, <1>2, <1>3, <1>4, <1>5, <1>6, <1>7, <1>8, <1>9, <1>10, <1>11, <1>12, <1>13,
     <1>14, <1>15, <1>16, <1>17, <1>18, <1>19, <1>20, <1>21, <1>22, <1>23
  DEF Next, CallStep, OpenerStep, CleanupStep

\* No step moves the session of a task to where the task does not expect it.
LEMMA TasksStep ==
  ASSUME IInv, [Next]_vars
  PROVE  TasksInv'
<1>1. ASSUME NEW c \in Calls, NEW k \in {"plain", "transactions"}, OpenSession(c, k)
      PROVE  TasksInv'
  BY <1>1, OpenMoves, MovedInv DEF IInv
<1>2. ASSUME NEW c \in Calls, NEW s \in Sessions, Resolve(c, s)
      PROVE  TasksInv'
  BY <1>2, ResolveMoves, MovedInv DEF IInv
<1>3. ASSUME NEW c \in Calls, NEW s \in Sessions, CloseSession(c, s)
      PROVE  TasksInv'
  BY <1>3, CloseMoves, MovedInv DEF IInv
<1>4. ASSUME NEW c \in Calls, Continue(c)
      PROVE  TasksInv'
  BY <1>4, ContinueMoves, MovedInv DEF IInv
<1>5. ASSUME NEW c \in Calls, Execute(c)
      PROVE  TasksInv'
  BY <1>5 DEF IInv, TasksInv, TasksInvAt, Execute, store, tasks
<1>6. ASSUME NEW c \in Calls, CloseReturns(c)
      PROVE  TasksInv'
  BY <1>6 DEF IInv, TasksInv, TasksInvAt, CloseReturns, store, tasks
<1>7. ASSUME NEW c \in Calls, Promote(c)
      PROVE  TasksInv'
  BY <1>7 DEF IInv, TasksInv, TasksInvAt, TypeOK, Promote
<1>8. ASSUME NEW c \in Calls, OpenFails(c)
      PROVE  TasksInv'
  BY <1>8 DEF IInv, TasksInv, TasksInvAt, OpenFails, store, tasks
<1>9. ASSUME NEW c \in Calls, CancelCall(c)
      PROVE  TasksInv'
  BY <1>9 DEF IInv, TasksInv, TasksInvAt, CancelCall, store, tasks
<1>10. ASSUME NEW s \in Sessions, OpenerConnects(s)
       PROVE  TasksInv'
  BY <1>10 DEF IInv, TasksInv, TasksInvAt, OpenerConnects, store
<1>11. ASSUME NEW s \in Sessions, OpenerFails(s)
       PROVE  TasksInv'
  BY <1>11 DEF IInv, TasksInv, TasksInvAt, TypeOK, OpenerFails, CancelOpening
<1>12. ASSUME NEW s \in Sessions, OpenerUndoes(s)
       PROVE  TasksInv'
  BY <1>12 DEF IInv, TasksInv, TasksInvAt, TypeOK, OpenerUndoes, CancelOpening
<1>13. ASSUME NEW s \in Sessions, OpenerCancelsOwner(s)
       PROVE  TasksInv'
  BY <1>13 DEF IInv, TasksInv, TasksInvAt, OpenerCancelsOwner, CancelOwner, store, tasks
<1>14. ASSUME NEW s \in Sessions, OpenerOwnerClosed(s)
       PROVE  TasksInv'
  BY <1>14 DEF IInv, TasksInv, TasksInvAt, OpenerOwnerClosed, store
<1>15. ASSUME NEW s \in Sessions, OpenerDisposes(s)
       PROVE  TasksInv'
  BY <1>15 DEF IInv, TasksInv, TasksInvAt, OpenerDisposes, store
<1>16. ASSUME NEW s \in Sessions, OwnerEnds(s)
       PROVE  TasksInv'
  BY <1>16 DEF IInv, TasksInv, TasksInvAt, OwnerEnds, store, tasks
<1>17. ASSUME NEW s \in Sessions, Idle(s)
       PROVE  TasksInv'
  BY <1>17 DEF IInv, TasksInv, TasksInvAt, Idle, tasks
<1>18. ASSUME NEW s \in Sessions, NEW w \in Spawners, CleanupCancelsOwner(s, w)
       PROVE  TasksInv'
  BY <1>18 DEF IInv, TasksInv, TasksInvAt, CleanupCancelsOwner, CancelOwner, store, tasks
<1>19. ASSUME NEW s \in Sessions, NEW w \in Spawners, CleanupOwnerClosed(s, w)
       PROVE  TasksInv'
  BY <1>19 DEF IInv, TasksInv, TasksInvAt, CleanupOwnerClosed, CleanupAt, store
<1>20. ASSUME NEW s \in Sessions, NEW w \in Spawners, CleanupPool(s, w)
       PROVE  TasksInv'
  <2>1. PICK step \in {"closed", "failed"} : PoolStep(s, w, step)
    BY <1>20, CleanupPoolEffect DEF IInv
  <2>2. \A q \in Sessions, v \in Spawners : cleanup'[q][v] # "none" => cleanup[q][v] # "none"
    BY <2>1 DEF PoolStep
  <2> QED BY <2>1, <2>2 DEF IInv, TasksInv, TasksInvAt, Spawners, PoolStep
<1>21. ASSUME NEW s \in Sessions, NEW w \in Spawners, CleanupSettles(s, w)
       PROVE  TasksInv'
  <2>1. /\ cleanup[s][w] \in {"closed", "failed"}
        /\ UNCHANGED <<kind, pool, owner, opener, pc, target>>
    BY <1>21 DEF CleanupSettles, backend
  <2>2. \A q \in Sessions, v \in Spawners :
          cleanup'[q][v] = IF q = s /\ v = w THEN "none" ELSE cleanup[q][v]
    BY <1>21, CleanupEffect DEF CleanupSettles, IInv, CleanupSteps
  <2>3. \A q \in Sessions :
          \/ place'[q] = place[q]
          \/ q = s /\ w = "call" /\ place[q] = "closing" /\ place'[q] \in {"active", "gone"}
    BY <1>21 DEF CleanupSettles, AfterCleanup, IInv, TypeOK, Spawners
  <2> SUFFICES ASSUME NEW q \in Sessions
               PROVE  TasksInvAt(q)'
    BY DEF TasksInv, TasksInvAt
  <2>4. /\ cleanup'[q]["call"] # "none" => cleanup[q]["call"] # "none" /\ ~(q = s /\ w = "call")
        /\ cleanup'[q]["shutdown"] # "none" => cleanup[q]["shutdown"] # "none"
    BY <2>2 DEF Spawners
  <2> QED BY <2>1, <2>3, <2>4 DEF IInv, TasksInv, TasksInvAt
<1>22. ASSUME Shutdown
       PROVE  TasksInv'
  BY <1>22 DEF IInv, TasksInv, TasksInvAt, Shutdown, SpawnCleanup
<1>23. ASSUME UNCHANGED vars
       PROVE  TasksInv'
  BY <1>23 DEF IInv, TasksInv, TasksInvAt, TypeOK, CallsInv, vars, store, backend, tasks, calls,
      histories, ghosts
<1> QED
  BY <1>1, <1>2, <1>3, <1>4, <1>5, <1>6, <1>7, <1>8, <1>9, <1>10, <1>11, <1>12, <1>13,
     <1>14, <1>15, <1>16, <1>17, <1>18, <1>19, <1>20, <1>21, <1>22, <1>23
  DEF Next, CallStep, OpenerStep, CleanupStep

\* A task that goes on has released what the steps before it were for.
LEMMA GoodsStep ==
  ASSUME IInv, [Next]_vars
  PROVE  GoodsInv'
<1>1. ASSUME NEW c \in Calls, NEW k \in {"plain", "transactions"}, OpenSession(c, k)
      PROVE  GoodsInv'
  BY <1>1, OpenMoves, MovedInv DEF IInv
<1>2. ASSUME NEW c \in Calls, NEW s \in Sessions, Resolve(c, s)
      PROVE  GoodsInv'
  BY <1>2, ResolveMoves, MovedInv DEF IInv
<1>3. ASSUME NEW c \in Calls, NEW s \in Sessions, CloseSession(c, s)
      PROVE  GoodsInv'
  BY <1>3, CloseMoves, MovedInv DEF IInv
<1>4. ASSUME NEW c \in Calls, Continue(c)
      PROVE  GoodsInv'
  BY <1>4, ContinueMoves, MovedInv DEF IInv
<1>5. ASSUME NEW c \in Calls, Execute(c)
      PROVE  GoodsInv'
  <2>1. /\ UNCHANGED <<place, kind, owner, opener, cleanup, kept>>
        /\ pc[c] = "using" /\ target[c] \in Sessions /\ place[target[c]] # "unused"
    BY <1>5 DEF Execute, store, tasks, IInv, CallsInv
  <2>2. ASSUME NEW q \in Sessions
        PROVE  /\ pool'[q] = pool[q] \/ (q = target[c] /\ (place[q] = "active" \/ q \in repinned'))
               /\ repinned \subseteq repinned'
    BY <1>5, <2>1 DEF Execute, IInv, TypeOK
  <2>3. ASSUME NEW q \in Sessions
        PROVE  /\ place'[q] = "unused" => pool'[q] = "none" /\ owner'[q] = "none"
               /\ owner'[q] # "none" \/ place'[q] = "opening" => kind'[q] = "transactions"
               /\ owner'[q] # "none" /\ place'[q] = "opening" => opener'[q] = "prepared"
               /\ opener'[q] \in {"dispose", "failing", "failed"} => owner'[q] # "live"
               /\ cleanup'[q]["shutdown"] # "none" /\ place'[q] = "active" => q \in kept'
    BY <2>1, <2>2 DEF IInv, GoodsInv
  <2>4. ASSUME NEW q \in Sessions, NEW v \in Spawners
        PROVE  /\ cleanup'[q][v] \in {"pool", "closed", "failed"} => owner'[q] # "live"
               /\ cleanup'[q][v] = "closed" => pool'[q] = "none" \/ q \in repinned' \cup kept'
               /\ cleanup'[q][v] = "failed" => q \in kept'
    <3>1. place[q] = "active" /\ cleanup[q][v] # "none" => q \in kept
      BY DEF IInv, TasksInv, TasksInvAt, GoodsInv, Spawners
    <3> QED BY <2>1, <2>2, <3>1 DEF IInv, GoodsInv
  <2> QED BY <2>3, <2>4 DEF GoodsInv
<1>6. ASSUME NEW c \in Calls, CloseReturns(c)
      PROVE  GoodsInv'
  BY <1>6 DEF IInv, GoodsInv, CloseReturns, store, backend, tasks, ghosts, histories
<1>7. ASSUME NEW c \in Calls, Promote(c)
      PROVE  GoodsInv'
  <2>1. /\ target[c] \in Sessions /\ place[target[c]] = "opening"
        /\ UNCHANGED <<kind, pool, owner, cleanup, repinned, kept>>
    BY <1>7 DEF Promote, backend, ghosts, histories, IInv, CallsInv
  <2>2. \A q \in Sessions :
          /\ place'[q] = IF q = target[c] THEN "active" ELSE place[q]
          /\ opener'[q] = IF q = target[c] THEN "none" ELSE opener[q]
    BY <1>7 DEF Promote, IInv, TypeOK
  <2>3. ASSUME NEW q \in Sessions
        PROVE  /\ place'[q] = "unused" => pool'[q] = "none" /\ owner'[q] = "none"
               /\ owner'[q] # "none" \/ place'[q] = "opening" => kind'[q] = "transactions"
               /\ owner'[q] # "none" /\ place'[q] = "opening" => opener'[q] = "prepared"
               /\ opener'[q] \in {"dispose", "failing", "failed"} => owner'[q] # "live"
               /\ cleanup'[q]["shutdown"] # "none" /\ place'[q] = "active" => q \in kept'
    BY <2>1, <2>2 DEF IInv, TasksInv, TasksInvAt, GoodsInv
  <2>4. ASSUME NEW q \in Sessions, NEW v \in Spawners
        PROVE  /\ cleanup'[q][v] \in {"pool", "closed", "failed"} => owner'[q] # "live"
               /\ cleanup'[q][v] = "closed" => pool'[q] = "none" \/ q \in repinned' \cup kept'
               /\ cleanup'[q][v] = "failed" => q \in kept'
    BY <2>1 DEF IInv, GoodsInv
  <2> QED BY <2>3, <2>4 DEF GoodsInv
<1>8. ASSUME NEW c \in Calls, OpenFails(c)
      PROVE  GoodsInv'
  BY <1>8 DEF IInv, GoodsInv, OpenFails, store, backend, tasks, ghosts, histories
<1>9. ASSUME NEW c \in Calls, CancelCall(c)
      PROVE  GoodsInv'
  BY <1>9 DEF IInv, GoodsInv, CancelCall, store, backend, tasks
<1>10. ASSUME NEW s \in Sessions, OpenerConnects(s)
       PROVE  GoodsInv'
  <2>1. /\ opener[s] = "connecting" /\ UNCHANGED <<kind, cleanup, repinned, kept>>
    BY <1>10 DEF OpenerConnects, store, ghosts, histories
  <2>2. place[s] = "opening" /\ owner[s] = "none"
    BY <2>1 DEF IInv, TasksInv, TasksInvAt, GoodsInv
  <2>3. \A q \in Sessions :
          /\ q # s => UNCHANGED <<place[q], pool[q], owner[q], opener[q]>>
          /\ q = s => place'[q] = place[q] /\ opener'[q] = "prepared"
    BY <1>10, <2>2 DEF OpenerConnects, store, IInv, TypeOK
  <2>4. \A v \in Spawners : cleanup[s][v] = "none"
    BY <2>2 DEF IInv, TasksInv, TasksInvAt, Spawners
  <2>5. ASSUME NEW q \in Sessions
        PROVE  /\ place'[q] = "unused" => pool'[q] = "none" /\ owner'[q] = "none"
               /\ owner'[q] # "none" \/ place'[q] = "opening" => kind'[q] = "transactions"
               /\ owner'[q] # "none" /\ place'[q] = "opening" => opener'[q] = "prepared"
               /\ opener'[q] \in {"dispose", "failing", "failed"} => owner'[q] # "live"
               /\ cleanup'[q]["shutdown"] # "none" /\ place'[q] = "active" => q \in kept'
    BY <2>1, <2>2, <2>3, <2>4 DEF IInv, GoodsInv, Spawners
  <2>6. ASSUME NEW q \in Sessions, NEW v \in Spawners
        PROVE  /\ cleanup'[q][v] \in {"pool", "closed", "failed"} => owner'[q] # "live"
               /\ cleanup'[q][v] = "closed" => pool'[q] = "none" \/ q \in repinned' \cup kept'
               /\ cleanup'[q][v] = "failed" => q \in kept'
    BY <2>1, <2>3, <2>4 DEF IInv, GoodsInv
  <2> QED BY <2>5, <2>6 DEF GoodsInv
<1>11. ASSUME NEW s \in Sessions, OpenerFails(s)
       PROVE  GoodsInv'
  <2>1. /\ opener[s] = "connecting" /\ UNCHANGED <<kind, cleanup, repinned, kept>>
    BY <1>11 DEF OpenerFails, store, ghosts, histories
  <2>2. place[s] = "opening" /\ owner[s] = "none"
    BY <2>1 DEF IInv, TasksInv, TasksInvAt, GoodsInv
  <2>3. \A q \in Sessions :
          /\ q # s => UNCHANGED <<place[q], pool[q], owner[q], opener[q]>>
          /\ q = s => place'[q] = "gone" /\ opener'[q] = "failing" /\ owner'[q] # "live"
    BY <1>11, <2>2 DEF OpenerFails, CancelOpening, store, IInv, TypeOK
  <2>4. \A v \in Spawners : cleanup[s][v] = "none"
    BY <2>2 DEF IInv, TasksInv, TasksInvAt, Spawners
  <2>5. ASSUME NEW q \in Sessions
        PROVE  /\ place'[q] = "unused" => pool'[q] = "none" /\ owner'[q] = "none"
               /\ owner'[q] # "none" \/ place'[q] = "opening" => kind'[q] = "transactions"
               /\ owner'[q] # "none" /\ place'[q] = "opening" => opener'[q] = "prepared"
               /\ opener'[q] \in {"dispose", "failing", "failed"} => owner'[q] # "live"
               /\ cleanup'[q]["shutdown"] # "none" /\ place'[q] = "active" => q \in kept'
    BY <2>1, <2>2, <2>3, <2>4 DEF IInv, GoodsInv, Spawners
  <2>6. ASSUME NEW q \in Sessions, NEW v \in Spawners
        PROVE  /\ cleanup'[q][v] \in {"pool", "closed", "failed"} => owner'[q] # "live"
               /\ cleanup'[q][v] = "closed" => pool'[q] = "none" \/ q \in repinned' \cup kept'
               /\ cleanup'[q][v] = "failed" => q \in kept'
    BY <2>1, <2>3, <2>4 DEF IInv, GoodsInv
  <2> QED BY <2>5, <2>6 DEF GoodsInv
<1>12. ASSUME NEW s \in Sessions, OpenerUndoes(s)
       PROVE  GoodsInv'
  BY <1>12 DEF IInv, GoodsInv, TypeOK, OpenerUndoes, CancelOpening, backend, ghosts, histories
<1>13. ASSUME NEW s \in Sessions, OpenerCancelsOwner(s)
       PROVE  GoodsInv'
  BY <1>13 DEF IInv, GoodsInv, OpenerCancelsOwner, CancelOwner, store, tasks, ghosts, histories
<1>14. ASSUME NEW s \in Sessions, OpenerOwnerClosed(s)
       PROVE  GoodsInv'
  BY <1>14 DEF IInv, GoodsInv, OpenerOwnerClosed, store, backend, ghosts, histories
<1>15. ASSUME NEW s \in Sessions, OpenerDisposes(s)
       PROVE  GoodsInv'
  BY <1>15 DEF IInv, GoodsInv, TypeOK, OpenerDisposes, store
<1>16. ASSUME NEW s \in Sessions, OwnerEnds(s)
       PROVE  GoodsInv'
  BY <1>16 DEF IInv, GoodsInv, OwnerEnds, store, tasks, ghosts, histories
<1>17. ASSUME NEW s \in Sessions, Idle(s)
       PROVE  GoodsInv'
  BY <1>17 DEF IInv, GoodsInv, Idle, backend, tasks, ghosts, histories
<1>18. ASSUME NEW s \in Sessions, NEW w \in Spawners, CleanupCancelsOwner(s, w)
       PROVE  GoodsInv'
  BY <1>18 DEF IInv, GoodsInv, CleanupCancelsOwner, CancelOwner, store, tasks, ghosts, histories
<1>19. ASSUME NEW s \in Sessions, NEW w \in Spawners, CleanupOwnerClosed(s, w)
       PROVE  GoodsInv'
  BY <1>19 DEF IInv, GoodsInv, CleanupOwnerClosed, CleanupAt, store, backend, ghosts, histories
<1>20. ASSUME NEW s \in Sessions, NEW w \in Spawners, CleanupPool(s, w)
       PROVE  GoodsInv'
  <2>1. PICK step \in {"closed", "failed"} : PoolStep(s, w, step)
    BY <1>20, CleanupPoolEffect DEF IInv
  <2>2. ASSUME NEW q \in Sessions, NEW v \in Spawners
        PROVE  /\ cleanup'[q][v] \in {"pool", "closed", "failed"} => owner'[q] # "live"
               /\ cleanup'[q][v] = "closed" => pool'[q] = "none" \/ q \in repinned' \cup kept'
               /\ cleanup'[q][v] = "failed" => q \in kept'
    <3>1. /\ cleanup[q][v] \in {"pool", "closed", "failed"} => owner[q] # "live"
          /\ cleanup[q][v] = "closed" => pool[q] = "none" \/ q \in repinned \cup kept
          /\ cleanup[q][v] = "failed" => q \in kept
      BY DEF IInv, GoodsInv
    <3>2. kept \subseteq kept' /\ (pool[q] = "none" => pool'[q] = "none")
      BY <2>1 DEF IInv, TypeOK, PoolStep
    <3>3. CASE q = s /\ v = w
      BY <2>1, <3>1, <3>3 DEF IInv, TypeOK, PoolStep
    <3>4. CASE ~(q = s /\ v = w)
      BY <2>1, <3>1, <3>2, <3>4 DEF PoolStep
    <3> QED BY <3>3, <3>4
  <2>3. ASSUME NEW q \in Sessions
        PROVE  /\ place'[q] = "unused" => pool'[q] = "none" /\ owner'[q] = "none"
               /\ owner'[q] # "none" \/ place'[q] = "opening" => kind'[q] = "transactions"
               /\ owner'[q] # "none" /\ place'[q] = "opening" => opener'[q] = "prepared"
               /\ opener'[q] \in {"dispose", "failing", "failed"} => owner'[q] # "live"
               /\ cleanup'[q]["shutdown"] # "none" /\ place'[q] = "active" => q \in kept'
    <3>1. kept \subseteq kept' /\ (pool[q] = "none" => pool'[q] = "none")
      BY <2>1 DEF IInv, TypeOK, PoolStep
    <3>2. cleanup'[q]["shutdown"] # "none" => cleanup[q]["shutdown"] # "none"
      BY <2>1 DEF Spawners, PoolStep
    <3> QED BY <2>1, <3>1, <3>2 DEF IInv, GoodsInv, PoolStep
  <2> QED BY <2>2, <2>3 DEF GoodsInv
<1>21. ASSUME NEW s \in Sessions, NEW w \in Spawners, CleanupSettles(s, w)
       PROVE  GoodsInv'
  BY <1>21 DEF IInv, GoodsInv, CleanupSettles, CleanupAt, AfterCleanup, backend, ghosts,
      histories
<1>22. ASSUME Shutdown
       PROVE  GoodsInv'
  BY <1>22 DEF IInv, GoodsInv, Shutdown, SpawnCleanup, FirstStep, backend, ghosts, histories
<1>23. ASSUME UNCHANGED vars
       PROVE  GoodsInv'
  BY <1>23 DEF IInv, GoodsInv, TypeOK, CallsInv, TasksInv, TasksInvAt, vars, store, backend,
      tasks, calls, histories, ghosts
<1> QED
  BY <1>1, <1>2, <1>3, <1>4, <1>5, <1>6, <1>7, <1>8, <1>9, <1>10, <1>11, <1>12, <1>13,
     <1>14, <1>15, <1>16, <1>17, <1>18, <1>19, <1>20, <1>21, <1>22, <1>23
  DEF Next, CallStep, OpenerStep, CleanupStep

\* When a session leaves the store or a task ends, nothing is left that was not
\* disposed of or handed on.
LEMMA LeftStep ==
  ASSUME IInv, [Next]_vars
  PROVE  NothingIsLeftBehind'
<1>1. ASSUME NEW c \in Calls, NEW k \in {"plain", "transactions"}, OpenSession(c, k)
      PROVE  NothingIsLeftBehind'
  BY <1>1, OpenMoves, MovedInv DEF IInv
<1>2. ASSUME NEW c \in Calls, NEW s \in Sessions, Resolve(c, s)
      PROVE  NothingIsLeftBehind'
  BY <1>2, ResolveMoves, MovedInv DEF IInv
<1>3. ASSUME NEW c \in Calls, NEW s \in Sessions, CloseSession(c, s)
      PROVE  NothingIsLeftBehind'
  BY <1>3, CloseMoves, MovedInv DEF IInv
<1>4. ASSUME NEW c \in Calls, Continue(c)
      PROVE  NothingIsLeftBehind'
  BY <1>4, ContinueMoves, MovedInv DEF IInv
<1>5. ASSUME NEW c \in Calls, Execute(c)
      PROVE  NothingIsLeftBehind'
  BY <1>5 DEF IInv, NothingIsLeftBehind, TypeOK, InStore, AtWork, Execute, store, tasks
<1>6. ASSUME NEW c \in Calls, CloseReturns(c)
      PROVE  NothingIsLeftBehind'
  BY <1>6 DEF IInv, NothingIsLeftBehind, InStore, AtWork, CloseReturns, store, backend, tasks,
      ghosts, histories
<1>7. ASSUME NEW c \in Calls, Promote(c)
      PROVE  NothingIsLeftBehind'
  BY <1>7 DEF IInv, NothingIsLeftBehind, InStore, AtWork, Promote, backend, ghosts, histories
<1>8. ASSUME NEW c \in Calls, OpenFails(c)
      PROVE  NothingIsLeftBehind'
  BY <1>8 DEF IInv, NothingIsLeftBehind, InStore, AtWork, OpenFails, store, backend, tasks,
      ghosts, histories
<1>9. ASSUME NEW c \in Calls, CancelCall(c)
      PROVE  NothingIsLeftBehind'
  BY <1>9 DEF IInv, NothingIsLeftBehind, InStore, AtWork, CancelCall, store, backend, tasks
<1>10. ASSUME NEW s \in Sessions, OpenerConnects(s)
       PROVE  NothingIsLeftBehind'
  BY <1>10 DEF IInv, NothingIsLeftBehind, InStore, AtWork, OpenerConnects, store, ghosts,
      histories
<1>11. ASSUME NEW s \in Sessions, OpenerFails(s)
       PROVE  NothingIsLeftBehind'
  BY <1>11 DEF IInv, NothingIsLeftBehind, TypeOK, InStore, AtWork, OpenerFails, CancelOpening,
      ghosts, histories
<1>12. ASSUME NEW s \in Sessions, OpenerUndoes(s)
       PROVE  NothingIsLeftBehind'
  BY <1>12 DEF IInv, NothingIsLeftBehind, InStore, AtWork, OpenerUndoes, CancelOpening, backend,
      ghosts, histories
<1>13. ASSUME NEW s \in Sessions, OpenerCancelsOwner(s)
       PROVE  NothingIsLeftBehind'
  BY <1>13 DEF IInv, NothingIsLeftBehind, InStore, AtWork, OpenerCancelsOwner, CancelOwner,
      store, tasks, ghosts, histories
<1>14. ASSUME NEW s \in Sessions, OpenerOwnerClosed(s)
       PROVE  NothingIsLeftBehind'
  BY <1>14 DEF IInv, NothingIsLeftBehind, InStore, AtWork, OpenerOwnerClosed, store, backend,
      ghosts, histories
<1>15. ASSUME NEW s \in Sessions, OpenerDisposes(s)
       PROVE  NothingIsLeftBehind'
  BY <1>15 DEF IInv, NothingIsLeftBehind, TypeOK, GoodsInv, InStore, AtWork, OpenerDisposes,
      store
<1>16. ASSUME NEW s \in Sessions, OwnerEnds(s)
       PROVE  NothingIsLeftBehind'
  BY <1>16 DEF IInv, NothingIsLeftBehind, InStore, AtWork, OwnerEnds, store, tasks, ghosts,
      histories
<1>17. ASSUME NEW s \in Sessions, Idle(s)
       PROVE  NothingIsLeftBehind'
  BY <1>17 DEF IInv, NothingIsLeftBehind, InStore, AtWork, Idle, backend, tasks, ghosts,
      histories
<1>18. ASSUME NEW s \in Sessions, NEW w \in Spawners, CleanupCancelsOwner(s, w)
       PROVE  NothingIsLeftBehind'
  BY <1>18 DEF IInv, NothingIsLeftBehind, InStore, AtWork, CleanupCancelsOwner, CancelOwner,
      store, tasks, ghosts, histories
<1>19. ASSUME NEW s \in Sessions, NEW w \in Spawners, CleanupOwnerClosed(s, w)
       PROVE  NothingIsLeftBehind'
  BY <1>19 DEF IInv, NothingIsLeftBehind, InStore, AtWork, CleanupOwnerClosed, CleanupAt, store,
      backend, ghosts, histories
<1>20. ASSUME NEW s \in Sessions, NEW w \in Spawners, CleanupPool(s, w)
       PROVE  NothingIsLeftBehind'
  BY <1>20 DEF IInv, NothingIsLeftBehind, TypeOK, TasksInv, TasksInvAt, InStore, AtWork,
      Spawners, CleanupPool, CleanupAt, store
<1>21. ASSUME NEW s \in Sessions, NEW w \in Spawners, CleanupSettles(s, w)
       PROVE  NothingIsLeftBehind'
  BY <1>21 DEF IInv, NothingIsLeftBehind, GoodsInv, InStore, AtWork, CleanupSettles, CleanupAt,
      AfterCleanup, backend, ghosts, histories
<1>22. ASSUME Shutdown
       PROVE  NothingIsLeftBehind'
  BY <1>22 DEF IInv, NothingIsLeftBehind, TypeOK, InStore, AtWork, Spawners, Shutdown,
      SpawnCleanup, FirstStep, backend, ghosts, histories
<1>23. ASSUME UNCHANGED vars
       PROVE  NothingIsLeftBehind'
  BY <1>23 DEF IInv, NothingIsLeftBehind, TypeOK, CallsInv, TasksInv, TasksInvAt, GoodsInv,
      InStore, AtWork, Spawners, vars, store, backend, tasks, calls, histories, ghosts
<1> QED
  BY <1>1, <1>2, <1>3, <1>4, <1>5, <1>6, <1>7, <1>8, <1>9, <1>10, <1>11, <1>12, <1>13,
     <1>14, <1>15, <1>16, <1>17, <1>18, <1>19, <1>20, <1>21, <1>22, <1>23
  DEF Next, CallStep, OpenerStep, CleanupStep

-----------------------------------------------------------------------------
(* Theorems *)

\* The invariant holds at the beginning,
LEMMA InitInv == Init => IInv
BY SessionAssumption
   DEF Init, IInv, TypeOK, CallsInv, TasksInv, TasksInvAt, GoodsInv, NothingIsLeftBehind,
       InStore, AtWork, Spawners, CleanupSteps, OpenerSteps, Plans

\* every step preserves it,
LEMMA StepInv == IInv /\ [Next]_vars => IInv'
BY TypeStep, CallsStep, TasksStep, GoodsStep, LeftStep DEF IInv

\* and so it always holds.
LEMMA Inductive == Spec => []IInv
BY InitInv, StepInv, PTL DEF Spec

\* The store, the calls, the tasks and the backend keep their types.
THEOREM TypeCorrect == Spec => []TypeOK
BY Inductive, PTL DEF IInv

\* Whichever calls are cancelled and whatever fails, a live owner and a pinned pool
\* belong to a session of the store or to a task that disposes of them, but for the
\* pools that were pinned again or not closed.
THEOREM NothingLeft == Spec => []NothingIsLeftBehind
BY Inductive, PTL DEF IInv

\* A session that calls can resolve is in no task's hands: what opened it has let go
\* of it and no cleanup closes its owner or its pool.
THEOREM Undisturbed == Spec => []ActiveIsUndisturbed
<1>1. IInv => ActiveIsUndisturbed
  BY DEF IInv, TypeOK, TasksInv, TasksInvAt, ActiveIsUndisturbed, OpenerSteps
<1> QED
  BY <1>1, Inductive, PTL

=============================================================================
