---------------------------- MODULE McpSessions ----------------------------
(***************************************************************************)
(* The MCP session store (crates/dbx-mcp/src/session.rs) with the tool     *)
(* calls that use it and the detached tasks that open and dispose of what  *)
(* a session holds (server.rs): a backend pool pinned to the session and,  *)
(* for a session with transactions, a TransactionOwner.  A tool call may   *)
(* be cancelled, its future dropped, wherever it awaits.                   *)
(*                                                                         *)
(* A method of the store runs under its mutex and is one step, up to the   *)
(* next await of the caller.  The owner is seen from outside: it is        *)
(* cancelled and ends, as TransactionOwner describes in detail.            *)
(***************************************************************************)
EXTENDS Naturals, FiniteSets

CONSTANTS
  Calls,        \* tool calls in progress
  MaxIds,       \* bound: sessions opened (uuids in the code, never reused)
  MaxSessions,  \* MAX_SESSIONS
  MaxFaults     \* bound: calls cancelled and pools that the backend fails to close

Sessions == 1..MaxIds
NoSession == 0

ASSUME SessionAssumption ==
  /\ MaxIds \in Nat
  /\ MaxSessions \in Nat \ {0}
  /\ MaxFaults \in Nat

VARIABLES
  place,     \* the map that holds the session
  kind,      \* opened with enable_transactions or not
  stale,     \* last_used is idle_ttl ago
  pool,      \* the backend pool pinned by client_session_id
  owner,     \* the session's TransactionOwner
  opener,    \* the task of spawn_transaction_session_open
  cleanup,   \* the tasks of spawn_session_cleanup, by who spawned them
  pc,        \* where a tool call is
  target,    \* its session
  awaiting,  \* sessions whose cleanup it awaits
  shut,      \* has the server taken all sessions?
  lost,      \* history: reserved by a call that was cancelled before it
             \* spawned the task that opens or closes the session
  repinned,  \* history: queried by a call that resolved it before it was closed
  kept,      \* history: the backend did not close its pool
  faults     \* counts what MaxFaults bounds

store == <<place, kind, stale>>
backend == <<pool, owner>>
tasks == <<opener, cleanup>>
calls == <<pc, target, awaiting>>
histories == <<lost, repinned, kept>>
ghosts == <<histories, faults>>
vars == <<store, backend, tasks, calls, shut, ghosts>>

Spawners == {"call", "shutdown"}
CleanupSteps == {"none", "owner", "pool", "closed", "failed"}
OpenerSteps == {"none", "connecting", "prepared", "undo", "dispose", "failing", "failed"}
\* What a call does once the expired sessions are disposed of, and later.
Plans == {"open", "use", "close", "return"}
Later == [open |-> "preparing", use |-> "using", close |-> "closing", return |-> "idle"]

TypeOK ==
  /\ place \in [Sessions -> {"unused", "opening", "active", "closing", "gone"}]
  /\ kind \in [Sessions -> {"plain", "transactions"}]
  /\ stale \in SUBSET Sessions
  /\ pool \in [Sessions -> {"none", "open"}]
  /\ owner \in [Sessions -> {"none", "live", "cancelled", "closed"}]
  /\ opener \in [Sessions -> OpenerSteps]
  /\ cleanup \in [Sessions -> [Spawners -> CleanupSteps]]
  /\ pc \in [Calls -> Plans \cup {"idle", "preparing", "using", "closing"}]
  /\ target \in [Calls -> Sessions \cup {NoSession}]
  /\ awaiting \in [Calls -> SUBSET Sessions]
  /\ shut \in {0, 1}
  /\ lost \in SUBSET Sessions
  /\ repinned \in SUBSET Sessions
  /\ kept \in SUBSET Sessions
  /\ faults \in 0..MaxFaults

Init ==
  /\ place = [s \in Sessions |-> "unused"]
  /\ kind = [s \in Sessions |-> "plain"]
  /\ stale = {}
  /\ pool = [s \in Sessions |-> "none"]
  /\ owner = [s \in Sessions |-> "none"]
  /\ opener = [s \in Sessions |-> "none"]
  /\ cleanup = [s \in Sessions |-> [w \in Spawners |-> "none"]]
  /\ pc = [c \in Calls |-> "idle"]
  /\ target = [c \in Calls |-> NoSession]
  /\ awaiting = [c \in Calls |-> {}]
  /\ shut = 0
  /\ lost = {}
  /\ repinned = {}
  /\ kept = {}
  /\ faults = 0

InStore == {s \in Sessions : place[s] \in {"opening", "active", "closing"}}
Fault == faults < MaxFaults /\ faults' = faults + 1
Fresh(s) == place[s] = "unused" /\ \A q \in 1..(s - 1) : place[q] # "unused"

-----------------------------------------------------------------------------
(* Tool calls *)

\* sweep_expired: active sessions that are idle for too long go to closing.
Expired == {s \in stale : place[s] = "active"}
Swept == [s \in Sessions |-> IF s \in Expired THEN "closing" ELSE place[s]]

FirstStep(s) == IF kind[s] = "transactions" THEN "owner" ELSE "pool"

\* spawn_session_cleanup for each of S.
SpawnCleanup(S, w) ==
  cleanup' = [s \in Sessions |-> IF s \in S THEN [cleanup[s] EXCEPT ![w] = FirstStep(s)] ELSE cleanup[s]]

\* The call goes on with plan for session s: it first spawns and awaits the
\* cleanup of the sessions Old that it found expired, if there are any.
GoOn(c, plan, s, Old) ==
  LET own == IF plan = "close" /\ Old = {} THEN {s} ELSE {} IN
  /\ pc' = [pc EXCEPT ![c] = IF Old = {} THEN Later[plan] ELSE plan]
  /\ target' = [target EXCEPT ![c] = IF plan = "return" THEN NoSession ELSE s]
  /\ awaiting' = [awaiting EXCEPT ![c] = Old \cup own]
  /\ SpawnCleanup(Old \cup own, "call")
  /\ opener' = [q \in Sessions |-> IF plan = "open" /\ Old = {} /\ q = s THEN "connecting" ELSE opener[q]]

HasRoom == Cardinality(InStore) < MaxSessions

\* dbx_open_session: open or reserve_opening, refused at the limit.
OpenSession(c, k) ==
  /\ pc[c] = "idle" /\ shut = 0
  /\ \/ /\ HasRoom
        /\ \E s \in Sessions :
             /\ Fresh(s)
             /\ place' = [Swept EXCEPT ![s] = IF k = "plain" THEN "active" ELSE "opening"]
             /\ kind' = [kind EXCEPT ![s] = k]
             /\ GoOn(c, IF k = "plain" THEN "return" ELSE "open", s, Expired)
     \/ /\ ~HasRoom
        /\ place' = Swept
        /\ GoOn(c, "return", NoSession, Expired)
        /\ UNCHANGED kind
  /\ stale' = stale \ Expired
  /\ UNCHANGED <<backend, shut, ghosts>>

\* resolve, for every tool that runs in a session; the call keeps a copy.
Resolve(c, s) ==
  /\ pc[c] = "idle" /\ shut = 0 /\ place[s] # "unused"
  /\ place' = Swept
  /\ stale' = stale \ {q \in Expired \cup {s} : place[q] = "active"}
  /\ GoOn(c, IF Swept[s] = "active" THEN "use" ELSE "return", s, Expired)
  /\ UNCHANGED <<kind, backend, shut, ghosts>>

\* dbx_close_session: begin_close.
CloseSession(c, s) ==
  /\ pc[c] = "idle" /\ shut = 0 /\ place[s] # "unused"
  /\ place' = [Swept EXCEPT ![s] = IF @ = "active" THEN "closing" ELSE @]
  /\ stale' = stale \ Expired
  /\ GoOn(c, IF Swept[s] = "active" THEN "close" ELSE "return", s, Expired)
  /\ UNCHANGED <<kind, backend, shut, ghosts>>

Continue(c) ==
  /\ pc[c] \in Plans /\ awaiting[c] = {}
  /\ GoOn(c, pc[c], target[c], {})
  /\ UNCHANGED <<store, backend, shut, ghosts>>

\* A statement in the session is refused, or the owner runs it, or a pool is created
\* for it when there is none, whatever has become of the session.  The pool and the
\* return are one step: the call does not look at the store in between, and a
\* statement of a batch that finds the pool closed again only pins another one.
Execute(c) ==
  LET s == target[c] IN
  /\ pc[c] = "using"
  /\ pc' = [pc EXCEPT ![c] = "idle"]
  /\ target' = [target EXCEPT ![c] = NoSession]
  /\ \/ UNCHANGED <<pool, repinned>>
     \/ /\ kind[s] = "plain"
        /\ pool' = [pool EXCEPT ![s] = "open"]
        /\ repinned' = IF place[s] = "active" THEN repinned ELSE repinned \cup {s}
  /\ UNCHANGED <<store, owner, tasks, awaiting, shut, lost, kept, faults>>

\* The cleanup that close_session awaits has reported.
CloseReturns(c) ==
  /\ pc[c] = "closing" /\ awaiting[c] = {}
  /\ pc' = [pc EXCEPT ![c] = "idle"]
  /\ target' = [target EXCEPT ![c] = NoSession]
  /\ UNCHANGED <<store, backend, tasks, awaiting, shut, ghosts>>

\* cancellable_tool_call: the future is dropped at an await.
CancelCall(c) ==
  /\ pc[c] # "idle" /\ Fault
  /\ pc' = [pc EXCEPT ![c] = "idle"]
  /\ target' = [target EXCEPT ![c] = NoSession]
  /\ awaiting' = [awaiting EXCEPT ![c] = {}]
  /\ lost' = IF pc[c] \in {"open", "close"} THEN lost \cup {target[c]} ELSE lost
  /\ UNCHANGED <<store, backend, tasks, shut, repinned, kept>>

-----------------------------------------------------------------------------
(* Opening a session with transactions *)

Attended(s) == \E c \in Calls : pc[c] = "preparing" /\ target[c] = s

\* open_transaction_owner returned an owner; it is offered to the call.
OpenerConnects(s) ==
  /\ opener[s] = "connecting"
  /\ owner' = [owner EXCEPT ![s] = "live"]
  /\ pool' = [pool EXCEPT ![s] = "open"]
  /\ opener' = [opener EXCEPT ![s] = "prepared"]
  /\ UNCHANGED <<store, cleanup, calls, shut, ghosts>>

CancelOpening(s) == place' = [place EXCEPT ![s] = IF @ = "opening" THEN "gone" ELSE @]

\* It returned an error: no owner, or one that was invalidated because its
\* connection was removed.
OpenerFails(s) ==
  /\ opener[s] = "connecting"
  /\ CancelOpening(s)
  /\ \/ UNCHANGED owner
     \/ owner' = [owner EXCEPT ![s] = "cancelled"]
  /\ \E left \in {"none", "open"} : pool' = [pool EXCEPT ![s] = left]
  /\ opener' = [opener EXCEPT ![s] = "failing"]
  /\ UNCHANGED <<kind, stale, cleanup, calls, shut, ghosts>>

\* Mutant: the call returns without acknowledging.
PromoteSilently(c) ==
  LET s == target[c] IN
  /\ pc[c] = "preparing" /\ opener[s] = "prepared" /\ place[s] = "opening"
  /\ place' = [place EXCEPT ![s] = "active"]
  /\ pc' = [pc EXCEPT ![c] = "idle"]
  /\ target' = [target EXCEPT ![c] = NoSession]
  /\ UNCHANGED <<kind, stale, backend, tasks, awaiting, shut, ghosts>>

\* promote_opening and the acknowledgement, without an await in between.
Promote(c) ==
  LET s == target[c] IN
  /\ pc[c] = "preparing" /\ opener[s] = "prepared" /\ place[s] = "opening"
  /\ place' = [place EXCEPT ![s] = "active"]
  /\ opener' = [opener EXCEPT ![s] = "none"]
  /\ pc' = [pc EXCEPT ![c] = "idle"]
  /\ target' = [target EXCEPT ![c] = NoSession]
  /\ UNCHANGED <<kind, stale, backend, cleanup, awaiting, shut, ghosts>>

OpenFails(c) ==
  /\ pc[c] = "preparing" /\ opener[target[c]] = "failed"
  /\ pc' = [pc EXCEPT ![c] = "idle"]
  /\ target' = [target EXCEPT ![c] = NoSession]
  /\ UNCHANGED <<store, backend, tasks, awaiting, shut, ghosts>>

\* Mutant: an offer that nobody takes is left at that.
OpenerLeaves(s) ==
  /\ opener[s] = "prepared" /\ ~Attended(s)
  /\ CancelOpening(s)
  /\ opener' = [opener EXCEPT ![s] = "none"]
  /\ UNCHANGED <<kind, stale, backend, cleanup, calls, shut, ghosts>>

\* The call is gone: the opening is cancelled, then the owner, then the pool.
OpenerUndoes(s) ==
  /\ opener[s] = "prepared" /\ ~Attended(s)
  /\ CancelOpening(s)
  /\ opener' = [opener EXCEPT ![s] = "undo"]
  /\ UNCHANGED <<kind, stale, backend, cleanup, calls, shut, ghosts>>

CancelOwner(s) ==
  /\ owner[s] = "live"
  /\ owner' = [owner EXCEPT ![s] = "cancelled"]

OpenerCancelsOwner(s) ==
  /\ opener[s] = "undo"
  /\ CancelOwner(s)
  /\ UNCHANGED <<store, pool, tasks, calls, shut, ghosts>>

OpenerOwnerClosed(s) ==
  /\ opener[s] = "undo" /\ owner[s] = "closed"
  /\ opener' = [opener EXCEPT ![s] = "dispose"]
  /\ UNCHANGED <<store, backend, cleanup, calls, shut, ghosts>>

\* close_client_session, its result ignored.
OpenerDisposes(s) ==
  /\ opener[s] \in {"dispose", "failing"}
  /\ opener' = [opener EXCEPT ![s] = IF @ = "failing" THEN "failed" ELSE "none"]
  /\ \/ pool' = [pool EXCEPT ![s] = "none"] /\ UNCHANGED <<kept, faults>>
     \/ kept' = kept \cup {s} /\ Fault /\ UNCHANGED pool
  /\ UNCHANGED <<store, owner, cleanup, calls, shut, lost, repinned>>

-----------------------------------------------------------------------------
(* Disposing of a session *)

OwnerEnds(s) ==
  /\ owner[s] \in {"live", "cancelled"}
  /\ owner' = [owner EXCEPT ![s] = "closed"]
  /\ UNCHANGED <<store, pool, tasks, calls, shut, ghosts>>

CleanupAt(s, w, step) == cleanup' = [cleanup EXCEPT ![s][w] = step]

CleanupCancelsOwner(s, w) ==
  /\ cleanup[s][w] = "owner"
  /\ CancelOwner(s)
  /\ UNCHANGED <<store, pool, tasks, calls, shut, ghosts>>

CleanupOwnerClosed(s, w) ==
  /\ cleanup[s][w] = "owner" /\ owner[s] = "closed"
  /\ CleanupAt(s, w, "pool")
  /\ UNCHANGED <<store, backend, opener, calls, shut, ghosts>>

CleanupPool(s, w) ==
  /\ cleanup[s][w] = "pool"
  /\ \/ pool' = [pool EXCEPT ![s] = "none"] /\ CleanupAt(s, w, "closed") /\ UNCHANGED <<kept, faults>>
     \/ CleanupAt(s, w, "failed") /\ kept' = kept \cup {s} /\ Fault /\ UNCHANGED pool
  /\ UNCHANGED <<store, owner, opener, calls, shut, lost, repinned>>

\* Mutant: a session with an owner whose pool was not closed is not finished.
AfterCleanupKeeps(s, w, step) ==
  IF w = "shutdown" \/ place[s] # "closing" \/ (step = "failed" /\ kind[s] # "plain") THEN place[s]
  ELSE IF step = "failed" THEN "active" ELSE "gone"

\* Mutant: the result of the cleanup is stored in place of the session's state.
AfterCleanupRaw(s, w, step) == step

\* finish_close; a session without owner whose pool was not closed is put back
\* by restore_after_failed_close, if it is still in closing.  The shutdown builds a
\* server with a store of its own: what its cleanups finish or restore is not here.
AfterCleanup(s, w, step) ==
  IF w = "shutdown" \/ place[s] # "closing" THEN place[s]
  ELSE IF step = "failed" /\ kind[s] = "plain" THEN "active" ELSE "gone"

CleanupSettles(s, w) ==
  /\ cleanup[s][w] \in {"closed", "failed"}
  /\ place' = [place EXCEPT ![s] = AfterCleanup(s, w, cleanup[s][w])]
  /\ stale' = stale \ {s}
  /\ CleanupAt(s, w, "none")
  /\ awaiting' = [c \in Calls |-> IF w = "call" THEN awaiting[c] \ {s} ELSE awaiting[c]]
  /\ UNCHANGED <<kind, backend, opener, pc, target, shut, ghosts>>

\* take_all_active at the end of the server: the active sessions leave the store,
\* those in closing stay; all are cleaned up.
Shutdown ==
  /\ shut = 0
  /\ shut' = 1
  /\ SpawnCleanup({s \in Sessions : place[s] \in {"active", "closing"}}, "shutdown")
  /\ place' = [s \in Sessions |-> IF place[s] = "active" THEN "gone" ELSE place[s]]
  /\ stale' = {}
  /\ UNCHANGED <<kind, backend, opener, calls, ghosts>>

\* Time passes without a use of the session; nobody sweeps after the shutdown.
Idle(s) ==
  /\ shut = 0 /\ place[s] \in {"opening", "active"} /\ s \notin stale
  /\ stale' = stale \cup {s}
  /\ UNCHANGED <<place, kind, backend, tasks, calls, shut, ghosts>>

-----------------------------------------------------------------------------
(* Specification *)

CallStep(c) == Continue(c) \/ Execute(c) \/ CloseReturns(c) \/ Promote(c) \/ OpenFails(c)

OpenerStep(s) ==
  \/ OpenerConnects(s) \/ OpenerFails(s) \/ OpenerUndoes(s)
  \/ OpenerCancelsOwner(s) \/ OpenerOwnerClosed(s) \/ OpenerDisposes(s)

CleanupStep(s, w) ==
  \/ CleanupCancelsOwner(s, w) \/ CleanupOwnerClosed(s, w)
  \/ CleanupPool(s, w) \/ CleanupSettles(s, w)

Next ==
  \/ \E c \in Calls :
       \/ CallStep(c) \/ CancelCall(c)
       \/ \E k \in {"plain", "transactions"} : OpenSession(c, k)
       \/ \E s \in Sessions : Resolve(c, s) \/ CloseSession(c, s)
  \/ \E s \in Sessions :
       \/ OpenerStep(s) \/ OwnerEnds(s) \/ Idle(s)
       \/ \E w \in Spawners : CleanupStep(s, w)
  \/ Shutdown

Spec == Init /\ [][Next]_vars

\* Calls and spawned tasks are polled, connecting times out, and an owner that was
\* cancelled ends (TransactionOwner!CancelledIsClosed).
Fairness ==
  /\ \A c \in Calls : WF_vars(CallStep(c))
  /\ \A s \in Sessions :
       /\ WF_vars(OpenerStep(s))
       /\ WF_vars(owner[s] = "cancelled" /\ OwnerEnds(s))
       /\ \A w \in Spawners : WF_vars(CleanupStep(s, w))

FairSpec == Spec /\ Fairness

-----------------------------------------------------------------------------
(* Properties *)

AtWork(s) == opener[s] \notin {"none", "failed"} \/ \E w \in Spawners : cleanup[s][w] # "none"

\* Nothing is held that nobody will release: a live owner and a pinned pool belong
\* to a session of the store or to a task that disposes of them, whichever calls
\* are cancelled.  What the code does not rule out: a statement that pins a pool
\* again after its session was closed (repinned), and a pool that the backend
\* failed to close (kept).
NothingIsLeftBehind ==
  \A s \in Sessions :
    owner[s] = "live" \/ (pool[s] = "open" /\ s \notin repinned \cup kept) =>
      s \in InStore \/ AtWork(s)

\* A session that calls can resolve is in nobody else's hands: the task that opened
\* it has let go of it and no cleanup is closing its owner or its pool, whichever of
\* expiry, close, a failed close and a cancelled open came before.
ActiveIsUndisturbed ==
  \A s \in Sessions :
    place[s] = "active" => opener[s] = "none" /\ cleanup[s]["call"] = "none"

\* A session that takes up room without being usable does so for a while only: an
\* opening is promoted or cancelled and a closing finished or undone, unless the
\* call that reserved it was cancelled before it spawned the task for it (lost).
ReservationsEnd ==
  \A s \in Sessions :
    place[s] \in {"opening", "closing"} ~> (place[s] \notin {"opening", "closing"} \/ s \in lost)

=============================================================================
