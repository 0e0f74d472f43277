---------------------------- MODULE RunLifecycle ----------------------------
(***************************************************************************)
(* What the backup history promises about the life of a run, whichever     *)
(* processes and commands work on it: a schedule has one active run at a   *)
(* time, a queued run is claimed or cancelled, a claimed run ends and      *)
(* never becomes active again, and only a run that a deletion has marked   *)
(* disappears.                                                             *)
(***************************************************************************)
CONSTANTS Runs, Schedules

VARIABLES
  state,  \* the state of each run
  plan    \* the schedule it belongs to, or another source

Final == {"success", "failed", "cancelled"}
Active == {"queued", "running"}

Move(S, From, To) ==
  /\ \A r \in S : state[r] \in From /\ state'[r] \in To
  /\ \A r \in Runs \ S : state'[r] = state[r]

\* The runs whose state a step changes.
Moved == {r \in Runs : state'[r] # state[r]}

Init == state = [r \in Runs |-> "absent"]

\* New runs of schedules that have no active run, at most one for each.
Enqueue(S) ==
  /\ Move(S, {"absent"}, {"queued"})
  /\ \A r \in Runs \ S : plan'[r] = plan[r]
  /\ \A r \in S, q \in Runs :
       r # q /\ state'[q] \in Active /\ plan'[r] \in Schedules => plan'[q] # plan'[r]

Import(r) ==
  /\ Move({r}, {"absent"}, {"success"})
  /\ plan'[r] \notin Schedules
  /\ \A q \in Runs \ {r} : plan'[q] = plan[q]

\* One run is claimed, or cancelled in the queue.
Claim(r) == Move({r}, {"queued"}, {"running", "cancelled"}) /\ UNCHANGED plan

\* Runs end: one whose job is done, or all that a new leader finds unfinished.
Settle(S) == Move(S, {"running", "deleting"}, Final) /\ UNCHANGED plan

Mark(S) == Move(S, Final, {"deleting"}) /\ UNCHANGED plan

Remove(r) == Move({r}, {"deleting"}, {"gone"}) /\ UNCHANGED plan

Next ==
  \/ Enqueue(Moved) \/ Settle(Moved) \/ Mark(Moved)
  \/ \E r \in Moved : Import(r) \/ Claim(r) \/ Remove(r)

Spec == Init /\ [][Next]_<<state, plan>>

=============================================================================
