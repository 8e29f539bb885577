-------------------------- MODULE ReviewedSession --------------------------
(***************************************************************************)
(* What assistance sessions promise their user: every event counts once, a  *)
(* change of the answers asks for a new review, only a reviewed session is  *)
(* submitted, and a session that ended stays as it ended.                  *)
(***************************************************************************)
CONSTANTS Sessions, Plans, Incomplete, Blank, Ids

VARIABLES
  phase,      \* of each session: none, preparing, reviewing, ready, paused, submitted or stopped
  plan,       \* the answers as they would be sent
  reviewed,   \* sessions whose plan the user approved
  opened,     \* sessions whose code was exchanged
  handled     \* events each session took

promise == <<phase, plan, reviewed, opened, handled>>

Working == {"preparing", "reviewing", "ready"}
Active == Working \cup {"paused"}

Init ==
  /\ phase = [s \in Sessions |-> "none"] /\ plan = [s \in Sessions |-> Blank]
  /\ reviewed = {} /\ opened = {} /\ handled = [s \in Sessions |-> {}]

Moves(s, from, to) == phase[s] \in from /\ \E next \in to : phase' = [phase EXCEPT ![s] = next]

Create(s) == Moves(s, {"none"}, {"preparing"}) /\ UNCHANGED <<plan, reviewed, opened, handled>>

Open(s) ==
  /\ phase[s] \in Active /\ s \notin opened /\ opened' = opened \cup {s}
  /\ UNCHANGED <<phase, plan, reviewed, handled>>

\* The answers change, and with them what the next review is about.
Answer(s, p) ==
  /\ Moves(s, Working, IF p \in Incomplete THEN {"preparing"} ELSE {"reviewing"})
  /\ plan' = [plan EXCEPT ![s] = p] /\ reviewed' = reviewed \ {s}

Approve(s) == Moves(s, {"reviewing"}, {"ready"}) /\ reviewed' = reviewed \cup {s} /\ UNCHANGED plan

\* The runner starts, is stopped by a challenge of the portal, or goes on where it was.
Run(s) ==
  /\ \/ Moves(s, {"preparing"}, {"preparing"})
     \/ Moves(s, Working, {"paused"})
     \/ Moves(s, {"paused"}, IF s \in reviewed THEN {"ready"} ELSE {"preparing", "reviewing"})
  /\ UNCHANGED <<plan, reviewed>>

End(s) ==
  /\ \/ Moves(s, Active, {"stopped"})
     \/ s \in reviewed /\ Moves(s, {"ready"}, {"submitted"})
  /\ UNCHANGED <<plan, reviewed>>

\* An event takes effect at most once, whoever sends it and however often.
Event(s, id) ==
  /\ id \notin handled[s] /\ handled' = [handled EXCEPT ![s] = @ \cup {id}]
  /\ Approve(s) \/ Run(s) \/ End(s) \/ \E p \in Plans : Answer(s, p)
  /\ UNCHANGED opened

Next == \E s \in Sessions : Create(s) \/ Open(s) \/ \E id \in Ids : Event(s, id)

Spec == Init /\ [][Next]_promise
=============================================================================
