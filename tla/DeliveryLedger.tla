--------------------------- MODULE DeliveryLedger ---------------------------
(***************************************************************************)
(* What a delivery receipt promises its readers: the states the receipt of  *)
(* one user, device and posting goes through, whoever writes it.  It is     *)
(* delivered or unknown for good, and it vanishes only with its account.    *)
(***************************************************************************)
CONSTANTS Users, Slots, OwnerOf(_)

VARIABLES
  state,    \* the state of the receipt of each slot
  closed    \* accounts under deletion, whose receipts no one writes any more

ledger == <<state, closed>>

Init ==
  /\ state = [s \in Slots |-> "none"]
  /\ closed = {}

Move(s, from, to) ==
  /\ OwnerOf(s) \notin closed
  /\ state[s] \in from
  /\ \E next \in to : state' = [state EXCEPT ![s] = next]
  /\ UNCHANGED closed

\* A sender takes the slot: a fresh one, or one that failed before.
Claim(s) == Move(s, {"none", "failed", "abandoned"}, {"claimed"})
\* Expo's answer to a send or to a retry; no answer is final.
Answer(s) == Move(s, {"claimed", "retryable"}, {"accepted", "retryable", "failed", "unknown"})
\* A retry nobody wants any more, or of a user who left this pipeline.
Abandon(s) == Move(s, {"retryable"}, {"abandoned", "failed"})
\* Expo's receipt for an accepted push.
Confirm(s) == Move(s, {"accepted"}, {"delivered", "failed"})
\* A database error while recording a failure.
Lose(s) == Move(s, {"failed"}, {"unknown"})

Close(u) ==
  /\ closed' = closed \cup {u}
  /\ UNCHANGED state

Erase(u) ==
  /\ u \in closed
  /\ state' = [s \in Slots |-> IF OwnerOf(s) = u THEN "none" ELSE state[s]]
  /\ UNCHANGED closed

Next ==
  \/ \E s \in Slots : Claim(s) \/ Answer(s) \/ Abandon(s) \/ Confirm(s) \/ Lose(s)
  \/ \E u \in Users : Close(u) \/ Erase(u)

Spec == Init /\ [][Next]_ledger
=============================================================================
