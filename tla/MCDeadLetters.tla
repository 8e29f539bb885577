--------------------------- MODULE MCDeadLetters ---------------------------
(* Small instances of the repair of dead letters. *)
EXTENDS DeadLetters

CONSTANTS m1, m2, m3, s1, s2

\* Two letters of one source and one of another.
TwoSources == [m \in {m1, m2, m3} |-> IF m = m3 THEN s2 ELSE s1]
=============================================================================
