-------------------------- MODULE MCReleaseBuckets --------------------------
(* Small instances of ReleaseBuckets for TLC. *)
EXTENDS ReleaseBuckets, TLC

CONSTANTS j1, j2, u1, u2, r1, r2

\* Two candidates within the window.
Together == (j1 :> 0) @@ (j2 :> 1)

\* One user is told of every job, then of the first; the other of the second.
BothAndSecond == (u1 :> {j1, j2}) @@ (u2 :> {j2})
FirstAndSecond == (u1 :> {j1}) @@ (u2 :> {j2})
=============================================================================
