------------------------- MODULE MCReleaseDelivery -------------------------
(* Instances of ReleaseDelivery for TLC. *)
EXTENDS ReleaseDelivery

CONSTANTS d1, a1, a2, r1, r2

\* The intents of the two channels wait in queues of their own and claim different rows:
\* one of them at a time.
OneChannel == {{"push"}, {"email"}}
=============================================================================
