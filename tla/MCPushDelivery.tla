--------------------------- MODULE MCPushDelivery ---------------------------
(* Small instances of PushDelivery for TLC. *)
EXTENDS PushDelivery, TLC

CONSTANTS u1, u2, t1, j1, j2, p1, p2, a, b

\* Two jobs of one posting; one job.
Twins == (j1 :> p1) @@ (j2 :> p1)
Alone == (j1 :> p1)

Interchangeable == Permutations({a, b})
Providers == (a :> "provider") @@ (b :> "provider")
DrainAndProvider == (a :> "maintenance") @@ (b :> "provider")

Everything == Users \X Jobs
Nothing == {}
=============================================================================
