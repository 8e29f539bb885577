--------------------------- MODULE MCPostingCommit ---------------------------
(* Small instances of PostingCommit for TLC. *)
EXTENDS PostingCommit, TLC

CONSTANTS k1, s1, s2, j1, o1, o2, a, b, c

OneKey == k1 :> j1
OwnFirst == s1 :> o1 @@ s2 :> o2

Confirmed == s1 :> {k1} @@ s2 :> {k1}
Adopting == s1 :> {"none", k1} @@ s2 :> {k1}

Interchangeable == Permutations({a, b})
TwoPolls == a :> "poll" @@ b :> "poll"
PollVerifyMark == a :> "poll" @@ b :> "verify" @@ c :> "mark"
=============================================================================
