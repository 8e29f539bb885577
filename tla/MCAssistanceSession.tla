------------------------ MODULE MCAssistanceSession ------------------------
EXTENDS AssistanceSession, TLC
CONSTANTS s1, r1, r2
FewEvents == [c \in Clients |-> IF c = "user" THEN 3 ELSE 2]
Interchangeable == Permutations(Requests)
=============================================================================
