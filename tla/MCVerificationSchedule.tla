----------------------- MODULE MCVerificationSchedule -----------------------
(* Small instances of the verification schedule. *)
EXTENDS VerificationSchedule

\* Pages differ in name only: every posting starts on the same one, whichever it is. (Symmetry
\* would not be sound here, as the run checks liveness.)
FirstUrl == CHOOSE u \in Urls : TRUE
OnePage == Init /\ \A o \in Occurrences : catalog[o].url = FirstUrl
FromOnePage == OnePage /\ [][Next]_vars /\ ScheduleFairness

\* A posting that points to another page than its row gets the new page visited, although
\* its row may be leased, deferred or answered at that moment. With one change of the catalog
\* it is a page that the posting did not start on.
RedirectedIsVisited ==
  \A o \in Occurrences, u \in Urls \ {FirstUrl} : Redirected(o, u) ~> Attended(o, u)
=============================================================================
