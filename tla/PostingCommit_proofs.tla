----------------------- MODULE PostingCommit_proofs -----------------------
(* Theorems about PostingCommit, for every value of its constants. *)
EXTENDS PostingCommit, TLAPS

-----------------------------------------------------------------------------
(* Types of the operators *)

\* The rows and local variables that stand for nothing have their types.
LEMMA DefaultTypes ==
  NoRef \in Ref /\ NoRow \in Row /\ SomeJob \in Jobs /\ NoOccurrence \in Occurrence /\ NoLocal \in Local
<1>1. NoRef \in Ref
  BY CommitAssumption DEF CommitAssumption, NoRef, Ref, Verdict, Time
<1>2. NoRow \in Row
  BY <1>1, CommitAssumption DEF CommitAssumption, NoRow, Row, Time
<1>3. SomeJob \in Jobs
  BY CommitAssumption DEF CommitAssumption, SomeJob
<1>4. NoOccurrence \in Occurrence
  BY <1>1, <1>3 DEF NoOccurrence, Occurrence
<1>5. NoLocal \in Local
  BY <1>2, <1>3, <1>4, CommitAssumption DEF CommitAssumption, NoLocal, Local, AllSights, Time
<1> QED BY <1>1, <1>2, <1>3, <1>4, <1>5

\* Merging two copies of a reference gives a reference.
LEMMA MergeRefType == ASSUME NEW old \in Ref, NEW new \in Ref PROVE MergeRef(old, new) \in Ref
BY DEF MergeRef, Ref

\* The job of a listing that was never seen is a row.
LEMMA CreatedType ==
  ASSUME NEW s \in Sources, NEW ref \in Ref, NEW now \in Time
  PROVE  Created(s, ref, now) \in Row
BY DefaultTypes DEF Created, Row, Ref

\* A stored job that a listing is merged into is a row.
LEMMA MergedType ==
  ASSUME NEW job \in Row, NEW s \in Sources, NEW ref \in Ref, NEW now \in Time
  PROVE  Merged(job, s, ref, now) \in Row
<1>1. [job.refs EXCEPT ![s] = MergeRef(@, ref)] \in [Sources -> Ref]
  BY MergeRefType DEF Row
<1> DEFINE refs == [job.refs EXCEPT ![s] = MergeRef(@, ref)]
<1>0. refs \in [Sources -> Ref]
  BY <1>1
<1> HIDE DEF refs
<1>2. (IF job.key = "none" THEN ref.key ELSE job.key) \in Keys \cup {"none"} /\ job.pending \in BOOLEAN
  BY DEF Ref, Row
<1>3. \A key \in Keys \cup {"none"}, dead, pending, open \in BOOLEAN :
        [job EXCEPT !.refs = refs, !.key = key, !.dead = dead, !.pending = pending,
                    !.open = open, !.seen = now] \in Row
  BY <1>0 DEF Row
<1>4. \A gone \in BOOLEAN : (job.pending /\ ~gone) \in BOOLEAN
  OBVIOUS
<1> USE DEF refs
<1> QED BY <1>2, <1>3, <1>4, Zenon DEF Merged

\* A job one of whose listings is closed is a row.
LEMMA ClosedType ==
  ASSUME NEW job \in Row, NEW s \in Sources, NEW now \in Time
  PROVE  Closed(job, s, now) \in Row
<1>1. [job.refs EXCEPT ![s].state = "closed"] \in [Sources -> Ref]
  BY DEF Row, Ref
<1> DEFINE refs == [job.refs EXCEPT ![s].state = "closed"]
<1> HIDE DEF refs
<1>2. [job EXCEPT !.refs = refs, !.open = @ /\ AnyOpen(refs), !.seen = now] \in Row
  BY <1>1 DEF Row, refs
<1> QED BY <1>2 DEF Closed, refs

\* What a poll plans for a listing is a row and whether to announce it.
LEMMA ListedType ==
  ASSUME NEW s \in Sources, NEW stored \in Row, NEW prior \in Occurrence, NEW ref \in Ref,
         NEW now \in Time
  PROVE  /\ Listed(s, stored, prior, ref, now).job \in Row
         /\ Listed(s, stored, prior, ref, now).event \in BOOLEAN
<1> DEFINE job == IF stored.exists THEN Merged(stored, s, ref, now) ELSE Created(s, ref, now)
<1>1. job \in Row
  BY MergedType, CreatedType
<1> HIDE DEF job
<1>2. [job EXCEPT !.pending = FALSE] \in Row /\ [job EXCEPT !.pending = TRUE] \in Row
  BY <1>1 DEF Row
<1>3. stored.exists \in BOOLEAN /\ prior.exists \in BOOLEAN
  BY DEF Row, Occurrence
<1> USE DEF job
<1> QED BY <1>1, <1>2, <1>3, Zenon DEF Listed

\* What the transaction writes for a job is a row.
LEMMA CanonicalType ==
  ASSUME NEW current \in Row, NEW proposed \in Row, NEW s \in Sources, NEW ref \in Ref,
         NEW event \in BOOLEAN
  PROVE  /\ Projected(current, proposed, s, ref) \in Row
         /\ Finalized(current, Projected(current, proposed, s, ref), event) \in Row
<1>1. \A x \in Sources : current.refs[x] \in Ref /\ proposed.refs[x] \in Ref
  BY DEF Row
<1>2. [x \in Sources |-> LET both == MergeRef(current.refs[x], proposed.refs[x])
                         IN IF x = s THEN MergeRef(both, ref) ELSE both] \in [Sources -> Ref]
  BY <1>1, MergeRefType
<1> DEFINE refs == [x \in Sources |-> LET both == MergeRef(current.refs[x], proposed.refs[x])
                                       IN IF x = s THEN MergeRef(both, ref) ELSE both]
<1>0. refs \in [Sources -> Ref]
  BY <1>2
<1> HIDE DEF refs
<1>3. \A open, sent, pending \in BOOLEAN, seen \in Time :
        [proposed EXCEPT !.refs = refs, !.open = open, !.sent = sent, !.pending = pending,
                         !.seen = seen] \in Row
  BY <1>0 DEF Row
<1>6. (IF current.seen > proposed.seen THEN current.seen ELSE proposed.seen) \in Time
  BY DEF Row
<1> USE DEF refs
<1>4. Projected(current, proposed, s, ref) \in Row
  <2>1. current.sent \in BOOLEAN /\ proposed.sent \in BOOLEAN
    BY DEF Row
  <2> QED BY <1>3, <1>6, <2>1, Zenon DEF Projected, Pending
<1>5. \A job \in Row : Finalized(current, job, event) \in Row
  BY DEF Finalized, Row
<1> QED BY <1>4, <1>5
-----------------------------------------------------------------------------
(* Types of the variables *)

\* What the types rest on: a run plans a listing it saw, and re-reads a job
\* only while it has attempts left.
RunInv == \A r \in Runs :
  /\ pc[r] = "resolve" => local[r].sight \in {"open", "closed"}
  /\ pc[r] \in {"resolve", "absent"} => local[r].attempts = 0
  /\ pc[r] = "read" => local[r].attempts < MaxAttempts

\* The inductive invariant of the types.
TypeInv == TypeOK /\ RunInv

\* A run that changes only its own state keeps the types if that state has its
\* type and fits the place it goes to.
LEMMA OwnStep ==
  ASSUME TypeInv, NEW r \in Runs, NEW label \in PC, NEW l \in Local,
         pc' = [pc EXCEPT ![r] = label], local' = [local EXCEPT ![r] = l],
         label = "resolve" => l.sight \in {"open", "closed"},
         label \in {"resolve", "absent"} => l.attempts = 0,
         label = "read" => l.attempts < MaxAttempts
  PROVE  pc' \in [Runs -> PC] /\ local' \in [Runs -> Local] /\ RunInv'
<1>1. pc' \in [Runs -> PC] /\ local' \in [Runs -> Local]
  BY DEF TypeInv, TypeOK
<1>2. \A q \in Runs : IF q = r THEN pc'[q] = label /\ local'[q] = l
                              ELSE pc'[q] = pc[q] /\ local'[q] = local[q]
  BY DEF TypeInv, TypeOK
<1> QED BY <1>1, <1>2 DEF TypeInv, RunInv

\* A run that ends keeps the types of the runs.
LEMMA EndStep ==
  ASSUME TypeInv, NEW r \in Runs, End(r)
  PROVE  pc' \in [Runs -> PC] /\ local' \in [Runs -> Local] /\ RunInv'
BY DefaultTypes, OwnStep DEF End, Goto, PC

\* The place a run goes to with its local state unchanged.
LEMMA GoStep ==
  ASSUME TypeInv, NEW r \in Runs, NEW label \in PC \ {"resolve", "absent"},
         Goto(r, label), UNCHANGED local, label = "read" => local[r].attempts < MaxAttempts
  PROVE  pc' \in [Runs -> PC] /\ local' \in [Runs -> Local] /\ RunInv'
<1>1. local[r] \in Local /\ local' = [local EXCEPT ![r] = local[r]]
  BY DEF TypeInv, TypeOK
<1> QED BY <1>1, OwnStep DEF Goto

\* The types of the stores.
StoresOK ==
  /\ claim \in [Keys -> Jobs \cup {"none"}]
  /\ row \in [Jobs -> Row] /\ occ \in [Sources -> Occurrence]
  /\ outbox \subseteq Jobs /\ incidents \subseteq Sources
  /\ reported \in [Jobs -> 0..2] /\ clock \in Time

\* The next time is a time.
LEMMA NextTime == ASSUME clock \in Time, clock < MaxTime PROVE clock + 1 \in Time
BY CommitAssumption DEF CommitAssumption, Time

\* The occurrence of a listing that is kept, or was missed, is an occurrence.
LEMMA MissedType ==
  ASSUME NEW prior \in Occurrence, NEW n \in 0..2
  PROVE  /\ [prior EXCEPT !.present = TRUE, !.omissions = 0] \in Occurrence
         /\ [prior EXCEPT !.present = FALSE, !.omissions = n,
                          !.ref = IF n = 2 THEN [@ EXCEPT !.state = "closed"] ELSE @] \in Occurrence
<1>1. prior.ref \in Ref
  BY DEF Occurrence
<1>6. [prior EXCEPT !.present = TRUE, !.omissions = 0] \in Occurrence
  <2>1. \A m \in 0..2, present \in BOOLEAN :
          [prior EXCEPT !.present = present, !.omissions = m] \in Occurrence
    BY DEF Occurrence
  <2>2. 0 \in 0..2 /\ TRUE \in BOOLEAN
    OBVIOUS
  <2> QED BY <2>1, <2>2, Zenon
<1>2. [prior.ref EXCEPT !.state = "closed"] \in Ref
  BY <1>1 DEF Ref
<1>3. (IF n = 2 THEN [prior.ref EXCEPT !.state = "closed"] ELSE prior.ref) \in Ref
  BY <1>1, <1>2
<1> DEFINE ref == IF n = 2 THEN [prior.ref EXCEPT !.state = "closed"] ELSE prior.ref
<1>4. ref \in Ref
  BY <1>3
<1> HIDE DEF ref
<1>5. [prior EXCEPT !.present = FALSE, !.omissions = n, !.ref = ref] \in Occurrence
  BY <1>4 DEF Occurrence
<1> USE DEF ref
<1> QED BY <1>5, <1>6

\* A poll that starts or looks at what is not listed keeps the types.
LEMMA PollTypes ==
  ASSUME TypeInv, NEW r \in Runs,
         \/ \E s \in Sources, sight \in Sights : PollStart(r, s, sight)
         \/ PollAbsent(r)
  PROVE  TypeInv'
<1>0. local[r] \in Local /\ StoresOK
  BY DEF TypeInv, TypeOK, StoresOK
<1>1. ASSUME NEW s \in Sources, NEW sight \in Sights, PollStart(r, s, sight) PROVE TypeInv'
  <2> DEFINE l == [NoLocal EXCEPT !.source = s, !.sight = sight, !.prior = occ[s]]
  <2>1. sight \in AllSights /\ occ[s] \in Occurrence
    BY <1>0, CommitAssumption DEF CommitAssumption, StoresOK
  <2>2. l \in Local /\ l.attempts = 0 /\ l.sight = sight
    BY <2>1, DefaultTypes DEF Local, NoLocal
  <2>3. local' = [local EXCEPT ![r] = l]
    BY <1>1 DEF PollStart
  <2> HIDE DEF l
  <2>4. StoresOK'
    BY <1>0, <1>1 DEF PollStart, stores, StoresOK
  <2>5. pc' \in [Runs -> PC] /\ local' \in [Runs -> Local] /\ RunInv'
    BY <1>1, <2>2, <2>3, OwnStep DEF PollStart, Goto, PC
  <2> QED BY <2>4, <2>5 DEF TypeInv, TypeOK, StoresOK
<1>2. CASE PollAbsent(r)
  <2> DEFINE s == local[r].source
             prior == local[r].prior
             omissions == IF prior.omissions < 2 THEN prior.omissions + 1 ELSE 2
             kept == [prior EXCEPT !.present = TRUE, !.omissions = 0]
             missed == [prior EXCEPT !.present = FALSE, !.omissions = omissions,
                                     !.ref = IF omissions = 2 THEN [@ EXCEPT !.state = "closed"] ELSE @]
             next == IF local[r].sight = "filtered" THEN kept ELSE missed
             closing == ~next.present /\ omissions = 2 /\ row[prior.job].exists
             l == [local[r] EXCEPT !.now = clock', !.id = prior.job, !.occurrence = next,
                     !.job = IF closing THEN Closed(row[prior.job], s, clock') ELSE NoRow]
  <2>1. prior \in Occurrence /\ s \in Sources /\ prior.job \in Jobs
    BY <1>0 DEF Local, Occurrence
  <2>2. next \in Occurrence
    <3>1. omissions \in 0..2
      BY <2>1 DEF Occurrence
    <3> HIDE DEF omissions, prior
    <3> QED BY <2>1, <3>1, MissedType
  <2>3. clock' \in Time
    BY <1>0, <1>2, NextTime DEF PollAbsent, StoresOK
  <2>4. Closed(row[prior.job], s, clock') \in Row /\ NoRow \in Row
    BY <1>0, <2>1, <2>3, ClosedType, DefaultTypes DEF StoresOK
  <2> HIDE DEF next, closing
  <2>5. l \in Local /\ l.attempts = local[r].attempts
    BY <1>0, <2>1, <2>2, <2>3, <2>4 DEF Local
  <2>6. StoresOK'
    BY <1>0, <1>2, <2>3 DEF PollAbsent, StoresOK
  <2>7. \/ End(r)
        \/ /\ local' = [local EXCEPT ![r] = l]
           /\ pc' = [pc EXCEPT ![r] = "read"] \/ pc' = [pc EXCEPT ![r] = "putOccurrence"]
    BY <1>2 DEF PollAbsent, Goto, next, closing
  <2> HIDE DEF l
  <2>8. l.attempts < MaxAttempts
    BY <1>2, <2>5, CommitAssumption DEF CommitAssumption, PollAbsent, TypeInv, RunInv
  <2>9. pc' \in [Runs -> PC] /\ local' \in [Runs -> Local] /\ RunInv'
    BY <2>5, <2>7, <2>8, OwnStep, EndStep DEF PC
  <2> QED BY <2>6, <2>9 DEF TypeInv, TypeOK, StoresOK
<1> QED BY <1>1, <1>2

\* A poll that resolves its listing and plans the job keeps the types.
LEMMA ResolveTypes ==
  ASSUME TypeInv, NEW r \in Runs, NEW key \in Keys \cup {"none"}, NEW verdict \in Verdict,
         NEW j \in Jobs \cup {"none"}, PollResolve(r, key, verdict, j)
  PROVE  TypeInv'
<1> DEFINE s == local[r].source
           target == IF key # "none" THEN Resolves(key, j) ELSE IF j # "none" THEN j ELSE Own[s]
<1>1. /\ local[r] \in Local /\ StoresOK /\ s \in Sources /\ local[r].prior \in Occurrence
      /\ local[r].sight \in {"open", "closed"} /\ local[r].attempts = 0
  BY DEF TypeInv, TypeOK, StoresOK, RunInv, PollResolve, Local
<1>2. target \in Jobs \cup {"none"}
  BY <1>1, CommitAssumption DEF CommitAssumption, Resolves, StoresOK
<1>3. CASE target = "none"
  <2> DEFINE l == [local[r] EXCEPT !.sight = "filtered"]
  <2>1. l \in Local /\ l.attempts = 0
    BY <1>1 DEF Local, AllSights
  <2>2. /\ local' = [local EXCEPT ![r] = l] /\ pc' = [pc EXCEPT ![r] = "absent"]
        /\ incidents' = incidents \cup {s} /\ UNCHANGED <<clock, claim, row, occ, outbox, reported>>
    BY <1>3 DEF PollResolve, Goto, Incident, TypeInv, TypeOK
  <2> HIDE DEF l
  <2>3. StoresOK'
    BY <1>1, <2>2 DEF StoresOK
  <2>4. pc' \in [Runs -> PC] /\ local' \in [Runs -> Local] /\ RunInv'
    BY <2>1, <2>2, OwnStep DEF PC
  <2> QED BY <2>3, <2>4 DEF TypeInv, TypeOK, StoresOK
<1>4. CASE target # "none"
  <2> DEFINE ref == ListingRef(key, local[r].sight, verdict, clock')
             stored == IF key = "none" /\ j = "none" THEN NoRow ELSE row[target]
             plan == Listed(s, stored, local[r].prior, ref, clock')
             next == [exists |-> TRUE, job |-> target, present |-> TRUE, omissions |-> 0,
                      ref |-> MergeRef(local[r].prior.ref, ref)]
             l == [local[r] EXCEPT !.now = clock', !.id = target, !.job = plan.job,
                                   !.event = plan.event, !.occurrence = next]
  <2>1. clock' \in Time
    BY <1>1, <1>4, NextTime DEF PollResolve, StoresOK
  <2>2. ref \in Ref
    BY <1>1, <2>1, CommitAssumption DEF CommitAssumption, ListingRef, Ref, Time
  <2>3. stored \in Row /\ target \in Jobs
    BY <1>1, <1>2, <1>4, DefaultTypes DEF StoresOK
  <2> HIDE DEF ref, stored, target
  <2>4. plan.job \in Row /\ plan.event \in BOOLEAN
    BY <1>1, <2>1, <2>2, <2>3, ListedType
  <2>5. local[r].prior.ref \in Ref
    BY <1>1 DEF Occurrence
  <2>6. next \in Occurrence
    BY <2>2, <2>3, <2>5, MergeRefType DEF Occurrence
  <2> HIDE DEF plan, next
  <2>7. l \in Local /\ l.attempts = 0
    BY <1>1, <2>1, <2>3, <2>4, <2>6 DEF Local
  <2>8. /\ local' = [local EXCEPT ![r] = l]
        /\ pc' = [pc EXCEPT ![r] = "read"] \/ pc' = [pc EXCEPT ![r] = "put"]
        /\ UNCHANGED <<incidents, claim, row, occ, outbox, reported>>
    BY <1>4 DEF PollResolve, Goto, target, next, plan, stored, ref
  <2> HIDE DEF l
  <2>9. StoresOK'
    BY <1>1, <2>1, <2>8 DEF StoresOK
  <2>10. l.attempts < MaxAttempts
    BY <2>7, CommitAssumption DEF CommitAssumption
  <2>11. pc' \in [Runs -> PC] /\ local' \in [Runs -> Local] /\ RunInv'
    BY <2>7, <2>8, <2>10, OwnStep DEF PC
  <2> QED BY <2>9, <2>11 DEF TypeInv, TypeOK, StoresOK
<1> QED BY <1>3, <1>4

\* The steps of a commit keep the types.
LEMMA CommitTypes ==
  ASSUME TypeInv, NEW r \in Runs,
         PutOccurrence(r) \/ PutJob(r) \/ CommitRead(r) \/ Batch(r) \/ CommitVerify(r)
  PROVE  TypeInv'
<1>0. local[r] \in Local /\ StoresOK
  BY DEF TypeInv, TypeOK, StoresOK
<1>1. /\ local[r].id \in Jobs /\ local[r].source \in Sources /\ local[r].job \in Row
      /\ local[r].occurrence \in Occurrence /\ local[r].base \in Row
      /\ local[r].baseOcc \in Occurrence /\ local[r].event \in BOOLEAN
      /\ local[r].attempts \in 0..MaxAttempts
  BY <1>0 DEF Local
<1>2. CASE PutOccurrence(r) \/ PutJob(r)
  <2>1. StoresOK'
    BY <1>0, <1>1, <1>2 DEF PutOccurrence, PutJob, StoresOK
  <2>2. End(r)
    BY <1>2 DEF PutOccurrence, PutJob
  <2> QED BY <2>1, <2>2, EndStep DEF TypeInv, TypeOK, StoresOK
<1>3. CASE CommitRead(r)
  <2> DEFINE l == [local[r] EXCEPT !.attempts = local[r].attempts + 1, !.base = row[local[r].id],
                                   !.baseOcc = occ[local[r].source]]
  <2>1. local[r].attempts + 1 \in 0..MaxAttempts
    BY <1>1, <1>3, CommitAssumption DEF CommitAssumption, CommitRead, TypeInv, RunInv
  <2>2. row[local[r].id] \in Row /\ occ[local[r].source] \in Occurrence
    BY <1>0, <1>1 DEF StoresOK
  <2>3. l \in Local
    BY <1>0, <2>1, <2>2 DEF Local
  <2>4. \/ End(r)
        \/ local' = [local EXCEPT ![r] = l] /\ pc' = [pc EXCEPT ![r] = "batch"]
    BY <1>3 DEF CommitRead, Goto
  <2> HIDE DEF l
  <2>5. StoresOK'
    BY <1>0, <1>1, <1>3 DEF CommitRead, Incident, StoresOK
  <2>6. pc' \in [Runs -> PC] /\ local' \in [Runs -> Local] /\ RunInv'
    BY <2>3, <2>4, OwnStep, EndStep DEF PC
  <2> QED BY <2>5, <2>6 DEF TypeInv, TypeOK, StoresOK
<1>4. CASE Batch(r)
  <2> DEFINE l == local[r]
             ref == IF l.baseOcc.exists THEN MergeRef(l.baseOcc.ref, l.occurrence.ref)
                    ELSE l.occurrence.ref
             projected == Projected(l.base, l.job, l.source, ref)
             canonical == Finalized(l.base, projected, l.event)
             event == l.event /\ Alertable(projected)
             written == [l.occurrence EXCEPT !.ref = ref]
  <2>1. ref \in Ref
    BY <1>1, MergeRefType DEF Occurrence
  <2> HIDE DEF ref
  <2>2. canonical \in Row
    BY <1>1, <2>1, CanonicalType
  <2>3. written \in Occurrence
    BY <1>1, <2>1 DEF Occurrence
  <2> HIDE DEF canonical, projected, written
  <2>4. /\ row' = row \/ row' = [row EXCEPT ![l.id] = canonical]
        /\ occ' = occ \/ occ' = [occ EXCEPT ![l.source] = written]
        /\ outbox' \subseteq outbox \cup {l.id}
        /\ claim' \in [Keys -> Jobs \cup {"none"}]
        /\ UNCHANGED <<incidents, reported, clock>>
    BY <1>0, <1>1, <1>4 DEF Batch, ref, canonical, projected, written, StoresOK
  <2>5. StoresOK'
    BY <1>0, <1>1, <2>2, <2>3, <2>4 DEF StoresOK
  <2>6. \/ End(r)
        \/ pc' = [pc EXCEPT ![r] = "read"] /\ local' = local /\ l.attempts < MaxAttempts
        \/ /\ pc' = [pc EXCEPT ![r] = "verify"]
           /\ \E inserted \in BOOLEAN : local' = [local EXCEPT ![r].inserted = inserted]
    <3>1. (event /\ Fresh(l.id)) \in BOOLEAN
      OBVIOUS
    <3> HIDE DEF event
    <3>2. \/ local' = [local EXCEPT ![r].inserted = event /\ Fresh(l.id)]
            /\ pc' = [pc EXCEPT ![r] = "verify"]
          \/ pc' = [pc EXCEPT ![r] = "read"] /\ local' = local /\ l.attempts < MaxAttempts
          \/ End(r)
      BY <1>4 DEF Batch, Retry, Goto, event, projected, ref
    <3> QED BY <3>1, <3>2, Zenon
  <2>7. \A inserted \in BOOLEAN : [l EXCEPT !.inserted = inserted] \in Local
    BY <1>0 DEF Local
  <2>8. ASSUME NEW inserted \in BOOLEAN, pc' = [pc EXCEPT ![r] = "verify"],
               local' = [local EXCEPT ![r].inserted = inserted]
        PROVE  pc' \in [Runs -> PC] /\ local' \in [Runs -> Local] /\ RunInv'
    <3>1. local' = [local EXCEPT ![r] = [l EXCEPT !.inserted = inserted]]
      BY <2>8
    <3>2. [l EXCEPT !.inserted = inserted] \in Local
      BY <2>7
    <3> QED BY <2>8, <3>1, <3>2, OwnStep DEF PC
  <2>9. pc' \in [Runs -> PC] /\ local' \in [Runs -> Local] /\ RunInv'
    BY <2>6, <2>8, EndStep, GoStep DEF PC, Goto
  <2> QED BY <2>5, <2>9 DEF TypeInv, TypeOK, StoresOK
<1>5. CASE CommitVerify(r)
  <2>1. StoresOK'
    BY <1>0, <1>1, <1>5 DEF CommitVerify, Incident, StoresOK
  <2>2. End(r)
    BY <1>5 DEF CommitVerify
  <2> QED BY <2>1, <2>2, EndStep DEF TypeInv, TypeOK, StoresOK
<1> QED BY <1>2, <1>3, <1>4, <1>5

\* The steps of the verifier keep the types.
LEMMA VerifyTypes == ASSUME TypeInv, NEW r \in Runs, Verify(r) PROVE TypeInv'
<1>0. local[r] \in Local /\ StoresOK
  BY DEF TypeInv, TypeOK, StoresOK
<1>1. ASSUME NEW j \in Jobs, NEW s \in Sources, VerifyRead(r, j, s) PROVE TypeInv'
  <2> DEFINE l == [NoLocal EXCEPT !.source = s, !.now = clock', !.id = j, !.base = row[j]]
  <2>1. clock' \in Time
    BY <1>0, <1>1, NextTime DEF VerifyRead, StoresOK
  <2>2. l \in Local
    BY <1>0, <2>1, DefaultTypes DEF Local, StoresOK
  <2>3. local' = [local EXCEPT ![r] = l] /\ pc' = [pc EXCEPT ![r] = "inspect"]
    BY <1>1 DEF VerifyRead, Goto
  <2> HIDE DEF l
  <2>4. pc' \in [Runs -> PC] /\ local' \in [Runs -> Local] /\ RunInv'
    BY <2>2, <2>3, OwnStep DEF PC
  <2>5. StoresOK'
    BY <1>0, <1>1, <2>1 DEF VerifyRead, StoresOK
  <2> QED BY <2>4, <2>5 DEF TypeInv, TypeOK, StoresOK
<1>2. CASE VerifyOccurrence(r)
  <2> DEFINE l == [local[r] EXCEPT !.baseOcc = occ[local[r].source]]
  <2>1. l \in Local
    BY <1>0 DEF Local, StoresOK
  <2>2. local' = [local EXCEPT ![r] = l] /\ pc' = [pc EXCEPT ![r] = "admit"]
    BY <1>2 DEF VerifyOccurrence, Goto
  <2> HIDE DEF l
  <2>3. pc' \in [Runs -> PC] /\ local' \in [Runs -> Local] /\ RunInv'
    BY <2>1, <2>2, OwnStep DEF PC
  <2>4. StoresOK'
    BY <1>0, <1>2 DEF VerifyOccurrence, stores, StoresOK
  <2> QED BY <2>3, <2>4 DEF TypeInv, TypeOK, StoresOK
<1>3. ASSUME NEW verdict \in Judgements, Admit(r, verdict) PROVE TypeInv'
  <2> DEFINE l == local[r]
             s == l.source
             ref == [l.base.refs[s] EXCEPT !.verdict = verdict, !.at = l.now]
             refs == [l.base.refs EXCEPT ![s] = ref]
             gone == verdict = "gone"
             reopens == l.base.dead /\ verdict = "eligible" /\ AnyOpen(refs)
                          /\ Admission(refs) = "eligible"
             late == l.base.open
                       /\ Promoted(s, l.base.refs[s].verdict, ref, [l.base EXCEPT !.refs = refs])
             next == [l.base EXCEPT !.refs = refs, !.open = ~gone /\ (@ \/ reopens),
                                    !.dead = gone \/ (@ /\ ~reopens), !.pending = ~gone /\ (@ \/ late)]
  <2>1. /\ s \in Sources /\ l.id \in Jobs /\ l.base \in Row /\ l.now \in Time
        /\ l.base.refs \in [Sources -> Ref] /\ l.base.refs[s] \in Ref
        /\ l.base.open \in BOOLEAN /\ l.base.dead \in BOOLEAN /\ l.base.pending \in BOOLEAN
    BY <1>0 DEF Local, Row
  <2>2. ref \in Ref
    BY <2>1, CommitAssumption DEF CommitAssumption, Ref
  <2> HIDE DEF ref
  <2>3. refs \in [Sources -> Ref]
    BY <2>1, <2>2
  <2> HIDE DEF refs
  <2>4. next \in Row
    BY <2>1, <2>3 DEF Row
  <2> HIDE DEF next
  <2>5. /\ row' = row \/ row' = [row EXCEPT ![l.id] = next]
        /\ occ' = occ \/ occ' = [occ EXCEPT ![s].ref = ref]
        /\ outbox' \subseteq outbox \cup {l.id}
        /\ UNCHANGED <<claim, incidents, reported, clock>>
        /\ End(r)
    BY <1>3 DEF Admit, ref, refs, next
  <2>6. [occ EXCEPT ![s].ref = ref] \in [Sources -> Occurrence]
    BY <1>0, <2>1, <2>2 DEF StoresOK, Occurrence
  <2>7. StoresOK'
    BY <1>0, <2>1, <2>4, <2>5, <2>6 DEF StoresOK
  <2> QED BY <2>5, <2>7, EndStep DEF TypeInv, TypeOK, StoresOK
<1> QED BY <1>1, <1>2, <1>3 DEF Verify

\* The drain and a crash keep the types.
LEMMA OtherTypes == ASSUME TypeInv, NEW r \in Runs, Mark(r) \/ Crash(r) PROVE TypeInv'
<1>0. local[r] \in Local /\ StoresOK
  BY DEF TypeInv, TypeOK, StoresOK
<1>1. StoresOK'
  BY <1>0 DEF Mark, DrainRead, MarkRead, Crash, stores, StoresOK
<1>2. ASSUME NEW j \in Jobs, DrainRead(r, j)
      PROVE  pc' \in [Runs -> PC] /\ local' \in [Runs -> Local] /\ RunInv'
  <2> DEFINE l == [NoLocal EXCEPT !.id = j]
  <2>1. l \in Local
    BY DefaultTypes DEF Local
  <2>2. local' = [local EXCEPT ![r] = l] /\ pc' = [pc EXCEPT ![r] = "mark"]
    BY <1>2 DEF DrainRead, Goto
  <2> HIDE DEF l
  <2> QED BY <2>1, <2>2, OwnStep DEF PC
<1>3. CASE MarkRead(r)
  <2> DEFINE job == [row[local[r].id] EXCEPT !.pending = FALSE, !.sent = TRUE]
             l == [local[r] EXCEPT !.job = job]
  <2>1. row[local[r].id] \in Row
    BY <1>0 DEF Local, StoresOK
  <2>2. job \in Row
    BY <2>1 DEF Row
  <2> HIDE DEF job
  <2>3. l \in Local
    BY <1>0, <2>2 DEF Local
  <2>4. local' = [local EXCEPT ![r] = l] /\ pc' = [pc EXCEPT ![r] = "put"]
    BY <1>3 DEF MarkRead, Goto, job
  <2> HIDE DEF l
  <2> QED BY <1>1, <2>3, <2>4, OwnStep DEF PC, TypeInv, TypeOK, StoresOK
<1>4. CASE Crash(r)
  BY <1>1, <1>4, EndStep DEF Crash, TypeInv, TypeOK, StoresOK
<1> QED BY <1>1, <1>2, <1>3, <1>4 DEF Mark, TypeInv, TypeOK, StoresOK

\* Every step keeps the types and what they rest on.
LEMMA TypeStep == ASSUME TypeInv, [Next]_vars PROVE TypeInv'
<1>1. ASSUME NEW r \in Runs, Poll(r) PROVE TypeInv'
  BY <1>1, PollTypes, ResolveTypes, CommitTypes DEF Poll
<1>2. ASSUME NEW r \in Runs, Verify(r) \/ Mark(r) \/ PutJob(r) \/ Crash(r) PROVE TypeInv'
  BY <1>2, VerifyTypes, OtherTypes, CommitTypes
<1>3. CASE UNCHANGED vars
  BY <1>3 DEF vars, stores, TypeInv, TypeOK, RunInv
<1> QED BY <1>1, <1>2, <1>3 DEF Next

\* The types and what they rest on hold in every reachable state.
LEMMA TypeInvariant == Spec => []TypeInv
<1>1. Init => TypeInv
  <2> SUFFICES ASSUME Init PROVE TypeInv
    OBVIOUS
  <2>1. 0 \in Time /\ 0 \in 0..2
    BY CommitAssumption DEF CommitAssumption, Time
  <2>2. claim \in [Keys -> Jobs \cup {"none"}] /\ pc \in [Runs -> PC]
    BY DEF Init, PC
  <2>6. outbox \subseteq Jobs /\ incidents \subseteq Sources /\ clock \in Time
    BY <2>1 DEF Init
  <2>3. row \in [Jobs -> Row] /\ occ \in [Sources -> Occurrence] /\ local \in [Runs -> Local]
    BY DefaultTypes DEF Init
  <2>4. reported \in [Jobs -> 0..2]
    BY <2>1 DEF Init
  <2>5. RunInv
    BY DEF Init, RunInv
  <2> QED BY <2>2, <2>3, <2>4, <2>5, <2>6 DEF TypeInv, TypeOK
<1>2. TypeInv /\ [Next]_vars => TypeInv'
  BY TypeStep
<1> QED BY <1>1, <1>2, PTL DEF Spec

\* Every row and local variable holds a value the code's types allow, and a run
\* has attempts left whenever it reads the job of its commit again.
THEOREM TypeCorrect == Spec => []TypeOK
<1>1. TypeInv => TypeOK
  BY DEF TypeInv
<1> QED BY <1>1, TypeInvariant, PTL

-----------------------------------------------------------------------------
(* Events and reports *)

\* An event enters the outbox only with a job that is open and eligible for
\* alerts in the row that the same transaction leaves, for any number of polls,
\* verifiers and sources.
THEOREM EventsWithAlertableJobs == Spec => EventWithAlertableJob
<1>1. TypeInv /\ [Next]_vars =>
        [\A j \in outbox' \ outbox : row'[j].open /\ Admission(row'[j].refs) \in {"none", "eligible"}]_vars
  <2> SUFFICES ASSUME TypeInv, Next,
                      NEW j \in outbox' \ outbox
               PROVE  row'[j].open /\ Admission(row'[j].refs) \in {"none", "eligible"}
    OBVIOUS
  <2>0. TypeOK
    BY DEF TypeInv
  <2>1. ASSUME NEW r \in Runs, Batch(r) PROVE row'[j].open /\ Admission(row'[j].refs) \in {"none", "eligible"}
    <3> DEFINE l == local[r]
               ref == IF l.baseOcc.exists THEN MergeRef(l.baseOcc.ref, l.occurrence.ref)
                      ELSE l.occurrence.ref
               projected == Projected(l.base, l.job, l.source, ref)
               canonical == Finalized(l.base, projected, l.event)
               free == Free(l.job.key, l.id)
               swapped == free /\ Still(l.id, l.base)
               written == swapped \/ (free /\ Projection(l.id, canonical))
    <3>1. /\ row' = IF swapped THEN [row EXCEPT ![l.id] = canonical] ELSE row
          /\ outbox' = IF written /\ l.event /\ Alertable(projected) THEN outbox \cup {l.id} ELSE outbox
      BY <2>1 DEF Batch
    <3>2. j = l.id /\ Alertable(projected) /\ canonical = projected /\ l.id \in Jobs
      BY <3>1, <2>0 DEF Finalized, TypeOK, Local
    <3>3. row'[l.id] = canonical
      <4> HIDE DEF canonical
      <4> QED BY <3>1, <3>2, <2>0 DEF Projection, TypeOK
    <3> QED BY <3>2, <3>3 DEF Alertable, AlertEligible
  <2>2. ASSUME NEW r \in Runs, NEW verdict \in Judgements, Admit(r, verdict)
        PROVE  row'[j].open /\ Admission(row'[j].refs) \in {"none", "eligible"}
    <3> DEFINE l == local[r]
               s == l.source
               ref == [l.base.refs[s] EXCEPT !.verdict = verdict, !.at = l.now]
               refs == [l.base.refs EXCEPT ![s] = ref]
               next == row'[l.id]
    <3>1. /\ j = l.id /\ l.id \in Jobs /\ l.base \in Row /\ s \in Sources
          /\ l.base.refs[s] \in Ref
      BY <2>0, <2>2 DEF Admit, TypeOK, Local, Row
    <3>2. /\ l.base.open /\ verdict # "gone"
          /\ Admission(refs) = "eligible"
      <4> DEFINE late == l.base.open /\ Promoted(s, l.base.refs[s].verdict, ref, [l.base EXCEPT !.refs = refs])
      <4>1. late
        BY <2>2 DEF Admit
      <4>2. [l.base EXCEPT !.refs = refs].refs = refs
        BY <3>1 DEF Row
      <4>3. ref.verdict = verdict
        BY <3>1 DEF Ref
      <4> HIDE DEF ref, refs
      <4> QED BY <4>1, <4>2, <4>3 DEF Promoted
    <3>3. next.open /\ next.refs = refs
      <4> DEFINE late == l.base.open /\ Promoted(s, l.base.refs[s].verdict, ref, [l.base EXCEPT !.refs = refs])
                 gone == verdict = "gone"
                 reopens == l.base.dead /\ verdict = "eligible" /\ AnyOpen(refs)
                              /\ Admission(refs) = "eligible"
                 after == [l.base EXCEPT !.refs = refs, !.open = ~gone /\ (@ \/ reopens),
                                         !.dead = gone \/ (@ /\ ~reopens),
                                         !.pending = ~gone /\ (@ \/ late)]
      <4>1. row' = [row EXCEPT ![l.id] = after]
        BY <2>2 DEF Admit
      <4> HIDE DEF late, reopens, refs
      <4>2. after.open = (~gone /\ (l.base.open \/ reopens)) /\ after.refs = refs
        BY <3>1 DEF Row
      <4> HIDE DEF after
      <4> QED BY <2>0, <3>1, <3>2, <4>1, <4>2 DEF TypeOK
    <3> QED BY <3>1, <3>2, <3>3
  <2>3. ASSUME NEW r \in Runs,
               \/ \E s \in Sources, sight \in Sights : PollStart(r, s, sight)
               \/ \E key \in Keys \cup {"none"}, verdict \in Verdict, i \in Jobs \cup {"none"} :
                    PollResolve(r, key, verdict, i)
               \/ PollAbsent(r) \/ PutOccurrence(r) \/ CommitRead(r) \/ CommitVerify(r)
        PROVE  UNCHANGED outbox
    BY <2>3, ZenonT(60) DEF PollStart, PollResolve, PollAbsent, PutOccurrence, CommitRead, CommitVerify, stores
  <2>4. ASSUME NEW r \in Runs,
               \/ \E i \in Jobs, s \in Sources : VerifyRead(r, i, s)
               \/ VerifyOccurrence(r) \/ Mark(r) \/ PutJob(r) \/ Crash(r)
        PROVE  UNCHANGED outbox
    BY <2>4 DEF VerifyRead, VerifyOccurrence, Mark, DrainRead, MarkRead, PutJob, Crash, stores
  <2> QED BY <2>1, <2>2, <2>3, <2>4 DEF Next, Poll, Verify
<1> QED BY <1>1, TypeInvariant, PTL DEF Spec, EventWithAlertableJob

\* A run whose transaction inserted the event of its job, and that has yet to
\* report it.
Announcing(r) == pc[r] = "verify" /\ local[r].inserted

\* What the single report rests on: a job without an event has not been reported
\* and nobody is about to; one run at most inserts the event, and while it has
\* yet to report, nobody has.
ReportInv ==
  /\ \A j \in Jobs : reported[j] <= 1
  /\ \A j \in Jobs \ outbox : reported[j] = 0
  /\ \A r \in Runs : Announcing(r) => local[r].id \in outbox /\ reported[local[r].id] = 0
  /\ \A q, r \in Runs : Announcing(q) /\ Announcing(r) /\ local[q].id = local[r].id => q = r

\* A step after which every announcing run already was one, that reports nothing
\* and keeps the events, preserves ReportInv.
LEMMA QuietStep ==
  ASSUME TypeInv, ReportInv, UNCHANGED reported, outbox \subseteq outbox', outbox' \subseteq Jobs,
         \A q \in Runs : Announcing(q)' => Announcing(q) /\ local'[q] = local[q]
  PROVE  ReportInv'
BY DEF ReportInv, TypeInv, TypeOK

\* A run that goes anywhere but to the end of its commit makes no announcement.
LEMMA NoNewAnnouncement ==
  ASSUME TypeInv, NEW r \in Runs, NEW label \in PC \ {"verify"}, NEW l,
         pc' = [pc EXCEPT ![r] = label], local' = [local EXCEPT ![r] = l] \/ UNCHANGED local
  PROVE  \A q \in Runs : Announcing(q)' => Announcing(q) /\ local'[q] = local[q]
BY DEF TypeInv, TypeOK, Announcing

\* The steps that are not part of a transaction or its end make no announcement.
LEMMA OthersQuiet ==
  ASSUME TypeInv, ReportInv, NEW r \in Runs,
         \/ \E s \in Sources, sight \in Sights : PollStart(r, s, sight)
         \/ \E key \in Keys \cup {"none"}, verdict \in Verdict, j \in Jobs \cup {"none"} :
              PollResolve(r, key, verdict, j)
         \/ PollAbsent(r) \/ PutOccurrence(r) \/ CommitRead(r)
         \/ Verify(r) \/ Mark(r) \/ PutJob(r) \/ Crash(r)
  PROVE  ReportInv'
<1>1. ASSUME \/ \E s \in Sources, sight \in Sights : PollStart(r, s, sight)
             \/ \E key \in Keys \cup {"none"}, verdict \in Verdict, j \in Jobs \cup {"none"} :
                  PollResolve(r, key, verdict, j)
             \/ PollAbsent(r) \/ PutOccurrence(r) \/ CommitRead(r)
      PROVE  /\ UNCHANGED <<reported, outbox>>
             /\ \E label \in PC \ {"verify"} : pc' = [pc EXCEPT ![r] = label]
             /\ \E l : local' = [local EXCEPT ![r] = l]
  <2>1. ASSUME NEW s \in Sources, NEW sight \in Sights, PollStart(r, s, sight)
        PROVE  /\ UNCHANGED <<reported, outbox>>
               /\ \E label \in PC \ {"verify"} : pc' = [pc EXCEPT ![r] = label]
               /\ \E l : local' = [local EXCEPT ![r] = l]
    BY <2>1 DEF PollStart, Goto, PC, stores
  <2>2. ASSUME NEW key \in Keys \cup {"none"}, NEW verdict \in Verdict, NEW j \in Jobs \cup {"none"},
               PollResolve(r, key, verdict, j)
        PROVE  /\ UNCHANGED <<reported, outbox>>
               /\ \E label \in PC \ {"verify"} : pc' = [pc EXCEPT ![r] = label]
               /\ \E l : local' = [local EXCEPT ![r] = l]
    BY <2>2 DEF PollResolve, Goto, PC
  <2>3. CASE PollAbsent(r)
    BY <2>3 DEF PollAbsent, Goto, End, PC
  <2>4. CASE PutOccurrence(r) \/ CommitRead(r)
    BY <2>4 DEF PutOccurrence, CommitRead, Goto, End, PC
  <2> QED BY <1>1, <2>1, <2>2, <2>3, <2>4
<1>2. ASSUME Verify(r) \/ Mark(r) \/ PutJob(r) \/ Crash(r)
      PROVE  /\ UNCHANGED reported /\ outbox \subseteq outbox' /\ outbox' \subseteq Jobs
             /\ \E label \in PC \ {"verify"} : pc' = [pc EXCEPT ![r] = label]
             /\ \E l : local' = [local EXCEPT ![r] = l]
  <2>0. TypeOK /\ local[r].id \in Jobs
    BY DEF TypeInv, TypeOK, Local
  <2>1. CASE Verify(r)
    <3>1. ASSUME NEW j \in Jobs, NEW s \in Sources, VerifyRead(r, j, s)
          PROVE  /\ UNCHANGED reported /\ outbox \subseteq outbox' /\ outbox' \subseteq Jobs
                 /\ \E label \in PC \ {"verify"} : pc' = [pc EXCEPT ![r] = label]
                 /\ \E l : local' = [local EXCEPT ![r] = l]
      BY <2>0, <3>1 DEF VerifyRead, Goto, PC, TypeOK
    <3>2. ASSUME VerifyOccurrence(r)
          PROVE  /\ UNCHANGED reported /\ outbox \subseteq outbox' /\ outbox' \subseteq Jobs
                 /\ \E label \in PC \ {"verify"} : pc' = [pc EXCEPT ![r] = label]
                 /\ \E l : local' = [local EXCEPT ![r] = l]
      BY <2>0, <3>2 DEF VerifyOccurrence, Goto, PC, stores, TypeOK
    <3>3. ASSUME NEW verdict \in Judgements, Admit(r, verdict)
          PROVE  /\ UNCHANGED reported /\ outbox \subseteq outbox' /\ outbox' \subseteq Jobs
                 /\ \E label \in PC \ {"verify"} : pc' = [pc EXCEPT ![r] = label]
                 /\ \E l : local' = [local EXCEPT ![r] = l]
      <4>1. UNCHANGED reported /\ (outbox' = outbox \/ outbox' = outbox \cup {local[r].id})
        BY <3>3 DEF Admit
      <4>2. pc' = [pc EXCEPT ![r] = "idle"] /\ local' = [local EXCEPT ![r] = NoLocal]
        BY <3>3 DEF Admit, End, Goto
      <4> QED BY <2>0, <4>1, <4>2 DEF PC, TypeOK
    <3> QED BY <2>1, <3>1, <3>2, <3>3 DEF Verify
  <2>2. CASE Mark(r) \/ PutJob(r) \/ Crash(r)
    BY <2>0, <2>2 DEF Mark, DrainRead, MarkRead, PutJob, Crash, Goto, End, PC, stores, TypeOK
  <2> QED BY <1>2, <2>1, <2>2
<1>3. outbox \subseteq Jobs
  BY DEF TypeInv, TypeOK
<1> QED BY <1>1, <1>2, <1>3, QuietStep, NoNewAnnouncement

\* Whatever the polls of any number of sources believe to be new, at most one of
\* them reports a job as new.
THEOREM OneReport == Spec => []ReportedOnce
<1>1. Init => ReportInv
  BY DEF Init, ReportInv, Announcing
<1>2. TypeInv /\ ReportInv /\ [Next]_vars => ReportInv'
  <2> SUFFICES ASSUME TypeInv, ReportInv, [Next]_vars PROVE ReportInv'
    OBVIOUS
  <2>0. TypeOK
    BY DEF TypeInv
  <2>1. ASSUME NEW r \in Runs, Batch(r) PROVE ReportInv'
    <3> DEFINE l == local[r]
    <3>0. l.id \in Jobs /\ l \in Local /\ outbox \subseteq Jobs
      BY <2>0 DEF TypeOK, Local
    <3>1. UNCHANGED reported /\ outbox \subseteq outbox' /\ outbox' \subseteq Jobs
      BY <2>1, <3>0 DEF Batch
    <3>2. CASE pc' = [pc EXCEPT ![r] = "verify"]
      <4>1. PICK inserted \in BOOLEAN :
              /\ local' = [local EXCEPT ![r].inserted = inserted]
              /\ inserted => l.id \notin outbox /\ l.id \in outbox'
        BY <2>0, <2>1, <3>2 DEF Batch, Goto, Fresh, End, TypeOK
      <4>2. \A q \in Runs : q # r => (Announcing(q)' <=> Announcing(q)) /\ local'[q] = local[q]
        BY <2>0, <3>2, <4>1 DEF Announcing, TypeOK
      <4>3. local'[r].id = l.id /\ (Announcing(r)' => inserted)
        BY <2>0, <3>0, <4>1 DEF Announcing, TypeOK, Local
      <4> QED BY <3>0, <3>1, <4>1, <4>2, <4>3 DEF ReportInv
    <3>3. CASE ~(pc' = [pc EXCEPT ![r] = "verify"])
      <4>1. \/ pc' = [pc EXCEPT ![r] = "read"] /\ UNCHANGED local
            \/ pc' = [pc EXCEPT ![r] = "idle"] /\ local' = [local EXCEPT ![r] = NoLocal]
        BY <2>1, <3>3 DEF Batch, Goto, End
      <4> QED BY <3>1, <4>1, QuietStep, NoNewAnnouncement DEF PC
    <3> QED BY <3>2, <3>3
  <2>2. ASSUME NEW r \in Runs, CommitVerify(r) PROVE ReportInv'
    <3>1. /\ pc' = [pc EXCEPT ![r] = "idle"] /\ local' = [local EXCEPT ![r] = NoLocal]
          /\ UNCHANGED outbox
          /\ \/ UNCHANGED reported
             \/ /\ Announcing(r)
                /\ reported' = [reported EXCEPT ![local[r].id] = @ + 1]
      BY <2>2 DEF CommitVerify, End, Goto, Announcing
    <3>2. \A q \in Runs : Announcing(q)' => q # r /\ Announcing(q) /\ local'[q] = local[q]
      BY <2>0, <3>1 DEF Announcing, TypeOK
    <3>3. local[r].id \in Jobs /\ outbox \subseteq Jobs
      BY <2>0 DEF TypeOK, Local
    <3>4. CASE UNCHANGED reported
      BY <3>1, <3>2, <3>3, <3>4, QuietStep
    <3>5. CASE Announcing(r) /\ reported' = [reported EXCEPT ![local[r].id] = @ + 1]
      <4>1. \A j \in Jobs : reported'[j] = IF j = local[r].id THEN reported[j] + 1 ELSE reported[j]
        BY <2>0, <3>5 DEF TypeOK
      <4>2. reported[local[r].id] = 0 /\ local[r].id \in outbox
        BY <3>5 DEF ReportInv
      <4>3. \A q \in Runs : Announcing(q)' => local'[q].id # local[r].id /\ local'[q].id \in Jobs
        BY <2>0, <3>2, <3>5 DEF ReportInv, TypeOK, Local
      <4> QED BY <3>1, <3>2, <3>3, <4>1, <4>2, <4>3 DEF ReportInv
    <3> QED BY <3>1, <3>4, <3>5
  <2>3. ASSUME NEW r \in Runs, Poll(r), ~Batch(r), ~CommitVerify(r) PROVE ReportInv'
    BY <2>3, OthersQuiet DEF Poll
  <2>4. ASSUME NEW r \in Runs, Verify(r) \/ Mark(r) \/ PutJob(r) \/ Crash(r) PROVE ReportInv'
    BY <2>4, OthersQuiet
  <2>5. CASE UNCHANGED vars
    BY <2>5 DEF vars, stores, ReportInv, Announcing
  <2> QED BY <2>1, <2>2, <2>3, <2>4, <2>5 DEF Next
<1>3. ReportInv => ReportedOnce
  BY DEF ReportInv, ReportedOnce
<1> QED BY <1>1, <1>2, <1>3, TypeInvariant, PTL DEF Spec
-----------------------------------------------------------------------------
(* What the planning operators do to the fields of a job *)

\* A merged reference is known if either copy is, and takes its key and state
\* from the incoming copy and its admission from the later one.
LEMMA MergeRefFacts ==
  ASSUME NEW old \in Ref, NEW new \in Ref
  PROVE  /\ MergeRef(old, new).known = (old.known \/ new.known)
         /\ MergeRef(old, new).key = IF new.known THEN new.key ELSE old.key
         /\ MergeRef(old, new).state = IF new.known THEN new.state ELSE old.state
         /\ MergeRef(old, new).at =
              IF ~new.known \/ (old.known /\ (new.verdict = "none" \/ old.at > new.at))
              THEN old.at ELSE new.at
BY DEF MergeRef, Ref

\* The plan for a listing: it exists, has the key of the stored job or else of
\* the listing, the stored references, the listing's merged into its own, and
\* is marked only if it is announced or was marked.
LEMMA ListedFacts ==
  ASSUME NEW s \in Sources, NEW stored \in Row, NEW prior \in Occurrence, NEW ref \in Ref,
         NEW now \in Time, NEW job, NEW event,
         job = Listed(s, stored, prior, ref, now).job,
         event = Listed(s, stored, prior, ref, now).event
  PROVE  /\ job.exists
         /\ job.key = IF stored.exists /\ stored.key # "none" THEN stored.key ELSE ref.key
         /\ \A x \in Sources :
              job.refs[x] = IF stored.exists
                            THEN IF x = s THEN MergeRef(stored.refs[x], ref) ELSE stored.refs[x]
                            ELSE IF x = s THEN ref ELSE NoRef
         /\ job.pending => event \/ (stored.exists /\ stored.pending)
         /\ event => \/ ~stored.exists \/ ~prior.exists
                     \/ ref.verdict = "eligible" /\ prior.ref.verdict # "eligible"
<1> DEFINE base == IF stored.exists THEN Merged(stored, s, ref, now) ELSE Created(s, ref, now)
<1>1. base \in Row
  BY MergedType, CreatedType
<1>2. CASE stored.exists
  <2> DEFINE refs == [stored.refs EXCEPT ![s] = MergeRef(@, ref)]
  <2>1. \A x \in Sources : refs[x] = IF x = s THEN MergeRef(stored.refs[x], ref) ELSE stored.refs[x]
    BY DEF Row
  <2> DEFINE admission == Admission(refs)
             gone == admission = "gone"
             stillDead == stored.dead /\ admission # "eligible"
             official == {x \in Official : stored.refs[x].known}
             revives == \/ stored.open
                        \/ s \in Official /\ ref.verdict \in {"none", "eligible"}
                        \/ /\ s \in Trusted /\ stored.refs[s].known /\ official = {}
                           /\ ref.state = "open" /\ ref.verdict = "eligible"
             open == ~gone /\ ~stillDead /\ revives /\ AnyOpen(refs)
             dead == gone \/ stillDead
             pending == stored.pending /\ ~gone
             key == IF stored.key = "none" THEN ref.key ELSE stored.key
  <2>2. base = [stored EXCEPT !.refs = refs, !.key = key, !.dead = dead, !.pending = pending,
                              !.open = open, !.seen = now]
    BY <1>2 DEF Merged
  <2>7. pending => stored.pending
    OBVIOUS
  <2> HIDE DEF base, refs, open, dead, pending, key
  <2>3. /\ base.refs = refs /\ base.key = key /\ base.exists = stored.exists
        /\ base.pending => stored.pending
    BY <2>2, <2>7 DEF Row
  <2> USE DEF key
  <2>4. \A b \in BOOLEAN : LET p == [base EXCEPT !.pending = b]
                           IN p.refs = base.refs /\ p.key = base.key /\ p.exists = base.exists /\ p.pending = b
    BY <1>1 DEF Row
  <2>5. /\ event => \/ ~stored.exists \/ ~prior.exists
                    \/ ref.verdict = "eligible" /\ prior.ref.verdict # "eligible"
        /\ \/ job = base
           \/ job = [base EXCEPT !.pending = FALSE]
           \/ job = [base EXCEPT !.pending = TRUE] /\ event
    BY Zenon DEF Listed, Promoted, base
  <2> HIDE DEF base, key
  <2>6. /\ job.refs = base.refs /\ job.key = base.key /\ job.exists = base.exists
        /\ job.pending => event \/ base.pending
    BY <2>4, <2>5
  <2> USE DEF key
  <2> QED BY <1>2, <2>1, <2>3, <2>5, <2>6
<1>3. CASE ~stored.exists
  <2>1. /\ base.exists /\ base.key = ref.key /\ base.refs = [NoRow.refs EXCEPT ![s] = ref]
    BY <1>3 DEF Created, NoRow
  <2>2. \A x \in Sources : base.refs[x] = IF x = s THEN ref ELSE NoRef
    BY <2>1 DEF NoRow
  <2> HIDE DEF base
  <2>4. \A b \in BOOLEAN : LET p == [base EXCEPT !.pending = b]
                           IN p.refs = base.refs /\ p.key = base.key /\ p.exists = base.exists /\ p.pending = b
    BY <1>1 DEF Row
  <2>5. \/ job = base /\ event
        \/ job = [base EXCEPT !.pending = FALSE]
        \/ job = [base EXCEPT !.pending = TRUE] /\ event
    BY <1>3, Zenon DEF Listed, base
  <2>6. /\ job.refs = base.refs /\ job.key = base.key /\ job.exists = base.exists
        /\ job.pending => event
    BY <2>4, <2>5
  <2> QED BY <1>3, <2>1, <2>2, <2>6
<1> QED BY <1>2, <1>3

\* What the transaction writes: the proposed key, references merged from both
\* copies and the occurrence, and the marker if it was there before or is
\* proposed and not withdrawn.
LEMMA CanonicalFacts ==
  ASSUME NEW current \in Row, NEW proposed \in Row, NEW s \in Sources, NEW ref \in Ref,
         NEW event \in BOOLEAN, NEW job,
         job = Finalized(current, Projected(current, proposed, s, ref), event)
  PROVE  /\ job.exists = proposed.exists /\ job.key = proposed.key
         /\ \A x \in Sources :
              job.refs[x] = IF x = s THEN MergeRef(MergeRef(current.refs[x], proposed.refs[x]), ref)
                            ELSE MergeRef(current.refs[x], proposed.refs[x])
         /\ job.pending => \/ current.pending
                           \/ /\ proposed.pending
                              /\ event => Alertable(Projected(current, proposed, s, ref))
<1> DEFINE refs == [x \in Sources |-> LET both == MergeRef(current.refs[x], proposed.refs[x])
                                       IN IF x = s THEN MergeRef(both, ref) ELSE both]
           projected == Projected(current, proposed, s, ref)
<1>1. \A x \in Sources : refs[x] = IF x = s THEN MergeRef(MergeRef(current.refs[x], proposed.refs[x]), ref)
                                   ELSE MergeRef(current.refs[x], proposed.refs[x])
  OBVIOUS
<1>2. projected \in Row
  BY CanonicalType
<1> DEFINE sent == current.sent \/ proposed.sent
           open == ~proposed.dead /\ AnyOpen(refs) /\ (current.open \/ proposed.open)
           pending == ~sent /\ (current.pending \/ proposed.pending)
           seen == IF current.seen > proposed.seen THEN current.seen ELSE proposed.seen
<1>3. projected = [proposed EXCEPT !.refs = refs, !.open = open, !.sent = sent,
                                   !.pending = pending, !.seen = seen]
  BY Zenon DEF Projected, Pending
<1>4. pending => current.pending \/ proposed.pending
  OBVIOUS
<1> HIDE DEF refs, projected, sent, open, pending, seen
<1>5. /\ projected.exists = proposed.exists /\ projected.key = proposed.key /\ projected.refs = refs
      /\ projected.pending => current.pending \/ proposed.pending
  BY <1>3, <1>4 DEF Row
<1>6. CASE event /\ ~Alertable(projected)
  <2> HIDE DEF projected
  <2>1. \A b \in BOOLEAN : LET p == [projected EXCEPT !.pending = b]
                           IN p.refs = projected.refs /\ p.key = projected.key /\ p.exists = projected.exists /\ p.pending = b
    BY <1>2 DEF Row
  <2>2. job = [projected EXCEPT !.pending = ~projected.sent /\ current.pending]
    BY <1>6 DEF Finalized, projected
  <2>3. (~projected.sent /\ current.pending) \in BOOLEAN
    OBVIOUS
  <2>5. /\ job.refs = projected.refs /\ job.key = projected.key /\ job.exists = projected.exists
        /\ job.pending => current.pending
    <3> DEFINE left == ~projected.sent /\ current.pending
    <3>1. left => current.pending
      OBVIOUS
    <3> HIDE DEF left
    <3>2. left \in BOOLEAN /\ job = [projected EXCEPT !.pending = left]
      BY <2>2, <2>3 DEF left
    <3> QED BY <2>1, <3>1, <3>2
  <2> USE DEF projected
  <2> QED BY <1>1, <1>5, <2>5
<1>7. CASE ~(event /\ ~Alertable(projected))
  <2>1. job = projected
    BY <1>7 DEF Finalized, projected
  <2>2. Alertable(projected) <=> Alertable(Projected(current, proposed, s, ref))
    BY DEF projected
  <2> QED BY <1>1, <1>5, <1>7, <2>1, <2>2
<1> QED BY <1>6, <1>7

\* A closed listing stays known to its job, with its key and admission.
LEMMA ClosedFacts ==
  ASSUME NEW job \in Row, NEW s \in Sources, NEW now \in Time, NEW closed,
         closed = Closed(job, s, now)
  PROVE  /\ closed.exists = job.exists /\ closed.key = job.key /\ closed.pending = job.pending
         /\ \A x \in Sources : /\ closed.refs[x].known = job.refs[x].known
                              /\ closed.refs[x].key = job.refs[x].key
                              /\ closed.refs[x].at = job.refs[x].at
<1> DEFINE refs == [job.refs EXCEPT ![s].state = "closed"]
<1>1. \A x \in Sources : /\ refs[x].known = job.refs[x].known /\ refs[x].key = job.refs[x].key
                          /\ refs[x].at = job.refs[x].at
  BY DEF Row, Ref
<1> HIDE DEF refs
<1>2. closed = [job EXCEPT !.refs = refs, !.open = @ /\ AnyOpen(refs), !.seen = now]
  BY DEF Closed, refs
<1>3. /\ closed.exists = job.exists /\ closed.key = job.key /\ closed.pending = job.pending
      /\ closed.refs = refs
  BY <1>2 DEF Row
<1> QED BY <1>1, <1>3

-----------------------------------------------------------------------------
(* What the steps of a poll do, in the terms the invariants need *)

\* The job a listing resolves to, and the copy of it the plan starts from.
Target(s, key, preferred) ==
  IF key # "none" THEN Resolves(key, preferred) ELSE IF preferred # "none" THEN preferred ELSE Own[s]
CopyOf(key, preferred, target) == IF key = "none" /\ preferred = "none" THEN NoRow ELSE row[target]

\* A quarantined listing is not planned.
GivesUp(r) ==
  /\ UNCHANGED clock
  /\ pc' = [pc EXCEPT ![r] = "absent"]
  /\ local' = [local EXCEPT ![r] = [local[r] EXCEPT !.sight = "filtered"]]

\* The run goes on with copy l of its state, in which the listing, of reference ref,
\* is merged into the stored job or creates it.
Plans(r, key, verdict, j, target, ref, stored, l) ==
  /\ target = Target(local[r].source, key, j)
  /\ stored = CopyOf(key, j, target)
  /\ clock' = clock + 1 /\ clock' \in Time
  /\ ref.known /\ ref.key = key /\ ref.verdict = verdict
  /\ ref.at = IF verdict = "none" THEN 0 ELSE clock'
  /\ l.source = local[r].source /\ l.prior = local[r].prior /\ l.base = local[r].base
  /\ l.baseOcc = local[r].baseOcc /\ l.now = clock' /\ l.id = target
  /\ l.job = Listed(l.source, stored, l.prior, ref, clock').job
  /\ l.event = Listed(l.source, stored, l.prior, ref, clock').event
  /\ l.occurrence.exists /\ l.occurrence.job = target
  /\ l.occurrence.ref = MergeRef(l.prior.ref, ref)
  /\ local' = [local EXCEPT ![r] = l]
  /\ \/ pc' = [pc EXCEPT ![r] = "put"] /\ l.occurrence = l.prior
     \/ pc' = [pc EXCEPT ![r] = "read"]

\* A poll that resolves its listing gives it up, or plans the job it resolved to.
LEMMA ResolveShape ==
  ASSUME TypeInv, NEW r \in Runs, NEW key \in Keys \cup {"none"}, NEW verdict \in Verdict,
         NEW j \in Jobs \cup {"none"}, PollResolve(r, key, verdict, j)
  PROVE  /\ pc[r] = "resolve" /\ key \in KeysSeen[local[r].source]
         /\ j \in Candidates(local[r].source, local[r].prior)
         /\ local[r].source \in Managed => verdict # "none"
         /\ UNCHANGED <<claim, row, occ, outbox>>
         /\ \/ GivesUp(r)
            \/ \E target \in Jobs, ref \in Ref, stored \in Row, l \in Local :
                 Plans(r, key, verdict, j, target, ref, stored, l)
<1> DEFINE s == local[r].source
           target == Target(s, key, j)
<1>1. /\ local[r] \in Local /\ StoresOK /\ s \in Sources /\ local[r].prior \in Occurrence
      /\ local[r].sight \in {"open", "closed"}
  BY DEF TypeInv, TypeOK, StoresOK, RunInv, PollResolve, Local
<1>2. target \in Jobs \cup {"none"}
  BY <1>1, CommitAssumption DEF CommitAssumption, Resolves, StoresOK, Target
<1>5. /\ pc[r] = "resolve" /\ key \in KeysSeen[s] /\ j \in Candidates(s, local[r].prior)
      /\ (s \in Managed => verdict # "none") /\ UNCHANGED <<claim, row, occ, outbox>>
  BY CommitAssumption DEF CommitAssumption, PollResolve
<1>3. ASSUME target = "none"
      PROVE  GivesUp(r)
  BY <1>3 DEF PollResolve, Goto, Target, TypeInv, TypeOK, GivesUp
<1>4. CASE target # "none"
  <2> DEFINE ref == ListingRef(key, local[r].sight, verdict, clock')
             stored == CopyOf(key, j, target)
             plan == Listed(s, stored, local[r].prior, ref, clock')
             next == [exists |-> TRUE, job |-> target, present |-> TRUE, omissions |-> 0,
                      ref |-> MergeRef(local[r].prior.ref, ref)]
             l == [local[r] EXCEPT !.now = clock', !.id = target, !.job = plan.job,
                                   !.event = plan.event, !.occurrence = next]
  <2>1. clock' = clock + 1 /\ clock' \in Time
    BY <1>1, <1>4, NextTime DEF PollResolve, StoresOK, Target
  <2>2. /\ ref \in Ref /\ ref.known /\ ref.key = key /\ ref.verdict = verdict
        /\ ref.at = IF verdict = "none" THEN 0 ELSE clock'
    BY <1>1, <2>1, CommitAssumption DEF CommitAssumption, ListingRef, Ref, Time
  <2>3. stored \in Row /\ target \in Jobs
    BY <1>1, <1>2, <1>4, DefaultTypes DEF StoresOK, CopyOf
  <2>8. /\ local' = [local EXCEPT ![r] = l]
        /\ \/ pc' = [pc EXCEPT ![r] = "put"] /\ next = local[r].prior
           \/ pc' = [pc EXCEPT ![r] = "read"]
    BY <1>4 DEF PollResolve, Goto, Target, CopyOf
  <2> HIDE DEF ref, stored, target
  <2>4. plan.job \in Row /\ plan.event \in BOOLEAN
    BY <1>1, <2>1, <2>2, <2>3, ListedType
  <2>5. local[r].prior.ref \in Ref
    BY <1>1 DEF Occurrence
  <2>6. next \in Occurrence
    BY <2>2, <2>3, <2>5, MergeRefType DEF Occurrence
  <2>9. next.exists /\ next.job = target /\ next.ref = MergeRef(local[r].prior.ref, ref)
    OBVIOUS
  <2> DEFINE job == plan.job
             event == plan.event
  <2>10. job = plan.job /\ event = plan.event /\ job \in Row /\ event \in BOOLEAN
    BY <2>4
  <2>11. l = [local[r] EXCEPT !.now = clock', !.id = target, !.job = job,
                              !.event = event, !.occurrence = next]
    OBVIOUS
  <2> HIDE DEF plan, next, job, event, l
  <2>7. /\ l \in Local /\ l.source = s /\ l.prior = local[r].prior /\ l.base = local[r].base
        /\ l.baseOcc = local[r].baseOcc /\ l.now = clock' /\ l.id = target /\ l.job = job
        /\ l.event = event /\ l.occurrence = next
    BY <1>1, <2>1, <2>3, <2>6, <2>10, <2>11 DEF Local
  <2>12. l.job = Listed(s, stored, l.prior, ref, clock').job /\ l.event = Listed(s, stored, l.prior, ref, clock').event
    BY <2>7, <2>10 DEF plan
  <2>13. target = Target(s, key, j) /\ stored = CopyOf(key, j, target)
    BY DEF target, stored
  <2>14. /\ target = Target(local[r].source, key, j)
         /\ stored = CopyOf(key, j, target)
         /\ clock' = clock + 1 /\ clock' \in Time
         /\ ref.known /\ ref.key = key /\ ref.verdict = verdict
         /\ ref.at = IF verdict = "none" THEN 0 ELSE clock'
         /\ l.source = local[r].source /\ l.prior = local[r].prior /\ l.base = local[r].base
         /\ l.baseOcc = local[r].baseOcc /\ l.now = clock' /\ l.id = target
    BY <2>1, <2>2, <2>7, <2>13
  <2>15. /\ l.job = Listed(l.source, stored, l.prior, ref, clock').job
         /\ l.event = Listed(l.source, stored, l.prior, ref, clock').event
    BY <2>7, <2>12, Zenon
  <2>16. /\ l.occurrence.exists /\ l.occurrence.job = target
         /\ l.occurrence.ref = MergeRef(l.prior.ref, ref)
         /\ local' = [local EXCEPT ![r] = l]
         /\ \/ pc' = [pc EXCEPT ![r] = "put"] /\ l.occurrence = l.prior
            \/ pc' = [pc EXCEPT ![r] = "read"]
    <3>1. local' = [local EXCEPT ![r] = l]
      BY <2>8 DEF l, job, event
    <3> QED BY <2>7, <2>8, <2>9, <3>1
  <2>17. l \in Local /\ ref \in Ref /\ stored \in Row /\ target \in Jobs
    BY <2>2, <2>3, <2>7
  <2>18. Plans(r, key, verdict, j, target, ref, stored, l)
    BY <2>14, <2>15, <2>16, Zenon DEF Plans
  <2> QED BY <1>5, <2>17, <2>18, Zenon
<1> QED BY <1>3, <1>4, <1>5

\* The run goes on with copy l of its state, to close the listing in its job or to
\* write that it was missed.
Misses(r, l) ==
  /\ l.source = local[r].source /\ l.prior = local[r].prior /\ l.base = local[r].base
  /\ l.baseOcc = local[r].baseOcc /\ l.now = clock' /\ l.prior.exists
  /\ l.event = local[r].event
  /\ l.id = l.prior.job /\ l.occurrence.exists /\ l.occurrence.job = l.prior.job
  /\ l.occurrence.ref.known = l.prior.ref.known
  /\ l.occurrence.ref.key = l.prior.ref.key /\ l.occurrence.ref.at = l.prior.ref.at
  /\ local' = [local EXCEPT ![r] = l]
  /\ \/ /\ pc' = [pc EXCEPT ![r] = "read"] /\ row[l.id].exists
        /\ l.job = Closed(row[l.id], l.source, clock') /\ clock' \in Time
     \/ pc' = [pc EXCEPT ![r] = "putOccurrence"] /\ l.job = NoRow

\* A poll that misses its listing ends, writes the occurrence alone, or plans the
\* closing of the listing in its job.
LEMMA AbsentShape ==
  ASSUME TypeInv, NEW r \in Runs, PollAbsent(r)
  PROVE  /\ pc[r] = "absent" /\ UNCHANGED <<claim, row, occ, outbox>>
         /\ clock' \in {clock, clock + 1}
         /\ \/ End(r)
            \/ \E l \in Local : Misses(r, l)
<1>0. local[r] \in Local /\ StoresOK
  BY DEF TypeInv, TypeOK, StoresOK
<1> DEFINE s == local[r].source
           prior == local[r].prior
           omissions == IF prior.omissions < 2 THEN prior.omissions + 1 ELSE 2
           kept == [prior EXCEPT !.present = TRUE, !.omissions = 0]
           missed == [prior EXCEPT !.present = FALSE, !.omissions = omissions,
                                   !.ref = IF omissions = 2 THEN [@ EXCEPT !.state = "closed"] ELSE @]
           next == IF local[r].sight = "filtered" THEN kept ELSE missed
           closing == ~next.present /\ omissions = 2 /\ row[prior.job].exists
           job == IF closing THEN Closed(row[prior.job], s, clock') ELSE NoRow
           l == [local[r] EXCEPT !.now = clock', !.id = prior.job, !.occurrence = next, !.job = job]
<1>1. prior \in Occurrence /\ s \in Sources /\ prior.job \in Jobs /\ prior.ref \in Ref
  BY <1>0 DEF Local, Occurrence
<1>2. /\ next \in Occurrence /\ next.exists = prior.exists /\ next.job = prior.job
      /\ next.ref.known = prior.ref.known /\ next.ref.key = prior.ref.key /\ next.ref.at = prior.ref.at
  <2>1. omissions \in 0..2
    BY <1>1 DEF Occurrence
  <2> DEFINE ref == IF omissions = 2 THEN [prior.ref EXCEPT !.state = "closed"] ELSE prior.ref
  <2>2. ref.known = prior.ref.known /\ ref.key = prior.ref.key /\ ref.at = prior.ref.at
    BY <1>1 DEF Ref
  <2>3. missed = [prior EXCEPT !.present = FALSE, !.omissions = omissions, !.ref = ref]
    OBVIOUS
  <2>4. kept \in Occurrence /\ missed \in Occurrence
    <3> HIDE DEF omissions, prior
    <3> QED BY <1>1, <2>1, MissedType
  <2> HIDE DEF omissions, prior, ref, missed
  <2>5. missed.exists = prior.exists /\ missed.job = prior.job /\ missed.ref = ref
    BY <1>1, <2>1, <2>3 DEF Occurrence
  <2>6. kept.exists = prior.exists /\ kept.job = prior.job /\ kept.ref = prior.ref
    BY <1>1 DEF Occurrence
  <2> QED BY <2>2, <2>4, <2>5, <2>6
<1>3. clock' \in Time
  BY <1>0, NextTime DEF PollAbsent, StoresOK
<1>4. job \in Row
  BY <1>0, <1>1, <1>3, ClosedType, DefaultTypes DEF StoresOK
<1>6. /\ pc[r] = "absent" /\ UNCHANGED <<claim, row, occ, outbox>> /\ clock' \in {clock, clock + 1}
  BY DEF PollAbsent, End, Goto
<1>7. \/ End(r)
      \/ /\ prior.exists /\ local' = [local EXCEPT ![r] = l]
         /\ \/ closing /\ pc' = [pc EXCEPT ![r] = "read"]
            \/ ~closing /\ pc' = [pc EXCEPT ![r] = "putOccurrence"]
  BY DEF PollAbsent, Goto
<1>8. (closing => job = Closed(row[prior.job], s, clock') /\ row[prior.job].exists) /\ (~closing => job = NoRow)
  OBVIOUS
<1> HIDE DEF next, closing, job
<1>5. /\ l \in Local /\ l.source = s /\ l.prior = prior /\ l.base = local[r].base
      /\ l.baseOcc = local[r].baseOcc /\ l.now = clock' /\ l.event = local[r].event
      /\ l.id = prior.job /\ l.occurrence = next /\ l.job = job
  BY <1>0, <1>1, <1>2, <1>3, <1>4 DEF Local
<1> HIDE DEF l
<1>9. ASSUME ~End(r) PROVE Misses(r, l)
  <2>1. prior.exists /\ local' = [local EXCEPT ![r] = l]
    BY <1>7, <1>9
  <2>2. \/ /\ pc' = [pc EXCEPT ![r] = "read"] /\ row[l.id].exists
           /\ l.job = Closed(row[l.id], l.source, clock') /\ clock' \in Time
        \/ pc' = [pc EXCEPT ![r] = "putOccurrence"] /\ l.job = NoRow
    BY <1>3, <1>5, <1>7, <1>8, <1>9
  <2> HIDE DEF prior, s
  <2>3. l.occurrence.exists /\ l.occurrence.job = l.prior.job
    BY <1>2, <1>5, <2>1
  <2> USE DEF prior, s
  <2> QED BY <1>2, <1>5, <2>1, <2>2, <2>3 DEF Misses
<1> HIDE DEF prior, s
<1> QED BY <1>5, <1>6, <1>9

\* A commit reads the job again and goes to its transaction, or gives up.
LEMMA ReadShape ==
  ASSUME TypeInv, NEW r \in Runs, CommitRead(r)
  PROVE  /\ pc[r] = "read" /\ UNCHANGED <<claim, row, occ, outbox, clock>>
         /\ \/ End(r)
            \/ \E l \in Local :
                 /\ l.source = local[r].source /\ l.prior = local[r].prior /\ l.id = local[r].id
                 /\ l.now = local[r].now /\ l.job = local[r].job /\ l.event = local[r].event
                 /\ l.occurrence = local[r].occurrence
                 /\ l.base = row[l.id] /\ l.baseOcc = occ[l.source]
                 /\ local' = [local EXCEPT ![r] = l] /\ pc' = [pc EXCEPT ![r] = "batch"]
<1>0. local[r] \in Local /\ StoresOK
  BY DEF TypeInv, TypeOK, StoresOK
<1> DEFINE l == [local[r] EXCEPT !.attempts = local[r].attempts + 1, !.base = row[local[r].id],
                                 !.baseOcc = occ[local[r].source]]
<1>1. local[r].attempts + 1 \in 0..MaxAttempts \/ pc[r] # "read"
  BY <1>0, CommitAssumption DEF CommitAssumption, TypeInv, RunInv, Local
<1>2. row[local[r].id] \in Row /\ occ[local[r].source] \in Occurrence
  BY <1>0 DEF Local, StoresOK
<1>3. pc[r] = "read" /\ UNCHANGED <<claim, row, occ, outbox, clock>>
  BY DEF CommitRead
<1>4. /\ l \in Local
      /\ l.source = local[r].source /\ l.prior = local[r].prior /\ l.id = local[r].id
      /\ l.now = local[r].now /\ l.job = local[r].job /\ l.event = local[r].event
      /\ l.occurrence = local[r].occurrence
      /\ l.base = row[l.id] /\ l.baseOcc = occ[l.source]
  BY <1>0, <1>1, <1>2, <1>3 DEF Local
<1>5. \/ End(r)
      \/ local' = [local EXCEPT ![r] = l] /\ pc' = [pc EXCEPT ![r] = "batch"]
  BY DEF CommitRead, Goto
<1> HIDE DEF l
<1> QED BY <1>3, <1>4, <1>5

\* The reference and the job that the transaction of a commit writes.
RefToWrite(l) ==
  IF l.baseOcc.exists THEN MergeRef(l.baseOcc.ref, l.occurrence.ref) ELSE l.occurrence.ref
ProjectedJob(l) == Projected(l.base, l.job, l.source, RefToWrite(l))
JobToWrite(l) == Finalized(l.base, ProjectedJob(l), l.event)

\* The transaction writes everything or nothing.
LEMMA BatchShape ==
  ASSUME TypeInv, NEW r \in Runs, Batch(r), NEW l, l = local[r]
  PROVE  /\ pc[r] = "batch" /\ UNCHANGED clock
         /\ RefToWrite(l) \in Ref /\ ProjectedJob(l) \in Row /\ JobToWrite(l) \in Row
         /\ \/ UNCHANGED <<claim, row, occ, outbox>>
            \/ /\ Free(l.job.key, l.id)
               /\ \/ row[l.id] = l.base /\ row' = [row EXCEPT ![l.id] = JobToWrite(l)]
                  \/ row[l.id] = JobToWrite(l) /\ UNCHANGED row
               /\ claim' = [k \in Keys |-> IF k = l.job.key /\ claim[k] = "none" THEN l.id ELSE claim[k]]
               /\ occ' = [occ EXCEPT ![l.source] = [l.occurrence EXCEPT !.ref = RefToWrite(l)]]
               /\ outbox' = IF l.event /\ Alertable(ProjectedJob(l)) THEN outbox \cup {l.id} ELSE outbox
         /\ \/ /\ pc' = [pc EXCEPT ![r] = "verify"]
               /\ \E inserted \in BOOLEAN : local' = [local EXCEPT ![r] = [l EXCEPT !.inserted = inserted]]
            \/ pc' = [pc EXCEPT ![r] = "read"] /\ UNCHANGED local
            \/ End(r)
<1>0. l \in Local /\ l.base \in Row /\ l.job \in Row /\ l.source \in Sources
      /\ l.event \in BOOLEAN /\ l.occurrence.ref \in Ref /\ l.baseOcc.ref \in Ref
  BY DEF TypeInv, TypeOK, Local, Occurrence
<1>1. RefToWrite(l) \in Ref
  BY <1>0, MergeRefType DEF RefToWrite
<1>2. ProjectedJob(l) \in Row /\ JobToWrite(l) \in Row
  BY <1>0, <1>1, CanonicalType DEF ProjectedJob, JobToWrite
<1> DEFINE free == Free(l.job.key, l.id)
           swapped == free /\ Still(l.id, l.base)
           written == swapped \/ (free /\ Projection(l.id, JobToWrite(l)))
           event == l.event /\ Alertable(ProjectedJob(l))
<1>3. /\ pc[r] = "batch" /\ UNCHANGED clock
      /\ row' = IF swapped THEN [row EXCEPT ![l.id] = JobToWrite(l)] ELSE row
      /\ claim' = [k \in Keys |-> IF written /\ k = l.job.key /\ claim[k] = "none" THEN l.id ELSE claim[k]]
      /\ occ' = IF written THEN [occ EXCEPT ![l.source] = [l.occurrence EXCEPT !.ref = RefToWrite(l)]]
                ELSE occ
      /\ outbox' = IF written /\ event THEN outbox \cup {l.id} ELSE outbox
  BY DEF Batch, RefToWrite, ProjectedJob, JobToWrite
<1>4. \/ /\ pc' = [pc EXCEPT ![r] = "verify"]
         /\ \E inserted \in BOOLEAN : local' = [local EXCEPT ![r] = [l EXCEPT !.inserted = inserted]]
      \/ pc' = [pc EXCEPT ![r] = "read"] /\ UNCHANGED local
      \/ End(r)
  <2>1. (event /\ Fresh(l.id)) \in BOOLEAN
    OBVIOUS
  <2> HIDE DEF event
  <2>2. \/ local' = [local EXCEPT ![r].inserted = event /\ Fresh(l.id)] /\ pc' = [pc EXCEPT ![r] = "verify"]
        \/ pc' = [pc EXCEPT ![r] = "read"] /\ UNCHANGED local
        \/ End(r)
    BY DEF Batch, Goto, event, RefToWrite, ProjectedJob
  <2>3. [local EXCEPT ![r].inserted = event /\ Fresh(l.id)]
          = [local EXCEPT ![r] = [l EXCEPT !.inserted = event /\ Fresh(l.id)]]
    OBVIOUS
  <2> QED BY <2>1, <2>2, <2>3
<1>5. claim \in [Keys -> Jobs \cup {"none"}]
  BY DEF TypeInv, TypeOK
<1>6. CASE ~written
  <2>1. UNCHANGED <<row, occ, outbox>>
    BY <1>3, <1>6
  <2>2. claim' = claim
    BY <1>3, <1>5, <1>6
  <2> QED BY <1>1, <1>2, <1>3, <1>4, <2>1, <2>2
<1>7. CASE written
  <2>1. /\ Free(l.job.key, l.id)
        /\ \/ row[l.id] = l.base /\ row' = [row EXCEPT ![l.id] = JobToWrite(l)]
           \/ row[l.id] = JobToWrite(l) /\ UNCHANGED row
    BY <1>3, <1>7 DEF Still, Projection
  <2>2. /\ claim' = [k \in Keys |-> IF k = l.job.key /\ claim[k] = "none" THEN l.id ELSE claim[k]]
        /\ occ' = [occ EXCEPT ![l.source] = [l.occurrence EXCEPT !.ref = RefToWrite(l)]]
        /\ outbox' = IF l.event /\ Alertable(ProjectedJob(l)) THEN outbox \cup {l.id} ELSE outbox
    BY <1>3, <1>7
  <2> QED BY <1>1, <1>2, <1>3, <1>4, <2>1, <2>2
<1> QED BY <1>6, <1>7

\* The job read is written with reference ref instead of one of its references.
Admits(l, job, ref) ==
  /\ ref.known = l.base.refs[l.source].known /\ ref.key = l.base.refs[l.source].key
  /\ ref.at = l.now
  /\ job.exists = l.base.exists /\ job.key = l.base.key
  /\ \A x \in Sources : job.refs[x] = IF x = l.source THEN ref ELSE l.base.refs[x]
  /\ row' = [row EXCEPT ![l.id] = job]
  /\ \/ UNCHANGED occ
     \/ occ' = [occ EXCEPT ![l.source] = [occ[l.source] EXCEPT !.ref = ref]]
  /\ outbox \subseteq outbox'
  /\ job.pending => l.base.pending \/ l.id \in outbox'

\* The verifier writes the job it read, with a new admission of one reference, or nothing.
LEMMA AdmitShape ==
  ASSUME TypeInv, NEW r \in Runs, NEW verdict \in Judgements, Admit(r, verdict), NEW l, l = local[r]
  PROVE  /\ pc[r] = "admit" /\ End(r) /\ UNCHANGED <<claim, clock>>
         /\ \/ UNCHANGED <<row, occ, outbox>>
            \/ \E job \in Row, ref \in Ref : Admits(l, job, ref)
<1> DEFINE s == l.source
           ref == [l.base.refs[s] EXCEPT !.verdict = verdict, !.at = l.now]
           refs == [l.base.refs EXCEPT ![s] = ref]
           gone == verdict = "gone"
           reopens == l.base.dead /\ verdict = "eligible" /\ AnyOpen(refs)
                        /\ Admission(refs) = "eligible"
           late == l.base.open
                     /\ Promoted(s, l.base.refs[s].verdict, ref, [l.base EXCEPT !.refs = refs])
           open == ~gone /\ (l.base.open \/ reopens)
           dead == gone \/ (l.base.dead /\ ~reopens)
           pending == ~gone /\ (l.base.pending \/ late)
           job == [l.base EXCEPT !.refs = refs, !.open = open, !.dead = dead, !.pending = pending]
<1>0. /\ l \in Local /\ s \in Sources /\ l.id \in Jobs /\ l.base \in Row /\ l.now \in Time
      /\ l.base.refs \in [Sources -> Ref] /\ l.base.refs[s] \in Ref
      /\ l.base.open \in BOOLEAN /\ l.base.dead \in BOOLEAN /\ l.base.pending \in BOOLEAN
  BY DEF TypeInv, TypeOK, Local, Row
<1>1. /\ ref \in Ref /\ ref.known = l.base.refs[s].known /\ ref.key = l.base.refs[s].key
      /\ ref.at = l.now
  BY <1>0, CommitAssumption DEF CommitAssumption, Ref
<1>2. pc[r] = "admit" /\ End(r) /\ UNCHANGED <<claim, clock>>
  BY DEF Admit
<1>3. \/ UNCHANGED <<row, occ, outbox>>
      \/ /\ row' = [row EXCEPT ![l.id] = job]
         /\ UNCHANGED occ \/ occ' = [occ EXCEPT ![s].ref = ref]
         /\ outbox' = IF late THEN outbox \cup {l.id} ELSE outbox
  <2>1. job = [l.base EXCEPT !.refs = refs, !.open = ~gone /\ (@ \/ reopens),
                             !.dead = gone \/ (@ /\ ~reopens), !.pending = ~gone /\ (@ \/ late)]
    OBVIOUS
  <2>2. row' = row \/ row' = [row EXCEPT ![l.id] = job]
    BY <2>1 DEF Admit
  <2> QED BY <2>1 DEF Admit
<1>4. pending => l.base.pending \/ late
  OBVIOUS
<1> HIDE DEF ref
<1>5. refs \in [Sources -> Ref] /\ \A x \in Sources : refs[x] = IF x = s THEN ref ELSE l.base.refs[x]
  BY <1>0, <1>1
<1> HIDE DEF refs, open, dead, pending
<1>6. /\ job.exists = l.base.exists /\ job.key = l.base.key /\ job.refs = refs /\ job.pending = pending
  BY <1>0 DEF Row
<1>7. job \in Row
  <2>1. open \in BOOLEAN /\ dead \in BOOLEAN /\ pending \in BOOLEAN
    BY <1>0 DEF open, dead, pending
  <2> QED BY <1>0, <1>5, <2>1 DEF Row
<1>8. [occ EXCEPT ![s].ref = ref] = [occ EXCEPT ![s] = [occ[s] EXCEPT !.ref = ref]]
  OBVIOUS
<1> HIDE DEF job, late
<1>9. ASSUME ~UNCHANGED <<row, occ, outbox>> PROVE Admits(l, job, ref)
  BY <1>1, <1>3, <1>4, <1>5, <1>6, <1>8, <1>9 DEF Admits
<1> QED BY <1>1, <1>2, <1>7, <1>9

-----------------------------------------------------------------------------
(* A marked job has its event *)

\* What a run at a place knows of the stores: nothing it holds is from the future;
\* the job it works on is stored, or is about to be; and a marker in its copies
\* has its event, or gets it in the transaction that writes the marker.
PendAt(label, l) ==
  /\ l.now <= clock /\ l.prior.ref.at <= clock
  /\ l.occurrence.ref.at <= clock /\ l.baseOcc.ref.at <= clock
  /\ label \in {"resolve", "absent"} /\ l.prior.exists => row[l.prior.job].exists
  /\ label \in {"read", "batch", "put"} => l.job.exists
  /\ label \in {"read", "batch", "put"} /\ l.job.pending => l.id \in outbox \/ (l.event /\ label # "put")
  /\ label \in {"read", "batch"} => l.occurrence.job = l.id
  /\ label = "putOccurrence" => row[l.occurrence.job].exists
  /\ label \in {"batch", "inspect", "admit"} /\ l.base.pending => l.id \in outbox
  /\ label \in {"inspect", "admit"} => l.base.exists
  /\ label = "mark" => row[l.id].exists

\* The inductive invariant: rows are stored or blank, an occurrence names a stored
\* job, and neither rows nor runs hold a marker without an event.
PendStores ==
  /\ \A j \in Jobs : row[j].pending => j \in outbox
  /\ \A j \in Jobs : row[j].exists \/ row[j] = NoRow
  /\ \A s \in Sources : occ[s].ref.at <= clock /\ (occ[s].exists => row[occ[s].job].exists)
PendInv == PendStores /\ \A r \in Runs : PendAt(pc[r], local[r])

\* What every step does to the stores, as far as another run can tell.
Grows ==
  /\ clock <= clock' /\ outbox \subseteq outbox'
  /\ \A j \in Jobs : row[j].exists => row'[j].exists

\* Stores that only grow keep what a run knows of them.
LEMMA PendMonotone ==
  ASSUME TypeInv, TypeInv', Grows, NEW label, NEW l \in Local, PendAt(label, l)
  PROVE  PendAt(label, l)'
<1>1. /\ l.now \in Nat /\ l.prior.ref.at \in Nat /\ l.occurrence.ref.at \in Nat /\ l.baseOcc.ref.at \in Nat
      /\ l.prior.job \in Jobs /\ l.occurrence.job \in Jobs /\ l.id \in Jobs
  BY CommitAssumption DEF CommitAssumption, Local, Occurrence, Ref, Time
<1>2. clock \in Nat /\ clock' \in Nat
  BY CommitAssumption DEF CommitAssumption, TypeInv, TypeOK, Time
<1> QED BY <1>1, <1>2 DEF Grows, PendAt

\* A step of one run keeps the invariant if it keeps the part about the stores
\* and the run still knows what it has to know where it goes.
LEMMA PendStep ==
  ASSUME TypeInv, TypeInv', PendInv, Grows, PendStores',
         NEW r \in Runs, NEW label, NEW l,
         pc' = [pc EXCEPT ![r] = label], local' = [local EXCEPT ![r] = l], PendAt(label, l)'
  PROVE  PendInv'
<1>1. ASSUME NEW q \in Runs PROVE PendAt(pc[q], local[q])'
  <2>1. CASE q = r
    <3>1. pc'[q] = label /\ local'[q] = l
      BY <2>1 DEF TypeInv, TypeOK
    <3> QED BY <3>1 DEF PendAt
  <2>2. CASE q # r
    <3>1. pc'[q] = pc[q] /\ local'[q] = local[q] /\ local[q] \in Local
      BY <2>2 DEF TypeInv, TypeOK
    <3>2. ASSUME NEW c, NEW m, c = pc[q], m = local[q] PROVE PendAt(pc[q], local[q])'
      <4>1. PendAt(c, m)
        BY <3>2 DEF PendInv
      <4>2. PendAt(c, m)'
        BY <3>1, <3>2, <4>1, PendMonotone
      <4> QED BY <3>1, <3>2, <4>2 DEF PendAt
    <3> QED BY <3>2
  <2> QED BY <2>1, <2>2
<1> QED BY <1>1 DEF PendInv

\* A run that ends, or that looks at nothing new, is one of these steps.
LEMMA PendEnds ==
  ASSUME TypeInv, TypeInv', PendInv, Grows, PendStores', NEW r \in Runs, End(r)
  PROVE  PendInv'
<1>1. PendAt("idle", NoLocal)'
  <2>1. clock' \in Nat
    BY CommitAssumption DEF CommitAssumption, TypeInv, TypeOK, Time
  <2> QED BY <2>1 DEF PendAt, NoLocal, NoOccurrence, NoRef
<1> QED BY <1>1, PendStep DEF End, Goto

\* The stores do not change.
LEMMA PendQuiet ==
  ASSUME TypeInv, PendInv, UNCHANGED <<row, occ, outbox>>, clock' \in {clock, clock + 1}
  PROVE  Grows /\ PendStores'
<1>1. clock \in Nat /\ \A s \in Sources : occ[s].ref.at \in Nat
  BY CommitAssumption DEF CommitAssumption, TypeInv, TypeOK, Occurrence, Ref, Time
<1> QED BY <1>1 DEF Grows, PendInv, PendStores

\* A poll keeps it while it reads: what it plans to mark is announced, and what it
\* writes without an announcement is a listing that has not changed, which was not
\* late to become eligible.
LEMMA PendPlans ==
  ASSUME TypeInv, TypeInv', PendInv, NEW r \in Runs, NEW key \in Keys \cup {"none"},
         NEW verdict \in Verdict, NEW j \in Jobs \cup {"none"}, PollResolve(r, key, verdict, j)
  PROVE  PendInv'
<1>a. /\ pc[r] = "resolve" /\ j \in Candidates(local[r].source, local[r].prior)
      /\ UNCHANGED <<claim, row, occ, outbox>>
  BY ResolveShape
<1>b. clock \in Nat /\ row \in [Jobs -> Row] /\ local[r] \in Local
  BY CommitAssumption DEF CommitAssumption, TypeInv, TypeOK, Time
<1>0. PendAt("resolve", local[r])
  BY <1>a DEF PendInv
<1>1. clock' \in {clock, clock + 1} => Grows /\ PendStores'
  BY <1>a, PendQuiet
<1>2. ASSUME GivesUp(r), NEW l, l = [local[r] EXCEPT !.sight = "filtered"] PROVE PendInv'
  <2>1. /\ l.now = local[r].now /\ l.prior = local[r].prior /\ l.occurrence = local[r].occurrence
        /\ l.baseOcc = local[r].baseOcc
    BY <1>b, <1>2 DEF Local
  <2>2. PendAt("absent", l)'
    BY <1>0, <1>a, <1>2, <2>1 DEF PendAt, GivesUp
  <2> QED BY <1>1, <1>2, <2>2, PendStep DEF GivesUp
<1>3. ASSUME NEW target \in Jobs, NEW ref \in Ref, NEW stored \in Row, NEW l \in Local,
             Plans(r, key, verdict, j, target, ref, stored, l)
      PROVE  PendInv'
  <2> USE <1>3 DEF Plans
  <2>1. l.source \in Sources /\ l.prior \in Occurrence /\ l.prior.ref \in Ref /\ l.baseOcc.ref.at \in Nat
        /\ l.prior.ref.at \in Nat /\ l.prior.job \in Jobs
    BY CommitAssumption DEF CommitAssumption, Local, Occurrence, Ref, Time
  <2>2. /\ l.job.exists
        /\ l.job.pending => l.event \/ (stored.exists /\ stored.pending)
        /\ l.event => \/ ~stored.exists \/ ~l.prior.exists
                      \/ ref.verdict = "eligible" /\ l.prior.ref.verdict # "eligible"
    BY <2>1, ListedFacts
  <2>3. stored.exists /\ stored.pending => target \in outbox
    BY <1>b DEF CopyOf, NoRow, PendInv, PendStores
  <2>4. l.occurrence.ref.at \in 0..clock'
    BY <1>0, <1>b, <2>1, MergeRefFacts DEF PendAt
  <2>5. PendAt("read", l)'
    BY <1>0, <2>1, <2>2, <2>3, <2>4, <1>a, <1>b DEF PendAt
  <2>6. ASSUME l.occurrence = l.prior PROVE PendAt("put", l)'
    <3>1. l.prior.exists /\ l.prior.job = target /\ row[target].exists
      BY <1>0, <2>6 DEF PendAt
    <3>2. j = target
      BY <1>a, <3>1 DEF Candidates
    <3>3. stored = row[target]
      BY <3>2, CommitAssumption DEF CommitAssumption, CopyOf
    <3>4. ~(ref.verdict = "eligible" /\ l.prior.ref.verdict # "eligible")
      <4> SUFFICES ASSUME ref.verdict = "eligible", l.prior.ref.verdict # "eligible" PROVE FALSE
        OBVIOUS
      <4>1. ref.at = clock + 1 /\ l.prior.ref.at <= clock
        BY <1>0 DEF PendAt
      <4>2. MergeRef(l.prior.ref, ref) = ref
        BY <1>b, <2>1, <4>1 DEF MergeRef
      <4> QED BY <2>6, <4>2
    <3>5. ~l.event
      BY <2>2, <3>1, <3>3, <3>4
    <3> QED BY <1>0, <2>1, <2>2, <2>3, <2>4, <3>5, <1>a, <1>b DEF PendAt
  <2>7. Grows /\ PendStores'
    BY <1>1
  <2>8. CASE pc' = [pc EXCEPT ![r] = "put"] /\ l.occurrence = l.prior
    BY <2>6, <2>7, <2>8, PendStep
  <2>9. CASE pc' = [pc EXCEPT ![r] = "read"]
    BY <2>5, <2>7, <2>9, PendStep
  <2> QED BY <2>8, <2>9
<1>4. ASSUME GivesUp(r) PROVE PendInv'
  BY <1>2, <1>4
<1> QED BY <1>3, <1>4, ResolveShape

\* A poll that starts, misses its listing, writes an occurrence or reads the job of
\* its commit keeps it.
LEMMA PendReads ==
  ASSUME TypeInv, TypeInv', PendInv, NEW r \in Runs,
         \/ \E s \in Sources, sight \in Sights : PollStart(r, s, sight)
         \/ PollAbsent(r) \/ PutOccurrence(r) \/ CommitRead(r) \/ CommitVerify(r) \/ Crash(r)
  PROVE  PendInv'
<1>b. clock \in Nat /\ row \in [Jobs -> Row] /\ occ \in [Sources -> Occurrence] /\ local[r] \in Local
  BY CommitAssumption DEF CommitAssumption, TypeInv, TypeOK, Time
<1>0. PendAt(pc[r], local[r]) /\ PendStores
  BY DEF PendInv
<1>1. ASSUME NEW s \in Sources, NEW sight \in Sights, PollStart(r, s, sight) PROVE PendInv'
  <2>1. ASSUME NEW l, l = [NoLocal EXCEPT !.source = s, !.sight = sight, !.prior = occ[s]],
               NEW label, label = IF sight \in {"open", "closed"} THEN "resolve" ELSE "absent"
        PROVE  PendInv'
    <3>1. /\ UNCHANGED stores /\ pc' = [pc EXCEPT ![r] = label] /\ local' = [local EXCEPT ![r] = l]
      BY <1>1, <2>1 DEF PollStart, Goto
    <3>2. /\ l.prior = occ[s] /\ l.now = 0 /\ l.occurrence.ref.at = 0 /\ l.baseOcc.ref.at = 0
          /\ label \in {"resolve", "absent"}
      BY <2>1 DEF NoLocal, NoOccurrence, NoRef
    <3>3. PendAt(label, l)'
      BY <1>0, <1>b, <3>1, <3>2 DEF PendAt, PendStores, stores
    <3>4. Grows /\ PendStores'
      BY <3>1, PendQuiet DEF stores
    <3> QED BY <3>1, <3>3, <3>4, PendStep
  <2> QED BY <2>1
<1>2. CASE PollAbsent(r)
  <2>1. Grows /\ PendStores' /\ UNCHANGED <<row, outbox>>
    BY <1>2, AbsentShape, PendQuiet
  <2>2. CASE End(r)
    BY <2>1, <2>2, PendEnds
  <2>3. ASSUME NEW l \in Local, Misses(r, l) PROVE PendInv'
    <3> USE <2>3 DEF Misses
    <3>1. pc[r] = "absent" /\ clock' \in Nat
      BY <1>2, CommitAssumption DEF PollAbsent, CommitAssumption, TypeInv, TypeOK, Time
    <3>2. /\ l.now <= clock' /\ l.prior.ref.at <= clock' /\ l.occurrence.ref.at <= clock'
          /\ l.baseOcc.ref.at <= clock' /\ row'[l.occurrence.job].exists
      <4>1. l.prior.ref.at \in Nat /\ l.baseOcc.ref.at \in Nat
        BY CommitAssumption DEF CommitAssumption, Local, Occurrence, Ref, Time
      <4> QED BY <1>0, <1>b, <2>1, <2>3, <3>1, <4>1 DEF PendAt, Grows
    <3>3. CASE /\ pc' = [pc EXCEPT ![r] = "read"] /\ row[l.id].exists
               /\ l.job = Closed(row[l.id], l.source, clock') /\ clock' \in Time
      <4>1. l.job.exists /\ (l.job.pending => l.id \in outbox)
        <5>1. row[l.id] \in Row /\ l.source \in Sources /\ l.id \in Jobs
          BY <1>b DEF Local
        <5>2. \A now \in Time : LET closed == Closed(row[l.id], l.source, now)
                              IN closed.exists = row[l.id].exists /\ closed.pending = row[l.id].pending
          BY <5>1, ClosedFacts
        <5> QED BY <1>0, <3>3, <5>1, <5>2 DEF PendStores
      <4>2. PendAt("read", l)'
        BY <2>1, <2>3, <3>2, <4>1 DEF PendAt
      <4> QED BY <2>1, <2>3, <3>3, <4>2, PendStep
    <3>4. CASE pc' = [pc EXCEPT ![r] = "putOccurrence"] /\ l.job = NoRow
      <4>1. PendAt("putOccurrence", l)'
        BY <3>2 DEF PendAt
      <4> QED BY <2>1, <2>3, <3>4, <4>1, PendStep
    <3> QED BY <2>3, <3>3, <3>4
  <2> QED BY <1>2, <2>2, <2>3, AbsentShape
<1>3. CASE PutOccurrence(r)
  <2>1. /\ pc[r] = "putOccurrence" /\ End(r) /\ UNCHANGED <<row, outbox, clock>>
        /\ occ' = [occ EXCEPT ![local[r].source] = local[r].occurrence]
    BY <1>3 DEF PutOccurrence
  <2>2. row[local[r].occurrence.job].exists /\ local[r].occurrence.ref.at <= clock
    BY <1>0, <2>1 DEF PendAt
  <2>3. Grows /\ PendStores'
    BY <1>0, <1>b, <2>1, <2>2 DEF Grows, PendStores
  <2> QED BY <2>1, <2>3, PendEnds
<1>4. CASE CommitRead(r)
  <2>1. Grows /\ PendStores' /\ UNCHANGED <<claim, row, occ, outbox, clock>> /\ pc[r] = "read"
    <3>1. UNCHANGED <<claim, row, occ, outbox, clock>> /\ pc[r] = "read"
      BY <1>4 DEF CommitRead
    <3> QED BY <1>b, <3>1, PendQuiet
  <2>2. CASE End(r)
    BY <2>1, <2>2, PendEnds
  <2>3. ASSUME NEW l \in Local, l.source = local[r].source, l.prior = local[r].prior, l.id = local[r].id,
               l.now = local[r].now, l.job = local[r].job, l.event = local[r].event,
               l.occurrence = local[r].occurrence, l.base = row[l.id], l.baseOcc = occ[l.source],
               local' = [local EXCEPT ![r] = l], pc' = [pc EXCEPT ![r] = "batch"]
        PROVE  PendInv'
    <3>1. l.source \in Sources /\ l.id \in Jobs
      BY DEF Local
    <3>2. PendAt("batch", l)'
      BY <1>0, <2>1, <2>3, <3>1 DEF PendAt, PendStores
    <3> QED BY <2>1, <2>3, <3>2, PendStep
  <2> QED BY <1>4, <2>2, <2>3, ReadShape
<1>5. CASE CommitVerify(r) \/ Crash(r)
  <2>1. End(r) /\ UNCHANGED <<row, occ, outbox, clock>>
    BY <1>5 DEF CommitVerify, Crash, stores
  <2> QED BY <1>b, <2>1, PendQuiet, PendEnds
<1> QED BY <1>1, <1>2, <1>3, <1>4, <1>5

\* The transaction of a commit keeps it: it marks the row only with the event.
LEMMA PendCommits == ASSUME TypeInv, TypeInv', PendInv, NEW r \in Runs, Batch(r) PROVE PendInv'
<1> SUFFICES ASSUME NEW l, l = local[r] PROVE PendInv'
  OBVIOUS
<1>b. /\ clock \in Nat /\ row \in [Jobs -> Row] /\ occ \in [Sources -> Occurrence] /\ l \in Local
      /\ l.id \in Jobs /\ l.source \in Sources /\ l.base \in Row /\ l.job \in Row
      /\ l.event \in BOOLEAN /\ l.occurrence \in Occurrence /\ l.occurrence.ref \in Ref
      /\ l.baseOcc.ref \in Ref
  BY CommitAssumption DEF CommitAssumption, TypeInv, TypeOK, Time, Local, Occurrence
<1>a. /\ pc[r] = "batch" /\ UNCHANGED clock
      /\ RefToWrite(l) \in Ref /\ ProjectedJob(l) \in Row /\ JobToWrite(l) \in Row
  BY BatchShape
<1>0. PendAt("batch", l) /\ PendStores
  BY <1>a DEF PendInv
<1>1. RefToWrite(l).at <= clock
  BY <1>0, <1>b, MergeRefFacts DEF PendAt, RefToWrite
<1>2. /\ JobToWrite(l).exists
      /\ JobToWrite(l).pending => l.id \in outbox \/ (l.event /\ Alertable(ProjectedJob(l)))
  <2>1. /\ JobToWrite(l).exists = l.job.exists
        /\ JobToWrite(l).pending => \/ l.base.pending
                                    \/ l.job.pending /\ (l.event => Alertable(ProjectedJob(l)))
    BY <1>a, <1>b, CanonicalFacts, SMTT(40) DEF JobToWrite, ProjectedJob
  <2> QED BY <1>0, <2>1 DEF PendAt
<1>3. Grows /\ PendStores'
  <2>1. CASE UNCHANGED <<claim, row, occ, outbox>>
    BY <1>a, <1>b, <2>1, PendQuiet
  <2>2. CASE /\ \/ row[l.id] = l.base /\ row' = [row EXCEPT ![l.id] = JobToWrite(l)]
                \/ row[l.id] = JobToWrite(l) /\ UNCHANGED row
             /\ occ' = [occ EXCEPT ![l.source] = [l.occurrence EXCEPT !.ref = RefToWrite(l)]]
             /\ outbox' = IF l.event /\ Alertable(ProjectedJob(l)) THEN outbox \cup {l.id} ELSE outbox
    <3>1. \A j \in Jobs : row'[j] = IF j = l.id THEN JobToWrite(l) ELSE row[j]
      BY <1>b, <2>2
    <3>2. Grows
      BY <1>2, <1>a, <1>b, <2>2, <3>1 DEF Grows
    <3>3. (\A j \in Jobs : row'[j].pending => j \in outbox') /\ (\A j \in Jobs : row'[j].exists \/ row'[j] = NoRow)
      BY <1>0, <1>2, <2>2, <3>1 DEF PendStores
    <3>4. \A s \in Sources : occ'[s] = IF s = l.source THEN [l.occurrence EXCEPT !.ref = RefToWrite(l)] ELSE occ[s]
      BY <1>b, <2>2
    <3>5. /\ [l.occurrence EXCEPT !.ref = RefToWrite(l)].job = l.id
          /\ [l.occurrence EXCEPT !.ref = RefToWrite(l)].ref = RefToWrite(l)
      BY <1>0, <1>b DEF PendAt, Occurrence
    <3>6. \A s \in Sources : occ[s].exists => row'[occ[s].job].exists
      BY <1>0, <1>b, <3>2 DEF PendStores, Grows, Occurrence
    <3> HIDE <2>2
    <3>7. \A s \in Sources : occ'[s].ref.at <= clock' /\ (occ'[s].exists => row'[occ'[s].job].exists)
      <4>1. ASSUME NEW s \in Sources, s # l.source
            PROVE  occ'[s].ref.at <= clock' /\ (occ'[s].exists => row'[occ'[s].job].exists)
        BY <1>0, <1>a, <3>4, <3>6, <4>1 DEF PendStores
      <4>2. occ'[l.source].ref.at <= clock' /\ row'[occ'[l.source].job].exists
        <5>1. occ'[l.source].job = l.id /\ occ'[l.source].ref = RefToWrite(l)
          BY <1>b, <3>4, <3>5
        <5>2. row'[l.id] = JobToWrite(l)
          BY <1>b, <3>1
        <5> QED BY <1>1, <1>2, <1>a, <5>1, <5>2
      <4> QED BY <4>1, <4>2
    <3> QED BY <3>2, <3>3, <3>7 DEF PendStores
  <2> QED BY <2>1, <2>2, BatchShape
<1>4. CASE End(r)
  BY <1>3, <1>4, PendEnds
<1>5. CASE pc' = [pc EXCEPT ![r] = "read"] /\ UNCHANGED local
  <2>1. local' = [local EXCEPT ![r] = l]
    BY <1>5 DEF TypeInv, TypeOK
  <2>2. PendAt("batch", l)'
    BY <1>0, <1>3, <1>b, PendMonotone
  <2>3. PendAt("read", l)'
    BY <2>2 DEF PendAt
  <2> QED BY <1>3, <1>5, <2>1, <2>3, PendStep
<1>6. ASSUME pc' = [pc EXCEPT ![r] = "verify"], NEW inserted \in BOOLEAN,
             NEW m, m = [l EXCEPT !.inserted = inserted], local' = [local EXCEPT ![r] = m]
      PROVE  PendInv'
  <2>1. /\ m.now = l.now /\ m.prior = l.prior /\ m.occurrence = l.occurrence /\ m.baseOcc = l.baseOcc
    BY <1>6, <1>b DEF Local
  <2>2. PendAt("batch", l)'
    BY <1>0, <1>3, <1>b, PendMonotone
  <2>3. PendAt("verify", m)'
    BY <2>1, <2>2 DEF PendAt
  <2> QED BY <1>3, <1>6, <2>3, PendStep
<1>7. ASSUME pc' = [pc EXCEPT ![r] = "verify"],
             \E inserted \in BOOLEAN : local' = [local EXCEPT ![r] = [l EXCEPT !.inserted = inserted]]
      PROVE  PendInv'
  BY <1>6, <1>7
<1> QED BY <1>4, <1>5, <1>7, BatchShape

\* The verifier, the drain and putInternship keep it: they write copies of stored
\* rows, and a marker of their own only with the event.
LEMMA PendWrites ==
  ASSUME TypeInv, TypeInv', PendInv, NEW r \in Runs, Verify(r) \/ Mark(r) \/ PutJob(r)
  PROVE  PendInv'
<1> SUFFICES ASSUME NEW l, l = local[r] PROVE PendInv'
  OBVIOUS
<1>b. /\ clock \in Nat /\ row \in [Jobs -> Row] /\ occ \in [Sources -> Occurrence] /\ l \in Local
      /\ l.id \in Jobs /\ l.source \in Sources /\ l.base \in Row /\ l.job \in Row
  BY CommitAssumption DEF CommitAssumption, TypeInv, TypeOK, Time, Local
<1>0. PendAt(pc[r], l) /\ PendStores
  BY DEF PendInv
<1>1. ASSUME NEW j \in Jobs, NEW s \in Sources, VerifyRead(r, j, s) PROVE PendInv'
  <2>1. Grows /\ PendStores' /\ UNCHANGED <<row, occ, outbox>>
    BY <1>1, PendQuiet DEF VerifyRead
  <2>2. ASSUME NEW m, m = [NoLocal EXCEPT !.source = s, !.now = clock', !.id = j, !.base = row[j]]
        PROVE  PendInv'
    <3>1. /\ m.now = clock' /\ m.prior.ref.at = 0 /\ m.occurrence.ref.at = 0 /\ m.baseOcc.ref.at = 0
          /\ m.base = row[j] /\ m.id = j
      BY <2>2 DEF NoLocal, NoOccurrence, NoRef
    <3>2. row[j].exists
      BY <1>0, <1>1 DEF PendStores, VerifyRead, NoRow, NoRef
    <3>3. clock' \in Nat
      BY <1>1, <1>b DEF VerifyRead
    <3>4. PendAt("inspect", m)'
      BY <1>0, <2>1, <3>1, <3>2, <3>3 DEF PendAt, PendStores
    <3>5. pc' = [pc EXCEPT ![r] = "inspect"] /\ local' = [local EXCEPT ![r] = m]
      BY <1>1, <2>2 DEF VerifyRead, Goto
    <3> QED BY <2>1, <3>4, <3>5, PendStep
  <2> QED BY <2>2
<1>2. CASE VerifyOccurrence(r)
  <2>1. Grows /\ PendStores' /\ UNCHANGED <<row, occ, outbox, clock>> /\ pc[r] = "inspect"
    BY <1>2, PendQuiet DEF VerifyOccurrence, stores
  <2>2. ASSUME NEW m, m = [l EXCEPT !.baseOcc = occ[l.source]] PROVE PendInv'
    <3>1. /\ m.now = l.now /\ m.prior = l.prior /\ m.occurrence = l.occurrence /\ m.base = l.base
          /\ m.id = l.id /\ m.baseOcc = occ[l.source]
      BY <1>b, <2>2 DEF Local
    <3>2. PendAt("admit", m)'
      BY <1>0, <1>b, <2>1, <3>1 DEF PendAt, PendStores
    <3>3. pc' = [pc EXCEPT ![r] = "admit"] /\ local' = [local EXCEPT ![r] = m]
      BY <1>2, <2>2 DEF VerifyOccurrence, Goto
    <3> QED BY <2>1, <3>2, <3>3, PendStep
  <2> QED BY <2>2
<1>3. ASSUME NEW verdict \in Judgements, Admit(r, verdict) PROVE PendInv'
  <2>1. pc[r] = "admit" /\ End(r) /\ UNCHANGED clock
    BY <1>3, AdmitShape
  <2>2. CASE UNCHANGED <<row, occ, outbox>>
    BY <1>b, <2>1, <2>2, PendQuiet, PendEnds
  <2>3. ASSUME NEW job \in Row, NEW ref \in Ref, Admits(l, job, ref) PROVE PendInv'
    <3> USE <2>3 DEF Admits
    <3>1. \A j \in Jobs : row'[j] = IF j = l.id THEN job ELSE row[j]
      BY <1>b, <2>3
    <3>2. job.exists /\ (job.pending => l.id \in outbox') /\ ref.at <= clock
      BY <1>0, <2>1, <2>3 DEF PendAt
    <3>3. \A s \in Sources : /\ occ'[s].job = occ[s].job /\ occ'[s].exists = occ[s].exists
                             /\ occ'[s].ref.at = occ[s].ref.at \/ occ'[s].ref.at <= clock
      BY <1>b, <2>3, <3>2 DEF Occurrence
    <3>4. Grows
      BY <1>b, <2>1, <2>3, <3>1, <3>2 DEF Grows
    <3>5. PendStores'
      <4>1. \A s \in Sources : occ[s].exists => row'[occ[s].job].exists
        BY <1>0, <1>b, <3>4 DEF PendStores, Grows, Occurrence
      <4>2. \A s \in Sources : occ'[s].ref.at <= clock' /\ (occ'[s].exists => row'[occ'[s].job].exists)
        BY <1>0, <2>1, <3>3, <4>1 DEF PendStores
      <4>3. (\A j \in Jobs : row'[j].pending => j \in outbox') /\ (\A j \in Jobs : row'[j].exists \/ row'[j] = NoRow)
        BY <1>0, <2>3, <3>1, <3>2, ZenonT(60) DEF PendStores
      <4> QED BY <4>2, <4>3 DEF PendStores
    <3> QED BY <2>1, <3>4, <3>5, PendEnds
  <2> QED BY <1>3, <2>2, <2>3, AdmitShape
<1>4. ASSUME NEW j \in Jobs, DrainRead(r, j) PROVE PendInv'
  <2>1. Grows /\ PendStores' /\ UNCHANGED <<row, occ, outbox, clock>>
    BY <1>4, PendQuiet DEF DrainRead, stores
  <2>2. ASSUME NEW m, m = [NoLocal EXCEPT !.id = j] PROVE PendInv'
    <3>1. m.now = 0 /\ m.prior.ref.at = 0 /\ m.occurrence.ref.at = 0 /\ m.baseOcc.ref.at = 0 /\ m.id = j
      BY <2>2 DEF NoLocal, NoOccurrence, NoRef
    <3>2. row[j].exists
      BY <1>0, <1>4 DEF PendStores, DrainRead, NoRow
    <3>3. PendAt("mark", m)'
      BY <1>b, <2>1, <3>1, <3>2 DEF PendAt
    <3>4. pc' = [pc EXCEPT ![r] = "mark"] /\ local' = [local EXCEPT ![r] = m]
      BY <1>4, <2>2 DEF DrainRead, Goto
    <3> QED BY <2>1, <3>3, <3>4, PendStep
  <2> QED BY <2>2
<1>5. CASE MarkRead(r)
  <2>1. Grows /\ PendStores' /\ UNCHANGED <<row, occ, outbox, clock>> /\ pc[r] = "mark"
    BY <1>5, PendQuiet DEF MarkRead, stores
  <2>2. ASSUME NEW job, job = [row[l.id] EXCEPT !.pending = FALSE, !.sent = TRUE],
               NEW m, m = [l EXCEPT !.job = job]
        PROVE  PendInv'
    <3>1. m.now = l.now /\ m.prior = l.prior /\ m.occurrence = l.occurrence /\ m.baseOcc = l.baseOcc /\ m.job = job
      BY <1>b, <2>2 DEF Local
    <3>2. job.exists /\ ~job.pending
      BY <1>0, <1>b, <2>1, <2>2 DEF PendAt, Row
    <3>3. PendAt("put", m)'
      BY <1>0, <2>1, <3>1, <3>2 DEF PendAt
    <3>4. pc' = [pc EXCEPT ![r] = "put"] /\ local' = [local EXCEPT ![r] = m]
      BY <1>5, <2>2 DEF MarkRead, Goto
    <3> QED BY <2>1, <3>3, <3>4, PendStep
  <2> QED BY <2>2
<1>6. CASE PutJob(r)
  <2>1. /\ pc[r] = "put" /\ End(r) /\ UNCHANGED <<occ, outbox, clock>>
        /\ row' = [row EXCEPT ![l.id] = l.job]
    BY <1>6 DEF PutJob
  <2>2. l.job.exists /\ (l.job.pending => l.id \in outbox)
    BY <1>0, <2>1 DEF PendAt
  <2>3. Grows /\ PendStores'
    BY <1>0, <1>b, <2>1, <2>2 DEF Grows, PendStores, Occurrence
  <2> QED BY <2>1, <2>3, PendEnds
<1> QED BY <1>1, <1>2, <1>3, <1>4, <1>5, <1>6 DEF Verify, Mark

\* Whatever runs, a pending job has its event, in the rows and in every copy and plan.
THEOREM PendInvariant == Spec => []PendInv
<1>1. Init => PendInv
  <2> SUFFICES ASSUME Init PROVE PendInv
    OBVIOUS
  <2>1. /\ \A j \in Jobs : row[j] = NoRow
        /\ \A s \in Sources : occ[s] = NoOccurrence
        /\ \A r \in Runs : pc[r] = "idle" /\ local[r] = NoLocal
        /\ clock = 0
    BY DEF Init
  <2>2. ~NoRow.pending /\ ~NoOccurrence.exists /\ NoOccurrence.ref.at = 0
    BY DEF NoRow, NoOccurrence, NoRef
  <2>3. PendAt("idle", NoLocal)
    BY <2>1, <2>2 DEF PendAt, NoLocal
  <2>4. PendStores
    BY <2>1, <2>2 DEF PendStores
  <2> QED BY <2>1, <2>3, <2>4 DEF PendInv
<1>2. TypeInv /\ PendInv /\ [Next]_vars => PendInv'
  <2> SUFFICES ASSUME TypeInv, PendInv, [Next]_vars PROVE PendInv'
    OBVIOUS
  <2>1. TypeInv'
    BY TypeStep
  <2>2. ASSUME NEW r \in Runs, Poll(r) PROVE PendInv'
    BY <2>1, <2>2, PendReads, PendPlans, PendCommits DEF Poll
  <2>3. ASSUME NEW r \in Runs, Verify(r) \/ Mark(r) \/ PutJob(r) \/ Crash(r) PROVE PendInv'
    BY <2>1, <2>3, PendReads, PendWrites
  <2>4. CASE UNCHANGED vars
    BY <2>4 DEF vars, stores, PendInv, PendStores, PendAt
  <2> QED BY <2>2, <2>3, <2>4 DEF Next
<1> QED BY <1>1, <1>2, TypeInvariant, PTL DEF Spec

\* Whatever polls, verifiers and drains do at once, from however old copies, a job is
\* marked for the drain only if the outbox has its event.
THEOREM PendingAnnounced == Spec => []PendingHasEvent
<1>1. PendInv => PendingHasEvent
  BY DEF PendInv, PendStores, PendingHasEvent
<1> QED BY <1>1, PendInvariant, PTL

-----------------------------------------------------------------------------
(* One job per posting *)

Verifiers == \E r \in Runs : Kind[r] = "verify"

\* The key is claimed for the job; where destinations are verified, maybe for another.
Names(key, j) == claim[key] = j \/ (Verifiers /\ claim[key] # "none")

\* The source's listing is at home in the job, or a key it confirms is claimed for it.
Attached(s, j) == j = Own[s] \/ \E k \in KeysSeen[s] \ {"none"} : claim[k] = j

\* The only jobs a key is ever claimed for: its canonical one, and those of the
\* listings that confirm it.
Home(key, j) == j = Canonical[key] \/ \E t \in Sources : Own[t] = j /\ key \in KeysSeen[t]

\* A reference of s that may be in job j once key "adopted" is claimed for the job.
Belongs(ref, s, j, adopted) ==
  ref.known => /\ ref.key \in KeysSeen[s]
               /\ ref.key # "none" => ref.key = adopted \/ Names(ref.key, j)
               /\ Attached(s, j) \/ (adopted # "none" /\ adopted \in KeysSeen[s])
JobBelongs(job, j, adopted) == \A s \in Sources : Belongs(job.refs[s], s, j, adopted)
Owns(job, j) == job.key # "none" => claim[job.key] = j
OccurrenceBelongs(o, s) == o.exists => o.ref.known /\ Belongs(o.ref, s, o.job, "none")

\* What a run at a place holds: an occurrence that belongs where it is, a plan that
\* will once its key is claimed, a job to put that already does.
KeysAt(label, l) ==
  /\ OccurrenceBelongs(l.prior, l.source)
  /\ label \in {"read", "batch"} =>
       /\ l.occurrence.exists /\ l.occurrence.job = l.id /\ l.occurrence.ref.known
       /\ Belongs(l.occurrence.ref, l.source, l.id, l.job.key)
       /\ JobBelongs(l.job, l.id, l.job.key)
       /\ l.job.key # "none" => Home(l.job.key, l.id)
  /\ label = "put" => Owns(l.job, l.id) /\ JobBelongs(l.job, l.id, "none")
  /\ label = "putOccurrence" => OccurrenceBelongs(l.occurrence, l.source)
  /\ label \in {"batch", "inspect", "admit"} => JobBelongs(l.base, l.id, "none")
  /\ label \in {"inspect", "admit"} => Owns(l.base, l.id) /\ Verifiers /\ l.base.refs[l.source].known

\* The inductive invariant: keys are claimed for jobs they are at home in, a row owns
\* the claim of its key, and every reference belongs where it is stored.
KeyStores ==
  /\ \A k \in Keys : claim[k] # "none" => Home(k, claim[k])
  /\ \A j \in Jobs : Owns(row[j], j) /\ JobBelongs(row[j], j, "none")
  /\ \A s \in Sources : OccurrenceBelongs(occ[s], s)
KeyInv == KeyStores /\ \A r \in Runs : KeysAt(pc[r], local[r])

\* A claim is never withdrawn.
ClaimsStay == \A k \in Keys : claim[k] # "none" => claim'[k] = claim[k]

\* What belongs somewhere still does after any step.
LEMMA BelongsStays ==
  ASSUME TypeInv, ClaimsStay, NEW ref \in Ref, NEW s \in Sources, NEW j \in Jobs,
         NEW adopted \in Keys \cup {"none"}, Belongs(ref, s, j, adopted)
  PROVE  Belongs(ref, s, j, adopted)'
<1>1. \A k \in KeysSeen[s] \ {"none"} : k \in Keys
  BY CommitAssumption DEF CommitAssumption
<1>2. "none" \notin Jobs /\ ref.key \in Keys \cup {"none"}
  BY CommitAssumption DEF CommitAssumption, Ref
<1>3. ref.known => /\ ref.key \in KeysSeen[s]
                   /\ ref.key # "none" => ref.key = adopted \/ Names(ref.key, j)'
  BY <1>2 DEF Belongs, Names, ClaimsStay
<1>4. Attached(s, j) => Attached(s, j)'
  BY <1>1, <1>2 DEF Attached, ClaimsStay
<1> QED BY <1>3, <1>4 DEF Belongs

\* And so do a whole job, an occurrence, and what a run holds.
LEMMA JobStays ==
  ASSUME TypeInv, ClaimsStay, NEW job \in Row, NEW j \in Jobs, NEW adopted \in Keys \cup {"none"},
         JobBelongs(job, j, adopted)
  PROVE  JobBelongs(job, j, adopted)'
<1>1. \A s \in Sources : job.refs[s] \in Ref
  BY DEF Row
<1>2. ASSUME NEW s \in Sources, NEW ref, ref = job.refs[s] PROVE Belongs(ref, s, j, adopted)'
  BY <1>1, <1>2, BelongsStays DEF JobBelongs
<1>3. \A s \in Sources : Belongs(job.refs[s], s, j, adopted)'
  BY <1>2
<1> QED BY <1>3 DEF JobBelongs

LEMMA OccurrenceStays ==
  ASSUME TypeInv, ClaimsStay, NEW o \in Occurrence, NEW s \in Sources, OccurrenceBelongs(o, s)
  PROVE  OccurrenceBelongs(o, s)'
<1>1. o.ref \in Ref /\ o.job \in Jobs
  BY DEF Occurrence
<1>2. ASSUME NEW ref, ref = o.ref, NEW j, j = o.job, o.exists PROVE Belongs(ref, s, j, "none")'
  BY <1>1, <1>2, BelongsStays DEF OccurrenceBelongs
<1>3. o.exists => Belongs(o.ref, s, o.job, "none")'
  BY <1>2
<1> QED BY <1>3 DEF OccurrenceBelongs

LEMMA KeysStay ==
  ASSUME TypeInv, ClaimsStay, NEW label, NEW l \in Local, KeysAt(label, l)
  PROVE  KeysAt(label, l)'
<1>1. /\ l.source \in Sources /\ l.id \in Jobs /\ l.job \in Row /\ l.base \in Row
      /\ l.prior \in Occurrence /\ l.occurrence \in Occurrence /\ l.occurrence.ref \in Ref
      /\ l.job.key \in Keys \cup {"none"} /\ l.base.key \in Keys \cup {"none"}
  BY DEF Local, Occurrence, Row
<1> SUFFICES ASSUME NEW s, s = l.source, NEW j, j = l.id, NEW job, job = l.job, NEW base, base = l.base,
                    NEW prior, prior = l.prior, NEW o, o = l.occurrence, NEW ref, ref = o.ref,
                    NEW key, key = job.key
             PROVE  KeysAt(label, l)'
  OBVIOUS
<1>2. /\ OccurrenceBelongs(prior, s) => OccurrenceBelongs(prior, s)'
      /\ OccurrenceBelongs(o, s) => OccurrenceBelongs(o, s)'
  BY <1>1, OccurrenceStays
<1>3. Belongs(ref, s, j, key) => Belongs(ref, s, j, key)'
  BY <1>1, BelongsStays
<1>4. /\ JobBelongs(job, j, key) => JobBelongs(job, j, key)'
      /\ JobBelongs(job, j, "none") => JobBelongs(job, j, "none")'
      /\ JobBelongs(base, j, "none") => JobBelongs(base, j, "none")'
  BY <1>1, JobStays
<1>5. (Owns(job, j) => Owns(job, j)') /\ (Owns(base, j) => Owns(base, j)')
  BY <1>1, CommitAssumption DEF CommitAssumption, Owns, ClaimsStay
<1> QED BY <1>2, <1>3, <1>4, <1>5 DEF KeysAt

\* A step of one run keeps the invariant if it keeps the part about the stores, and
\* what the run then holds belongs where it goes.
LEMMA KeyStep ==
  ASSUME TypeInv, KeyInv, ClaimsStay, KeyStores',
         NEW r \in Runs, NEW label, NEW l,
         pc' = [pc EXCEPT ![r] = label], local' = [local EXCEPT ![r] = l], KeysAt(label, l)'
  PROVE  KeyInv'
<1>1. ASSUME NEW q \in Runs PROVE KeysAt(pc[q], local[q])'
  <2>1. CASE q = r
    <3>1. pc'[q] = label /\ local'[q] = l
      BY <2>1 DEF TypeInv, TypeOK
    <3> QED BY <3>1 DEF KeysAt
  <2>2. CASE q # r
    <3>1. pc'[q] = pc[q] /\ local'[q] = local[q] /\ local[q] \in Local
      BY <2>2 DEF TypeInv, TypeOK
    <3>2. ASSUME NEW c, NEW m, c = pc[q], m = local[q] PROVE KeysAt(pc[q], local[q])'
      <4>1. KeysAt(c, m)
        BY <3>2 DEF KeyInv
      <4>2. KeysAt(c, m)'
        BY <3>1, <3>2, <4>1, KeysStay
      <4> QED BY <3>1, <3>2, <4>2 DEF KeysAt
    <3> QED BY <3>2
  <2> QED BY <2>1, <2>2
<1> QED BY <1>1 DEF KeyInv

\* A run that ends holds nothing.
LEMMA KeyEnds ==
  ASSUME TypeInv, KeyInv, ClaimsStay, KeyStores', NEW r \in Runs, End(r) PROVE KeyInv'
<1>1. KeysAt("idle", NoLocal)'
  BY DEF KeysAt, NoLocal, NoOccurrence, OccurrenceBelongs
<1> QED BY <1>1, KeyStep DEF End, Goto

\* A step that changes neither the claims nor the rows keeps what belongs.
LEMMA KeyQuiet ==
  ASSUME TypeInv, KeyInv, UNCHANGED <<claim, row, occ>> PROVE ClaimsStay /\ KeyStores'
<1>1. \A k \in Keys : Home(k, claim[k])' <=> Home(k, claim[k])
  BY DEF Home
<1>2. ASSUME NEW j \in Jobs PROVE Owns(row[j], j)' /\ JobBelongs(row[j], j, "none")'
  BY DEF KeyInv, KeyStores, Owns, JobBelongs, Belongs, Names, Attached
<1>3. ASSUME NEW s \in Sources PROVE OccurrenceBelongs(occ[s], s)'
  BY DEF KeyInv, KeyStores, OccurrenceBelongs, Belongs, Names, Attached
<1> QED BY <1>1, <1>2, <1>3 DEF KeyInv, KeyStores, ClaimsStay

\* The job a listing starts from is one its source is attached to.
LEMMA CandidateAttached ==
  ASSUME TypeInv, KeyStores, NEW s \in Sources, NEW prior \in Occurrence, OccurrenceBelongs(prior, s),
         NEW j \in Candidates(s, prior), j # "none"
  PROVE  j \in Jobs /\ Attached(s, j)
<1>1. CASE prior.exists /\ row[prior.job].exists
  <2>1. j = prior.job /\ j \in Jobs
    BY <1>1 DEF Candidates, Occurrence
  <2> QED BY <1>1, <2>1 DEF OccurrenceBelongs, Belongs
<1>2. CASE ~(prior.exists /\ row[prior.job].exists)
  <2>1. j \in Jobs /\ row[j].refs[s].known
    BY <1>2 DEF Candidates
  <2> QED BY <2>1 DEF KeyStores, JobBelongs, Belongs
<1> QED BY <1>1, <1>2

\* A listing resolves to the job its key is claimed for; or the key is claimed for none,
\* the job is one it may be claimed for, and knows no other key.  Without a key it
\* resolves to a job the source is attached to.
LEMMA ResolveHome ==
  ASSUME TypeInv, KeyStores, NEW s \in Sources, NEW prior \in Occurrence, OccurrenceBelongs(prior, s),
         NEW key \in KeysSeen[s], NEW j \in Candidates(s, prior),
         NEW target \in Jobs, target = Target(s, key, j)
  PROVE  IF key = "none" THEN Attached(s, target)
         ELSE \/ claim[key] = target
              \/ claim[key] = "none" /\ Home(key, target) /\ row[target].key \in {"none", key}
<1>1. "none" \notin Jobs /\ "none" \notin Keys /\ key \in Keys \cup {"none"}
      /\ (\A k \in KeysSeen[s] \ {"none"} : k \in Keys)
      /\ (\A k, m \in KeysSeen[s] \ {"none"} : k = m)
  BY CommitAssumption, IdentityAssumption DEF CommitAssumption, IdentityAssumption
<1>2. j # "none" => j \in Jobs /\ Attached(s, j)
  BY CandidateAttached
<1>3. CASE key = "none"
  BY <1>2, <1>3 DEF Target, Attached
<1>4. ASSUME key # "none", claim[key] # target
      PROVE  claim[key] = "none" /\ Home(key, target) /\ row[target].key \in {"none", key}
  <2>1. claim[key] = "none" /\ target = IF j # "none" THEN j ELSE Canonical[key]
    BY <1>1, <1>4 DEF Target, Resolves
  <2>2. key \in Keys
    BY <1>1, <1>4
  <2>3. j # "none" => target = Own[s]
    BY <1>1, <1>2, <1>4, <2>1 DEF Attached
  <2>4. Home(key, target)
    BY <2>1, <2>3 DEF Home
  <2>5. ASSUME NEW k, k = row[target].key, k # "none" PROVE k = key
    <3>1. k \in Keys /\ claim[k] = target
      BY <2>5 DEF TypeInv, TypeOK, Row, KeyStores, Owns
    <3>2. Home(k, target)
      BY <1>1, <3>1 DEF KeyStores
    <3>3. CASE j = "none"
      BY <2>1, <2>2, <3>1, <3>2, <3>3, IdentityAssumption DEF IdentityAssumption, Home
    <3>4. CASE j # "none"
      <4>1. target = Own[s]
        BY <2>3, <3>4
      <4>2. PICK t \in Sources : Own[t] = target /\ k \in KeysSeen[t]
        BY <3>1, <3>2, <4>1, IdentityAssumption DEF IdentityAssumption, Home
      <4>3. t = s
        BY <4>1, <4>2, IdentityAssumption DEF IdentityAssumption
      <4> QED BY <1>1, <1>4, <2>5, <4>2, <4>3
    <3> QED BY <3>3, <3>4
  <2> QED BY <2>1, <2>4, <2>5
<1> QED BY <1>3, <1>4

\* What the planning operators do to references keeps them where they belong.
LEMMA MergeBelongs ==
  ASSUME NEW old \in Ref, NEW new \in Ref, NEW s \in Sources, NEW j \in Jobs, NEW adopted,
         Belongs(old, s, j, adopted), Belongs(new, s, j, adopted)
  PROVE  Belongs(MergeRef(old, new), s, j, adopted)
<1>1. /\ MergeRef(old, new).known => old.known \/ new.known
      /\ MergeRef(old, new).key = IF new.known THEN new.key ELSE old.key
  BY MergeRefFacts
<1> QED BY <1>1 DEF Belongs

\* The plan for a listing belongs to the job it was made for, if the listing and the
\* stored job do.
LEMMA ListedBelongs ==
  ASSUME NEW s \in Sources, NEW stored \in Row, NEW prior \in Occurrence, NEW ref \in Ref,
         NEW now \in Time, NEW j \in Jobs, NEW adopted, NEW job \in Row,
         job = Listed(s, stored, prior, ref, now).job,
         stored.exists => JobBelongs(stored, j, "none"), Belongs(ref, s, j, adopted)
  PROVE  JobBelongs(job, j, adopted)
<1> DEFINE event == Listed(s, stored, prior, ref, now).event
<1> HIDE DEF event
<1>1. \A x \in Sources :
        job.refs[x] = IF stored.exists
                      THEN IF x = s THEN MergeRef(stored.refs[x], ref) ELSE stored.refs[x]
                      ELSE IF x = s THEN ref ELSE NoRef
  BY ListedFacts DEF event
<1>2. \A x \in Sources : stored.refs[x] \in Ref
  BY DEF Row
<1>3. stored.exists => \A x \in Sources : Belongs(stored.refs[x], x, j, adopted)
  BY DEF JobBelongs, Belongs
<1>4. stored.exists => Belongs(MergeRef(stored.refs[s], ref), s, j, adopted)
  BY <1>2, <1>3, MergeBelongs
<1>5. \A x \in Sources : Belongs(NoRef, x, j, adopted)
  BY DEF Belongs, NoRef
<1>6. ASSUME NEW x \in Sources PROVE Belongs(job.refs[x], x, j, adopted)
  <2>1. CASE x = s
    BY <1>1, <1>4, <2>1
  <2>2. CASE x # s
    BY <1>1, <1>3, <1>5, <2>2
  <2> QED BY <2>1, <2>2
<1> QED BY <1>6 DEF JobBelongs

\* A poll keeps it: its plan belongs once the key of the job is claimed, and a listing
\* that has not changed has its key claimed already.
LEMMA KeyPlans ==
  ASSUME TypeInv, KeyInv, NEW r \in Runs, NEW key \in Keys \cup {"none"},
         NEW verdict \in Verdict, NEW j \in Jobs \cup {"none"}, PollResolve(r, key, verdict, j)
  PROVE  KeyInv'
<1>a. /\ pc[r] = "resolve" /\ key \in KeysSeen[local[r].source]
      /\ j \in Candidates(local[r].source, local[r].prior) /\ UNCHANGED <<claim, row, occ, outbox>>
  BY ResolveShape
<1>b. /\ row \in [Jobs -> Row] /\ local[r] \in Local /\ local[r].source \in Sources
      /\ local[r].prior \in Occurrence
  BY DEF TypeInv, TypeOK, Local
<1>0. OccurrenceBelongs(local[r].prior, local[r].source) /\ KeyStores
  BY DEF KeyInv, KeysAt
<1>1. ClaimsStay /\ KeyStores'
  BY <1>a, KeyQuiet
<1>2. ASSUME GivesUp(r), NEW l, l = [local[r] EXCEPT !.sight = "filtered"] PROVE KeyInv'
  <2>1. l \in Local /\ l.prior = local[r].prior /\ l.source = local[r].source
    BY <1>b, <1>2 DEF Local, AllSights
  <2>2. KeysAt("absent", l)
    BY <1>0, <2>1 DEF KeysAt
  <2>3. KeysAt("absent", l)'
    BY <1>1, <2>1, <2>2, KeysStay
  <2> QED BY <1>1, <1>2, <2>3, KeyStep DEF GivesUp
<1>3. ASSUME NEW target \in Jobs, NEW ref \in Ref, NEW stored \in Row, NEW l \in Local,
             Plans(r, key, verdict, j, target, ref, stored, l)
      PROVE  KeyInv'
  <2> USE <1>3 DEF Plans
  <2>1. l.source \in Sources /\ l.prior \in Occurrence /\ l.prior.ref \in Ref /\ l.job \in Row
        /\ OccurrenceBelongs(l.prior, l.source)
    BY <1>0 DEF Local, Occurrence
  <2>2. IF key = "none" THEN Attached(l.source, target)
        ELSE \/ claim[key] = target
             \/ claim[key] = "none" /\ Home(key, target) /\ row[target].key \in {"none", key}
    BY <1>0, <1>a, <1>b, ResolveHome
  <2>3. l.job.key = IF stored.exists /\ stored.key # "none" THEN stored.key ELSE key
    BY <2>1, ListedFacts
  <2>4. stored.exists => stored = row[target]
    BY DEF CopyOf, NoRow
  <2>5. stored.exists => JobBelongs(stored, target, "none") /\ Owns(stored, target)
    BY <1>0, <2>4 DEF KeyStores
  <2>6. stored.key \in Keys \cup {"none"} /\ key \in KeysSeen[l.source]
    BY <1>a DEF Row
  <2>7. l.job.key # "none" => Home(l.job.key, target)
    BY <1>0, <2>2, <2>3, <2>5, <2>6, CommitAssumption DEF CommitAssumption, KeyStores, Owns
  <2>8. Belongs(ref, l.source, target, l.job.key)
    <3>1. CASE key = "none" \/ claim[key] = target
      BY <2>2, <2>6, <3>1 DEF Belongs, Names, Attached
    <3>2. CASE key # "none" /\ claim[key] = "none" /\ row[target].key \in {"none", key}
      BY <2>3, <2>4, <2>6, <3>2 DEF Belongs
    <3> QED BY <2>2, <3>1, <3>2
  <2>9. JobBelongs(l.job, target, l.job.key)
    <3>1. ASSUME NEW adopted, adopted = l.job.key PROVE JobBelongs(l.job, target, adopted)
      <4>1. Belongs(ref, l.source, target, adopted)
        BY <2>8, <3>1
      <4>2. l.job = Listed(l.source, stored, l.prior, ref, clock').job /\ clock' \in Time
        OBVIOUS
      <4>3. stored.exists => JobBelongs(stored, target, "none")
        BY <2>5
      <4> HIDE DEF Plans
      <4> QED BY <1>3, <2>1, <4>1, <4>2, <4>3, ListedBelongs
    <3> QED BY <3>1
  <2>10. l.occurrence.ref.known /\ l.occurrence.ref.key = key
    <3>1. ref.known /\ ref.key = key /\ l.occurrence.ref = MergeRef(l.prior.ref, ref)
      OBVIOUS
    <3>2. ASSUME NEW new \in Ref, NEW old \in Ref, new.known
          PROVE  MergeRef(old, new).known /\ MergeRef(old, new).key = new.key
      BY <3>2, MergeRefFacts
    <3> QED BY <1>3, <2>1, <3>1, <3>2
  <2>11. Belongs(l.occurrence.ref, l.source, target, l.job.key)
    BY <2>8, <2>10 DEF Belongs
  <2>12. KeysAt("read", l)
    BY <2>1, <2>7, <2>9, <2>10, <2>11 DEF KeysAt
  <2>13. ASSUME l.occurrence = l.prior PROVE KeysAt("put", l)
    <3>1. key # "none" => claim[key] # "none"
      BY <2>1, <2>10, <2>13, CommitAssumption DEF CommitAssumption, OccurrenceBelongs, Belongs, Names
    <3>2. key # "none" => claim[key] = target
      BY <2>2, <3>1
    <3>3. Owns(l.job, target)
      BY <2>3, <2>5, <3>2 DEF Owns
    <3>4. Belongs(ref, l.source, target, "none")
      BY <2>2, <2>6, <3>2 DEF Belongs, Names, Attached
    <3>5. JobBelongs(l.job, target, "none")
      BY <2>1, <2>5, <3>4, ListedBelongs
    <3> QED BY <2>1, <3>3, <3>5 DEF KeysAt
  <2>14. CASE pc' = [pc EXCEPT ![r] = "put"] /\ l.occurrence = l.prior
    <3>1. KeysAt("put", l)'
      BY <1>1, <2>13, <2>14, KeysStay
    <3> QED BY <1>1, <2>14, <3>1, KeyStep
  <2>15. CASE pc' = [pc EXCEPT ![r] = "read"]
    <3>1. KeysAt("read", l)'
      BY <1>1, <2>12, KeysStay
    <3> QED BY <1>1, <2>15, <3>1, KeyStep
  <2> QED BY <2>14, <2>15
<1>4. ASSUME GivesUp(r) PROVE KeyInv'
  BY <1>2, <1>4
<1> QED BY <1>3, <1>4, ResolveShape

\* A poll that starts, misses its listing, writes an occurrence or reads the job of its
\* commit keeps it: it moves copies of what is stored.
LEMMA KeyReads ==
  ASSUME TypeInv, KeyInv, NEW r \in Runs,
         \/ \E s \in Sources, sight \in Sights : PollStart(r, s, sight)
         \/ PollAbsent(r) \/ PutOccurrence(r) \/ CommitRead(r) \/ CommitVerify(r) \/ Crash(r)
  PROVE  KeyInv'
<1>b. /\ row \in [Jobs -> Row] /\ occ \in [Sources -> Occurrence] /\ local[r] \in Local
      /\ local[r].source \in Sources
  BY DEF TypeInv, TypeOK, Local
<1>0. KeysAt(pc[r], local[r]) /\ KeyStores
  BY DEF KeyInv
<1>1. ASSUME NEW s \in Sources, NEW sight \in Sights, PollStart(r, s, sight) PROVE KeyInv'
  <2>1. ASSUME NEW l, l = [NoLocal EXCEPT !.source = s, !.sight = sight, !.prior = occ[s]],
               NEW label, label = IF sight \in {"open", "closed"} THEN "resolve" ELSE "absent"
        PROVE  KeyInv'
    <3>1. /\ UNCHANGED stores /\ pc' = [pc EXCEPT ![r] = label] /\ local' = [local EXCEPT ![r] = l]
      BY <1>1, <2>1 DEF PollStart, Goto
    <3>2. l.prior = occ[s] /\ l.source = s /\ label \in {"resolve", "absent"}
      BY <2>1 DEF NoLocal
    <3>3. l \in Local
      BY <1>b, <2>1, DefaultTypes, CommitAssumption DEF CommitAssumption, Local
    <3>4. ClaimsStay /\ KeyStores'
      BY <3>1, KeyQuiet DEF stores
    <3>5. KeysAt(label, l)
      BY <1>0, <3>2 DEF KeysAt, KeyStores
    <3>6. KeysAt(label, l)'
      BY <3>3, <3>4, <3>5, KeysStay
    <3> QED BY <3>1, <3>4, <3>6, KeyStep
  <2> QED BY <2>1
<1>2. CASE PollAbsent(r)
  <2>1. ClaimsStay /\ KeyStores'
    BY <1>2, AbsentShape, KeyQuiet
  <2>2. CASE End(r)
    BY <2>1, <2>2, KeyEnds
  <2>3. ASSUME NEW l \in Local, Misses(r, l) PROVE KeyInv'
    <3> USE <2>3 DEF Misses
    <3>1. OccurrenceBelongs(l.prior, l.source) /\ l.prior.ref.known
      BY <1>0 DEF KeysAt, OccurrenceBelongs
    <3>2. OccurrenceBelongs(l.occurrence, l.source) /\ l.occurrence.ref.known
      BY <3>1 DEF OccurrenceBelongs, Belongs
    <3>3. CASE /\ pc' = [pc EXCEPT ![r] = "read"] /\ row[l.id].exists
               /\ l.job = Closed(row[l.id], l.source, clock') /\ clock' \in Time
      <4>1. l.id \in Jobs /\ row[l.id] \in Row /\ l.source \in Sources /\ row[l.id].key \in Keys \cup {"none"}
        BY <1>b DEF Local, Row
      <4>2. ASSUME NEW job \in Row, job = row[l.id], NEW s \in Sources, s = l.source,
                   NEW now \in Time, now = clock'
            PROVE  /\ l.job.key = job.key
                   /\ \A x \in Sources : /\ l.job.refs[x].known = job.refs[x].known
                                        /\ l.job.refs[x].key = job.refs[x].key
        <5>1. l.job = Closed(job, s, now)
          BY <3>3, <4>2
        <5> HIDE DEF Misses
        <5> QED BY <5>1, ClosedFacts
      <4>3. /\ l.job.key = row[l.id].key
            /\ \A x \in Sources : /\ l.job.refs[x].known = row[l.id].refs[x].known
                                 /\ l.job.refs[x].key = row[l.id].refs[x].key
        BY <3>3, <4>1, <4>2
      <4>4. Owns(row[l.id], l.id) /\ JobBelongs(row[l.id], l.id, "none")
        BY <1>0, <4>1 DEF KeyStores
      <4>5. JobBelongs(l.job, l.id, l.job.key)
        BY <4>3, <4>4 DEF JobBelongs, Belongs
      <4>6. l.job.key # "none" => Home(l.job.key, l.id)
        BY <1>0, <4>1, <4>3, <4>4, CommitAssumption DEF CommitAssumption, KeyStores, Owns
      <4>7. Belongs(l.occurrence.ref, l.source, l.id, l.job.key)
        BY <3>2 DEF OccurrenceBelongs, Belongs
      <4>8. KeysAt("read", l)
        BY <3>1, <3>2, <4>5, <4>6, <4>7 DEF KeysAt
      <4>9. KeysAt("read", l)'
        BY <2>1, <4>8, KeysStay
      <4> QED BY <2>1, <3>3, <4>9, KeyStep
    <3>4. CASE pc' = [pc EXCEPT ![r] = "putOccurrence"] /\ l.job = NoRow
      <4>1. KeysAt("putOccurrence", l)
        BY <3>1, <3>2 DEF KeysAt
      <4>2. KeysAt("putOccurrence", l)'
        BY <2>1, <4>1, KeysStay
      <4> QED BY <2>1, <3>4, <4>2, KeyStep
    <3> QED BY <3>3, <3>4
  <2> QED BY <1>2, <2>2, <2>3, AbsentShape
<1>3. CASE PutOccurrence(r)
  <2>1. /\ pc[r] = "putOccurrence" /\ End(r) /\ UNCHANGED <<claim, row>>
        /\ occ' = [occ EXCEPT ![local[r].source] = local[r].occurrence]
    BY <1>3 DEF PutOccurrence
  <2>2. OccurrenceBelongs(local[r].occurrence, local[r].source)
    BY <1>0, <2>1 DEF KeysAt
  <2>3. \A s \in Sources : OccurrenceBelongs(occ'[s], s)
    BY <1>0, <1>b, <2>1, <2>2 DEF KeyStores
  <2>4. ASSUME NEW s \in Sources PROVE OccurrenceBelongs(occ[s], s)'
    BY <2>1, <2>3 DEF OccurrenceBelongs, Belongs, Names, Attached
  <2>5. ASSUME NEW j \in Jobs PROVE Owns(row[j], j)' /\ JobBelongs(row[j], j, "none")'
    BY <1>0, <2>1 DEF KeyStores, Owns, JobBelongs, Belongs, Names, Attached
  <2>6. \A k \in Keys : claim'[k] # "none" => Home(k, claim'[k])
    BY <1>0, <2>1 DEF KeyStores
  <2>7. ClaimsStay /\ KeyStores'
    BY <2>1, <2>4, <2>5, <2>6 DEF ClaimsStay, KeyStores, Home
  <2> QED BY <2>1, <2>7, KeyEnds
<1>4. CASE CommitRead(r)
  <2>1. UNCHANGED <<claim, row, occ>> /\ pc[r] = "read"
    BY <1>4 DEF CommitRead
  <2>2. ClaimsStay /\ KeyStores'
    BY <2>1, KeyQuiet
  <2>3. CASE End(r)
    BY <2>2, <2>3, KeyEnds
  <2>4. ASSUME NEW l \in Local, l.source = local[r].source, l.prior = local[r].prior, l.id = local[r].id,
               l.now = local[r].now, l.job = local[r].job, l.event = local[r].event,
               l.occurrence = local[r].occurrence, l.base = row[l.id], l.baseOcc = occ[l.source],
               local' = [local EXCEPT ![r] = l], pc' = [pc EXCEPT ![r] = "batch"]
        PROVE  KeyInv'
    <3>1. l.id \in Jobs
      BY DEF Local
    <3>2. KeysAt("batch", l)
      BY <1>0, <2>1, <2>4, <3>1 DEF KeysAt, KeyStores
    <3>3. KeysAt("batch", l)'
      BY <2>2, <3>2, KeysStay
    <3> QED BY <2>2, <2>4, <3>3, KeyStep
  <2> QED BY <1>4, <2>3, <2>4, ReadShape
<1>5. CASE CommitVerify(r) \/ Crash(r)
  <2>1. End(r) /\ UNCHANGED <<claim, row, occ>>
    BY <1>5 DEF CommitVerify, Crash, stores
  <2> QED BY <2>1, KeyQuiet, KeyEnds
<1> QED BY <1>1, <1>2, <1>3, <1>4, <1>5

\* Once the key is claimed for the job, what waited for it belongs there.
LEMMA AdoptedBelongs ==
  ASSUME NEW ref, NEW s \in Sources, NEW j \in Jobs, NEW adopted,
         adopted # "none" => claim'[adopted] = j, Belongs(ref, s, j, adopted)'
  PROVE  Belongs(ref, s, j, "none")'
BY DEF Belongs, Names, Attached

\* The rows and occurrences a step does not write still belong.
LEMMA StoredStay ==
  ASSUME TypeInv, KeyStores, ClaimsStay
  PROVE  /\ \A j \in Jobs, job \in Row : job = row[j] => (Owns(job, j) /\ JobBelongs(job, j, "none"))'
         /\ \A s \in Sources, o \in Occurrence : o = occ[s] => OccurrenceBelongs(o, s)'
<1>1. ASSUME NEW j \in Jobs, NEW job \in Row, job = row[j]
      PROVE  (Owns(job, j) /\ JobBelongs(job, j, "none"))'
  <2>1. Owns(job, j) /\ JobBelongs(job, j, "none") /\ job.key \in Keys \cup {"none"}
    BY <1>1 DEF KeyStores, Row
  <2>2. JobBelongs(job, j, "none")'
    BY <2>1, JobStays
  <2>3. Owns(job, j)'
    BY <2>1, CommitAssumption DEF CommitAssumption, Owns, ClaimsStay
  <2> QED BY <2>2, <2>3
<1>2. ASSUME NEW s \in Sources, NEW o \in Occurrence, o = occ[s] PROVE OccurrenceBelongs(o, s)'
  <2>1. OccurrenceBelongs(o, s)
    BY <1>2 DEF KeyStores
  <2> QED BY <2>1, OccurrenceStays
<1> QED BY <1>1, <1>2

\* A step that writes a job that belongs, an occurrence that belongs, and a claim that
\* is at home keeps the part about the stores.
LEMMA WriteBelongs ==
  ASSUME TypeInv, TypeInv', KeyStores, ClaimsStay,
         \A k \in Keys : claim'[k] # "none" => Home(k, claim'[k]),
         \A j \in Jobs : row'[j] # row[j] => (Owns(row[j], j) /\ JobBelongs(row[j], j, "none"))',
         \A s \in Sources : occ'[s] # occ[s] => OccurrenceBelongs(occ[s], s)'
  PROVE  KeyStores'
<1>1. ASSUME NEW j \in Jobs PROVE (Owns(row[j], j) /\ JobBelongs(row[j], j, "none"))'
  <2>1. CASE row'[j] = row[j]
    <3>1. ASSUME NEW job \in Row, job = row[j] PROVE (Owns(row[j], j) /\ JobBelongs(row[j], j, "none"))'
      <4>1. (Owns(job, j) /\ JobBelongs(job, j, "none"))'
        BY <3>1, StoredStay
      <4> QED BY <2>1, <3>1, <4>1 DEF Owns, JobBelongs
    <3> QED BY <3>1 DEF TypeInv, TypeOK
  <2> QED BY <2>1
<1>2. ASSUME NEW s \in Sources PROVE OccurrenceBelongs(occ[s], s)'
  <2>1. CASE occ'[s] = occ[s]
    <3>1. ASSUME NEW o \in Occurrence, o = occ[s] PROVE OccurrenceBelongs(occ[s], s)'
      <4>1. OccurrenceBelongs(o, s)'
        BY <3>1, StoredStay
      <4> QED BY <2>1, <3>1, <4>1 DEF OccurrenceBelongs
    <3> QED BY <3>1 DEF TypeInv, TypeOK
  <2> QED BY <2>1
<1> QED BY <1>1, <1>2 DEF KeyStores, Home

\* The transaction of a commit keeps it: it claims the key of the job it writes, or
\* finds it claimed for the job.
LEMMA KeyCommits == ASSUME TypeInv, TypeInv', KeyInv, NEW r \in Runs, Batch(r) PROVE KeyInv'
<1> SUFFICES ASSUME NEW l, l = local[r], NEW job, job = JobToWrite(l), NEW ref, ref = RefToWrite(l),
                    NEW key, key = l.job.key
             PROVE  KeyInv'
  OBVIOUS
<1>b. /\ row \in [Jobs -> Row] /\ occ \in [Sources -> Occurrence] /\ l \in Local
      /\ l.id \in Jobs /\ l.source \in Sources /\ l.base \in Row /\ l.job \in Row
      /\ l.event \in BOOLEAN /\ l.occurrence \in Occurrence /\ l.occurrence.ref \in Ref
      /\ l.baseOcc.ref \in Ref /\ key \in Keys \cup {"none"} /\ claim \in [Keys -> Jobs \cup {"none"}]
  BY DEF TypeInv, TypeOK, Local, Occurrence, Row
<1>a. pc[r] = "batch" /\ ref \in Ref /\ job \in Row
  BY BatchShape
<1>0. KeysAt("batch", l) /\ KeyStores
  BY <1>a DEF KeyInv
<1>1. /\ job.key = key
      /\ \A x \in Sources :
           job.refs[x] = IF x = l.source THEN MergeRef(MergeRef(l.base.refs[x], l.job.refs[x]), ref)
                         ELSE MergeRef(l.base.refs[x], l.job.refs[x])
  <2>1. ASSUME NEW base, base = l.base, NEW proposed, proposed = l.job, NEW s, s = l.source,
               NEW event, event = l.event
        PROVE  /\ job.key = proposed.key
               /\ \A x \in Sources :
                    job.refs[x] = IF x = s THEN MergeRef(MergeRef(base.refs[x], proposed.refs[x]), ref)
                                  ELSE MergeRef(base.refs[x], proposed.refs[x])
    <3>1. job = Finalized(base, Projected(base, proposed, s, ref), event)
      BY <2>1 DEF JobToWrite, ProjectedJob
    <3>2. base \in Row /\ proposed \in Row /\ s \in Sources /\ event \in BOOLEAN
      BY <1>b, <2>1
    <3> QED BY <1>a, <3>1, <3>2, CanonicalFacts
  <2> QED BY <2>1
<1>2. ref.known /\ Belongs(ref, l.source, l.id, key)
  <2>1. l.occurrence.ref.known /\ Belongs(l.occurrence.ref, l.source, l.id, key)
    BY <1>0 DEF KeysAt
  <2>2. ref.known /\ ref.key = l.occurrence.ref.key
    <3>1. ASSUME NEW old \in Ref, NEW new \in Ref, new.known
          PROVE  MergeRef(old, new).known /\ MergeRef(old, new).key = new.key
      BY <3>1, MergeRefFacts
    <3> QED BY <1>b, <2>1, <3>1 DEF RefToWrite
  <2> QED BY <2>1, <2>2 DEF Belongs
<1>3. JobBelongs(job, l.id, key)
  <2>1. ASSUME NEW x \in Sources PROVE Belongs(job.refs[x], x, l.id, key)
    <3>1. l.base.refs[x] \in Ref /\ l.job.refs[x] \in Ref
      BY <1>b DEF Row
    <3>2. Belongs(l.base.refs[x], x, l.id, key) /\ Belongs(l.job.refs[x], x, l.id, key)
      BY <1>0 DEF KeysAt, JobBelongs, Belongs
    <3>3. ASSUME NEW old, old = MergeRef(l.base.refs[x], l.job.refs[x])
          PROVE  Belongs(job.refs[x], x, l.id, key)
      <4>1. old \in Ref /\ Belongs(old, x, l.id, key)
        BY <1>b, <3>1, <3>2, <3>3, MergeBelongs, MergeRefType
      <4>2. CASE x = l.source
        BY <1>1, <1>2, <1>a, <1>b, <3>3, <4>1, <4>2, MergeBelongs, SMTT(40)
      <4>3. CASE x # l.source
        BY <1>1, <3>3, <4>1, <4>3
      <4> QED BY <4>2, <4>3
    <3> QED BY <3>3
  <2> QED BY <2>1 DEF JobBelongs
<1>4. ClaimsStay /\ KeyStores'
  <2>1. CASE UNCHANGED <<claim, row, occ, outbox>>
    BY <2>1, KeyQuiet
  <2>2. ASSUME Free(key, l.id),
               \/ row[l.id] = l.base /\ row' = [row EXCEPT ![l.id] = job]
               \/ row[l.id] = job /\ UNCHANGED row,
               claim' = [k \in Keys |-> IF k = key /\ claim[k] = "none" THEN l.id ELSE claim[k]],
               occ' = [occ EXCEPT ![l.source] = [l.occurrence EXCEPT !.ref = ref]]
        PROVE  ClaimsStay /\ KeyStores'
    <3>1. ClaimsStay
      BY <2>2 DEF ClaimsStay
    <3>2. key # "none" => claim'[key] = l.id
      BY <1>b, <2>2 DEF Free
    <3>3. \A k \in Keys : claim'[k] # "none" => Home(k, claim'[k])
      <4>1. ASSUME NEW k \in Keys, NEW j, j = claim'[k], j # "none" PROVE Home(k, j)
        <5>1. CASE j = claim[k]
          BY <1>0, <4>1, <5>1 DEF KeyStores
        <5>2. CASE j # claim[k]
          <6>1. k = key /\ j = l.id
            BY <2>2, <4>1, <5>2
          <6>2. ASSUME NEW i, i = l.id PROVE key # "none" => Home(key, i)
            BY <1>0, <6>2 DEF KeysAt
          <6> QED BY <4>1, <6>1, <6>2, CommitAssumption DEF CommitAssumption
        <5> QED BY <5>1, <5>2
      <4> QED BY <4>1
    <3>4. Owns(job, l.id)'
      BY <1>1, <3>2 DEF Owns
    <3>5. JobBelongs(job, l.id, "none")'
      <4>1. JobBelongs(job, l.id, key)'
        <5>1. ASSUME NEW j, j = l.id PROVE JobBelongs(job, j, key)'
          BY <1>3, <1>a, <1>b, <3>1, <5>1, JobStays
        <5> QED BY <5>1 DEF JobBelongs, Belongs, Names, Attached
      <4>2. \A s \in Sources : Belongs(job.refs[s], s, l.id, "none")'
        BY <1>b, <3>2, <4>1 DEF JobBelongs, Belongs, Names, Attached
      <4> QED BY <4>2 DEF JobBelongs
    <3>6. ASSUME NEW o, o = [l.occurrence EXCEPT !.ref = ref] PROVE OccurrenceBelongs(o, l.source)'
      <4>1. o.job = l.id /\ o.ref = ref /\ o.exists
        BY <1>0, <1>b, <3>6 DEF KeysAt, Occurrence
      <4>2. ASSUME NEW j, j = l.id, NEW s, s = l.source PROVE Belongs(ref, s, j, "none")'
        <5>1. Belongs(ref, s, j, key)'
          BY <1>2, <1>a, <1>b, <3>1, <4>2, BelongsStays
        <5> QED BY <1>b, <3>2, <4>2, <5>1, AdoptedBelongs
      <4> QED BY <1>2, <4>1, <4>2 DEF OccurrenceBelongs
    <3>7. \A j \in Jobs : row'[j] # row[j] => j = l.id /\ row'[j] = job
      BY <1>b, <2>2
    <3>8. \A s \in Sources : occ'[s] # occ[s] => s = l.source /\ occ'[s] = [l.occurrence EXCEPT !.ref = ref]
      BY <1>b, <2>2
    <3>9. \A j \in Jobs : row'[j] # row[j] => (Owns(row[j], j) /\ JobBelongs(row[j], j, "none"))'
      BY <3>4, <3>5, <3>7 DEF Owns, JobBelongs
    <3>10. \A s \in Sources : occ'[s] # occ[s] => OccurrenceBelongs(occ[s], s)'
      BY <3>6, <3>8 DEF OccurrenceBelongs
    <3> QED BY <1>0, <3>1, <3>3, <3>9, <3>10, WriteBelongs
  <2> QED BY <2>1, <2>2, BatchShape
<1>5. KeysAt("batch", l)'
  BY <1>0, <1>4, <1>b, KeysStay
<1>6. CASE End(r)
  BY <1>4, <1>6, KeyEnds
<1>7. CASE pc' = [pc EXCEPT ![r] = "read"] /\ UNCHANGED local
  <2>1. local' = [local EXCEPT ![r] = l]
    BY <1>7 DEF TypeInv, TypeOK
  <2>2. KeysAt("read", l)'
    BY <1>5 DEF KeysAt
  <2> QED BY <1>4, <1>7, <2>1, <2>2, KeyStep
<1>8. ASSUME pc' = [pc EXCEPT ![r] = "verify"], NEW inserted \in BOOLEAN,
             NEW m, m = [l EXCEPT !.inserted = inserted], local' = [local EXCEPT ![r] = m]
      PROVE  KeyInv'
  <2>1. m.prior = l.prior /\ m.source = l.source
    BY <1>8, <1>b DEF Local
  <2>2. KeysAt("verify", m)'
    BY <1>5, <2>1 DEF KeysAt
  <2> QED BY <1>4, <1>8, <2>2, KeyStep
<1>9. ASSUME pc' = [pc EXCEPT ![r] = "verify"],
             \E inserted \in BOOLEAN : local' = [local EXCEPT ![r] = [l EXCEPT !.inserted = inserted]]
      PROVE  KeyInv'
  BY <1>8, <1>9
<1> QED BY <1>6, <1>7, <1>9, BatchShape

\* The verifier and the drain read jobs that belong, and write back what they read
\* with another admission or mark.
LEMMA KeyWrites ==
  ASSUME TypeInv, TypeInv', KeyInv, NEW r \in Runs, Verify(r) \/ Mark(r) \/ PutJob(r)
  PROVE  KeyInv'
<1> SUFFICES ASSUME NEW l, l = local[r] PROVE KeyInv'
  OBVIOUS
<1>b. /\ row \in [Jobs -> Row] /\ occ \in [Sources -> Occurrence] /\ l \in Local
      /\ l.id \in Jobs /\ l.source \in Sources /\ l.base \in Row /\ l.job \in Row
      /\ local' \in [Runs -> Local] /\ local \in [Runs -> Local]
  BY DEF TypeInv, TypeOK, Local
<1>0. KeysAt(pc[r], l) /\ KeyStores
  BY DEF KeyInv
<1>1. ASSUME NEW j \in Jobs, NEW s \in Sources, VerifyRead(r, j, s) PROVE KeyInv'
  <2>1. ClaimsStay /\ KeyStores'
    BY <1>1, KeyQuiet DEF VerifyRead
  <2>2. ASSUME NEW m, m = [NoLocal EXCEPT !.source = s, !.now = clock', !.id = j, !.base = row[j]]
        PROVE  KeyInv'
    <3>1. ~m.prior.exists /\ m.base = row[j] /\ m.id = j /\ m.source = s
      BY <2>2 DEF NoLocal, NoOccurrence
    <3>2. Verifiers /\ row[j].refs[s].known
      BY <1>1 DEF VerifyRead, Verifiers
    <3>3. pc' = [pc EXCEPT ![r] = "inspect"] /\ local' = [local EXCEPT ![r] = m]
      BY <1>1, <2>2 DEF VerifyRead, Goto
    <3>4. m \in Local
      BY <1>b, <3>3
    <3>5. KeysAt("inspect", m)
      BY <1>0, <3>1, <3>2 DEF KeysAt, KeyStores, OccurrenceBelongs
    <3>6. KeysAt("inspect", m)'
      BY <2>1, <3>4, <3>5, KeysStay
    <3> QED BY <2>1, <3>3, <3>6, KeyStep
  <2> QED BY <2>2
<1>2. CASE VerifyOccurrence(r)
  <2>1. ClaimsStay /\ KeyStores' /\ pc[r] = "inspect"
    BY <1>2, KeyQuiet DEF VerifyOccurrence, stores
  <2>2. ASSUME NEW m, m = [l EXCEPT !.baseOcc = occ[l.source]] PROVE KeyInv'
    <3>1. m.prior = l.prior /\ m.base = l.base /\ m.id = l.id /\ m.source = l.source
      BY <1>b, <2>2 DEF Local
    <3>2. pc' = [pc EXCEPT ![r] = "admit"] /\ local' = [local EXCEPT ![r] = m]
      BY <1>2, <2>2 DEF VerifyOccurrence, Goto
    <3>3. m \in Local
      BY <1>b, <3>2
    <3>4. KeysAt("admit", m)
      BY <1>0, <2>1, <3>1 DEF KeysAt
    <3>5. KeysAt("admit", m)'
      BY <2>1, <3>3, <3>4, KeysStay
    <3> QED BY <2>1, <3>2, <3>5, KeyStep
  <2> QED BY <2>2
<1>3. ASSUME NEW verdict \in Judgements, Admit(r, verdict) PROVE KeyInv'
  <2>1. pc[r] = "admit" /\ End(r) /\ UNCHANGED claim
    BY <1>3, AdmitShape
  <2>2. CASE UNCHANGED <<row, occ, outbox>>
    BY <2>1, <2>2, KeyQuiet, KeyEnds
  <2>3. ASSUME NEW job \in Row, NEW ref \in Ref, Admits(l, job, ref) PROVE KeyInv'
    <3> USE <2>3 DEF Admits
    <3>1. ClaimsStay /\ \A k \in Keys : claim'[k] # "none" => Home(k, claim'[k])
      BY <1>0, <2>1 DEF ClaimsStay, KeyStores
    <3>2. /\ JobBelongs(l.base, l.id, "none") /\ Owns(l.base, l.id) /\ Verifiers
          /\ l.base.refs[l.source].known
      BY <1>0, <2>1 DEF KeysAt
    <3>3. Belongs(ref, l.source, l.id, "none") /\ ref.known
      BY <1>b, <3>2 DEF JobBelongs, Belongs
    <3>4. JobBelongs(job, l.id, "none") /\ Owns(job, l.id)
      BY <3>2, <3>3 DEF JobBelongs, Owns
    <3>5. ASSUME NEW j \in Jobs, row'[j] # row[j] PROVE (Owns(row[j], j) /\ JobBelongs(row[j], j, "none"))'
      <4>1. j = l.id /\ row'[j] = job
        BY <1>b, <3>5
      <4>2. JobBelongs(job, j, "none") /\ Owns(job, j)
        BY <3>4, <4>1
      <4>3. JobBelongs(job, j, "none")'
        BY <3>1, <4>2, JobStays
      <4> QED BY <2>1, <4>1, <4>2, <4>3 DEF Owns, JobBelongs
    <3>6. ASSUME NEW s \in Sources, occ'[s] # occ[s] PROVE OccurrenceBelongs(occ[s], s)'
      <4>1. ASSUME NEW o, o = occ'[s] PROVE OccurrenceBelongs(o, s)
        <5>1. s = l.source /\ o.ref = ref /\ o.exists = occ[s].exists /\ o.job = occ[s].job
          BY <1>b, <3>6, <4>1 DEF Occurrence
        <5>2. occ[s].exists => Attached(s, occ[s].job)
          BY <1>0 DEF KeyStores, OccurrenceBelongs, Belongs
        <5>3. ref.key \in KeysSeen[s] /\ (ref.key # "none" => Names(ref.key, l.id))
          BY <3>3, <5>1 DEF Belongs
        <5>4. ref.key # "none" => claim[ref.key] # "none"
          BY <1>b, <5>3, CommitAssumption DEF CommitAssumption, Names
        <5>5. o.exists => Belongs(ref, s, o.job, "none")
          BY <3>2, <3>3, <5>1, <5>2, <5>3, <5>4 DEF Belongs, Names
        <5> QED BY <3>3, <5>1, <5>5 DEF OccurrenceBelongs
      <4> QED BY <2>1, <4>1 DEF OccurrenceBelongs, Belongs, Names, Attached
    <3>7. KeyStores'
      BY <1>0, <3>1, <3>5, <3>6, WriteBelongs
    <3> QED BY <2>1, <3>1, <3>7, KeyEnds
  <2> QED BY <1>3, <2>2, <2>3, AdmitShape
<1>4. ASSUME NEW j \in Jobs, DrainRead(r, j) PROVE KeyInv'
  <2>1. ClaimsStay /\ KeyStores'
    BY <1>4, KeyQuiet DEF DrainRead, stores
  <2>2. ASSUME NEW m, m = [NoLocal EXCEPT !.id = j] PROVE KeyInv'
    <3>1. ~m.prior.exists
      BY <2>2 DEF NoLocal, NoOccurrence
    <3>2. KeysAt("mark", m)'
      BY <3>1 DEF KeysAt, OccurrenceBelongs
    <3>3. pc' = [pc EXCEPT ![r] = "mark"] /\ local' = [local EXCEPT ![r] = m]
      BY <1>4, <2>2 DEF DrainRead, Goto
    <3> QED BY <2>1, <3>2, <3>3, KeyStep
  <2> QED BY <2>2
<1>5. CASE MarkRead(r)
  <2>1. ClaimsStay /\ KeyStores' /\ pc[r] = "mark"
    BY <1>5, KeyQuiet DEF MarkRead, stores
  <2>2. ASSUME NEW job, job = [row[l.id] EXCEPT !.pending = FALSE, !.sent = TRUE],
               NEW m, m = [l EXCEPT !.job = job]
        PROVE  KeyInv'
    <3>1. m.prior = l.prior /\ m.source = l.source /\ m.id = l.id /\ m.job = job
      BY <1>b, <2>2 DEF Local
    <3>2. job.key = row[l.id].key /\ job.refs = row[l.id].refs
      BY <1>b, <2>2 DEF Row
    <3>3. pc' = [pc EXCEPT ![r] = "put"] /\ local' = [local EXCEPT ![r] = m]
      BY <1>5, <2>2 DEF MarkRead, Goto
    <3>4. m \in Local
      BY <1>b, <3>3
    <3>5. KeysAt("put", m)
      BY <1>0, <1>b, <3>1, <3>2 DEF KeysAt, KeyStores, Owns, JobBelongs
    <3>6. KeysAt("put", m)'
      BY <2>1, <3>4, <3>5, KeysStay
    <3> QED BY <2>1, <3>3, <3>6, KeyStep
  <2> QED BY <2>2
<1>6. CASE PutJob(r)
  <2>1. /\ pc[r] = "put" /\ End(r) /\ UNCHANGED <<claim, occ>>
        /\ row' = [row EXCEPT ![l.id] = l.job]
    BY <1>6 DEF PutJob
  <2>2. Owns(l.job, l.id) /\ JobBelongs(l.job, l.id, "none")
    BY <1>0, <2>1 DEF KeysAt
  <2>3. ClaimsStay /\ \A k \in Keys : claim'[k] # "none" => Home(k, claim'[k])
    BY <1>0, <2>1 DEF ClaimsStay, KeyStores
  <2>4. ASSUME NEW j \in Jobs, row'[j] # row[j] PROVE (Owns(row[j], j) /\ JobBelongs(row[j], j, "none"))'
    <3>1. j = l.id /\ row'[j] = l.job
      BY <1>b, <2>1, <2>4
    <3> QED BY <2>1, <2>2, <3>1 DEF JobBelongs, Owns, Belongs, Names, Attached
  <2>5. KeyStores'
    BY <1>0, <2>1, <2>3, <2>4, WriteBelongs
  <2> QED BY <2>1, <2>3, <2>5, KeyEnds
<1> QED BY <1>1, <1>2, <1>3, <1>4, <1>5, <1>6 DEF Verify, Mark

\* Each commit claims a key at most once, for one job, whatever else is running.
THEOREM KeyInvariant == Spec => []KeyInv
<1>1. Init => KeyInv
  <2> SUFFICES ASSUME Init PROVE KeyInv
    OBVIOUS
  <2>1. /\ \A k \in Keys : claim[k] = "none"
        /\ \A j \in Jobs : row[j] = NoRow
        /\ \A s \in Sources : occ[s] = NoOccurrence
        /\ \A r \in Runs : pc[r] = "idle" /\ local[r] = NoLocal
    BY DEF Init
  <2>2. /\ NoRow.key = "none" /\ ~NoOccurrence.exists /\ NoLocal.prior = NoOccurrence
        /\ \A s \in Sources : ~NoRow.refs[s].known
    BY DEF NoRow, NoOccurrence, NoRef, NoLocal
  <2>3. KeysAt("idle", NoLocal)
    BY <2>2 DEF KeysAt, OccurrenceBelongs
  <2>4. KeyStores
    BY <2>1, <2>2 DEF KeyStores, Owns, JobBelongs, Belongs, OccurrenceBelongs
  <2> QED BY <2>1, <2>3, <2>4 DEF KeyInv
<1>2. TypeInv /\ KeyInv /\ [Next]_vars => KeyInv'
  <2> SUFFICES ASSUME TypeInv, KeyInv, [Next]_vars PROVE KeyInv'
    OBVIOUS
  <2>1. TypeInv'
    BY TypeStep
  <2>2. ASSUME NEW r \in Runs, Poll(r) PROVE KeyInv'
    BY <2>1, <2>2, KeyReads, KeyPlans, KeyCommits DEF Poll
  <2>3. ASSUME NEW r \in Runs, Verify(r) \/ Mark(r) \/ PutJob(r) \/ Crash(r) PROVE KeyInv'
    BY <2>1, <2>3, KeyReads, KeyWrites
  <2>4. CASE UNCHANGED vars
    <3>1. ClaimsStay /\ KeyStores' /\ UNCHANGED <<pc, local>>
      BY <2>4, KeyQuiet DEF vars, stores
    <3>2. ASSUME NEW r \in Runs PROVE KeysAt(pc[r], local[r])'
      <4>1. ASSUME NEW l, l = local[r], NEW label, label = pc[r] PROVE KeysAt(label, l)'
        BY <3>1, <4>1, KeysStay DEF KeyInv, TypeInv, TypeOK
      <4> QED BY <3>1, <4>1
    <3> QED BY <3>1, <3>2 DEF KeyInv
  <2> QED BY <2>2, <2>3, <2>4 DEF Next
<1> QED BY <1>1, <1>2, TypeInvariant, PTL DEF Spec

\* A job row carries a key only if the key is claimed for that job: the first half of
\* OneJobPerPosting, whatever runs.
RowsOwnTheirKeys == \A j \in Jobs : row[j].key # "none" => claim[row[j].key] = j
THEOREM KeysOwned == Spec => []RowsOwnTheirKeys
<1>1. KeyInv => RowsOwnTheirKeys
  BY DEF KeyInv, KeyStores, Owns, RowsOwnTheirKeys
<1> QED BY <1>1, KeyInvariant, PTL

\* As long as no destination is being verified, two sources that list one exact posting
\* are attached to the job its key is claimed for, in whatever order their polls read,
\* plan and commit.
THEOREM OneJob == (\A r \in Runs : Kind[r] # "verify") => (Spec => []OneJobPerPosting)
<1> SUFFICES ASSUME \A r \in Runs : Kind[r] # "verify" PROVE Spec => []OneJobPerPosting
  OBVIOUS
<1>1. ~Verifiers
  BY DEF Verifiers
<1>2. KeyInv => OneJobPerPosting
  BY <1>1 DEF KeyInv, KeyStores, Owns, OccurrenceBelongs, Belongs, Names, OneJobPerPosting
<1> QED BY <1>2, KeyInvariant, PTL

-----------------------------------------------------------------------------
(* Nothing is lost in the commits *)

\* Only commits write: sources are all reviewed, and neither the verifier nor the
\* drain is at work. Their writes put back whole rows and do lose references.
CommitsOnly == Managed = Sources /\ \A r \in Runs : Kind[r] = "poll"

\* A reference that is not there has no date.
Dated(job) == \A s \in Sources : ~job.refs[s].known => job.refs[s].at = 0

\* What no step may do to the rows of jobs.
Keeps ==
  \A j \in Jobs, s \in Sources :
    /\ row[j].refs[s].known => row'[j].refs[s].known
    /\ row[j].refs[s].at <= row'[j].refs[s].at

\* What a run at a place knows: it writes no row outside a commit, and the job that
\* its occurrence names, or will name, has the source's reference.
KeptAt(label, l) ==
  /\ label \notin {"put", "inspect", "admit", "mark"}
  /\ label \in {"resolve", "absent"} /\ l.prior.exists => row[l.prior.job].refs[l.source].known
  /\ label = "putOccurrence" => row[l.occurrence.job].refs[l.source].known
  /\ label = "batch" => Dated(l.base)
KeptStores ==
  /\ \A j \in Jobs : Dated(row[j])
  /\ \A s \in Sources : occ[s].exists => row[occ[s].job].refs[s].known
KeptInv == KeptStores /\ \A r \in Runs : KeptAt(pc[r], local[r])

LEMMA KeptStep ==
  ASSUME TypeInv, KeptInv, Keeps, KeptStores', NEW r \in Runs, NEW label, NEW l,
         pc' = [pc EXCEPT ![r] = label], local' = [local EXCEPT ![r] = l], KeptAt(label, l)'
  PROVE  KeptInv'
<1>1. ASSUME NEW q \in Runs PROVE KeptAt(pc[q], local[q])'
  <2>1. CASE q = r
    <3>1. pc'[q] = label /\ local'[q] = l
      BY <2>1 DEF TypeInv, TypeOK
    <3> QED BY <3>1 DEF KeptAt
  <2>2. CASE q # r
    <3>1. /\ pc'[q] = pc[q] /\ local'[q] = local[q]
          /\ local[q].source \in Sources /\ local[q].prior.job \in Jobs /\ local[q].occurrence.job \in Jobs
      BY <2>2 DEF TypeInv, TypeOK, Local, Occurrence
    <3>2. KeptAt(pc[q], local[q])
      BY DEF KeptInv
    <3> QED BY <3>1, <3>2 DEF KeptAt, Keeps
  <2> QED BY <2>1, <2>2
<1> QED BY <1>1 DEF KeptInv

LEMMA KeptEnds ==
  ASSUME TypeInv, KeptInv, Keeps, KeptStores', NEW r \in Runs, End(r) PROVE KeptInv'
<1>1. KeptAt("idle", NoLocal)'
  BY DEF KeptAt
<1> QED BY <1>1, KeptStep DEF End, Goto

LEMMA KeptQuiet ==
  ASSUME TypeInv, KeptInv, UNCHANGED <<row, occ>> PROVE Keeps /\ KeptStores'
<1>1. \A j \in Jobs, s \in Sources : row[j].refs[s].at \in Nat
  BY CommitAssumption DEF CommitAssumption, TypeInv, TypeOK, Row, Ref, Time
<1> QED BY <1>1 DEF Keeps, KeptInv, KeptStores, Dated

\* Merging a reference never moves its date back.
LEMMA MergeKeeps ==
  ASSUME NEW old \in Ref, NEW new \in Ref, ~old.known => old.at = 0
  PROVE  /\ old.known => MergeRef(old, new).known
         /\ old.at <= MergeRef(old, new).at
         /\ ~MergeRef(old, new).known => MergeRef(old, new).at = 0
         /\ MergeRef(old, new) \in Ref
<1>1. old.at \in Nat /\ new.at \in Nat /\ old.known \in BOOLEAN /\ new.known \in BOOLEAN
  BY CommitAssumption DEF CommitAssumption, Ref, Time
<1>2. MergeRef(old, new) \in Ref
  BY MergeRefType
<1> QED BY <1>1, <1>2 DEF MergeRef, Ref

\* A poll that has an admission to record never finds its occurrence unchanged, so it
\* commits what it plans.
LEMMA KeptPlans ==
  ASSUME CommitsOnly, TypeInv, PendInv, KeptInv, NEW r \in Runs, NEW key \in Keys \cup {"none"},
         NEW verdict \in Verdict, NEW j \in Jobs \cup {"none"}, PollResolve(r, key, verdict, j)
  PROVE  KeptInv' /\ Keeps
<1>a. /\ pc[r] = "resolve" /\ verdict # "none" /\ UNCHANGED <<claim, row, occ, outbox>>
      /\ local[r] \in Local
  <2>1. local[r] \in Local /\ local[r].source \in Managed
    BY DEF CommitsOnly, TypeInv, TypeOK, Local
  <2> QED BY <2>1, ResolveShape
<1>1. Keeps /\ KeptStores'
  BY <1>a, KeptQuiet
<1>2. ASSUME GivesUp(r), NEW l, l = [local[r] EXCEPT !.sight = "filtered"] PROVE KeptInv'
  <2>1. l.prior = local[r].prior /\ l.source = local[r].source
    BY <1>a, <1>2 DEF Local
  <2>2. KeptAt("absent", l)'
    BY <1>a, <2>1 DEF KeptInv, KeptAt
  <2> QED BY <1>1, <1>2, <2>2, KeptStep DEF GivesUp
<1>3. ASSUME NEW target \in Jobs, NEW ref \in Ref, NEW stored \in Row, NEW l \in Local,
             Plans(r, key, verdict, j, target, ref, stored, l)
      PROVE  KeptInv'
  <2>1. /\ ref.known /\ ref.verdict # "none" /\ ref.at = clock + 1
        /\ l.prior = local[r].prior /\ l.occurrence.ref = MergeRef(l.prior.ref, ref)
        /\ local' = [local EXCEPT ![r] = l]
        /\ \/ pc' = [pc EXCEPT ![r] = "put"] /\ l.occurrence = l.prior
           \/ pc' = [pc EXCEPT ![r] = "read"]
    BY <1>a, <1>3 DEF Plans
  <2>2. clock \in Nat /\ l.prior.ref.at \in Nat /\ l.prior.ref \in Ref
    BY CommitAssumption DEF CommitAssumption, TypeInv, TypeOK, Local, Occurrence, Ref, Time
  <2>3. l.prior.ref.at <= clock
    BY <1>a, <2>1 DEF PendInv, PendAt
  <2>4. l.occurrence # l.prior
    <3>1. MergeRef(l.prior.ref, ref) = ref
      BY <2>1, <2>2, <2>3 DEF MergeRef
    <3> QED BY <2>1, <2>2, <2>3, <3>1
  <2>5. KeptAt("read", l)'
    BY DEF KeptAt
  <2> QED BY <1>1, <2>1, <2>4, <2>5, KeptStep
<1>4. ASSUME GivesUp(r) PROVE KeptInv'
  BY <1>2, <1>4
<1> QED BY <1>1, <1>3, <1>4, ResolveShape

LEMMA KeptReads ==
  ASSUME TypeInv, KeptInv, NEW r \in Runs,
         \/ \E s \in Sources, sight \in Sights : PollStart(r, s, sight)
         \/ PollAbsent(r) \/ PutOccurrence(r) \/ CommitRead(r) \/ CommitVerify(r) \/ Crash(r)
  PROVE  KeptInv' /\ Keeps
<1>b. /\ row \in [Jobs -> Row] /\ occ \in [Sources -> Occurrence] /\ local[r] \in Local
      /\ local[r].source \in Sources
  BY DEF TypeInv, TypeOK, Local
<1>0. KeptAt(pc[r], local[r]) /\ KeptStores
  BY DEF KeptInv
<1>1. ASSUME NEW s \in Sources, NEW sight \in Sights, PollStart(r, s, sight) PROVE KeptInv' /\ Keeps
  <2>1. ASSUME NEW l, l = [NoLocal EXCEPT !.source = s, !.sight = sight, !.prior = occ[s]],
               NEW label, label = IF sight \in {"open", "closed"} THEN "resolve" ELSE "absent"
        PROVE  KeptInv' /\ Keeps
    <3>1. /\ UNCHANGED stores /\ pc' = [pc EXCEPT ![r] = label] /\ local' = [local EXCEPT ![r] = l]
      BY <1>1, <2>1 DEF PollStart, Goto
    <3>2. l.prior = occ[s] /\ l.source = s /\ label \in {"resolve", "absent"}
      BY <2>1 DEF NoLocal
    <3>3. Keeps /\ KeptStores'
      BY <3>1, KeptQuiet DEF stores
    <3>4. KeptAt(label, l)'
      BY <1>0, <3>1, <3>2 DEF KeptAt, KeptStores, stores
    <3> QED BY <3>1, <3>3, <3>4, KeptStep
  <2> QED BY <2>1
<1>2. CASE PollAbsent(r)
  <2>1. Keeps /\ KeptStores' /\ pc[r] = "absent" /\ UNCHANGED row
    BY <1>2, AbsentShape, KeptQuiet
  <2>2. CASE End(r)
    BY <2>1, <2>2, KeptEnds
  <2>3. ASSUME NEW l \in Local, Misses(r, l) PROVE KeptInv'
    <3>1. /\ l.prior = local[r].prior /\ l.prior.exists /\ l.source = local[r].source
          /\ l.occurrence.job = l.prior.job /\ local' = [local EXCEPT ![r] = l]
          /\ pc' = [pc EXCEPT ![r] = "read"] \/ pc' = [pc EXCEPT ![r] = "putOccurrence"]
      BY <2>3 DEF Misses
    <3>2. KeptAt("read", l)' /\ KeptAt("putOccurrence", l)'
      BY <1>0, <2>1, <3>1 DEF KeptAt
    <3> QED BY <2>1, <3>1, <3>2, KeptStep
  <2> QED BY <1>2, <2>1, <2>2, <2>3, AbsentShape
<1>3. CASE PutOccurrence(r)
  <2>1. /\ pc[r] = "putOccurrence" /\ End(r) /\ UNCHANGED row
        /\ occ' = [occ EXCEPT ![local[r].source] = local[r].occurrence]
    BY <1>3 DEF PutOccurrence
  <2>2. Keeps
    <3>1. \A j \in Jobs, s \in Sources : row[j].refs[s].at \in Nat
      BY CommitAssumption DEF CommitAssumption, TypeInv, TypeOK, Row, Ref, Time
    <3> QED BY <2>1, <3>1 DEF Keeps
  <2>3. KeptStores'
    BY <1>0, <1>b, <2>1 DEF KeptAt, KeptStores, Dated
  <2> QED BY <2>1, <2>2, <2>3, KeptEnds
<1>4. CASE CommitRead(r)
  <2>1. UNCHANGED <<row, occ>> /\ Keeps /\ KeptStores'
    BY <1>4, KeptQuiet DEF CommitRead
  <2>2. CASE End(r)
    BY <2>1, <2>2, KeptEnds
  <2>3. ASSUME NEW l \in Local, l.base = row[l.id],
               local' = [local EXCEPT ![r] = l], pc' = [pc EXCEPT ![r] = "batch"]
        PROVE  KeptInv'
    <3>1. Dated(l.base)
      BY <1>0, <2>3 DEF KeptStores, Local
    <3>2. KeptAt("batch", l)'
      BY <3>1 DEF KeptAt, Dated
    <3> QED BY <2>1, <2>3, <3>2, KeptStep
  <2> QED BY <1>4, <2>1, <2>2, <2>3, ReadShape
<1>5. CASE CommitVerify(r) \/ Crash(r)
  <2>1. End(r) /\ UNCHANGED <<row, occ>>
    BY <1>5 DEF CommitVerify, Crash, stores
  <2> QED BY <2>1, KeptQuiet, KeptEnds
<1> QED BY <1>1, <1>2, <1>3, <1>4, <1>5

\* The transaction of a commit keeps it: it merges into the row it replaces, and its
\* occurrence names that row.
LEMMA KeptCommits ==
  ASSUME TypeInv, KeyInv, KeptInv, NEW r \in Runs, Batch(r) PROVE KeptInv' /\ Keeps
<1> SUFFICES ASSUME NEW l, l = local[r], NEW job, job = JobToWrite(l), NEW ref, ref = RefToWrite(l),
                    NEW base, base = l.base, NEW plan, plan = l.job, NEW source, source = l.source,
                    NEW event, event = l.event
             PROVE  KeptInv' /\ Keeps
  OBVIOUS
<1>b. /\ row \in [Jobs -> Row] /\ occ \in [Sources -> Occurrence] /\ l \in Local
      /\ l.id \in Jobs /\ source \in Sources /\ base \in Row /\ plan \in Row
      /\ event \in BOOLEAN /\ l.occurrence \in Occurrence /\ l.occurrence.ref \in Ref
      /\ l.baseOcc.ref \in Ref
  BY DEF TypeInv, TypeOK, Local, Occurrence
<1>a. pc[r] = "batch" /\ ref \in Ref /\ job \in Row
  BY BatchShape
<1>0. KeptStores /\ Dated(base) /\ l.occurrence.ref.known /\ l.occurrence.job = l.id /\ l.occurrence.exists
  BY <1>a DEF KeptInv, KeptAt, KeyInv, KeysAt
<1>1. ref.known
  <2>1. ASSUME NEW old \in Ref, NEW new \in Ref, new.known PROVE MergeRef(old, new).known
    BY <2>1, MergeRefFacts
  <2> QED BY <1>0, <1>b, <2>1 DEF RefToWrite
<1>2. \A x \in Sources :
        job.refs[x] = IF x = source THEN MergeRef(MergeRef(base.refs[x], plan.refs[x]), ref)
                      ELSE MergeRef(base.refs[x], plan.refs[x])
  <2>1. job = Finalized(base, Projected(base, plan, source, ref), event)
    BY DEF JobToWrite, ProjectedJob
  <2>2. base \in Row /\ plan \in Row /\ source \in Sources /\ event \in BOOLEAN
    BY <1>b
  <2>3. /\ job.exists = plan.exists /\ job.key = plan.key
        /\ \A x \in Sources :
             job.refs[x] = IF x = source THEN MergeRef(MergeRef(base.refs[x], plan.refs[x]), ref)
                           ELSE MergeRef(base.refs[x], plan.refs[x])
    BY <1>a, <2>1, <2>2, CanonicalFacts
  <2> QED BY <2>3
<1>3. \A x \in Sources : /\ base.refs[x].known => job.refs[x].known
                         /\ base.refs[x].at <= job.refs[x].at
                         /\ ~job.refs[x].known => job.refs[x].at = 0
                         /\ x = source => job.refs[x].known
  <2>1. ASSUME NEW x \in Sources, NEW old, old = base.refs[x], NEW new, new = plan.refs[x],
               NEW both, both = MergeRef(old, new)
        PROVE  /\ old.known => job.refs[x].known
               /\ old.at <= job.refs[x].at
               /\ ~job.refs[x].known => job.refs[x].at = 0
               /\ x = source => job.refs[x].known
    <3>1. old \in Ref /\ new \in Ref /\ (~old.known => old.at = 0) /\ old.at \in Nat
      <4>1. base.refs \in [Sources -> Ref] /\ plan.refs \in [Sources -> Ref]
        BY <1>b DEF Row
      <4>2. old \in Ref /\ new \in Ref
        BY <2>1, <4>1
      <4>3. ~old.known => old.at = 0
        BY <1>0, <2>1 DEF Dated
      <4>4. old.at \in Nat
        BY <4>2, CommitAssumption DEF CommitAssumption, Ref, Time
      <4> QED BY <4>2, <4>3, <4>4
    <3>2. /\ both \in Ref /\ (old.known => both.known) /\ old.at <= both.at /\ (~both.known => both.at = 0)
          /\ both.at \in Nat
      <4>1. both \in Ref /\ (old.known => both.known) /\ old.at <= both.at /\ (~both.known => both.at = 0)
        BY <2>1, <3>1, MergeKeeps
      <4> QED BY <4>1, CommitAssumption DEF CommitAssumption, Ref, Time
    <3>3. CASE x # source
      BY <1>2, <2>1, <3>2, <3>3
    <3>4. CASE x = source
      <4>1. ASSUME NEW full, full = MergeRef(both, ref)
            PROVE  full.known /\ both.at <= full.at /\ full.at \in Nat
        <5>1. full.known /\ both.at <= full.at /\ full \in Ref
          BY <1>1, <1>a, <3>2, <4>1, MergeKeeps, MergeRefFacts
        <5> QED BY <5>1, CommitAssumption DEF CommitAssumption, Ref, Time
      <4>2. job.refs[x] = MergeRef(both, ref)
        BY <1>2, <2>1, <3>4
      <4>3. job.refs[x].known /\ both.at <= job.refs[x].at /\ job.refs[x].at \in Nat
        BY <4>1, <4>2
      <4> QED BY <3>1, <3>2, <3>4, <4>3
    <3> QED BY <3>3, <3>4
  <2> QED BY <2>1
<1>4. Keeps /\ KeptStores'
  <2>1. CASE UNCHANGED <<claim, row, occ, outbox>>
    BY <2>1, KeptQuiet
  <2>2. ASSUME \/ row[l.id] = l.base /\ row' = [row EXCEPT ![l.id] = job]
               \/ row[l.id] = job /\ UNCHANGED row,
               occ' = [occ EXCEPT ![l.source] = [l.occurrence EXCEPT !.ref = ref]]
        PROVE  Keeps /\ KeptStores'
    <3>1. \A j \in Jobs : row'[j] = row[j] \/ (j = l.id /\ row[j] = base /\ row'[j] = job)
      BY <1>b, <2>2
    <3>2. row'[l.id] = job
      BY <1>b, <2>2
    <3>3. \A j \in Jobs, s \in Sources : row[j].refs[s].at \in Nat
      BY <1>b, CommitAssumption DEF CommitAssumption, Row, Ref, Time
    <3>4. Keeps
      BY <1>3, <3>1, <3>3 DEF Keeps
    <3>5. \A j \in Jobs : Dated(row'[j])
      BY <1>0, <1>3, <3>1 DEF KeptStores, Dated
    <3>6. ASSUME NEW s \in Sources PROVE occ'[s].exists => row'[occ'[s].job].refs[s].known
      <4>1. CASE s = source
        <5>1. occ'[s].job = l.id
          BY <1>0, <1>b, <2>2, <4>1 DEF Occurrence
        <5> QED BY <1>3, <1>b, <3>2, <4>1, <5>1
      <4>2. CASE s # source
        <5>1. occ'[s] = occ[s] /\ occ[s].job \in Jobs
          BY <1>b, <2>2, <4>2 DEF Occurrence
        <5> QED BY <1>0, <3>4, <5>1 DEF KeptStores, Keeps
      <4> QED BY <4>1, <4>2
    <3> QED BY <3>4, <3>5, <3>6 DEF KeptStores, Dated
  <2> QED BY <2>1, <2>2, BatchShape
<1>5. CASE End(r)
  BY <1>4, <1>5, KeptEnds
<1>6. CASE pc' = [pc EXCEPT ![r] = "read"] /\ UNCHANGED local
  <2>1. local' = [local EXCEPT ![r] = l] /\ KeptAt("read", l)'
    BY <1>6 DEF TypeInv, TypeOK, KeptAt
  <2> QED BY <1>4, <1>6, <2>1, KeptStep
<1>7. ASSUME pc' = [pc EXCEPT ![r] = "verify"], NEW m, local' = [local EXCEPT ![r] = m] PROVE KeptInv'
  <2>1. KeptAt("verify", m)'
    BY DEF KeptAt
  <2> QED BY <1>4, <1>7, <2>1, KeptStep
<1>8. ASSUME pc' = [pc EXCEPT ![r] = "verify"],
             \E inserted \in BOOLEAN : local' = [local EXCEPT ![r] = [l EXCEPT !.inserted = inserted]]
      PROVE  KeptInv'
  BY <1>7, <1>8
<1> QED BY <1>4, <1>5, <1>6, <1>8, BatchShape

\* The invariant, and what every step keeps.
LEMMA KeptNext ==
  ASSUME CommitsOnly, TypeInv, PendInv, KeyInv, KeptInv, [Next]_vars PROVE KeptInv' /\ Keeps
<1>1. ASSUME NEW r \in Runs, Poll(r) PROVE KeptInv' /\ Keeps
  BY <1>1, KeptReads, KeptPlans, KeptCommits DEF Poll
<1>2. ASSUME NEW r \in Runs, Crash(r) PROVE KeptInv' /\ Keeps
  BY <1>2, KeptReads
<1>3. ASSUME NEW r \in Runs PROVE ~Verify(r) /\ ~Mark(r) /\ ~PutJob(r)
  <2>1. Kind[r] = "poll" /\ pc[r] \notin {"put", "inspect", "admit", "mark"}
    BY DEF CommitsOnly, KeptInv, KeptAt
  <2> QED BY <2>1 DEF Verify, VerifyRead, VerifyOccurrence, Admit, Mark, DrainRead, MarkRead, PutJob
<1>4. CASE UNCHANGED vars
  <2>1. Keeps /\ KeptStores' /\ UNCHANGED <<pc, local, row>>
    BY <1>4, KeptQuiet DEF vars, stores
  <2> QED BY <2>1 DEF KeptInv, KeptAt
<1> QED BY <1>1, <1>2, <1>3, <1>4 DEF Next

\* While only polls of managed sources commit, a commit keeps what others have added.
THEOREM KeptInvariant == CommitsOnly => (Spec => []KeptInv /\ [][Keeps]_vars)
<1> SUFFICES ASSUME CommitsOnly PROVE Spec => []KeptInv /\ [][Keeps]_vars
  OBVIOUS
<1>1. Init => KeptInv
  <2> SUFFICES ASSUME Init PROVE KeptInv
    OBVIOUS
  <2>1. /\ \A j \in Jobs : row[j] = NoRow
        /\ \A s \in Sources : ~occ[s].exists
        /\ \A r \in Runs : pc[r] = "idle"
    BY DEF Init, NoOccurrence
  <2>2. \A s \in Sources : NoRow.refs[s].at = 0
    BY DEF NoRow, NoRef
  <2>3. \A r \in Runs : KeptAt("idle", local[r])
    BY DEF KeptAt
  <2> QED BY <2>1, <2>2, <2>3 DEF KeptInv, KeptStores, Dated
<1>2. TypeInv /\ PendInv /\ KeyInv /\ KeptInv /\ [Next]_vars => KeptInv' /\ Keeps
  BY KeptNext
<1> QED BY <1>1, <1>2, TypeInvariant, PendInvariant, KeyInvariant, PTL DEF Spec

\* Two polls that merge into one job at once, each from its own copy, never erase a
\* reference that the other attached.
THEOREM ReferencesStay == CommitsOnly => (Spec => ReferencesKept)
<1>1. Keeps => \A j \in Jobs, s \in Sources : row[j].refs[s].known => row'[j].refs[s].known
  BY DEF Keeps
<1> QED BY <1>1, KeptInvariant, PTL DEF ReferencesKept

\* And never put an admission back that is older than the stored one.
THEOREM AdmissionsGoOn == CommitsOnly => (Spec => AdmissionsAdvance)
<1>1. Keeps => \A j \in Jobs, s \in Sources : row[j].refs[s].at <= row'[j].refs[s].at
  BY DEF Keeps
<1> QED BY <1>1, KeptInvariant, PTL DEF AdmissionsAdvance

\* The job that a source's occurrence names always has the source's reference, also
\* when the poll that wrote one of them stopped half-way.
THEOREM OccurrencesStay == CommitsOnly => (Spec => []OccurrencesInJobs)
<1>1. KeptInv => OccurrencesInJobs
  BY DEF KeptInv, KeptStores, OccurrencesInJobs
<1> QED BY <1>1, KeptInvariant, PTL
=============================================================================
