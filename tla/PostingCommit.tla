--------------------------- MODULE PostingCommit ---------------------------
(***************************************************************************)
(* How observations of sources become canonical jobs: src/poll.ts and       *)
(* src/ingestion/catalog-reconciler.ts plan a change of a job from copies   *)
(* read earlier; commitPostingObservation of cloudflare/d1-store.ts folds   *)
(* it into the stored row by compare-and-swap, with the claim of the        *)
(* posting's key, the occurrence of the source and the notification event.  *)
(* The destination verifier and markSmsSent write the same rows with other  *)
(* guards, or none.                                                         *)
(*                                                                         *)
(* A source lists one posting.  A run is one delivery of a poll, one         *)
(* verification message, or one markSmsSent of the maintenance drain.        *)
(***************************************************************************)
EXTENDS Integers, FiniteSets

CONSTANTS
  Keys,         \* exact posting keys of reviewed providers
  Sources, Jobs, Runs,
  Canonical,    \* [Keys -> Jobs], the job id derived from a key
  Own,          \* [Sources -> Jobs], the job id of an unconfirmed listing
  KeysSeen,     \* [Sources -> SUBSET (Keys \cup {"none"})] identity decisions of its polls
  Sights,       \* what a poll may find of the listing
  Judgements,   \* verdicts of the admission of a managed listing
  Managed,      \* sources whose listings carry an admission
  Trusted,      \* trusted community sources, with delayed alerts
  Official,
  Kind,         \* [Runs -> {"poll", "verify", "mark"}]
  MaxAttempts,  \* attempts of the compare-and-swap, 4 in the code
  MaxTime       \* bound: how many observations and verifications

AllSights == {"open", "closed", "filtered", "missing"}
Verdict == {"none", "eligible", "held", "gone"}

ASSUME CommitAssumption ==
  /\ Canonical \in [Keys -> Jobs] /\ Own \in [Sources -> Jobs]
  /\ \A k \in Keys : Canonical[k] # "none" /\ k # "none"
  /\ KeysSeen \in [Sources -> SUBSET (Keys \cup {"none"})]
  /\ Sights \subseteq AllSights /\ Judgements \subseteq Verdict \ {"none"}
  /\ Managed \subseteq Sources /\ Trusted \subseteq Managed /\ Official \subseteq Sources
  /\ Kind \in [Runs -> {"poll", "verify", "mark"}]
  /\ MaxAttempts \in Nat \ {0} /\ MaxTime \in Nat
  /\ Sources # {} /\ Jobs # {} /\ "none" \notin Jobs

\* Job ids are hashes, of an exact key or of a listing's source and id; and the
\* decisions about one listing confirm no two keys.
ASSUME IdentityAssumption ==
  /\ \A k, l \in Keys : Canonical[k] = Canonical[l] => k = l
  /\ \A s, t \in Sources : Own[s] = Own[t] => s = t
  /\ \A s \in Sources, k \in Keys : Own[s] # Canonical[k]
  /\ \A s \in Sources : \A k, l \in KeysSeen[s] \ {"none"} : k = l

VARIABLES
  claim,      \* POSTING_ALIAS rows: the job a key belongs to
  row,        \* JOB rows
  occ,        \* OCCURRENCE rows, one per source
  outbox,     \* jobs with a new-job event
  incidents,  \* sources with an identity incident
  reported,   \* how many polls report each job as new, at most 2 counted
  clock,
  pc, local

stores == <<claim, row, occ, outbox, incidents, reported, clock>>
vars == <<stores, pc, local>>

-----------------------------------------------------------------------------
(* Rows *)

Time == 0..MaxTime
Ref == [known: BOOLEAN, key: Keys \cup {"none"}, state: {"open", "closed"},
        verdict: Verdict, at: Time]
Row == [exists: BOOLEAN, key: Keys \cup {"none"}, refs: [Sources -> Ref], open: BOOLEAN,
        dead: BOOLEAN, pending: BOOLEAN, sent: BOOLEAN, seen: Time]
Occurrence == [exists: BOOLEAN, job: Jobs, present: BOOLEAN, omissions: 0..2, ref: Ref]

NoRef == [known |-> FALSE, key |-> "none", state |-> "closed", verdict |-> "none", at |-> 0]
NoRow == [exists |-> FALSE, key |-> "none", refs |-> [s \in Sources |-> NoRef], open |-> FALSE,
          dead |-> FALSE, pending |-> FALSE, sent |-> FALSE, seen |-> 0]
SomeJob == CHOOSE j \in Jobs : TRUE
NoOccurrence == [exists |-> FALSE, job |-> SomeJob, present |-> FALSE, omissions |-> 0, ref |-> NoRef]

References(refs) == {refs[s] : s \in {x \in Sources : refs[x].known}}
AnyOpen(refs) == \E ref \in References(refs) : ref.state = "open"

\* mergeSourceOccurrence: the later admission, everything else as it comes in.
MergeRefLastWriter(old, new) == IF new.known THEN new ELSE old
MergeRef(old, new) ==
  IF ~new.known THEN old
  ELSE IF old.known /\ (new.verdict = "none" \/ old.at > new.at)
       THEN [new EXCEPT !.verdict = old.verdict, !.at = old.at] ELSE new

\* deriveCanonicalAdmission, of open references if there are any: an eligible
\* one, or the latest.
Admission(refs) ==
  LET relevant == IF AnyOpen(refs) THEN {ref \in References(refs) : ref.state = "open"}
                  ELSE References(refs)
      judged == {ref \in relevant : ref.verdict # "none"}
      latest == {ref \in judged : \A other \in judged : other.at <= ref.at}
  IN IF judged = {} THEN "none"
     ELSE IF \E ref \in judged : ref.verdict = "eligible" THEN "eligible"
     ELSE IF \E ref \in latest : ref.verdict = "gone" THEN "gone" ELSE "held"

AlertEligible(refs) == Admission(refs) \in {"none", "eligible"}

\* The exact keys a job is known by, and whether they exclude this one.
ConfirmedKeys(job) ==
  LET keys == {ref.key : ref \in References(job.refs)} \ {"none"}
  IN IF keys = {} THEN {} ELSE keys \cup ({job.key} \ {"none"})
Conflicts(key, job) == job.exists /\ ConfirmedKeys(job) # {} /\ key \notin ConfirmedKeys(job)

\* resolvePostingIdentity: the job a key resolves to, "none" for a quarantine.
Resolves(key, preferred) ==
  IF preferred # "none" /\ Conflicts(key, row[preferred]) THEN "none"
  ELSE IF claim[key] = "none" THEN (IF preferred # "none" THEN preferred ELSE Canonical[key])
  ELSE IF preferred \in {"none", claim[key]} THEN claim[key] ELSE "none"

-----------------------------------------------------------------------------
(* What a poll plans: CatalogReconciler *)

\* The reference a listing amounts to, and the job it creates.
ListingRef(key, sight, verdict, now) ==
  [known |-> TRUE, key |-> key, state |-> sight, verdict |-> verdict,
   at |-> IF verdict = "none" THEN 0 ELSE now]

Created(s, ref, now) ==
  LET gone == ref.verdict = "gone"
  IN [NoRow EXCEPT !.exists = TRUE, !.key = ref.key, !.refs[s] = ref, !.dead = gone,
                   !.open = ~gone /\ ref.state = "open", !.pending = TRUE, !.seen = now]

Merged(job, s, ref, now) ==
  LET refs == [job.refs EXCEPT ![s] = MergeRef(@, ref)]
      admission == Admission(refs)
      gone == admission = "gone"
      stillDead == job.dead /\ admission # "eligible"
      official == {x \in Official : job.refs[x].known}
      revives == \/ job.open
                 \/ s \in Official /\ ref.verdict \in {"none", "eligible"}
                 \/ /\ s \in Trusted /\ job.refs[s].known /\ official = {}
                    /\ ref.state = "open" /\ ref.verdict = "eligible"
  IN [job EXCEPT !.refs = refs,
                 !.key = IF @ = "none" THEN ref.key ELSE @,
                 !.dead = gone \/ stillDead,
                 !.pending = @ /\ ~gone,
                 !.open = ~gone /\ ~stillDead /\ revives /\ AnyOpen(refs),
                 !.seen = now]

Closed(job, s, now) ==
  LET refs == [job.refs EXCEPT ![s].state = "closed"]
  IN [job EXCEPT !.refs = refs, !.open = @ /\ AnyOpen(refs), !.seen = now]

\* A listing makes an alert when it creates the job, retries a creation that was
\* not reported, or becomes eligible late; else a new job is stored unalerted.
Deliverable(job, ref) ==
  job.open /\ AlertEligible(job.refs) /\ ref.verdict \in {"none", "eligible"}
Promoted(s, before, ref, after) ==
  /\ s \in Trusted /\ before # "eligible"
  /\ ref.verdict = "eligible" /\ Admission(after.refs) = "eligible"

Listed(s, stored, prior, ref, now) ==
  LET job == IF stored.exists THEN Merged(stored, s, ref, now) ELSE Created(s, ref, now)
      new == \/ ~stored.exists
             \/ ~prior.exists /\ {x \in Sources : stored.refs[x].known} = {s}
      late == Promoted(s, prior.ref.verdict, ref, job)
  IN IF new /\ ~Deliverable(job, ref) THEN [job |-> [job EXCEPT !.pending = FALSE], event |-> FALSE]
     ELSE IF ~new /\ late /\ Deliverable(job, ref)
     THEN [job |-> [job EXCEPT !.pending = TRUE], event |-> TRUE]
     ELSE [job |-> job, event |-> new]

-----------------------------------------------------------------------------
(* Runs *)

NoLocal == [source |-> CHOOSE s \in Sources : TRUE, now |-> 0, prior |-> NoOccurrence,
            sight |-> "missing", id |-> SomeJob, job |-> NoRow, occurrence |-> NoOccurrence,
            event |-> FALSE, attempts |-> 0, base |-> NoRow, baseOcc |-> NoOccurrence,
            inserted |-> FALSE]

Init ==
  /\ claim = [k \in Keys |-> "none"]
  /\ row = [j \in Jobs |-> NoRow]
  /\ occ = [s \in Sources |-> NoOccurrence]
  /\ outbox = {} /\ incidents = {}
  /\ reported = [j \in Jobs |-> 0]
  /\ clock = 0
  /\ pc = [r \in Runs |-> "idle"]
  /\ local = [r \in Runs |-> NoLocal]

Goto(r, label) == pc' = [pc EXCEPT ![r] = label]
End(r) == Goto(r, "idle") /\ local' = [local EXCEPT ![r] = NoLocal]

\* A poll has its snapshot and reads the occurrence it left last time.
PollStart(r, s, sight) ==
  /\ pc[r] = "idle" /\ Kind[r] = "poll"
  /\ local' = [local EXCEPT ![r] = [NoLocal EXCEPT !.source = s, !.sight = sight, !.prior = occ[s]]]
  /\ Goto(r, IF sight \in {"open", "closed"} THEN "resolve" ELSE "absent")
  /\ UNCHANGED stores

Incident(r) == incidents' = incidents \cup {local[r].source}

\* The stored job a listing starts from: the one of its occurrence, or one that
\* already has a reference of the source.
Candidates(s, prior) ==
  IF prior.exists /\ row[prior.job].exists THEN {prior.job}
  ELSE LET referred == {j \in Jobs : row[j].refs[s].known}
       IN IF referred = {} THEN {"none"} ELSE referred

\* resolveListings: the job of the listing is resolved and read; then its
\* destination is inspected, over the network, before anything is planned.
PollResolve(r, key, verdict, preferred) ==
  LET s == local[r].source
      target == IF key # "none" THEN Resolves(key, preferred)
                ELSE IF preferred # "none" THEN preferred ELSE Own[s]
  IN /\ pc[r] = "resolve" /\ key \in KeysSeen[s] /\ preferred \in Candidates(s, local[r].prior)
     /\ verdict \in (IF s \in Managed THEN Judgements ELSE {"none"})
     /\ IF target = "none"
        THEN /\ Incident(r) /\ Goto(r, "absent")
             /\ local' = [local EXCEPT ![r].sight = "filtered"]
             /\ UNCHANGED clock
        ELSE /\ clock < MaxTime /\ clock' = clock + 1
             /\ LET ref == ListingRef(key, local[r].sight, verdict, clock')
                    plan == Listed(s, IF key = "none" /\ preferred = "none" THEN NoRow ELSE row[target],
                                   local[r].prior, ref, clock')
                    next == [exists |-> TRUE, job |-> target, present |-> TRUE, omissions |-> 0,
                             ref |-> MergeRef(local[r].prior.ref, ref)]
                IN /\ local' = [local EXCEPT ![r] =
                        [@ EXCEPT !.now = clock', !.id = target, !.job = plan.job,
                                  !.event = plan.event, !.occurrence = next]]
                   /\ Goto(r, IF next = local[r].prior THEN "put" ELSE "read")
             /\ UNCHANGED incidents
     /\ UNCHANGED <<claim, row, occ, outbox, reported>>

\* A row that is not listed any more: closed at the second poll that misses it.
PollAbsent(r) ==
  LET s == local[r].source
      prior == local[r].prior
      omissions == IF prior.omissions < 2 THEN prior.omissions + 1 ELSE 2
      kept == [prior EXCEPT !.present = TRUE, !.omissions = 0]
      missed == [prior EXCEPT !.present = FALSE, !.omissions = omissions,
                              !.ref = IF omissions = 2 THEN [@ EXCEPT !.state = "closed"] ELSE @]
      next == IF local[r].sight = "filtered" THEN kept ELSE missed
      closing == ~next.present /\ omissions = 2 /\ row[prior.job].exists
  IN /\ pc[r] = "absent"
     /\ IF ~prior.exists \/ (next = kept /\ kept = prior)
        THEN End(r) /\ UNCHANGED clock
        ELSE /\ IF closing THEN clock < MaxTime /\ clock' = clock + 1 ELSE UNCHANGED clock
             /\ local' = [local EXCEPT ![r] =
                  [@ EXCEPT !.now = clock', !.id = prior.job, !.occurrence = next,
                            !.job = IF closing THEN Closed(row[prior.job], s, clock') ELSE NoRow]]
             /\ Goto(r, IF closing THEN "read" ELSE "putOccurrence")
     /\ UNCHANGED <<claim, row, occ, outbox, incidents, reported>>

-----------------------------------------------------------------------------
(* Writing the plan *)

\* putSourceOccurrence and putInternship write what they are given.
PutOccurrence(r) ==
  /\ pc[r] = "putOccurrence"
  /\ occ' = [occ EXCEPT ![local[r].source] = local[r].occurrence]
  /\ End(r)
  /\ UNCHANGED <<claim, row, outbox, incidents, reported, clock>>

PutJob(r) ==
  /\ pc[r] = "put"
  /\ row' = [row EXCEPT ![local[r].id] = local[r].job]
  /\ End(r)
  /\ UNCHANGED <<claim, occ, outbox, incidents, reported, clock>>

\* commitPostingObservation reads the job and the occurrence again.
CommitRead(r) ==
  LET l == local[r]
      mine == l.job.key = "none" \/ Resolves(l.job.key, l.id) = l.id
      fits == l.job.key = "none" \/ ~Conflicts(l.job.key, row[l.id])
  IN /\ pc[r] = "read"
     /\ IF (l.attempts = 0 => mine) /\ fits
        THEN /\ local' = [local EXCEPT ![r] =
                  [l EXCEPT !.attempts = l.attempts + 1, !.base = row[l.id],
                            !.baseOcc = occ[l.source]]]
             /\ Goto(r, "batch")
             /\ UNCHANGED incidents
        ELSE Incident(r) /\ End(r)
     /\ UNCHANGED <<claim, row, occ, outbox, reported, clock>>

\* postingObservationProjection and postingObservationNotificationProjection.
Pending(sent, current, proposed) == ~sent /\ (current.pending \/ proposed.pending)

ProjectedForgetful(current, proposed, s, ref) == [proposed EXCEPT !.refs[s] = MergeRef(@, ref)]
Projected(current, proposed, s, ref) ==
  LET refs == [x \in Sources |-> LET both == MergeRef(current.refs[x], proposed.refs[x])
                                 IN IF x = s THEN MergeRef(both, ref) ELSE both]
      sent == current.sent \/ proposed.sent
  IN [proposed EXCEPT
        !.refs = refs,
        !.open = ~proposed.dead /\ AnyOpen(refs) /\ (current.open \/ proposed.open),
        !.sent = sent,
        !.pending = Pending(sent, current, proposed),
        !.seen = IF current.seen > @ THEN current.seen ELSE @]

AlertableOnce(job) == TRUE
Alertable(job) == job.open /\ AlertEligible(job.refs)
FinalizedWithoutEvent(current, projected, event) == projected
Finalized(current, projected, event) ==
  IF event /\ ~Alertable(projected)
  THEN [projected EXCEPT !.pending = ~projected.sent /\ current.pending] ELSE projected

\* The guards of the transaction's statements.
Unguarded(key, j) == TRUE
Free(key, j) == key = "none" \/ claim[key] \in {"none", j}
Still(j, base) == row[j] = base
AnyProjection(j, canonical) == TRUE
Projection(j, canonical) == row[j] = canonical
Again(j) == TRUE
Fresh(j) == j \notin outbox
Retry(attempts) == attempts < MaxAttempts

\* The transaction: the job row if it is still the one read, and with it the
\* claim of the key, the occurrence and the event.
Batch(r) ==
  LET l == local[r]
      ref == IF l.baseOcc.exists THEN MergeRef(l.baseOcc.ref, l.occurrence.ref) ELSE l.occurrence.ref
      projected == Projected(l.base, l.job, l.source, ref)
      canonical == Finalized(l.base, projected, l.event)
      event == l.event /\ Alertable(projected)
      free == Free(l.job.key, l.id)
      swapped == free /\ Still(l.id, l.base)
      written == swapped \/ (free /\ Projection(l.id, canonical))
  IN /\ pc[r] = "batch"
     /\ row' = IF swapped THEN [row EXCEPT ![l.id] = canonical] ELSE row
     /\ claim' = [k \in Keys |-> IF written /\ k = l.job.key /\ claim[k] = "none" THEN l.id ELSE claim[k]]
     /\ occ' = IF written THEN [occ EXCEPT ![l.source] = [l.occurrence EXCEPT !.ref = ref]] ELSE occ
     /\ outbox' = IF written /\ event THEN outbox \cup {l.id} ELSE outbox
     /\ IF swapped
        THEN /\ local' = [local EXCEPT ![r].inserted = event /\ Fresh(l.id)]
             /\ Goto(r, "verify")
        ELSE IF Retry(l.attempts) THEN Goto(r, "read") /\ UNCHANGED local
        ELSE End(r)
     /\ UNCHANGED <<incidents, reported, clock>>

\* The claims are resolved once more; then the poll reports a job it announced.
CommitVerify(r) ==
  LET l == local[r]
      mine == l.job.key = "none" \/ Resolves(l.job.key, l.id) = l.id
  IN /\ pc[r] = "verify"
     /\ IF mine THEN UNCHANGED incidents ELSE Incident(r)
     /\ reported' = IF mine /\ l.inserted /\ reported[l.id] < 2
                    THEN [reported EXCEPT ![l.id] = @ + 1] ELSE reported
     /\ End(r)
     /\ UNCHANGED <<claim, row, occ, outbox, clock>>

-----------------------------------------------------------------------------
(* The destination verifier: persistDestinationAdmission *)

VerifyRead(r, j, s) ==
  /\ pc[r] = "idle" /\ Kind[r] = "verify" /\ clock < MaxTime
  /\ s \in Managed /\ row[j].refs[s].known
  /\ clock' = clock + 1
  /\ local' = [local EXCEPT ![r] = [NoLocal EXCEPT !.source = s, !.now = clock', !.id = j, !.base = row[j]]]
  /\ Goto(r, "inspect")
  /\ UNCHANGED <<claim, row, occ, outbox, incidents, reported>>

VerifyOccurrence(r) ==
  /\ pc[r] = "inspect"
  /\ local' = [local EXCEPT ![r].baseOcc = occ[local[r].source]]
  /\ Goto(r, "admit")
  /\ UNCHANGED stores

\* putAdmissionState writes the whole job if one reference of it, and the
\* occurrence, are those the verifier read.
Current(l) ==
  /\ row[l.id].exists /\ row[l.id].refs[l.source] = l.base.refs[l.source]
  /\ l.baseOcc.exists => occ[l.source] = l.baseOcc

Admit(r, verdict) ==
  LET l == local[r]
      s == l.source
      ref == [l.base.refs[s] EXCEPT !.verdict = verdict, !.at = l.now]
      refs == [l.base.refs EXCEPT ![s] = ref]
      gone == verdict = "gone"
      reopens == l.base.dead /\ verdict = "eligible" /\ AnyOpen(refs) /\ Admission(refs) = "eligible"
      late == l.base.open /\ Promoted(s, l.base.refs[s].verdict, ref, [l.base EXCEPT !.refs = refs])
      next == [l.base EXCEPT !.refs = refs,
                             !.open = ~gone /\ (@ \/ reopens),
                             !.dead = gone \/ (@ /\ ~reopens),
                             !.pending = ~gone /\ (@ \/ late)]
  IN /\ pc[r] = "admit"
     /\ IF Current(l)
        THEN /\ row' = [row EXCEPT ![l.id] = next]
             /\ occ' = IF l.baseOcc.exists THEN [occ EXCEPT ![s].ref = ref] ELSE occ
             /\ outbox' = IF late THEN outbox \cup {l.id} ELSE outbox
        ELSE UNCHANGED <<row, occ, outbox>>
     /\ End(r)
     /\ UNCHANGED <<claim, incidents, reported, clock>>

-----------------------------------------------------------------------------
(* markSmsSent, after the drain has pushed a pending job *)

DrainRead(r, j) ==
  /\ pc[r] = "idle" /\ Kind[r] = "mark" /\ row[j].pending /\ Alertable(row[j])
  /\ local' = [local EXCEPT ![r] = [NoLocal EXCEPT !.id = j]]
  /\ Goto(r, "mark")
  /\ UNCHANGED stores

MarkRead(r) ==
  /\ pc[r] = "mark"
  /\ local' = [local EXCEPT ![r].job = [row[local[r].id] EXCEPT !.pending = FALSE, !.sent = TRUE]]
  /\ Goto(r, "put")
  /\ UNCHANGED stores

\* The isolate dies, or a statement fails: the queue delivers the message again.
Crash(r) == pc[r] # "idle" /\ End(r) /\ UNCHANGED stores

-----------------------------------------------------------------------------
Poll(r) ==
  \/ \E s \in Sources, sight \in Sights : PollStart(r, s, sight)
  \/ \E key \in Keys \cup {"none"}, verdict \in Verdict, j \in Jobs \cup {"none"} :
       PollResolve(r, key, verdict, j)
  \/ PollAbsent(r) \/ PutOccurrence(r)
  \/ CommitRead(r) \/ Batch(r) \/ CommitVerify(r)

Verify(r) ==
  \/ \E j \in Jobs, s \in Sources : VerifyRead(r, j, s)
  \/ VerifyOccurrence(r)
  \/ \E verdict \in Judgements : Admit(r, verdict)

Mark(r) == (\E j \in Jobs : DrainRead(r, j)) \/ MarkRead(r)

Next == \E r \in Runs : Poll(r) \/ Verify(r) \/ Mark(r) \/ PutJob(r) \/ Crash(r)

Spec == Init /\ [][Next]_vars
-----------------------------------------------------------------------------
(* Properties *)

PC == {"idle", "resolve", "absent", "read", "batch", "verify", "put", "putOccurrence",
       "inspect", "admit", "mark"}
Local == [source: Sources, now: Time, prior: Occurrence, sight: AllSights, id: Jobs, job: Row,
          occurrence: Occurrence, event: BOOLEAN, attempts: 0..MaxAttempts, base: Row,
          baseOcc: Occurrence, inserted: BOOLEAN]

\* Every row and local variable holds a value the code's types allow.
TypeOK ==
  /\ claim \in [Keys -> Jobs \cup {"none"}]
  /\ row \in [Jobs -> Row] /\ occ \in [Sources -> Occurrence]
  /\ outbox \subseteq Jobs /\ incidents \subseteq Sources
  /\ reported \in [Jobs -> 0..2] /\ clock \in Time
  /\ pc \in [Runs -> PC] /\ local \in [Runs -> Local]

\* Polls of several sources adopt keys at once and stale copies of jobs are put back,
\* and still a job that carries a posting key owns the claim of that key, and two
\* sources that list one exact posting are attached to the same job.
OneJobPerPosting ==
  /\ \A j \in Jobs : row[j].key # "none" => claim[row[j].key] = j
  /\ \A s, t \in Sources :
       occ[s].exists /\ occ[t].exists /\ occ[s].ref.key = occ[t].ref.key /\ occ[s].ref.key # "none"
         => occ[s].job = occ[t].job

\* At most one of the polls that see a job first reports it as new.
ReportedOnce == \A j \in Jobs : reported[j] <= 1

\* An event enters the outbox only with a job that is open and eligible for
\* alerts in the row that the same transaction leaves.
EventWithAlertableJob ==
  [][\A j \in outbox' \ outbox : row'[j].open /\ Admission(row'[j].refs) \in {"none", "eligible"}]_vars

\* A job is marked for the push drain only if the outbox has its event: the two
\* ways of alerting, and the poll, the verifier and the drain, agree on it.
PendingHasEvent == \A j \in Jobs : row[j].pending => j \in outbox

\* No writer erases a reference that another source has attached to a job.
ReferencesKept == [][\A j \in Jobs, s \in Sources : row[j].refs[s].known => row'[j].refs[s].known]_vars

\* An older admission never replaces a newer one in a job.
AdmissionsAdvance == [][\A j \in Jobs, s \in Sources : row[j].refs[s].at <= row'[j].refs[s].at]_vars

\* An occurrence never exists without its reference in the job it names.
OccurrencesInJobs == \A s \in Sources : occ[s].exists => row[occ[s].job].refs[s].known

\* What a job says of a source's listing is what the source's occurrence says.
JobsAgreeWithOccurrences ==
  \A s \in Sources : occ[s].exists => row[occ[s].job].refs[s].state = occ[s].ref.state
=============================================================================
