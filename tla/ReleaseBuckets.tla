--------------------------- MODULE ReleaseBuckets ---------------------------
(***************************************************************************)
(* Grouped alerts of one employer: src/notification-pipeline-handler.ts.    *)
(* The catalog stream turns outbox rows into candidates; the aggregation    *)
(* worker collects candidates in the active bucket; the flush worker closes *)
(* a bucket, makes a release of its jobs that are still eligible, and       *)
(* publishes an intent for every user whose filter matches.                 *)
(*                                                                         *)
(* A bucket is named by the candidate that opened it, as its hashed id is.   *)
(* Queues deliver at least once, and a message that fails MaxReceives times  *)
(* goes to the dead-letter queue.                                           *)
(***************************************************************************)
EXTENDS Integers, FiniteSets

CONSTANTS
  Jobs, Users,
  Runs,              \* concurrent invocations of the workers
  Created,           \* [Jobs -> Nat], when the event of a job was created
  Filters,           \* [Users -> SUBSET Jobs], the jobs the filter of a user matches
  NewFilters,        \* and those it matches if the user changes it
  Window,            \* how long after its opening a bucket takes candidates
  Attempts,          \* tries of an aggregation to find or open a bucket, 4
  MaxReceives,       \* maxReceiveCount of the queues, 4
  MaxCrashes,        \* bound: invocations that die
  MaxEdits           \* bound: jobs that close and filters that change

ASSUME BucketAssumption ==
  /\ Created \in [Jobs -> Nat] /\ Filters \in [Users -> SUBSET Jobs] /\ NewFilters \in [Users -> SUBSET Jobs]
  /\ Window \in Nat
  /\ Attempts \in Nat \ {0} /\ MaxReceives \in Nat \ {0}
  /\ MaxCrashes \in Nat /\ MaxEdits \in Nat
  /\ Jobs # {} /\ Users # {} /\ "none" \notin Jobs

VARIABLES
  announced,   \* jobs with an OUTBOX row
  stream,      \* inserted rows the stream publisher has yet to see
  queue,       \* messages of the candidate and flush queues; copies that wait are one
  dlq,         \* messages and stream records given up
  bucket,      \* RELEASE_BUCKET rows
  pointer,     \* the ACTIVE row of the employer
  eligible,    \* jobs that may be alerted
  filter,      \* the jobs the filter of each user matches
  changed,     \* users who changed it
  release,     \* RELEASE rows
  intents,     \* published intents
  crashes,
  pc, local    \* where each invocation is, and its variables

rows == <<bucket, pointer, release, intents>>
world == <<announced, eligible, filter, changed>>
vars == <<rows, world, stream, queue, dlq, crashes, pc, local>>

-----------------------------------------------------------------------------
Message == [kind: {"candidate", "flush"}, id: Jobs, tries: 0..(MaxReceives - 1)]
Bucket == [exists: BOOLEAN, jobs: SUBSET Jobs, closed: BOOLEAN, processed: BOOLEAN]
ReleaseId == [opened: Nat, jobs: SUBSET Jobs]
Personal == [user: Users, id: ReleaseId, jobs: SUBSET Jobs]

Sent(kind, j) == [kind |-> kind, id |-> j, tries |-> 0]
NoBucket == [exists |-> FALSE, jobs |-> {}, closed |-> FALSE, processed |-> FALSE]
SomeJob == CHOOSE j \in Jobs : TRUE
NoLocal == [msg |-> Sent("flush", SomeJob), bucket |-> SomeJob, prior |-> "none", attempts |-> 0,
            all |-> {}, todo |-> {}, plan |-> {}]

Init ==
  /\ announced = {} /\ stream = {} /\ queue = {} /\ dlq = {}
  /\ bucket = [j \in Jobs |-> NoBucket]
  /\ pointer = [bucket |-> "none", closed |-> FALSE]
  /\ eligible = Jobs
  /\ filter = Filters /\ changed = {}
  /\ release = {} /\ intents = {} /\ crashes = 0
  /\ pc = [r \in Runs |-> "idle"] /\ local = [r \in Runs |-> NoLocal]

Goto(r, label) == pc' = [pc EXCEPT ![r] = label]
Ends(r) == Goto(r, "idle") /\ local' = [local EXCEPT ![r] = NoLocal]
Succeeds(r) == Ends(r) /\ UNCHANGED <<queue, dlq>>

\* The message is delivered again, or given up.
Fails(r) ==
  LET m == local[r].msg
      again == m.tries + 1 < MaxReceives
  IN /\ queue' = IF again THEN queue \cup {[m EXCEPT !.tries = m.tries + 1]} ELSE queue
     /\ dlq' = IF again THEN dlq ELSE dlq \cup {m}
     /\ Ends(r)

-----------------------------------------------------------------------------
(* The catalog, the users and the stream *)

Edits == Cardinality(Jobs \ eligible) + Cardinality(changed)

Announce(j) ==
  /\ j \notin announced
  /\ announced' = announced \cup {j}
  /\ stream' = stream \cup {Sent("candidate", j)}
  /\ UNCHANGED <<rows, eligible, filter, changed, queue, dlq, crashes, pc, local>>

\* A job that closes before its event is written gets none.
CloseJob(j) ==
  /\ j \in announced \cap eligible /\ Edits < MaxEdits
  /\ eligible' = eligible \ {j}
  /\ UNCHANGED <<rows, announced, filter, changed, stream, queue, dlq, crashes, pc, local>>

ChangeFilter(u) ==
  /\ u \notin changed /\ Edits < MaxEdits /\ NewFilters[u] # filter[u]
  /\ filter' = [filter EXCEPT ![u] = NewFilters[u]]
  /\ changed' = changed \cup {u}
  /\ UNCHANGED <<rows, announced, eligible, stream, queue, dlq, crashes, pc, local>>

Dies == crashes < MaxCrashes /\ crashes' = crashes + 1

\* A record that fails after its retries goes to the StreamFailureQueue. One crash stands
\* for the failing attempts.
StreamGivesUp(m) ==
  /\ Dies
  /\ stream' = stream \ {m} /\ dlq' = dlq \cup {m}
  /\ UNCHANGED queue

\* streamPublisher sends a row on; if it dies before the checkpoint, once more.
StreamPublish(m) ==
  /\ m \in stream
  /\ \/ /\ queue' = queue \cup {m} /\ UNCHANGED dlq
        /\ \/ stream' = stream \ {m} /\ UNCHANGED crashes
           \/ Dies /\ UNCHANGED stream
     \/ StreamGivesUp(m)
  /\ UNCHANGED <<rows, world, pc, local>>

-----------------------------------------------------------------------------
(* aggregateCandidate *)

AggregateStart(r, m) ==
  /\ pc[r] = "idle" /\ m \in queue /\ m.kind = "candidate"
  /\ queue' = queue \ {m}
  /\ IF m.id \in eligible
     THEN Goto(r, "point") /\ local' = [local EXCEPT ![r] = [NoLocal EXCEPT !.msg = m]]
     ELSE UNCHANGED <<pc, local>>
  /\ UNCHANGED <<rows, world, stream, dlq, crashes>>

\* candidateFitsActiveBucket.
Fits(j) ==
  pointer.bucket # "none" /\ ~pointer.closed /\ Created[j] <= Created[pointer.bucket] + Window

ReadPointer(r) ==
  /\ pc[r] = "point"
  /\ local' = [local EXCEPT ![r].prior = pointer.bucket]
  /\ Goto(r, IF Fits(local[r].msg.id) THEN "join" ELSE "open")
  /\ UNCHANGED <<rows, world, stream, queue, dlq, crashes>>

JoinableClosed(b) == bucket[b].exists
Joinable(b) == bucket[b].exists /\ ~bucket[b].closed

\* A candidate that loses the race against the flush opens a bucket of its own.
Join(r) ==
  LET b == local[r].prior
  IN /\ pc[r] = "join"
     /\ IF Joinable(b)
        THEN /\ bucket' = [bucket EXCEPT ![b].jobs = @ \cup {local[r].msg.id}]
             /\ local' = [local EXCEPT ![r].bucket = b, ![r].prior = "none", ![r].attempts = 0]
             /\ Goto(r, "schedule")
        ELSE Goto(r, "open") /\ UNCHANGED <<bucket, local>>
     /\ UNCHANGED <<pointer, release, intents, world, stream, queue, dlq, crashes>>

TriesLeft(attempts) == attempts + 1 < Attempts

\* The transaction that puts the bucket and moves the pointer on to it.
Open(r) ==
  LET j == local[r].msg.id
      mine == ~bucket[j].exists /\ pointer.bucket = local[r].prior
  IN /\ pc[r] = "open"
     /\ \/ /\ mine
           /\ bucket' = [bucket EXCEPT ![j] = [NoBucket EXCEPT !.exists = TRUE, !.jobs = {j}]]
           /\ pointer' = [bucket |-> j, closed |-> FALSE]
           /\ stream' = stream \cup {Sent("flush", j)}
           /\ local' = [local EXCEPT ![r].bucket = j, ![r].prior = "none", ![r].attempts = 0]
           /\ Goto(r, "schedule")
           /\ UNCHANGED <<queue, dlq>>
        \/ /\ ~mine /\ TriesLeft(local[r].attempts)
           /\ local' = [local EXCEPT ![r].attempts = @ + 1, ![r].prior = "none"]
           /\ Goto(r, "point")
           /\ UNCHANGED <<bucket, pointer, stream, queue, dlq>>
        \/ ~mine /\ ~TriesLeft(local[r].attempts) /\ Fails(r) /\ UNCHANGED <<bucket, pointer, stream>>
     /\ UNCHANGED <<release, intents, world, crashes>>

\* The flush is scheduled directly as well as by the stream.
Schedule(r) ==
  /\ pc[r] = "schedule"
  /\ queue' = queue \cup {Sent("flush", local[r].bucket)}
  /\ Ends(r)
  /\ UNCHANGED <<rows, world, stream, dlq, crashes>>

-----------------------------------------------------------------------------
(* flushBucket *)

DoneOnceClosed(b) == bucket[b].processed \/ bucket[b].closed
Done(b) == ~bucket[b].exists \/ bucket[b].processed

FlushStart(r, m) ==
  /\ pc[r] = "idle" /\ m \in queue /\ m.kind = "flush"
  /\ queue' = queue \ {m}
  /\ IF Done(m.id) THEN UNCHANGED <<pc, local>>
     ELSE Goto(r, "close") /\ local' = [local EXCEPT ![r] = [NoLocal EXCEPT !.msg = m, !.bucket = m.id]]
  /\ UNCHANGED <<rows, world, stream, dlq, crashes>>

Close(r) ==
  /\ pc[r] = "close"
  /\ bucket' = [bucket EXCEPT ![local[r].bucket].closed = TRUE]
  /\ Goto(r, "unpoint")
  /\ UNCHANGED <<pointer, release, intents, world, stream, queue, dlq, crashes, local>>

Unpoint(r) ==
  /\ pc[r] = "unpoint"
  /\ pointer' = [pointer EXCEPT !.closed = @ \/ pointer.bucket = local[r].bucket]
  /\ Goto(r, "reread")
  /\ UNCHANGED <<bucket, release, intents, world, stream, queue, dlq, crashes, local>>

AfterAnyUser(todo) == "process"
AfterUser(todo) == IF todo = {} THEN "process" ELSE "put"

\* createCandidateRelease names a release by its opening and its jobs.
Plan(u, opened, jobs) ==
  [user |-> u, id |-> [opened |-> opened, jobs |-> jobs], jobs |-> filter[u] \cap jobs]

\* The final job set, those of it still eligible, and the releases of the users
\* they match. The code reads the preferences next; a change in between could as
\* well come first.
Reread(r) ==
  LET b == local[r].bucket
      jobs == bucket[b].jobs \cap eligible
      todo == {p \in {Plan(u, Created[b], jobs) : u \in Users} : p.jobs # {}}
  IN /\ pc[r] = "reread"
     /\ local' = [local EXCEPT ![r].all = bucket[b].jobs, ![r].todo = todo]
     /\ Goto(r, IF todo = {} THEN "process" ELSE "put")
     /\ UNCHANGED <<rows, world, stream, queue, dlq, crashes>>

\* The preferences come in the order of their index.
First(todo) == CHOOSE plan \in todo : TRUE

\* putRelease refuses another release under the same name.
PutRelease(r, plan) ==
  LET stored == {x \in release : x.user = plan.user /\ x.id = plan.id}
  IN /\ pc[r] = "put" /\ plan = First(local[r].todo)
     /\ IF stored \subseteq {plan}
        THEN /\ release' = release \cup {plan}
             /\ local' = [local EXCEPT ![r].todo = @ \ {plan}, ![r].plan = {plan}]
             /\ Goto(r, "publish")
             /\ UNCHANGED <<queue, dlq>>
        ELSE Fails(r) /\ UNCHANGED release
     /\ UNCHANGED <<bucket, pointer, intents, world, stream, crashes>>

Publish(r) ==
  /\ pc[r] = "publish"
  /\ intents' = intents \cup local[r].plan
  /\ local' = [local EXCEPT ![r].plan = {}]
  /\ Goto(r, AfterUser(local[r].todo))
  /\ UNCHANGED <<bucket, pointer, release, world, stream, queue, dlq, crashes>>

Process(r) ==
  /\ pc[r] = "process"
  /\ bucket' = [bucket EXCEPT ![local[r].bucket].processed = TRUE]
  /\ Succeeds(r)
  /\ UNCHANGED <<pointer, release, intents, world, stream, crashes>>

\* A worker dies or a request of it fails.
Crash(r) ==
  /\ pc[r] # "idle" /\ Dies
  /\ Fails(r)
  /\ UNCHANGED <<rows, world, stream>>

-----------------------------------------------------------------------------
Aggregate(r) == (\E m \in queue : AggregateStart(r, m)) \/ ReadPointer(r) \/ Join(r) \/ Open(r) \/ Schedule(r)

Flush(r) ==
  \/ \E m \in queue : FlushStart(r, m)
  \/ Close(r) \/ Unpoint(r) \/ Reread(r)
  \/ \E plan \in local[r].todo : PutRelease(r, plan)
  \/ Publish(r) \/ Process(r)

Environment ==
  \/ \E j \in Jobs : Announce(j) \/ CloseJob(j)
  \/ \E u \in Users : ChangeFilter(u)

Service == (\E m \in stream : StreamPublish(m)) \/ \E r \in Runs : Aggregate(r) \/ Flush(r)

Next == Service \/ Environment \/ \E r \in Runs : Crash(r)

Spec == Init /\ [][Next]_vars

\* The stream and the queues go on delivering, and the workers working.
FairSpec == Spec /\ WF_vars(Service)
-----------------------------------------------------------------------------
(* Properties *)

PC == {"idle", "point", "join", "open", "schedule", "close", "unpoint", "reread", "put",
       "publish", "process"}
Local == [msg: Message, bucket: Jobs, prior: Jobs \cup {"none"}, attempts: 0..(Attempts - 1),
          all: SUBSET Jobs, todo: SUBSET Personal, plan: SUBSET Personal]

\* Every row, message and local variable holds a value the code's types allow.
TypeOK ==
  /\ announced \subseteq Jobs /\ eligible \subseteq Jobs /\ changed \subseteq Users
  /\ filter \in [Users -> SUBSET Jobs]
  /\ stream \subseteq Message /\ queue \subseteq Message /\ dlq \subseteq Message
  /\ bucket \in [Jobs -> Bucket]
  /\ pointer \in [bucket: Jobs \cup {"none"}, closed: BOOLEAN]
  /\ release \subseteq Personal /\ intents \subseteq Personal
  /\ crashes \in 0..MaxCrashes
  /\ pc \in [Runs -> PC] /\ local \in [Runs -> Local]

\* From its second read on a flush works on the final job set of the bucket: no
\* aggregation that races with it adds a candidate the release leaves out.
FlushSeesAll ==
  \A r \in Runs : pc[r] \in {"put", "publish", "process"} =>
    local[r].all = bucket[local[r].bucket].jobs

\* The published intents are those of a release with all jobs of the bucket that
\* are eligible: one for every user whose filter, still the same, matches.
Covered(b, published) ==
  \E jobs \in SUBSET bucket[b].jobs :
    /\ bucket[b].jobs \cap eligible \subseteq jobs
    /\ \A u \in Users \ changed : filter[u] \cap jobs # {} => Plan(u, Created[b], jobs) \in published

\* A processed bucket, however many workers flushed it and wherever they died,
\* is covered by intents that were published.
ProcessedIsPublished == \A b \in Jobs : bucket[b].processed => Covered(b, intents)

\* No announced job is lost silently: it ends in a processed bucket, or is not
\* eligible, or a message that should have brought it there is a dead letter.
Settled(j) ==
  \/ j \notin eligible
  \/ \E b \in Jobs : j \in bucket[b].jobs /\ bucket[b].processed
  \/ \E m \in dlq : m.id = j \/ (m.kind = "flush" /\ j \in bucket[m.id].jobs)
NoSilentLoss == \A j \in Jobs : j \in announced ~> Settled(j)
=============================================================================
