----------------------- MODULE ReleaseBuckets_proofs -----------------------
(* Theorems about ReleaseBuckets, for every value of its constants. *)
EXTENDS ReleaseBuckets, TLAPS

-----------------------------------------------------------------------------
(* Types *)

\* The local variables of an idle invocation have their types.
LEMMA IdleTyped ==
  /\ NoLocal \in Local
  /\ NoBucket \in Bucket
  /\ 0 \in 0..(Attempts - 1)
  /\ \A kind \in {"candidate", "flush"}, j \in Jobs : Sent(kind, j) \in Message
<1>1. \A kind \in {"candidate", "flush"}, j \in Jobs : Sent(kind, j) \in Message
  BY BucketAssumption DEF BucketAssumption, Sent, Message
<1>2. SomeJob \in Jobs
  BY BucketAssumption DEF BucketAssumption, SomeJob
<1>0. 0 \in 0..(Attempts - 1)
  BY BucketAssumption DEF BucketAssumption
<1>3. NoLocal \in Local
  BY <1>0, <1>1, <1>2 DEF NoLocal, Local
<1>4. NoBucket \in Bucket
  BY DEF NoBucket, Bucket
<1> QED BY <1>0, <1>1, <1>3, <1>4

\* An invocation that reads the pointer as an aggregation joins a real bucket,
\* has no release to put but the one it works on, and one that flushes works on
\* a bucket that exists, is closed once it said so, and whose job set it has.
Closing == {"close", "unpoint", "reread", "put", "publish", "process"}
RunOK(r) ==
  /\ pc[r] = "join" => local[r].prior \in Jobs
  /\ pc[r] # "publish" => local[r].plan = {}
  /\ pc[r] = "process" => local[r].todo = {}
  /\ pc[r] \in Closing => bucket[local[r].bucket].exists
  /\ pc[r] \in Closing \ {"close"} => bucket[local[r].bucket].closed
  /\ pc[r] \in {"put", "publish", "process"} => local[r].all = bucket[local[r].bucket].jobs

RunInv == \A r \in Runs : RunOK(r)
TypeInv == TypeOK /\ RunInv

\* Closing or processing a bucket gives a bucket.
LEMMA BucketTyped ==
  ASSUME NEW row \in Bucket
  PROVE  [row EXCEPT !.closed = TRUE] \in Bucket /\ [row EXCEPT !.processed = TRUE] \in Bucket
<1>1. \A flag \in BOOLEAN :
        [row EXCEPT !.closed = flag] \in Bucket /\ [row EXCEPT !.processed = flag] \in Bucket
  BY DEF Bucket
<1>2. TRUE \in BOOLEAN
  OBVIOUS
<1> QED BY <1>1, <1>2, Zenon

\* A message that fails is queued again with one more try, or is a dead letter.
LEMMA FailsTyped ==
  ASSUME TypeOK, NEW r \in Runs, Fails(r)
  PROVE  queue' \subseteq Message /\ dlq' \subseteq Message
<1> DEFINE m == local[r].msg
<1>1. m \in Message
  BY DEF TypeOK, Local
<1>2. m.tries + 1 < MaxReceives => [m EXCEPT !.tries = m.tries + 1] \in Message
  BY <1>1, BucketAssumption DEF BucketAssumption, Message
<1> QED BY <1>1, <1>2 DEF Fails, TypeOK

\* A finished invocation is idle.
LEMMA EndsTyped ==
  ASSUME TypeOK, NEW r \in Runs, Ends(r)
  PROVE  pc' \in [Runs -> PC] /\ local' \in [Runs -> Local]
BY IdleTyped DEF Ends, Goto, TypeOK, PC

\* The plan of a user for jobs of a bucket is a personal release.
LEMMA PlanTyped ==
  ASSUME NEW u \in Users, NEW b \in Jobs, NEW jobs \in SUBSET Jobs
  PROVE  Plan(u, Created[b], jobs) \in Personal
BY BucketAssumption DEF BucketAssumption, Plan, Personal, ReleaseId

\* The steps outside the workers keep the types.
LEMMA EnvironmentTyped ==
  ASSUME TypeInv, Environment \/ (\E m \in stream : StreamPublish(m))
  PROVE  TypeOK'
<1> USE DEF TypeInv
<1>1. ASSUME NEW j \in Jobs, Announce(j) PROVE TypeOK'
  BY <1>1, IdleTyped DEF Announce, TypeOK, rows
<1>2. ASSUME NEW j \in Jobs, CloseJob(j) PROVE TypeOK'
  BY <1>2 DEF CloseJob, TypeOK, rows
<1>3. ASSUME NEW u \in Users, ChangeFilter(u) PROVE TypeOK'
  BY <1>3, BucketAssumption DEF BucketAssumption, ChangeFilter, TypeOK, rows
<1>4. ASSUME NEW m \in stream, StreamPublish(m) PROVE TypeOK'
  BY <1>4, BucketAssumption DEF BucketAssumption, StreamPublish, StreamGivesUp, Dies, TypeOK, rows, world
<1> QED BY <1>1, <1>2, <1>3, <1>4 DEF Environment

\* The steps of the aggregation worker keep the types.
LEMMA AggregateTyped ==
  ASSUME TypeInv, NEW r \in Runs, Aggregate(r)
  PROVE  TypeOK'
<1> USE DEF TypeInv
<1>0. local[r] \in Local /\ local[r].msg.id \in Jobs /\ local[r].bucket \in Jobs
  BY DEF TypeOK, Local, Message
<1>1. ASSUME NEW m \in queue, AggregateStart(r, m) PROVE TypeOK'
  <2>1. [NoLocal EXCEPT !.msg = m] \in Local
    BY IdleTyped DEF Local, TypeOK
  <2>2. pc' \in [Runs -> PC] /\ local' \in [Runs -> Local]
    BY <1>1, <2>1 DEF AggregateStart, Goto, TypeOK, PC
  <2> QED BY <1>1, <2>2 DEF AggregateStart, TypeOK, rows, world
<1>2. CASE ReadPointer(r)
  <2>1. [local[r] EXCEPT !.prior = pointer.bucket] \in Local
    BY <1>0 DEF Local, TypeOK
  <2>2. pc' \in [Runs -> PC] /\ local' \in [Runs -> Local]
    BY <1>2, <2>1 DEF ReadPointer, Goto, TypeOK, PC
  <2> QED BY <1>2, <2>2 DEF ReadPointer, TypeOK, rows, world
<1>3. CASE Join(r)
  <2> DEFINE b == local[r].prior
  <2>1. b \in Jobs
    BY <1>3 DEF Join, RunInv, RunOK
  <2>2. [bucket[b] EXCEPT !.jobs = bucket[b].jobs \cup {local[r].msg.id}] \in Bucket
    BY <1>0, <2>1 DEF TypeOK, Bucket
  <2>3. [local[r] EXCEPT !.bucket = b, !.prior = "none", !.attempts = 0] \in Local
    BY <1>0, <2>1, IdleTyped DEF Local
  <2>4. pc' \in [Runs -> PC] /\ local' \in [Runs -> Local]
    BY <1>3, <2>3 DEF Join, Goto, TypeOK, PC
  <2>5. bucket' \in [Jobs -> Bucket]
    BY <1>3, <2>2 DEF Join, TypeOK
  <2> QED BY <1>3, <2>4, <2>5 DEF Join, TypeOK, world
<1>4. CASE Open(r)
  <2> DEFINE j == local[r].msg.id
  <2>1. CASE ~bucket[j].exists /\ pointer.bucket = local[r].prior
    <3>1. [NoBucket EXCEPT !.exists = TRUE, !.jobs = {j}] \in Bucket
      BY <1>0 DEF NoBucket, Bucket
    <3>2. [local[r] EXCEPT !.bucket = j, !.prior = "none", !.attempts = 0] \in Local
      BY <1>0, IdleTyped DEF Local
    <3>3. pc' \in [Runs -> PC] /\ local' \in [Runs -> Local]
      <4>1. local' = [local EXCEPT ![r] = [local[r] EXCEPT !.bucket = j, !.prior = "none", !.attempts = 0]]
        BY <1>4, <2>1 DEF Open, TypeOK
      <4>2. pc' = [pc EXCEPT ![r] = "schedule"]
        BY <1>4, <2>1 DEF Open, Goto
      <4> QED BY <3>2, <4>1, <4>2 DEF TypeOK, PC
    <3>4. bucket' \in [Jobs -> Bucket] /\ stream' \subseteq Message
      <4>1. bucket' = [bucket EXCEPT ![j] = [NoBucket EXCEPT !.exists = TRUE, !.jobs = {j}]]
        BY <1>4, <2>1 DEF Open
      <4>2. stream' = stream \cup {Sent("flush", j)}
        BY <1>4, <2>1 DEF Open
      <4>3. Sent("flush", j) \in Message
        BY <1>0, IdleTyped
      <4> QED BY <3>1, <4>1, <4>2, <4>3 DEF TypeOK
    <3>5. pointer' \in [bucket: Jobs \cup {"none"}, closed: BOOLEAN]
      <4>1. pointer' = [bucket |-> j, closed |-> FALSE]
        BY <1>4, <2>1 DEF Open
      <4> QED BY <1>0, <4>1
    <3> QED BY <1>4, <2>1, <3>3, <3>4, <3>5 DEF Open, TypeOK, world
  <2>2. CASE ~(~bucket[j].exists /\ pointer.bucket = local[r].prior) /\ TriesLeft(local[r].attempts)
    <3>1. local[r].attempts + 1 \in 0..(Attempts - 1)
      BY <1>0, <2>2, BucketAssumption DEF BucketAssumption, TriesLeft, Local
    <3>2. [local[r] EXCEPT !.attempts = local[r].attempts + 1, !.prior = "none"] \in Local
      BY <1>0, <3>1 DEF Local
    <3>3. pc' \in [Runs -> PC] /\ local' \in [Runs -> Local]
      BY <1>4, <2>2, <3>2, ZenonT(60) DEF Open, Goto, TypeOK, PC
    <3> QED BY <1>4, <2>2, <3>3 DEF Open, TypeOK, world
  <2>3. CASE ~(~bucket[j].exists /\ pointer.bucket = local[r].prior) /\ ~TriesLeft(local[r].attempts)
    <3>1. Fails(r) /\ Ends(r)
      BY <1>4, <2>3 DEF Open, Fails
    <3> QED BY <1>4, <2>3, <3>1, FailsTyped, EndsTyped DEF Open, TypeOK, world
  <2> QED BY <2>1, <2>2, <2>3
<1>5. CASE Schedule(r)
  <2>1. Ends(r)
    BY <1>5 DEF Schedule
  <2> QED BY <1>0, <1>5, <2>1, EndsTyped, IdleTyped DEF Schedule, TypeOK, rows, world
<1> QED BY <1>1, <1>2, <1>3, <1>4, <1>5 DEF Aggregate

\* The steps of the flush worker, and a crash, keep the types.
LEMMA FlushTyped ==
  ASSUME TypeInv, NEW r \in Runs, Flush(r) \/ Crash(r)
  PROVE  TypeOK'
<1> USE DEF TypeInv
<1>0. local[r] \in Local /\ local[r].bucket \in Jobs
  BY DEF TypeOK, Local
<1>1. ASSUME NEW m \in queue, FlushStart(r, m) PROVE TypeOK'
  <2>1. m.id \in Jobs
    BY DEF TypeOK, Message
  <2>2. [NoLocal EXCEPT !.msg = m, !.bucket = m.id] \in Local
    BY <2>1, IdleTyped DEF Local, TypeOK
  <2>3. pc' \in [Runs -> PC] /\ local' \in [Runs -> Local]
    BY <1>1, <2>2 DEF FlushStart, Goto, TypeOK, PC
  <2> QED BY <1>1, <2>3 DEF FlushStart, TypeOK, rows, world
<1>2. CASE Close(r)
  <2>1. [bucket[local[r].bucket] EXCEPT !.closed = TRUE] \in Bucket
    BY <1>0, BucketTyped DEF TypeOK
  <2>2. bucket' \in [Jobs -> Bucket]
    <3>1. bucket' = [bucket EXCEPT ![local[r].bucket] = [bucket[local[r].bucket] EXCEPT !.closed = TRUE]]
      BY <1>2, <1>0 DEF Close, TypeOK
    <3> QED BY <2>1, <3>1 DEF TypeOK
  <2> QED BY <1>2, <2>2 DEF Close, Goto, TypeOK, PC, world
<1>3. CASE Unpoint(r)
  <2>1. pointer' \in [bucket: Jobs \cup {"none"}, closed: BOOLEAN]
    BY <1>3 DEF Unpoint, TypeOK
  <2> QED BY <1>3, <2>1 DEF Unpoint, Goto, TypeOK, PC, world
<1>4. CASE Reread(r)
  <2> DEFINE b == local[r].bucket
             jobs == bucket[b].jobs \cap eligible
             todo == {p \in {Plan(u, Created[b], jobs) : u \in Users} : p.jobs # {}}
  <2>1. bucket[b].jobs \in SUBSET Jobs /\ jobs \in SUBSET Jobs
    BY <1>0 DEF TypeOK, Bucket
  <2>2. todo \subseteq Personal
    BY <1>0, <2>1, PlanTyped
  <2>3. [local[r] EXCEPT !.all = bucket[b].jobs, !.todo = todo] \in Local
    BY <1>0, <2>1, <2>2 DEF Local
  <2>4. local' = [local EXCEPT ![r] = [local[r] EXCEPT !.all = bucket[b].jobs, !.todo = todo]]
    BY <1>4 DEF Reread, TypeOK
  <2>5. pc' \in [Runs -> PC]
    BY <1>4 DEF Reread, Goto, TypeOK, PC
  <2> QED BY <1>4, <2>3, <2>4, <2>5 DEF Reread, TypeOK, rows, world
<1>5. ASSUME NEW plan \in local[r].todo, PutRelease(r, plan) PROVE TypeOK'
  <2>0. plan \in Personal
    BY <1>0 DEF Local
  <2>1. CASE {x \in release : x.user = plan.user /\ x.id = plan.id} \subseteq {plan}
    <3>1. [local[r] EXCEPT !.todo = local[r].todo \ {plan}, !.plan = {plan}] \in Local
      BY <1>0, <2>0 DEF Local
    <3>2. local' = [local EXCEPT ![r] = [local[r] EXCEPT !.todo = local[r].todo \ {plan}, !.plan = {plan}]]
      BY <1>5, <2>1 DEF PutRelease, TypeOK
    <3>3. pc' \in [Runs -> PC]
      BY <1>5, <2>1 DEF PutRelease, Goto, TypeOK, PC
    <3> QED BY <1>5, <2>0, <2>1, <3>1, <3>2, <3>3 DEF PutRelease, TypeOK, world
  <2>2. CASE ~({x \in release : x.user = plan.user /\ x.id = plan.id} \subseteq {plan})
    <3>1. Fails(r) /\ Ends(r)
      BY <1>5, <2>2 DEF PutRelease, Fails
    <3> QED BY <1>5, <2>2, <3>1, FailsTyped, EndsTyped DEF PutRelease, TypeOK, world
  <2> QED BY <2>1, <2>2
<1>6. CASE Publish(r)
  <2>1. local[r].plan \subseteq Personal /\ [local[r] EXCEPT !.plan = {}] \in Local
    BY <1>0 DEF Local
  <2>2. pc' \in [Runs -> PC] /\ local' \in [Runs -> Local]
    BY <1>6, <2>1 DEF Publish, AfterUser, Goto, TypeOK, PC
  <2> QED BY <1>6, <2>1, <2>2 DEF Publish, TypeOK, world
<1>7. CASE Process(r)
  <2>1. [bucket[local[r].bucket] EXCEPT !.processed = TRUE] \in Bucket
    BY <1>0, BucketTyped DEF TypeOK
  <2>2. bucket' \in [Jobs -> Bucket]
    <3>1. bucket' = [bucket EXCEPT ![local[r].bucket] = [bucket[local[r].bucket] EXCEPT !.processed = TRUE]]
      BY <1>7, <1>0 DEF Process, TypeOK
    <3> QED BY <2>1, <3>1 DEF TypeOK
  <2>3. Ends(r)
    BY <1>7 DEF Process, Succeeds
  <2> QED BY <1>7, <2>2, <2>3, EndsTyped DEF Process, Succeeds, TypeOK, world
<1>8. CASE Crash(r)
  <2>1. Fails(r) /\ Ends(r) /\ crashes' \in 0..MaxCrashes
    BY <1>8, BucketAssumption DEF BucketAssumption, Crash, Dies, Fails, TypeOK
  <2> QED BY <1>8, <2>1, FailsTyped, EndsTyped DEF Crash, TypeOK, rows, world
<1> QED BY <1>1, <1>2, <1>3, <1>4, <1>5, <1>6, <1>7, <1>8 DEF Flush

-----------------------------------------------------------------------------
(* The flush sees the final job set *)

\* A step keeps a bucket in existence, and a closed one as it is.
Kept(b) ==
  bucket[b].exists =>
    /\ bucket'[b].exists
    /\ bucket[b].closed => bucket'[b].closed /\ bucket'[b].jobs = bucket[b].jobs

\* The environment leaves the buckets and the invocations alone.
LEMMA EnvironmentLeaves ==
  ASSUME Environment \/ (\E m \in stream : StreamPublish(m))
  PROVE  UNCHANGED <<bucket, pc, local, intents, release>>
BY DEF Environment, StreamPublish, StreamGivesUp, Announce, CloseJob, ChangeFilter, rows

\* Only an open bucket takes a job, only one that does not exist is opened.
LEMMA BucketsKept ==
  ASSUME TypeInv, NEW r \in Runs, Aggregate(r) \/ Flush(r) \/ Crash(r)
  PROVE  \A b \in Jobs : Kept(b)
<1>0. bucket \in [Jobs -> Bucket] /\ local[r].bucket \in Jobs /\ local[r].msg.id \in Jobs
  BY DEF TypeInv, TypeOK, Local, Message
<1>1. CASE UNCHANGED bucket
  BY <1>1 DEF Kept
<1>2. CASE Join(r)
  <2>1. CASE Joinable(local[r].prior)
    <3>1. bucket' = [bucket EXCEPT ![local[r].prior] =
                       [bucket[local[r].prior] EXCEPT !.jobs = bucket[local[r].prior].jobs \cup {local[r].msg.id}]]
      BY <1>2, <2>1 DEF Join
    <3>2. local[r].prior \in Jobs
      BY <1>2 DEF Join, TypeInv, RunInv, RunOK
    <3> QED BY <1>0, <2>1, <3>1, <3>2 DEF Kept, Joinable, Bucket
  <2>2. CASE ~Joinable(local[r].prior)
    BY <1>1, <1>2, <2>2 DEF Join
  <2> QED BY <2>1, <2>2
<1>3. CASE Open(r)
  <2> DEFINE j == local[r].msg.id
  <2>1. CASE ~bucket[j].exists /\ pointer.bucket = local[r].prior
    <3>1. bucket' = [bucket EXCEPT ![j] = [NoBucket EXCEPT !.exists = TRUE, !.jobs = {j}]]
      BY <1>3, <2>1 DEF Open
    <3>2. \A b \in Jobs : b # j => bucket'[b] = bucket[b]
      BY <1>0, <3>1
    <3> QED BY <2>1, <3>2 DEF Kept
  <2>2. CASE ~(~bucket[j].exists /\ pointer.bucket = local[r].prior)
    BY <1>1, <1>3, <2>2 DEF Open
  <2> QED BY <2>1, <2>2
<1>4. CASE Close(r)
  <2>1. bucket' = [bucket EXCEPT ![local[r].bucket] = [bucket[local[r].bucket] EXCEPT !.closed = TRUE]]
    BY <1>0, <1>4 DEF Close
  <2> QED BY <1>0, <2>1 DEF Kept, Bucket
<1>5. CASE Process(r)
  <2>1. bucket' = [bucket EXCEPT ![local[r].bucket] = [bucket[local[r].bucket] EXCEPT !.processed = TRUE]]
    BY <1>0, <1>5 DEF Process
  <2> QED BY <1>0, <2>1 DEF Kept, Bucket
<1>6. CASE (\E m \in queue : AggregateStart(r, m)) \/ ReadPointer(r) \/ Schedule(r)
  BY <1>1, <1>6 DEF AggregateStart, ReadPointer, Schedule, rows
<1>7. CASE (\E m \in queue : FlushStart(r, m)) \/ Unpoint(r) \/ Reread(r)
  BY <1>1, <1>7 DEF FlushStart, Unpoint, Reread, rows
<1>8. CASE (\E plan \in local[r].todo : PutRelease(r, plan)) \/ Publish(r) \/ Crash(r)
  BY <1>1, <1>8 DEF PutRelease, Publish, Crash, rows
<1> QED BY <1>2, <1>3, <1>4, <1>5, <1>6, <1>7, <1>8 DEF Aggregate, Flush

\* An invocation that does not move keeps its part of the invariant.
LEMMA OthersKeep ==
  ASSUME TypeInv, NEW q \in Runs, \A b \in Jobs : Kept(b), pc'[q] = pc[q], local'[q] = local[q]
  PROVE  RunOK(q)'
<1>1. RunOK(q) /\ local[q].bucket \in Jobs /\ Kept(local[q].bucket)
  BY DEF TypeInv, RunInv, TypeOK, Local
<1> QED BY <1>1 DEF RunOK, Kept, Closing

\* Only the invocation that takes a step moves.
LEMMA OneMoves ==
  ASSUME TypeInv, NEW r \in Runs, Aggregate(r) \/ Flush(r) \/ Crash(r), NEW q \in Runs, q # r
  PROVE  pc'[q] = pc[q] /\ local'[q] = local[q]
<1>0. pc \in [Runs -> PC] /\ local \in [Runs -> Local]
  BY DEF TypeInv, TypeOK
<1>1. CASE Fails(r) \/ Ends(r)
  BY <1>0, <1>1 DEF Fails, Ends, Goto
<1>2. CASE (\E m \in queue : AggregateStart(r, m)) \/ ReadPointer(r) \/ Join(r)
  BY <1>0, <1>2 DEF AggregateStart, ReadPointer, Join, Goto
<1>3. CASE Open(r)
  BY <1>0, <1>1, <1>3 DEF Open, Goto
<1>4. CASE Schedule(r) \/ Process(r) \/ Crash(r)
  BY <1>1, <1>4 DEF Schedule, Process, Succeeds, Crash
<1>5. CASE (\E m \in queue : FlushStart(r, m)) \/ Close(r) \/ Unpoint(r) \/ Reread(r) \/ Publish(r)
  BY <1>0, <1>5 DEF FlushStart, Close, Unpoint, Reread, Publish, Goto
<1>6. ASSUME NEW plan \in local[r].todo, PutRelease(r, plan) PROVE pc'[q] = pc[q] /\ local'[q] = local[q]
  BY <1>0, <1>1, <1>6 DEF PutRelease, Goto
<1> QED BY <1>2, <1>3, <1>4, <1>5, <1>6 DEF Aggregate, Flush

\* An invocation that finishes holds nothing.
LEMMA EndsOK ==
  ASSUME TypeInv, NEW r \in Runs, Ends(r)
  PROVE  RunOK(r)'
BY DEF TypeInv, TypeOK, Ends, Goto, NoLocal, RunOK, Closing

\* An invocation that takes a step keeps its part of the invariant.
LEMMA ActorKeeps ==
  ASSUME TypeInv, NEW r \in Runs, Aggregate(r) \/ Flush(r) \/ Crash(r)
  PROVE  RunOK(r)'
<1>0. /\ pc \in [Runs -> PC] /\ local \in [Runs -> Local] /\ bucket \in [Jobs -> Bucket]
      /\ local[r] \in Local /\ local[r].bucket \in Jobs /\ RunOK(r)
  BY DEF TypeInv, TypeOK, RunInv, Local
<1>e. CASE Ends(r)
  BY <1>e, EndsOK
<1>1. ASSUME NEW m \in queue, AggregateStart(r, m) PROVE RunOK(r)'
  <2>1. CASE m.id \in eligible
    BY <1>0, <1>1, <2>1 DEF AggregateStart, Goto, RunOK, Closing, NoLocal
  <2>2. CASE m.id \notin eligible
    BY <1>0, <1>1, <2>2 DEF AggregateStart, RunOK, Closing, rows
  <2> QED BY <2>1, <2>2
<1>2. CASE ReadPointer(r)
  <2>1. Fits(local[r].msg.id) => pointer.bucket \in Jobs
    BY DEF Fits, TypeInv, TypeOK
  <2> QED BY <1>0, <1>2, <2>1 DEF ReadPointer, Goto, RunOK, Closing
<1>3. CASE Join(r)
  <2>1. CASE Joinable(local[r].prior)
    <3>1. local' = [local EXCEPT ![r] = [local[r] EXCEPT !.bucket = local[r].prior, !.prior = "none", !.attempts = 0]]
      BY <1>0, <1>3, <2>1 DEF Join
    <3>2. local'[r].plan = local[r].plan
      BY <1>0, <3>1 DEF Local
    <3>3. pc'[r] = "schedule" /\ pc[r] = "join"
      BY <1>0, <1>3, <2>1 DEF Join, Goto
    <3> QED BY <1>0, <3>2, <3>3 DEF RunOK, Closing
  <2>2. CASE ~Joinable(local[r].prior)
    BY <1>0, <1>3, <2>2 DEF Join, Goto, RunOK, Closing
  <2> QED BY <2>1, <2>2
<1>4. CASE Open(r)
  <2> DEFINE j == local[r].msg.id
             opened == [local[r] EXCEPT !.bucket = j, !.prior = "none", !.attempts = 0]
             again == [local[r] EXCEPT !.attempts = local[r].attempts + 1, !.prior = "none"]
  <2>1. CASE Fails(r)
    BY <2>1, <1>e DEF Fails
  <2>2. CASE ~Fails(r)
    <3>1. pc'[r] \in {"schedule", "point"} /\ pc[r] = "open"
      BY <1>0, <1>4, <2>2 DEF Open, Goto
    <3>2. local' = [local EXCEPT ![r] = opened] \/ local' = [local EXCEPT ![r] = again]
      BY <1>0, <1>4, <2>2 DEF Open
    <3>3. opened.plan = local[r].plan /\ again.plan = local[r].plan
      BY <1>0 DEF Local
    <3>4. local'[r].plan = local[r].plan
      BY <1>0, <3>2, <3>3
    <3> QED BY <1>0, <3>1, <3>4 DEF RunOK, Closing
  <2> QED BY <2>1, <2>2
<1>5. CASE Schedule(r) \/ Process(r) \/ Crash(r)
  BY <1>5, <1>e DEF Schedule, Process, Succeeds, Crash, Fails
<1>6. ASSUME NEW m \in queue, FlushStart(r, m) PROVE RunOK(r)'
  <2>1. CASE Done(m.id)
    BY <1>0, <1>6, <2>1 DEF FlushStart, RunOK, Closing, rows
  <2>2. CASE ~Done(m.id)
    BY <1>0, <1>6, <2>2, ZenonT(60) DEF FlushStart, Goto, RunOK, Closing, NoLocal, Done, rows
  <2> QED BY <2>1, <2>2
<1>7. CASE Close(r)
  <2>1. bucket' = [bucket EXCEPT ![local[r].bucket] = [bucket[local[r].bucket] EXCEPT !.closed = TRUE]]
    BY <1>0, <1>7 DEF Close
  <2>2. bucket'[local[r].bucket].closed /\ bucket'[local[r].bucket].exists = bucket[local[r].bucket].exists
    BY <1>0, <2>1 DEF Bucket
  <2> QED BY <1>0, <1>7, <2>2 DEF Close, Goto, RunOK, Closing
<1>8. CASE Unpoint(r)
  BY <1>0, <1>8 DEF Unpoint, Goto, RunOK, Closing
<1>9. CASE Reread(r)
  <2>1. PICK todo : /\ local' = [local EXCEPT ![r] = [local[r] EXCEPT !.all = bucket[local[r].bucket].jobs, !.todo = todo]]
                    /\ pc' = [pc EXCEPT ![r] = IF todo = {} THEN "process" ELSE "put"]
    BY <1>0, <1>9 DEF Reread, Goto
  <2>2. /\ local'[r].all = bucket[local[r].bucket].jobs /\ local'[r].todo = todo
        /\ local'[r].plan = local[r].plan /\ local'[r].bucket = local[r].bucket
    BY <1>0, <2>1 DEF Local
  <2>3. pc'[r] = (IF todo = {} THEN "process" ELSE "put") /\ pc[r] = "reread" /\ bucket' = bucket
    BY <1>0, <1>9, <2>1 DEF Reread, rows
  <2> QED BY <1>0, <2>2, <2>3 DEF RunOK, Closing
<1>10. ASSUME NEW plan \in local[r].todo, PutRelease(r, plan) PROVE RunOK(r)'
  <2>1. CASE Fails(r)
    BY <2>1, <1>e DEF Fails
  <2>2. CASE ~Fails(r)
    <3>1. local' = [local EXCEPT ![r] = [local[r] EXCEPT !.todo = local[r].todo \ {plan}, !.plan = {plan}]]
      BY <1>0, <1>10, <2>2 DEF PutRelease
    <3>2. local'[r].all = local[r].all /\ local'[r].bucket = local[r].bucket
      BY <1>0, <3>1 DEF Local
    <3>3. pc[r] = "put" /\ pc'[r] = "publish" /\ bucket' = bucket
      BY <1>0, <1>10, <2>2 DEF PutRelease, Goto
    <3> QED BY <1>0, <3>2, <3>3 DEF RunOK, Closing
  <2> QED BY <2>1, <2>2
<1>11. CASE Publish(r)
  BY <1>0, <1>11 DEF Publish, AfterUser, Goto, RunOK, Closing
<1> QED BY <1>1, <1>2, <1>3, <1>4, <1>5, <1>6, <1>7, <1>8, <1>9, <1>10, <1>11 DEF Aggregate, Flush

\* The types and what each invocation knows are inductive.
LEMMA TypeInvariant == Spec => []TypeInv
<1>1. Init => TypeInv
  <2> SUFFICES ASSUME Init PROVE TypeInv
    OBVIOUS
  <2>1. TypeOK
    BY IdleTyped, BucketAssumption DEF BucketAssumption, Init, TypeOK, PC
  <2>2. RunInv
    BY DEF Init, RunInv, RunOK, NoLocal, Closing
  <2> QED BY <2>1, <2>2 DEF TypeInv
<1>2. TypeInv /\ [Next]_vars => TypeInv'
  <2> SUFFICES ASSUME TypeInv, [Next]_vars PROVE TypeInv'
    OBVIOUS
  <2>1. ASSUME NEW r \in Runs, Aggregate(r) \/ Flush(r) \/ Crash(r) PROVE TypeInv'
    <3>1. TypeOK'
      BY <2>1, AggregateTyped, FlushTyped
    <3>2. ASSUME NEW q \in Runs PROVE RunOK(q)'
      <4>1. CASE q = r
        BY <2>1, <4>1, ActorKeeps
      <4>2. CASE q # r
        BY <2>1, <4>2, OneMoves, BucketsKept, OthersKeep
      <4> QED BY <4>1, <4>2
    <3> QED BY <3>1, <3>2 DEF TypeInv, RunInv
  <2>2. ASSUME Environment \/ (\E m \in stream : StreamPublish(m)) PROVE TypeInv'
    <3>1. TypeOK'
      BY <2>2, EnvironmentTyped
    <3>2. RunInv'
      BY <2>2, EnvironmentLeaves DEF TypeInv, RunInv, RunOK
    <3> QED BY <3>1, <3>2 DEF TypeInv
  <2>3. CASE UNCHANGED vars
    BY <2>3 DEF TypeInv, TypeOK, RunInv, RunOK, vars, rows, world
  <2> QED BY <2>1, <2>2, <2>3 DEF Next, Service
<1> QED BY <1>1, <1>2, PTL DEF Spec

\* Every value a behaviour of the workers stores has the type the code gives it:
\* no try, attempt or crash exceeds its limit, and every reference is of a job.
THEOREM TypeCorrect == Spec => []TypeOK
<1>1. TypeInv => TypeOK
  BY DEF TypeInv
<1> QED BY <1>1, TypeInvariant, PTL

\* A flush past its second read has the final job set of the bucket, however the
\* aggregation workers raced with it.
THEOREM FinalJobSet == Spec => []FlushSeesAll
<1>1. TypeInv => FlushSeesAll
  BY DEF TypeInv, RunInv, RunOK, FlushSeesAll
<1> QED BY <1>1, TypeInvariant, PTL

-----------------------------------------------------------------------------
(* A processed bucket is published *)

\* What a flush has published, is publishing and has still to publish covers its
\* bucket; a processed bucket was closed, and is covered by what was published.
Pending(r) == intents \cup local[r].todo \cup local[r].plan
CoverInv ==
  /\ \A r \in Runs : pc[r] \in {"put", "publish", "process"} => Covered(local[r].bucket, Pending(r))
  /\ \A b \in Jobs : bucket[b].processed => bucket[b].exists /\ bucket[b].closed
  /\ ProcessedIsPublished

\* The environment only closes jobs and changes filters; the workers do neither,
\* and no step takes an intent back.
LEMMA WorldShrinks ==
  ASSUME TypeInv, Next
  PROVE  /\ eligible' \subseteq eligible /\ changed \subseteq changed' /\ intents \subseteq intents'
         /\ \A u \in Users \ changed' : filter'[u] = filter[u]
<1>1. CASE Environment
  BY <1>1 DEF TypeInv, TypeOK, Environment, Announce, CloseJob, ChangeFilter, rows
<1>2. CASE \E m \in stream : StreamPublish(m)
  BY <1>2 DEF StreamPublish, StreamGivesUp, rows, world
<1>3. CASE \E r \in Runs : Aggregate(r)
  BY <1>3 DEF Aggregate, AggregateStart, ReadPointer, Join, Open, Schedule, rows, world
<1>4. CASE \E r \in Runs : Flush(r)
  BY <1>4 DEF Flush, FlushStart, Close, Unpoint, Reread, PutRelease, Publish, Process, rows, world
<1>5. CASE \E r \in Runs : Crash(r)
  BY <1>5 DEF Crash, rows, world
<1> QED BY <1>1, <1>2, <1>3, <1>4, <1>5 DEF Next, Service

\* Only the end of a flush makes a bucket processed.
LEMMA ProcessedOnly ==
  ASSUME TypeInv, NEW r \in Runs, Aggregate(r) \/ Flush(r) \/ Crash(r), NEW b \in Jobs, bucket'[b].processed
  PROVE  bucket[b].processed \/ (Process(r) /\ b = local[r].bucket)
<1>0. bucket \in [Jobs -> Bucket] /\ local[r].bucket \in Jobs /\ local[r].msg.id \in Jobs
  BY DEF TypeInv, TypeOK, Local, Message
<1>1. CASE UNCHANGED bucket
  BY <1>1
<1>2. CASE Join(r)
  <2>1. CASE Joinable(local[r].prior)
    <3>1. bucket' = [bucket EXCEPT ![local[r].prior] =
                       [bucket[local[r].prior] EXCEPT !.jobs = bucket[local[r].prior].jobs \cup {local[r].msg.id}]]
      BY <1>2, <2>1 DEF Join
    <3> QED BY <1>0, <3>1 DEF Bucket
  <2>2. CASE ~Joinable(local[r].prior)
    BY <1>1, <1>2, <2>2 DEF Join
  <2> QED BY <2>1, <2>2
<1>3. CASE Open(r)
  <2> DEFINE j == local[r].msg.id
  <2>1. CASE ~bucket[j].exists /\ pointer.bucket = local[r].prior
    <3>1. bucket' = [bucket EXCEPT ![j] = [NoBucket EXCEPT !.exists = TRUE, !.jobs = {j}]]
      BY <1>3, <2>1 DEF Open
    <3>2. b # j => bucket'[b] = bucket[b]
      BY <1>0, <3>1
    <3>3. ~bucket'[j].processed
      BY <1>0, <3>1 DEF NoBucket
    <3> QED BY <3>2, <3>3
  <2>2. CASE ~(~bucket[j].exists /\ pointer.bucket = local[r].prior)
    BY <1>1, <1>3, <2>2 DEF Open
  <2> QED BY <2>1, <2>2
<1>4. CASE Close(r)
  <2>1. bucket' = [bucket EXCEPT ![local[r].bucket] = [bucket[local[r].bucket] EXCEPT !.closed = TRUE]]
    BY <1>0, <1>4 DEF Close
  <2> QED BY <1>0, <2>1 DEF Bucket
<1>5. CASE Process(r)
  <2>1. b # local[r].bucket => bucket'[b] = bucket[b]
    BY <1>0, <1>5 DEF Process
  <2> QED BY <1>5, <2>1
<1>6. CASE (\E m \in queue : AggregateStart(r, m)) \/ ReadPointer(r) \/ Schedule(r)
  BY <1>1, <1>6 DEF AggregateStart, ReadPointer, Schedule, rows
<1>7. CASE (\E m \in queue : FlushStart(r, m)) \/ Unpoint(r) \/ Reread(r)
  BY <1>1, <1>7 DEF FlushStart, Unpoint, Reread, rows
<1>8. CASE (\E plan \in local[r].todo : PutRelease(r, plan)) \/ Publish(r) \/ Crash(r)
  BY <1>1, <1>8 DEF PutRelease, Publish, Crash, rows
<1> QED BY <1>2, <1>3, <1>4, <1>5, <1>6, <1>7, <1>8 DEF Aggregate, Flush

\* Covered, of the state a step leads to.
CoveredNext(b, Q) ==
  \E jobs \in SUBSET bucket'[b].jobs :
    /\ bucket'[b].jobs \cap eligible' \subseteq jobs
    /\ \A u \in Users \ changed' : filter'[u] \cap jobs # {} =>
         [user |-> u, id |-> [opened |-> Created[b], jobs |-> jobs], jobs |-> filter'[u] \cap jobs] \in Q

\* A bucket that is covered and closed is still covered after a step, by as much.
LEMMA StepCovers ==
  ASSUME TypeInv, Next, NEW b \in Jobs, bucket[b].exists, bucket[b].closed, Kept(b),
         NEW P, NEW Q, P \subseteq Q, Covered(b, P)
  PROVE  CoveredNext(b, Q)
<1>1. /\ eligible' \subseteq eligible /\ changed \subseteq changed'
      /\ \A u \in Users \ changed' : filter'[u] = filter[u]
  BY WorldShrinks
<1>2. bucket'[b].jobs = bucket[b].jobs
  BY DEF Kept
<1>3. PICK jobs \in SUBSET bucket[b].jobs :
        /\ bucket[b].jobs \cap eligible \subseteq jobs
        /\ \A u \in Users \ changed : filter[u] \cap jobs # {} => Plan(u, Created[b], jobs) \in P
  BY DEF Covered
<1>4. ASSUME NEW u \in Users \ changed', filter'[u] \cap jobs # {}
      PROVE  [user |-> u, id |-> [opened |-> Created[b], jobs |-> jobs], jobs |-> filter'[u] \cap jobs] \in Q
  BY <1>1, <1>3, <1>4 DEF Plan
<1> QED BY <1>1, <1>2, <1>3, <1>4 DEF CoveredNext

\* The final read of a flush plans a release that covers the bucket.
LEMMA RereadCovers ==
  ASSUME TypeInv, NEW r \in Runs, Reread(r)
  PROVE  Covered(local[r].bucket, Pending(r))'
<1> DEFINE b == local[r].bucket
           jobs == bucket[b].jobs \cap eligible
           todo == {p \in {Plan(u, Created[b], jobs) : u \in Users} : p.jobs # {}}
<1>0. local \in [Runs -> Local] /\ local[r] \in Local
  BY DEF TypeInv, TypeOK
<1>1. local' = [local EXCEPT ![r] = [local[r] EXCEPT !.all = bucket[b].jobs, !.todo = todo]]
  BY <1>0 DEF Reread
<1>2. local'[r].bucket = b /\ local'[r].todo = todo
  BY <1>0, <1>1 DEF Local
<1>3. UNCHANGED <<bucket, eligible, changed, filter, intents>>
  BY DEF Reread, rows, world
<1>4. \A u \in Users : filter[u] \cap jobs # {} => Plan(u, Created[b], jobs) \in todo
  BY DEF Plan
<1>5. todo \subseteq Pending(r)'
  BY <1>2 DEF Pending
<1> HIDE DEF b, todo
<1>6. \A u \in Users \ changed : filter[u] \cap jobs # {} => Plan(u, Created[b], jobs) \in Pending(r)'
  BY <1>4, <1>5
<1> QED BY <1>2, <1>3, <1>6 DEF Covered, Plan

\* A flush past its final read covers its bucket with what it has not yet done.
LEMMA ActorCovers ==
  ASSUME TypeInv, CoverInv, Next, NEW r \in Runs, Aggregate(r) \/ Flush(r) \/ Crash(r),
         pc'[r] \in {"put", "publish", "process"}
  PROVE  Covered(local[r].bucket, Pending(r))'
<1>0. /\ pc \in [Runs -> PC] /\ local \in [Runs -> Local] /\ local[r] \in Local
      /\ local[r].bucket \in Jobs /\ RunOK(r)
  BY DEF TypeInv, TypeOK, RunInv, Local
<1>1. CASE Reread(r)
  BY <1>1, RereadCovers
<1>2. CASE Ends(r)
  BY <1>0, <1>2 DEF Ends, Goto
<1>3. CASE /\ pc[r] \in {"put", "publish"} /\ bucket' = bucket
           /\ local'[r].bucket = local[r].bucket /\ Pending(r) \subseteq Pending(r)'
  <2>1. Covered(local[r].bucket, Pending(r)) /\ bucket[local[r].bucket].exists /\ bucket[local[r].bucket].closed
    BY <1>0, <1>3 DEF CoverInv, RunOK, Closing
  <2>2. Kept(local[r].bucket)
    BY <1>3 DEF Kept
  <2>3. CoveredNext(local[r].bucket, Pending(r)')
    BY <1>0, <1>3, <2>1, <2>2, StepCovers
  <2> QED BY <1>3, <2>3 DEF CoveredNext, Covered, Plan
<1>4. ASSUME NEW plan \in local[r].todo, PutRelease(r, plan) PROVE Covered(local[r].bucket, Pending(r))'
  <2>1. CASE Fails(r)
    BY <2>1, <1>2 DEF Fails
  <2>2. CASE ~Fails(r)
    <3>1. local' = [local EXCEPT ![r] = [local[r] EXCEPT !.todo = local[r].todo \ {plan}, !.plan = {plan}]]
      BY <1>0, <1>4, <2>2 DEF PutRelease
    <3>2. local'[r].todo = local[r].todo \ {plan} /\ local'[r].plan = {plan} /\ local'[r].bucket = local[r].bucket
      BY <1>0, <3>1 DEF Local
    <3>3. pc[r] = "put" /\ bucket' = bucket /\ intents' = intents /\ local[r].plan = {}
      BY <1>0, <1>4 DEF PutRelease, RunOK
    <3> QED BY <1>3, <3>2, <3>3 DEF Pending
  <2> QED BY <2>1, <2>2
<1>5. CASE Publish(r)
  <2>1. local'[r].todo = local[r].todo /\ local'[r].plan = {} /\ local'[r].bucket = local[r].bucket
    BY <1>0, <1>5 DEF Publish, Local
  <2>2. pc[r] = "publish" /\ bucket' = bucket /\ intents' = intents \cup local[r].plan
    BY <1>5 DEF Publish
  <2> QED BY <1>3, <2>1, <2>2 DEF Pending
<1>6. CASE Schedule(r) \/ Process(r) \/ Crash(r)
  BY <1>2, <1>6 DEF Schedule, Process, Succeeds, Crash, Fails
<1>7. CASE (\E m \in queue : AggregateStart(r, m)) \/ ReadPointer(r) \/ Join(r)
  BY <1>0, <1>7 DEF AggregateStart, ReadPointer, Join, Goto
<1>8. CASE Open(r)
  BY <1>0, <1>2, <1>8 DEF Open, Goto, Fails
<1>9. CASE (\E m \in queue : FlushStart(r, m)) \/ Close(r) \/ Unpoint(r)
  BY <1>0, <1>9 DEF FlushStart, Close, Unpoint, Goto
<1> QED BY <1>1, <1>4, <1>5, <1>6, <1>7, <1>8, <1>9 DEF Aggregate, Flush

\* A bucket that a worker has just processed, or had, is covered and was closed.
LEMMA ProcessedStays ==
  ASSUME TypeInv, CoverInv, Next, NEW r \in Runs, Aggregate(r) \/ Flush(r) \/ Crash(r),
         NEW b \in Jobs, bucket'[b].processed
  PROVE  bucket'[b].exists /\ bucket'[b].closed /\ Covered(b, intents)'
<1>0. local[r].bucket \in Jobs /\ RunOK(r)
  BY DEF TypeInv, TypeOK, RunInv, Local
<1>1. bucket[b].exists /\ bucket[b].closed /\ Covered(b, intents)
  <2>1. CASE bucket[b].processed
    BY <2>1 DEF CoverInv, ProcessedIsPublished
  <2>2. CASE Process(r) /\ b = local[r].bucket
    <3>1. pc[r] = "process" /\ local[r].todo = {} /\ local[r].plan = {}
      BY <1>0, <2>2 DEF Process, RunOK
    <3>2. Pending(r) = intents
      BY <3>1 DEF Pending
    <3>3. Covered(b, Pending(r))
      BY <2>2, <3>1 DEF CoverInv
    <3> QED BY <1>0, <2>2, <3>1, <3>2, <3>3 DEF RunOK, Closing
  <2> QED BY <2>1, <2>2, ProcessedOnly
<1>2. Kept(b)
  BY BucketsKept
<1>3. intents \subseteq intents'
  BY WorldShrinks
<1>4. CoveredNext(b, intents')
  BY <1>1, <1>2, <1>3, StepCovers
<1> QED BY <1>1, <1>2, <1>4 DEF Kept, CoveredNext, Covered, Plan

\* The step of one invocation leaves what another has planned covering its bucket.
LEMMA OthersCover ==
  ASSUME TypeInv, CoverInv, Next, NEW q \in Runs, pc'[q] = pc[q], local'[q] = local[q],
         \A b \in Jobs : Kept(b), pc'[q] \in {"put", "publish", "process"}
  PROVE  Covered(local[q].bucket, Pending(q))'
<1>1. /\ local[q].bucket \in Jobs /\ Covered(local[q].bucket, Pending(q))
      /\ bucket[local[q].bucket].exists /\ bucket[local[q].bucket].closed
  BY DEF TypeInv, TypeOK, RunInv, RunOK, Closing, Local, CoverInv
<1>2. Pending(q) \subseteq Pending(q)'
  BY WorldShrinks DEF Pending
<1>3. CoveredNext(local[q].bucket, Pending(q)')
  BY <1>1, <1>2, StepCovers
<1> QED BY <1>3 DEF CoveredNext, Covered, Plan

\* A bucket marked processed is covered by published intents: whichever worker
\* flushed it, however often it died, and whatever raced with it, every user whose
\* filter still matches has the release of all its jobs that are still eligible.
THEOREM ProcessedArePublished == Spec => []ProcessedIsPublished
<1>1. Init => CoverInv
  BY DEF Init, CoverInv, ProcessedIsPublished, NoBucket
<1>2. TypeInv /\ CoverInv /\ [Next]_vars => CoverInv'
  <2> SUFFICES ASSUME TypeInv, CoverInv, [Next]_vars PROVE CoverInv'
    OBVIOUS
  <2>1. ASSUME Next, NEW r \in Runs, Aggregate(r) \/ Flush(r) \/ Crash(r) PROVE CoverInv'
    <3>1. ASSUME NEW q \in Runs, pc'[q] \in {"put", "publish", "process"} PROVE Covered(local[q].bucket, Pending(q))'
      <4>1. CASE q = r
        BY <2>1, <3>1, <4>1, ActorCovers
      <4>2. CASE q # r
        BY <2>1, <3>1, <4>2, OneMoves, BucketsKept, OthersCover
      <4> QED BY <4>1, <4>2
    <3>2. \A b \in Jobs : bucket'[b].processed =>
            bucket'[b].exists /\ bucket'[b].closed /\ Covered(b, intents)'
      BY <2>1, ProcessedStays
    <3> QED BY <3>1, <3>2 DEF CoverInv, ProcessedIsPublished
  <2>2. ASSUME Next, Environment \/ (\E m \in stream : StreamPublish(m)) PROVE CoverInv'
    <3>0. UNCHANGED <<bucket, pc, local, intents, release>>
      BY <2>2, EnvironmentLeaves
    <3>1. \A b \in Jobs : Kept(b)
      BY <3>0 DEF Kept
    <3>2. ASSUME NEW q \in Runs, pc'[q] \in {"put", "publish", "process"} PROVE Covered(local[q].bucket, Pending(q))'
      BY <2>2, <3>0, <3>1, <3>2, OthersCover
    <3>3. ASSUME NEW b \in Jobs, bucket'[b].processed PROVE Covered(b, intents)'
      <4>1. bucket[b].exists /\ bucket[b].closed /\ Covered(b, intents)
        BY <3>0, <3>3 DEF CoverInv, ProcessedIsPublished
      <4>2. CoveredNext(b, intents')
        BY <2>2, <3>0, <3>1, <4>1, StepCovers
      <4> QED BY <4>2 DEF CoveredNext, Covered, Plan
    <3>4. \A b \in Jobs : bucket'[b].processed => bucket'[b].exists /\ bucket'[b].closed
      BY <3>0 DEF CoverInv
    <3> QED BY <3>2, <3>3, <3>4 DEF CoverInv, ProcessedIsPublished
  <2>3. CASE UNCHANGED vars
    BY <2>3 DEF CoverInv, ProcessedIsPublished, Covered, Pending, Plan, vars, rows, world
  <2> QED BY <2>1, <2>2, <2>3 DEF Next, Service
<1>3. CoverInv => ProcessedIsPublished
  BY DEF CoverInv
<1> QED BY <1>1, <1>2, <1>3, TypeInvariant, PTL DEF Spec
=============================================================================
