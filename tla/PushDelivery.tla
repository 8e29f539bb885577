---------------------------- MODULE PushDelivery ----------------------------
(***************************************************************************)
(* Device push delivery with durable receipts: src/notifications.ts on the  *)
(* receipt, device and preference rows of cloudflare/d1-store.ts.           *)
(*                                                                         *)
(* A run is one invocation of a worker.  A "provider" run (a Greenhouse,    *)
(* Lever or Ashby queue delivery) sends the jobs its poll inserted; a "poll" *)
(* run (a GitHub or structured source delivery) also inspects Expo receipts *)
(* and retries; a "maintenance" run (the ten-minute cron) first replays the *)
(* jobs whose legacy smsPending marker is set.  Runs interleave at every    *)
(* database statement and every request to Expo, and may die anywhere.      *)
(***************************************************************************)
EXTENDS Integers, FiniteSets

CONSTANTS
  Users, Tokens, Jobs, Postings, Runs,
  DedupeKey,        \* [Jobs -> Postings], notificationDedupeKey
  Matches,          \* the pairs of user and job that pass the user's filter
  Kind,             \* [Runs -> {"provider", "poll", "maintenance"}]
  Cohort,           \* users of the grouped pipeline, excluded from this one
  Legacy,           \* <<user, token, job>> with an ok receipt under the old key
  Replies,          \* what Expo may answer to a publish
  Calls,            \* what users and operators do meanwhile
  MaxAttempts,      \* MAX_EXPO_PUSH_ATTEMPTS
  MaxJobsPerRun,    \* MAX_LEGACY_PUSH_JOBS_PER_RUN
  MaxCalls,         \* bound: how many of those calls
  MaxCrashes        \* bound: how many runs die and database writes fail

\* An ok ticket with an id; one without; an error ticket; a DeviceNotRegistered
\* ticket; HTTP 408, 429 or 5xx; any other HTTP error; no answer at all.
AllReplies == {"accepted", "unticketed", "rejected", "gone", "busy", "refused", "lost"}
AllCalls == {"register", "unregister", "alerts", "delete", "purge", "requeue"}
Thrown == {"busy", "refused", "lost"}

Device == Users \X Tokens
Slot == Users \X Tokens \X Postings
Work == Users \X Tokens \X Jobs

ASSUME ConstantAssumption ==
  /\ DedupeKey \in [Jobs -> Postings]
  /\ Matches \subseteq Users \X Jobs
  /\ Kind \in [Runs -> {"provider", "poll", "maintenance"}]
  /\ Cohort \subseteq Users
  /\ Legacy \subseteq Work
  /\ Replies \subseteq AllReplies /\ Calls \subseteq AllCalls
  /\ MaxAttempts \in Nat \ {0}
  /\ MaxJobsPerRun \in Nat \ {0}
  /\ MaxCalls \in Nat /\ MaxCrashes \in Nat
  /\ Users # {} /\ Tokens # {} /\ Jobs # {}

VARIABLES
  receipt,      \* the receipt row of each user, token and posting
  device,       \* the device row of each user and token
  pref,         \* the preference row of each user
  tombstone,    \* users whose account deletion has begun
  purged,       \* users whose rows deleteUser has deleted
  marker,       \* jobs with notification.smsPending
  announced,    \* jobs inserted so far
  delivered,    \* pushes of each slot that reach the phone, at most 2 counted
  calls, crashes,
  pc,           \* where each run is
  at,           \* the user, token and job it works on
  draft,        \* the receipt it holds in memory
  reply,        \* Expo's answer
  mem           \* its other local variables

stores == <<receipt, device, pref, tombstone, purged, marker, announced>>
bounds == <<calls, crashes>>
vars == <<stores, delivered, bounds, pc, at, draft, reply, mem>>

-----------------------------------------------------------------------------
(* Receipts *)

\* A ticket stands for its id by what Expo's receipt will say of it.
Ticket == {"none", "delivers", "fails", "gone"}
Status == {"absent", "pending", "retryable", "ok", "error"}
DeliveryState == {"none", "claimed", "accepted", "delivered", "definitive-failure", "unknown"}
Receipt == [status: Status, deliveryState: DeliveryState, attempts: Nat, jobId: Jobs, ticket: Ticket]
Reply == [answer: AllReplies, ticket: Ticket]
Pref == {"none", "off", "on"}

SomeWork == CHOOSE w \in Work : TRUE
Absent == [status |-> "absent", deliveryState |-> "none", attempts |-> 0,
           jobId |-> SomeWork[3], ticket |-> "none"]

SlotOf(w) == <<w[1], w[2], DedupeKey[w[3]]>>

Put(rec, status, state) == [rec EXCEPT !.status = status, !.deliveryState = state]

\* What the sender reads: the receipt of the posting, or the one of the old key.
ExistingReceipt(w) ==
  IF receipt[SlotOf(w)].status # "absent" THEN receipt[SlotOf(w)]
  ELSE IF w \in Legacy /\ w[1] \notin purged THEN Put(Absent, "ok", "none") ELSE Absent

Settled(rec) == rec.status \in {"ok", "pending"} \/ rec.deliveryState = "definitive-failure"

\* claimReceipt inserts the row, or replaces one whose status is error.
ClaimableUnlessOk(s) == receipt[s].status # "ok" /\ s[1] \notin tombstone
Claimable(s) == receipt[s].status \in {"absent", "error"} /\ s[1] \notin tombstone

\* The receipt the sender writes after Expo's answer.
SentReceipt(rec, rep) ==
  LET next == [rec EXCEPT !.ticket = rep.ticket]
  IN CASE rep.answer = "accepted"                          -> Put(next, "pending", "accepted")
       [] rep.answer \in {"unticketed", "lost"}            -> Put(next, "pending", "unknown")
       [] rep.answer = "busy" /\ rec.attempts < MaxAttempts -> Put(next, "retryable", "claimed")
       [] OTHER                                             -> Put(next, "error", "definitive-failure")

\* The receipt the retry writes: here a ticket without an id is retried again.
RetriedReceipt(rec, rep) ==
  LET next == [rec EXCEPT !.attempts = @ + 1, !.ticket = rep.ticket]
      again == rep.answer \in {"unticketed", "rejected", "busy"} /\ next.attempts < MaxAttempts
  IN CASE rep.answer = "accepted" -> Put(next, "pending", "accepted")
       [] rep.answer = "lost"     -> Put(next, "pending", "unknown")
       [] again                   -> Put(next, "retryable", "claimed")
       [] OTHER                   -> Put(next, "error", "definitive-failure")

\* The catch block after a failed database write inside the try block.
UnknownReceipt(rec) == [Put(rec, "pending", "unknown") EXCEPT !.ticket = "none"]

-----------------------------------------------------------------------------
(* Initial state: users have installed and configured the app, or not yet. *)

NoMem == [batch |-> {}, ready |-> FALSE, devices |-> {},
          cache |-> [u \in Users |-> "none"], work |-> {}, list |-> {}]
NoReply == [answer |-> "lost", ticket |-> "none"]

OneOwner(dev) == \A d, e \in Device : dev[d] # "none" /\ dev[e] # "none" /\ d[2] = e[2] => d = e

Init ==
  /\ receipt = [s \in Slot |-> Absent]
  /\ device \in {dev \in [Device -> {"none", "active"}] : OneOwner(dev)}
  /\ pref \in [Users -> {"none", "on"}]
  /\ tombstone = {} /\ purged = {}
  /\ marker = {} /\ announced = {}
  /\ delivered = [s \in Slot |-> IF \E w \in Legacy : SlotOf(w) = s THEN 1 ELSE 0]
  /\ calls = 0 /\ crashes = 0
  /\ pc = [r \in Runs |-> "idle"]
  /\ at = [r \in Runs |-> SomeWork]
  /\ draft = [r \in Runs |-> Absent]
  /\ reply = [r \in Runs |-> NoReply]
  /\ mem = [r \in Runs |-> NoMem]

-----------------------------------------------------------------------------
(* Steps of a run *)

Goto(r, label) == pc' = [pc EXCEPT ![r] = label]

\* The run returns, or an error it does not catch ends it.
End(r) ==
  /\ Goto(r, "idle")
  /\ at' = [at EXCEPT ![r] = SomeWork]
  /\ draft' = [draft EXCEPT ![r] = Absent]
  /\ reply' = [reply EXCEPT ![r] = NoReply]
  /\ mem' = [mem EXCEPT ![r] = NoMem]

Active == {d \in Device : device[d] = "active"}
ReadyOutsideCohort == \E d \in Active : pref[d[1]] = "on" /\ d[1] \notin Cohort
HasReadyDevice == \E d \in Active : pref[d[1]] = "on"

\* A poll inserts jobs, their marker set, and goes on to send them.
StartPoll(r, js) ==
  /\ pc[r] = "idle" /\ Kind[r] # "maintenance"
  /\ announced' = announced \cup js
  /\ marker' = marker \cup js
  /\ mem' = [mem EXCEPT ![r].batch = js]
  /\ Goto(r, "read")
  /\ UNCHANGED <<receipt, device, pref, tombstone, purged, delivered, bounds, at, draft, reply>>

\* The cron takes a bounded number of marked jobs; their rank is left out.
StartDrain(r, js) ==
  /\ pc[r] = "idle" /\ Kind[r] = "maintenance"
  /\ js = marker \/ Cardinality(js) = MaxJobsPerRun
  /\ Cardinality(js) <= MaxJobsPerRun
  /\ mem' = [mem EXCEPT ![r].batch = js]
  /\ Goto(r, "ready")
  /\ UNCHANGED <<stores, delivered, bounds, at, draft, reply>>

CheckReady(r) ==
  /\ pc[r] = "ready"
  /\ mem' = [mem EXCEPT ![r].ready = HasReadyDevice]
  /\ Goto(r, "read")
  /\ UNCHANGED <<stores, delivered, bounds, at, draft, reply>>

ReadDevices(r) ==
  /\ pc[r] = "read"
  /\ mem' = [mem EXCEPT ![r].work = {<<d[1], d[2], j>> : d \in Active, j \in mem[r].batch}]
  /\ Goto(r, "send")
  /\ UNCHANGED <<stores, delivered, bounds, at, draft, reply>>

\* Preferences are read once per user and run; an absent row is read again.
Seen(r, u) == IF mem[r].cache[u] # "none" THEN mem[r].cache[u] ELSE pref[u]
Excluded(r, u) == u \in Cohort /\ Kind[r] # "maintenance"

Evaluate(r, w) ==
  LET u == w[1]
      rest == [mem[r] EXCEPT !.work = @ \ {w}]
      read == [rest EXCEPT !.cache[u] = Seen(r, u)]
      found == ExistingReceipt(w)
  IN /\ pc[r] = "send" /\ w \in mem[r].work
     /\ mem' = [mem EXCEPT ![r] = IF Excluded(r, u) THEN rest ELSE read]
     /\ IF Excluded(r, u) \/ Seen(r, u) # "on" \/ <<u, w[3]>> \notin Matches \/ Settled(found)
        THEN UNCHANGED <<pc, at, draft>>
        ELSE /\ Goto(r, "claim")
             /\ at' = [at EXCEPT ![r] = w]
             /\ draft' = [draft EXCEPT ![r] =
                  [status |-> "pending", deliveryState |-> "claimed", ticket |-> "none",
                   attempts |-> found.attempts + 1, jobId |-> w[3]]]
     /\ UNCHANGED <<stores, delivered, bounds, reply>>

\* The insert that also locks out every other sender of the posting.
Claim(r) ==
  LET s == SlotOf(at[r])
  IN /\ pc[r] = "claim"
     /\ IF Claimable(s)
        THEN receipt' = [receipt EXCEPT ![s] = draft[r]] /\ Goto(r, "publish")
        ELSE Goto(r, "send") /\ UNCHANGED receipt
     /\ UNCHANGED <<device, pref, tombstone, purged, marker, announced,
                    delivered, bounds, at, draft, reply, mem>>

\* What Expo answers, and whether the push reaches the phone.
Answers(answer, ticket, reached) ==
  /\ (answer = "accepted") <=> (ticket # "none")
  /\ answer = "accepted" => (reached <=> ticket = "delivers")
  /\ reached => answer \in {"accepted", "unticketed", "lost"}

Publish(r) ==
  /\ pc[r] \in {"publish", "republish"}
  /\ \E answer \in Replies, ticket \in Ticket, reached \in BOOLEAN :
       /\ Answers(answer, ticket, reached)
       /\ reply' = [reply EXCEPT ![r] = [answer |-> answer, ticket |-> ticket]]
       /\ delivered' = [delivered EXCEPT ![SlotOf(at[r])] = IF reached /\ @ < 2 THEN @ + 1 ELSE @]
  /\ Goto(r, IF pc[r] = "publish" THEN "record" ELSE "rerecord")
  /\ UNCHANGED <<stores, bounds, at, draft, mem>>

-----------------------------------------------------------------------------
(* Writing what Expo answered.  put fails once a deletion has begun.        *)

Erased(r) == at[r][1] \in tombstone

Write(r, rec) == receipt' = [receipt EXCEPT ![SlotOf(at[r])] = rec]

Loop(r) == IF pc[r] \in {"record", "deactivate"} THEN "send"
           ELSE IF pc[r] \in {"rerecord", "redeactivate", "giveUp"} THEN "retry" ELSE "confirm"

Recorded(r) == IF pc[r] = "record" THEN SentReceipt(draft[r], reply[r])
               ELSE RetriedReceipt(draft[r], reply[r])

Record(r) ==
  /\ pc[r] \in {"record", "rerecord"} /\ ~Erased(r)
  /\ Write(r, Recorded(r))
  /\ Goto(r, IF reply[r].answer # "gone" THEN Loop(r)
             ELSE IF pc[r] = "record" THEN "deactivate" ELSE "redeactivate")
  /\ UNCHANGED <<device, pref, tombstone, purged, marker, announced,
                 delivered, bounds, at, draft, reply, mem>>

\* A database error in the try block: the catch block takes it for a lost answer.
WriteFails(r) ==
  /\ pc[r] \in {"record", "rerecord", "deactivate", "redeactivate"} /\ ~Erased(r)
  /\ reply[r].answer \notin Thrown
  /\ crashes < MaxCrashes /\ crashes' = crashes + 1
  /\ Write(r, UnknownReceipt(IF pc[r] \in {"record", "deactivate"} THEN draft[r]
                             ELSE [draft[r] EXCEPT !.attempts = @ + 1]))
  /\ Goto(r, Loop(r))
  /\ UNCHANGED <<device, pref, tombstone, purged, marker, announced,
                 delivered, calls, at, draft, reply, mem>>

\* putDevice takes the token from every other user and writes this one's row.
AssignedBesideOthers(u, t, state) == [device EXCEPT ![<<u, t>>] = state]
Assigned(u, t, state) ==
  [d \in Device |-> IF d = <<u, t>> THEN state ELSE IF d[2] = t THEN "none" ELSE device[d]]

PutDeviceAnyway(u, t, state) == device' = Assigned(u, t, state)
PutDevice(u, t, state) == u \notin tombstone /\ device' = Assigned(u, t, state)

\* Expo says the token is gone: the row read earlier is put back, inactive.
Deactivate(r) ==
  /\ pc[r] \in {"deactivate", "redeactivate", "unlink"}
  /\ PutDevice(at[r][1], at[r][2], "inactive")
  /\ Goto(r, Loop(r))
  /\ UNCHANGED <<receipt, pref, tombstone, purged, marker, announced,
                 delivered, bounds, at, draft, reply, mem>>

SendDone(r) ==
  /\ pc[r] = "send" /\ mem[r].work = {}
  /\ IF Kind[r] = "provider" THEN End(r)
     ELSE /\ Goto(r, IF Kind[r] = "maintenance" /\ mem[r].ready THEN "mark" ELSE "inspect")
          /\ UNCHANGED <<at, draft, reply, mem>>
  /\ UNCHANGED <<stores, delivered, bounds>>

\* markSmsSent of each job of the batch in turn.
Mark(r) ==
  /\ pc[r] = "mark"
  /\ IF mem[r].batch = {}
     THEN Goto(r, "inspect") /\ UNCHANGED <<marker, mem>>
     ELSE \E j \in mem[r].batch :
            /\ marker' = marker \ {j}
            /\ mem' = [mem EXCEPT ![r].batch = @ \ {j}]
            /\ UNCHANGED pc
  /\ UNCHANGED <<receipt, device, pref, tombstone, purged, announced,
                 delivered, bounds, at, draft, reply>>

-----------------------------------------------------------------------------
(* Inspection of Expo's receipts *)

Rows(status) == {[work |-> <<s[1], s[2], receipt[s].jobId>>, rec |-> receipt[s]] :
                   s \in {x \in Slot : receipt[x].status = status}}

\* A receipt without a ticket stays pending.
InspectRead(r) ==
  /\ pc[r] = "inspect"
  /\ mem' = [mem EXCEPT ![r].list = {row \in Rows("pending") : row.rec.ticket # "none"}]
  /\ Goto(r, "lookup")
  /\ UNCHANGED <<stores, delivered, bounds, at, draft, reply>>

\* Expo knows the outcome of some of the tickets.
Lookup(r) ==
  /\ pc[r] = "lookup"
  /\ \E known \in SUBSET mem[r].list : mem' = [mem EXCEPT ![r].list = known]
  /\ Goto(r, "confirm")
  /\ UNCHANGED <<stores, delivered, bounds, at, draft, reply>>

ConfirmedHalf(rec) == IF rec.ticket = "delivers" THEN Put(rec, "ok", "delivered")
                      ELSE Put(rec, "error", rec.deliveryState)
Confirmed(rec) == IF rec.ticket = "delivers" THEN Put(rec, "ok", "delivered")
                  ELSE Put(rec, "error", "definitive-failure")

Confirm(r, row) ==
  /\ pc[r] = "confirm" /\ row \in mem[r].list
  /\ row.work[1] \notin tombstone
  /\ receipt' = [receipt EXCEPT ![SlotOf(row.work)] = Confirmed(row.rec)]
  /\ mem' = [mem EXCEPT ![r].list = @ \ {row}]
  /\ at' = [at EXCEPT ![r] = row.work]
  /\ Goto(r, IF row.rec.ticket = "gone" THEN "find" ELSE "confirm")
  /\ UNCHANGED <<device, pref, tombstone, purged, marker, announced,
                 delivered, bounds, draft, reply>>

ConfirmErased(r, row) ==
  /\ pc[r] = "confirm" /\ row \in mem[r].list
  /\ row.work[1] \in tombstone
  /\ End(r)
  /\ UNCHANGED <<stores, delivered, bounds>>

\* The device is read afresh before it is deactivated.
Find(r) ==
  /\ pc[r] = "find"
  /\ Goto(r, IF <<at[r][1], at[r][2]>> \in Active THEN "unlink" ELSE "confirm")
  /\ UNCHANGED <<stores, delivered, bounds, at, draft, reply, mem>>

-----------------------------------------------------------------------------
(* Retry *)

RetryDevices(r) ==
  /\ pc[r] = "confirm" /\ mem[r].list = {}
  /\ mem' = [mem EXCEPT ![r].devices = Active]
  /\ Goto(r, "retryable")
  /\ UNCHANGED <<stores, delivered, bounds, at, draft, reply>>

RetryReadOfDevices(r) ==
  /\ pc[r] = "retryable"
  /\ mem' = [mem EXCEPT ![r].list = {row \in Rows("retryable") :
                                       <<row.work[1], row.work[2]>> \in mem[r].devices}]
  /\ Goto(r, "retry")
  /\ UNCHANGED <<stores, delivered, bounds, at, draft, reply>>
RetryRead(r) ==
  /\ pc[r] = "retryable"
  /\ mem' = [mem EXCEPT ![r].list = Rows("retryable")]
  /\ Goto(r, "retry")
  /\ UNCHANGED <<stores, delivered, bounds, at, draft, reply>>

\* The receipt read is published again as it is: nothing claims it.
RetryEvaluate(r, row) ==
  LET u == row.work[1]
      hopeless == \/ row.rec.attempts >= MaxAttempts
                  \/ <<u, row.work[2]>> \notin mem[r].devices
                  \/ pref[u] # "on" \/ <<u, row.work[3]>> \notin Matches
  IN /\ pc[r] = "retry" /\ row \in mem[r].list
     /\ mem' = [mem EXCEPT ![r].list = @ \ {row}]
     /\ at' = [at EXCEPT ![r] = row.work]
     /\ \/ /\ Excluded(r, u)
           /\ draft' = [draft EXCEPT ![r] = Put(row.rec, "error", "definitive-failure")]
           /\ Goto(r, "giveUp")
        \/ /\ ~Excluded(r, u) /\ hopeless
           /\ draft' = [draft EXCEPT ![r] = Put(row.rec, "error", row.rec.deliveryState)]
           /\ Goto(r, "giveUp")
        \/ /\ ~Excluded(r, u) /\ ~hopeless
           /\ draft' = [draft EXCEPT ![r] = row.rec]
           /\ Goto(r, "republish")
     /\ UNCHANGED <<stores, delivered, bounds, reply>>

GiveUp(r) ==
  /\ pc[r] = "giveUp" /\ ~Erased(r)
  /\ Write(r, draft[r])
  /\ Goto(r, "retry")
  /\ UNCHANGED <<device, pref, tombstone, purged, marker, announced,
                 delivered, bounds, at, draft, reply, mem>>

RetryDone(r) ==
  /\ pc[r] = "retry" /\ mem[r].list = {}
  /\ End(r)
  /\ UNCHANGED <<stores, delivered, bounds>>

-----------------------------------------------------------------------------
(* Failures *)

\* Both the write and the one of the catch block find the tombstone and throw.
Refused(r) ==
  /\ pc[r] \in {"record", "rerecord", "deactivate", "redeactivate", "unlink", "giveUp"}
  /\ Erased(r)
  /\ End(r)
  /\ UNCHANGED <<stores, delivered, bounds>>

\* The isolate dies, or a statement or request outside a try block fails.
Crash(r) ==
  /\ pc[r] # "idle"
  /\ crashes < MaxCrashes /\ crashes' = crashes + 1
  /\ End(r)
  /\ UNCHANGED <<stores, delivered, calls>>

-----------------------------------------------------------------------------
(* What users and operators do meanwhile *)

Call(name) == name \in Calls /\ calls < MaxCalls /\ calls' = calls + 1
Outside == <<delivered, crashes, pc, at, draft, reply, mem>>

Register(u, t) ==
  /\ Call("register")
  /\ PutDevice(u, t, "active")
  /\ UNCHANGED <<receipt, pref, tombstone, purged, marker, announced, Outside>>

Unregister(u, t) ==
  /\ Call("unregister") /\ device[<<u, t>>] # "none"
  /\ device' = [device EXCEPT ![<<u, t>>] = "none"]
  /\ UNCHANGED <<receipt, pref, tombstone, purged, marker, announced, Outside>>

SetAlerts(u, value) ==
  /\ Call("alerts") /\ u \notin tombstone /\ value \in {"on", "off"} \ {pref[u]}
  /\ pref' = [pref EXCEPT ![u] = value]
  /\ UNCHANGED <<receipt, device, tombstone, purged, marker, announced, Outside>>

BeginDeletion(u) ==
  /\ Call("delete") /\ u \notin tombstone
  /\ tombstone' = tombstone \cup {u}
  /\ UNCHANGED <<receipt, device, pref, purged, marker, announced, Outside>>

Deletable == tombstone \ purged

\* deleteUser, once documents and uploads are gone: possibly much later.
Purge(u) ==
  /\ Call("purge") /\ u \in Deletable
  /\ purged' = purged \cup {u}
  /\ receipt' = [s \in Slot |-> IF s[1] = u THEN Absent ELSE receipt[s]]
  /\ device' = [d \in Device |-> IF d[1] = u THEN "none" ELSE device[d]]
  /\ pref' = [pref EXCEPT ![u] = "none"]
  /\ UNCHANGED <<tombstone, marker, announced, Outside>>

\* recoverUndeliveredNotifications: a job no receipt names is marked again.
Requeue(j) ==
  /\ Call("requeue") /\ j \in announced \ marker
  /\ \A s \in Slot : receipt[s].status = "absent" \/ receipt[s].jobId # j
  /\ \A w \in Legacy : w[3] = j => w[1] \in purged
  /\ marker' = marker \cup {j}
  /\ UNCHANGED <<receipt, device, pref, tombstone, purged, announced, Outside>>

-----------------------------------------------------------------------------
(* Specification *)

Start(r) == \/ \E js \in SUBSET (Jobs \ announced) : StartPoll(r, js)
            \/ \E js \in SUBSET marker : StartDrain(r, js)

Sending(r) == \/ CheckReady(r) \/ ReadDevices(r)
              \/ \E w \in mem[r].work : Evaluate(r, w)
              \/ Claim(r) \/ SendDone(r) \/ Mark(r)
Answering(r) == Publish(r) \/ Record(r) \/ Deactivate(r) \/ Refused(r)
Inspecting(r) == \/ InspectRead(r) \/ Lookup(r) \/ Find(r)
                 \/ \E row \in mem[r].list : Confirm(r, row) \/ ConfirmErased(r, row)
Retrying(r) == \/ RetryDevices(r) \/ RetryRead(r) \/ GiveUp(r) \/ RetryDone(r)
               \/ \E row \in mem[r].list : RetryEvaluate(r, row)

Step(r) == Sending(r) \/ Answering(r) \/ Inspecting(r) \/ Retrying(r)
Fault(r) == WriteFails(r) \/ Crash(r)

Environment ==
  \/ \E u \in Users, t \in Tokens : Register(u, t) \/ Unregister(u, t)
  \/ \E u \in Users : \/ \E value \in {"on", "off"} : SetAlerts(u, value)
                      \/ BeginDeletion(u) \/ Purge(u)
  \/ \E j \in Jobs : Requeue(j)

Next == (\E r \in Runs : Start(r) \/ Step(r) \/ Fault(r)) \/ Environment

Spec == Init /\ [][Next]_vars

\* A run that has begun goes on unless it dies; the cron starts the next drain.
FairSpec == /\ Spec
            /\ \A r \in Runs : WF_vars(Step(r)) /\ WF_vars(Start(r) /\ Kind[r] = "maintenance")
-----------------------------------------------------------------------------
(* Properties *)

PC == {"idle", "ready", "read", "send", "claim", "publish", "record", "deactivate", "mark",
       "inspect", "lookup", "confirm", "find", "unlink",
       "retryable", "retry", "republish", "rerecord", "redeactivate", "giveUp"}
Row == [work: Work, rec: Receipt]
Mem == [batch: SUBSET Jobs, ready: BOOLEAN, devices: SUBSET Device,
        cache: [Users -> Pref], work: SUBSET Work, list: SUBSET Row]

\* Every row and local variable holds a value the code's types allow.
TypeOK ==
  /\ receipt \in [Slot -> Receipt]
  /\ device \in [Device -> {"none", "active", "inactive"}]
  /\ pref \in [Users -> Pref]
  /\ tombstone \subseteq Users /\ purged \subseteq tombstone
  /\ marker \subseteq Jobs /\ announced \subseteq Jobs
  /\ delivered \in [Slot -> 0..2]
  /\ calls \in Nat /\ crashes \in Nat
  /\ pc \in [Runs -> PC]
  /\ at \in [Runs -> Work]
  /\ draft \in [Runs -> Receipt]
  /\ reply \in [Runs -> Reply]
  /\ mem \in [Runs -> Mem]

\* A posting is pushed at most once to a user's device, whichever runs send it
\* and wherever they die: the receipt is claimed before Expo is asked.
AtMostOnePush == \A s \in Slot : delivered[s] <= 1

\* Once an account is deleted no row of it comes back, though runs that read its
\* devices and receipts before the deletion are still writing.
NoRowsAfterPurge == \A u \in purged :
  /\ \A s \in Slot : s[1] = u => receipt[s].status = "absent"
  /\ \A d \in Device : d[1] = u => device[d] = "none"
  /\ pref[u] = "none"

\* A token has a row under at most one user, although workers put back copies
\* of rows that a registration of the same phone has replaced meanwhile.
OneOwnerPerToken == OneOwner(device)

\* However sends, retries, abandoned retries and replays follow each other, a
\* posting is not attempted more than MAX_EXPO_PUSH_ATTEMPTS times on a device.
AttemptsBounded == \A s \in Slot : receipt[s].attempts <= MaxAttempts

\* No run goes on to publish a slot whose receipt says the outcome is unknown.
UnknownNotResent ==
  [][\A r \in Runs : pc'[r] \in {"publish", "republish"} /\ pc[r] # pc'[r] =>
       receipt[SlotOf(at'[r])].deliveryState # "unknown"]_vars

Ready == \E d \in Device : device[d] = "active" /\ pref[d[1]] = "on"

\* While some device is ready, a marked job does not stay marked for ever.
MarkerDrained == \A j \in Jobs : j \in marker ~> (j \notin marker \/ ~Ready)

\* A receipt Expo refused for a moment does not stay retryable for ever.
RetrySettles == \A s \in Slot : receipt[s].status = "retryable" ~> receipt[s].status # "retryable"

LedgerState(rec) ==
  CASE rec.status = "absent"                        -> "none"
    [] rec.status = "retryable"                     -> "retryable"
    [] rec.status = "ok"                            -> "delivered"
    [] rec.status = "error"                         -> IF rec.deliveryState = "definitive-failure"
                                                       THEN "failed" ELSE "abandoned"
    [] OTHER                                        -> rec.deliveryState

SlotOwner(s) == s[1]
Ledger == INSTANCE DeliveryLedger WITH
  Slots <- Slot, OwnerOf <- SlotOwner, closed <- tombstone,
  state <- [s \in Slot |-> LedgerState(receipt[s])]

\* The receipt rows implement the ledger: claims, answers, retries, inspection
\* and deletion take each receipt only along the transitions it allows.
LedgerSpec == Ledger!Spec
=============================================================================
