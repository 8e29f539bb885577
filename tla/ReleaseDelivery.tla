--------------------------- MODULE ReleaseDelivery ---------------------------
(***************************************************************************)
(* Delivery of a grouped alert to one user: the push, email and receipt      *)
(* workers of src/notification-pipeline-handler.ts over the users table.     *)
(*                                                                         *)
(* A DELIVERY row per destination is claimed before the provider is called. *)
(* An accepted ticket is written together with a receipt outbox row, which   *)
(* the stream of the table hands to the receipt queue. Queues deliver at     *)
(* least once: a message stays until its run acknowledges it and goes to the *)
(* dead-letter queue after MaxReceives.                                      *)
(***************************************************************************)
EXTENDS Integers, FiniteSets

CONSTANTS
  Devices,        \* push destinations of the user
  Addresses,      \* mail addresses the profile may hold
  Channels,       \* the channels an intent may be published for
  Runs,           \* concurrent invocations of the workers
  MaxChecks,      \* MAX_EXPO_RECEIPT_CHECKS, 8
  MaxReceives,    \* maxReceiveCount of the queues, 4
  MaxFaults       \* bound: calls that fail and runs that die

ASSUME DeliveryAssumption ==
  /\ Channels \subseteq SUBSET {"push", "email"}
  /\ MaxChecks \in Nat \ {0} /\ MaxReceives \in Nat \ {0} /\ MaxFaults \in Nat
  /\ Devices \cap Addresses = {} /\ Addresses # {} /\ "none" \notin Devices \cup Addresses

VARIABLES
  claim,       \* state of the DELIVERY row of each destination
  tombstone,   \* the DELIVERY_TOMBSTONE row of the logical email
  outbox,      \* destinations with a PIPELINE_RECEIPT_OUTBOX row
  stream,      \* inserted outbox rows the stream publisher has yet to see
  device,      \* DEVICE rows
  address,     \* the address in the profile
  deleted,     \* the tombstone of the account
  purge,       \* how far deleteUser is, and the rows it has yet to delete
  queue,
  dlq,         \* kind and destination of the messages and stream records given up
  sent,        \* how often a provider took a message for a destination
  faults,
  pc, local    \* where each run is, and its variables

rows == <<claim, tombstone, outbox, device>>
account == <<address, deleted, purge>>
vars == <<rows, account, stream, queue, dlq, sent, faults, pc, local>>

-----------------------------------------------------------------------------
Dest == Devices \cup Addresses
Terminal == {"delivered", "definitive-failure", "unknown"}
ClaimState == {"none", "claimed", "accepted"} \cup Terminal
Message == [kind: {"push", "email", "receipt"}, dest: Dest \cup {"none"}, handoff: BOOLEAN,
            check: 0..MaxChecks, tries: 0..MaxReceives]
Row == {<<"tombstone", "none">>} \cup ({"claim"} \X Dest) \cup ({"outbox", "device"} \X Devices)

Intent(kind) == [kind |-> kind, dest |-> "none", handoff |-> FALSE, check |-> 0, tries |-> 0]
Receipt(d, pending, n) ==
  [kind |-> "receipt", dest |-> d, handoff |-> pending, check |-> n, tries |-> 0]
NoLocal == [msg |-> Intent("push"), todo |-> {}, dest |-> "none", outcome |-> "none"]

\* An HTTP error tells that the provider took nothing, a transport error tells nothing.
Taken == {"ticket", "noTicketId", "mailed", "transportTaken"}
PushOutcome == {"ticket", "noTicketId", "rejected", "unregistered", "retryable", "refused",
                "transportTaken", "transportLost"}
MailOutcome == {"mailed", "retryable", "refused", "transportTaken", "transportLost"}
Verdict(outcome) ==
  CASE outcome \in {"rejected", "unregistered", "refused"} -> "definitive-failure"
    [] outcome = "mailed" -> "delivered"
    [] OTHER -> "unknown"

Init ==
  /\ claim = [d \in Dest |-> "none"] /\ tombstone = FALSE /\ outbox = {} /\ stream = {}
  /\ device = [d \in Devices |-> "active"]
  /\ address \in Addresses
  /\ deleted = FALSE /\ purge = [stage |-> "none", left |-> {}]
  /\ \E channels \in Channels : queue = {Intent(c) : c \in channels}
  /\ dlq = {}
  /\ sent = [d \in Dest |-> 0] /\ faults = 0
  /\ pc = [r \in Runs |-> "idle"] /\ local = [r \in Runs |-> NoLocal]

Goto(r, label) == pc' = [pc EXCEPT ![r] = label]
Ends(r) == Goto(r, "idle") /\ local' = [local EXCEPT ![r] = NoLocal]
\* On to the next destination of the loop, or to the end of the handler.
Onward(r) ==
  /\ Goto(r, "next")
  /\ local' = [local EXCEPT ![r] = [local[r] EXCEPT !.dest = "none", !.outcome = "none"]]
Branch(r, label) == Goto(r, label) /\ UNCHANGED local
Fault == faults < MaxFaults /\ faults' = faults + 1

-----------------------------------------------------------------------------
(* Queues, stream and runs *)

Receive(r, m) ==
  /\ pc[r] = "idle" /\ m \in queue /\ m.tries < MaxReceives
  /\ LET taken == [m EXCEPT !.tries = m.tries + 1]
         todo == CASE m.kind = "push" -> {d \in Devices : device[d] = "active"}
                   [] m.kind = "email" -> {address}
                   [] OTHER -> {}
     IN /\ queue' = (queue \ {m}) \cup {taken}
        /\ local' = [local EXCEPT ![r] =
             [msg |-> taken, todo |-> todo, dest |-> m.dest, outcome |-> "none"]]
  /\ Goto(r, IF m.kind # "receipt" THEN "next" ELSE IF m.handoff THEN "handoff" ELSE "check")
  /\ UNCHANGED <<rows, account, stream, dlq, sent, faults>>

\* The handler throws or its process dies: the message is delivered again.
Stop(r) ==
  /\ pc[r] # "idle"
  /\ Fault /\ Ends(r)
  /\ UNCHANGED <<rows, account, stream, queue, dlq, sent>>

Acknowledge(r) ==
  /\ pc[r] = "next" /\ local[r].todo = {}
  /\ queue' = queue \ {local[r].msg}
  /\ Ends(r)
  /\ UNCHANGED <<rows, account, stream, dlq, sent, faults>>

DeadLetter(m) ==
  /\ m \in queue /\ m.tries = MaxReceives
  /\ \A r \in Runs : pc[r] = "idle" \/ local[r].msg # m
  /\ queue' = queue \ {m} /\ dlq' = dlq \cup {<<m.kind, m.dest>>}
  /\ UNCHANGED <<rows, account, stream, sent, faults, pc, local>>

\* A record that fails after its retries goes to the StreamFailureQueue. One fault stands
\* for the failing attempts.
StreamGivesUp(d) ==
  /\ Fault
  /\ stream' = stream \ {d} /\ dlq' = dlq \cup {<<"stream", d>>}
  /\ UNCHANGED queue

\* streamPublisher: a record whose checkpoint is lost is published again.
StreamPublish(d) ==
  /\ d \in stream
  /\ \/ /\ queue' = queue \cup {Receipt(d, FALSE, 0)} /\ UNCHANGED dlq
        /\ \/ stream' = stream \ {d} /\ UNCHANGED faults
           \/ Fault /\ UNCHANGED stream
     \/ StreamGivesUp(d)
  /\ UNCHANGED <<rows, account, sent, pc, local>>

\* nextReceiptCheck
ChecksLeft(n) == n < MaxChecks

-----------------------------------------------------------------------------
(* Conditional writes *)

\* transitionClaim asks only that the row exists.
Transition(d, state) ==
  claim' = IF claim[d] = "none" THEN claim ELSE [claim EXCEPT ![d] = state]

\* The condition of the transaction of claimDelivery.
MayClaimEachAddress(d) == ~deleted /\ claim[d] = "none"
MayClaim(d) == ~deleted /\ claim[d] = "none" /\ (d \in Addresses => ~tombstone)

\* acceptPushWithReceiptOutbox: its transaction, the repair of a missing outbox row, and
\* the rows read after a cancelled transaction.
MayAcceptDeleted(d) == claim[d] = "claimed" /\ d \notin outbox
MayAcceptAlways(d) == ~deleted /\ claim[d] # "none"
MayAccept(d) == ~deleted /\ claim[d] = "claimed" /\ d \notin outbox
MayRepair(d) == ~deleted /\ claim[d] = "accepted" /\ d \notin outbox
AcceptWriteTorn(d) == claim' = [claim EXCEPT ![d] = "accepted"] /\ UNCHANGED <<outbox, stream>>
AcceptWrite(d) ==
  /\ claim' = [claim EXCEPT ![d] = "accepted"]
  /\ outbox' = outbox \cup {d} /\ stream' = stream \cup {d}
NothingWritten == UNCHANGED <<claim, outbox, stream>>

Handed(d) ==
  /\ \/ MayAccept(d) /\ AcceptWrite(d)
     \/ MayRepair(d) /\ AcceptWrite(d)
     \/ d \in outbox /\ NothingWritten
  /\ UNCHANGED faults
Dropped(d) == d \notin outbox /\ claim[d] = "none" /\ NothingWritten /\ UNCHANGED faults

\* It throws: the rows contradict it, or a call fails before or after its commit.
HandoffThrows(d) ==
  \/ /\ ~MayAccept(d) /\ ~MayRepair(d) /\ d \notin outbox /\ claim[d] # "none"
     /\ NothingWritten /\ UNCHANGED faults
  \/ Fault /\ NothingWritten
  \/ Fault /\ MayAccept(d) /\ AcceptWrite(d)

-----------------------------------------------------------------------------
(* deliverPush and deliverEmail *)

Claim(r, d) ==
  /\ pc[r] = "next" /\ d \in local[r].todo
  /\ local' = [local EXCEPT ![r] = [local[r] EXCEPT !.todo = local[r].todo \ {d}, !.dest = d]]
  /\ IF MayClaim(d)
     THEN /\ claim' = [claim EXCEPT ![d] = "claimed"]
          /\ tombstone' = (tombstone \/ d \in Addresses)
          /\ Goto(r, "publish")
     ELSE UNCHANGED <<claim, tombstone, pc>>
  /\ UNCHANGED <<outbox, device, account, stream, queue, dlq, sent, faults>>

Publish(r) ==
  /\ pc[r] = "publish"
  /\ LET d == local[r].dest IN
     \E outcome \in IF d \in Devices THEN PushOutcome ELSE MailOutcome :
       /\ local' = [local EXCEPT ![r] = [local[r] EXCEPT !.outcome = outcome]]
       /\ sent' = IF outcome \in Taken THEN [sent EXCEPT ![d] = sent[d] + 1] ELSE sent
       /\ Goto(r, CASE outcome = "ticket" -> "handoff"
                    [] outcome = "retryable" -> "abandon"
                    [] OTHER -> "record")
  /\ UNCHANGED <<rows, account, stream, queue, dlq, faults>>

\* The result is recorded. When that fails for a push, the outer catch takes it for a
\* failure of the provider.
Record(r) ==
  /\ pc[r] = "record"
  /\ LET d == local[r].dest
         unregistered == local[r].outcome = "unregistered"
     IN \/ /\ Transition(d, Verdict(local[r].outcome)) /\ UNCHANGED faults
           /\ IF unregistered THEN Branch(r, "putDevice") ELSE Onward(r)
        \/ /\ local[r].outcome \in {"rejected", "unregistered", "noTicketId"} /\ Fault
           /\ Transition(d, Verdict(local[r].outcome)) \/ UNCHANGED claim
           /\ Branch(r, "failed")
  /\ UNCHANGED <<tombstone, outbox, device, account, stream, queue, dlq, sent>>

\* abandonRetryableClaim; the error then goes on and the message comes back.
Abandon(r) ==
  /\ pc[r] = "abandon"
  /\ LET d == local[r].dest IN
     IF claim[d] = "claimed"
     THEN /\ claim' = [claim EXCEPT ![d] = "none"]
          /\ tombstone' = (tombstone /\ d \in Devices)
     ELSE UNCHANGED <<claim, tombstone>>
  /\ Ends(r)
  /\ UNCHANGED <<outbox, device, account, stream, queue, dlq, sent, faults>>

\* The accepted ticket is handed to the receipt worker, by the push worker or, when it
\* could not, by the receipt worker itself.
Handoff(r) ==
  /\ pc[r] = "handoff"
  /\ LET d == local[r].dest
         m == local[r].msg
         push == m.kind = "push"
         n == IF push THEN 0 ELSE m.check
     IN \/ /\ Handed(d) /\ UNCHANGED queue
           /\ IF push THEN Onward(r) ELSE Branch(r, "check")
        \/ Dropped(d) /\ Onward(r) /\ UNCHANGED queue
        \/ /\ HandoffThrows(d)
           /\ \/ /\ ChecksLeft(n) /\ queue' = queue \cup {Receipt(d, TRUE, n + 1)}
                 /\ Onward(r)
              \/ /\ ~ChecksLeft(n) \/ (push /\ faults' < MaxFaults)  \* the queue refuses it
                 /\ Branch(r, "failed") /\ UNCHANGED queue
  /\ UNCHANGED <<tombstone, device, account, dlq, sent>>

FailedSilently(r) ==
  /\ pc[r] = "failed"
  /\ Onward(r)
  /\ UNCHANGED <<rows, account, stream, queue, dlq, sent, faults>>

\* The push or its receipt ends without an answer.
Failed(r) ==
  /\ pc[r] = "failed"
  /\ Transition(local[r].dest, "unknown")
  /\ Onward(r)
  /\ UNCHANGED <<tombstone, outbox, device, account, stream, queue, dlq, sent, faults>>

\* putDevice writes back the row that the run read, whatever became of it.
PutDevice(r) ==
  /\ pc[r] = "putDevice"
  /\ \/ Onward(r) /\ UNCHANGED faults
     \/ local[r].msg.kind = "push" /\ Branch(r, "failed") /\ Fault
  /\ device' = [device EXCEPT ![local[r].dest] = "inactive"]
  /\ UNCHANGED <<claim, tombstone, outbox, account, stream, queue, dlq, sent>>

-----------------------------------------------------------------------------
(* receiptWorker, after the handoff *)

Check(r) ==
  /\ pc[r] = "check"
  /\ LET d == local[r].dest
         n == local[r].msg.check
     IN \/ \* no receipt yet, or the lookup fails
           /\ IF ChecksLeft(n)
              THEN queue' = queue \cup {Receipt(d, FALSE, n + 1)} /\ Onward(r)
              ELSE Branch(r, "failed") /\ UNCHANGED queue
           /\ UNCHANGED claim
        \/ /\ Transition(d, "delivered")
           /\ Onward(r) /\ UNCHANGED queue
        \/ \E unregistered \in BOOLEAN :
             /\ Transition(d, "definitive-failure")
             /\ IF unregistered /\ claim[d] # "none" THEN Branch(r, "findDevice") ELSE Onward(r)
             /\ UNCHANGED queue
  /\ UNCHANGED <<tombstone, outbox, device, account, stream, dlq, sent, faults>>

FindDevice(r) ==
  /\ pc[r] = "findDevice"
  /\ IF device[local[r].dest] = "active" THEN Branch(r, "putDevice") ELSE Onward(r)
  /\ UNCHANGED <<rows, account, stream, queue, dlq, sent, faults>>

-----------------------------------------------------------------------------
(* The user *)

ChangeAddress(a) ==
  /\ a # address /\ ~deleted
  /\ address' = a
  /\ UNCHANGED <<rows, deleted, purge, stream, queue, dlq, sent, faults, pc, local>>

BeginUserDeletion ==
  /\ ~deleted /\ deleted' = TRUE
  /\ UNCHANGED <<rows, address, purge, stream, queue, dlq, sent, faults, pc, local>>

\* deleteUser lists the rows of the user, then deletes them in no particular order.
ListRows ==
  /\ deleted /\ purge.stage = "none"
  /\ purge' = [stage |-> "listed",
               left |-> {row \in Row : \/ row[1] = "tombstone" /\ tombstone
                                       \/ row[1] = "claim" /\ claim[row[2]] # "none"
                                       \/ row[1] = "outbox" /\ row[2] \in outbox
                                       \/ row[1] = "device" /\ device[row[2]] # "none"}]
  /\ UNCHANGED <<rows, address, deleted, stream, queue, dlq, sent, faults, pc, local>>

DeleteRow(row) ==
  /\ row \in purge.left
  /\ purge' = [purge EXCEPT !.left = purge.left \ {row}]
  /\ tombstone' = (tombstone /\ row[1] # "tombstone")
  /\ claim' = [d \in Dest |-> IF row = <<"claim", d>> THEN "none" ELSE claim[d]]
  /\ outbox' = {d \in outbox : row # <<"outbox", d>>}
  /\ device' = [d \in Devices |-> IF row = <<"device", d>> THEN "none" ELSE device[d]]
  /\ UNCHANGED <<address, deleted, stream, queue, dlq, sent, faults, pc, local>>

-----------------------------------------------------------------------------
Work(r) ==
  \/ \E d \in Dest : Claim(r, d)
  \/ Publish(r) \/ Record(r) \/ Abandon(r) \/ Handoff(r) \/ Failed(r) \/ PutDevice(r)
  \/ Check(r) \/ FindDevice(r) \/ Acknowledge(r)

Purging == ListRows \/ \E row \in Row : DeleteRow(row)
User == BeginUserDeletion \/ \E a \in Addresses : ChangeAddress(a)

Next ==
  \/ \E r \in Runs : Work(r) \/ Stop(r) \/ \E m \in queue : Receive(r, m)
  \/ \E m \in queue : DeadLetter(m)
  \/ \E d \in stream : StreamPublish(d)
  \/ Purging \/ User

Spec == Init /\ [][Next]_vars

\* The receipt queue delivers what it holds, the stream is read and handlers run to an
\* end. Nothing is assumed of the user or of the other queues, and a handler may stop
\* wherever it is.
ReceiptOf(m, d) == m.kind = "receipt" /\ m.dest = d
Progress ==
  /\ \A r \in Runs : WF_vars(Work(r))
  /\ \A d \in Devices :
       /\ WF_vars(StreamPublish(d))
       /\ WF_vars(\E m \in queue : ReceiptOf(m, d) /\ (DeadLetter(m) \/ \E r \in Runs : Receive(r, m)))
FairSpec == Spec /\ Progress

-----------------------------------------------------------------------------
(* Properties *)

TypeOK ==
  /\ claim \in [Dest -> ClaimState] /\ tombstone \in BOOLEAN
  /\ outbox \subseteq Devices /\ stream \subseteq Devices
  /\ device \in [Devices -> {"active", "inactive", "none"}]
  /\ address \in Addresses /\ deleted \in BOOLEAN
  /\ purge \in [stage: {"none", "listed"}, left: SUBSET Row]
  /\ queue \subseteq Message
  /\ dlq \subseteq {"push", "email", "receipt", "stream"} \X (Dest \cup {"none"})
  /\ sent \in [Dest -> Nat] /\ faults \in 0..MaxFaults
  /\ pc \in [Runs -> {"idle", "next", "publish", "record", "abandon", "handoff", "failed",
                      "putDevice", "check", "findDevice"}]
  /\ local \in [Runs -> [msg: Message, todo: SUBSET Dest, dest: Dest \cup {"none"},
                         outcome: PushOutcome \cup MailOutcome \cup {"none"}]]

\* A provider takes at most one push per device and, whatever address the profile held
\* when, at most one mail: no repeated message, retry or crash sends an alert twice.
SentOnce ==
  /\ \A d \in Dest : sent[d] <= 1
  /\ \A d1, d2 \in Addresses : sent[d1] = 1 /\ sent[d2] = 1 => d1 = d2

\* Once the rows of a deleted account are listed (store.ts:976) no worker that was still
\* running adds a claim, a tombstone or a receipt outbox row to them, and none makes a
\* device active. The row of an inactive device may come back: putDevice has no condition
\* (store.ts:908), although beginUserDeletion "permanently blocks new writes" (store.ts:786).
OnlyInactiveDevicesComeBack ==
  purge.stage = "listed" =>
    /\ \A d \in Dest : claim[d] # "none" => <<"claim", d>> \in purge.left
    /\ \A d \in outbox : <<"outbox", d>> \in purge.left
    /\ tombstone => <<"tombstone", "none">> \in purge.left
    /\ \A d \in Devices : device[d] = "active" => <<"device", d>> \in purge.left

\* The message or the stream record about the receipt of d is a dead letter.
GivenUp(d) == <<"receipt", d>> \in dlq \/ <<"stream", d>> \in dlq

\* The receipt of an accepted ticket is looked up: its outbox row waits in the stream, or
\* a message about it waits, is handled or was given up.
AcceptedIsWatched ==
  \A d \in Devices : claim[d] = "accepted" =>
    d \in stream \/ GivenUp(d) \/ \E m \in queue : ReceiptOf(m, d)

\* A claim with a result is never opened again, by a late handoff or by an abandoned
\* retry.
NeverReopened ==
  [][\A d \in Dest : claim[d] \in Terminal => claim'[d] \in Terminal \cup {"none"}]_vars

\* An accepted push gets a result, unless its outbox record or receipt message was given up.
AcceptedSettles ==
  \A d \in Devices : claim[d] = "accepted" ~> (claim[d] # "accepted" \/ GivenUp(d))

=============================================================================
