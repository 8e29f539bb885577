----------------------- MODULE ReleaseDelivery_proofs -----------------------
(***************************************************************************)
(* The delivery of a grouped alert, for any number of devices, addresses,   *)
(* workers and repeated messages. A claim is the only thing that stands      *)
(* between a repeated message and a second alert; the invariant says who       *)
(* may give it up, and what a message about a receipt proves of its claim.     *)
(***************************************************************************)
EXTENDS ReleaseDelivery, TLAPS

\* A device has a claim of its own, the addresses of a user share the tombstone.
Slot(d) == IF d \in Devices THEN {d} ELSE Addresses
Held(d) == IF d \in Devices THEN claim[d] # "none" ELSE tombstone

\* A message about a receipt proves that the provider took the push.
MessageOK(m) == m.kind = "receipt" => m.dest \in Devices /\ sent[m.dest] > 0

LocalOK(r) ==
  /\ local[r].msg.kind = "receipt" =>
       /\ local[r].todo = {} /\ pc[r] \notin {"publish", "record", "abandon"}
       /\ pc[r] # "next" => local[r].dest = local[r].msg.dest
  /\ local[r].msg.kind = "email" =>
       /\ local[r].todo \subseteq Addresses
       /\ pc[r] # "next" => local[r].dest \in Addresses
  /\ pc[r] \in {"publish", "record", "abandon", "failed"} => local[r].dest \in Dest
  /\ pc[r] \in {"handoff", "check", "findDevice", "putDevice"} => local[r].dest \in Devices
  /\ pc[r] \in {"check", "findDevice"} => local[r].msg.kind = "receipt"
  /\ pc[r] = "handoff" => sent[local[r].dest] > 0
  /\ pc[r] = "record" => local[r].outcome \in PushOutcome \cup MailOutcome
  /\ pc[r] = "record" /\ local[r].outcome = "unregistered" => local[r].dest \in Devices

RunOK(r) == pc[r] # "idle" => MessageOK(local[r].msg) /\ LocalOK(r)

\* A run that may still send, or give up what it claimed, has its slot for itself and has
\* sent nothing in it.
Open == {"publish", "abandon"}
OpenOK(r) == pc[r] \in Open =>
  /\ ~deleted => Held(local[r].dest)
  /\ \A d \in Slot(local[r].dest) : sent[d] = 0
  /\ \A q \in Runs : pc[q] \in Open /\ q # r => Slot(local[q].dest) # Slot(local[r].dest)

HeldOnceSent == ~deleted => \A d \in Dest : sent[d] > 0 => Held(d)

\* A receipt worker that is done with a message has given the claim its result or has asked
\* for a later check.
Pending(d) == claim[d] \in {"claimed", "accepted"}
Later(d, n) == <<"receipt", d>> \in dlq \/ \E m \in queue : ReceiptOf(m, d) /\ m.check > n
DoneOK(r) == pc[r] # "idle" /\ local[r].msg.kind = "receipt" =>
  /\ pc[r] = "next" /\ Pending(local[r].msg.dest) => Later(local[r].msg.dest, local[r].msg.check)
  /\ pc[r] \in {"findDevice", "putDevice"} => ~Pending(local[r].msg.dest)

IInv ==
  /\ TypeOK /\ SentOnce /\ OnlyInactiveDevicesComeBack /\ AcceptedIsWatched /\ HeldOnceSent
  /\ purge.stage = "listed" => deleted
  /\ purge.left # {} => purge.stage = "listed"
  /\ \A m \in queue : MessageOK(m)
  /\ \A d \in stream : sent[d] > 0
  /\ \A r \in Runs : RunOK(r) /\ OpenOK(r) /\ DoneOK(r)

-----------------------------------------------------------------------------
(* Types.                                                                   *)

Outcome == PushOutcome \cup MailOutcome
Label == {"idle", "next", "publish", "record", "abandon", "handoff", "failed", "putDevice", "check",
          "findDevice"}
Local == [msg: Message, todo: SUBSET Dest, dest: Dest \cup {"none"}, outcome: Outcome \cup {"none"}]

RunsTyped == pc \in [Runs -> Label] /\ local \in [Runs -> Local]

LEMMA Locals ==
  ASSUME NEW l \in Local, NEW S \in SUBSET Dest, NEW d \in Dest \cup {"none"},
         NEW o \in Outcome \cup {"none"}
  PROVE  /\ [l EXCEPT !.dest = d, !.outcome = o] \in Local /\ [l EXCEPT !.outcome = o] \in Local
         /\ [l EXCEPT !.todo = S, !.dest = d] \in Local
         /\ [l EXCEPT !.dest = d, !.outcome = o].msg = l.msg
         /\ [l EXCEPT !.dest = d, !.outcome = o].todo = l.todo
         /\ [l EXCEPT !.outcome = o].msg = l.msg /\ [l EXCEPT !.outcome = o].todo = l.todo
         /\ [l EXCEPT !.outcome = o].dest = l.dest /\ [l EXCEPT !.outcome = o].outcome = o
         /\ [l EXCEPT !.todo = S, !.dest = d].msg = l.msg
         /\ [l EXCEPT !.todo = S, !.dest = d].todo = S
         /\ [l EXCEPT !.todo = S, !.dest = d].dest = d
  BY DEF Local

\* The intents and the receipt messages that the workers make.
LEMMA Messages ==
  ASSUME DeliveryAssumption
  PROVE  /\ \A kind \in {"push", "email"} : Intent(kind) \in Message
         /\ NoLocal \in Local
         /\ \A d \in Dest \cup {"none"}, pending \in BOOLEAN, n \in 0..MaxChecks :
              Receipt(d, pending, n) \in Message
         /\ \A m \in Message : m.tries < MaxReceives =>
              /\ [m EXCEPT !.tries = m.tries + 1] \in Message
              /\ [m EXCEPT !.tries = m.tries + 1].kind = m.kind
              /\ [m EXCEPT !.tries = m.tries + 1].dest = m.dest
              /\ [m EXCEPT !.tries = m.tries + 1].check = m.check
              /\ [m EXCEPT !.tries = m.tries + 1].handoff = m.handoff
  BY DEF DeliveryAssumption, Intent, Message, NoLocal, Local, Receipt, Outcome

LEMMA Verdicts == \A o \in Outcome : Verdict(o) \in Terminal
  BY DEF Verdict, Terminal, Outcome, PushOutcome, MailOutcome

LEMMA Typed ==
  ASSUME TypeOK
  PROVE  RunsTyped /\ \A r \in Runs :
           local[r] \in Local /\ local[r].msg \in Message /\ pc[r] \in Label
           /\ local[r].todo \subseteq Dest
  BY DEF TypeOK, RunsTyped, Local, Label, Outcome

LEMMA Moves ==
  ASSUME DeliveryAssumption, TypeOK, NEW r \in Runs,
         Onward(r) \/ Ends(r) \/ \E label \in Label : Branch(r, label)
  PROVE  RunsTyped'
<1>1. RunsTyped BY Typed
<1>2. CASE Onward(r)
  <2>0. local[r] \in Local /\ {} \in SUBSET Dest BY <1>1 DEF RunsTyped
  <2>1. [local[r] EXCEPT !.dest = "none", !.outcome = "none"] \in Local BY <2>0, Locals
  <2> QED BY <1>1, <1>2, <2>1 DEF Onward, Goto, RunsTyped, Label
<1>3. CASE Ends(r) BY <1>1, <1>3, Messages DEF Ends, Goto, RunsTyped, Label
<1>4. CASE \E label \in Label : Branch(r, label) BY <1>1, <1>4 DEF Branch, Goto, RunsTyped
<1> QED BY <1>2, <1>3, <1>4

\* The tables and the queue.
TablesTyped ==
  /\ claim \in [Dest -> ClaimState] /\ tombstone \in BOOLEAN
  /\ outbox \subseteq Devices /\ stream \subseteq Devices
  /\ device \in [Devices -> {"active", "inactive", "none"}]
AccountTyped ==
  /\ address \in Addresses /\ deleted \in BOOLEAN
  /\ purge \in [stage: {"none", "listed"}, left: SUBSET Row]
QueuesTyped ==
  /\ queue \subseteq Message
  /\ dlq \subseteq {"push", "email", "receipt", "stream"} \X (Dest \cup {"none"})
CountsTyped == sent \in [Dest -> Nat] /\ faults \in 0..MaxFaults

AllTyped == TablesTyped /\ AccountTyped /\ QueuesTyped /\ CountsTyped /\ RunsTyped
LEMMA Parts == (TypeOK <=> AllTyped) /\ (TypeOK' <=> AllTyped')
  BY DEF TypeOK, AllTyped, TablesTyped, AccountTyped, QueuesTyped, CountsTyped, RunsTyped, Label, Local, Outcome

LEMMA Faults ==
  ASSUME TypeOK, DeliveryAssumption, Fault \/ UNCHANGED faults PROVE faults' \in 0..MaxFaults
  BY DEF Fault, TypeOK, DeliveryAssumption

LEMMA Transitions ==
  ASSUME TypeOK, NEW d \in Dest, NEW state \in Terminal, Transition(d, state)
  PROVE  /\ claim' \in [Dest -> ClaimState]
         /\ \A e \in Dest : claim'[e] = claim[e] \/ (e = d /\ claim[d] # "none" /\ claim'[d] = state)
         /\ claim'[d] \in {"none", state}
  BY DEF TypeOK, Transition, ClaimState, Terminal

LEMMA Accepts ==
  ASSUME TypeOK, NEW d \in Devices, AcceptWrite(d)
  PROVE  claim' \in [Dest -> ClaimState] /\ outbox' \subseteq Devices /\ stream' \subseteq Devices
  BY DEF TypeOK, AcceptWrite, ClaimState, Dest

\* What the three ends of a handoff write.
Handover(d) ==
  \/ NothingWritten
  \/ ~deleted /\ claim[d] \in {"claimed", "accepted"} /\ AcceptWrite(d)

LEMMA Handovers ==
  ASSUME TypeOK, NEW d \in Devices, Handed(d) \/ Dropped(d) \/ HandoffThrows(d)
  PROVE  /\ Handover(d) /\ (Fault \/ UNCHANGED faults)
         /\ claim' \in [Dest -> ClaimState] /\ outbox' \subseteq Devices /\ stream' \subseteq Devices
         /\ Dropped(d) => claim'[d] = "none"
<1>1. Handover(d) /\ (Fault \/ UNCHANGED faults)
  BY DEF Handed, Dropped, HandoffThrows, Handover, MayAccept, MayRepair
<1>2. Dropped(d) => claim'[d] = "none" BY DEF Dropped, NothingWritten
<1>3. CASE NothingWritten BY <1>1, <1>2, <1>3 DEF NothingWritten, TypeOK
<1>4. CASE AcceptWrite(d) BY <1>1, <1>2, <1>4, Accepts
<1> QED BY <1>1, <1>3, <1>4 DEF Handover

-----------------------------------------------------------------------------
LEMMA InitOK == ASSUME DeliveryAssumption, Init PROVE IInv
<1>1. /\ claim = [d \in Dest |-> "none"] /\ tombstone = FALSE /\ outbox = {} /\ stream = {}
      /\ device = [d \in Devices |-> "active"] /\ address \in Addresses
      /\ deleted = FALSE /\ purge = [stage |-> "none", left |-> {}]
      /\ dlq = {} /\ sent = [d \in Dest |-> 0] /\ faults = 0
      /\ pc = [r \in Runs |-> "idle"] /\ local = [r \in Runs |-> NoLocal]
  BY DEF Init
<1>2. PICK channels \in SUBSET {"push", "email"} : queue = {Intent(c) : c \in channels}
  BY DEF Init, DeliveryAssumption
<1>3. queue \subseteq Message /\ \A m \in queue : m.kind # "receipt"
  <2> SUFFICES ASSUME NEW m \in queue PROVE m \in Message /\ m.kind # "receipt"
    OBVIOUS
  <2>1. PICK c \in {"push", "email"} : m = Intent(c) BY <1>2
  <2>2. Intent(c) \in Message BY Messages
  <2>3. Intent(c).kind = c BY DEF Intent
  <2> QED BY <2>1, <2>2, <2>3
<1>4. TypeOK
  <2>1. TablesTyped /\ AccountTyped BY <1>1 DEF TablesTyped, AccountTyped, ClaimState
  <2>2. QueuesTyped BY <1>1, <1>3 DEF QueuesTyped
  <2>3. CountsTyped BY <1>1 DEF CountsTyped, DeliveryAssumption
  <2>4. RunsTyped BY <1>1, Messages DEF RunsTyped, Label
  <2> QED BY <2>1, <2>2, <2>3, <2>4, Parts DEF AllTyped
<1>5. SentOnce /\ OnlyInactiveDevicesComeBack /\ AcceptedIsWatched /\ HeldOnceSent
  BY <1>1 DEF SentOnce, OnlyInactiveDevicesComeBack, AcceptedIsWatched, HeldOnceSent, Dest
<1>6. \A r \in Runs : RunOK(r) /\ OpenOK(r) /\ DoneOK(r)
  BY <1>1 DEF RunOK, OpenOK, DoneOK, Open
<1>7. \A m \in queue : MessageOK(m) BY <1>3 DEF MessageOK
<1> QED BY <1>1, <1>4, <1>5, <1>6, <1>7 DEF IInv

\* The rows, messages and runs keep their types.
LEMMA TypeStep == ASSUME DeliveryAssumption, IInv, [Next]_vars PROVE TypeOK'
<1> USE DeliveryAssumption
<1>0. TypeOK BY DEF IInv
<1>a. /\ TablesTyped /\ AccountTyped /\ QueuesTyped /\ CountsTyped /\ RunsTyped
      /\ \A r \in Runs : RunOK(r)
      /\ \A r \in Runs : local[r] \in Local /\ local[r].msg \in Message /\ local[r].todo \subseteq Dest
  BY <1>0, Parts, Typed DEF IInv, AllTyped
<1>1. CASE UNCHANGED vars
  BY <1>0, <1>1 DEF vars, rows, account, TypeOK
<1>2. ASSUME NEW r \in Runs, NEW m \in queue, Receive(r, m) PROVE TypeOK'
  <2> DEFINE taken == [m EXCEPT !.tries = m.tries + 1]
             todo == CASE m.kind = "push" -> {d \in Devices : device[d] = "active"}
                       [] m.kind = "email" -> {address}
                       [] OTHER -> {}
  <2>1. m \in Message /\ taken \in Message BY <1>2, <1>a, Messages DEF Receive, QueuesTyped
  <2>2. todo \in SUBSET Dest BY <1>a DEF AccountTyped, Dest
  <2> HIDE DEF todo, taken
  <2>3. [msg |-> taken, todo |-> todo, dest |-> m.dest, outcome |-> "none"] \in Local
    BY <2>1, <2>2 DEF Local, Message
  <2>4. local' = [local EXCEPT ![r] = [msg |-> taken, todo |-> todo, dest |-> m.dest, outcome |-> "none"]]
    BY <1>2 DEF Receive, taken, todo
  <2>5. PICK label \in {"next", "handoff", "check"} : Goto(r, label) BY <1>2 DEF Receive
  <2>6. RunsTyped' BY <1>a, <2>3, <2>4, <2>5 DEF RunsTyped, Goto, Label
  <2>7. QueuesTyped' BY <1>2, <1>a, <2>1 DEF Receive, QueuesTyped, taken
  <2>8. TablesTyped' /\ AccountTyped' /\ CountsTyped'
    BY <1>2, <1>a DEF Receive, rows, account, TablesTyped, AccountTyped, CountsTyped
  <2> QED BY <2>6, <2>7, <2>8, Parts DEF AllTyped
<1>3. ASSUME NEW r \in Runs, Stop(r) \/ Acknowledge(r) PROVE TypeOK'
  <2>1. RunsTyped' BY <1>0, <1>3, Moves DEF Stop, Acknowledge
  <2>2. QueuesTyped' BY <1>3, <1>a DEF Stop, Acknowledge, QueuesTyped
  <2>3. TablesTyped' /\ AccountTyped'
    BY <1>3, <1>a DEF Stop, Acknowledge, rows, account, TablesTyped, AccountTyped
  <2>4. CountsTyped' BY <1>0, <1>3, <1>a, Faults DEF Stop, Acknowledge, CountsTyped
  <2> QED BY <2>1, <2>2, <2>3, <2>4, Parts DEF AllTyped
<1>4. ASSUME NEW m \in queue, DeadLetter(m) PROVE TypeOK'
  <2>1. m.kind \in {"push", "email", "receipt"} /\ m.dest \in Dest \cup {"none"}
    BY <1>a DEF QueuesTyped, Message
  <2>2. QueuesTyped' BY <1>4, <1>a, <2>1 DEF DeadLetter, QueuesTyped
  <2>3. TablesTyped' /\ AccountTyped' /\ CountsTyped' /\ RunsTyped'
    BY <1>4, <1>a DEF DeadLetter, rows, account, TablesTyped, AccountTyped, CountsTyped, RunsTyped
  <2> QED BY <2>2, <2>3, Parts DEF AllTyped
<1>5. ASSUME NEW d \in stream, StreamPublish(d) PROVE TypeOK'
  <2>1. d \in Dest BY <1>a DEF TablesTyped, Dest
  <2>2. Receipt(d, FALSE, 0) \in Message
    <3>1. 0 \in 0..MaxChecks BY DEF DeliveryAssumption
    <3> QED BY <2>1, <3>1, Messages
  <2>3. QueuesTyped'
    <3>1. <<"stream", d>> \in {"push", "email", "receipt", "stream"} \X (Dest \cup {"none"})
      BY <2>1
    <3>2. dlq' \subseteq dlq \cup {<<"stream", d>>} BY <1>5 DEF StreamPublish, StreamGivesUp
    <3>3. queue' \subseteq Message BY <1>5, <1>a, <2>2 DEF StreamPublish, StreamGivesUp, QueuesTyped
    <3> QED BY <1>a, <3>1, <3>2, <3>3 DEF QueuesTyped
  <2>4. TablesTyped' BY <1>5, <1>a DEF StreamPublish, StreamGivesUp, rows, TablesTyped
  <2>5. AccountTyped' /\ RunsTyped'
    BY <1>5, <1>a DEF StreamPublish, StreamGivesUp, account, AccountTyped, RunsTyped
  <2>6. CountsTyped' BY <1>0, <1>5, <1>a, Faults DEF StreamPublish, StreamGivesUp, CountsTyped
  <2> QED BY <2>3, <2>4, <2>5, <2>6, Parts DEF AllTyped
<1>6. ASSUME NEW r \in Runs, NEW d \in Dest, Claim(r, d) PROVE TypeOK'
  <2>1. local[r].todo \ {d} \in SUBSET Dest BY <1>a
  <2>2. [local[r] EXCEPT !.todo = local[r].todo \ {d}, !.dest = d] \in Local
    BY <1>a, <2>1, Locals
  <2>3. RunsTyped' BY <1>6, <1>a, <2>2 DEF Claim, Goto, RunsTyped, Label
  <2>4. TablesTyped' BY <1>6, <1>a DEF Claim, TablesTyped, ClaimState
  <2>5. AccountTyped' /\ CountsTyped' /\ QueuesTyped'
    BY <1>6, <1>a DEF Claim, account, AccountTyped, QueuesTyped, CountsTyped
  <2> QED BY <2>3, <2>4, <2>5, Parts DEF AllTyped
<1>7. ASSUME NEW r \in Runs, Publish(r) PROVE TypeOK'
  <2>1. PICK outcome \in Outcome :
          /\ local' = [local EXCEPT ![r] = [local[r] EXCEPT !.outcome = outcome]]
          /\ sent' = IF outcome \in Taken THEN [sent EXCEPT ![local[r].dest] = sent[local[r].dest] + 1]
                     ELSE sent
          /\ Goto(r, CASE outcome = "ticket" -> "handoff"
                    [] outcome = "retryable" -> "abandon"
                    [] OTHER -> "record")
    BY <1>7 DEF Publish, Outcome
  <2>2. [local[r] EXCEPT !.outcome = outcome] \in Local BY <1>a, <2>1, Locals
  <2>3. PICK label \in {"handoff", "abandon", "record"} : Goto(r, label) BY <2>1
  <2>4. RunsTyped' BY <1>a, <2>1, <2>2, <2>3 DEF Goto, RunsTyped, Label
  <2>5. local[r].dest \in Dest BY <1>7, <1>a DEF Publish, RunOK, LocalOK
  <2>6. CountsTyped' BY <1>7, <1>a, <2>1, <2>5 DEF Publish, CountsTyped
  <2>7. TablesTyped' /\ AccountTyped' /\ QueuesTyped'
    BY <1>7, <1>a DEF Publish, rows, account, TablesTyped, AccountTyped, QueuesTyped
  <2> QED BY <2>4, <2>6, <2>7, Parts DEF AllTyped
<1>8. ASSUME NEW r \in Runs, Record(r) PROVE TypeOK'
  <2>1. local[r].dest \in Dest /\ local[r].outcome \in Outcome
    BY <1>8, <1>a DEF Record, RunOK, LocalOK, Outcome
  <2>2. claim' \in [Dest -> ClaimState]
    BY <1>0, <1>8, <1>a, <2>1, Verdicts, Transitions DEF Record, TablesTyped
  <2>3. RunsTyped' BY <1>0, <1>8, Moves DEF Record, Label
  <2>4. CountsTyped' BY <1>0, <1>8, <1>a, Faults DEF Record, CountsTyped
  <2>5. TablesTyped' /\ AccountTyped' /\ QueuesTyped'
    BY <1>8, <1>a, <2>2 DEF Record, account, TablesTyped, AccountTyped, QueuesTyped
  <2> QED BY <2>3, <2>4, <2>5, Parts DEF AllTyped
<1>9. ASSUME NEW r \in Runs, Abandon(r) PROVE TypeOK'
  <2>1. RunsTyped' BY <1>0, <1>9, Moves DEF Abandon
  <2>2. TablesTyped' BY <1>9, <1>a DEF Abandon, TablesTyped, ClaimState
  <2>3. CountsTyped' /\ AccountTyped' /\ QueuesTyped'
    BY <1>9, <1>a DEF Abandon, account, AccountTyped, CountsTyped, QueuesTyped
  <2> QED BY <2>1, <2>2, <2>3, Parts DEF AllTyped
<1>10. ASSUME NEW r \in Runs, Handoff(r) PROVE TypeOK'
  <2> DEFINE d == local[r].dest
             n == IF local[r].msg.kind = "push" THEN 0 ELSE local[r].msg.check
  <2>1. d \in Devices /\ d \in Dest BY <1>10, <1>a DEF Handoff, RunOK, LocalOK, Dest
  <2>2. Handed(d) \/ Dropped(d) \/ HandoffThrows(d) BY <1>10 DEF Handoff
  <2>3. /\ claim' \in [Dest -> ClaimState] /\ outbox' \subseteq Devices /\ stream' \subseteq Devices
        /\ Fault \/ UNCHANGED faults
    BY <1>0, <2>1, <2>2, Handovers
  <2>4. RunsTyped' BY <1>0, <1>10, Moves DEF Handoff, Label
  <2>5. n \in 0..MaxChecks BY <1>a DEF Message, DeliveryAssumption
  <2>6. ChecksLeft(n) => Receipt(d, TRUE, n + 1) \in Message
    <3>1. ChecksLeft(n) => n + 1 \in 0..MaxChecks BY <2>5 DEF ChecksLeft, DeliveryAssumption
    <3> QED BY <2>1, <3>1, Messages
  <2>7. queue' = queue \/ (ChecksLeft(n) /\ queue' = queue \cup {Receipt(d, TRUE, n + 1)})
    BY <1>10 DEF Handoff
  <2>8. QueuesTyped' BY <1>10, <1>a, <2>6, <2>7 DEF Handoff, QueuesTyped
  <2>9. CountsTyped' BY <1>0, <1>10, <1>a, <2>3, Faults DEF Handoff, CountsTyped
  <2>10. TablesTyped' /\ AccountTyped' BY <1>10, <1>a, <2>3 DEF Handoff, account, TablesTyped, AccountTyped
  <2> QED BY <2>4, <2>8, <2>9, <2>10, Parts DEF AllTyped
<1>11. ASSUME NEW r \in Runs, Failed(r) PROVE TypeOK'
  <2>1. local[r].dest \in Dest BY <1>11, <1>a DEF Failed, RunOK, LocalOK
  <2>2. claim' \in [Dest -> ClaimState] BY <1>0, <1>11, <2>1, Transitions DEF Failed, Terminal
  <2>3. RunsTyped' BY <1>0, <1>11, Moves DEF Failed
  <2>4. TablesTyped' /\ AccountTyped' /\ CountsTyped' /\ QueuesTyped'
    BY <1>11, <1>a, <2>2 DEF Failed, account, TablesTyped, AccountTyped, CountsTyped, QueuesTyped
  <2> QED BY <2>3, <2>4, Parts DEF AllTyped
<1>12. ASSUME NEW r \in Runs, PutDevice(r) PROVE TypeOK'
  <2>1. RunsTyped' BY <1>0, <1>12, Moves DEF PutDevice, Label
  <2>2. CountsTyped' BY <1>0, <1>12, <1>a, Faults DEF PutDevice, CountsTyped
  <2>3. TablesTyped' BY <1>12, <1>a DEF PutDevice, TablesTyped
  <2>4. AccountTyped' /\ QueuesTyped' BY <1>12, <1>a DEF PutDevice, account, AccountTyped, QueuesTyped
  <2> QED BY <2>1, <2>2, <2>3, <2>4, Parts DEF AllTyped
<1>13. ASSUME NEW r \in Runs, Check(r) PROVE TypeOK'
  <2> DEFINE d == local[r].dest
             n == local[r].msg.check
  <2>1. d \in Dest BY <1>13, <1>a DEF Check, RunOK, LocalOK, Dest
  <2>2. claim' = claim \/ \E state \in Terminal : Transition(d, state) BY <1>13 DEF Check, Terminal
  <2>3. claim' \in [Dest -> ClaimState] BY <1>0, <1>a, <2>1, <2>2, Transitions DEF TablesTyped
  <2>4. RunsTyped' BY <1>0, <1>13, Moves DEF Check, Label
  <2>5. queue' = queue \/ (ChecksLeft(n) /\ queue' = queue \cup {Receipt(d, FALSE, n + 1)})
    BY <1>13 DEF Check
  <2>6. ChecksLeft(n) => n + 1 \in 0..MaxChecks BY <1>a DEF ChecksLeft, Message, DeliveryAssumption
  <2>7. ChecksLeft(n) => Receipt(d, FALSE, n + 1) \in Message BY <2>1, <2>6, Messages
  <2>8. QueuesTyped' BY <1>13, <1>a, <2>5, <2>7 DEF Check, QueuesTyped
  <2>9. TablesTyped' /\ AccountTyped' /\ CountsTyped'
    BY <1>13, <1>a, <2>3 DEF Check, account, TablesTyped, AccountTyped, CountsTyped
  <2> QED BY <2>4, <2>8, <2>9, Parts DEF AllTyped
<1>14. ASSUME NEW r \in Runs, FindDevice(r) PROVE TypeOK'
  <2>1. RunsTyped' BY <1>0, <1>14, Moves DEF FindDevice, Label
  <2>2. TablesTyped' /\ AccountTyped' /\ CountsTyped' /\ QueuesTyped'
    BY <1>14, <1>a DEF FindDevice, rows, account, TablesTyped, AccountTyped, CountsTyped, QueuesTyped
  <2> QED BY <2>1, <2>2, Parts DEF AllTyped
<1>15. CASE User
  BY <1>0, <1>15, ZenonT(60) DEF User, BeginUserDeletion, ChangeAddress, rows, TypeOK
<1>16. CASE ListRows
  <2>1. AccountTyped' BY <1>16, <1>a DEF ListRows, AccountTyped
  <2>2. TablesTyped' /\ CountsTyped' /\ QueuesTyped' /\ RunsTyped'
    BY <1>16, <1>a DEF ListRows, rows, TablesTyped, CountsTyped, QueuesTyped, RunsTyped
  <2> QED BY <2>1, <2>2, Parts DEF AllTyped
<1>17. ASSUME NEW row \in Row, DeleteRow(row) PROVE TypeOK'
  <2>1. AccountTyped' BY <1>17, <1>a DEF DeleteRow, AccountTyped
  <2>2. TablesTyped' BY <1>17, <1>a DEF DeleteRow, TablesTyped, ClaimState
  <2>3. CountsTyped' /\ QueuesTyped' /\ RunsTyped'
    BY <1>17, <1>a DEF DeleteRow, CountsTyped, QueuesTyped, RunsTyped
  <2> QED BY <2>1, <2>2, <2>3, Parts DEF AllTyped
<1> QED
  BY <1>1, <1>2, <1>3, <1>4, <1>5, <1>6, <1>7, <1>8, <1>9, <1>10, <1>11, <1>12, <1>13, <1>14,
     <1>15, <1>16, <1>17 DEF Next, Work, Purging

-----------------------------------------------------------------------------
(* What a step may do to a claim, to the counts and to what was deleted.     *)

\* A claim is made for an account that exists and has none, moves on while it is held, is
\* given up by the run that holds it before it sent, or is deleted with the account.
ClaimMoves(d) ==
  \/ claim'[d] = claim[d]
  \/ claim'[d] = "claimed" /\ \E r \in Runs : Claim(r, d) /\ MayClaim(d)
  \/ claim'[d] \in Terminal /\ claim[d] # "none"
  \/ claim'[d] = "accepted" /\ Pending(d) /\ ~deleted /\ d \in stream'
  \/ claim'[d] = "none" /\ claim[d] = "claimed"
       /\ \E r \in Runs : Abandon(r) /\ pc[r] = "abandon" /\ local[r].dest = d
  \/ claim'[d] = "none" /\ deleted

LEMMA ClaimStep ==
  ASSUME DeliveryAssumption, IInv, [Next]_vars PROVE \A d \in Dest : ClaimMoves(d)
<1>0. TypeOK /\ (\A r \in Runs : RunOK(r)) /\ claim \in [Dest -> ClaimState]
      /\ (purge.left # {} => deleted)
  BY DEF IInv, TypeOK
<1> USE <1>0
<1>1. CASE UNCHANGED claim BY <1>1 DEF ClaimMoves
<1>2. ASSUME NEW r \in Runs, NEW d \in Dest, Claim(r, d) PROVE \A e \in Dest : ClaimMoves(e)
  <2>1. claim' = claim \/ (claim' = [claim EXCEPT ![d] = "claimed"] /\ MayClaim(d))
    BY <1>2, Zenon DEF Claim
  <2> QED BY <1>2, <2>1 DEF ClaimMoves
<1>3. ASSUME NEW r \in Runs, NEW d \in Dest, NEW state \in Terminal, Transition(d, state)
      PROVE  \A e \in Dest : ClaimMoves(e)
  BY <1>3, Transitions DEF ClaimMoves
<1>4. ASSUME NEW r \in Runs, Record(r) PROVE \A e \in Dest : ClaimMoves(e)
  <2>1. local[r].dest \in Dest /\ Verdict(local[r].outcome) \in Terminal
    BY <1>4, Verdicts DEF Record, RunOK, LocalOK, Outcome
  <2> QED BY <1>1, <1>3, <1>4, <2>1 DEF Record
<1>5. ASSUME NEW r \in Runs, Failed(r) PROVE \A e \in Dest : ClaimMoves(e)
  <2>1. local[r].dest \in Dest /\ "unknown" \in Terminal
    BY <1>5 DEF Failed, RunOK, LocalOK, Terminal
  <2> QED BY <1>3, <1>5, <2>1 DEF Failed
<1>6. ASSUME NEW r \in Runs, Check(r) PROVE \A e \in Dest : ClaimMoves(e)
  <2>1. local[r].dest \in Dest /\ {"delivered", "definitive-failure"} \subseteq Terminal
    BY <1>6 DEF Check, RunOK, LocalOK, Terminal, Dest
  <2> QED BY <1>1, <1>3, <1>6, <2>1 DEF Check
<1>7. ASSUME NEW r \in Runs, Abandon(r) PROVE \A e \in Dest : ClaimMoves(e)
  BY <1>7 DEF Abandon, ClaimMoves
<1>8. ASSUME NEW r \in Runs, Handoff(r) PROVE \A e \in Dest : ClaimMoves(e)
  <2>0. PICK d \in Devices : d = local[r].dest BY <1>8 DEF Handoff, RunOK, LocalOK
  <2>1. Handed(d) \/ Dropped(d) \/ HandoffThrows(d) BY <1>8, <2>0 DEF Handoff
  <2>2. Handover(d) BY <2>1, Handovers
  <2>3. CASE NothingWritten BY <1>1, <2>3 DEF NothingWritten
  <2>4. CASE ~deleted /\ Pending(d) /\ AcceptWrite(d)
    BY <2>4 DEF AcceptWrite, ClaimMoves
  <2> QED BY <2>2, <2>3, <2>4 DEF Handover, Pending
<1>9. ASSUME NEW row \in Row, DeleteRow(row) PROVE \A e \in Dest : ClaimMoves(e)
  BY <1>9 DEF DeleteRow, ClaimMoves
<1> QED
  BY <1>1, <1>2, <1>4, <1>5, <1>6, <1>7, <1>8, <1>9
  DEF Next, Work, Purging, User, vars, rows, Receive, Stop, Acknowledge, DeadLetter, StreamPublish,
      StreamGivesUp, Publish, PutDevice, FindDevice, ListRows, BeginUserDeletion, ChangeAddress

\* Who writes what: only the user and the purge touch the account, only a run and the
\* purge touch the rows.
HandlerStep(r) == Work(r) \/ Stop(r) \/ \E m \in queue : Receive(r, m)

LEMMA Writers ==
  ASSUME [Next]_vars
  PROVE  (\E r \in Runs : HandlerStep(r)) \/ Purging \/ User \/ UNCHANGED <<rows, account>>
<1>1. CASE \E m \in queue : DeadLetter(m) BY <1>1 DEF DeadLetter
<1>2. CASE \E d \in stream : StreamPublish(d) BY <1>2 DEF StreamPublish, StreamGivesUp
<1>3. CASE UNCHANGED vars BY <1>3 DEF vars
<1> QED BY <1>1, <1>2, <1>3 DEF Next, HandlerStep

LEMMA RunsLeaveTheAccount == ASSUME NEW r \in Runs, HandlerStep(r) PROVE UNCHANGED account
BY DEF HandlerStep, Work, Receive, Stop, account, Acknowledge, Claim, Publish, Record, Abandon, Handoff,
   Failed, Check, PutDevice, FindDevice

LEMMA UsersLeaveTheRows == ASSUME User PROVE UNCHANGED rows
BY DEF User, BeginUserDeletion, ChangeAddress

\* The tombstone of the mail moves like a claim.
LEMMA TombstoneStep ==
  ASSUME IInv, [Next]_vars
  PROVE  /\ ~tombstone' /\ tombstone => deleted \/ \E r \in Runs : Abandon(r) /\ local[r].dest \notin Devices
         /\ tombstone' /\ ~tombstone => ~deleted /\ \E r \in Runs, d \in Addresses : Claim(r, d)
<1>0. tombstone \in BOOLEAN /\ (purge.left # {} => deleted) BY DEF IInv, TypeOK
<1>1. ASSUME NEW r \in Runs, NEW d \in Dest, Claim(r, d)
      PROVE  tombstone' = tombstone \/ (~deleted /\ tombstone' /\ d \in Addresses)
  BY <1>0, <1>1 DEF Claim, MayClaim
<1>2. ASSUME NEW r \in Runs, Abandon(r)
      PROVE  tombstone' = tombstone \/ (~tombstone' /\ local[r].dest \notin Devices)
  BY <1>0, <1>2 DEF Abandon
<1>3. ASSUME NEW row \in Row, DeleteRow(row) PROVE deleted /\ (tombstone' => tombstone)
  BY <1>0, <1>3 DEF DeleteRow
<1>4. CASE UNCHANGED tombstone BY <1>0, <1>4
<1>5. ASSUME NEW r \in Runs, HandlerStep(r)
      PROVE  UNCHANGED tombstone \/ Abandon(r) \/ \E d \in Dest : Claim(r, d)
  BY <1>5 DEF HandlerStep, Work, Receive, Stop, rows, Acknowledge, Publish, Record, Handoff, Failed, Check,
     PutDevice, FindDevice
<1>6. CASE Purging BY <1>3, <1>4, <1>6 DEF Purging, ListRows, rows
<1> QED BY <1>1, <1>2, <1>4, <1>5, <1>6, Writers, UsersLeaveTheRows DEF rows

LEMMA DeletedStep ==
  ASSUME IInv, [Next]_vars
  PROVE  deleted \in BOOLEAN /\ deleted' \in BOOLEAN /\ (deleted => deleted')
<1>1. deleted \in BOOLEAN BY DEF IInv, TypeOK
<1>2. CASE Purging BY <1>1, <1>2 DEF Purging, ListRows, DeleteRow
<1>3. CASE User BY <1>1, <1>3 DEF User, BeginUserDeletion, ChangeAddress
<1> QED BY <1>1, <1>2, <1>3, Writers, RunsLeaveTheAccount DEF account

\* Only a run at its publication counts a send, and it had its slot for itself.
LEMMA SentStep ==
  ASSUME IInv, [Next]_vars, NEW d \in Dest
  PROVE  /\ sent[d] \in Nat /\ sent'[d] \in Nat /\ sent'[d] >= sent[d]
         /\ sent'[d] # sent[d] => sent[d] = 0 /\ sent'[d] = 1 /\ \E r \in Runs : Publish(r) /\ local[r].dest = d
<1>0. sent \in [Dest -> Nat] /\ \A r \in Runs : OpenOK(r) /\ RunOK(r) BY DEF IInv, TypeOK
<1>1. ASSUME NEW r \in Runs, Publish(r), sent'[d] # sent[d]
      PROVE  sent[d] = 0 /\ sent'[d] = 1 /\ local[r].dest = d
  <2>1. sent' = [sent EXCEPT ![local[r].dest] = sent[local[r].dest] + 1]
    BY <1>1 DEF Publish
  <2>2. local[r].dest = d /\ sent'[d] = sent[d] + 1 BY <1>0, <1>1, <2>1
  <2>3. sent[d] = 0
    BY <1>0, <1>1, <2>2 DEF Publish, OpenOK, Open, Slot, Dest
  <2> QED BY <2>2, <2>3
<1>2. (\E r \in Runs : Publish(r)) \/ UNCHANGED sent
  BY DEF Next, Work, Purging, User, vars, Receive, Stop, Acknowledge, DeadLetter, StreamPublish,
     StreamGivesUp, Claim, Record, Abandon, Handoff, Failed, Check, PutDevice, FindDevice, ListRows, DeleteRow,
     BeginUserDeletion, ChangeAddress
<1>3. CASE UNCHANGED sent BY <1>0, <1>3
<1>4. ASSUME NEW r \in Runs, Publish(r) PROVE sent' \in [Dest -> Nat]
  BY <1>0, <1>4 DEF Publish, RunOK, LocalOK
<1>5. ASSUME sent'[d] # sent[d] PROVE sent[d] = 0 /\ sent'[d] = 1 /\ \E r \in Runs : Publish(r) /\ local[r].dest = d
  BY <1>1, <1>2, <1>5
<1>6. sent'[d] \in Nat /\ sent[d] \in Nat BY <1>0, <1>2, <1>4
<1> QED BY <1>5, <1>6

\* What a message proved it goes on proving.
LEMMA Proofs ==
  ASSUME IInv, [Next]_vars
  PROVE  /\ \A m : MessageOK(m) => MessageOK(m)'
         /\ \A d \in Devices : sent[d] > 0 => sent'[d] > 0
<1>1. \A d \in Devices : sent[d] > 0 => sent'[d] > 0 BY SentStep DEF Dest
<1> QED BY <1>1 DEF MessageOK

-----------------------------------------------------------------------------
(* One alert for each slot.                                                 *)

LEMMA SentOnceStep == ASSUME DeliveryAssumption, IInv, [Next]_vars PROVE SentOnce'
<1>0. SentOnce /\ TypeOK /\ \A r \in Runs : OpenOK(r) BY DEF IInv
<1>1. \A d \in Dest : sent'[d] <= 1 BY <1>0, SentStep DEF SentOnce
<1>2. ASSUME NEW d1 \in Addresses, NEW d2 \in Addresses, sent'[d1] = 1, sent'[d2] = 1,
             sent'[d1] # sent[d1]
      PROVE  d1 = d2
  <2>1. PICK r \in Runs : Publish(r) /\ local[r].dest = d1 BY <1>2, SentStep DEF Dest
  <2>2. sent[d2] = 0
    BY <1>0, <2>1 DEF Publish, OpenOK, Open, Slot, DeliveryAssumption
  <2>3. sent' = [sent EXCEPT ![d1] = sent[d1] + 1] BY <1>2, <2>1 DEF Publish
  <2> QED BY <1>0, <1>2, <2>2, <2>3 DEF TypeOK, Dest
<1>3. ASSUME NEW d1 \in Addresses, NEW d2 \in Addresses, sent'[d1] = 1, sent'[d2] = 1
      PROVE  d1 = d2
  BY <1>0, <1>2, <1>3 DEF SentOnce
<1> QED BY <1>1, <1>3 DEF SentOnce

\* What was sent for an account stays claimed.
LEMMA HeldStep ==
  ASSUME DeliveryAssumption, IInv, [Next]_vars, NEW d \in Dest, ~deleted', Held(d),
         sent[d] > 0 \/ \E r \in Runs : pc[r] \in Open /\ Slot(local[r].dest) = Slot(d) /\ ~Abandon(r)
  PROVE  Held(d)'
<1>0. /\ ~deleted /\ \A r \in Runs : OpenOK(r) /\ RunOK(r)
      /\ sent[d] \in Nat
  BY DeletedStep DEF IInv, TypeOK
<1>1. ASSUME NEW r \in Runs, Abandon(r), Slot(local[r].dest) = Slot(d) PROVE FALSE
  <2>1. pc[r] \in Open /\ d \in Slot(local[r].dest) BY <1>1 DEF Abandon, Open, Slot, Dest
  <2>2. sent[d] = 0 BY <1>0, <2>1 DEF OpenOK
  <2>3. PICK q \in Runs : pc[q] \in Open /\ Slot(local[q].dest) = Slot(d) /\ ~Abandon(q)
    BY <1>0, <2>2
  <2> QED BY <1>0, <1>1, <2>1, <2>3 DEF OpenOK
<1>2. CASE d \in Devices
  <2>1. claim[d] # "none" BY <1>2 DEF Held
  <2>2. claim'[d] # "none"
    BY <1>0, <1>1, <2>1, ClaimStep DEF ClaimMoves, Terminal
  <2> QED BY <1>2, <2>2 DEF Held
<1>3. CASE d \notin Devices
  <2>1. tombstone BY <1>3 DEF Held
  <2>2. ASSUME ~tombstone' PROVE FALSE
    <3>1. PICK r \in Runs : Abandon(r) /\ local[r].dest \notin Devices
      BY <1>0, <2>1, <2>2, TombstoneStep
    <3> QED BY <1>1, <1>3, <3>1 DEF Slot
  <2> QED BY <1>3, <2>2 DEF Held
<1> QED BY <1>2, <1>3

LEMMA HeldOnceSentStep == ASSUME DeliveryAssumption, IInv, [Next]_vars PROVE HeldOnceSent'
<1> SUFFICES ASSUME ~deleted', NEW d \in Dest, sent'[d] > 0 PROVE Held(d)'
  BY DEF HeldOnceSent
<1>0. ~deleted /\ sent[d] \in Nat /\ \A r \in Runs : OpenOK(r)
  BY DeletedStep DEF IInv, TypeOK
<1>1. CASE sent[d] > 0 BY <1>0, <1>1, HeldStep DEF IInv, HeldOnceSent
<1>2. CASE ~(sent[d] > 0)
  <2>1. PICK r \in Runs : Publish(r) /\ local[r].dest = d BY <1>0, <1>2, SentStep
  <2>2. Held(d) BY <1>0, <2>1 DEF Publish, OpenOK, Open
  <2> QED BY <2>1, <2>2 DEF Publish, rows, Held
<1> QED BY <1>1, <1>2

\* Who may send after the step could before it, or claims now.
LEMMA Opens ==
  ASSUME IInv, [Next]_vars, NEW r \in Runs, pc'[r] \in Open
  PROVE  \/ /\ pc[r] \in Open /\ local'[r].dest = local[r].dest /\ ~Abandon(r)
            /\ Publish(r) => sent' = sent
         \/ /\ \E d \in Dest : Claim(r, d) /\ MayClaim(d) /\ local'[r].dest = d
            /\ \A q \in Runs : q # r => pc'[q] = pc[q] /\ local'[q] = local[q] /\ ~Abandon(q)
            /\ sent' = sent /\ ~deleted
<1>0. RunsTyped /\ \A q \in Runs : local[q] \in Local BY Typed DEF IInv
<1>1. CASE UNCHANGED <<pc, local>>
  BY <1>0, <1>1 DEF Abandon, Publish, Ends, Goto, RunsTyped, Open
<1>2. ASSUME NEW q \in Runs, NEW d \in Dest, Claim(q, d), q = r
      PROVE  /\ MayClaim(d) /\ local'[r].dest = d /\ sent' = sent /\ ~deleted
             /\ \A p \in Runs : p # r => pc'[p] = pc[p] /\ local'[p] = local[p] /\ ~Abandon(p)
  <2>1. MayClaim(d) /\ Goto(r, "publish") BY <1>0, <1>2 DEF Claim, Open
  <2>2. local' = [local EXCEPT ![r] = [local[r] EXCEPT !.todo = local[r].todo \ {d}, !.dest = d]]
    BY <1>2 DEF Claim
  <2>a. local[r] \in Local /\ local[r].todo \ {d} \in SUBSET Dest BY <1>0 DEF Local
  <2>b. [local[r] EXCEPT !.todo = local[r].todo \ {d}, !.dest = d].dest = d BY <2>a DEF Local
  <2>3. local'[r].dest = d BY <1>0, <2>2, <2>b DEF RunsTyped
  <2>4. pc'[r] = "publish" BY <1>0, <2>1 DEF Goto, RunsTyped
  <2>5. \A p \in Runs : p # r => pc'[p] = pc[p] /\ local'[p] = local[p]
    BY <1>0, <2>1, <2>2 DEF Goto, RunsTyped
  <2>6. \A p \in Runs : p # r => ~Abandon(p)
    BY <1>0, <2>1, <2>5 DEF Abandon, Ends, Goto, RunsTyped
  <2> QED BY <1>2, <2>1, <2>3, <2>5, <2>6 DEF Claim, MayClaim
<1>3. ASSUME NEW q \in Runs, Publish(q), q = r
      PROVE  pc[r] \in Open /\ local'[r].dest = local[r].dest /\ ~Abandon(r) /\ sent' = sent
  <2>1. PICK outcome \in Outcome :
          /\ local' = [local EXCEPT ![r] = [local[r] EXCEPT !.outcome = outcome]]
          /\ sent' = IF outcome \in Taken THEN [sent EXCEPT ![local[r].dest] = sent[local[r].dest] + 1]
                     ELSE sent
          /\ Goto(r, CASE outcome = "ticket" -> "handoff"
                    [] outcome = "retryable" -> "abandon"
                    [] OTHER -> "record")
    BY <1>3 DEF Publish, Outcome
  <2>2. outcome = "retryable"
    <3>1. pc'[r] = CASE outcome = "ticket" -> "handoff"
                     [] outcome = "retryable" -> "abandon"
                     [] OTHER -> "record"
      BY <1>0, <2>1 DEF Goto, RunsTyped
    <3> QED BY <3>1 DEF Open
  <2>a. [local[r] EXCEPT !.outcome = outcome].dest = local[r].dest BY <1>0 DEF Local
  <2>3. local'[r].dest = local[r].dest BY <1>0, <2>1, <2>a DEF RunsTyped
  <2> QED BY <1>3, <2>1, <2>2, <2>3 DEF Publish, Open, Taken, Abandon
<1>5. ASSUME NEW q \in Runs, q # r, Work(q) \/ Stop(q) \/ \E m \in queue : Receive(q, m)
      PROVE  pc'[r] = pc[r] /\ local'[r] = local[r]
  BY <1>0, <1>5 DEF Work, Stop, Receive, Claim, Publish, Record, Abandon, Handoff, Failed, PutDevice, Check,
     FindDevice, Acknowledge, Goto, Ends, Onward, Branch, RunsTyped
<1>6. ASSUME Stop(r) \/ (\E m \in queue : Receive(r, m)) \/ Record(r) \/ Abandon(r) \/ Handoff(r)
             \/ Failed(r) \/ PutDevice(r) \/ Check(r) \/ FindDevice(r) \/ Acknowledge(r)
      PROVE  FALSE
  BY <1>0, <1>6 DEF Stop, Receive, Record, Abandon, Handoff, Failed, PutDevice, Check,
     FindDevice, Acknowledge, Goto, Ends, Onward, Branch, RunsTyped, Open
<1>7. ASSUME NEW q \in Runs, q # r, Work(q) \/ Stop(q) \/ \E m \in queue : Receive(q, m)
      PROVE  pc[r] \in Open /\ local'[r].dest = local[r].dest /\ ~Abandon(r) /\ ~Publish(r)
  <2>1. pc'[r] = pc[r] /\ local'[r] = local[r] BY <1>5, <1>7
  <2>3. ~Abandon(r) BY <1>0, <2>1 DEF Abandon, Ends, Goto, RunsTyped, Open
  <2>4. ~Publish(r) BY <1>0, <2>1 DEF Publish, Goto, RunsTyped, Open
  <2> QED BY <2>1, <2>3, <2>4
<1>8. (\E m \in queue : DeadLetter(m)) \/ (\E d \in stream : StreamPublish(d)) \/ Purging \/ User
        \/ UNCHANGED vars => UNCHANGED <<pc, local>>
  BY DEF DeadLetter, StreamPublish, StreamGivesUp, Purging, ListRows, DeleteRow, User, BeginUserDeletion,
     ChangeAddress, vars
<1>9. CASE \E q \in Runs : Work(q) \/ Stop(q) \/ \E m \in queue : Receive(q, m)
  <2>1. PICK q \in Runs : Work(q) \/ Stop(q) \/ \E m \in queue : Receive(q, m) BY <1>9
  <2>2. CASE q # r BY <1>7, <2>1, <2>2
  <2>3. CASE q = r BY <1>2, <1>3, <1>6, <2>1, <2>3 DEF Work
  <2> QED BY <2>2, <2>3
<1> QED BY <1>1, <1>8, <1>9 DEF Next

LEMMA OpenStep ==
  ASSUME DeliveryAssumption, IInv, [Next]_vars, NEW r \in Runs PROVE OpenOK(r)'
<1> SUFFICES ASSUME pc'[r] \in Open
             PROVE  /\ ~deleted' => Held(local[r].dest)'
                    /\ \A d \in Slot(local'[r].dest) : sent'[d] = 0
                    /\ \A q \in Runs : pc'[q] \in Open /\ q # r =>
                         Slot(local'[q].dest) # Slot(local'[r].dest)
  BY DEF OpenOK, Slot
<1>0. /\ TypeOK /\ HeldOnceSent /\ \A q \in Runs : OpenOK(q) /\ RunOK(q)
      /\ \A q \in Runs : pc[q] \in Open => local[q].dest \in Dest
      /\ deleted => deleted'
  BY DeletedStep DEF IInv, RunOK, LocalOK, Open
<1>1. ASSUME NEW d \in Dest, NEW q \in Runs, MayClaim(d), pc[q] \in Open
      PROVE  Slot(local[q].dest) # Slot(d)
  <2>1. Held(local[q].dest) /\ local[q].dest \in Dest BY <1>0, <1>1 DEF OpenOK, MayClaim
  <2>2. ~Held(d) BY <1>1 DEF MayClaim, Held, Dest
  <2> QED BY <2>1, <2>2 DEF Slot, Held, DeliveryAssumption, Dest
<1>2. CASE \E d \in Dest : Claim(r, d) /\ MayClaim(d) /\ local'[r].dest = d
           /\ (\A q \in Runs : q # r => pc'[q] = pc[q] /\ local'[q] = local[q]) /\ sent' = sent
  <2>1. PICK d \in Dest :
          /\ Claim(r, d) /\ MayClaim(d) /\ local'[r].dest = d /\ sent' = sent
          /\ \A q \in Runs : q # r => pc'[q] = pc[q] /\ local'[q] = local[q]
    BY <1>2
  <2>2. claim' = [claim EXCEPT ![d] = "claimed"] /\ tombstone' = (tombstone \/ d \in Addresses)
    BY <2>1 DEF Claim
  <2>3. Held(d)' BY <1>0, <2>1, <2>2 DEF Held, TypeOK, Dest
  <2>4. ~deleted' => Held(local[r].dest)' BY <2>1, <2>3 DEF Held
  <2>5. ~Held(d) /\ ~deleted BY <2>1 DEF MayClaim, Held, Dest
  <2>6. \A e \in Slot(d) : e \in Dest /\ (Held(e) <=> Held(d))
    BY DEF Slot, Held, Dest, DeliveryAssumption
  <2>7. \A e \in Slot(d) : sent[e] = 0
    BY <1>0, <2>5, <2>6 DEF HeldOnceSent, TypeOK
  <2>8. \A q \in Runs : pc'[q] \in Open /\ q # r => Slot(local'[q].dest) # Slot(d)
    BY <1>1, <2>1
  <2> QED BY <2>1, <2>4, <2>7, <2>8
<1>3. CASE pc[r] \in Open /\ local'[r].dest = local[r].dest /\ ~Abandon(r) /\ (Publish(r) => sent' = sent)
  <2>0. PICK e \in Dest : e = local[r].dest BY <1>0, <1>3
  <2>1. ~deleted' => Held(e)'
    <3>1. ~deleted' => Held(e) BY <1>0, <1>3, <2>0 DEF OpenOK
    <3> QED BY <1>3, <2>0, <3>1, HeldStep
  <2>2. \A d \in Slot(e) : d \in Dest /\ Slot(d) = Slot(e)
    BY DEF Slot, Dest, DeliveryAssumption
  <2>3. ASSUME NEW d \in Slot(e) PROVE sent'[d] = 0
    <3>1. sent[d] = 0 /\ d \in Dest BY <1>0, <1>3, <2>0, <2>2 DEF OpenOK
    <3>2. CASE sent'[d] # sent[d]
      <4>1. PICK q \in Runs : Publish(q) /\ local[q].dest = d BY <3>1, <3>2, SentStep
      <4>2. q = r BY <1>0, <1>3, <2>0, <2>2, <2>3, <4>1 DEF OpenOK, Publish, Open
      <4> QED BY <1>3, <3>2, <4>1, <4>2
    <3> QED BY <3>1, <3>2
  <2>4. ASSUME NEW q \in Runs, pc'[q] \in Open, q # r PROVE Slot(local'[q].dest) # Slot(e)
    <3>1. CASE pc[q] \in Open /\ local'[q].dest = local[q].dest
      BY <1>0, <1>3, <2>0, <2>4, <3>1 DEF OpenOK
    <3>2. CASE \E d \in Dest : MayClaim(d) /\ local'[q].dest = d
      BY <1>1, <1>3, <2>0, <3>2
    <3> QED BY <2>4, <3>1, <3>2, Opens
  <2>5. ~deleted' => Held(local[r].dest)' BY <1>3, <2>0, <2>1 DEF Held
  <2> QED BY <1>3, <2>0, <2>3, <2>4, <2>5
<1> QED BY <1>2, <1>3, Opens

-----------------------------------------------------------------------------
(* Deleted accounts stay empty.                                             *)

LEMMA OutboxStep ==
  ASSUME DeliveryAssumption, IInv, [Next]_vars, deleted
  PROVE  outbox' \subseteq outbox
<1>0. TypeOK /\ \A r \in Runs : RunOK(r) BY DEF IInv
<1>1. ASSUME NEW r \in Runs, Handoff(r) PROVE outbox' = outbox
  <2>0. PICK d \in Devices : d = local[r].dest BY <1>0, <1>1 DEF Handoff, RunOK, LocalOK
  <2>1. Handover(d) BY <1>0, <1>1, <2>0, Handovers DEF Handoff
  <2> QED BY <2>1 DEF Handover, NothingWritten
<1>2. (\E row \in Row : DeleteRow(row)) => outbox' \subseteq outbox BY DEF DeleteRow
<1>3. ASSUME NEW r \in Runs, HandlerStep(r) PROVE UNCHANGED outbox \/ Handoff(r)
  BY <1>3 DEF HandlerStep, Work, Receive, Stop, rows, Acknowledge, Claim, Publish, Record, Abandon, Failed,
     Check, PutDevice, FindDevice
<1>4. CASE Purging BY <1>2, <1>4 DEF Purging, ListRows, rows
<1> QED BY <1>1, <1>3, <1>4, Writers, UsersLeaveTheRows DEF rows

\* putDevice only turns a device off.
LEMMA DeviceStep ==
  ASSUME TypeOK, [Next]_vars, NEW d \in Devices, device'[d] = "active"
  PROVE  device[d] = "active"
<1>0. device \in [Devices -> {"active", "inactive", "none"}] BY DEF TypeOK
<1>1. ASSUME NEW r \in Runs, PutDevice(r) PROVE device[d] = "active"
  <2>1. device' = [device EXCEPT ![local[r].dest] = "inactive"] BY <1>1 DEF PutDevice
  <2> QED BY <1>0, <2>1
<1>2. ASSUME NEW row \in Row, DeleteRow(row) PROVE device[d] = "active"
  <2>1. device' = [e \in Devices |-> IF row = <<"device", e>> THEN "none" ELSE device[e]]
    BY <1>2 DEF DeleteRow
  <2> QED BY <2>1
<1>3. ASSUME NEW r \in Runs, HandlerStep(r) PROVE UNCHANGED device \/ PutDevice(r)
  BY <1>3 DEF HandlerStep, Work, Receive, Stop, rows, Acknowledge, Claim, Publish, Record, Abandon, Handoff,
     Failed, Check, FindDevice
<1>4. CASE Purging BY <1>2, <1>4 DEF Purging, ListRows, rows
<1> QED BY <1>1, <1>3, <1>4, Writers, UsersLeaveTheRows DEF rows

LEMMA PurgeStep ==
  ASSUME DeliveryAssumption, IInv, [Next]_vars
  PROVE  /\ OnlyInactiveDevicesComeBack' /\ (purge'.stage = "listed" => deleted')
         /\ (purge'.left # {} => purge'.stage = "listed")
<1>0. /\ TypeOK /\ OnlyInactiveDevicesComeBack /\ (purge.stage = "listed" => deleted)
      /\ (purge.left # {} => purge.stage = "listed") /\ purge \in [stage: {"none", "listed"}, left: SUBSET Row]
      /\ deleted => deleted'
  BY DeletedStep DEF IInv, TypeOK
<1>1. CASE ListRows
  <2> DEFINE there(row) ==
               \/ row[1] = "tombstone" /\ tombstone
               \/ row[1] = "claim" /\ claim[row[2]] # "none"
               \/ row[1] = "outbox" /\ row[2] \in outbox
               \/ row[1] = "device" /\ device[row[2]] # "none"
             all == {row \in Row : there(row)}
  <2>1. /\ purge' = [stage |-> "listed", left |-> all] /\ deleted'
        /\ claim' = claim /\ outbox' = outbox /\ tombstone' = tombstone /\ device' = device
    BY <1>0, <1>1 DEF ListRows, rows
  <2>a. /\ \A d \in Dest : <<"claim", d>> \in Row
        /\ \A d \in Devices : <<"outbox", d>> \in Row /\ <<"device", d>> \in Row
        /\ <<"tombstone", "none">> \in Row
    BY DEF Row
  <2>2. /\ \A d \in Dest : claim[d] # "none" => <<"claim", d>> \in all
        /\ \A d \in outbox : <<"outbox", d>> \in all
        /\ tombstone => <<"tombstone", "none">> \in all
        /\ \A d \in Devices : device[d] = "active" => <<"device", d>> \in all
    BY <1>0, <2>a DEF TypeOK
  <2> HIDE DEF all
  <2> QED BY <2>1, <2>2 DEF OnlyInactiveDevicesComeBack
<1>2. ASSUME NEW row \in Row, DeleteRow(row)
      PROVE  /\ OnlyInactiveDevicesComeBack' /\ purge'.stage = "listed" /\ deleted'
  <2>1. /\ purge' = [purge EXCEPT !.left = purge.left \ {row}]
        /\ tombstone' = (tombstone /\ row[1] # "tombstone")
        /\ claim' = [d \in Dest |-> IF row = <<"claim", d>> THEN "none" ELSE claim[d]]
        /\ outbox' = {d \in outbox : row # <<"outbox", d>>}
        /\ device' = [d \in Devices |-> IF row = <<"device", d>> THEN "none" ELSE device[d]]
        /\ row \in purge.left /\ deleted' = deleted
    BY <1>2 DEF DeleteRow
  <2>2. purge'.stage = "listed" /\ purge'.left = purge.left \ {row} /\ purge.stage = "listed"
    BY <1>0, <2>1
  <2>3. \A d \in Dest : claim'[d] # "none" => <<"claim", d>> \in purge'.left
    BY <1>0, <2>1, <2>2 DEF OnlyInactiveDevicesComeBack
  <2>4. \A d \in outbox' : <<"outbox", d>> \in purge'.left
    BY <1>0, <2>1, <2>2 DEF OnlyInactiveDevicesComeBack
  <2>a. row = <<"tombstone", "none">> => row[1] = "tombstone" OBVIOUS
  <2>5. tombstone' => <<"tombstone", "none">> \in purge'.left
    <3>1. tombstone' => tombstone /\ row # <<"tombstone", "none">> BY <2>1, <2>a
    <3>2. tombstone => <<"tombstone", "none">> \in purge.left BY <1>0, <2>2 DEF OnlyInactiveDevicesComeBack
    <3> QED BY <2>2, <3>1, <3>2
  <2>6. \A d \in Devices : device'[d] = "active" => <<"device", d>> \in purge'.left
    BY <1>0, <2>1, <2>2 DEF OnlyInactiveDevicesComeBack
  <2> QED BY <1>0, <2>1, <2>2, <2>3, <2>4, <2>5, <2>6 DEF OnlyInactiveDevicesComeBack
<1>3. CASE UNCHANGED purge
  <2>1. CASE purge.stage = "listed"
    <3>1. \A d \in Dest : claim'[d] # "none" => claim[d] # "none"
      BY <1>0, <2>1, ClaimStep DEF ClaimMoves, MayClaim, Pending
    <3>2. outbox' \subseteq outbox BY <1>0, <2>1, OutboxStep
    <3>3. tombstone' => tombstone BY <1>0, <2>1, TombstoneStep
    <3>4. \A d \in Devices : device'[d] = "active" => device[d] = "active" BY <1>0, DeviceStep
    <3> QED BY <1>0, <1>3, <2>1, <3>1, <3>2, <3>3, <3>4 DEF OnlyInactiveDevicesComeBack
  <2>2. CASE purge.stage # "listed" BY <1>0, <1>3, <2>2 DEF OnlyInactiveDevicesComeBack
  <2> QED BY <2>1, <2>2
<1>4. UNCHANGED purge \/ ListRows \/ \E row \in Row : DeleteRow(row)
  BY Writers, RunsLeaveTheAccount DEF Purging, User, BeginUserDeletion, ChangeAddress, account
<1>5. ListRows => OnlyInactiveDevicesComeBack' /\ deleted' /\ purge'.stage = "listed"
  BY <1>0, <1>1 DEF ListRows
<1> QED BY <1>0, <1>2, <1>3, <1>4, <1>5

-----------------------------------------------------------------------------
(* Runs and messages.                                                       *)

LEMMA Acts ==
  ASSUME TypeOK, [Next]_vars, NEW r \in Runs, ~(pc'[r] = pc[r] /\ local'[r] = local[r])
  PROVE  Work(r) \/ Stop(r) \/ \E m \in queue : Receive(r, m)
<1>0. RunsTyped BY Typed
<1>1. ASSUME NEW q \in Runs, q # r, Work(q) \/ Stop(q) \/ \E m \in queue : Receive(q, m)
      PROVE  FALSE
  BY <1>0, <1>1 DEF Work, Stop, Receive, Claim, Publish, Record, Abandon, Handoff, Failed, PutDevice, Check,
     FindDevice, Acknowledge, Goto, Ends, Onward, Branch, RunsTyped
<1>2. ~((\E m \in queue : DeadLetter(m)) \/ (\E d \in stream : StreamPublish(d)) \/ Purging \/ User
        \/ UNCHANGED vars)
  BY DEF DeadLetter, StreamPublish, StreamGivesUp, Purging, ListRows, DeleteRow, User, BeginUserDeletion,
     ChangeAddress, vars
<1> QED BY <1>1, <1>2 DEF Next

\* The rest of a run that goes on to the next destination or to another label.
LEMMA Goes ==
  ASSUME TypeOK, NEW r \in Runs
  PROVE  /\ Onward(r) => pc'[r] = "next" /\ local'[r].msg = local[r].msg /\ local'[r].todo = local[r].todo
         /\ \A label \in Label : Branch(r, label) => pc'[r] = label /\ local'[r] = local[r]
         /\ Ends(r) => pc'[r] = "idle"
<1>0. RunsTyped /\ local[r] \in Local BY Typed
<1>1. CASE Onward(r)
  <2> DEFINE l == [local[r] EXCEPT !.dest = "none", !.outcome = "none"]
  <2>1. l.msg = local[r].msg /\ l.todo = local[r].todo BY <1>0 DEF Local
  <2>2. local'[r] = l /\ pc'[r] = "next" BY <1>0, <1>1 DEF Onward, Goto, RunsTyped
  <2>3. ASSUME NEW label \in Label, Branch(r, label) PROVE local'[r] = local[r] /\ pc'[r] = label
    BY <1>0, <2>3 DEF Branch, Goto, RunsTyped
  <2> QED BY <1>0, <2>1, <2>2, <2>3 DEF Ends, Goto, RunsTyped
<1>2. CASE ~Onward(r) BY <1>0, <1>2 DEF Branch, Ends, Goto, RunsTyped
<1> QED BY <1>1, <1>2

LEMMA RunStep ==
  ASSUME DeliveryAssumption, IInv, [Next]_vars, NEW r \in Runs PROVE RunOK(r)'
<1>0. /\ TypeOK /\ RunOK(r) /\ (\A m \in queue : MessageOK(m)) /\ RunsTyped
      /\ local[r] \in Local /\ local[r].todo \subseteq Dest
      /\ queue \subseteq Message
  BY Typed DEF IInv, TypeOK
<1>1. \A m : MessageOK(m) => MessageOK(m)' BY Proofs
<1>2. \A d \in Devices : sent[d] > 0 => sent'[d] > 0 BY Proofs
<1>3. CASE pc'[r] = pc[r] /\ local'[r] = local[r]
  BY <1>0, <1>1, <1>2, <1>3 DEF RunOK, LocalOK
<1>4. CASE pc'[r] = "idle" BY <1>4 DEF RunOK
<1>5. CASE Onward(r) /\ pc[r] # "idle"
  <2>1. pc'[r] = "next" /\ local'[r].msg = local[r].msg /\ local'[r].todo = local[r].todo
    BY <1>0, <1>5, Goes
  <2> QED BY <1>0, <1>1, <1>5, <2>1 DEF RunOK, LocalOK
<1>6. ASSUME NEW m \in queue, Receive(r, m) PROVE RunOK(r)'
  <2>1. m \in Message /\ MessageOK(m) BY <1>0
  <2> DEFINE taken == [m EXCEPT !.tries = m.tries + 1]
             todo == CASE m.kind = "push" -> {d \in Devices : device[d] = "active"}
                       [] m.kind = "email" -> {address}
                       [] OTHER -> {}
             taking == [msg |-> taken, todo |-> todo, dest |-> m.dest, outcome |-> "none"]
  <2>2. /\ taken \in Message /\ taken.kind = m.kind /\ taken.dest = m.dest
        /\ m.kind = "receipt" => todo = {}
        /\ m.kind = "email" => todo \subseteq Addresses
    <3>1. taken \in Message /\ taken.kind = m.kind /\ taken.dest = m.dest
      BY <1>6, <2>1, Messages DEF Receive
    <3>2. m.kind = "receipt" => todo = {} OBVIOUS
    <3>3. m.kind = "email" => todo \subseteq Addresses BY <1>0 DEF TypeOK
    <3> QED BY <3>1, <3>2, <3>3
  <2> HIDE DEF taken, todo
  <2>3. local'[r] = taking
    <3>1. local' = [local EXCEPT ![r] = taking] BY <1>6 DEF Receive, taken, todo
    <3> QED BY <1>0, <3>1 DEF RunsTyped
  <2>a. pc' = [pc EXCEPT ![r] = IF m.kind # "receipt" THEN "next"
                          ELSE IF m.handoff THEN "handoff" ELSE "check"]
    BY <1>6 DEF Receive, Goto
  <2>4. \/ pc'[r] = "next" /\ m.kind # "receipt"
        \/ pc'[r] \in {"handoff", "check"} /\ m.kind = "receipt"
    BY <1>0, <2>a DEF RunsTyped
  <2>5. taken.kind = "receipt" => taken.dest \in Devices /\ sent'[taken.dest] > 0
    BY <1>2, <2>1, <2>2 DEF MessageOK
  <2>6. LocalOK(r)' BY <1>2, <2>1, <2>2, <2>3, <2>4 DEF LocalOK, MessageOK
  <2> QED BY <2>2, <2>3, <2>5, <2>6 DEF RunOK, MessageOK
<1>7. ASSUME NEW d \in Dest, Claim(r, d) PROVE RunOK(r)'
  <2>1. local[r].todo # {} /\ pc[r] = "next" BY <1>7 DEF Claim
  <2>2. local[r].msg.kind # "receipt" BY <1>0, <2>1 DEF RunOK, LocalOK
  <2>3. [local[r] EXCEPT !.todo = local[r].todo \ {d}, !.dest = d].dest = d
        /\ [local[r] EXCEPT !.todo = local[r].todo \ {d}, !.dest = d].msg = local[r].msg
        /\ [local[r] EXCEPT !.todo = local[r].todo \ {d}, !.dest = d].todo = local[r].todo \ {d}
    BY <1>0 DEF Local
  <2>4. /\ local'[r].dest = d /\ local'[r].msg = local[r].msg /\ pc'[r] \in {"publish", "next"}
        /\ local'[r].todo = local[r].todo \ {d} /\ d \in local[r].todo
    BY <1>0, <1>7, <2>1, <2>3 DEF Claim, Goto, RunsTyped
  <2> QED BY <1>0, <1>1, <2>1, <2>2, <2>4 DEF RunOK, LocalOK, MessageOK
<1>8. CASE Publish(r)
  <2>0. PICK d \in Dest : d = local[r].dest BY <1>0, <1>8 DEF Publish, RunOK, LocalOK
  <2>1. PICK outcome \in Outcome :
          /\ outcome \in IF d \in Devices THEN PushOutcome ELSE MailOutcome
          /\ local' = [local EXCEPT ![r] = [local[r] EXCEPT !.outcome = outcome]]
          /\ sent' = IF outcome \in Taken THEN [sent EXCEPT ![d] = sent[d] + 1] ELSE sent
          /\ Goto(r, CASE outcome = "ticket" -> "handoff"
                    [] outcome = "retryable" -> "abandon"
                    [] OTHER -> "record")
    BY <1>8, <2>0 DEF Publish, Outcome
  <2>2. pc'[r] = CASE outcome = "ticket" -> "handoff"
                   [] outcome = "retryable" -> "abandon"
                   [] OTHER -> "record"
    BY <1>0, <2>1 DEF Goto, RunsTyped
  <2>3. /\ local'[r].dest = d /\ local'[r].outcome = outcome /\ local'[r].msg = local[r].msg
        /\ local'[r].todo = local[r].todo
    <3>1. /\ [local[r] EXCEPT !.outcome = outcome].dest = local[r].dest
          /\ [local[r] EXCEPT !.outcome = outcome].msg = local[r].msg
          /\ [local[r] EXCEPT !.outcome = outcome].outcome = outcome
          /\ [local[r] EXCEPT !.outcome = outcome].todo = local[r].todo
      BY <1>0 DEF Local
    <3> QED BY <1>0, <2>0, <2>1, <3>1 DEF RunsTyped
  <2>4. outcome \in {"ticket", "unregistered"} => d \in Devices
    BY <2>1 DEF MailOutcome
  <2>5. outcome = "ticket" => sent'[d] > 0 BY <1>0, <2>1 DEF Taken, TypeOK
  <2>6. /\ local[r].msg.kind # "receipt"
        /\ local[r].msg.kind = "email" => local[r].todo \subseteq Addresses /\ d \in Addresses
    BY <1>0, <1>8, <2>0 DEF Publish, RunOK, LocalOK
  <2>7. pc'[r] \in {"handoff", "abandon", "record"} /\ (pc'[r] = "handoff" => outcome = "ticket")
    BY <2>2
  <2>8. LocalOK(r)' BY <2>1, <2>3, <2>4, <2>5, <2>6, <2>7 DEF LocalOK, Outcome
  <2> QED BY <1>0, <1>1, <1>8, <2>3, <2>8 DEF RunOK, MessageOK, Publish
<1>9. CASE \E label \in {"putDevice", "failed"} : Record(r) /\ Branch(r, label)
           /\ (label = "putDevice" => local[r].outcome = "unregistered")
  <2>1. PICK label \in {"putDevice", "failed"} :
          /\ Record(r) /\ pc'[r] = label /\ local'[r] = local[r]
          /\ label = "putDevice" => local[r].outcome = "unregistered"
    BY <1>0, <1>9, Goes DEF Label
  <2> QED BY <1>0, <1>1, <2>1 DEF RunOK, LocalOK, MessageOK, Record, Outcome
<1>10. CASE \E label \in {"check", "failed"} : Handoff(r) /\ Branch(r, label)
            /\ (label = "check" => local[r].msg.kind # "push")
  <2>1. PICK label \in {"check", "failed"} :
          /\ Handoff(r) /\ pc'[r] = label /\ local'[r] = local[r]
          /\ label = "check" => local[r].msg.kind # "push"
    BY <1>0, <1>10, Goes DEF Label
  <2>2. label = "check" => local[r].msg.kind = "receipt"
    BY <1>0, <2>1 DEF Local, Message, RunOK, LocalOK, Handoff, DeliveryAssumption
  <2> QED BY <1>0, <1>1, <2>1, <2>2 DEF RunOK, LocalOK, MessageOK, Handoff, Dest
<1>11. CASE PutDevice(r) /\ Branch(r, "failed")
  <2>1. pc'[r] = "failed" /\ local'[r] = local[r] BY <1>0, <1>11, Goes DEF Label
  <2> QED BY <1>0, <1>1, <1>11, <2>1 DEF RunOK, LocalOK, MessageOK, PutDevice, Dest
<1>12. CASE \E label \in {"failed", "findDevice"} : Check(r) /\ Branch(r, label)
  <2>1. PICK label \in {"failed", "findDevice"} : Check(r) /\ pc'[r] = label /\ local'[r] = local[r]
    BY <1>0, <1>12, Goes DEF Label
  <2> QED BY <1>0, <1>1, <2>1 DEF RunOK, LocalOK, MessageOK, Check, Dest
<1>13. CASE FindDevice(r) /\ Branch(r, "putDevice")
  <2>1. pc'[r] = "putDevice" /\ local'[r] = local[r] BY <1>0, <1>13, Goes DEF Label
  <2> QED BY <1>0, <1>1, <1>13, <2>1 DEF RunOK, LocalOK, MessageOK, FindDevice
<1>14. Record(r) => (Onward(r) /\ pc[r] # "idle") \/ \E label \in {"putDevice", "failed"} : Branch(r, label)
           /\ (label = "putDevice" => local[r].outcome = "unregistered")
  BY DEF Record
<1>15. Handoff(r) => (Onward(r) /\ pc[r] # "idle") \/ \E label \in {"check", "failed"} : Branch(r, label)
           /\ (label = "check" => local[r].msg.kind # "push")
  BY DEF Handoff
<1>16. PutDevice(r) => (Onward(r) /\ pc[r] # "idle") \/ Branch(r, "failed") BY DEF PutDevice
<1>17. Check(r) => (Onward(r) /\ pc[r] # "idle") \/ \E label \in {"failed", "findDevice"} : Branch(r, label)
  BY DEF Check
<1>18. FindDevice(r) => (Onward(r) /\ pc[r] # "idle") \/ Branch(r, "putDevice") BY DEF FindDevice
<1>19. Failed(r) => Onward(r) /\ pc[r] # "idle" BY DEF Failed
<1>20. Stop(r) \/ Acknowledge(r) \/ Abandon(r) => pc'[r] = "idle"
  BY <1>0, Goes DEF Stop, Acknowledge, Abandon
<1> QED
  BY <1>0, <1>3, <1>4, <1>5, <1>6, <1>7, <1>8, <1>9, <1>10, <1>11, <1>12, <1>13, <1>14, <1>15, <1>16,
     <1>17, <1>18, <1>19, <1>20, Acts DEF Work

LEMMA MessagesStep ==
  ASSUME DeliveryAssumption, IInv, [Next]_vars
  PROVE  (\A m \in queue' : MessageOK(m)') /\ \A d \in stream' : sent'[d] > 0
<1>0. /\ TypeOK /\ (\A m \in queue : MessageOK(m)) /\ queue \subseteq Message
      /\ (\A d \in stream : sent[d] > 0 /\ d \in Devices)
      /\ \A r \in Runs : RunOK(r) /\ local[r].msg \in Message
  BY Typed DEF IInv, TypeOK
<1>1. \A m : MessageOK(m) => MessageOK(m)' BY Proofs
<1>2. \A d \in Devices : sent[d] > 0 => sent'[d] > 0 BY Proofs
<1>3. CASE queue' \subseteq queue /\ stream' \subseteq stream
  BY <1>0, <1>1, <1>2, <1>3
<1>4. ASSUME NEW d \in Devices, NEW pending, NEW n, sent[d] > 0
      PROVE  MessageOK(Receipt(d, pending, n))
  BY <1>4 DEF MessageOK, Receipt
<1>5. ASSUME NEW r \in Runs, NEW m \in queue, Receive(r, m)
      PROVE  (\A w \in queue' : MessageOK(w)') /\ \A d \in stream' : sent'[d] > 0
  <2> DEFINE taken == [m EXCEPT !.tries = m.tries + 1]
  <2>1. taken.kind = m.kind /\ taken.dest = m.dest BY <1>0, <1>5, Messages DEF Receive
  <2>2. MessageOK(taken) BY <1>0, <2>1 DEF MessageOK
  <2> HIDE DEF taken
  <2>3. queue' \subseteq queue \cup {taken} /\ stream' = stream BY <1>5 DEF Receive, taken
  <2> QED BY <1>0, <1>1, <1>2, <2>2, <2>3
<1>6. ASSUME NEW d \in stream, StreamPublish(d)
      PROVE  (\A w \in queue' : MessageOK(w)') /\ \A e \in stream' : sent'[e] > 0
  <2>1. MessageOK(Receipt(d, FALSE, 0)) BY <1>0, <1>4
  <2>2. queue' \subseteq queue \cup {Receipt(d, FALSE, 0)} /\ stream' \subseteq stream
    BY <1>6 DEF StreamPublish, StreamGivesUp
  <2> QED BY <1>0, <1>1, <1>2, <2>1, <2>2
<1>7. ASSUME NEW r \in Runs, Handoff(r)
      PROVE  (\A w \in queue' : MessageOK(w)') /\ \A e \in stream' : sent'[e] > 0
  <2>1. PICK d \in Devices : d = local[r].dest /\ sent[d] > 0
    BY <1>0, <1>7 DEF Handoff, RunOK, LocalOK
  <2>2. Handover(d) BY <1>0, <1>7, <2>1, Handovers DEF Handoff
  <2>3. stream' \subseteq stream \cup {d} BY <2>2 DEF Handover, NothingWritten, AcceptWrite
  <2>4. PICK n : queue' = queue \/ queue' = queue \cup {Receipt(d, TRUE, n)}
    BY <1>7, <2>1 DEF Handoff
  <2>5. MessageOK(Receipt(d, TRUE, n)) BY <1>4, <2>1
  <2> QED BY <1>0, <1>1, <1>2, <2>1, <2>3, <2>4, <2>5
<1>8. ASSUME NEW r \in Runs, Check(r)
      PROVE  (\A w \in queue' : MessageOK(w)') /\ \A e \in stream' : sent'[e] > 0
  <2>1. PICK d \in Devices : d = local[r].dest /\ sent[d] > 0
    BY <1>0, <1>8 DEF Check, RunOK, LocalOK, MessageOK
  <2>2. PICK n : queue' = queue \/ queue' = queue \cup {Receipt(d, FALSE, n)}
    BY <1>8, <2>1 DEF Check
  <2>3. MessageOK(Receipt(d, FALSE, n)) BY <1>4, <2>1
  <2> QED BY <1>0, <1>1, <1>2, <1>8, <2>2, <2>3 DEF Check
<1>9. ASSUME NEW r \in Runs, Stop(r) \/ Acknowledge(r) \/ Publish(r) \/ Record(r) \/ Abandon(r)
             \/ Failed(r) \/ PutDevice(r) \/ FindDevice(r) \/ \E d \in Dest : Claim(r, d)
      PROVE  queue' \subseteq queue /\ stream' \subseteq stream
  BY <1>9 DEF Stop, Acknowledge, Publish, Record, Abandon, Failed, PutDevice, FindDevice, Claim
<1>10. (\E m \in queue : DeadLetter(m)) \/ Purging \/ User \/ UNCHANGED vars
         => queue' \subseteq queue /\ stream' \subseteq stream
  BY DEF DeadLetter, Purging, ListRows, DeleteRow, User, BeginUserDeletion,
     ChangeAddress, vars
<1> QED BY <1>3, <1>5, <1>6, <1>7, <1>8, <1>9, <1>10 DEF Next, Work

-----------------------------------------------------------------------------
(* The receipts of accepted tickets.                                        *)

\* A sent push is never claimed again.
LEMMA PendingBack ==
  ASSUME DeliveryAssumption, IInv, [Next]_vars, NEW d \in Devices, sent[d] > 0, Pending(d)'
  PROVE  Pending(d)
<1>0. TypeOK /\ HeldOnceSent /\ d \in Dest BY DEF IInv, Dest
<1>1. ~deleted => claim[d] # "none" BY <1>0 DEF HeldOnceSent, Held
<1> QED BY <1>0, <1>1, ClaimStep DEF ClaimMoves, Pending, MayClaim, Terminal

LEMMA LaterStep ==
  ASSUME DeliveryAssumption, IInv, [Next]_vars, NEW d \in Devices, NEW n \in Int,
         Pending(d), Later(d, n)
  PROVE  Later(d, n)'
<1>0. /\ TypeOK /\ queue \subseteq Message /\ \A r \in Runs : DoneOK(r)
      /\ \A m \in queue : m.check \in Int
  BY DEF IInv, TypeOK, Message, DeliveryAssumption
<1>1. CASE queue \subseteq queue' /\ dlq \subseteq dlq' BY <1>1 DEF Later
<1>2. ASSUME NEW r \in Runs, NEW m \in queue, Receive(r, m) PROVE Later(d, n)'
  <2> DEFINE taken == [m EXCEPT !.tries = m.tries + 1]
  <2>1. taken.kind = m.kind /\ taken.dest = m.dest /\ taken.check = m.check
    BY <1>0, <1>2, Messages DEF Receive
  <2> HIDE DEF taken
  <2>2. queue' = (queue \ {m}) \cup {taken} /\ dlq' = dlq BY <1>2 DEF Receive, taken
  <2> QED BY <2>1, <2>2 DEF Later, ReceiptOf
<1>3. ASSUME NEW m \in queue, DeadLetter(m) PROVE Later(d, n)'
  BY <1>3 DEF DeadLetter, Later, ReceiptOf
<1>4. ASSUME NEW r \in Runs, Acknowledge(r) PROVE Later(d, n)'
  <2>1. queue' = queue \ {local[r].msg} /\ dlq' = dlq /\ pc[r] = "next" BY <1>4 DEF Acknowledge
  <2>2. CASE <<"receipt", d>> \in dlq BY <2>1, <2>2 DEF Later
  <2>3. CASE <<"receipt", d>> \notin dlq
    <3>1. PICK w \in queue : ReceiptOf(w, d) /\ w.check > n BY <2>3 DEF Later
    <3>2. CASE w # local[r].msg BY <2>1, <3>1, <3>2 DEF Later
    <3>3. CASE w = local[r].msg
      <4>1. Later(d, w.check) BY <1>0, <2>1, <3>1, <3>3 DEF DoneOK, ReceiptOf
      <4>2. PICK v \in queue : ReceiptOf(v, d) /\ v.check > w.check BY <2>3, <4>1 DEF Later
      <4>3. v.check > n /\ v # w BY <1>0, <3>1, <4>2
      <4> QED BY <2>1, <3>3, <4>2, <4>3 DEF Later
    <3> QED BY <3>2, <3>3
  <2> QED BY <2>2, <2>3
<1>5. ASSUME NEW r \in Runs, Stop(r) \/ Publish(r) \/ Record(r) \/ Abandon(r) \/ Handoff(r) \/ Failed(r)
             \/ PutDevice(r) \/ Check(r) \/ FindDevice(r) \/ \E e \in Dest : Claim(r, e)
      PROVE  queue \subseteq queue' /\ dlq \subseteq dlq'
  BY <1>5 DEF Stop, Publish, Record, Abandon, Handoff, Failed, PutDevice, Check, FindDevice, Claim
<1>6. (\E e \in stream : StreamPublish(e)) \/ Purging \/ User \/ UNCHANGED vars
        => queue \subseteq queue' /\ dlq \subseteq dlq'
  BY DEF StreamPublish, StreamGivesUp, Purging, ListRows, DeleteRow, User, BeginUserDeletion,
     ChangeAddress, vars
<1> QED BY <1>1, <1>2, <1>3, <1>4, <1>5, <1>6 DEF Next, Work

LEMMA WatchedStep == ASSUME DeliveryAssumption, IInv, [Next]_vars PROVE AcceptedIsWatched'
<1> SUFFICES ASSUME NEW d \in Devices, claim'[d] = "accepted"
             PROVE  d \in stream' \/ GivenUp(d)' \/ \E m \in queue' : ReceiptOf(m, d)
  BY DEF AcceptedIsWatched, GivenUp
<1>0. TypeOK /\ AcceptedIsWatched /\ d \in Dest /\ queue \subseteq Message BY DEF IInv, Dest, TypeOK
<1>1. CASE claim'[d] # claim[d]
  BY <1>0, <1>1, ClaimStep DEF ClaimMoves, Terminal
<1>2. CASE claim[d] = "accepted" /\ d \notin stream /\ <<"stream", d>> \notin dlq
  <2>1. Pending(d) /\ -1 \in Int BY <1>2 DEF Pending
  <2>2. Later(d, -1)
    <3>1. <<"receipt", d>> \in dlq \/ \E m \in queue : ReceiptOf(m, d)
      BY <1>0, <1>2 DEF AcceptedIsWatched, GivenUp
    <3>2. \A m \in queue : m.check > -1 BY <1>0 DEF Message, DeliveryAssumption
    <3> QED BY <3>1, <3>2 DEF Later
  <2>3. Later(d, -1)' BY <2>1, <2>2, LaterStep
  <2> QED BY <2>3 DEF Later, GivenUp
<1>3. CASE <<"stream", d>> \in dlq
  <2>1. ASSUME NEW r \in Runs, HandlerStep(r) PROVE UNCHANGED dlq
    BY <2>1 DEF HandlerStep, Work, Receive, Stop, Acknowledge, Claim, Publish, Record, Abandon, Handoff,
       Failed, Check, PutDevice, FindDevice
  <2>2. CASE \E m \in queue : DeadLetter(m) BY <1>3, <2>2 DEF DeadLetter, GivenUp
  <2>3. CASE \E e \in stream : StreamPublish(e)
    BY <1>3, <2>3 DEF StreamPublish, StreamGivesUp, GivenUp
  <2>4. CASE Purging \/ User \/ UNCHANGED vars
    BY <1>3, <2>4
    DEF Purging, ListRows, DeleteRow, User, BeginUserDeletion, ChangeAddress, vars, GivenUp
  <2> QED BY <1>3, <2>1, <2>2, <2>3, <2>4 DEF Next, HandlerStep, GivenUp
<1>4. CASE claim[d] = "accepted" /\ d \in stream
  <2>1. ASSUME NEW e \in stream, StreamPublish(e), d \notin stream'
        PROVE  GivenUp(d)' \/ \E m \in queue' : ReceiptOf(m, d)
    <3>1. e = d BY <1>4, <2>1 DEF StreamPublish, StreamGivesUp
    <3>2. Receipt(d, FALSE, 0) \in queue' \/ <<"stream", d>> \in dlq'
      BY <2>1, <3>1 DEF StreamPublish, StreamGivesUp
    <3>3. ReceiptOf(Receipt(d, FALSE, 0), d) BY DEF ReceiptOf, Receipt
    <3> QED BY <3>2, <3>3 DEF GivenUp
  <2>2. ASSUME NEW r \in Runs, Handoff(r) PROVE d \in stream'
    <3>0. PICK f \in Devices : f = local[r].dest BY <2>2 DEF Handoff, IInv, RunOK, LocalOK
    <3>1. Handover(f) BY <1>0, <2>2, <3>0, Handovers DEF Handoff
    <3> QED BY <1>4, <3>1 DEF Handover, NothingWritten, AcceptWrite
  <2>3. (\E e \in stream : StreamPublish(e)) \/ (\E r \in Runs : Handoff(r)) \/ stream' = stream
    BY DEF Next, Work, Purging, User, vars, Receive, Stop, Acknowledge, DeadLetter, Claim, Publish,
       Record, Abandon, Failed, Check, PutDevice, FindDevice, ListRows, DeleteRow,
       BeginUserDeletion, ChangeAddress
  <2> QED BY <1>4, <2>1, <2>2, <2>3
<1> QED BY <1>1, <1>2, <1>3, <1>4

LEMMA DoneStep ==
  ASSUME DeliveryAssumption, IInv, [Next]_vars, NEW r \in Runs PROVE DoneOK(r)'
<1>0. /\ TypeOK /\ RunOK(r) /\ DoneOK(r) /\ RunsTyped /\ local[r].msg \in Message
      /\ (\A m \in queue : MessageOK(m))
  BY Typed DEF IInv
<1>1. CASE pc'[r] \notin {"next", "findDevice", "putDevice"} \/ local'[r].msg.kind # "receipt"
  BY <1>1 DEF DoneOK
<1>2. ASSUME pc[r] # "idle", local[r].msg.kind = "receipt", local'[r].msg = local[r].msg,
             ~Pending(local[r].msg.dest) \/ claim'[local[r].msg.dest] \in Terminal \cup {"none"}
      PROVE  DoneOK(r)'
  <2>1. PICK d \in Devices : d = local[r].msg.dest /\ sent[d] > 0
    BY <1>0, <1>2 DEF RunOK, MessageOK
  <2>2. ~(Pending(d)')
    <3>1. CASE ~Pending(d) BY <2>1, <3>1, PendingBack
    <3>2. CASE claim'[d] \in Terminal \cup {"none"} BY <3>2 DEF Pending, Terminal
    <3> QED BY <1>2, <2>1, <3>1, <3>2
  <2>3. claim'[local'[r].msg.dest] \notin {"claimed", "accepted"} BY <1>2, <2>1, <2>2 DEF Pending
  <2> QED BY <2>3 DEF DoneOK, Pending
<1>3. CASE pc'[r] = pc[r] /\ local'[r] = local[r]
  <2>1. CASE pc[r] # "idle" /\ local[r].msg.kind = "receipt"
    <3>1. PICK d \in Devices : d = local[r].msg.dest /\ sent[d] > 0
      BY <1>0, <2>1 DEF RunOK, MessageOK
    <3>2. PICK n \in Int : n = local[r].msg.check BY <1>0 DEF Message, DeliveryAssumption
    <3>3. pc[r] = "next" /\ Pending(d)' => Later(d, n)'
      BY <1>0, <2>1, <3>1, <3>2, PendingBack, LaterStep DEF DoneOK
    <3>4. pc[r] \in {"findDevice", "putDevice"} => ~(Pending(d)')
      BY <1>0, <2>1, <3>1, PendingBack DEF DoneOK
    <3> QED BY <1>3, <3>1, <3>2, <3>3, <3>4 DEF DoneOK, Pending, Later
  <2> QED BY <1>3, <2>1 DEF DoneOK
<1>4. ASSUME NEW state \in Terminal, pc[r] # "idle", local[r].msg.kind = "receipt",
             pc[r] # "next", Transition(local[r].dest, state), local'[r].msg = local[r].msg
      PROVE  DoneOK(r)'
  <2>1. PICK d \in Dest : d = local[r].msg.dest /\ d = local[r].dest
    BY <1>0, <1>4 DEF RunOK, MessageOK, LocalOK, Dest
  <2>2. claim'[d] \in {"none", state} BY <1>0, <1>4, <2>1, Transitions
  <2> QED BY <1>2, <1>4, <2>1, <2>2
<1>5. ASSUME NEW pending, pc[r] # "idle", pc[r] # "next", local[r].msg.kind = "receipt",
             queue' = queue \cup {Receipt(local[r].dest, pending, local[r].msg.check + 1)},
             pc'[r] = "next", local'[r].msg = local[r].msg
      PROVE  DoneOK(r)'
  <2>1. PICK d \in Devices : d = local[r].msg.dest /\ d = local[r].dest
    BY <1>0, <1>5 DEF RunOK, MessageOK, LocalOK
  <2>2. PICK n \in Int : n = local[r].msg.check BY <1>0 DEF Message, DeliveryAssumption
  <2>3. ReceiptOf(Receipt(d, pending, n + 1), d) /\ Receipt(d, pending, n + 1).check > n
    BY DEF ReceiptOf, Receipt
  <2>4. Later(d, n)' BY <1>5, <2>1, <2>2, <2>3 DEF Later
  <2> QED BY <1>5, <2>1, <2>2, <2>4 DEF DoneOK, Later
<1>6. ASSUME NEW m \in queue, Receive(r, m) PROVE DoneOK(r)'
  <2> DEFINE taken == [m EXCEPT !.tries = m.tries + 1]
  <2>1. m \in Message /\ taken.kind = m.kind BY <1>0, <1>6, Messages DEF Receive, TypeOK
  <2>2. local'[r].msg = taken
    BY <1>0, <1>6 DEF Receive, RunsTyped
  <2>3. pc' = [pc EXCEPT ![r] = IF m.kind # "receipt" THEN "next"
                               ELSE IF m.handoff THEN "handoff" ELSE "check"]
    BY <1>6 DEF Receive, Goto
  <2>4. m.kind = "receipt" => pc'[r] \in {"handoff", "check"} BY <1>0, <2>3 DEF RunsTyped
  <2> QED BY <1>1, <2>1, <2>2, <2>4
<1>7. CASE Stop(r) \/ Acknowledge(r) \/ Abandon(r) BY <1>0, <1>1, <1>7, Goes DEF Stop, Acknowledge, Abandon
<1>8. ASSUME NEW d \in Dest, Claim(r, d) PROVE DoneOK(r)'
  <2>1. local[r].msg.kind # "receipt" BY <1>0, <1>8 DEF Claim, RunOK, LocalOK
  <2>2. [local[r] EXCEPT !.todo = local[r].todo \ {d}, !.dest = d].msg = local[r].msg
    BY <1>0 DEF RunsTyped, Local
  <2>3. local'[r].msg = local[r].msg BY <1>0, <1>8, <2>2 DEF Claim, RunsTyped
  <2> QED BY <1>1, <2>1, <2>3
<1>9. CASE Publish(r)
  <2>1. pc'[r] \in {"handoff", "abandon", "record"} BY <1>0, <1>9 DEF Publish, Goto, RunsTyped
  <2> QED BY <1>1, <2>1
<1>10. CASE Record(r)
  <2>1. local[r].msg.kind # "receipt" BY <1>0, <1>10 DEF Record, RunOK, LocalOK
  <2>2. local'[r].msg = local[r].msg BY <1>0, <1>10, Goes DEF Record, Label
  <2> QED BY <1>1, <2>1, <2>2
<1>11. CASE Failed(r)
  <2>1. "unknown" \in Terminal /\ local'[r].msg = local[r].msg
    BY <1>0, <1>11, Goes DEF Failed, Terminal
  <2> QED BY <1>1, <1>4, <1>11, <2>1 DEF Failed
<1>12. CASE PutDevice(r)
  <2>1. local'[r].msg = local[r].msg BY <1>0, <1>12, Goes DEF PutDevice, Label
  <2>2. local[r].msg.kind = "receipt" => ~Pending(local[r].msg.dest)
    BY <1>0, <1>12 DEF PutDevice, DoneOK
  <2> QED BY <1>1, <1>2, <1>12, <2>1, <2>2 DEF PutDevice
<1>13. CASE FindDevice(r)
  <2>1. local'[r].msg = local[r].msg BY <1>0, <1>13, Goes DEF FindDevice, Label
  <2>2. local[r].msg.kind = "receipt" => ~Pending(local[r].msg.dest)
    BY <1>0, <1>13 DEF FindDevice, DoneOK
  <2> QED BY <1>1, <1>2, <1>13, <2>1, <2>2 DEF FindDevice
<1>14. CASE Check(r) /\ local[r].msg.kind = "receipt"
  <2>1. local'[r].msg = local[r].msg BY <1>0, <1>14, Goes DEF Check, Label
  <2>2. CASE \E state \in {"delivered", "definitive-failure"} : Transition(local[r].dest, state)
    BY <1>4, <1>14, <2>1, <2>2 DEF Check, Terminal
  <2>3. CASE Branch(r, "failed") BY <1>0, <1>1, <2>3, Goes DEF Label
  <2>4. CASE /\ queue' = queue \cup {Receipt(local[r].dest, FALSE, local[r].msg.check + 1)}
             /\ Onward(r)
    <3>1. pc'[r] = "next" BY <1>0, <2>4, Goes
    <3> QED BY <1>5, <1>14, <2>1, <2>4, <3>1 DEF Check
  <2> QED BY <1>14, <2>2, <2>3, <2>4 DEF Check
<1>15. CASE Check(r) /\ local[r].msg.kind # "receipt" BY <1>0, <1>15 DEF Check, RunOK, LocalOK
<1>16. CASE Handoff(r)
  <2>1. local'[r].msg = local[r].msg BY <1>0, <1>16, Goes DEF Handoff, Label
  <2>2. CASE local[r].msg.kind # "receipt" BY <1>1, <2>1, <2>2
  <2>3. CASE local[r].msg.kind = "receipt"
    <3>1. CASE Branch(r, "failed") \/ Branch(r, "check") BY <1>0, <1>1, <3>1, Goes DEF Label
    <3>2. CASE Dropped(local[r].dest)
      <4>1. claim'[local[r].dest] = "none" BY <3>2 DEF Dropped, NothingWritten
      <4>2. local[r].dest = local[r].msg.dest BY <1>0, <1>16, <2>3 DEF Handoff, RunOK, LocalOK
      <4> QED BY <1>2, <1>16, <2>1, <2>3, <4>1, <4>2 DEF Handoff
    <3>3. CASE /\ queue' = queue \cup {Receipt(local[r].dest, TRUE, local[r].msg.check + 1)}
               /\ Onward(r)
      <4>1. pc'[r] = "next" BY <1>0, <3>3, Goes
      <4> QED BY <1>5, <1>16, <2>1, <2>3, <3>3, <4>1 DEF Handoff
    <3> QED BY <1>16, <2>3, <3>1, <3>2, <3>3 DEF Handoff
  <2> QED BY <2>2, <2>3
<1> QED
  BY <1>0, <1>3, <1>6, <1>7, <1>8, <1>9, <1>10, <1>11, <1>12, <1>13, <1>14, <1>15, <1>16, Acts DEF Work

LEMMA IInvStep == ASSUME DeliveryAssumption, IInv, [Next]_vars PROVE IInv'
<1>1. TypeOK' BY TypeStep
<1>2. SentOnce' /\ HeldOnceSent' BY SentOnceStep, HeldOnceSentStep
<1>3. /\ OnlyInactiveDevicesComeBack' /\ (purge'.stage = "listed" => deleted')
      /\ (purge'.left # {} => purge'.stage = "listed")
  BY PurgeStep
<1>4. AcceptedIsWatched' BY WatchedStep
<1>5. (\A m \in queue' : MessageOK(m)') /\ \A d \in stream' : sent'[d] > 0 BY MessagesStep
<1>6. \A r \in Runs : RunOK(r)' /\ OpenOK(r)' /\ DoneOK(r)' BY RunStep, OpenStep, DoneStep
<1> QED BY <1>1, <1>2, <1>3, <1>4, <1>5, <1>6 DEF IInv

-----------------------------------------------------------------------------
\* What the claims of notification-pipeline-handler.ts guarantee to workers, with what a
\* worker and a waiting message know of them.
THEOREM Invariant == Spec => []IInv
<1>1. Init => IInv BY DeliveryAssumption, InitOK
<1>2. IInv /\ [Next]_vars => IInv' BY DeliveryAssumption, IInvStep
<1> QED BY <1>1, <1>2, PTL DEF Spec

\* The rows of a user, the messages and the workers' variables keep their types; the count
\* of checks in a receipt message stays within its limit (nextReceiptCheck).
THEOREM TypeCorrect == Spec => []TypeOK
<1>1. IInv => TypeOK BY DEF IInv
<1> QED BY <1>1, Invariant, PTL

\* A device gets one push and a user one mail, whatever is repeated, dies, or is deleted,
\* and however often the profile's address changes (claimDelivery).
THEOREM AlertIsSentOnce == Spec => []SentOnce
<1>1. IInv => SentOnce BY DEF IInv
<1> QED BY <1>1, Invariant, PTL

\* Once the rows of a deleted account are listed, no worker adds one that the list misses,
\* but for the row of a device that is off.
THEOREM DeletionIsFinal == Spec => []OnlyInactiveDevicesComeBack
<1>1. IInv => OnlyInactiveDevicesComeBack BY DEF IInv
<1> QED BY <1>1, Invariant, PTL

\* An accepted ticket never loses the message that looks up its receipt, except to the
\* dead-letter queue (acceptPushWithReceiptOutbox, streamPublisher, receiptWorker).
THEOREM WatchedUntilSettled == Spec => []AcceptedIsWatched
<1>1. IInv => AcceptedIsWatched BY DEF IInv
<1> QED BY <1>1, Invariant, PTL

\* A delivery that has its result is not accepted, claimed or abandoned again by the late
\* step of another worker.
THEOREM ResultsStand == Spec => NeverReopened
<1> DEFINE Stands == \A d \in Dest : claim[d] \in Terminal => claim'[d] \in Terminal \cup {"none"}
<1>1. ASSUME IInv, [Next]_vars, NEW d \in Dest, claim[d] \in Terminal
      PROVE  claim'[d] \in Terminal \cup {"none"}
  BY <1>1, DeliveryAssumption, ClaimStep DEF ClaimMoves, Pending, MayClaim, Terminal
<1>2. IInv /\ [Next]_vars => [Stands]_vars BY <1>1
<1> QED BY <1>2, Invariant, PTL DEF Spec, NeverReopened
=============================================================================
