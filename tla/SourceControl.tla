--------------------------- MODULE SourceControl ---------------------------
(***************************************************************************)
(* The health row of one catalog source and everything that rewrites it: the *)
(* polls that a queue hands to the consumers of src/lever-worker.ts and        *)
(* src/ashby-worker.ts, and the actions of an operator in                      *)
(* src/greenhouse-operations-api.ts.                                         *)
(*                                                                         *)
(* Every writer reads the row, works for seconds or minutes, and writes the  *)
(* whole row back without a condition, so any of them may overwrite what the *)
(* others wrote since. Consumers are not limited to one per source.          *)
(*                                                                         *)
(* Time is the order of events: a backoff that was set for the future ends   *)
(* by a step of its own. Queued messages that agree in every field are one.  *)
(***************************************************************************)
EXTENDS Integers

CONSTANTS
  Consumers,     \* polls of the source that may run at the same time
  Operators,     \* requests of operators that may be served at the same time
  Deliveries,    \* deliveries of a message before the dead-letter queue, 3
  Threshold,     \* QUALITY_FAILURES_BEFORE_QUARANTINE, 2
  MaxCalls,      \* bound: requests of operators
  MaxFaults      \* bound: polls and writes that fail, consumers and requests that die, metrics
                 \* that are missing

ASSUME ControlAssumption ==
  /\ Deliveries \in Nat \ {0} /\ Threshold \in Nat \ {0}
  /\ MaxCalls \in Nat /\ MaxFaults \in Nat

VARIABLES
  health,     \* the health row of the source
  queue,      \* messages that wait for a delivery
  poll,       \* what each consumer does
  call,       \* what each operator's request does
  asked, faults

controlVars == <<health, queue, poll, call, asked, faults>>

-----------------------------------------------------------------------------
\* Failures are counted up to the threshold: no decision of the model tells more apart.
SourceHealth ==
  [state: {"never", "healthy", "degraded", "quarantined"}, status: {"active", "paused"},
   failures: 0..Threshold, backoff: {"none", "future", "past"},
   incident: {"resolved", "open", "acknowledged"}]
NeverPolled == [state |-> "never", status |-> "active", failures |-> 0, backoff |-> "none",
                incident |-> "resolved"]

WorkMessage == [force: BOOLEAN, tries: 1..Deliveries]
Poll == [pc: {"gated", "fetch", "stored", "stamp"}, msg: WorkMessage, base: SourceHealth]
NoPoll == [pc |-> "idle"]
Action == {"pause", "resume", "quarantine", "recover", "replay", "acknowledge", "resolve"}
Call == [pc: {"read", "send"}, action: Action, base: SourceHealth]
NoCall == [pc |-> "idle"]

ControlInit ==
  /\ health = NeverPolled /\ queue = {} /\ asked = 0 /\ faults = 0
  /\ poll = [c \in Consumers |-> NoPoll] /\ call = [o \in Operators |-> NoCall]

Fault == faults < MaxFaults /\ faults' = faults + 1
Smaller(a, b) == IF a <= b THEN a ELSE b

\* A copy of the row is written some time after it was read: its backoff may have ended.
Later(r) == {r} \cup (IF r.backoff = "future" THEN {[r EXCEPT !.backoff = "past"]} ELSE {})

-----------------------------------------------------------------------------
(* What a poll makes of the row it read.                                    *)

\* Anything but "clean" is an error of the poll: "transient" may be retried and sets a
\* backoff, "poor" is a snapshot that fails the checks of quality, links or emptiness,
\* "broken" has the wrong shape or belongs to nobody, "store" is a write that fails.
Failure == {"transient", "poor", "broken", "store"}

ShouldQuarantine(failure, failures) ==
  failure = "broken" \/ (failure = "poor" /\ failures >= Threshold)

Succeeded(base) ==
  [state |-> "healthy", status |-> base.status, failures |-> 0, backoff |-> "none",
   incident |-> "resolved"]

StateAfter(quarantined) == IF quarantined THEN "quarantined" ELSE "degraded"

FailedWith(base, failure, failures, quarantined) ==
  [state |-> StateAfter(quarantined),
   status |-> IF quarantined THEN "paused" ELSE base.status,
   failures |-> failures,
   backoff |-> IF failure = "transient" THEN "future" ELSE "none",
   incident |-> IF ~(quarantined \/ failures >= 2) THEN base.incident
                ELSE IF base.incident = "acknowledged" THEN "acknowledged" ELSE "open"]

FailedForgetting(base, failure) ==
  LET failures == Smaller(base.failures + 1, Threshold)
  IN  FailedWith(base, failure, failures, ShouldQuarantine(failure, failures))

\* A source that was in quarantine stays there whatever the failure.
Failed(base, failure) ==
  LET failures == Smaller(base.failures + 1, Threshold)
  IN  FailedWith(base, failure, failures,
                 base.state = "quarantined" \/ ShouldQuarantine(failure, failures))

-----------------------------------------------------------------------------
(* The queue and its consumers.                                             *)

BlockedForGood(r) == r.status = "paused" \/ r.state = "quarantined" \/ r.backoff # "none"

Blocked(r) == r.status = "paused" \/ r.state = "quarantined" \/ r.backoff = "future"

Backlog == queue # {} \/ \E c \in Consumers : poll[c].pc # "idle"

\* The cron of the provider sends the source if it is due.
Dispatch ==
  /\ ~Backlog /\ ~Blocked(health)
  /\ queue' = queue \cup {[force |-> FALSE, tries |-> 1]}
  /\ UNCHANGED <<health, poll, call, asked, faults>>

\* It does so over a backlog when the queue does not tell its length.
DispatchBlind ==
  /\ Backlog /\ ~Blocked(health) /\ Fault
  /\ queue' = queue \cup {[force |-> FALSE, tries |-> 1]}
  /\ UNCHANGED <<health, poll, call, asked>>

Ack(c) == poll' = [poll EXCEPT ![c] = NoPoll] /\ queue' = queue

\* After the last delivery the message goes to the dead-letter queue.
Retry(c) ==
  LET m == poll[c].msg
  IN  /\ poll' = [poll EXCEPT ![c] = NoPoll]
      /\ queue' = IF m.tries < Deliveries THEN queue \cup {[m EXCEPT !.tries = m.tries + 1]}
                  ELSE queue

\* A message without force is acknowledged unpolled while the source is blocked.
Take(c, m) ==
  /\ poll[c].pc = "idle" /\ m \in queue
  /\ queue' = queue \ {m}
  /\ poll' = IF m.force \/ ~Blocked(health)
             THEN [poll EXCEPT ![c] = [pc |-> "gated", msg |-> m, base |-> NeverPolled]] ELSE poll
  /\ UNCHANGED <<health, call, asked, faults>>

\* The poller reads the row again before it asks the provider.
ReadHealth(c) ==
  /\ poll[c].pc = "gated"
  /\ poll' = [poll EXCEPT ![c].pc = "fetch", ![c].base = health]
  /\ UNCHANGED <<health, queue, call, asked, faults>>

PollSucceeds(c) ==
  /\ poll[c].pc = "fetch"
  /\ health' = Succeeded(poll[c].base)
  /\ poll' = [poll EXCEPT ![c].pc = "stored"]
  /\ UNCHANGED <<queue, call, asked, faults>>

\* A poll that fails, or whose checkpoint is not written after its success was. The error
\* of the write of the health itself is swallowed.
PollFails(c) ==
  /\ Fault
  /\ \E failure \in Failure :
       /\ poll[c].pc = "fetch" \/ (poll[c].pc = "stored" /\ failure = "store")
       /\ health' \in {Failed(poll[c].base, failure), health}
  /\ Retry(c)
  /\ UNCHANGED <<call, asked>>

\* After the poll the consumer stamps the row with the provider, from a second read.
StampRead(c) ==
  /\ poll[c].pc = "stored"
  /\ poll' = [poll EXCEPT ![c].pc = "stamp", ![c].base = health]
  /\ UNCHANGED <<health, queue, call, asked, faults>>

StampWrite(c) ==
  /\ poll[c].pc = "stamp"
  /\ health' \in Later(poll[c].base)
  /\ Ack(c) /\ UNCHANGED <<call, asked, faults>>

\* The stamp, or the notifications after it, may fail.
StampFails(c) ==
  /\ poll[c].pc = "stamp" /\ Fault
  /\ health' \in Later(poll[c].base) \cup {health}
  /\ Retry(c) /\ UNCHANGED <<call, asked>>

ConsumerDies(c) ==
  /\ poll[c].pc # "idle" /\ Fault
  /\ Retry(c) /\ UNCHANGED <<health, call, asked>>

Poller(c) ==
  \/ \E m \in queue : Take(c, m)
  \/ ReadHealth(c) \/ PollSucceeds(c) \/ PollFails(c)
  \/ StampRead(c) \/ StampWrite(c) \/ StampFails(c)

-----------------------------------------------------------------------------
(* The requests of an operator.                                             *)

RefusedLess(action, base) ==
  \/ action = "recover" /\ base.state # "quarantined"
  \/ action = "acknowledge" /\ base.incident = "resolved"

Refused(action, base) ==
  \/ action = "resume" /\ base.state = "quarantined"
  \/ action = "recover" /\ base.state # "quarantined"
  \/ action = "acknowledge" /\ base.incident = "resolved"

\* A request reads the row first, and is refused by what it read.
Ask(o) ==
  /\ call[o].pc = "idle" /\ asked < MaxCalls /\ asked' = asked + 1
  /\ \E action \in Action :
       /\ ~Refused(action, health)
       /\ call' = [call EXCEPT ![o] = [pc |-> IF action = "replay" THEN "send" ELSE "read",
                                       action |-> action,
                                       base |-> IF action = "replay" THEN NeverPolled ELSE health]]
  /\ UNCHANGED <<health, queue, poll, faults>>

\* It writes back what it read, changed.
Changed(action, base) ==
  CASE action = "pause" -> [base EXCEPT !.status = "paused"]
    [] action = "resume" -> [base EXCEPT !.status = "active", !.backoff = "none"]
    [] action = "quarantine" ->
         [base EXCEPT !.state = "quarantined", !.status = "paused", !.incident = "open"]
    [] action = "acknowledge" -> [base EXCEPT !.incident = "acknowledged"]
    [] action = "resolve" -> [base EXCEPT !.incident = "resolved"]
    [] action = "recover" -> [base EXCEPT !.status = "paused", !.incident = "acknowledged"]

Reply(o) == call' = [call EXCEPT ![o] = NoCall]

Change(o) ==
  /\ call[o].pc = "read"
  /\ \E base \in Later(call[o].base) : health' = Changed(call[o].action, base)
  /\ IF call[o].action = "recover" THEN call' = [call EXCEPT ![o].pc = "send"] ELSE Reply(o)
  /\ UNCHANGED <<queue, poll, asked, faults>>

\* A recovery and a replay ask for a poll that ignores the block.
SendPoll(o) ==
  /\ call[o].pc = "send"
  /\ queue' = queue \cup {[force |-> TRUE, tries |-> 1]}
  /\ Reply(o) /\ UNCHANGED <<health, poll, asked, faults>>

\* A recovery that cannot be sent gives the incident back its state.
SendFails(o) ==
  /\ call[o].pc = "send" /\ Fault
  /\ IF call[o].action = "recover"
     THEN \E base \in Later(call[o].base) : health' = [base EXCEPT !.status = "paused"]
     ELSE health' = health
  /\ Reply(o) /\ UNCHANGED <<queue, poll, asked>>

RequestDies(o) ==
  /\ call[o].pc # "idle" /\ Fault
  /\ Reply(o) /\ UNCHANGED <<health, queue, poll, asked>>

Operator(o) == Change(o) \/ SendPoll(o) \/ SendFails(o)

-----------------------------------------------------------------------------
BackoffEnds ==
  /\ health.backoff = "future"
  /\ health' = [health EXCEPT !.backoff = "past"]
  /\ UNCHANGED <<queue, poll, call, asked, faults>>

ControlNext ==
  \/ Dispatch \/ DispatchBlind \/ BackoffEnds
  \/ \E c \in Consumers : Poller(c) \/ ConsumerDies(c)
  \/ \E o \in Operators : Ask(o) \/ Operator(o) \/ RequestDies(o)

ControlSpec == ControlInit /\ [][ControlNext]_controlVars

\* The cron fires, time passes, and the platform delivers each message and lets what it
\* started go on.
Fairness ==
  /\ WF_controlVars(Dispatch) /\ WF_controlVars(BackoffEnds)
  /\ \A c \in Consumers : WF_controlVars(Poller(c))
  /\ \A o \in Operators : WF_controlVars(Operator(o))

FairControlSpec == ControlSpec /\ Fairness

-----------------------------------------------------------------------------
ControlTypeOK ==
  /\ health \in SourceHealth /\ queue \subseteq WorkMessage
  /\ poll \in [Consumers -> Poll \cup {NoPoll}] /\ call \in [Operators -> Call \cup {NoCall}]
  /\ asked \in 0..MaxCalls /\ faults \in 0..MaxFaults

\* However the writers overwrite each other, the row is one that a source can have: a
\* quarantined source is paused, so nothing polls it unless it is told to; a healthy one
\* has no failures, no backoff and no incident left over from before (successfulSourceHealth),
\* and the first failure of a source opens no incident (failedSourceHealth).
Coherent(r) ==
  /\ r.state = "quarantined" => r.status = "paused"
  /\ r.state \in {"never", "healthy"} =>
       r.failures = 0 /\ r.backoff = "none" /\ r.incident = "resolved"
  /\ r.state = "degraded" => r.failures > 0 /\ (r.failures = 1 => r.incident = "resolved")

RowIsCoherent == Coherent(health)

\* Only a clean poll ends a quarantine (source-health.ts:187, greenhouse-operations-api.ts:416):
\* whoever else takes it from the row had read the row before the source was quarantined.
CleanPoll == \E c \in Consumers : poll[c].pc = "fetch" /\ poll'[c].pc = "stored"
UnawareWrite ==
  \/ \E c \in Consumers : /\ poll'[c] # poll[c] /\ poll[c].pc # "idle"
                          /\ poll[c].base.state # "quarantined"
  \/ \E o \in Operators : /\ call'[o] # call[o] /\ call[o].pc # "idle"
                          /\ call[o].base.state # "quarantined"
QuarantineEndsCleanly ==
  [][health.state = "quarantined" /\ health'.state # "quarantined" => CleanPoll \/ UnawareWrite]_controlVars

\* A source that nobody paused is polled until it is healthy again: neither a backoff, nor
\* a backlog, nor a message that went to the dead letters stops its polls for good.
Heals == []<>(health.state = "healthy" \/ health.status = "paused")
=============================================================================
