------------------------ MODULE VerificationSchedule ------------------------
(***************************************************************************)
(* The recurring check of application pages: the schedule of               *)
(* cloudflare/catalog-admission-store.ts, the cron that leases what is due,  *)
(* and the consumer of cloudflare/destination-verification.ts.               *)
(*                                                                         *)
(* A due row is leased for fifteen minutes and a message with the token of   *)
(* the lease goes to a queue whose backlog may be days. The key of a message *)
(* is its occurrence and the time of the check that fell due, so every       *)
(* message of one check has the same key.                                    *)
(*                                                                         *)
(* Time is an order of events: a lease lapses, a row falls due, a day ends.  *)
(* A token is current while its message is marked "held"; queued messages    *)
(* that agree in every field are one.                                        *)
(***************************************************************************)
EXTENDS Integers, FiniteSets

CONSTANTS
  Occurrences,    \* postings of the catalog, each on the page of one source
  Urls,           \* application pages a posting may point to
  BatchSize,      \* max_batch_size of the queue, 5
  MaxReceives,    \* deliveries before the dead-letter queue, 3
  MaxMessages,    \* bound: no lease lapses and no check falls due over that many messages
  MaxEvents       \* bound: changes of the catalog, requests of the poll, pages that do not
                  \* load, calls that fail and runs that die

ASSUME ScheduleAssumption ==
  /\ IsFiniteSet(Occurrences) /\ Urls # {}
  /\ BatchSize \in Nat \ {0} /\ MaxReceives \in Nat \ {0}
  /\ MaxMessages \in Nat \ {0} /\ MaxEvents \in Nat

VARIABLES
  catalog,     \* the reference of each posting, with what was last seen of its page
  row,         \* destination_verification_schedule
  messages,    \* messages being sent, queued, delayed or handled
  completed,   \* destination_verification_completions: the keys of each posting
  recent,      \* pages with an attempt of the last twenty-four hours
  cron,        \* the run of enqueueDueDestinationVerifications
  events

store == <<catalog, row, completed, recent>>
vars == <<store, messages, cron, events>>

-----------------------------------------------------------------------------
Checks == Nat \ {0}
NoRow == [present |-> FALSE]
Reference == [url: Urls, state: {"open", "closed", "moved"}, visible: BOOLEAN, extracted: BOOLEAN]
Row == [present: {TRUE}, url: Urls, check: Checks, due: BOOLEAN, leased: BOOLEAN,
        stamped: BOOLEAN]
Message == [occ: Occurrences, url: Urls, check: Nat, lease: {"held", "lost", "none"},
            answered: BOOLEAN, tries: 0..MaxReceives,
            outcome: {"none", "seen", "gone", "failed"},
            at: {"cron", "queue", "day", "overtaken", "screen", "pending", "again",
                 "visited", "persisted", "recorded", "completed"}]
Due == [occ: Occurrences, url: Urls, check: Checks]
Run == [pc: {"idle", "sync", "select", "lease"}, page: SUBSET [occ: Occurrences, url: Urls],
        due: SUBSET Due, seen: SUBSET Occurrences]
Idle == [pc |-> "idle", page |-> {}, due |-> {}, seen |-> {}]

Init ==
  /\ catalog \in [Occurrences -> {[url |-> u, state |-> "open", visible |-> TRUE, extracted |-> b]
                                    : u \in Urls, b \in BOOLEAN}]
  /\ row = [o \in Occurrences |-> NoRow]
  /\ messages = {} /\ completed = [o \in Occurrences |-> {}]
  /\ recent = [o \in Occurrences |-> {}]
  /\ cron = Idle /\ events = 0

Of(o) == {m \in messages : m.occ = o}
Room(o) == Cardinality(Of(o)) < MaxMessages
At(place) == {m \in messages : m.at \in place}
Handling == {"visited", "persisted", "recorded", "completed"}
Chosen == {"pending", "again"}
InBatch == {"screen"} \cup Chosen \cup Handling
Move(m, n) == messages' = (messages \ {m}) \cup {n}
Event == events < MaxEvents /\ events' = events + 1

\* A time later than every other: a check time that nothing refers to. Times are numbered
\* as they are needed, so that few are told apart at once.
Used(o, S) == (IF row[o].present THEN {row[o].check} ELSE {})
  \cup {m.check : m \in {n \in S : n.occ = o}} \cup {d.check : d \in {x \in cron.due : x.occ = o}}
Fresh(o) ==
  CHOOSE c \in 1..(Cardinality(Used(o, messages)) + 1) : c \notin Used(o, messages)
Forget(o) == completed' = [completed EXCEPT ![o] = completed[o] \ {Fresh(o)}]

\* The row's token is cleared or replaced: the message that had it no longer matches.
Lose(S, o) ==
  {IF m.occ = o /\ m.lease = "held" THEN [m EXCEPT !.lease = "lost"] ELSE m : m \in S}

-----------------------------------------------------------------------------
(* The catalog and time *)

\* A poll points the posting to another page, closes it, opens it or moves it, or extracts its
\* metadata. The merged reference keeps an extraction, of whatever page, unless it was moved.
CatalogChanges(o) ==
  /\ Event
  /\ \E u \in Urls, s \in {"open", "closed", "moved"}, extracted \in BOOLEAN :
       /\ catalog[o].extracted /\ catalog[o].state # "moved" => extracted
       /\ catalog' = [catalog EXCEPT ![o] = [url |-> u, state |-> s, extracted |-> extracted,
                        visible |-> catalog[o].visible /\ catalog[o].url = u]]
       /\ catalog' # catalog
       /\ messages' = {[m EXCEPT !.answered = m.answered /\ (m.occ = o => catalog[o].url = u)]
                         : m \in messages}
  /\ UNCHANGED <<row, completed, recent, cron>>

\* The poll asks for a check outside the schedule: no key, no token.
Request(o) ==
  /\ catalog[o].state = "open" /\ Room(o) /\ Event
  /\ messages' = messages \cup
       {[occ |-> o, url |-> catalog[o].url, check |-> 0, lease |-> "none", answered |-> FALSE,
         tries |-> 0, outcome |-> "none", at |-> "queue"]}
  /\ UNCHANGED <<store, cron>>

FallsDue(o) ==
  /\ row[o].present /\ ~row[o].due /\ Room(o)
  /\ row' = [row EXCEPT ![o].due = TRUE]
  /\ UNCHANGED <<catalog, completed, recent, messages, cron, events>>

\* Fifteen minutes end; a deferred lease lasts an hour longer than the delay of its message.
Deferred(o) == \E m \in Of(o) : m.lease = "held" /\ m.at \in {"day", "overtaken"}
LeaseLapses(o) ==
  /\ row[o].present /\ row[o].leased /\ ~Deferred(o) /\ Room(o)
  /\ row' = [row EXCEPT ![o].leased = FALSE]
  /\ UNCHANGED <<catalog, completed, recent, messages, cron, events>>

DayEnds(o, u) ==
  /\ u \in recent[o]
  /\ recent' = [recent EXCEPT ![o] = recent[o] \ {u}]
  /\ UNCHANGED <<catalog, row, completed, messages, cron, events>>

\* The delay of a transient failure starts after its attempt and lasts as long.
DelayEnds(m) ==
  /\ m.at = "overtaken" \/ (m.at = "day" /\ m.url \notin recent[m.occ])
  /\ Move(m, [m EXCEPT !.at = "queue"])
  /\ UNCHANGED <<store, cron, events>>

-----------------------------------------------------------------------------
(* enqueueDueDestinationVerifications, every ten minutes *)

\* syncVerificationSchedule: the pages of one generation are read and written as one.
SyncRead ==
  /\ cron.pc = "idle"
  /\ cron' = [cron EXCEPT !.pc = "sync",
       !.page = {[occ |-> o, url |-> catalog[o].url]
                   : o \in {x \in Occurrences : catalog[x].state = "open"}}]
  /\ UNCHANGED <<store, messages, events>>

NewRowUntimed(o, u, due) ==
  [present |-> TRUE, url |-> u, check |-> 0, due |-> due, leased |-> FALSE, stamped |-> TRUE]
NewRow(o, u, due) ==
  [present |-> TRUE, url |-> u, check |-> Fresh(o), due |-> due, leased |-> FALSE, stamped |-> TRUE]
Redirects(p) == row[p.occ].present /\ row[p.occ].url # p.url
UpsertedKeepsTime(p, due) ==
  IF row[p.occ].present THEN [row[p.occ] EXCEPT !.url = p.url, !.stamped = TRUE]
  ELSE NewRow(p.occ, p.url, due)
\* ON CONFLICT: another page clears the lease and is due at once.
Upserted(p, due) ==
  IF row[p.occ].present /\ row[p.occ].url = p.url THEN [row[p.occ] EXCEPT !.stamped = TRUE]
  ELSE NewRow(p.occ, p.url, due \/ row[p.occ].present)
\* A new row starts at the time kept in the reference, which a check may have settled before.
SettledBefore(o) == completed' = [completed EXCEPT ![o] = completed[o] \cup {Fresh(o)}]

\* The batch of upserts.
SyncWrite(p) ==
  /\ cron.pc = "sync" /\ p \in cron.page
  /\ cron' = [cron EXCEPT !.page = cron.page \ {p}]
  /\ \E due \in BOOLEAN : row' = [row EXCEPT ![p.occ] = Upserted(p, due)]
  /\ messages' = IF Redirects(p) THEN Lose(messages, p.occ) ELSE messages
  /\ \/ ~row[p.occ].present /\ SettledBefore(p.occ)
     \/ (~row[p.occ].present \/ Redirects(p)) /\ Forget(p.occ)
     \/ row[p.occ].present /\ ~Redirects(p) /\ UNCHANGED completed
  /\ UNCHANGED <<catalog, recent, events>>

\* The end of a generation: rows it did not touch are deleted, with their tokens.
SyncPrune ==
  /\ cron.pc = "sync" /\ cron.page = {}
  /\ row' = [o \in Occurrences |->
       IF row[o].present /\ row[o].stamped THEN [row[o] EXCEPT !.stamped = FALSE] ELSE NoRow]
  /\ messages' = {IF row'[m.occ].present \/ m.lease # "held" THEN m
                  ELSE [m EXCEPT !.lease = "lost"] : m \in messages}
  /\ cron' = [cron EXCEPT !.pc = "select"]
  /\ UNCHANGED <<catalog, completed, recent, events>>

\* leaseDueVerifications: the rows it reads, then a guarded update of each.
SelectDue ==
  /\ cron.pc = "select"
  /\ cron' = [cron EXCEPT !.pc = "lease",
       !.due = {[occ |-> o, url |-> row[o].url, check |-> row[o].check]
                  : o \in {x \in Occurrences : row[x].present /\ row[x].due /\ ~row[x].leased}}]
  /\ UNCHANGED <<store, messages, events>>

Lease(d) ==
  /\ cron.pc = "lease" /\ d \in cron.due
  /\ cron' = [cron EXCEPT !.due = cron.due \ {d}]
  /\ IF row[d.occ].present /\ ~row[d.occ].leased
     THEN /\ row' = [row EXCEPT ![d.occ].leased = TRUE]
          /\ messages' = Lose(messages, d.occ) \cup
               {[occ |-> d.occ, url |-> d.url, check |-> d.check, lease |-> "held",
                 answered |-> d.occ \in cron.seen, tries |-> 0,
                 outcome |-> "none", at |-> "cron"]}
     ELSE UNCHANGED <<row, messages>>
  /\ UNCHANGED <<catalog, completed, recent, events>>

Send(m) ==
  /\ cron.pc = "lease" /\ cron.due = {} /\ m.at = "cron"
  /\ Move(m, [m EXCEPT !.at = "queue"])
  /\ UNCHANGED <<store, cron, events>>

CronEnds ==
  /\ cron.pc = "lease" /\ cron.due = {} /\ At({"cron"}) = {}
  /\ cron' = Idle
  /\ UNCHANGED <<store, messages, events>>

CronStops ==
  /\ cron.pc # "idle" /\ Event
  /\ cron' = Idle /\ messages' = messages \ At({"cron"})
  /\ UNCHANGED store

-----------------------------------------------------------------------------
(* processDestinationVerificationBatch: one invocation at a time *)

Working == At(Handling) # {}
Handled(m) ==
  CASE m.at = "screen" -> ~Working
    [] m.at \in Chosen -> ~Working /\ At({"screen"}) = {}
    [] OTHER -> m.at \in Handling

TakeBatch ==
  /\ At(InBatch) = {}
  /\ \E S \in SUBSET At({"queue"}) \ {{}} :
       /\ Cardinality(S) <= BatchSize
       /\ messages' = (messages \ S) \cup {[m EXCEPT !.at = "screen", !.tries = m.tries + 1] : m \in S}
  /\ UNCHANGED <<store, cron, events>>

Acknowledge(m) == messages' = messages \ {m} /\ UNCHANGED <<row, completed>>

\* completeScheduledVerification, under the token: the message then has no lease.
Complete(m, due) ==
  /\ row' = IF m.lease # "held" THEN row
            ELSE [row EXCEPT ![m.occ] = [row[m.occ] EXCEPT
                    !.check = Fresh(m.occ), !.due = due, !.leased = FALSE]]
  /\ Forget(m.occ)
  /\ Move(m, [m EXCEPT !.at = "completed", !.lease = "lost", !.outcome = "none"])

\* settleWithoutVerification: the schedule now, the key and the acknowledgement next.
Settle(m, due) == IF m.lease = "none" THEN Acknowledge(m) ELSE Complete(m, due)

Done(m) == m.check # 0 /\ m.check \in completed[m.occ]
Obsolete(m) == catalog[m.occ].url # m.url
\* metadataExtractionCurrent: until it holds, neither an answer nor an attempt spares a visit.
Current(m) == catalog[m.occ].extracted
Answered(m) == m.answered /\ Current(m)
\* What both passes look at before a page is visited.
Answer(m) ==
  \/ (Done(m) \/ catalog[m.occ].state = "moved") /\ Acknowledge(m)
  \/ /\ ~Done(m) /\ catalog[m.occ].state # "moved" /\ Obsolete(m)
     /\ Settle(m, TRUE)
  \/ /\ ~Done(m) /\ catalog[m.occ].state # "moved" /\ ~Obsolete(m) /\ Answered(m)
     /\ Settle(m, FALSE)
Open(m) == ~Done(m) /\ catalog[m.occ].state # "moved" /\ ~Obsolete(m) /\ ~Answered(m)

\* First pass: messages of one page are duplicates, and a page is left alone for a day once its
\* metadata are there. The code has one list of what it has chosen; a message that was chosen
\* although the page had its attempt is "again" here.
SamePageIgnored(m) == {}
SamePage(m) == {n \in Of(m.occ) : n.at \in Chosen /\ n.url = m.url}
Screen(m) ==
  /\ m.at = "screen" /\ Handled(m)
  /\ \/ Answer(m)
     \/ Open(m) /\ SamePage(m) # {} /\ Acknowledge(m)
     \/ /\ Open(m) /\ SamePage(m) = {} /\ Current(m) /\ m.url \in recent[m.occ]
        /\ Settle(m, FALSE)
     \/ /\ Open(m) /\ SamePage(m) = {} /\ UNCHANGED <<row, completed>>
        /\ \/ m.url \notin recent[m.occ] /\ Move(m, [m EXCEPT !.at = "pending"])
           \/ ~Current(m) /\ m.url \in recent[m.occ] /\ Move(m, [m EXCEPT !.at = "again"])
  /\ UNCHANGED <<catalog, recent, cron, events>>

\* Second pass: look again, then visit the page.
Visit(m) ==
  /\ m.at \in Chosen /\ Handled(m)
  /\ \/ Answer(m) /\ UNCHANGED events
     \/ /\ Open(m) /\ UNCHANGED <<row, completed>>
        /\ \E outcome \in {"seen", "gone", "failed"} :
             /\ IF outcome = "failed" THEN Event ELSE UNCHANGED events
             /\ Move(m, [m EXCEPT !.at = "visited", !.outcome = outcome])
  /\ UNCHANGED <<catalog, recent, cron>>

\* A complete page, or an artifact of the provider's API, brings the metadata; else the
\* reference keeps what it has.
Enriched(r, acquired) == [r EXCEPT !.extracted = r.extracted \/ acquired]
\* The reference is read again, and persistDestinationAdmission writes it if it is unchanged.
Persist(m) ==
  /\ m.at = "visited"
  /\ LET o == m.occ
         seen == m.outcome = "seen"
     IN \/ /\ catalog[o].state = "moved" \/ Obsolete(m)
           /\ Settle(m, TRUE) /\ UNCHANGED <<catalog, cron>>
        \/ /\ catalog[o].state # "moved" /\ ~Obsolete(m)
           /\ \E acquired \in BOOLEAN :
                catalog' = [catalog EXCEPT ![o] = Enriched([catalog[o] EXCEPT !.visible = seen], acquired)]
           /\ messages' = {IF n = m THEN [m EXCEPT !.at = "persisted", !.answered = seen]
                           ELSE IF n.occ = o THEN [n EXCEPT !.answered = seen /\ n.url = m.url]
                           ELSE n : n \in messages}
           /\ cron' = [cron EXCEPT !.seen = IF seen /\ cron.pc # "idle" THEN cron.seen \cup {o}
                                            ELSE cron.seen \ {o}]
           /\ UNCHANGED <<row, completed>>
  /\ UNCHANGED <<recent, events>>

\* recordVerificationAttempt
Record(m) ==
  /\ m.at = "persisted"
  /\ recent' = [recent EXCEPT ![m.occ] = recent[m.occ] \cup {m.url}]
  /\ messages' = {IF n = m THEN [m EXCEPT !.at = "recorded"]
                  ELSE IF n.occ = m.occ /\ n.url = m.url /\ n.at = "day"
                  THEN [n EXCEPT !.at = "overtaken"] ELSE n : n \in messages}
  /\ UNCHANGED <<catalog, row, completed, cron, events>>

\* A message handed back: the queue gives it up after MaxReceives deliveries.
Retried(m, place) ==
  IF m.tries = MaxReceives THEN {}
  ELSE {[m EXCEPT !.at = place, !.outcome = "none"]}

\* deferScheduledVerificationRetry and a retry in a day, or completeScheduledVerification.
ExtendedNot(m) == row
Extended(m) == IF m.lease = "held" THEN [row EXCEPT ![m.occ].leased = TRUE] ELSE row
Defer(m) ==
  /\ m.outcome = "failed"
  /\ messages' = (messages \ {m}) \cup Retried(m, "day")
  /\ row' = Extended(m)
CompleteVisit(m) ==
  /\ m.at = "recorded"
  /\ \/ Defer(m) /\ UNCHANGED completed
     \/ m.outcome # "failed" /\ m.lease = "none" /\ Acknowledge(m)
     \/ m.outcome # "failed" /\ m.lease # "none" /\ Complete(m, FALSE)
  /\ UNCHANGED <<catalog, recent, cron, events>>

\* recordVerificationCompletion and the acknowledgement
RecordCompletion(m) ==
  /\ m.at = "completed"
  /\ messages' = messages \ {m}
  /\ completed' = [completed EXCEPT ![m.occ] =
       (completed[m.occ] \cup {m.check}) \cap Used(m.occ, messages')]
  /\ UNCHANGED <<catalog, row, recent, cron, events>>

\* A call throws: the message is tried again in five minutes.
Fail(m) ==
  /\ m.at \in InBatch /\ Handled(m) /\ Event
  /\ messages' = (messages \ {m}) \cup Retried(m, "queue")
  /\ UNCHANGED <<store, cron>>

\* The invocation dies: the queue delivers the whole batch again.
RunStops ==
  /\ At(InBatch) # {} /\ Event
  /\ messages' = (messages \ At(InBatch)) \cup UNION {Retried(m, "queue") : m \in At(InBatch)}
  /\ UNCHANGED <<store, cron>>

-----------------------------------------------------------------------------
Cron ==
  \/ SyncRead \/ SyncPrune \/ SelectDue \/ CronEnds
  \/ \E p \in cron.page : SyncWrite(p)
  \/ \E d \in cron.due : Lease(d)
  \/ \E m \in messages : Send(m)
Consumer ==
  \/ TakeBatch
  \/ \E m \in messages :
       Screen(m) \/ Visit(m) \/ Persist(m) \/ Record(m) \/ CompleteVisit(m) \/ RecordCompletion(m)
Next ==
  \/ Cron \/ CronStops \/ Consumer \/ RunStops
  \/ \E o \in Occurrences : CatalogChanges(o) \/ Request(o) \/ FallsDue(o) \/ LeaseLapses(o)
                            \/ \E u \in Urls : DayEnds(o, u)
  \/ \E m \in messages : DelayEnds(m) \/ Fail(m)

Spec == Init /\ [][Next]_vars

\* The cron and the consumer run again and again, the queue serves every message, time passes.
ScheduleFairness ==
  /\ WF_vars(Cron) /\ WF_vars(Consumer)
  /\ \A o \in Occurrences :
       /\ SF_vars(TakeBatch /\ \E m \in Of(o) : m.at = "queue" /\ m \notin messages')
       /\ WF_vars(FallsDue(o)) /\ WF_vars(LeaseLapses(o))
       /\ WF_vars(\E m \in Of(o) : DelayEnds(m))
       /\ \A u \in Urls : WF_vars(DayEnds(o, u))
FairSpec == Spec /\ ScheduleFairness

-----------------------------------------------------------------------------
TypeOK ==
  /\ catalog \in [Occurrences -> Reference]
  /\ row \in [Occurrences -> {NoRow} \cup Row]
  /\ messages \subseteq Message
  /\ completed \in [Occurrences -> SUBSET Checks] /\ recent \in [Occurrences -> SUBSET Urls]
  /\ cron \in Run
  /\ events \in 0..MaxEvents

\* While a posting waits out the day of a transient failure under its lease, the row stays
\* leased: the cron does not hand the same check out a second time
\* (deferScheduledVerificationRetry against leaseDueVerifications).
RetryOwnsLease == \A o \in Occurrences : Deferred(o) => row[o].present /\ row[o].leased

\* A batch visits a page once, whatever messages of it the schedule, the poll and the retries
\* of the queue bring together; and it visits a page within a day of an attempt only for
\* metadata that nobody had extracted when the message was screened.
Standing(o, u, place, S) == \E m \in S : m.occ = o /\ m.url = u /\ m.at = place
Begins(o, u, place) == Standing(o, u, place, messages') /\ ~Standing(o, u, place, messages)
RevisitedForMetadata ==
  [][\A o \in Occurrences, u \in Urls :
       /\ Begins(o, u, "visited") =>
            /\ \A place \in Chosen : ~Standing(o, u, place, messages')
            /\ u \in recent[o] => Standing(o, u, "again", messages)
       /\ Begins(o, u, "again") => ~catalog[o].extracted]_vars


\* A posting points to another page than its row, which is not one that the sweep has passed
\* over and deletes next.
Redirected(o, u) ==
  /\ catalog[o].state = "open" /\ catalog[o].url = u
  /\ row[o].present /\ row[o].url # u
  /\ cron.pc = "sync" => row[o].stamped \/ \E p \in cron.page : p.occ = o
Attended(o, u) ==
  u \in recent[o] \/ catalog[o].visible \/ catalog[o].url # u \/ catalog[o].state # "open"

=============================================================================
