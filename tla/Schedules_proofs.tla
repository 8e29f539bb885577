-------------------------- MODULE Schedules_proofs --------------------------
(***************************************************************************)
(* The two schedules by which the system looks again at what it knows: the   *)
(* recurring check of application pages (VerificationSchedule), and the        *)
(* recurring poll of a source under its health row (SourceControl, in the     *)
(* second half). They share no variable and no theorem.                       *)
(*                                                                         *)
(* Pages, for any number of postings, pages, messages and retries. The        *)
(* invariant says who has the token of a row: one message of the posting at   *)
(* most, and while it waits out a day the row is leased; and what the first   *)
(* pass of the consumer has left for the second: one message for a page, and   *)
(* no page with an attempt, unless its metadata were not extracted.           *)
(***************************************************************************)
EXTENDS VerificationSchedule, SourceControl, TLAPS, FiniteSetTheorems

Waiting == {"cron", "queue", "day", "overtaken"}
Started == Chosen \cup {"visited", "persisted"}

MessageOK(m, rows, attempts) ==
  /\ m.at \in Waiting => m.tries < MaxReceives
  /\ m.lease = "none" <=> m.check = 0
  /\ m.at = "completed" => m.lease = "lost"
  /\ m.lease = "held" => rows[m.occ].present
  /\ m.lease = "held" /\ m.at \in {"day", "overtaken"} => rows[m.occ].leased
  /\ m.at = "pending" => m.url \notin attempts[m.occ]

PairOK(m, n) == m.occ = n.occ =>
  /\ m.lease = "held" /\ n.lease = "held" => m = n
  /\ m.at \in Chosen /\ n.at \in Started /\ m.url = n.url => m = n

MessagesOK(S, rows, attempts) ==
  /\ S \subseteq Message /\ IsFiniteSet(S)
  /\ \A m \in S : MessageOK(m, rows, attempts)
  /\ \A m, n \in S : PairOK(m, n)

IInv == TypeOK /\ IsFiniteSet(cron.due) /\ MessagesOK(messages, row, recent)

-----------------------------------------------------------------------------
(* Finite sets, and the time of the next check.                             *)

LEMMA ImageFinite ==
  ASSUME NEW S, IsFiniteSet(S), NEW V, NEW f \in [S -> V]
  PROVE  IsFiniteSet({f[x] : x \in S})
<1> DEFINE T == {f[x] : x \in S}
<1>1. f \in Surjection(S, T) BY DEF Surjection
<1> HIDE DEF T
<1>2. IsFiniteSet(T) BY <1>1, FS_Surjection
<1> QED BY <1>2 DEF T

LEMMA ChecksFinite ==
  ASSUME NEW S, IsFiniteSet(S) PROVE IsFiniteSet({m.check : m \in S})
<1> DEFINE V == {m.check : m \in S}
<1>1. PICK f : f = [m \in S |-> m.check] OBVIOUS
<1>2. f \in [S -> V] BY <1>1
<1>3. V = {f[m] : m \in S} BY <1>1
<1> HIDE DEF V
<1>4. IsFiniteSet({f[m] : m \in S}) BY ONLY IsFiniteSet(S), <1>2, ImageFinite
<1>5. IsFiniteSet(V) BY <1>3, <1>4
<1> QED BY <1>5 DEF V

LEMMA UsedFinite ==
  ASSUME IInv, NEW o PROVE IsFiniteSet(Used(o, messages))
<1> DEFINE A == {n \in messages : n.occ = o}
           B == {x \in cron.due : x.occ = o}
           C == IF row[o].present THEN {row[o].check} ELSE {}
<1>1. IsFiniteSet(A) /\ IsFiniteSet(B) BY FS_Subset DEF IInv, MessagesOK
<1>2. IsFiniteSet(C) BY FS_EmptySet, FS_Singleton
<1>3. Used(o, messages) = (C \cup {m.check : m \in A}) \cup {d.check : d \in B} BY DEF Used
<1> HIDE DEF A, B, C
<1>4. IsFiniteSet({m.check : m \in A}) /\ IsFiniteSet({d.check : d \in B}) BY <1>1, ChecksFinite
<1>5. IsFiniteSet(C \cup {m.check : m \in A}) BY <1>2, <1>4, FS_Union
<1>6. IsFiniteSet((C \cup {m.check : m \in A}) \cup {d.check : d \in B}) BY <1>4, <1>5, FS_Union
<1> QED BY <1>3, <1>6

\* The next check gets a time, and it is one that no row, no message and no run of the cron
\* has: the key of another check is never taken for its key.
LEMMA FreshIsFree ==
  ASSUME IInv, NEW o PROVE Fresh(o) \in Checks /\ Fresh(o) \notin Used(o, messages)
<1> DEFINE U == Used(o, messages)
           n == Cardinality(U)
<1>1. IsFiniteSet(U) /\ n \in Nat BY UsedFinite, FS_CardinalityType
<1> HIDE DEF U
<1>2. IsFiniteSet(1..(n + 1)) /\ Cardinality(1..(n + 1)) = n + 1
  <2>1. n + 1 \in Int /\ 1 \in Int /\ ~(1 > n + 1) /\ (n + 1) - 1 + 1 = n + 1 BY <1>1
  <2> HIDE DEF n
  <2> QED BY <2>1, FS_Interval
<1>3. ~(1..(n + 1) \subseteq U)
  <2>1. 1..(n + 1) \subseteq U => Cardinality(1..(n + 1)) <= Cardinality(U) BY <1>1, FS_Subset
  <2> QED BY <1>1, <1>2, <2>1
<1>4. \E c \in 1..(n + 1) : c \notin U BY <1>3
<1>5. Fresh(o) \in 1..(n + 1) /\ Fresh(o) \notin U BY <1>4 DEF Fresh, U
<1> QED BY <1>1, <1>5 DEF Checks, U

-----------------------------------------------------------------------------
(* Sets of messages.                                                        *)

\* A message goes on as another: what it claims it claimed before.
Follows(m, n) ==
  /\ n.occ = m.occ /\ n.url = m.url
  /\ n.lease = "held" => m.lease = "held"
  /\ n.at \in Chosen => m.at \in Chosen
  /\ n.at \in Started => m.at \in Started

LEMMA Mapped ==
  ASSUME NEW S, NEW rows, NEW attempts, MessagesOK(S, rows, attempts),
         NEW f \in [S -> Message], NEW T, T \subseteq {f[m] : m \in S},
         NEW rows2, NEW attempts2,
         \A m \in S : Follows(m, f[m]) /\ MessageOK(f[m], rows2, attempts2)
  PROVE  MessagesOK(T, rows2, attempts2)
<1>1. IsFiniteSet({f[m] : m \in S}) BY ImageFinite DEF MessagesOK
<1>2. IsFiniteSet(T) BY <1>1, FS_Subset
<1>3. T \subseteq Message /\ \A n \in T : MessageOK(n, rows2, attempts2) OBVIOUS
<1>4. ASSUME NEW a \in T, NEW b \in T PROVE PairOK(a, b)
  <2>1. PICK m \in S, n \in S : a = f[m] /\ b = f[n] OBVIOUS
  <2>2. PairOK(m, n) /\ Follows(m, a) /\ Follows(n, b) BY <2>1 DEF MessagesOK
  <2> QED BY <2>1, <2>2 DEF PairOK, Follows, Started, Chosen
<1> QED BY <1>2, <1>3, <1>4 DEF MessagesOK

LEMMA OneMoves ==
  ASSUME NEW S, NEW rows, NEW attempts, MessagesOK(S, rows, attempts),
         NEW m \in S, NEW n \in Message, Follows(m, n), NEW T, T \subseteq (S \ {m}) \cup {n},
         NEW rows2, NEW attempts2, MessageOK(n, rows2, attempts2),
         \A k \in S \ {m} : MessageOK(k, rows2, attempts2)
  PROVE  MessagesOK(T, rows2, attempts2)
<1>1. PICK f : f = [k \in S |-> IF k = m THEN n ELSE k] OBVIOUS
<1>2. f \in [S -> Message] BY <1>1 DEF MessagesOK
<1>3. T \subseteq {f[k] : k \in S}
  <2>1. ASSUME NEW t \in T PROVE \E k \in S : t = f[k]
    <3>1. CASE t = n BY <1>1, <3>1
    <3>2. CASE t \in S \ {m} BY <1>1, <3>2
    <3> QED BY <3>1, <3>2
  <2> QED BY <2>1
<1>4. \A k \in S : Follows(k, f[k]) /\ MessageOK(f[k], rows2, attempts2)
  BY <1>1 DEF Follows
<1> QED BY <1>2, <1>3, <1>4, Mapped

LEMMA Fewer ==
  ASSUME NEW S, NEW rows, NEW attempts, MessagesOK(S, rows, attempts), NEW T, T \subseteq S,
         NEW rows2, NEW attempts2, \A k \in S : MessageOK(k, rows2, attempts2)
  PROVE  MessagesOK(T, rows2, attempts2)
<1>1. IsFiniteSet(T) BY FS_Subset DEF MessagesOK
<1> QED BY <1>1 DEF MessagesOK

LEMMA Added ==
  ASSUME NEW S, NEW rows, NEW attempts, MessagesOK(S, rows, attempts),
         NEW m \in Message, MessageOK(m, rows, attempts),
         \A k \in S : PairOK(k, m) /\ PairOK(m, k)
  PROVE  MessagesOK(S \cup {m}, rows, attempts)
<1>1. IsFiniteSet(S \cup {m}) BY FS_AddElement DEF MessagesOK
<1>2. PairOK(m, m) BY DEF PairOK
<1> QED BY <1>1, <1>2 DEF MessagesOK

\* The token of a row is lost: the row may change, and a message with a new token may follow.
LEMMA Lost ==
  ASSUME NEW S, NEW rows, NEW attempts, MessagesOK(S, rows, attempts), NEW o, NEW rows2,
         \A x \in Occurrences : x # o => rows2[x] = rows[x]
  PROVE  /\ MessagesOK(Lose(S, o), rows2, attempts)
         /\ \A k \in Lose(S, o) : k.occ = o => k.lease # "held"
<1>1. PICK f : f = [m \in S |-> IF m.occ = o /\ m.lease = "held" THEN [m EXCEPT !.lease = "lost"] ELSE m]
  OBVIOUS
<1>2. \A m \in S : [m EXCEPT !.lease = "lost"] \in Message BY DEF MessagesOK, Message
<1>3. f \in [S -> Message] BY <1>1, <1>2 DEF MessagesOK
<1>4. Lose(S, o) = {f[m] : m \in S} BY <1>1 DEF Lose
<1>5. ASSUME NEW m \in S
      PROVE  Follows(m, f[m]) /\ MessageOK(f[m], rows2, attempts) /\ (f[m].occ = o => f[m].lease # "held")
  <2>1. m \in Message /\ MessageOK(m, rows, attempts) BY DEF MessagesOK
  <2>2. CASE m.occ = o /\ m.lease = "held"
    <3>1. f[m] = [m EXCEPT !.lease = "lost"] BY <1>1, <2>2
    <3> QED BY <2>1, <2>2, <3>1 DEF Follows, MessageOK, Message, Waiting
  <2>3. CASE ~(m.occ = o /\ m.lease = "held")
    <3>1. f[m] = m BY <1>1, <2>3
    <3> QED BY <2>1, <2>3, <3>1 DEF Follows, MessageOK, Message, Waiting
  <2> QED BY <2>2, <2>3
<1> QED BY <1>3, <1>4, <1>5, Mapped

-----------------------------------------------------------------------------
(* Each action preserves the invariant.                                     *)

\* What the types say of a message and of its row.
LEMMA Typed ==
  ASSUME IInv
  PROVE  /\ \A m \in messages : m \in Message /\ m.occ \in Occurrences /\ MessageOK(m, row, recent)
         /\ \A o \in Occurrences : row[o].present => row[o] \in Row
  BY DEF IInv, TypeOK, MessagesOK, Message, NoRow

LEMMA NothingMoves ==
  ASSUME IInv, messages' \subseteq messages, row' = row, recent' = recent
  PROVE  MessagesOK(messages', row', recent')
<1>1. \A m \in messages : MessageOK(m, row, recent) BY Typed
<1> QED BY <1>1, Fewer DEF IInv

LEMMA InitOK == ASSUME Init PROVE IInv
<1>1. IsFiniteSet({}) BY FS_EmptySet
<1>2. TypeOK
  <2>1. catalog \in [Occurrences -> Reference]
    <3>1. \A u \in Urls, b \in BOOLEAN :
            [url |-> u, state |-> "open", visible |-> TRUE, extracted |-> b] \in Reference
      BY DEF Reference
    <3> QED BY <3>1 DEF Init
  <2>2. row \in [Occurrences -> {NoRow} \cup Row] /\ messages \subseteq Message BY DEF Init
  <2>3. completed \in [Occurrences -> SUBSET Checks] /\ recent \in [Occurrences -> SUBSET Urls]
    BY DEF Init
  <2>4. cron \in Run
    BY DEF Init, Idle, Run
  <2>5. events \in 0..MaxEvents BY ScheduleAssumption DEF Init, ScheduleAssumption
  <2> QED BY <2>1, <2>2, <2>3, <2>4, <2>5 DEF TypeOK
<1> QED BY <1>1, <1>2 DEF Init, IInv, MessagesOK, Idle

\* The run of the cron reads the catalog or the schedule, ends or dies.
LEMMA CronReads == ASSUME IInv, SyncRead \/ SelectDue \/ CronEnds \/ CronStops PROVE IInv'
<1>0. messages' \subseteq messages /\ UNCHANGED store
  BY DEF SyncRead, SelectDue, CronEnds, CronStops, store, At
<1>1. MessagesOK(messages', row', recent') BY <1>0, NothingMoves DEF store
<1>2. events' \in 0..MaxEvents
  BY ScheduleAssumption
  DEF IInv, TypeOK, SyncRead, SelectDue, CronEnds, CronStops, Event, ScheduleAssumption
<1>3. cron' \in Run /\ IsFiniteSet(cron'.due)
  <2>1. CASE SyncRead
    <3> DEFINE page == {[occ |-> o, url |-> catalog[o].url]
                          : o \in {x \in Occurrences : catalog[x].state = "open"}}
    <3>1. page \subseteq [occ: Occurrences, url: Urls] BY DEF IInv, TypeOK, Reference
    <3>2. cron' = [cron EXCEPT !.pc = "sync", !.page = page] BY <2>1 DEF SyncRead
    <3> HIDE DEF page
    <3> QED BY <3>1, <3>2 DEF IInv, TypeOK, Run
  <2>2. CASE SelectDue
    <3> DEFINE S == {x \in Occurrences : row[x].present /\ row[x].due /\ ~row[x].leased}
               due == {[occ |-> o, url |-> row[o].url, check |-> row[o].check] : o \in S}
    <3>1. \A o \in S : row[o] \in Row BY Typed
    <3>2. due \subseteq Due
      <4>1. \A o \in S : o \in Occurrences /\ row[o].url \in Urls /\ row[o].check \in Checks
        BY <3>1 DEF Row
      <4> QED BY <4>1 DEF Due
    <3>3. IsFiniteSet(S) BY ScheduleAssumption, FS_Subset DEF ScheduleAssumption
    <3>4. PICK f : f = [o \in S |-> [occ |-> o, url |-> row[o].url, check |-> row[o].check]] OBVIOUS
    <3>5. f \in [S -> due] BY <3>4
    <3>6. due = {f[o] : o \in S} BY <3>4
    <3>7. cron' = [cron EXCEPT !.pc = "lease", !.due = due] BY <2>2 DEF SelectDue
    <3> HIDE DEF S, due
    <3>8. IsFiniteSet({f[o] : o \in S}) BY ONLY <3>3, <3>5, ImageFinite
    <3>9. IsFiniteSet(due) BY <3>6, <3>8
    <3> QED BY <3>2, <3>7, <3>9 DEF IInv, TypeOK, Run
  <2>3. CASE CronEnds \/ CronStops
    <3>1. cron' = Idle BY <2>3 DEF CronEnds, CronStops
    <3> QED BY <3>1, FS_EmptySet DEF Idle, Run
  <2> QED BY <2>1, <2>2, <2>3
<1> QED BY <1>0, <1>1, <1>2, <1>3 DEF IInv, TypeOK, store, MessagesOK

\* A row falls due, its lease lapses while no retry owns it, a day ends.
LEMMA TimePasses ==
  ASSUME IInv, NEW o \in Occurrences, FallsDue(o) \/ LeaseLapses(o) \/ \E u \in Urls : DayEnds(o, u)
  PROVE  IInv'
<1>1. messages' = messages /\ catalog' = catalog /\ completed' = completed /\ cron' = cron /\ events' = events
  BY DEF FallsDue, LeaseLapses, DayEnds
<1>2. row' \in [Occurrences -> {NoRow} \cup Row] /\ recent' \in [Occurrences -> SUBSET Urls]
  <2>1. CASE FallsDue(o) BY <2>1, Typed DEF FallsDue, Row, IInv, TypeOK
  <2>2. CASE LeaseLapses(o) BY <2>2, Typed DEF LeaseLapses, Row, IInv, TypeOK
  <2>3. CASE \E u \in Urls : DayEnds(o, u) BY <2>3 DEF DayEnds, IInv, TypeOK
  <2> QED BY <2>1, <2>2, <2>3
<1>3. ASSUME NEW m \in messages PROVE MessageOK(m, row', recent')
  <2>1. m \in Message /\ m.occ \in Occurrences /\ MessageOK(m, row, recent)
    BY Typed
  <2>2. CASE FallsDue(o)
    <3>1. row'[m.occ].present = row[m.occ].present /\ row'[m.occ].leased = row[m.occ].leased
      BY <2>1, <2>2, Typed DEF FallsDue, IInv, TypeOK, Row
    <3> QED BY <2>1, <2>2, <3>1 DEF FallsDue, MessageOK
  <2>3. CASE LeaseLapses(o)
    <3>1. row'[m.occ].present = row[m.occ].present
      BY <2>1, <2>3, Typed DEF LeaseLapses, IInv, TypeOK, Row
    <3>2. m.lease = "held" /\ m.at \in {"day", "overtaken"} => row'[m.occ].leased
      BY <2>1, <2>3 DEF LeaseLapses, IInv, TypeOK, Deferred, Of, MessageOK
    <3> QED BY <2>1, <2>3, <3>1, <3>2 DEF LeaseLapses, MessageOK
  <2>4. CASE \E u \in Urls : DayEnds(o, u)
    <3>1. row' = row /\ recent'[m.occ] \subseteq recent[m.occ]
      BY <2>1, <2>4 DEF DayEnds, IInv, TypeOK
    <3> QED BY <2>1, <3>1 DEF MessageOK
  <2> QED BY <2>2, <2>3, <2>4
<1>4. MessagesOK(messages', row', recent') BY <1>1, <1>3, Fewer DEF IInv
<1> QED BY <1>1, <1>2, <1>4 DEF IInv, TypeOK

\* A message may be thought answered or not: nothing else of it changes.
LEMMA AnsweredTyped ==
  ASSUME NEW m \in Message, NEW b \in BOOLEAN
  PROVE  /\ [m EXCEPT !.answered = b] \in Message
         /\ Follows(m, [m EXCEPT !.answered = b])
         /\ \A rows, attempts : MessageOK(m, rows, attempts) => MessageOK([m EXCEPT !.answered = b], rows, attempts)
<1>1. [m EXCEPT !.answered = b] \in Message BY DEF Message
<1>2. /\ [m EXCEPT !.answered = b].occ = m.occ /\ [m EXCEPT !.answered = b].url = m.url
      /\ [m EXCEPT !.answered = b].check = m.check /\ [m EXCEPT !.answered = b].lease = m.lease
      /\ [m EXCEPT !.answered = b].tries = m.tries /\ [m EXCEPT !.answered = b].at = m.at
  BY DEF Message
<1> QED BY <1>1, <1>2 DEF Follows, MessageOK

LEMMA CatalogKeeps == ASSUME IInv, NEW o \in Occurrences, CatalogChanges(o) PROVE IInv'
<1> DEFINE answered(m) == m.answered /\ (m.occ = o => catalog[o].url = catalog'[o].url)
<1>0. PICK u \in Urls, s \in {"open", "closed", "moved"}, e \in BOOLEAN :
        /\ catalog' = [catalog EXCEPT ![o] = [url |-> u, state |-> s, extracted |-> e,
                         visible |-> catalog[o].visible /\ catalog[o].url = u]]
        /\ messages' = {[m EXCEPT !.answered = m.answered /\ (m.occ = o => catalog[o].url = u)]
                          : m \in messages}
  BY Zenon DEF CatalogChanges
<1>1. catalog' \in [Occurrences -> Reference]
  <2>1. (catalog[o].visible /\ catalog[o].url = u) \in BOOLEAN OBVIOUS
  <2>2. PICK b \in BOOLEAN :
          catalog' = [catalog EXCEPT ![o] = [url |-> u, state |-> s, extracted |-> e, visible |-> b]]
    BY <1>0, <2>1
  <2>3. [url |-> u, state |-> s, extracted |-> e, visible |-> b] \in Reference BY DEF Reference
  <2> QED BY <2>2, <2>3 DEF IInv, TypeOK
<1>2. messages' = {[m EXCEPT !.answered = answered(m)] : m \in messages}
  <2>1. catalog'[o].url = u BY <1>0 DEF IInv, TypeOK
  <2> QED BY <1>0, <2>1
<1>3. \A m \in messages : answered(m) \in BOOLEAN OBVIOUS
<1> HIDE DEF answered
<1>4. PICK f : f = [m \in messages |-> [m EXCEPT !.answered = answered(m)]] OBVIOUS
<1>5. /\ f \in [messages -> Message]
      /\ \A m \in messages : Follows(m, f[m]) /\ MessageOK(f[m], row, recent)
  BY <1>3, <1>4, Typed, AnsweredTyped
<1>6. messages' = {f[m] : m \in messages} BY <1>2, <1>4
<1>7. MessagesOK(messages', row, recent) BY <1>5, <1>6, Mapped DEF IInv
<1>8. UNCHANGED <<row, completed, recent, cron>> /\ events' \in 0..MaxEvents
  BY ScheduleAssumption DEF CatalogChanges, Event, IInv, TypeOK, ScheduleAssumption
<1> QED BY <1>1, <1>7, <1>8 DEF IInv, TypeOK, MessagesOK

LEMMA RequestKeeps == ASSUME IInv, NEW o \in Occurrences, Request(o) PROVE IInv'
<1>1. PICK m : m = [occ |-> o, url |-> catalog[o].url, check |-> 0, lease |-> "none", answered |-> FALSE,
                    tries |-> 0, outcome |-> "none", at |-> "queue"]
  OBVIOUS
<1>2. m \in Message /\ MessageOK(m, row, recent)
  BY <1>1, ScheduleAssumption DEF IInv, TypeOK, Reference, Message, MessageOK,
                                  ScheduleAssumption, Waiting
<1>3. \A k \in messages : PairOK(k, m) /\ PairOK(m, k) BY <1>1 DEF PairOK, Started, Chosen
<1>4. messages' = messages \cup {m} BY <1>1 DEF Request
<1>5. MessagesOK(messages', row, recent) BY <1>2, <1>3, <1>4, Added DEF IInv
<1>6. UNCHANGED <<store, cron>> /\ events' \in 0..MaxEvents
  BY ScheduleAssumption DEF Request, Event, IInv, TypeOK, ScheduleAssumption
<1> QED BY <1>5, <1>6 DEF IInv, TypeOK, MessagesOK, store

-----------------------------------------------------------------------------
(* The run of the cron.                                                     *)

LEMMA SyncWriteKeeps == ASSUME IInv, NEW p \in cron.page, SyncWrite(p) PROVE IInv'
<1>1. p \in [occ: Occurrences, url: Urls] /\ p.occ \in Occurrences /\ p.url \in Urls
  BY DEF IInv, TypeOK, Run
<1>2. Fresh(p.occ) \in Checks BY FreshIsFree
<1>3. PICK due \in BOOLEAN : row' = [row EXCEPT ![p.occ] = Upserted(p, due)] BY DEF SyncWrite
<1>4. completed' \in [Occurrences -> SUBSET Checks]
  BY <1>1, <1>2 DEF SyncWrite, SettledBefore, Forget, IInv, TypeOK
<1>5. /\ cron' \in Run
      /\ IsFiniteSet(cron'.due) /\ UNCHANGED <<catalog, recent, events>>
  BY DEF SyncWrite, IInv, TypeOK, Run
<1>6. \A b \in BOOLEAN : NewRow(p.occ, p.url, b) \in Row /\ NewRow(p.occ, p.url, b).present
  BY <1>1, <1>2 DEF NewRow, Row
<1>7. \A x \in Occurrences : x # p.occ => row'[x] = row[x] BY <1>3 DEF IInv, TypeOK
<1>8. CASE row[p.occ].present /\ ~Redirects(p)
  <2>1. row[p.occ] \in Row /\ Upserted(p, due) = [row[p.occ] EXCEPT !.stamped = TRUE]
    BY <1>1, <1>8, Typed DEF Upserted, Redirects
  <2>2. /\ Upserted(p, due) \in Row /\ Upserted(p, due).present
        /\ Upserted(p, due).leased = row[p.occ].leased
    BY <2>1 DEF Row
  <2>3. row' \in [Occurrences -> {NoRow} \cup Row] BY <1>1, <1>3, <2>2 DEF IInv, TypeOK
  <2>4. messages' = messages BY <1>8 DEF SyncWrite
  <2>5. \A m \in messages : MessageOK(m, row', recent)
    BY <1>3, <1>7, <2>2, Typed DEF MessageOK, IInv, TypeOK
  <2>6. MessagesOK(messages', row', recent) BY <2>4, <2>5, Fewer DEF IInv
  <2> QED BY <1>4, <1>5, <2>3, <2>6 DEF IInv, TypeOK, MessagesOK
<1>9. CASE ~row[p.occ].present \/ Redirects(p)
  <2>1. PICK b \in BOOLEAN : Upserted(p, due) = NewRow(p.occ, p.url, b)
    <3>1. (due \/ row[p.occ].present) \in BOOLEAN OBVIOUS
    <3> QED BY <1>9, <3>1 DEF Upserted, Redirects
  <2>2. row' \in [Occurrences -> {NoRow} \cup Row] BY <1>1, <1>3, <1>6, <2>1 DEF IInv, TypeOK
  <2>3. MessagesOK(messages', row', recent)
    <3>1. CASE Redirects(p) BY <1>7, <3>1, Lost DEF SyncWrite, IInv
    <3>2. CASE ~row[p.occ].present
      <4>1. messages' = messages BY <3>2 DEF SyncWrite, Redirects
      <4>2. \A m \in messages : MessageOK(m, row', recent) BY <1>7, <3>2, Typed DEF MessageOK
      <4> QED BY <4>1, <4>2, Fewer DEF IInv
    <3> QED BY <1>9, <3>1, <3>2
  <2> QED BY <1>4, <1>5, <2>2, <2>3 DEF IInv, TypeOK, MessagesOK
<1> QED BY <1>8, <1>9

LEMMA SyncPruneKeeps == ASSUME IInv, SyncPrune PROVE IInv'
<1>1. /\ row' \in [Occurrences -> {NoRow} \cup Row]
      /\ \A o \in Occurrences : row'[o].present => row[o].present /\ row'[o].leased = row[o].leased
  <2>1. \A o \in Occurrences : row[o].present =>
          /\ [row[o] EXCEPT !.stamped = FALSE] \in Row
          /\ [row[o] EXCEPT !.stamped = FALSE].leased = row[o].leased
    BY Typed DEF Row
  <2>2. ~NoRow.present BY DEF NoRow
  <2>3. row' = [o \in Occurrences |->
          IF row[o].present /\ row[o].stamped THEN [row[o] EXCEPT !.stamped = FALSE] ELSE NoRow]
    BY DEF SyncPrune
  <2> QED BY <2>1, <2>2, <2>3
<1>2. PICK f : f = [m \in messages |-> IF row'[m.occ].present \/ m.lease # "held" THEN m
                                       ELSE [m EXCEPT !.lease = "lost"]]
  OBVIOUS
<1>3. messages' = {f[m] : m \in messages} BY <1>2 DEF SyncPrune
<1>4. ASSUME NEW m \in messages
      PROVE  f[m] \in Message /\ Follows(m, f[m]) /\ MessageOK(f[m], row', recent)
  <2>1. m \in Message /\ m.occ \in Occurrences /\ MessageOK(m, row, recent) BY Typed
  <2>2. CASE row'[m.occ].present \/ m.lease # "held"
    <3>1. f[m] = m BY <1>2, <2>2
    <3> QED BY <1>1, <2>1, <2>2, <3>1 DEF Follows, MessageOK
  <2>3. CASE ~row'[m.occ].present /\ m.lease = "held"
    <3>1. f[m] = [m EXCEPT !.lease = "lost"] BY <1>2, <2>3
    <3> QED BY <2>1, <2>3, <3>1 DEF Follows, MessageOK, Message
  <2> QED BY <2>2, <2>3
<1>5. f \in [messages -> Message] BY <1>2, <1>4
<1>6. MessagesOK(messages', row', recent) BY <1>3, <1>4, <1>5, Mapped DEF IInv
<1>7. /\ cron' \in Run
      /\ IsFiniteSet(cron'.due) /\ UNCHANGED <<catalog, completed, recent, events>>
  BY DEF SyncPrune, IInv, TypeOK, Run
<1> QED BY <1>1, <1>6, <1>7 DEF IInv, TypeOK, MessagesOK

LEMMA LeaseKeeps == ASSUME IInv, NEW d \in cron.due, Lease(d) PROVE IInv'
<1>1. d \in Due /\ d.occ \in Occurrences /\ d.url \in Urls /\ d.check \in Nat /\ d.check # 0
  BY DEF IInv, TypeOK, Run, Due, Checks
<1>2. /\ cron' \in Run
      /\ UNCHANGED <<catalog, completed, recent, events>>
  BY DEF Lease, IInv, TypeOK, Run
<1>3. IsFiniteSet(cron'.due)
  <2>1. cron'.due = cron.due \ {d} BY DEF Lease, IInv, TypeOK, Run
  <2> QED BY <2>1, FS_Subset DEF IInv
<1>4. CASE ~(row[d.occ].present /\ ~row[d.occ].leased)
  <2>1. row' = row /\ messages' = messages BY <1>4 DEF Lease
  <2> QED BY <1>2, <1>3, <2>1 DEF IInv, TypeOK
<1>5. CASE row[d.occ].present /\ ~row[d.occ].leased
  <2>1. row' = [row EXCEPT ![d.occ].leased = TRUE] BY <1>5 DEF Lease
  <2>2. row[d.occ] \in Row BY <1>1, <1>5, Typed
  <2>3. row' \in [Occurrences -> {NoRow} \cup Row] BY <1>1, <2>1, <2>2 DEF IInv, TypeOK, Row
  <2>4. row'[d.occ].present /\ row'[d.occ].leased BY <1>1, <1>5, <2>1, <2>2 DEF IInv, TypeOK, Row
  <2>5. \A x \in Occurrences : x # d.occ => row'[x] = row[x] BY <2>1 DEF IInv, TypeOK
  <2>6. PICK b \in BOOLEAN : b = (d.occ \in cron.seen)
    <3>1. (d.occ \in cron.seen) \in BOOLEAN OBVIOUS
    <3> QED BY <3>1, Zenon
  <2>7. PICK m : m = [occ |-> d.occ, url |-> d.url, check |-> d.check, lease |-> "held", answered |-> b,
                      tries |-> 0, outcome |-> "none", at |-> "cron"]
    OBVIOUS
  <2>8. messages' = Lose(messages, d.occ) \cup {m} BY <1>5, <2>6, <2>7 DEF Lease
  <2>9. m \in Message /\ MessageOK(m, row', recent)
    BY <1>1, <2>4, <2>7, ScheduleAssumption DEF Message, MessageOK, ScheduleAssumption
  <2>10. /\ MessagesOK(Lose(messages, d.occ), row', recent)
         /\ \A k \in Lose(messages, d.occ) : k.occ = d.occ => k.lease # "held"
    BY <2>5, Lost DEF IInv
  <2>11. \A k \in Lose(messages, d.occ) : PairOK(k, m) /\ PairOK(m, k)
    BY <2>7, <2>10 DEF PairOK, Started, Chosen
  <2>12. MessagesOK(messages', row', recent) BY <2>8, <2>9, <2>10, <2>11, Added
  <2> QED BY <1>2, <1>3, <2>3, <2>12 DEF IInv, TypeOK, MessagesOK
<1> QED BY <1>4, <1>5

-----------------------------------------------------------------------------
(* The queue.                                                               *)

\* One message goes on as another and the store stays.
LEMMA Passes ==
  ASSUME IInv, NEW m \in messages, NEW n \in Message, Follows(m, n), MessageOK(n, row, recent),
         messages' \subseteq (messages \ {m}) \cup {n}
  PROVE  MessagesOK(messages', row, recent)
<1>1. \A k \in messages \ {m} : MessageOK(k, row, recent) BY Typed
<1> QED BY <1>1, OneMoves DEF IInv

LEMMA SendKeeps == ASSUME IInv, NEW m \in messages, Send(m) \/ DelayEnds(m) PROVE IInv'
<1> DEFINE n == [m EXCEPT !.at = "queue"]
<1>1. m \in Message /\ MessageOK(m, row, recent) BY Typed
<1>2. m.at \in {"cron", "overtaken", "day"} /\ Move(m, n) /\ UNCHANGED <<store, cron, events>>
  BY DEF Send, DelayEnds
<1>3. n \in Message /\ Follows(m, n) /\ MessageOK(n, row, recent)
  BY <1>1, <1>2 DEF Message, Follows, MessageOK, Started, Chosen, Waiting
<1> HIDE DEF n
<1>4. MessagesOK(messages', row, recent) BY <1>2, <1>3, Passes DEF Move
<1> QED BY <1>2, <1>4 DEF IInv, TypeOK, store, MessagesOK

\* A message that is handed back waits again, unless the queue has given it up.
LEMMA HandedBack ==
  ASSUME IInv, NEW m \in messages, NEW place \in {"queue", "day"}
  PROVE  \A n \in Retried(m, place) :
           /\ n \in Message /\ Follows(m, n)
           /\ n.at = place /\ n.lease = m.lease /\ n.occ = m.occ
           /\ place = "queue" \/ m.lease # "held" => MessageOK(n, row, recent)
           /\ \A rows : rows[m.occ].present /\ rows[m.occ].leased => MessageOK(n, rows, recent)
<1> SUFFICES ASSUME NEW n \in Retried(m, place)
             PROVE  /\ n \in Message /\ Follows(m, n)
                    /\ n.at = place /\ n.lease = m.lease /\ n.occ = m.occ
                    /\ place = "queue" \/ m.lease # "held" => MessageOK(n, row, recent)
                    /\ \A rows : rows[m.occ].present /\ rows[m.occ].leased => MessageOK(n, rows, recent)
  OBVIOUS
<1>1. m \in Message /\ MessageOK(m, row, recent) BY Typed
<1>2. n = [m EXCEPT !.at = place, !.outcome = "none"] /\ m.tries # MaxReceives BY DEF Retried
<1>3. /\ n \in Message /\ n.at = place /\ n.lease = m.lease /\ n.occ = m.occ /\ n.url = m.url
      /\ n.check = m.check /\ n.tries = m.tries
  BY <1>1, <1>2 DEF Message
<1>4. m.tries \in 0..MaxReceives BY <1>1 DEF Message
<1>5. n.tries < MaxReceives BY <1>2, <1>3, <1>4, ScheduleAssumption DEF ScheduleAssumption
<1> QED BY <1>1, <1>3, <1>5 DEF Follows, MessageOK, Started, Chosen

LEMMA FailKeeps == ASSUME IInv, NEW m \in messages, Fail(m) PROVE IInv'
<1>1. messages' = (messages \ {m}) \cup Retried(m, "queue") /\ UNCHANGED <<store, cron>>
  BY DEF Fail
<1>2. events' \in 0..MaxEvents
  BY ScheduleAssumption DEF Fail, Event, IInv, TypeOK, ScheduleAssumption
<1>3. MessagesOK(messages', row, recent)
  <2>1. CASE Retried(m, "queue") = {}
    <3>1. messages' \subseteq messages BY <1>1, <2>1
    <3> QED BY <1>1, <3>1, NothingMoves DEF store
  <2>2. CASE Retried(m, "queue") # {}
    <3>1. PICK n : Retried(m, "queue") = {n} BY <2>2 DEF Retried
    <3>2. n \in Message /\ Follows(m, n) /\ MessageOK(n, row, recent) BY <3>1, HandedBack
    <3> QED BY <1>1, <3>1, <3>2, Passes
  <2> QED BY <2>1, <2>2
<1> QED BY <1>1, <1>2, <1>3 DEF IInv, TypeOK, store, MessagesOK

LEMMA RunStopsKeeps == ASSUME IInv, RunStops PROVE IInv'
<1> DEFINE back(m) == [m EXCEPT !.at = "queue", !.outcome = "none"]
           S == {m \in messages : m.at \in InBatch => m.tries # MaxReceives}
<1>1. UNCHANGED <<store, cron>> /\ events' \in 0..MaxEvents
  BY ScheduleAssumption DEF RunStops, Event, IInv, TypeOK, ScheduleAssumption
<1>2. MessagesOK(S, row, recent)
  <2>1. \A m \in messages : MessageOK(m, row, recent) BY Typed
  <2> QED BY <2>1, Fewer DEF IInv
<1>3. PICK f : f = [m \in S |-> IF m.at \in InBatch THEN back(m) ELSE m] OBVIOUS
<1>4. ASSUME NEW m \in S PROVE f[m] \in Message /\ Follows(m, f[m]) /\ MessageOK(f[m], row, recent)
  <2>1. m \in Message /\ MessageOK(m, row, recent) BY Typed
  <2>2. CASE m.at \in InBatch
    <3>1. back(m) \in Retried(m, "queue") BY <2>2 DEF Retried
    <3>2. f[m] = back(m) BY <1>3, <2>2
    <3> HIDE DEF back
    <3> QED BY <3>1, <3>2, HandedBack
  <2>3. CASE m.at \notin InBatch BY <1>3, <2>1, <2>3 DEF Follows
  <2> QED BY <2>2, <2>3
<1>5. messages' \subseteq {f[m] : m \in S}
  <2>1. ASSUME NEW n \in messages' PROVE \E m \in S : n = f[m]
    <3>1. CASE n \in messages \ At(InBatch) BY <1>3, <3>1 DEF At
    <3>2. CASE \E m \in At(InBatch) : n \in Retried(m, "queue")
      <4>1. PICK m \in At(InBatch) : n \in Retried(m, "queue") BY <3>2
      <4>2. m \in S /\ m.at \in InBatch /\ n = back(m) BY <4>1 DEF At, Retried
      <4> QED BY <1>3, <4>2
    <3> QED BY <3>1, <3>2 DEF RunStops
  <2> QED BY <2>1
<1>6. f \in [S -> Message] BY <1>3, <1>4
<1> HIDE DEF S
<1>7. MessagesOK(messages', row, recent) BY <1>2, <1>4, <1>5, <1>6, Mapped
<1> QED BY <1>1, <1>7 DEF IInv, TypeOK, store, MessagesOK

LEMMA TakeBatchKeeps == ASSUME IInv, TakeBatch PROVE IInv'
<1> DEFINE taken(m) == [m EXCEPT !.at = "screen", !.tries = m.tries + 1]
<1>1. PICK B \in SUBSET At({"queue"}) : messages' = (messages \ B) \cup {taken(m) : m \in B}
  BY DEF TakeBatch
<1>2. PICK f : f = [m \in messages |-> IF m \in B THEN taken(m) ELSE m] OBVIOUS
<1>3. ASSUME NEW m \in messages
      PROVE  f[m] \in Message /\ Follows(m, f[m]) /\ MessageOK(f[m], row, recent)
  <2>1. m \in Message /\ MessageOK(m, row, recent) BY Typed
  <2>2. CASE m \in B
    <3>1. m.at = "queue" /\ f[m] = taken(m) BY <1>2, <2>2 DEF At
    <3>2. m.tries \in 0..MaxReceives /\ m.tries < MaxReceives
      BY <2>1, <3>1 DEF Message, MessageOK, Waiting
    <3>3. m.tries + 1 \in 0..MaxReceives BY <3>2, ScheduleAssumption DEF ScheduleAssumption
    <3>4. /\ f[m] \in Message /\ f[m].at = "screen" /\ f[m].lease = m.lease
          /\ f[m].occ = m.occ /\ f[m].url = m.url /\ f[m].check = m.check
      BY <2>1, <3>1, <3>3 DEF Message
    <3> QED BY <2>1, <3>4 DEF Follows, MessageOK, Started, Chosen, Waiting
  <2>3. CASE m \notin B BY <1>2, <2>1, <2>3 DEF Follows
  <2> QED BY <2>2, <2>3
<1>4. messages' \subseteq {f[m] : m \in messages}
  <2>1. ASSUME NEW n \in messages' PROVE \E m \in messages : n = f[m]
    <3>1. CASE n \in messages \ B BY <1>2, <3>1
    <3>2. CASE \E m \in B : n = taken(m) BY <1>2, <3>2 DEF At
    <3> QED BY <1>1, <3>1, <3>2
  <2> QED BY <2>1
<1>5. f \in [messages -> Message] BY <1>2, <1>3
<1>6. MessagesOK(messages', row, recent) BY <1>3, <1>4, <1>5, Mapped DEF IInv
<1>7. UNCHANGED <<store, cron, events>> BY DEF TakeBatch
<1> QED BY <1>6, <1>7 DEF IInv, TypeOK, store, MessagesOK

-----------------------------------------------------------------------------
(* The consumer.                                                            *)

\* What it changes of the schedule, of the keys and of the messages; attempts are recorded apart.
Kept ==
  /\ row' \in [Occurrences -> {NoRow} \cup Row] /\ completed' \in [Occurrences -> SUBSET Checks]
  /\ MessagesOK(messages', row', recent)

\* Completing a check frees the row of its lease only under the token of the lease.
LEMMA Completes ==
  ASSUME IInv, NEW m \in messages, m.lease # "none", NEW due \in BOOLEAN, Complete(m, due)
  PROVE  Kept
<1> DEFINE n == [m EXCEPT !.at = "completed", !.lease = "lost", !.outcome = "none"]
           r == [row[m.occ] EXCEPT !.check = Fresh(m.occ), !.due = due, !.leased = FALSE]
<1>1. m \in Message /\ m.occ \in Occurrences /\ MessageOK(m, row, recent) BY Typed
<1>2. Fresh(m.occ) \in Checks BY FreshIsFree
<1>3. completed' \in [Occurrences -> SUBSET Checks] BY <1>2 DEF Complete, Forget, IInv, TypeOK
<1>4. messages' = (messages \ {m}) \cup {n} BY DEF Complete, Move
<1>5. n \in Message /\ n.at = "completed" /\ n.lease = "lost" /\ n.occ = m.occ /\ n.url = m.url
      /\ n.check = m.check
  BY <1>1 DEF Message
<1> HIDE DEF n
<1>6. Follows(m, n) /\ \A rows : MessageOK(n, rows, recent)
  BY <1>1, <1>5 DEF Follows, MessageOK, Started, Chosen, Waiting
<1>7. CASE m.lease # "held"
  <2>1. row' = row BY <1>7 DEF Complete
  <2> QED BY <1>3, <1>4, <1>5, <1>6, <2>1, Passes DEF IInv, TypeOK, Kept
<1>8. CASE m.lease = "held"
  <2>1. row' = [row EXCEPT ![m.occ] = r] BY <1>8 DEF Complete
  <2>2. row[m.occ] \in Row BY <1>1, <1>8, Typed DEF MessageOK
  <2>3. r \in Row BY <1>2, <2>2 DEF Row
  <2> HIDE DEF r
  <2>4. row' \in [Occurrences -> {NoRow} \cup Row] BY <1>1, <2>1, <2>3 DEF IInv, TypeOK
  <2>5. \A x \in Occurrences : x # m.occ => row'[x] = row[x] BY <2>1 DEF IInv, TypeOK
  <2>6. ASSUME NEW k \in messages \ {m} PROVE MessageOK(k, row', recent)
    <3>1. k \in Message /\ k.occ \in Occurrences /\ MessageOK(k, row, recent) BY Typed
    <3>2. CASE k.occ = m.occ
      <4>1. k.lease # "held" BY <1>8, <3>2 DEF IInv, MessagesOK, PairOK
      <4> QED BY <3>1, <4>1 DEF MessageOK
    <3>3. CASE k.occ # m.occ BY <2>5, <3>1, <3>3 DEF MessageOK
    <3> QED BY <3>2, <3>3
  <2>7. MessagesOK(messages', row', recent)
    BY <1>4, <1>5, <1>6, <2>6, OneMoves DEF IInv
  <2> QED BY <1>3, <2>4, <2>7 DEF Kept
<1> QED BY <1>7, <1>8

LEMMA Settles ==
  ASSUME IInv, NEW m \in messages, NEW due \in BOOLEAN, Settle(m, due)
  PROVE  Kept
<1>1. CASE m.lease = "none"
  <2>1. messages' \subseteq messages /\ row' = row /\ completed' = completed
    BY <1>1 DEF Settle, Acknowledge
  <2>2. \A k \in messages : MessageOK(k, row, recent) BY Typed
  <2> QED BY <2>1, <2>2, Fewer DEF IInv, TypeOK, Kept
<1>2. CASE m.lease # "none" BY <1>2, Completes DEF Settle
<1> QED BY <1>1, <1>2

LEMMA Acknowledges ==
  ASSUME IInv, NEW m \in messages, Acknowledge(m)
  PROVE  Kept
<1>1. messages' \subseteq messages /\ row' = row /\ completed' = completed BY DEF Acknowledge
<1>2. \A k \in messages : MessageOK(k, row, recent) BY Typed
<1> QED BY <1>1, <1>2, Fewer DEF IInv, TypeOK, Kept

LEMMA Answers ==
  ASSUME IInv, NEW m \in messages, Answer(m)
  PROVE  Kept
<1>1. Acknowledge(m) \/ Settle(m, TRUE) \/ Settle(m, FALSE) BY DEF Answer
<1> QED BY <1>1, Acknowledges, Settles

\* A page is screened for a visit: no message of the batch is at work on it, and no attempt
\* of the day is known.
LEMMA ScreenKeeps == ASSUME IInv, NEW m \in messages, Screen(m) PROVE IInv'
<1>1. UNCHANGED <<catalog, recent, cron, events>> BY DEF Screen
<1>2. Kept
  <2>1. CASE Answer(m) BY <2>1, Answers
  <2>2. CASE Acknowledge(m) BY <2>2, Acknowledges
  <2>3. CASE Settle(m, FALSE) BY <2>3, Settles
  <2>4. ASSUME SamePage(m) = {}, NEW place \in Chosen,
               place = "pending" => m.url \notin recent[m.occ],
               Move(m, [m EXCEPT !.at = place]), UNCHANGED <<row, completed>>
        PROVE  Kept
    <3>1. m \in Message /\ MessageOK(m, row, recent) /\ m.at = "screen" BY Typed DEF Screen
    <3>2. PICK n : n = [m EXCEPT !.at = place] OBVIOUS
    <3>3. /\ n \in Message /\ n.at = place /\ n.lease = m.lease /\ n.occ = m.occ
          /\ n.url = m.url /\ n.check = m.check
      BY <3>1, <3>2 DEF Message, Chosen
    <3>4. MessageOK(n, row, recent) BY <2>4, <3>1, <3>3 DEF MessageOK, Waiting, Chosen
    <3>5. messages' = (messages \ {m}) \cup {n} BY <2>4, <3>2 DEF Move
    <3>6. MessagesOK(messages \ {m}, row, recent)
      <4>1. \A k \in messages : MessageOK(k, row, recent) BY Typed
      <4> QED BY <4>1, Fewer DEF IInv
    <3>7. ASSUME NEW k \in messages \ {m} PROVE PairOK(k, n) /\ PairOK(n, k)
      <4>1. PairOK(k, m) /\ PairOK(m, k) BY DEF IInv, MessagesOK
      <4>2. k.occ = n.occ /\ k.lease = "held" => n.lease # "held" BY <3>3, <4>1 DEF PairOK
      <4>3. k.occ = n.occ /\ k.url = n.url => k.at \notin Chosen BY <2>4, <3>3 DEF SamePage, Of
      <4>4. k.at \notin {"visited", "persisted"}
        BY <3>1 DEF Screen, Handled, Working, At, Handling
      <4> QED BY <4>2, <4>3, <4>4 DEF PairOK, Started, Chosen
    <3>8. MessagesOK(messages', row, recent) BY <3>3, <3>4, <3>5, <3>6, <3>7, Added
    <3> QED BY <2>4, <3>8 DEF IInv, TypeOK, Kept
  <2> QED BY <2>1, <2>2, <2>3, <2>4 DEF Screen, Chosen
<1> QED BY <1>1, <1>2 DEF IInv, TypeOK, MessagesOK, Kept

LEMMA VisitKeeps == ASSUME IInv, NEW m \in messages, Visit(m) PROVE IInv'
<1>1. UNCHANGED <<catalog, recent, cron>> BY DEF Visit
<1>2. events' \in 0..MaxEvents
  BY ScheduleAssumption DEF Visit, Event, IInv, TypeOK, ScheduleAssumption
<1>3. CASE Answer(m)
  <2>1. Kept
    BY <1>3, Answers
  <2> QED BY <1>1, <1>2, <2>1 DEF IInv, TypeOK, MessagesOK, Kept
<1>4. CASE ~Answer(m)
  <2>1. PICK outcome \in {"seen", "gone", "failed"} :
          Move(m, [m EXCEPT !.at = "visited", !.outcome = outcome]) /\ UNCHANGED <<row, completed>>
    BY <1>4 DEF Visit
  <2>2. m \in Message /\ MessageOK(m, row, recent) /\ m.at \in Chosen BY Typed DEF Visit
  <2>3. PICK n : n = [m EXCEPT !.at = "visited", !.outcome = outcome] OBVIOUS
  <2>4. n \in Message /\ Follows(m, n) /\ MessageOK(n, row, recent)
    BY <2>2, <2>3 DEF Message, Follows, MessageOK, Started, Chosen, Waiting
  <2>5. MessagesOK(messages', row, recent) BY <2>1, <2>3, <2>4, Passes DEF Move
  <2> QED BY <1>1, <1>2, <2>1, <2>5 DEF IInv, TypeOK, MessagesOK
<1> QED BY <1>3, <1>4

LEMMA PersistKeeps == ASSUME IInv, NEW m \in messages, Persist(m) PROVE IInv'
<1>1. UNCHANGED <<recent, events>> /\ m.at = "visited" BY DEF Persist
<1>2. m \in Message /\ m.occ \in Occurrences /\ MessageOK(m, row, recent) BY Typed
<1>3. CASE Settle(m, TRUE) /\ UNCHANGED <<catalog, cron>>
  <2>1. Kept
    BY <1>3, Settles
  <2> QED BY <1>1, <1>3, <2>1 DEF IInv, TypeOK, MessagesOK, Kept
<1>4. CASE ~(Settle(m, TRUE) /\ UNCHANGED <<catalog, cron>>)
  <2> DEFINE answered(n) == m.outcome = "seen" /\ n.url = m.url
             g(n) == IF n = m THEN [m EXCEPT !.at = "persisted", !.answered = (m.outcome = "seen")]
                     ELSE IF n.occ = m.occ THEN [n EXCEPT !.answered = answered(n)] ELSE n
  <2>1. /\ \E a \in BOOLEAN : catalog' = [catalog EXCEPT ![m.occ] =
                                Enriched([catalog[m.occ] EXCEPT !.visible = (m.outcome = "seen")], a)]
        /\ messages' = {g(n) : n \in messages}
        /\ cron' = [cron EXCEPT !.seen = IF m.outcome = "seen" /\ cron.pc # "idle"
                                         THEN cron.seen \cup {m.occ} ELSE cron.seen \ {m.occ}]
        /\ UNCHANGED <<row, completed>>
    BY <1>4 DEF Persist
  <2>2. catalog' \in [Occurrences -> Reference]
    <3>1. (m.outcome = "seen") \in BOOLEAN OBVIOUS
    <3>2. PICK a \in BOOLEAN, b \in BOOLEAN :
            catalog' = [catalog EXCEPT ![m.occ] = Enriched([catalog[m.occ] EXCEPT !.visible = b], a)]
      BY <2>1, <3>1
    <3>3. catalog[m.occ] \in Reference BY <1>2 DEF IInv, TypeOK
    <3>4. PICK r \in Reference : r = [catalog[m.occ] EXCEPT !.visible = b] BY <3>3 DEF Reference
    <3>5. (r.extracted \/ a) \in BOOLEAN OBVIOUS
    <3>6. PICK c \in BOOLEAN : Enriched(r, a) = [r EXCEPT !.extracted = c] BY <3>5 DEF Enriched
    <3>7. Enriched(r, a) \in Reference BY <3>6 DEF Reference
    <3> QED BY <1>2, <3>2, <3>4, <3>7 DEF IInv, TypeOK
  <2>3. /\ cron' \in Run
        /\ cron'.due = cron.due
    BY <1>2, <2>1 DEF IInv, TypeOK, Run
  <2>4. PICK f : f = [n \in messages |-> g(n)] OBVIOUS
  <2>5. ASSUME NEW n \in messages
        PROVE  f[n] \in Message /\ Follows(n, f[n]) /\ MessageOK(f[n], row, recent)
    <3>1. n \in Message /\ MessageOK(n, row, recent) BY Typed
    <3>2. CASE n = m
      <4>1. PICK b \in BOOLEAN : b = (m.outcome = "seen")
        <5>1. (m.outcome = "seen") \in BOOLEAN OBVIOUS
        <5> QED BY <5>1, Zenon
      <4>2. f[n] = [m EXCEPT !.at = "persisted", !.answered = b] BY <2>4, <3>2, <4>1
      <4>3. /\ f[n] \in Message /\ f[n].at = "persisted" /\ f[n].lease = m.lease
            /\ f[n].occ = m.occ /\ f[n].url = m.url /\ f[n].check = m.check
        BY <1>2, <4>2 DEF Message
      <4> QED BY <1>1, <1>2, <3>2, <4>3 DEF Follows, MessageOK, Started, Chosen, Waiting
    <3>3. CASE n # m /\ n.occ = m.occ
      <4>1. PICK b \in BOOLEAN : b = answered(n)
        <5>1. answered(n) \in BOOLEAN OBVIOUS
        <5> QED BY <5>1, Zenon
      <4>2. f[n] = [n EXCEPT !.answered = b] BY <2>4, <3>3, <4>1
      <4> QED BY <3>1, <4>2, AnsweredTyped
    <3>4. CASE n # m /\ n.occ # m.occ
      <4>1. f[n] = n BY <2>4, <3>4
      <4> QED BY <3>1, <4>1 DEF Follows
    <3> QED BY <3>2, <3>3, <3>4
  <2>6. messages' = {f[n] : n \in messages} BY <2>1, <2>4
  <2>7. f \in [messages -> Message] BY <2>4, <2>5
  <2> HIDE DEF g
  <2>8. MessagesOK(messages', row, recent) BY <2>5, <2>6, <2>7, Mapped DEF IInv
  <2> QED BY <1>1, <2>1, <2>2, <2>3, <2>8 DEF IInv, TypeOK, MessagesOK
<1> QED BY <1>3, <1>4

\* An attempt is recorded of a page that no message of the batch still waits to visit.
LEMMA RecordKeeps == ASSUME IInv, NEW m \in messages, Record(m) PROVE IInv'
<1>1. /\ m.at = "persisted" /\ UNCHANGED <<catalog, row, completed, cron, events>>
      /\ recent' = [recent EXCEPT ![m.occ] = recent[m.occ] \cup {m.url}]
  BY DEF Record
<1>2. m \in Message /\ m.occ \in Occurrences /\ m.url \in Urls /\ MessageOK(m, row, recent)
  BY Typed DEF Message
<1>3. recent' \in [Occurrences -> SUBSET Urls] BY <1>1, <1>2 DEF IInv, TypeOK
<1>4. PICK f : f = [n \in messages |->
                      IF n = m THEN [m EXCEPT !.at = "recorded"]
                      ELSE IF n.occ = m.occ /\ n.url = m.url /\ n.at = "day"
                      THEN [n EXCEPT !.at = "overtaken"] ELSE n]
  OBVIOUS
<1>5. messages' = {f[n] : n \in messages} BY <1>4 DEF Record
<1>6. ASSUME NEW n \in messages, MessageOK(n, row, recent), n # m
      PROVE  n.at = "pending" => n.url \notin recent'[n.occ]
  <2>1. n \in Message /\ n.occ \in Occurrences BY Typed
  <2>2. CASE n.occ = m.occ
    <3>1. PairOK(n, m) BY DEF IInv, MessagesOK
    <3>2. n.at = "pending" => n.url # m.url BY <1>1, <1>6, <2>2, <3>1 DEF PairOK, Started, Chosen
    <3>3. recent'[n.occ] = recent[n.occ] \cup {m.url} BY <1>1, <1>2, <2>2 DEF IInv, TypeOK
    <3> QED BY <1>6, <3>2, <3>3 DEF MessageOK
  <2>3. CASE n.occ # m.occ
    <3>1. recent'[n.occ] = recent[n.occ] BY <1>1, <2>1, <2>3 DEF IInv, TypeOK
    <3> QED BY <1>6, <3>1 DEF MessageOK
  <2> QED BY <2>2, <2>3
<1>7. ASSUME NEW n \in messages
      PROVE  f[n] \in Message /\ Follows(n, f[n]) /\ MessageOK(f[n], row, recent')
  <2>1. n \in Message /\ MessageOK(n, row, recent) BY Typed
  <2>2. CASE n = m
    <3>1. f[n] = [m EXCEPT !.at = "recorded"] BY <1>4, <2>2
    <3> QED BY <1>1, <1>2, <2>2, <3>1 DEF Message, Follows, MessageOK, Started, Chosen, Waiting
  <2>3. CASE n # m /\ n.occ = m.occ /\ n.url = m.url /\ n.at = "day"
    <3>1. f[n] = [n EXCEPT !.at = "overtaken"] BY <1>4, <2>3
    <3> QED BY <2>1, <2>3, <3>1 DEF Message, Follows, MessageOK, Started, Chosen, Waiting
  <2>4. CASE n # m /\ ~(n.occ = m.occ /\ n.url = m.url /\ n.at = "day")
    <3>1. f[n] = n BY <1>4, <2>4
    <3> QED BY <1>6, <2>1, <2>4, <3>1 DEF Follows, MessageOK
  <2> QED BY <2>2, <2>3, <2>4
<1>8. f \in [messages -> Message] BY <1>4, <1>7
<1>9. MessagesOK(messages', row, recent') BY <1>5, <1>7, <1>8, Mapped DEF IInv
<1> QED BY <1>1, <1>3, <1>9 DEF IInv, TypeOK, MessagesOK

\* A retry that still has the token of its row extends the lease; nobody else has the token.
LEMMA CompleteVisitKeeps == ASSUME IInv, NEW m \in messages, CompleteVisit(m) PROVE IInv'
<1>1. UNCHANGED <<catalog, recent, cron, events>> BY DEF CompleteVisit
<1>2. m \in Message /\ m.occ \in Occurrences /\ MessageOK(m, row, recent) BY Typed
<1>3. Kept
  <2>1. CASE Acknowledge(m) BY <1>1, <2>1, Acknowledges
  <2>2. CASE m.lease # "none" /\ Complete(m, FALSE) BY <1>1, <2>2, Completes
  <2>3. CASE Defer(m) /\ UNCHANGED completed
    <3>1. messages' = (messages \ {m}) \cup Retried(m, "day") /\ row' = Extended(m)
      BY <2>3 DEF Defer
    <3>2. /\ row' \in [Occurrences -> {NoRow} \cup Row]
          /\ \A x \in Occurrences : row'[x].present = row[x].present /\ (row[x].leased => row'[x].leased)
          /\ m.lease = "held" => row'[m.occ].present /\ row'[m.occ].leased
          /\ m.lease # "held" => row' = row
      <4>1. CASE m.lease # "held" BY <3>1, <4>1 DEF Extended, IInv, TypeOK
      <4>2. CASE m.lease = "held"
        <5>1. row[m.occ] \in Row BY <1>2, <4>2, Typed DEF MessageOK
        <5>2. row' = [row EXCEPT ![m.occ].leased = TRUE] BY <3>1, <4>2 DEF Extended
        <5> QED BY <1>2, <4>2, <5>1, <5>2 DEF IInv, TypeOK, Row
      <4> QED BY <4>1, <4>2
    <3>3. \A k \in messages : MessageOK(k, row', recent) BY <3>2, Typed DEF MessageOK
    <3>4. CASE Retried(m, "day") = {}
      <4>1. messages' \subseteq messages BY <3>1, <3>4
      <4> QED BY <1>1, <2>3, <3>2, <3>3, <4>1, Fewer DEF IInv, TypeOK, Kept
    <3>5. CASE Retried(m, "day") # {}
      <4>1. PICK n : Retried(m, "day") = {n} BY <3>5 DEF Retried
      <4>2. n \in Message /\ Follows(m, n) /\ MessageOK(n, row', recent)
        BY <3>2, <4>1, HandedBack
      <4>3. MessagesOK(messages', row', recent) BY <3>1, <3>3, <4>1, <4>2, OneMoves DEF IInv
      <4> QED BY <1>1, <2>3, <3>2, <4>3 DEF IInv, TypeOK, Kept
    <3> QED BY <3>4, <3>5
  <2> QED BY <2>1, <2>2, <2>3 DEF CompleteVisit
<1> QED BY <1>1, <1>3 DEF IInv, TypeOK, MessagesOK, Kept

LEMMA RecordCompletionKeeps == ASSUME IInv, NEW m \in messages, RecordCompletion(m) PROVE IInv'
<1>1. messages' = messages \ {m} /\ UNCHANGED <<catalog, row, recent, cron, events>>
  BY DEF RecordCompletion
<1>2. m.occ \in Occurrences /\ m.check \in Checks
  BY Typed DEF RecordCompletion, Message, MessageOK, Checks
<1>3. completed' \in [Occurrences -> SUBSET Checks] BY <1>2 DEF RecordCompletion, IInv, TypeOK
<1>4. MessagesOK(messages', row', recent') BY <1>1, NothingMoves
<1> QED BY <1>1, <1>3, <1>4 DEF IInv, TypeOK, MessagesOK

-----------------------------------------------------------------------------
LEMMA IInvStep == ASSUME IInv, [Next]_vars PROVE IInv'
<1>1. CASE UNCHANGED vars BY <1>1, NothingMoves DEF vars, store, IInv, TypeOK
<1>2. CASE Cron
  <2>1. CASE SyncRead \/ SelectDue \/ CronEnds BY <2>1, CronReads
  <2>2. CASE SyncPrune BY <2>2, SyncPruneKeeps
  <2>3. CASE \E p \in cron.page : SyncWrite(p) BY <2>3, SyncWriteKeeps
  <2>4. CASE \E d \in cron.due : Lease(d) BY <2>4, LeaseKeeps
  <2>5. CASE \E m \in messages : Send(m) BY <2>5, SendKeeps
  <2> QED BY <1>2, <2>1, <2>2, <2>3, <2>4, <2>5 DEF Cron
<1>3. CASE CronStops BY <1>3, CronReads
<1>4. CASE Consumer
  BY <1>4, TakeBatchKeeps, ScreenKeeps, VisitKeeps, PersistKeeps, RecordKeeps, CompleteVisitKeeps,
     RecordCompletionKeeps
  DEF Consumer
<1>5. CASE RunStops BY <1>5, RunStopsKeeps
<1>6. CASE \E o \in Occurrences : CatalogChanges(o) \/ Request(o) \/ FallsDue(o) \/ LeaseLapses(o)
                                  \/ \E u \in Urls : DayEnds(o, u)
  BY <1>6, CatalogKeeps, RequestKeeps, TimePasses
<1>7. CASE \E m \in messages : DelayEnds(m) \/ Fail(m) BY <1>7, SendKeeps, FailKeeps
<1> QED BY <1>1, <1>2, <1>3, <1>4, <1>5, <1>6, <1>7 DEF Next

\* A page comes under a visit by the second pass of the consumer only, and is chosen again by
\* the first pass only, while its metadata are not there.
LEMMA Origins ==
  ASSUME IInv, [Next]_vars, NEW n \in messages', n.at \in {"visited", "again"}
  PROVE  \/ \E k \in messages : k.occ = n.occ /\ k.url = n.url /\ k.at = n.at
         \/ n.at = "visited" /\ \E m \in messages :
              /\ m.at \in Chosen /\ m.occ = n.occ /\ m.url = n.url
              /\ messages' = (messages \ {m}) \cup {n}
         \/ n.at = "again" /\ \E m \in messages : m.occ = n.occ /\ ~catalog[m.occ].extracted
<1> DEFINE Same == \E k \in messages : k.occ = n.occ /\ k.url = n.url /\ k.at = n.at
           Visited == n.at = "visited" /\ \E m \in messages :
                        /\ m.at \in Chosen /\ m.occ = n.occ /\ m.url = n.url
                        /\ messages' = (messages \ {m}) \cup {n}
           Again == n.at = "again" /\ \E m \in messages : m.occ = n.occ /\ ~catalog[m.occ].extracted
           Origin == Same \/ Visited \/ Again
<1> SUFFICES Origin OBVIOUS
<1>0. n \in messages => Same OBVIOUS
<1> HIDE DEF Visited, Again
<1>1. ASSUME NEW m \in messages, Settle(m, TRUE) \/ Settle(m, FALSE) \/ Acknowledge(m) PROVE Origin
  <2>1. m \in Message BY Typed
  <2>2. n \in messages \/ n = [m EXCEPT !.at = "completed", !.lease = "lost", !.outcome = "none"]
    BY <1>1 DEF Settle, Acknowledge, Complete, Move
  <2> QED BY <1>0, <2>1, <2>2 DEF Message
<1>2. ASSUME NEW m \in messages, NEW place \in {"queue", "day"}, n \in Retried(m, place) PROVE FALSE
  BY <1>2, HandedBack
<1>3. ASSUME Cron PROVE Origin
  <2>1. CASE SyncRead \/ SelectDue \/ CronEnds BY <1>0, <2>1 DEF SyncRead, SelectDue, CronEnds
  <2>2. ASSUME NEW x, n \in Lose(messages, x) PROVE Origin
    <3>1. PICK k \in messages : n = [k EXCEPT !.lease = "lost"] \/ n = k BY <2>2 DEF Lose
    <3> QED BY <3>1, Typed DEF Message
  <2>3. CASE \E p \in cron.page : SyncWrite(p) BY <1>0, <2>2, <2>3 DEF SyncWrite
  <2>4. CASE \E d \in cron.due : Lease(d)
    <3>1. PICK d \in cron.due : Lease(d) BY <2>4
    <3>2. n \in messages \/ n \in Lose(messages, d.occ) \/ n.at = "cron" BY <3>1 DEF Lease
    <3> QED BY <1>0, <2>2, <3>2
  <2>5. CASE SyncPrune
    <3>1. PICK k \in messages : n = [k EXCEPT !.lease = "lost"] \/ n = k BY <2>5 DEF SyncPrune
    <3> QED BY <3>1, Typed DEF Message
  <2>6. CASE \E m \in messages : Send(m)
    <3>1. PICK m \in messages : Move(m, [m EXCEPT !.at = "queue"]) BY <2>6 DEF Send
    <3> QED BY <1>0, <3>1, Typed DEF Move, Message
  <2> QED BY <1>3, <2>1, <2>3, <2>4, <2>5, <2>6 DEF Cron
<1>4. ASSUME Consumer PROVE Origin
  <2>1. CASE TakeBatch
    <3>1. PICK B \in SUBSET At({"queue"}) :
            messages' = (messages \ B) \cup {[m EXCEPT !.at = "screen", !.tries = m.tries + 1] : m \in B}
      BY <2>1 DEF TakeBatch
    <3>2. CASE n \in messages BY <1>0, <3>2
    <3>3. CASE n \notin messages
      <4>1. PICK m \in B : n = [m EXCEPT !.at = "screen", !.tries = m.tries + 1] BY <3>1, <3>3
      <4>2. m \in Message BY Typed DEF At
      <4> QED BY <4>1, <4>2 DEF Message
    <3> QED BY <3>2, <3>3
  <2>2. ASSUME NEW m \in messages, Screen(m) PROVE Origin
    <3>1. m \in Message BY Typed
    <3>2. CASE Move(m, [m EXCEPT !.at = "pending"]) BY <1>0, <3>1, <3>2 DEF Move, Message
    <3>3. CASE ~Current(m) /\ Move(m, [m EXCEPT !.at = "again"])
      <4>1. CASE n \in messages BY <1>0, <4>1
      <4>2. CASE n \notin messages
        <5>1. n = [m EXCEPT !.at = "again"] BY <3>3, <4>2 DEF Move
        <5>2. n.at = "again" /\ n.occ = m.occ BY <3>1, <5>1 DEF Message
        <5> QED BY <3>3, <5>2 DEF Again, Current
      <4> QED BY <4>1, <4>2
    <3> QED BY <1>1, <2>2, <3>2, <3>3 DEF Screen, Answer
  <2>3. ASSUME NEW m \in messages, Persist(m) PROVE Origin
    <3>1. CASE Settle(m, TRUE) BY <1>1, <3>1
    <3>2. CASE ~Settle(m, TRUE)
      <4>1. PICK k \in messages : (n.at = k.at /\ n.occ = k.occ /\ n.url = k.url) \/ n.at = "persisted"
        <5>1. messages' = {IF k = m THEN [m EXCEPT !.at = "persisted", !.answered = (m.outcome = "seen")]
                           ELSE IF k.occ = m.occ
                           THEN [k EXCEPT !.answered = (m.outcome = "seen") /\ k.url = m.url]
                           ELSE k : k \in messages}
          BY <2>3, <3>2 DEF Persist
        <5>2. PICK k \in messages :
                \/ n = [m EXCEPT !.at = "persisted", !.answered = (m.outcome = "seen")]
                \/ n = [k EXCEPT !.answered = (m.outcome = "seen") /\ k.url = m.url]
                \/ n = k
          BY <5>1
        <5> QED BY <5>2, Typed DEF Message
      <4> QED BY <4>1
    <3> QED BY <3>1, <3>2
  <2>4. ASSUME NEW m \in messages, Record(m) PROVE Origin
    <3>1. PICK k \in messages :
            n = IF k = m THEN [m EXCEPT !.at = "recorded"]
                ELSE IF k.occ = m.occ /\ k.url = m.url /\ k.at = "day"
                THEN [k EXCEPT !.at = "overtaken"] ELSE k
      BY <2>4 DEF Record
    <3> QED BY <3>1, Typed DEF Message
  <2>5. ASSUME NEW m \in messages, CompleteVisit(m) PROVE Origin
    <3>1. CASE Defer(m) BY <1>0, <1>2, <3>1 DEF Defer
    <3>2. CASE m.lease # "none" /\ Complete(m, FALSE)
      <4>1. Settle(m, FALSE) BY <3>2 DEF Settle
      <4> QED BY <1>1, <4>1
    <3>3. CASE Acknowledge(m) BY <1>1, <3>3
    <3> QED BY <2>5, <3>1, <3>2, <3>3 DEF CompleteVisit
  <2>6. ASSUME NEW m \in messages, RecordCompletion(m) PROVE Origin
    BY <1>0, <2>6 DEF RecordCompletion
  <2>7. ASSUME NEW m \in messages, Visit(m) PROVE Origin
    <3>1. CASE Answer(m) BY <1>1, <3>1 DEF Answer
    <3>2. CASE ~Answer(m)
      <4>1. PICK outcome \in {"seen", "gone", "failed"} :
              messages' = (messages \ {m}) \cup {[m EXCEPT !.at = "visited", !.outcome = outcome]}
        BY <2>7, <3>2 DEF Visit, Move
      <4>2. CASE n \in messages BY <1>0, <4>2
      <4>3. CASE n \notin messages
        <5>1. n = [m EXCEPT !.at = "visited", !.outcome = outcome] BY <4>1, <4>3
        <5>2. n.at = "visited" /\ n.occ = m.occ /\ n.url = m.url BY <5>1, Typed DEF Message
        <5>3. m.at \in Chosen BY <2>7 DEF Visit
        <5> QED BY <4>1, <5>1, <5>2, <5>3 DEF Visited
      <4> QED BY <4>2, <4>3
    <3> QED BY <3>1, <3>2
  <2> QED BY <1>4, <2>1, <2>2, <2>3, <2>4, <2>5, <2>6, <2>7 DEF Consumer
<1>5. ASSUME RunStops PROVE Origin
  <2>1. n \in messages \/ \E m \in messages : n \in Retried(m, "queue") BY <1>5 DEF RunStops, At
  <2> QED BY <1>0, <1>2, <2>1
<1>6. ASSUME NEW x \in Occurrences,
             CatalogChanges(x) \/ Request(x) \/ FallsDue(x) \/ LeaseLapses(x) \/ \E v \in Urls : DayEnds(x, v)
      PROVE  Origin
  <2>1. CASE CatalogChanges(x)
    <3>1. PICK k \in messages : n.at = k.at /\ n.occ = k.occ /\ n.url = k.url
      <4>1. PICK v \in Urls, k \in messages :
              n = [k EXCEPT !.answered = k.answered /\ (k.occ = x => catalog[x].url = v)]
        BY <2>1 DEF CatalogChanges
      <4> QED BY <4>1, Typed DEF Message
    <3> QED BY <3>1
  <2>2. CASE Request(x) BY <1>0, <2>2 DEF Request
  <2> QED BY <1>0, <1>6, <2>1, <2>2 DEF FallsDue, LeaseLapses, DayEnds
<1>7. ASSUME NEW m \in messages, DelayEnds(m) \/ Fail(m) PROVE Origin
  <2>1. CASE DelayEnds(m) BY <1>0, <2>1, Typed DEF DelayEnds, Move, Message
  <2>2. CASE Fail(m) BY <1>0, <1>2, <2>2 DEF Fail
  <2> QED BY <1>7, <2>1, <2>2
<1>8. ASSUME CronStops \/ UNCHANGED vars PROVE Origin BY <1>0, <1>8 DEF CronStops, vars
<1> QED BY <1>3, <1>4, <1>5, <1>6, <1>7, <1>8 DEF Next

\* No other message of the batch waits for the page that a message begins to visit.
LEMMA VisitsAreForMetadata ==
  ASSUME IInv, [Next]_vars, NEW o \in Occurrences, NEW u \in Urls
  PROVE  /\ Begins(o, u, "visited") =>
              /\ \A place \in Chosen : ~Standing(o, u, place, messages')
              /\ u \in recent[o] => Standing(o, u, "again", messages)
         /\ Begins(o, u, "again") => ~catalog[o].extracted
<1>1. ASSUME Begins(o, u, "visited")
      PROVE  /\ \A place \in Chosen : ~Standing(o, u, place, messages')
             /\ u \in recent[o] => Standing(o, u, "again", messages)
  <2>1. PICK n \in messages' : n.occ = o /\ n.url = u /\ n.at = "visited"
    BY <1>1 DEF Begins, Standing
  <2>2. ~\E k \in messages : k.occ = n.occ /\ k.url = n.url /\ k.at = n.at
    BY <1>1, <2>1 DEF Begins, Standing
  <2>3. PICK m \in messages : /\ m.at \in Chosen /\ m.occ = o /\ m.url = u
                              /\ messages' = (messages \ {m}) \cup {n}
    BY <2>1, <2>2, Origins
  <2>4. ASSUME NEW k \in messages', k.occ = o, k.url = u PROVE k.at \notin Chosen
    <3>1. CASE k = n BY <2>1, <3>1 DEF Chosen
    <3>2. CASE k \in messages \ {m}
      <4>1. PairOK(k, m) BY <3>2 DEF IInv, MessagesOK
      <4> QED BY <2>3, <2>4, <3>2, <4>1 DEF PairOK, Started
    <3> QED BY <2>3, <3>1, <3>2
  <2>5. u \in recent[o] => m.at = "again"
    <3>1. MessageOK(m, row, recent) BY Typed
    <3> QED BY <2>3, <3>1 DEF MessageOK, Chosen
  <2> QED BY <2>3, <2>4, <2>5 DEF Standing
<1>2. ASSUME Begins(o, u, "again") PROVE ~catalog[o].extracted
  <2>1. PICK n \in messages' : n.occ = o /\ n.url = u /\ n.at = "again"
    BY <1>2 DEF Begins, Standing
  <2>2. ~\E k \in messages : k.occ = n.occ /\ k.url = n.url /\ k.at = n.at
    BY <1>2, <2>1 DEF Begins, Standing
  <2> QED BY <2>1, <2>2, Origins
<1> QED BY <1>1, <1>2

-----------------------------------------------------------------------------
\* The invariant of the schedule, of the messages in the queue and of those at work.
THEOREM Invariant == Spec => []IInv
<1>1. Init => IInv BY InitOK
<1>2. IInv /\ [Next]_vars => IInv' BY IInvStep
<1> QED BY <1>1, <1>2, PTL DEF Spec

\* The rows of the schedule, its messages and the keys of completed checks keep their types:
\* a check always gets a time of its own (catalog-admission-store.ts:1423).
THEOREM TypeCorrect == Spec => []TypeOK
<1>1. IInv => TypeOK BY DEF IInv
<1> QED BY <1>1, Invariant, PTL

\* A retry that waits out its day under its lease finds the row leased: leaseDueVerifications
\* (catalog-admission-store.ts:1387) cannot hand its check to a second message.
THEOREM RetriesKeepTheLease == Spec => []RetryOwnsLease
<1>1. IInv => RetryOwnsLease
  BY DEF IInv, MessagesOK, MessageOK, RetryOwnsLease, Deferred, Of
<1> QED BY <1>1, Invariant, PTL

\* However many messages the schedule, the poll and the queue put in one batch, it visits a page
\* once (destination-verification.ts:467), and within a day of an attempt only for metadata that
\* were not extracted when the message was chosen (destination-verification.ts:470).
THEOREM RevisitsAreForMetadata == Spec => RevisitedForMetadata
<1>1. IInv /\ [Next]_vars =>
        [\A o \in Occurrences, u \in Urls :
           /\ Begins(o, u, "visited") =>
                /\ \A place \in Chosen : ~Standing(o, u, place, messages')
                /\ u \in recent[o] => Standing(o, u, "again", messages)
           /\ Begins(o, u, "again") => ~catalog[o].extracted]_vars
  BY VisitsAreForMetadata
<1> QED BY <1>1, Invariant, PTL DEF Spec, RevisitedForMetadata

-----------------------------------------------------------------------------
(***************************************************************************)
(* The health row of a source, for any number of consumers and operators.   *)
(* A writer works on a copy of the row that may be old; the invariant says    *)
(* that every copy is a row the source could have, and that an operator's      *)
(* request was allowed by its own copy.                                     *)
(***************************************************************************)
PollOK(c) == poll[c].pc # "idle" => Coherent(poll[c].base)

CallOK(o) == call[o].pc # "idle" =>
  /\ Coherent(call[o].base)
  /\ call[o].pc = "read" => call[o].action # "replay" /\ ~Refused(call[o].action, call[o].base)
  /\ call[o].pc = "send" /\ call[o].action = "recover" => call[o].base.state = "quarantined"

HealthInv ==
  /\ ControlTypeOK /\ RowIsCoherent
  /\ \A c \in Consumers : PollOK(c)
  /\ \A o \in Operators : CallOK(o)

-----------------------------------------------------------------------------
(* What the operators of the model return.                                  *)

LEMMA Copies ==
  ASSUME NEW r \in SourceHealth, Coherent(r), NEW s \in Later(r)
  PROVE  s \in SourceHealth /\ Coherent(s) /\ s.state = r.state
<1>1. CASE s = r BY <1>1
<1>2. CASE r.backoff = "future" /\ s = [r EXCEPT !.backoff = "past"]
  BY <1>2 DEF SourceHealth, Coherent
<1> QED BY <1>1, <1>2 DEF Later

LEMMA Successes ==
  ASSUME NEW r \in SourceHealth
  PROVE  Succeeded(r) \in SourceHealth /\ Coherent(Succeeded(r))
  BY ControlAssumption DEF Succeeded, SourceHealth, Coherent

LEMMA Failures ==
  ASSUME NEW r \in SourceHealth, Coherent(r), NEW failure \in Failure
  PROVE  /\ Failed(r, failure) \in SourceHealth /\ Coherent(Failed(r, failure))
         /\ r.state = "quarantined" => Failed(r, failure).state = "quarantined"
<1> DEFINE n == Smaller(r.failures + 1, Threshold)
           quarantined == r.state = "quarantined" \/ ShouldQuarantine(failure, n)
<1>1. n \in 0..Threshold /\ n > 0 BY ControlAssumption DEF Smaller, SourceHealth
<1>2. n = 1 => r.failures \in {0, 1} BY ControlAssumption DEF Smaller, SourceHealth
<1>3. r.state # "quarantined" /\ n = 1 => r.incident = "resolved"
  BY <1>2 DEF Coherent, SourceHealth
<1> HIDE DEF n
<1>4. Failed(r, failure) = FailedWith(r, failure, n,
quarantined) BY DEF Failed, n
<1>5. CASE quarantined
  <2>1. Failed(r, failure) =
          [state |-> "quarantined", status |-> "paused", failures |-> n,
           backoff |-> IF failure = "transient" THEN "future" ELSE "none",
           incident |-> IF r.incident = "acknowledged" THEN "acknowledged" ELSE "open"]
    BY <1>4, <1>5 DEF FailedWith, StateAfter
  <2> QED BY <1>1, <2>1 DEF SourceHealth, Coherent
<1>6. CASE ~quarantined
  <2>1. Failed(r, failure) =
          [state |-> "degraded", status |-> r.status, failures |-> n,
           backoff |-> IF failure = "transient" THEN "future" ELSE "none",
           incident |-> IF ~(n >= 2) THEN r.incident
                        ELSE IF r.incident = "acknowledged" THEN "acknowledged" ELSE "open"]
    BY <1>4, <1>6 DEF FailedWith, StateAfter
  <2>2. Failed(r, failure) \in SourceHealth BY <1>1, <2>1 DEF SourceHealth
  <2>3. Coherent(Failed(r, failure))
    BY <1>1, <1>3, <1>6, <2>1, ControlAssumption DEF SourceHealth, Coherent
  <2> QED BY <1>6, <2>2, <2>3
<1> QED BY <1>5, <1>6

LEMMA Changes ==
  ASSUME NEW r \in SourceHealth, Coherent(r), NEW action \in Action, action # "replay", ~Refused(action, r)
  PROVE  /\ Changed(action, r) \in SourceHealth /\ Coherent(Changed(action, r))
         /\ r.state = "quarantined" => Changed(action, r).state = "quarantined"
<1>1. CASE action = "pause" BY <1>1 DEF Changed, SourceHealth, Coherent
<1>2. CASE action = "resume"
  BY <1>2 DEF Changed, SourceHealth, Coherent, Refused
<1>3. CASE action = "quarantine" BY <1>3 DEF Changed, SourceHealth, Coherent
<1>4. CASE action = "acknowledge"
  BY <1>4 DEF Changed, SourceHealth, Coherent, Refused
<1>5. CASE action = "resolve" BY <1>5 DEF Changed, SourceHealth, Coherent
<1>6. CASE action = "recover"
  BY <1>6 DEF Changed, SourceHealth, Coherent, Refused
<1> QED BY <1>1, <1>2, <1>3, <1>4, <1>5, <1>6 DEF Action

\* Later copies are refused what the first copy was.
LEMMA LaterRefused ==
  ASSUME NEW r \in SourceHealth, NEW s \in Later(r), NEW action \in Action, ~Refused(action, r)
  PROVE  ~Refused(action, s)
  BY DEF Later, Refused, SourceHealth

-----------------------------------------------------------------------------
LEMMA HealthInit == ASSUME ControlInit PROVE HealthInv
  BY ControlAssumption DEF ControlInit, HealthInv, ControlTypeOK, SourceHealth, Poll, Call,
         NoPoll, NoCall, NeverPolled, RowIsCoherent,
         Coherent,
         PollOK, CallOK, WorkMessage

\* The rows of the requests at work are typed.
LEMMA CopiesTyped ==
  ASSUME HealthInv
  PROVE  /\ \A c \in Consumers : poll[c].pc # "idle" =>
              poll[c] \in Poll /\ Coherent(poll[c].base) /\ poll[c].base \in SourceHealth
         /\ \A o \in Operators : call[o].pc # "idle" =>
              call[o] \in Call /\ call[o].base \in SourceHealth /\ call[o].action \in Action
  BY DEF HealthInv, ControlTypeOK, PollOK, Poll, Call, NoPoll,
         NoCall

\* What may be written to the row.
Write(r) == r \in SourceHealth /\ Coherent(r)

\* A message that is put back is one that was delivered.
LEMMA Retries ==
  ASSUME HealthInv, NEW c \in Consumers, poll[c].pc # "idle", Retry(c) \/ Ack(c)
  PROVE  /\ poll' \in [Consumers -> Poll \cup {NoPoll}] /\ queue' \subseteq WorkMessage
         /\ \A d \in Consumers : PollOK(d)'
<1>1. poll[c] \in Poll BY CopiesTyped
<1>2. [poll[c].msg EXCEPT !.tries = poll[c].msg.tries + 1] \in WorkMessage \/ ~(poll[c].msg.tries < Deliveries)
  BY <1>1, ControlAssumption DEF Poll, WorkMessage
<1>3. queue' \subseteq WorkMessage
  BY <1>2 DEF Retry, Ack, HealthInv, ControlTypeOK
<1>4. poll' \in [Consumers -> Poll \cup {NoPoll}]
  BY DEF Retry, Ack, HealthInv, ControlTypeOK
<1>5. \A d \in Consumers : PollOK(d)'
  BY DEF Retry, Ack, HealthInv, ControlTypeOK, PollOK, NoPoll
<1> QED BY <1>3, <1>4, <1>5

LEMMA Moves ==
  ASSUME HealthInv, NEW c \in Consumers, NEW p \in Poll, Coherent(p.base), poll' = [poll EXCEPT ![c] = p]
  PROVE  poll' \in [Consumers -> Poll \cup {NoPoll}] /\ \A d \in Consumers : PollOK(d)'
  BY DEF HealthInv, ControlTypeOK, PollOK

\* What each action writes to the row.
LEMMA Writes == ASSUME HealthInv, [ControlNext]_controlVars PROVE health' = health \/ Write(health')
<1>0. Write(health) BY DEF Write, HealthInv, ControlTypeOK, RowIsCoherent
<1>1. ASSUME NEW c \in Consumers, PollSucceeds(c) PROVE Write(health')
  BY <1>1, CopiesTyped, Successes DEF PollSucceeds, Write
<1>2. ASSUME NEW c \in Consumers, PollFails(c) PROVE health' = health \/ Write(health')
  <2>1. PICK failure \in Failure : poll[c].pc # "idle" /\ health' \in {Failed(poll[c].base, failure), health}
    BY <1>2 DEF PollFails
  <2> QED BY <2>1, CopiesTyped, Failures DEF Write
<1>3. ASSUME NEW c \in Consumers, StampWrite(c) \/ StampFails(c) PROVE health' = health \/ Write(health')
  BY <1>3, CopiesTyped, Copies DEF StampWrite, StampFails, Write
<1>4. ASSUME NEW o \in Operators, Change(o) PROVE Write(health')
  <2>1. /\ call[o].base \in SourceHealth /\ call[o].action \in Action /\ Coherent(call[o].base)
        /\ call[o].action # "replay" /\ ~Refused(call[o].action, call[o].base)
    BY <1>4, CopiesTyped DEF Change, HealthInv, CallOK
  <2>2. PICK base \in Later(call[o].base) : health' = Changed(call[o].action, base)
    BY <1>4 DEF Change
  <2>3. base \in SourceHealth /\ Coherent(base) /\ ~Refused(call[o].action, base)
    BY <2>1, <2>2, Copies, LaterRefused
  <2> QED BY <2>1, <2>2, <2>3, Changes DEF Write
<1>5. ASSUME NEW o \in Operators, SendFails(o) PROVE health' = health \/ Write(health')
  <2>1. CASE call[o].action = "recover"
    <3>1. /\ call[o].base \in SourceHealth /\ Coherent(call[o].base) /\ call[o].base.state = "quarantined"
      BY <1>5, <2>1, CopiesTyped DEF SendFails, HealthInv, CallOK
    <3>2. PICK base \in Later(call[o].base) : health' = [base EXCEPT !.status = "paused"]
      BY <1>5, <2>1 DEF SendFails
    <3>3. base \in SourceHealth /\ Coherent(base) /\ base.state = "quarantined"
      BY <3>1, <3>2, Copies
    <3> QED BY <3>2, <3>3 DEF Write, SourceHealth, Coherent
  <2> QED BY <1>5, <2>1 DEF SendFails
<1>6. CASE BackoffEnds
  <2>1. health' = [health EXCEPT !.backoff = "past"] /\ health' \in Later(health) BY <1>6 DEF BackoffEnds, Later
  <2> QED BY <1>0, <2>1, Copies DEF Write
<1> QED
  BY <1>1, <1>2, <1>3, <1>4, <1>5, <1>6
  DEF ControlNext, Poller, Operator, Dispatch, DispatchBlind,
      Take, ReadHealth, StampRead, ConsumerDies,
      Ask, SendPoll, RequestDies, controlVars

-----------------------------------------------------------------------------
\* Polls keep copies of rows that were coherent when they were read.
LEMMA PollStep ==
  ASSUME HealthInv, [ControlNext]_controlVars
  PROVE  /\ poll' \in [Consumers -> Poll \cup {NoPoll}] /\ queue' \subseteq WorkMessage
         /\ \A d \in Consumers : PollOK(d)'
<1>0. /\ poll \in [Consumers -> Poll \cup {NoPoll}] /\ queue \subseteq WorkMessage
      /\ \A d \in Consumers : PollOK(d) /\ Write(health)
  BY DEF HealthInv, ControlTypeOK, Write, RowIsCoherent
<1>1. CASE poll' = poll /\ queue' \subseteq WorkMessage BY <1>0, <1>1 DEF PollOK
<1>2. ASSUME NEW c \in Consumers, NEW m \in queue, Take(c, m)
      PROVE  /\ poll' \in [Consumers -> Poll \cup {NoPoll}] /\ queue' \subseteq WorkMessage
             /\ \A d \in Consumers : PollOK(d)'
  <2> DEFINE p == [pc |-> "gated", msg |-> m, base |-> NeverPolled]
  <2>1. p \in Poll /\ Coherent(p.base)
    BY <1>0, ControlAssumption DEF Poll, NeverPolled, SourceHealth, Coherent
  <2>2. poll' = poll \/ poll' = [poll EXCEPT ![c] = p] BY <1>2 DEF Take
  <2>3. queue' \subseteq WorkMessage BY <1>0, <1>2 DEF Take
  <2> HIDE DEF p
  <2> QED BY <1>1, <2>1, <2>2, <2>3, Moves
<1>3. ASSUME NEW c \in Consumers, ReadHealth(c) \/ StampRead(c)
      PROVE  poll' \in [Consumers -> Poll \cup {NoPoll}] /\ queue' \subseteq WorkMessage
             /\ \A d \in Consumers : PollOK(d)'
  <2>1. poll[c] \in Poll BY <1>3, CopiesTyped DEF ReadHealth, StampRead
  <2>2. PICK pc \in {"fetch", "stamp"} : poll' = [poll EXCEPT ![c] = [poll[c] EXCEPT !.pc = pc, !.base = health]]
    BY <1>0, <1>3, <2>1 DEF ReadHealth, StampRead, Poll
  <2>3. [poll[c] EXCEPT !.pc = pc, !.base = health] \in Poll
        /\ Coherent([poll[c] EXCEPT !.pc = pc, !.base = health].base)
    BY <1>0, <2>1 DEF Poll, Write
  <2> QED BY <1>0, <1>3, <2>2, <2>3, Moves DEF ReadHealth, StampRead
<1>4. ASSUME NEW c \in Consumers, PollSucceeds(c)
      PROVE  poll' \in [Consumers -> Poll \cup {NoPoll}] /\ queue' \subseteq WorkMessage
             /\ \A d \in Consumers : PollOK(d)'
  <2>1. poll[c] \in Poll /\ Coherent(poll[c].base)
    BY <1>4, CopiesTyped DEF PollSucceeds
  <2>2. [poll[c] EXCEPT !.pc = "stored"] \in Poll /\ [poll[c] EXCEPT !.pc = "stored"].base = poll[c].base
    BY <2>1 DEF Poll
  <2> QED BY <1>0, <1>4, <2>1, <2>2, Moves DEF PollSucceeds
<1>5. ASSUME NEW c \in Consumers, PollFails(c) \/ StampWrite(c) \/ StampFails(c) \/ ConsumerDies(c)
      PROVE  /\ poll' \in [Consumers -> Poll \cup {NoPoll}] /\ queue' \subseteq WorkMessage
             /\ \A d \in Consumers : PollOK(d)'
  BY <1>5, Retries DEF PollFails, StampWrite, StampFails,
                       ConsumerDies
<1>6. Dispatch \/ DispatchBlind \/ (\E o \in Operators : SendPoll(o)) => poll' = poll /\ queue' \subseteq WorkMessage
  <2>1. \A force \in BOOLEAN : [force |-> force, tries |-> 1] \in WorkMessage
    BY ControlAssumption DEF WorkMessage
  <2>2. \A force \in BOOLEAN : queue \cup {[force |-> force, tries |-> 1]} \subseteq WorkMessage
    BY <1>0, <2>1
  <2>3. queue \cup {[force |-> TRUE, tries |-> 1]} \subseteq WorkMessage
        /\ queue \cup {[force |-> FALSE, tries |-> 1]} \subseteq WorkMessage
    BY <2>2
  <2> QED BY <2>3 DEF Dispatch, DispatchBlind, SendPoll
<1>7. BackoffEnds \/ UNCHANGED controlVars \/ (\E o \in Operators : Ask(o) \/ Change(o) \/ SendFails(o) \/ RequestDies(o))
        => poll' = poll /\ queue' \subseteq WorkMessage
  BY <1>0 DEF BackoffEnds, controlVars, Ask, Change, SendFails,
              RequestDies
<1> QED
  BY <1>1, <1>2, <1>3, <1>4, <1>5, <1>6, <1>7 DEF ControlNext, Poller, Operator

\* Requests of operators keep a copy by which they were allowed.
LEMMA CallStep ==
  ASSUME HealthInv, [ControlNext]_controlVars
  PROVE  /\ call' \in [Operators -> Call \cup {NoCall}] /\ \A o \in Operators : CallOK(o)'
<1>0. /\ call \in [Operators -> Call \cup {NoCall}] /\ Write(health)
      /\ \A o \in Operators : CallOK(o)
  BY DEF HealthInv, ControlTypeOK, Write, RowIsCoherent
<1>1. CASE call' = call BY <1>0, <1>1 DEF CallOK
<1>2. ASSUME NEW o \in Operators, Reply(o)
      PROVE  call' \in [Operators -> Call \cup {NoCall}] /\ \A p \in Operators : CallOK(p)'
  BY <1>0, <1>2 DEF Reply, NoCall, CallOK
<1>3. ASSUME NEW o \in Operators, Ask(o)
      PROVE  call' \in [Operators -> Call \cup {NoCall}] /\ \A p \in Operators : CallOK(p)'
  <2>1. PICK action \in Action :
          /\ ~Refused(action, health)
          /\ call' = [call EXCEPT ![o] = [pc |-> IF action = "replay" THEN "send" ELSE "read",
                                          action |-> action,
                                          base |-> IF action = "replay" THEN NeverPolled ELSE health]]
    BY <1>3 DEF Ask
  <2>2. CASE action = "replay"
    <3> DEFINE asking == [pc |-> "send", action |-> "replay", base |-> NeverPolled]
    <3>1. call' = [call EXCEPT ![o] = asking] BY <2>1, <2>2
    <3>2. asking \in Call /\ Coherent(asking.base)
      BY ControlAssumption DEF Call, NeverPolled, SourceHealth, Coherent, Action
    <3> QED BY <1>0, <3>1, <3>2 DEF CallOK
  <2>3. CASE action # "replay"
    <3> DEFINE asking == [pc |-> "read", action |-> action, base |-> health]
    <3>1. call' = [call EXCEPT ![o] = asking] BY <2>1, <2>3
    <3>2. asking \in Call /\ Coherent(asking.base) BY <1>0 DEF Call, Write
    <3> QED BY <1>0, <2>1, <2>3, <3>1, <3>2 DEF CallOK
  <2> QED BY <2>2, <2>3
<1>4. ASSUME NEW o \in Operators, Change(o), call[o].action = "recover"
      PROVE  call' \in [Operators -> Call \cup {NoCall}] /\ \A p \in Operators : CallOK(p)'
  <2> DEFINE sending == [call[o] EXCEPT !.pc = "send"]
  <2>1. call[o] \in Call /\ Coherent(call[o].base) /\ call[o].base.state = "quarantined"
    BY <1>0, <1>4, CopiesTyped DEF Change, CallOK, Refused
  <2>2. call' = [call EXCEPT ![o] = sending] BY <1>4 DEF Change
  <2>3. sending \in Call /\ sending.pc = "send" /\ sending.base = call[o].base BY <2>1 DEF Call
  <2> HIDE DEF sending
  <2> QED BY <1>0, <2>1, <2>2, <2>3 DEF CallOK
<1>5. (\E o \in Operators : (Change(o) /\ call[o].action # "recover") \/ SendPoll(o) \/ SendFails(o) \/ RequestDies(o))
        => \E o \in Operators : Reply(o)
  BY DEF Change, SendPoll, SendFails, RequestDies
<1>6. BackoffEnds \/ Dispatch \/ DispatchBlind \/ UNCHANGED controlVars
        \/ (\E c \in Consumers : Poller(c) \/ ConsumerDies(c)) => call' = call
  BY DEF BackoffEnds, controlVars, Dispatch, DispatchBlind,
         Poller, ConsumerDies, Take, ReadHealth,
         PollSucceeds, PollFails, StampRead, StampWrite,
         StampFails
<1> QED BY <1>1, <1>2, <1>3, <1>4, <1>5, <1>6 DEF ControlNext, Operator

\* The bounds are kept.
LEMMA CountStep ==
  ASSUME HealthInv, [ControlNext]_controlVars PROVE asked' \in 0..MaxCalls /\ faults' \in 0..MaxFaults
<1>1. asked \in 0..MaxCalls /\ faults \in 0..MaxFaults BY DEF HealthInv, ControlTypeOK
<1>2. Fault \/ faults' = faults
  BY DEF ControlNext, controlVars, Dispatch, DispatchBlind,
         BackoffEnds, Poller, ConsumerDies, Take,
         ReadHealth,
         PollSucceeds, PollFails, StampRead, StampWrite,
         StampFails, Ask, Operator, Change, SendPoll,
         SendFails, RequestDies
<1>3. asked' = asked \/ (asked < MaxCalls /\ asked' = asked + 1)
  BY DEF ControlNext, controlVars, Dispatch, DispatchBlind,
         BackoffEnds, Poller, ConsumerDies, Take,
         ReadHealth,
         PollSucceeds, PollFails, StampRead, StampWrite,
         StampFails, Ask, Operator, Change, SendPoll,
         SendFails, RequestDies
<1> QED BY <1>1, <1>2, <1>3, ControlAssumption DEF Fault

LEMMA HealthStep == ASSUME HealthInv, [ControlNext]_controlVars PROVE HealthInv'
<1>1. health' \in SourceHealth /\ RowIsCoherent'
  BY Writes DEF Write, HealthInv, ControlTypeOK, RowIsCoherent
<1> QED BY <1>1, PollStep, CallStep, CountStep DEF HealthInv, ControlTypeOK

-----------------------------------------------------------------------------
\* Who ends a quarantine polled cleanly or had not read of it.
QuarantineStep == health.state = "quarantined" /\ health'.state # "quarantined" => CleanPoll \/ UnawareWrite

LEMMA Unaware == ASSUME HealthInv, [ControlNext]_controlVars PROVE QuarantineStep
<1> SUFFICES ASSUME health.state = "quarantined", health'.state # "quarantined"
             PROVE  CleanPoll \/ UnawareWrite
  BY DEF QuarantineStep
<1>0. /\ health' # health /\ poll \in [Consumers -> Poll \cup {NoPoll}]
      /\ call \in [Operators -> Call \cup {NoCall}]
  BY DEF HealthInv, ControlTypeOK
<1>1. ASSUME NEW c \in Consumers, PollSucceeds(c) PROVE CleanPoll
  <2>1. poll[c] \in Poll BY <1>1, CopiesTyped DEF PollSucceeds
  <2> QED BY <1>0, <1>1, <2>1 DEF PollSucceeds, CleanPoll, Poll
<1>2. ASSUME NEW c \in Consumers, PollFails(c) PROVE UnawareWrite
  <2>1. PICK failure \in Failure :
          poll[c].pc # "idle" /\ health' \in {Failed(poll[c].base, failure), health} /\ Retry(c)
    BY <1>2 DEF PollFails
  <2>2. poll[c].base.state # "quarantined" BY <1>0, <2>1, CopiesTyped, Failures
  <2>3. poll'[c] # poll[c] BY <1>0, <2>1 DEF Retry, NoPoll
  <2> QED BY <2>1, <2>2, <2>3 DEF UnawareWrite
<1>3. ASSUME NEW c \in Consumers, StampWrite(c) \/ StampFails(c) PROVE UnawareWrite
  <2>1. poll[c].pc # "idle" /\ health' \in Later(poll[c].base)
    BY <1>0, <1>3 DEF StampWrite, StampFails
  <2>2. poll[c].base.state # "quarantined" BY <2>1, CopiesTyped, Copies
  <2>3. poll'[c] # poll[c]
    BY <1>0, <1>3, <2>1 DEF StampWrite, StampFails, Retry, Ack,
                            NoPoll
  <2> QED BY <2>1, <2>2, <2>3 DEF UnawareWrite
<1>4. ASSUME NEW o \in Operators, Change(o) PROVE UnawareWrite
  <2>1. /\ call[o] \in Call /\ call[o].base \in SourceHealth /\ call[o].action \in Action
        /\ Coherent(call[o].base) /\ call[o].pc = "read"
        /\ call[o].action # "replay" /\ ~Refused(call[o].action, call[o].base)
    BY <1>4, CopiesTyped DEF Change, HealthInv, CallOK
  <2>2. PICK base \in Later(call[o].base) : health' = Changed(call[o].action, base)
    BY <1>4 DEF Change
  <2>3. base \in SourceHealth /\ Coherent(base) /\ base.state = call[o].base.state
        /\ ~Refused(call[o].action, base)
    BY <2>1, <2>2, Copies, LaterRefused
  <2>4. call[o].base.state # "quarantined" BY <2>1, <2>2, <2>3, Changes
  <2>5. call'[o] # call[o]
    BY <1>0, <1>4, <2>1 DEF Change, Reply, NoCall, Call
  <2> QED BY <2>1, <2>4, <2>5 DEF UnawareWrite
<1>5. ASSUME NEW o \in Operators, SendFails(o) PROVE UnawareWrite
  <2>1. call[o].action = "recover" BY <1>0, <1>5 DEF SendFails
  <2>2. /\ call[o].base \in SourceHealth /\ Coherent(call[o].base) /\ call[o].base.state = "quarantined"
    BY <1>5, <2>1, CopiesTyped DEF SendFails, HealthInv, CallOK
  <2>3. PICK base \in Later(call[o].base) : health' = [base EXCEPT !.status = "paused"]
    BY <1>5, <2>1 DEF SendFails
  <2>4. base \in SourceHealth /\ base.state = "quarantined" BY <2>2, <2>3, Copies
  <2> QED BY <2>3, <2>4 DEF SourceHealth
<1>6. ~BackoffEnds BY DEF BackoffEnds, HealthInv, ControlTypeOK, SourceHealth
<1> QED
  BY <1>0, <1>1, <1>2, <1>3, <1>4, <1>5, <1>6
  DEF ControlNext, Poller, Operator, Dispatch, DispatchBlind,
      Take, ReadHealth, StampRead, ConsumerDies,
      Ask, SendPoll, RequestDies, controlVars

-----------------------------------------------------------------------------
\* The invariant of the health row and of the copies that its writers hold.
THEOREM HealthInvariant == ControlSpec => []HealthInv
<1>1. ControlInit => HealthInv BY HealthInit
<1>2. HealthInv /\ [ControlNext]_controlVars => HealthInv' BY HealthStep
<1> QED BY <1>1, <1>2, PTL DEF ControlSpec

\* The health row, the messages and the requests keep their types.
THEOREM HealthTyped == ControlSpec => []ControlTypeOK
<1>1. HealthInv => ControlTypeOK BY DEF HealthInv
<1> QED BY <1>1, HealthInvariant, PTL

\* However many consumers and operators overwrite each other's rows (source-health.ts:54),
\* what they leave is a row that one of them alone could have written.
THEOREM RowStaysCoherent == ControlSpec => []RowIsCoherent
<1>1. HealthInv => RowIsCoherent BY DEF HealthInv
<1> QED BY <1>1, HealthInvariant, PTL

\* A quarantine ends by a clean poll or by a writer that read the row before it began, and
\* by nobody else (source-health.ts:187).
THEOREM OnlyCleanPollsRelease == ControlSpec => QuarantineEndsCleanly
<1>1. HealthInv /\ [ControlNext]_controlVars =>
        [health.state = "quarantined" /\ health'.state # "quarantined" => CleanPoll \/ UnawareWrite]_controlVars
  BY Unaware DEF QuarantineStep
<1> QED BY <1>1, HealthInvariant, PTL DEF ControlSpec, QuarantineEndsCleanly
=============================================================================
