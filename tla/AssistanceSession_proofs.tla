---------------------- MODULE AssistanceSession_proofs ----------------------
(***************************************************************************)
(* Sessions, for any number of them, of requests, plans and messages. The    *)
(* invariant says what a copy that a request read, and a version that a      *)
(* message names, still mean when the row has moved on: nothing, unless the  *)
(* versions are equal, and then the copy is the row, and what the user saw   *)
(* is its plan.                                                            *)
(***************************************************************************)
EXTENDS AssistanceSession, TLAPS

\* Where a session is, or will be when its verification is completed.
Stage(x) == IF x.status = "awaiting-user-verification" THEN x.resume ELSE x.status
Early == {"created", "filling", "needs-input", "awaiting-user-review"}

SessionOK(x, a) ==
  /\ x.status = "awaiting-user-verification" => x.resume \in Resumable
  /\ Stage(x) = "awaiting-user-review" => x.plan \notin Incomplete
  /\ Stage(x) \in Early => x.approval = "none"
  /\ Stage(x) \in {"ready-for-user-submit", "submitted"} =>
       x.approval = x.plan /\ a = x.plan /\ x.plan \notin Incomplete

RowOK(s) ==
  /\ Exists(s) => SessionOK(session[s], agreed[s])
  /\ bearers[s] = IF Exists(s) THEN (IF session[s].consumed THEN 1 ELSE 0) ELSE 0

MessageOK(m) ==
  /\ Exists(m.at) /\ m.expected <= session[m.at].version
  /\ m.type = "review-approved" /\ m.expected = session[m.at].version => m.shown = session[m.at].plan

CopyOK(s, copy) ==
  /\ Exists(s) /\ copy.version <= session[s].version
  /\ copy.version = session[s].version => copy = session[s]

RequestOK(r) ==
  /\ request[r].pc = "event" =>
       /\ MessageOK(request[r].message) /\ CopyOK(request[r].message.at, request[r].copy)
       /\ Acceptable(request[r].copy, request[r].message)
  /\ request[r].pc = "exchange" =>
       CopyOK(request[r].at, request[r].copy) /\ Active(request[r].copy) /\ ~request[r].copy.consumed
  /\ request[r].pc = "create" =>
       /\ ~Exists(request[r].at)
       /\ \A q \in Requests \ {r} : request[q].pc = "create" => request[q].at # request[r].at

IInv ==
  /\ TypeOK
  /\ \A s \in Sessions : RowOK(s)
  /\ \A c \in Clients : message[c] # NoMessage => MessageOK(message[c])
  /\ \A r \in Requests : RequestOK(r)

-----------------------------------------------------------------------------
(* The state machine keeps the types and the meaning of a session.          *)

LEMMA Rows ==
  ASSUME TypeOK, NEW s \in Sessions, Exists(s)
  PROVE  session[s] \in Session
  BY DEF TypeOK, Exists, NoSession

LEMMA NotARow == NoSession \notin Session
  BY DEF NoSession, Session

LEMMA NotAMessage == NoMessage \notin Message
  BY DEF NoMessage, Message

LEMMA Fields ==
  ASSUME NEW x \in Session
  PROVE  /\ x.status \in Status /\ x.version \in Nat /\ x.plan \in Plans /\ x.approval \in Plans \cup {"none"}
         /\ x.resume \in Resumable \cup {"none"} /\ x.consumed \in BOOLEAN /\ x.seen \in SUBSET Ids
  BY DEF Session

LEMMA Machine ==
  ASSUME NEW x \in Session, NEW m \in Message, NEW a \in Plans \cup {"none"},
         SessionOK(x, a), Allowed(x.status, m.type), Approved(x, m.type)
  PROVE  LET b == IF m.type = "review-approved" THEN x.plan ELSE a
         IN  /\ Transition(x, m) \in Session /\ SessionOK(Transition(x, m), b)
             /\ Transition(x, m).consumed = x.consumed /\ Transition(x, m).version = x.version
             /\ Transition(x, m).seen = x.seen
<1> USE DEF Message
<1>1. m.type \in Type /\ m.plan \in Plans OBVIOUS
<1>2. x.plan \in Plans /\ "none" \notin Plans BY AssistanceAssumption, Fields DEF AssistanceAssumption
<1>4. CASE m.type = "start"
  <2>1. x.status = "created" BY <1>4 DEF Allowed, UserOnly
  <2>2. Transition(x, m) = [x EXCEPT !.status = "filling"] BY <1>4 DEF Transition
  <2> QED BY <1>4, <2>1, <2>2 DEF SessionOK, Stage, Early, Session, Status, Resumable
<1>5. CASE m.type \in {"fill-completed", "answers-updated"}
  <2>1. Transition(x, m) = Answered(x, m.plan) BY <1>5 DEF Transition
  <2> QED BY <1>1, <1>5, <2>1 DEF Answered, SessionOK, Stage, Early, Session, Status, Resumable
<1>6. CASE m.type = "review-approved"
  <2>1. x.status = "awaiting-user-review" BY <1>6 DEF Allowed
  <2>2. Transition(x, m) = [x EXCEPT !.status = "ready-for-user-submit", !.approval = x.plan] BY <1>6 DEF Transition
  <2> QED BY <1>2, <1>6, <2>1, <2>2 DEF SessionOK, Stage, Early, Session, Status, Resumable
<1>7. CASE m.type = "verification-required"
  <2>1. x.status \in Resumable BY <1>7 DEF Allowed
  <2>2. Transition(x, m) = [x EXCEPT !.status = "awaiting-user-verification", !.resume = x.status] BY <1>7 DEF Transition
  <2> QED BY <1>7, <2>1, <2>2 DEF SessionOK, Stage, Early, Session, Status, Resumable
<1>8. CASE m.type = "verification-completed"
  <2>1. x.status = "awaiting-user-verification" BY <1>8 DEF Allowed
  <2>2. Transition(x, m) = [x EXCEPT !.status = x.resume, !.resume = "none"] BY <1>8 DEF Transition
  <2> QED BY <1>8, <2>1, <2>2 DEF SessionOK, Stage, Early, Session, Status, Resumable
<1>9. CASE m.type = "submission-confirmed"
  <2>1. x.status = "ready-for-user-submit" BY <1>9 DEF Allowed
  <2>2. Transition(x, m) = [x EXCEPT !.status = "submitted"] BY <1>9 DEF Transition
  <2> QED BY <1>9, <2>1, <2>2 DEF SessionOK, Stage, Early, Session, Status, Resumable, Terminal
<1>10. CASE m.type = "fail"
  <2>1. Transition(x, m) = [x EXCEPT !.status = "failed"] BY <1>10 DEF Transition
  <2> QED BY <1>10, <2>1 DEF SessionOK, Stage, Early, Session, Status, Resumable, Terminal
<1>11. CASE m.type = "cancel"
  <2>1. Transition(x, m) = [x EXCEPT !.status = "cancelled"] BY <1>11 DEF Transition
  <2> QED BY <1>11, <2>1 DEF SessionOK, Stage, Early, Session, Status, Resumable, Terminal
<1> QED BY <1>1, <1>4, <1>5, <1>6, <1>7, <1>8, <1>9, <1>10, <1>11 DEF Type

\* The row that Take writes.
LEMMA Updates ==
  ASSUME NEW x \in Session, NEW m \in Message, NEW a \in Plans \cup {"none"},
         SessionOK(x, a), Allowed(x.status, m.type), Approved(x, m.type)
  PROVE  LET b == IF m.type = "review-approved" THEN x.plan ELSE a
         IN  /\ Updated(x, m) \in Session /\ SessionOK(Updated(x, m), b)
             /\ Updated(x, m).consumed = x.consumed /\ Updated(x, m).version = x.version + 1
<1> DEFINE y == Transition(x, m)
           b == IF m.type = "review-approved" THEN x.plan ELSE a
<1>1. y \in Session /\ SessionOK(y, b) /\ y.consumed = x.consumed /\ y.version = x.version
  BY Machine
<1>2. m.id \in Ids BY DEF Message
<1>3. Updated(x, m) = [y EXCEPT !.version = y.version + 1, !.seen = y.seen \cup {m.id}] BY DEF Updated
<1> HIDE DEF y, b
<1>4. [y EXCEPT !.version = y.version + 1, !.seen = y.seen \cup {m.id}] \in Session
  <2>1. \A z \in Session : \A v \in Nat, d \in SUBSET Ids : [z EXCEPT !.version = v, !.seen = d] \in Session
    BY DEF Session
  <2>2. y.version + 1 \in Nat /\ y.seen \cup {m.id} \in SUBSET Ids BY <1>1, <1>2, Fields
  <2> QED BY <1>1, <2>1, <2>2
<1>5. /\ Updated(x, m).status = y.status /\ Updated(x, m).plan = y.plan /\ Updated(x, m).resume = y.resume
      /\ Updated(x, m).approval = y.approval /\ Updated(x, m).consumed = y.consumed
      /\ Updated(x, m).version = y.version + 1
  BY <1>1, <1>3 DEF Session
<1>6. SessionOK(Updated(x, m), b) BY <1>1, <1>5 DEF SessionOK, Stage
<1>7. Updated(x, m) \in Session BY <1>3, <1>4
<1>8. Updated(x, m).consumed = x.consumed /\ Updated(x, m).version = x.version + 1 BY <1>1, <1>5
<1> QED BY <1>6, <1>7, <1>8 DEF b

-----------------------------------------------------------------------------
(* What copies and messages say of a row stays true, or becomes void.       *)

Grows(s) ==
  \/ session'[s] = session[s] \/ ~Exists(s)
  \/ Exists(s)' /\ session'[s].version = session[s].version + 1

LEMMA Later ==
  ASSUME TypeOK, TypeOK', NEW s \in Sessions, Grows(s)
  PROVE  /\ \A copy \in Session : CopyOK(s, copy) => CopyOK(s, copy)'
         /\ \A m \in Message : m.at = s /\ MessageOK(m) => MessageOK(m)'
<1>1. CASE ~Exists(s) BY <1>1 DEF CopyOK, MessageOK
<1>2. CASE Exists(s) /\ session'[s] = session[s]
  BY <1>2 DEF CopyOK, MessageOK, Exists
<1>3. CASE Exists(s) /\ Exists(s)' /\ session'[s].version = session[s].version + 1
  <2>1. session[s].version \in Nat BY <1>3, Rows, Fields
  <2>2. \A copy \in Session : copy.version \in Nat BY DEF Session
  <2>3. \A m \in Message : m.expected \in Nat BY DEF Message
  <2>4. ASSUME NEW copy \in Session, CopyOK(s, copy) PROVE CopyOK(s, copy)'
    BY <1>3, <2>1, <2>2, <2>4 DEF CopyOK
  <2>5. ASSUME NEW m \in Message, m.at = s, MessageOK(m) PROVE MessageOK(m)'
    BY <1>3, <2>1, <2>3, <2>5 DEF MessageOK
  <2> QED BY <2>4, <2>5
<1> QED BY <1>1, <1>2, <1>3 DEF Grows

LEMMA RequestFields ==
  ASSUME TypeOK, NEW r \in Requests
  PROVE  /\ request[r].pc = "event" =>
              request[r].message \in Message /\ request[r].copy \in Session
         /\ request[r].pc = "exchange" => request[r].at \in Sessions /\ request[r].copy \in Session
         /\ request[r].pc \in {"create", "submitted", "mark"} => request[r].at \in Sessions
BY DEF TypeOK, Request

\* Requests that a step leaves alone.
LEMMA Bystanders ==
  ASSUME IInv, TypeOK', \A s \in Sessions : Grows(s),
         \A q \in Requests : request'[q] = request[q] \/ request'[q].pc # "create",
         NEW q \in Requests, request'[q] = request[q],
         request[q].pc = "create" => session'[request[q].at] = session[request[q].at]
  PROVE  RequestOK(q)'
<1>1. TypeOK /\ RequestOK(q) BY DEF IInv
<1>2. request[q].pc = "event" => /\ request[q].message \in Message /\ request[q].copy \in Session
                                 /\ request[q].message.at \in Sessions
  BY <1>1, RequestFields DEF Message
<1>3. request[q].pc = "exchange" => request[q].at \in Sessions /\ request[q].copy \in Session
  BY <1>1, RequestFields
<1>4. ASSUME request[q].pc = "event"
      PROVE  /\ MessageOK(request[q].message)' /\ CopyOK(request[q].message.at, request[q].copy)'
             /\ Acceptable(request[q].copy, request[q].message)'
  <2> DEFINE m == request[q].message
             copy == request[q].copy
  <2>1. MessageOK(m) /\ CopyOK(m.at, copy) /\ Acceptable(copy, m) BY <1>1, <1>4 DEF RequestOK
  <2>2. PICK n \in Message, d \in Session : n = m /\ d = copy BY <1>2, <1>4
  <2>3. MessageOK(n)' /\ CopyOK(n.at, d)' BY <1>1, <1>2, <1>4, <2>1, <2>2, Later
  <2>4. Acceptable(d, n) BY <2>1, <2>2
  <2>5. m' = n /\ copy' = d BY <2>2
  <2> QED BY <2>3, <2>4, <2>5 DEF MessageOK, CopyOK, Acceptable, Exists
<1>5. ASSUME request[q].pc = "exchange"
      PROVE  CopyOK(request[q].at, request[q].copy)' /\ Active(request[q].copy)' /\ ~request[q].copy.consumed'
  <2>1. PICK s \in Sessions, d \in Session : s = request[q].at /\ d = request[q].copy BY <1>3, <1>5
  <2>2. CopyOK(s, d) /\ Active(d) /\ ~d.consumed BY <1>1, <1>5, <2>1 DEF RequestOK
  <2>3. CopyOK(s, d)' BY <1>1, <2>2, Later
  <2> QED BY <2>1, <2>2, <2>3 DEF CopyOK, Active, Exists
<1>6. ASSUME request[q].pc = "create"
      PROVE  /\ ~Exists(request[q].at)'
             /\ \A p \in Requests \ {q} : request'[p].pc = "create" => request'[p].at # request'[q].at
  BY <1>1, <1>6 DEF RequestOK, Exists
<1> QED BY <1>4, <1>5, <1>6 DEF RequestOK

-----------------------------------------------------------------------------
(* The actions keep the invariant.                                          *)

\* Steps that only read rows, or do not touch them.
LEMMA Reading ==
  ASSUME IInv, TypeOK', session' = session, bearers' = bearers, agreed' = agreed,
         \A c \in Clients : message'[c] # message[c] => MessageOK(message[c])',
         \A q \in Requests : request'[q] = request[q] \/ request'[q].pc # "create",
         \A q \in Requests : request'[q] # request[q] => RequestOK(q)'
  PROVE  IInv'
<1>1. \A s \in Sessions : Grows(s) BY DEF Grows
<1>2. \A s \in Sessions : RowOK(s)' BY DEF IInv, RowOK, Exists, SessionOK, Stage
<1>3. ASSUME NEW c \in Clients, message'[c] # NoMessage PROVE MessageOK(message[c])'
  BY <1>3 DEF IInv, MessageOK, Exists
<1>4. ASSUME NEW q \in Requests PROVE RequestOK(q)'
  BY <1>1, Bystanders
<1> QED BY <1>2, <1>3, <1>4 DEF IInv

\* Steps that write a row: what clients sent, and requests elsewhere, have grown old.
LEMMA Writing ==
  ASSUME IInv, TypeOK', NEW r \in Requests, NEW s \in Sessions, Grows(s), message' = message,
         \A t \in Sessions \ {s} : session'[t] = session[t] /\ bearers'[t] = bearers[t] /\ agreed'[t] = agreed[t],
         RowOK(s)', request'[r].pc \notin {"event", "exchange", "create"},
         \A q \in Requests \ {r} : request'[q] = request[q],
         \A q \in Requests \ {r} : request[q].pc = "create" => request[q].at # s
  PROVE  IInv'
<1> USE DEF IInv
<1>1. \A t \in Sessions : Grows(t) BY DEF Grows
<1>2. ASSUME NEW t \in Sessions PROVE RowOK(t)'
  BY DEF RowOK, Exists, SessionOK, Stage
<1>3. ASSUME NEW c \in Clients, message'[c] # NoMessage PROVE MessageOK(message[c])'
  <2>1. PICK m \in Message : m = message[c] BY <1>3 DEF TypeOK
  <2>2. m.at \in Sessions BY DEF Message
  <2>3. MessageOK(m) BY <1>3, <2>1
  <2>4. MessageOK(m)' BY <1>1, <2>2, <2>3, Later
  <2> QED BY <2>1, <2>4 DEF MessageOK, Exists
<1>4. ASSUME NEW q \in Requests PROVE RequestOK(q)'
  <2>1. CASE q = r BY <2>1 DEF RequestOK
  <2>2. CASE q # r
    <3>1. request[q].pc = "create" => request[q].at \in Sessions BY RequestFields
    <3> QED BY <1>1, <2>2, <3>1, Bystanders
  <2> QED BY <2>1, <2>2
<1> QED BY <1>2, <1>3, <1>4

LEMMA SendKeeps ==
  ASSUME IInv, NEW c \in Clients, NEW s \in Sessions, NEW type \in Type, NEW p \in Plans, Send(c, s, type, p)
  PROVE  IInv'
<1> DEFINE m == [id |-> <<c, Number(c) + 1>>, at |-> s, expected |-> session[s].version,
                 type |-> type, plan |-> p, shown |-> Shown(type, s)]
<1>1. TypeOK /\ Exists(s) /\ session[s] \in Session BY Rows DEF IInv, Send
<1>2. MaxMessages[c] \in Nat BY AssistanceAssumption DEF AssistanceAssumption, Clients
<1>3. Number(c) \in Nat
  <2>1. CASE message[c] = NoMessage BY <2>1 DEF Number
  <2>2. CASE message[c] # NoMessage
    <3>1. message[c].id \in Ids BY <1>1, <2>2 DEF TypeOK, Message
    <3>2. PICK d \in Clients : message[c].id \in {d} \X (1..MaxMessages[d]) BY <3>1 DEF Ids
    <3> QED BY <2>2, <3>2 DEF Number
  <2> QED BY <2>1, <2>2
<1>4. m.id \in Ids
  <2>1. <<c, Number(c) + 1>> \in {c} \X (1..MaxMessages[c]) BY <1>2, <1>3 DEF Send
  <2> QED BY <2>1 DEF Ids
<1>5. Shown(type, s) \in Plans
  BY <1>1, Fields, AssistanceAssumption DEF Shown, AssistanceAssumption
<1>6. session[s].version \in Nat BY <1>1, Fields
<1>7. m \in Message BY <1>4, <1>5, <1>6 DEF Message
<1>8. message' = [message EXCEPT ![c] = m] BY DEF Send
<1>9. UNCHANGED <<session, application, request, history>> BY DEF Send
<1>10. MessageOK(m) BY <1>1, <1>6 DEF MessageOK, Shown
<1>11. m.at = s /\ m.expected = session[s].version /\ (m.type = "review-approved" => m.shown = session[s].plan)
  BY DEF Shown
<1> HIDE DEF m
<1>12. TypeOK' BY <1>1, <1>7, <1>8, <1>9 DEF TypeOK, history
<1>13. message'[c] = m /\ \A d \in Clients \ {c} : message'[d] = message[d]
  BY <1>1, <1>8 DEF TypeOK
<1>14. MessageOK(message[c])' BY <1>1, <1>6, <1>9, <1>11, <1>13 DEF MessageOK, Exists
<1> QED BY <1>9, <1>12, <1>13, <1>14, Reading DEF history

LEMMA RebaseKeeps ==
  ASSUME IInv, NEW c \in Clients, Rebase(c)
  PROVE  IInv'
<1> DEFINE m == message[c]
           s == m.at
           n == [m EXCEPT !.expected = session[s].version, !.shown = Shown(m.type, s)]
<1>1. TypeOK /\ m # NoMessage /\ MessageOK(m) BY DEF IInv, Rebase
<1>2. m \in Message BY <1>1 DEF TypeOK
<1>3. s \in Sessions /\ Exists(s) BY <1>1, <1>2 DEF Message, MessageOK
<1>4. session[s] \in Session BY <1>1, <1>3, Rows
<1>5. session[s].version \in Nat BY <1>4, Fields
<1>6. Shown(m.type, s) \in Plans
  BY <1>4, Fields, AssistanceAssumption DEF Shown, AssistanceAssumption
<1>7. n \in Message /\ n.at = s /\ n.type = m.type /\ n.expected = session[s].version /\ n.shown = Shown(m.type, s)
  <2>1. PICK x \in Message, v \in Nat, p \in Plans : x = m /\ v = session[s].version /\ p = Shown(m.type, s)
    BY <1>2, <1>5, <1>6
  <2>2. n = [x EXCEPT !.expected = v, !.shown = p] BY <2>1
  <2> HIDE DEF n
  <2>3. n \in Message /\ n.at = x.at /\ n.type = x.type /\ n.expected = v /\ n.shown = p
    BY <2>2 DEF Message
  <2> QED BY <2>1, <2>3
<1>8. message' = [message EXCEPT ![c] = n] /\ UNCHANGED <<session, application, request, history>>
  BY DEF Rebase
<1> HIDE DEF n
<1>9. TypeOK' BY <1>1, <1>7, <1>8 DEF TypeOK, history
<1>10. message'[c] = n /\ \A d \in Clients \ {c} : message'[d] = message[d]
  BY <1>1, <1>8 DEF TypeOK
<1>11. MessageOK(message[c])' BY <1>3, <1>5, <1>7, <1>8, <1>10 DEF MessageOK, Exists, Shown
<1> QED BY <1>8, <1>9, <1>10, <1>11, Reading DEF history

LEMMA Moves ==
  ASSUME TypeOK, NEW r \in Requests, NEW next \in Request, To(r, next)
  PROVE  /\ request' \in [Requests -> Request] /\ request'[r] = next
         /\ \A q \in Requests \ {r} : request'[q] = request[q]
BY DEF TypeOK, To

LEMMA MessageRows ==
  ASSUME TypeOK, NEW c \in Clients, message[c] # NoMessage
  PROVE  message[c] \in Message /\ message[c].at \in Sessions
BY DEF TypeOK, Message

LEMMA ArriveKeeps ==
  ASSUME IInv, NEW r \in Requests, NEW c \in Clients, Arrive(r, c)
  PROVE  IInv'
<1> DEFINE next == [pc |-> "event", message |-> message[c], copy |-> session[message[c].at]]
<1>1. TypeOK /\ message[c] # NoMessage /\ MessageOK(message[c]) BY DEF IInv, Arrive
<1>2. message[c] \in Message /\ message[c].at \in Sessions BY <1>1, MessageRows
<1>3. Exists(message[c].at) /\ session[message[c].at] \in Session BY <1>1, <1>2, Rows DEF MessageOK
<1>4. PICK m \in Message, x \in Session : m = message[c] /\ x = session[m.at] BY <1>2, <1>3
<1>5. next = [pc |-> "event", message |-> m, copy |-> x] BY <1>4
<1>6. next \in Request BY <1>5 DEF Request
<1>7. To(r, next) /\ Acceptable(x, m) /\ UNCHANGED <<session, application, message, history>>
  BY <1>4 DEF Arrive
<1> HIDE DEF next
<1>8. /\ request' \in [Requests -> Request] /\ request'[r] = next
      /\ \A q \in Requests \ {r} : request'[q] = request[q]
  BY <1>1, <1>6, <1>7, Moves
<1>9. TypeOK' BY <1>1, <1>7, <1>8 DEF TypeOK, history
<1>10. RequestOK(r)'
  <2>1. MessageOK(m)' BY <1>1, <1>4, <1>7 DEF MessageOK, Exists
  <2>2. CopyOK(m.at, x)'
    <3>1. x.version \in Nat BY Fields
    <3> QED BY <1>3, <1>4, <1>7, <3>1 DEF CopyOK, Exists
  <2> QED BY <1>5, <1>7, <1>8, <2>1, <2>2 DEF RequestOK, MessageOK, CopyOK, Acceptable, Exists
<1>11. next.pc = "event" BY <1>5
<1> QED BY <1>7, <1>8, <1>9, <1>10, <1>11, Reading DEF history

LEMMA LookKeeps ==
  ASSUME IInv, NEW r \in Requests, Look(r)
  PROVE  IInv'
<1> DEFINE next == IF application[request[r].at] = "saved" THEN [request[r] EXCEPT !.pc = "mark"] ELSE Idle
<1>1. TypeOK /\ request[r].pc = "submitted" BY DEF IInv, Look
<1>2. request[r] \in [pc: {"create", "submitted", "mark"}, at: Sessions] BY <1>1 DEF TypeOK, Request
<1>3. next \in Request /\ next.pc \in {"mark", "idle"} BY <1>2 DEF Request, Idle
<1>4. To(r, next) /\ UNCHANGED <<session, application, message, history>> BY DEF Look
<1> HIDE DEF next
<1>5. /\ request' \in [Requests -> Request] /\ request'[r] = next
      /\ \A q \in Requests \ {r} : request'[q] = request[q]
  BY <1>1, <1>3, <1>4, Moves
<1>6. TypeOK' BY <1>1, <1>4, <1>5 DEF TypeOK, history
<1>7. RequestOK(r)' BY <1>3, <1>5 DEF RequestOK
<1>8. \A q \in Requests : request'[q] = request[q] \/ request'[q].pc # "create" BY <1>3, <1>5
<1>9. \A q \in Requests : request'[q] # request[q] => RequestOK(q)' BY <1>5, <1>7
<1> QED BY <1>4, <1>6, <1>8, <1>9, Reading DEF history

\* A request that ends, or marks an application.
LEMMA EndKeeps ==
  ASSUME IInv, NEW r \in Requests, To(r, Idle), UNCHANGED <<session, message, history>>,
         application' \in [Sessions -> {"saved", "applied", "tracked"}]
  PROVE  IInv'
<1>1. TypeOK /\ Idle \in Request BY DEF IInv, Idle, Request
<1>2. /\ request' \in [Requests -> Request] /\ request'[r] = Idle
      /\ \A q \in Requests \ {r} : request'[q] = request[q]
  BY <1>1, Moves
<1>3. TypeOK' BY <1>1, <1>2 DEF TypeOK, history
<1>4. RequestOK(r)' BY <1>2 DEF RequestOK, Idle
<1>5. \A q \in Requests : request'[q] = request[q] \/ request'[q].pc # "create" BY <1>2 DEF Idle
<1>6. \A q \in Requests : request'[q] # request[q] => RequestOK(q)' BY <1>2, <1>4
<1> QED BY <1>3, <1>5, <1>6, Reading DEF history

LEMMA MarkKeeps ==
  ASSUME IInv, NEW r \in Requests, Mark(r)
  PROVE  IInv'
<1>1. application' \in [Sessions -> {"saved", "applied", "tracked"}] BY DEF IInv, TypeOK, Mark
<1> QED BY <1>1, EndKeeps DEF Mark

LEMMA DiesKeeps ==
  ASSUME IInv, NEW r \in Requests, Dies(r)
  PROVE  IInv'
<1>1. application' \in [Sessions -> {"saved", "applied", "tracked"}] BY DEF IInv, TypeOK, Dies
<1> QED BY <1>1, EndKeeps DEF Dies

LEMMA TrackKeeps ==
  ASSUME IInv, NEW s \in Sessions, Track(s)
  PROVE  IInv'
<1>1. TypeOK' BY DEF IInv, TypeOK, Track, history
<1> QED BY <1>1, Reading DEF Track, history

LEMMA CreateKeeps ==
  ASSUME IInv, NEW r \in Requests, NEW s \in Sessions, Create(r, s)
  PROVE  IInv'
<1> DEFINE next == [pc |-> "create", at |-> s]
<1>1. TypeOK /\ next \in Request BY DEF IInv, Request
<1>2. next.pc = "create" /\ next.at = s OBVIOUS
<1>3. To(r, next) /\ ~Exists(s) /\ UNCHANGED <<session, application, message, history>> BY DEF Create
<1> HIDE DEF next
<1>4. /\ request' \in [Requests -> Request] /\ request'[r] = next
      /\ \A q \in Requests \ {r} : request'[q] = request[q]
  BY <1>1, <1>3, Moves
<1>5. TypeOK' BY <1>1, <1>3, <1>4 DEF TypeOK, history
<1>6. \A q \in Requests : request[q].pc = "create" => request[q].at # s BY DEF Create
<1>7. \A t \in Sessions : Grows(t) BY <1>3 DEF Grows
<1>8. \A t \in Sessions : RowOK(t)' BY <1>3 DEF IInv, RowOK, Exists, SessionOK, Stage, history
<1>9. ASSUME NEW c \in Clients, message'[c] # NoMessage PROVE MessageOK(message[c])'
  BY <1>3, <1>9 DEF IInv, MessageOK, Exists
<1>10. RequestOK(r)' BY <1>2, <1>3, <1>4, <1>6 DEF RequestOK, Exists
<1>11. ASSUME NEW q \in Requests \ {r} PROVE RequestOK(q)'
  BY <1>2, <1>3, <1>4, <1>6, <1>11 DEF IInv, RequestOK, MessageOK, CopyOK, Acceptable, Active, Exists
<1> QED BY <1>5, <1>8, <1>9, <1>10, <1>11 DEF IInv

LEMMA ExchangeKeeps ==
  ASSUME IInv, NEW r \in Requests, NEW s \in Sessions, Exchange(r, s)
  PROVE  IInv'
<1> DEFINE next == [pc |-> "exchange", at |-> s, copy |-> session[s]]
<1>1. TypeOK /\ Exists(s) BY DEF IInv, Exchange, Active, Exists
<1>2. session[s] \in Session BY <1>1, Rows
<1>3. next \in Request BY <1>2 DEF Request
<1>4. next.pc = "exchange" /\ next.at = s /\ next.copy = session[s] OBVIOUS
<1>5. To(r, next) /\ UNCHANGED <<session, application, message, history>> BY DEF Exchange
<1> HIDE DEF next
<1>6. /\ request' \in [Requests -> Request] /\ request'[r] = next
      /\ \A q \in Requests \ {r} : request'[q] = request[q]
  BY <1>1, <1>3, <1>5, Moves
<1>7. TypeOK' BY <1>1, <1>5, <1>6 DEF TypeOK, history
<1>8. session[s].version \in Nat BY <1>2, Fields
<1>9. RequestOK(r)' BY <1>1, <1>4, <1>5, <1>6, <1>8 DEF RequestOK, CopyOK, Exists, Active, Exchange
<1>10. \A q \in Requests : request'[q] = request[q] \/ request'[q].pc # "create" BY <1>4, <1>6
<1>11. \A q \in Requests : request'[q] # request[q] => RequestOK(q)' BY <1>6, <1>9
<1> QED BY <1>5, <1>7, <1>10, <1>11, Reading DEF history

\* What Take finds when nothing was written since the request read the row.
LEMMA Current ==
  ASSUME IInv, NEW r \in Requests, request[r].pc = "event"
  PROVE  LET m == request[r].message
             s == m.at
             x == request[r].copy
             b == IF m.type = "review-approved" THEN m.shown ELSE agreed[s]
         IN  /\ m \in Message /\ s \in Sessions /\ x \in Session /\ Exists(s) /\ session[s] \in Session
             /\ Unchanged(s, x) => /\ x = session[s]
                                   /\ Updated(x, m) \in Session /\ SessionOK(Updated(x, m), b)
                                   /\ Updated(x, m).consumed = x.consumed
                                   /\ Updated(x, m).version = session[s].version + 1
<1>1. TypeOK /\ RequestOK(r) BY DEF IInv
<1>2. PICK m \in Message, x \in Session : m = request[r].message /\ x = request[r].copy
  BY <1>1, RequestFields
<1>3. PICK s \in Sessions : s = m.at BY DEF Message
<1>4. MessageOK(m) /\ CopyOK(s, x) /\ Acceptable(x, m) BY <1>1, <1>2, <1>3 DEF RequestOK
<1>5. Exists(s) /\ session[s] \in Session BY <1>1, <1>4, Rows DEF CopyOK
<1>6. SessionOK(session[s], agreed[s]) BY <1>5 DEF IInv, RowOK
<1>7. agreed[s] \in Plans \cup {"none"} BY <1>1 DEF TypeOK
<1>8. ASSUME Unchanged(s, x)
      PROVE  /\ x = session[s] /\ Updated(x, m) \in Session
             /\ SessionOK(Updated(x, m), IF m.type = "review-approved" THEN m.shown ELSE agreed[s])
             /\ Updated(x, m).consumed = x.consumed /\ Updated(x, m).version = session[s].version + 1
  <2>1. x = session[s] BY <1>4, <1>8 DEF Unchanged, CopyOK
  <2>2. m.type = "review-approved" => m.shown = x.plan
    BY <1>3, <1>4, <2>1 DEF MessageOK, Acceptable
  <2>3. Allowed(x.status, m.type) /\ Approved(x, m.type) BY <1>4 DEF Acceptable
  <2>4. SessionOK(x, agreed[s]) BY <1>6, <2>1
  <2>5. /\ Updated(x, m) \in Session
        /\ SessionOK(Updated(x, m), IF m.type = "review-approved" THEN x.plan ELSE agreed[s])
        /\ Updated(x, m).consumed = x.consumed /\ Updated(x, m).version = x.version + 1
    BY <1>7, <2>3, <2>4, Updates
  <2> QED BY <2>1, <2>2, <2>5
<1> QED BY <1>2, <1>3, <1>5, <1>8

LEMMA TakeKeeps ==
  ASSUME IInv, NEW r \in Requests, Take(r)
  PROVE  IInv'
<1>0. TypeOK /\ request[r].pc = "event" BY DEF IInv, Take
<1>1. PICK s \in Sessions : s = request[r].message.at BY <1>0, Current
<1> DEFINE m == request[r].message
           copy == request[r].copy
           x == Updated(copy, m)
           next == IF Unchanged(s, copy) /\ x.status = "submitted" THEN [pc |-> "submitted", at |-> s] ELSE Idle
<1>2. m \in Message /\ s \in Sessions /\ copy \in Session /\ Exists(s) /\ session[s] \in Session
  BY <1>0, <1>1, Current
<1>3. next \in Request /\ next.pc \in {"submitted", "idle"} BY <1>2 DEF Request, Idle
<1>4. To(r, next) /\ UNCHANGED <<application, message, bearers>> BY <1>1 DEF Take
<1> HIDE DEF next
<1>5. /\ request' \in [Requests -> Request] /\ request'[r] = next
      /\ \A q \in Requests \ {r} : request'[q] = request[q]
  BY <1>0, <1>3, <1>4, Moves
<1>6. CASE ~Unchanged(s, copy)
  <2>1. UNCHANGED <<session, agreed>> BY <1>1, <1>6 DEF Take
  <2>2. TypeOK' BY <1>0, <1>4, <1>5, <2>1 DEF TypeOK
  <2>3. RequestOK(r)' BY <1>3, <1>5 DEF RequestOK
  <2>4. \A q \in Requests : request'[q] = request[q] \/ request'[q].pc # "create" BY <1>3, <1>5
  <2>5. \A q \in Requests : request'[q] # request[q] => RequestOK(q)' BY <1>5, <2>3
  <2> QED BY <1>4, <2>1, <2>2, <2>4, <2>5, Reading
<1>7. CASE Unchanged(s, copy)
  <2> DEFINE b == IF m.type = "review-approved" THEN m.shown ELSE agreed[s]
  <2>1. /\ copy = session[s] /\ x \in Session /\ SessionOK(x, b)
        /\ x.consumed = copy.consumed /\ x.version = session[s].version + 1
    BY <1>0, <1>1, <1>7, Current
  <2>2. /\ session' = [session EXCEPT ![s] = x]
        /\ agreed' = IF m.type = "review-approved" THEN [agreed EXCEPT ![s] = m.shown] ELSE agreed
    BY <1>1, <1>7 DEF Take
  <2> HIDE DEF x
  <2>3. b \in Plans \cup {"none"} BY <1>0, <1>2 DEF Message, TypeOK
  <2>4. /\ session' \in [Sessions -> Session \cup {NoSession}] /\ session'[s] = x
        /\ \A t \in Sessions \ {s} : session'[t] = session[t]
    BY <1>0, <1>2, <2>1, <2>2 DEF TypeOK
  <2>5. /\ agreed' \in [Sessions -> Plans \cup {"none"}] /\ agreed'[s] = b
        /\ \A t \in Sessions \ {s} : agreed'[t] = agreed[t]
    BY <1>0, <1>2, <2>2, <2>3 DEF TypeOK
  <2>6. TypeOK' BY <1>0, <1>4, <1>5, <2>4, <2>5 DEF TypeOK
  <2>7. Exists(s)' /\ Grows(s) BY <2>1, <2>4, NotARow DEF Grows, Exists
  <2>8. RowOK(s)'
    <3>1. RowOK(s) BY <1>2 DEF IInv
    <3>2. SessionOK(session[s], agreed[s])' BY <2>1, <2>4, <2>5 DEF SessionOK, Stage
    <3> QED BY <1>2, <1>4, <2>1, <2>4, <2>7, <3>1, <3>2 DEF RowOK
  <2>9. \A q \in Requests \ {r} : request[q].pc = "create" => request[q].at # s
    BY <1>2 DEF IInv, RequestOK
  <2>10. request'[r].pc \notin {"event", "exchange", "create"} BY <1>3, <1>5
  <2> QED BY <1>2, <1>4, <1>5, <2>4, <2>5, <2>6, <2>7, <2>8, <2>9, <2>10, Writing
<1> QED BY <1>6, <1>7

LEMMA InsertKeeps ==
  ASSUME IInv, NEW r \in Requests, Insert(r)
  PROVE  IInv'
<1>0. TypeOK /\ RequestOK(r) /\ request[r].pc = "create" BY DEF IInv, Insert
<1>1. PICK s \in Sessions : s = request[r].at BY <1>0, RequestFields
<1> DEFINE x == [status |-> "created", version |-> 0, plan |-> Blank,
                 approval |-> "none", resume |-> "none", consumed |-> FALSE, seen |-> {}]
<1>2. ~Exists(s) BY <1>0, <1>1 DEF RequestOK
<1>3. x \in Session BY AssistanceAssumption DEF AssistanceAssumption, Session, Status
<1>4. SessionOK(x, agreed[s]) BY DEF SessionOK, Stage, Early
<1>5. x.consumed = FALSE OBVIOUS
<1>6. session' = [session EXCEPT ![s] = x] /\ To(r, Idle) /\ UNCHANGED <<application, message, history>>
  BY <1>1 DEF Insert
<1> HIDE DEF x
<1>7. /\ request' \in [Requests -> Request] /\ request'[r] = Idle
      /\ \A q \in Requests \ {r} : request'[q] = request[q]
  BY <1>0, <1>6, Moves DEF Idle, Request
<1>8. /\ session' \in [Sessions -> Session \cup {NoSession}] /\ session'[s] = x
      /\ \A t \in Sessions \ {s} : session'[t] = session[t]
  BY <1>0, <1>2, <1>3, <1>6 DEF TypeOK
<1>9. TypeOK' BY <1>0, <1>6, <1>7, <1>8 DEF TypeOK, history
<1>10. Grows(s) BY <1>2 DEF Grows
<1>11. RowOK(s)'
  <2>1. bearers'[s] = 0 BY <1>2, <1>6 DEF IInv, RowOK, history
  <2>2. Exists(s)' BY <1>3, <1>8, NotARow DEF Exists
  <2>3. SessionOK(session[s], agreed[s])' BY <1>4, <1>6, <1>8 DEF SessionOK, Stage, history
  <2> QED BY <1>5, <1>8, <2>1, <2>2, <2>3 DEF RowOK
<1>12. \A q \in Requests \ {r} : request[q].pc = "create" => request[q].at # s
  BY <1>0, <1>1 DEF RequestOK
<1>13. request'[r].pc \notin {"event", "exchange", "create"} BY <1>7 DEF Idle
<1> QED BY <1>2, <1>6, <1>7, <1>8, <1>9, <1>10, <1>11, <1>12, <1>13, Writing DEF history

LEMMA ConsumeKeeps ==
  ASSUME IInv, NEW r \in Requests, Consume(r)
  PROVE  IInv'
<1>0. TypeOK /\ RequestOK(r) /\ request[r].pc = "exchange" BY DEF IInv, Consume
<1>1. PICK s \in Sessions : s = request[r].at BY <1>0, RequestFields
<1> DEFINE copy == request[r].copy
           x == [copy EXCEPT !.version = copy.version + 1, !.consumed = TRUE]
<1>2. copy \in Session BY <1>0, RequestFields
<1>3. CopyOK(s, copy) /\ ~copy.consumed BY <1>0, <1>1 DEF RequestOK
<1>4. Exists(s) /\ session[s] \in Session BY <1>0, <1>3, Rows DEF CopyOK
<1>5. To(r, Idle) /\ UNCHANGED <<application, message, agreed>> BY DEF Consume
<1>6. /\ request' \in [Requests -> Request] /\ request'[r] = Idle
      /\ \A q \in Requests \ {r} : request'[q] = request[q]
  BY <1>0, <1>5, Moves DEF Idle, Request
<1>7. CASE ~Unchanged(s, copy)
  <2>1. session' = session /\ bearers' = bearers BY <1>1, <1>7 DEF Consume
  <2>2. application' \in [Sessions -> {"saved", "applied", "tracked"}] BY <1>0, <1>5 DEF TypeOK
  <2> QED BY <1>5, <2>1, <2>2, EndKeeps DEF history
<1>8. CASE Unchanged(s, copy)
  <2>1. copy = session[s] BY <1>3, <1>8 DEF CopyOK, Unchanged
  <2>2. session' = [session EXCEPT ![s] = x] /\ bearers' = [bearers EXCEPT ![s] = @ + 1]
    BY <1>1, <1>8 DEF Consume
  <2>3. copy.version \in Nat BY <1>2, Fields
  <2>4. /\ x \in Session /\ x.version = copy.version + 1 /\ x.consumed = TRUE
        /\ x.status = copy.status /\ x.resume = copy.resume /\ x.approval = copy.approval /\ x.plan = copy.plan
    <3>1. PICK y \in Session, v \in Nat : y = copy /\ v = copy.version + 1 BY <1>2, <2>3
    <3>2. x = [y EXCEPT !.version = v, !.consumed = TRUE] BY <3>1
    <3> HIDE DEF x
    <3>3. /\ x \in Session /\ x.version = v /\ x.consumed = TRUE
          /\ x.status = y.status /\ x.resume = y.resume /\ x.approval = y.approval /\ x.plan = y.plan
      BY <3>2 DEF Session
    <3> QED BY <3>1, <3>3
  <2> HIDE DEF x
  <2>5. /\ session' \in [Sessions -> Session \cup {NoSession}] /\ session'[s] = x
        /\ \A t \in Sessions \ {s} : session'[t] = session[t]
    BY <1>0, <2>2, <2>4 DEF TypeOK
  <2>6. RowOK(s) /\ bearers[s] = 0 BY <1>3, <1>4, <2>1 DEF IInv, RowOK
  <2>7. /\ bearers' \in [Sessions -> Nat] /\ bearers'[s] = 1
        /\ \A t \in Sessions \ {s} : bearers'[t] = bearers[t]
    BY <1>0, <2>2, <2>6 DEF TypeOK
  <2>8. TypeOK' BY <1>0, <1>5, <1>6, <2>5, <2>7 DEF TypeOK
  <2>9. Exists(s)' /\ Grows(s) BY <2>1, <2>4, <2>5, NotARow DEF Grows, Exists
  <2>10. RowOK(s)'
    <3>1. SessionOK(session[s], agreed[s]) BY <1>4, <2>6 DEF RowOK
    <3>2. SessionOK(session[s], agreed[s])' BY <1>5, <2>1, <2>4, <2>5, <3>1 DEF SessionOK, Stage
    <3> QED BY <2>4, <2>5, <2>7, <2>9, <3>2 DEF RowOK
  <2>11. \A q \in Requests \ {r} : request[q].pc = "create" => request[q].at # s
    BY <1>4 DEF IInv, RequestOK
  <2>12. request'[r].pc \notin {"event", "exchange", "create"} BY <1>6 DEF Idle
  <2> QED BY <1>2, <1>5, <1>6, <2>5, <2>7, <2>8, <2>9, <2>10, <2>11, <2>12, Writing
<1> QED BY <1>7, <1>8

-----------------------------------------------------------------------------
(* The invariant, and what follows from it.                                 *)

LEMMA Begins ==
  ASSUME Init
  PROVE  IInv
<1>1. TypeOK
  BY DEF Init, TypeOK, Idle, Request
<1>2. \A s \in Sessions : ~Exists(s) /\ bearers[s] = 0 BY DEF Init, Exists
<1>3. \A s \in Sessions : RowOK(s) BY <1>2 DEF RowOK
<1>4. \A c \in Clients : message[c] = NoMessage BY DEF Init
<1>5. \A r \in Requests : RequestOK(r) BY DEF Init, Idle, RequestOK
<1> QED BY <1>1, <1>3, <1>4, <1>5 DEF IInv

LEMMA Continues ==
  ASSUME IInv, [Next]_vars
  PROVE  IInv'
<1>1. CASE \E s \in Sessions : Track(s) BY <1>1, TrackKeeps
<1>2. CASE \E c \in Clients : Rebase(c) BY <1>2, RebaseKeeps
<1>3. CASE \E c \in Clients, s \in Sessions, type \in Type, p \in Plans : Send(c, s, type, p)
  BY <1>3, SendKeeps
<1>4. CASE \E r \in Requests : Take(r) BY <1>4, TakeKeeps
<1>5. CASE \E r \in Requests : Look(r) BY <1>5, LookKeeps
<1>6. CASE \E r \in Requests : Mark(r) BY <1>6, MarkKeeps
<1>7. CASE \E r \in Requests : Insert(r) BY <1>7, InsertKeeps
<1>8. CASE \E r \in Requests : Consume(r) BY <1>8, ConsumeKeeps
<1>9. CASE \E r \in Requests : Dies(r) BY <1>9, DiesKeeps
<1>10. CASE \E r \in Requests, c \in Clients : Arrive(r, c) BY <1>10, ArriveKeeps
<1>11. CASE \E r \in Requests, s \in Sessions : Create(r, s) BY <1>11, CreateKeeps
<1>12. CASE \E r \in Requests, s \in Sessions : Exchange(r, s) BY <1>12, ExchangeKeeps
<1>13. CASE UNCHANGED vars
  <2>1. UNCHANGED <<session, application, message, request, bearers, agreed>>
    BY <1>13 DEF vars, history
  <2>2. TypeOK' BY <2>1 DEF IInv, TypeOK
  <2> QED BY <2>1, <2>2, Reading
<1> QED BY <1>1, <1>2, <1>3, <1>4, <1>5, <1>6, <1>7, <1>8, <1>9, <1>10, <1>11, <1>12, <1>13 DEF Next

\* In every reachable state the messages and copies that name the current version of a session agree
\* with its row, which has one bearer at most: the compare-and-swap of putApplicationSession.
THEOREM Invariant == Spec => []IInv
<1>1. Init => IInv BY Begins
<1>2. IInv /\ [Next]_vars => IInv' BY Continues
<1> QED BY <1>1, <1>2, PTL DEF Spec

\* The variables hold values of their types (ApplicationSession and the requests of src/api.ts).
THEOREM TypeCorrect == Spec => []TypeOK
<1>1. IInv => TypeOK BY DEF IInv
<1> QED BY <1>1, Invariant, PTL

\* A submitted session has the plan that its user saw when he approved, whatever was answered,
\* repeated or handled at once meanwhile: applySessionEvent and transitionApplicationSession.
THEOREM ApprovedIsSubmitted == Spec => []SubmittedAsApproved
<1>1. ASSUME IInv, NEW s \in Sessions, session[s].status = "submitted"
      PROVE  session[s].plan = agreed[s] /\ session[s].plan \notin Incomplete
  <2>1. Exists(s) BY <1>1 DEF Exists, NoSession
  <2>2. SessionOK(session[s], agreed[s]) BY <1>1, <2>1 DEF IInv, RowOK
  <2> QED BY <1>1, <2>2 DEF SessionOK, Stage
<1>2. IInv => SubmittedAsApproved BY <1>1 DEF SubmittedAsApproved
<1> QED BY <1>2, Invariant, PTL

\* Requests that exchange a code at once issue one bearer: the update on the version read in
\* putApplicationSession lets one of them pass.
THEOREM CodesBuyOneBearer == Spec => []OneBearer
<1>1. ASSUME IInv, NEW s \in Sessions PROVE bearers[s] <= 1
  BY <1>1 DEF IInv, RowOK
<1>2. IInv => OneBearer BY <1>1 DEF OneBearer
<1> QED BY <1>2, Invariant, PTL

-----------------------------------------------------------------------------
(* Sessions implement ReviewedSession.                                      *)

\* What the promise says of one row that is written.
LEMMA OneRow ==
  ASSUME TypeOK, NEW s \in Sessions, NEW x \in Session, session' = [session EXCEPT ![s] = x]
  PROVE  /\ phase' = [phase EXCEPT ![s] = Phase(x)]
         /\ plan' = [plan EXCEPT ![s] = x.plan]
         /\ handled' = [handled EXCEPT ![s] = x.seen]
         /\ reviewed' = IF x.approval # "none" THEN reviewed \cup {s} ELSE reviewed \ {s}
         /\ opened' = IF x.consumed THEN opened \cup {s} ELSE opened \ {s}
<1>1. /\ session'[s] = x /\ Exists(s)'
      /\ \A t \in Sessions \ {s} : session'[t] = session[t] /\ (Exists(t)' <=> Exists(t))
  BY NotARow DEF TypeOK, Exists
<1>2. phase' = [phase EXCEPT ![s] = Phase(x)]
  <2>1. Phase(session[s])' = Phase(x) BY <1>1 DEF Phase
  <2>2. \A t \in Sessions \ {s} : Phase(session[t])' = Phase(session[t]) BY <1>1 DEF Phase
  <2> HIDE DEF Phase
  <2> QED BY <2>1, <2>2 DEF phase
<1>3. plan' = [plan EXCEPT ![s] = x.plan]
  <2> DEFINE of(t) == IF Exists(t) THEN session[t].plan ELSE Blank
  <2>1. of(s)' = x.plan BY <1>1
  <2>2. \A t \in Sessions \ {s} : of(t)' = of(t) BY <1>1
  <2>3. plan = [t \in Sessions |-> of(t)] BY DEF plan
  <2>4. plan' = [t \in Sessions |-> of(t)'] BY DEF plan
  <2> HIDE DEF of
  <2> QED BY <2>1, <2>2, <2>3, <2>4
<1>4. handled' = [handled EXCEPT ![s] = x.seen]
  <2> DEFINE of(t) == IF Exists(t) THEN session[t].seen ELSE {}
  <2>1. of(s)' = x.seen BY <1>1
  <2>2. \A t \in Sessions \ {s} : of(t)' = of(t) BY <1>1
  <2>3. handled = [t \in Sessions |-> of(t)] BY DEF handled
  <2>4. handled' = [t \in Sessions |-> of(t)'] BY DEF handled
  <2> HIDE DEF of
  <2> QED BY <2>1, <2>2, <2>3, <2>4
<1>5. reviewed' = IF x.approval # "none" THEN reviewed \cup {s} ELSE reviewed \ {s}
  BY <1>1 DEF reviewed, Started
<1>6. opened' = IF x.consumed THEN opened \cup {s} ELSE opened \ {s}
  BY <1>1 DEF opened, Started
<1> QED BY <1>2, <1>3, <1>4, <1>5, <1>6

LEMMA OldRow ==
  ASSUME NEW s \in Sessions
  PROVE  /\ phase[s] = Phase(session[s])
         /\ Exists(s) => /\ plan[s] = session[s].plan /\ handled[s] = session[s].seen
                         /\ s \in reviewed <=> session[s].approval # "none"
                         /\ s \in opened <=> session[s].consumed
         /\ ~Exists(s) => plan[s] = Blank /\ handled[s] = {} /\ s \notin reviewed /\ s \notin opened
BY DEF phase, plan, handled, reviewed, opened, Started

LEMMA SameRows ==
  ASSUME session' = session
  PROVE  UNCHANGED <<phase, plan, handled, reviewed, opened>>
BY DEF phase, plan, handled, reviewed, opened, Started, Exists, Phase

LEMMA Functions ==
  /\ phase = [s \in Sessions |-> phase[s]] /\ plan = [s \in Sessions |-> plan[s]]
  /\ handled = [s \in Sessions |-> handled[s]]
BY DEF phase, plan, handled

LEMMA InsertIsCreate ==
  ASSUME IInv, NEW r \in Requests, Insert(r)
  PROVE  Promise!Create(request[r].at)
<1> DEFINE x == [status |-> "created", version |-> 0, plan |-> Blank,
                 approval |-> "none", resume |-> "none", consumed |-> FALSE, seen |-> {}]
<1>0. TypeOK /\ RequestOK(r) /\ request[r].pc = "create" BY DEF IInv, Insert
<1>1. PICK s \in Sessions : s = request[r].at BY <1>0, RequestFields
<1>2. ~Exists(s) BY <1>0, <1>1 DEF RequestOK
<1>3. x \in Session BY AssistanceAssumption DEF AssistanceAssumption, Session, Status
<1>4. session' = [session EXCEPT ![s] = x] BY <1>1 DEF Insert
<1>5. x.plan = Blank /\ x.seen = {} /\ x.approval = "none" /\ ~x.consumed OBVIOUS
<1>6. Phase(x) = "preparing" BY DEF Phase
<1>7. Phase(session[s]) = "none" BY <1>2 DEF Exists, NoSession, Phase
<1> HIDE DEF x
<1>8. /\ phase' = [phase EXCEPT ![s] = "preparing"]
      /\ plan' = [plan EXCEPT ![s] = Blank] /\ handled' = [handled EXCEPT ![s] = {}]
      /\ reviewed' = reviewed \ {s} /\ opened' = opened \ {s}
  BY <1>0, <1>3, <1>4, <1>5, <1>6, OneRow, ZenonT(60)
<1>9. phase[s] = "none" /\ plan[s] = Blank /\ handled[s] = {} /\ s \notin reviewed /\ s \notin opened
  BY <1>2, <1>7, OldRow
<1>10. UNCHANGED <<plan, reviewed, opened, handled>> BY <1>8, <1>9, Functions
<1> QED BY <1>1, <1>8, <1>9, <1>10 DEF Promise!Create, Promise!Moves

\* A session with its code exchanged.
LEMMA ConsumedFields ==
  ASSUME NEW y \in Session, NEW v \in Nat
  PROVE  LET x == [y EXCEPT !.version = v, !.consumed = TRUE]
         IN  /\ x \in Session /\ x.consumed = TRUE /\ x.seen = y.seen
             /\ x.status = y.status /\ x.approval = y.approval /\ x.plan = y.plan
  BY DEF Session

LEMMA ConsumeIsOpen ==
  ASSUME IInv, NEW r \in Requests, Consume(r), session' # session
  PROVE  Promise!Open(request[r].at)
<1> DEFINE copy == request[r].copy
           x == [copy EXCEPT !.version = copy.version + 1, !.consumed = TRUE]
<1>0. TypeOK /\ RequestOK(r) /\ request[r].pc = "exchange" BY DEF IInv, Consume
<1>1. PICK s \in Sessions : s = request[r].at BY <1>0, RequestFields
<1>2. copy \in Session BY <1>0, RequestFields
<1>3. CopyOK(s, copy) /\ ~copy.consumed /\ Active(copy) BY <1>0, <1>1 DEF RequestOK
<1>4. Unchanged(s, copy) /\ session' = [session EXCEPT ![s] = x] BY <1>1 DEF Consume
<1>5. Exists(s) /\ copy = session[s] BY <1>3, <1>4 DEF CopyOK, Unchanged
<1>6. copy.version \in Nat BY <1>2, Fields
<1>7. /\ x \in Session /\ x.consumed = TRUE /\ x.seen = copy.seen
      /\ x.status = copy.status /\ x.approval = copy.approval /\ x.plan = copy.plan
  <2>1. copy.version + 1 \in Nat BY <1>6
  <2> QED BY <1>2, <2>1, ConsumedFields
<1> HIDE DEF x
<1>8. Phase(x) = Phase(session[s]) BY <1>5, <1>7 DEF Phase
<1>9. /\ phase' = [phase EXCEPT ![s] = Phase(x)]
      /\ plan' = [plan EXCEPT ![s] = x.plan] /\ handled' = [handled EXCEPT ![s] = x.seen]
      /\ reviewed' = IF x.approval # "none" THEN reviewed \cup {s} ELSE reviewed \ {s}
      /\ opened' = opened \cup {s}
  BY <1>0, <1>4, <1>7, OneRow
<1>10. /\ phase[s] = Phase(session[s]) /\ plan[s] = session[s].plan /\ handled[s] = session[s].seen
       /\ s \in reviewed <=> session[s].approval # "none"
       /\ s \notin opened
  BY <1>3, <1>5, OldRow
<1>11. UNCHANGED <<phase, plan, reviewed, handled>> BY <1>5, <1>7, <1>8, <1>9, <1>10, Functions, ZenonT(60)
<1>12. Phase(session[s]) \in {"preparing", "reviewing", "ready", "paused"}
  <2>1. session[s].status \in Status \ Terminal BY <1>2, <1>3, <1>5, Fields DEF Active
  <2> QED BY <2>1 DEF Status, Resumable, Terminal, Phase
<1> QED BY <1>1, <1>9, <1>10, <1>11, <1>12 DEF Promise!Open, Promise!Active, Promise!Working

\* A row after an event, as the promise sees it.
LEMMA EventFields ==
  ASSUME NEW x \in Session, NEW m \in Message, NEW a \in Plans \cup {"none"},
         SessionOK(x, a), Allowed(x.status, m.type), Approved(x, m.type)
  PROVE  /\ Updated(x, m).seen = x.seen \cup {m.id}
         /\ Updated(x, m).status = Transition(x, m).status
         /\ Updated(x, m).plan = Transition(x, m).plan
         /\ Updated(x, m).approval = Transition(x, m).approval
<1>1. Transition(x, m) \in Session /\ Transition(x, m).seen = x.seen BY Machine
<1>2. Updated(x, m) = [Transition(x, m) EXCEPT !.version = Transition(x, m).version + 1,
                                              !.seen = Transition(x, m).seen \cup {m.id}]
  BY DEF Updated
<1> HIDE DEF Transition
<1> QED BY <1>1, <1>2 DEF Session

LEMMA EventIsPromised ==
  ASSUME IInv, NEW s \in Sessions, NEW m \in Message, Exists(s), Acceptable(session[s], m),
         session' = [session EXCEPT ![s] = Updated(session[s], m)]
  PROVE  Promise!Event(s, m.id)
<1> DEFINE y == Updated(session[s], m)
<1>1. PICK x \in Session : x = session[s] BY Rows DEF IInv
<1>2. PICK a \in Plans \cup {"none"} : a = agreed[s] BY DEF IInv, TypeOK
<1>3. /\ m.id \notin x.seen /\ Allowed(x.status, m.type) /\ Approved(x, m.type) /\ SessionOK(x, a)
      /\ m.type \in Type
  BY <1>1, <1>2 DEF Acceptable, IInv, RowOK, Message
<1>4. /\ y \in Session /\ y.consumed = x.consumed /\ y.seen = x.seen \cup {m.id}
      /\ y.status = Transition(x, m).status /\ y.plan = Transition(x, m).plan
      /\ y.approval = Transition(x, m).approval
  BY <1>1, <1>3, Updates, EventFields
<1>5. x.plan \in Plans /\ m.plan \in Plans /\ x.plan # "none"
  BY <1>1, Fields, AssistanceAssumption DEF AssistanceAssumption, Message
<1> HIDE DEF y
<1>6. session' = [session EXCEPT ![s] = y] BY DEF y
<1>7. /\ phase' = [phase EXCEPT ![s] = Phase(y)]
      /\ plan' = [plan EXCEPT ![s] = y.plan] /\ handled' = [handled EXCEPT ![s] = y.seen]
      /\ reviewed' = IF y.approval # "none" THEN reviewed \cup {s} ELSE reviewed \ {s}
      /\ opened' = IF y.consumed THEN opened \cup {s} ELSE opened \ {s}
  BY <1>4, <1>6, OneRow DEF IInv
<1>8. /\ phase[s] = Phase(x) /\ plan[s] = x.plan /\ handled[s] = x.seen
      /\ s \in reviewed <=> x.approval # "none"
      /\ s \in opened <=> x.consumed
  BY <1>1, OldRow
<1>9. opened' = opened BY <1>4, <1>7, <1>8
<1>10. m.id \notin handled[s] /\ handled' = [handled EXCEPT ![s] = handled[s] \cup {m.id}]
  BY <1>3, <1>4, <1>7, <1>8
<1>11. y.plan = x.plan => plan' = plan BY <1>7, <1>8, Functions
<1>12. (y.approval # "none" <=> x.approval # "none") => reviewed' = reviewed BY <1>7, <1>8
<1> DEFINE Does == Promise!Approve(s) \/ Promise!Run(s) \/ Promise!End(s) \/ \E p \in Plans : Promise!Answer(s, p)
<1>13. ASSUME m.type = "start" PROVE Does
  <2>1. x.status = "created" BY <1>13, <1>3 DEF Allowed, UserOnly
  <2>2. y.status = "filling" /\ y.plan = x.plan /\ y.approval = x.approval
    BY <1>13, <1>4 DEF Transition, Session
  <2>3. Phase(x) = "preparing" /\ Phase(y) = "preparing" BY <2>1, <2>2 DEF Phase
  <2> QED BY <1>7, <1>8, <1>11, <1>12, <2>2, <2>3 DEF Promise!Run, Promise!Moves
<1>14. ASSUME m.type \in {"fill-completed", "answers-updated"} PROVE Does
  <2>1. x.status \in Resumable BY <1>14, <1>3 DEF Allowed, Resumable
  <2>2. /\ y.status = IF m.plan \in Incomplete THEN "needs-input" ELSE "awaiting-user-review"
        /\ y.plan = m.plan /\ y.approval = "none"
    BY <1>14, <1>4 DEF Transition, Answered, Session
  <2>3. Phase(x) \in {"preparing", "reviewing", "ready"} BY <2>1 DEF Phase, Resumable
  <2>4. Phase(y) = IF m.plan \in Incomplete THEN "preparing" ELSE "reviewing" BY <2>2 DEF Phase
  <2>5. Promise!Answer(s, m.plan)
    BY <1>7, <1>8, <2>2, <2>3, <2>4 DEF Promise!Answer, Promise!Moves, Promise!Working
  <2> QED BY <1>5, <2>5
<1>15. ASSUME m.type = "review-approved" PROVE Does
  <2>1. x.status = "awaiting-user-review" BY <1>15, <1>3 DEF Allowed
  <2>2. y.status = "ready-for-user-submit" /\ y.plan = x.plan /\ y.approval = x.plan
    BY <1>15, <1>4 DEF Transition, Session
  <2>3. Phase(x) = "reviewing" /\ Phase(y) = "ready" BY <2>1, <2>2 DEF Phase
  <2> QED BY <1>5, <1>7, <1>8, <1>11, <2>2, <2>3 DEF Promise!Approve, Promise!Moves
<1>16. ASSUME m.type = "verification-required" PROVE Does
  <2>1. x.status \in Resumable BY <1>16, <1>3 DEF Allowed
  <2>2. y.status = "awaiting-user-verification" /\ y.plan = x.plan /\ y.approval = x.approval
    BY <1>16, <1>4 DEF Transition, Session
  <2>3. Phase(x) \in {"preparing", "reviewing", "ready"} /\ Phase(y) = "paused"
    BY <2>1, <2>2 DEF Phase, Resumable
  <2> QED BY <1>7, <1>8, <1>11, <1>12, <2>2, <2>3 DEF Promise!Run, Promise!Moves, Promise!Working
<1>17. ASSUME m.type = "verification-completed" PROVE Does
  <2>1. x.status = "awaiting-user-verification" BY <1>17, <1>3 DEF Allowed
  <2>2. y.status = x.resume /\ y.plan = x.plan /\ y.approval = x.approval
    BY <1>17, <1>4 DEF Transition, Session
  <2>3. x.resume \in Resumable BY <1>3, <2>1 DEF SessionOK
  <2>4. Phase(x) = "paused" BY <2>1 DEF Phase
  <2>5. CASE x.resume = "ready-for-user-submit"
    <3>1. x.approval # "none" BY <1>3, <1>5, <2>1, <2>5 DEF SessionOK, Stage
    <3>2. Phase(y) = "ready" BY <2>2, <2>5 DEF Phase
    <3> QED BY <1>7, <1>8, <1>11, <1>12, <2>2, <2>4, <3>1, <3>2 DEF Promise!Run, Promise!Moves
  <2>6. CASE x.resume # "ready-for-user-submit"
    <3>1. x.approval = "none" BY <1>3, <2>1, <2>3, <2>6 DEF SessionOK, Stage, Resumable, Early
    <3>2. Phase(y) \in {"preparing", "reviewing"} BY <2>2, <2>3, <2>6 DEF Phase, Resumable
    <3> QED BY <1>7, <1>8, <1>11, <1>12, <2>2, <2>4, <3>1, <3>2 DEF Promise!Run, Promise!Moves
  <2> QED BY <2>5, <2>6
<1>18. ASSUME m.type = "submission-confirmed" PROVE Does
  <2>1. x.status = "ready-for-user-submit" BY <1>18, <1>3 DEF Allowed
  <2>2. y.status = "submitted" /\ y.plan = x.plan /\ y.approval = x.approval
    BY <1>18, <1>4 DEF Transition, Session
  <2>3. Phase(x) = "ready" /\ Phase(y) = "submitted" BY <2>1, <2>2 DEF Phase
  <2>4. s \in reviewed BY <1>3, <1>5, <1>8, <1>18 DEF Approved
  <2> QED BY <1>7, <1>8, <1>11, <1>12, <2>2, <2>3, <2>4 DEF Promise!End, Promise!Moves
<1>19. ASSUME m.type \in {"fail", "cancel"} PROVE Does
  <2>1. x.status \in Status \ Terminal BY <1>3, Fields DEF Allowed
  <2>2. y.status \in {"failed", "cancelled"} /\ y.plan = x.plan /\ y.approval = x.approval
    BY <1>19, <1>4 DEF Transition, Session
  <2>3. Phase(x) \in {"preparing", "reviewing", "ready", "paused"} /\ Phase(y) = "stopped"
    BY <2>1, <2>2 DEF Phase, Status, Resumable, Terminal
  <2> QED BY <1>7, <1>8, <1>11, <1>12, <2>2, <2>3
      DEF Promise!End, Promise!Moves, Promise!Active, Promise!Working
<1>20. Does BY <1>3, <1>13, <1>14, <1>15, <1>16, <1>17, <1>18, <1>19 DEF Type
<1> HIDE DEF Does
<1> QED BY <1>9, <1>10, <1>20 DEF Promise!Event, Does

LEMMA PromiseBegins ==
  ASSUME Init
  PROVE  Promise!Init
<1>1. \A s \in Sessions : ~Exists(s) /\ session[s] = NoSession BY DEF Init, Exists
<1>2. Phase(NoSession) = "none" BY DEF NoSession, Phase
<1>3. /\ phase = [s \in Sessions |-> "none"] /\ plan = [s \in Sessions |-> Blank]
      /\ handled = [s \in Sessions |-> {}]
  BY <1>1, <1>2 DEF phase, plan, handled
<1>4. reviewed = {} /\ opened = {} BY <1>1 DEF reviewed, opened, Started
<1> QED BY <1>3, <1>4 DEF Promise!Init

LEMMA PromiseContinues ==
  ASSUME IInv, [Next]_vars
  PROVE  [Promise!Next]_(Promise!promise)
<1>1. CASE session' = session
  BY <1>1, SameRows DEF Promise!promise
<1>2. CASE \E r \in Requests : Take(r) /\ session' # session
  <2>1. PICK r \in Requests : Take(r) /\ session' # session BY <1>2
  <2>2. request[r].pc = "event" /\ RequestOK(r) BY <2>1 DEF Take, IInv
  <2>3. PICK m \in Message, s \in Sessions : m = request[r].message /\ s = m.at BY <2>2, Current
  <2>4. Unchanged(s, request[r].copy) /\ session' = [session EXCEPT ![s] = Updated(request[r].copy, m)]
    BY <2>1, <2>3 DEF Take
  <2>5. Exists(s) /\ request[r].copy = session[s] BY <2>2, <2>3, <2>4, Current
  <2>6. Acceptable(session[s], m) BY <2>2, <2>3, <2>5 DEF RequestOK
  <2>7. Promise!Event(s, m.id) BY <2>4, <2>5, <2>6, EventIsPromised
  <2>8. m.id \in Ids BY DEF Message
  <2> QED BY <2>7, <2>8 DEF Promise!Next
<1>3. CASE \E r \in Requests : Insert(r)
  <2>1. PICK r \in Requests : Insert(r) BY <1>3
  <2>2. request[r].at \in Sessions BY <2>1, RequestFields DEF IInv, Insert
  <2> QED BY <2>1, <2>2, InsertIsCreate DEF Promise!Next
<1>4. CASE \E r \in Requests : Consume(r) /\ session' # session
  <2>1. PICK r \in Requests : Consume(r) /\ session' # session BY <1>4
  <2>2. request[r].at \in Sessions BY <2>1, RequestFields DEF IInv, Consume
  <2> QED BY <2>1, <2>2, ConsumeIsOpen DEF Promise!Next
<1>5. session' = session \/ \E r \in Requests : Take(r) \/ Insert(r) \/ Consume(r)
  BY DEF Next, Track, Rebase, Send, Look, Mark, Dies, Arrive, Create, Exchange, vars
<1> QED BY <1>1, <1>2, <1>3, <1>4, <1>5

\* Every session behaves as ReviewedSession promises: the requests of src/api.ts, however they
\* interleave, die or repeat, advance it one event at a time, each event once.
THEOREM KeepsPromise == Spec => SessionsKeepPromise
<1>1. Init => Promise!Init BY PromiseBegins
<1>2. IInv /\ [Next]_vars => [Promise!Next]_(Promise!promise) BY PromiseContinues
<1> QED BY <1>1, <1>2, Invariant, PTL DEF Spec, SessionsKeepPromise, Promise!Spec
=============================================================================
