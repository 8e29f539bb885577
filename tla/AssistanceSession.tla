------------------------- MODULE AssistanceSession -------------------------
(***************************************************************************)
(* Application assistance: the session record that the user and the runner   *)
(* of a browser advance through src/api.ts by the state machine of           *)
(* src/application-automation.ts.                                          *)
(*                                                                         *)
(* Each request reads the record, decides, and writes it if its version is   *)
(* still the one read. A client repeats its message, and may look again and  *)
(* repeat it for the version that it sees then.                            *)
(*                                                                         *)
(* No session takes the hundred events whose ids it remembers. A plan stands *)
(* for a list of answers and its digest. Codes, bearers and sessions expire; *)
(* expiry only refuses, as a message that never arrives, and has no state    *)
(* here. A session has an application of its own.                          *)
(***************************************************************************)
EXTENDS Integers, FiniteSets

CONSTANTS
  Sessions,     \* ids of sessions
  Plans,        \* lists of answers
  Blank,        \* the empty list
  Incomplete,   \* those with a required answer missing
  Requests,     \* requests handled at once
  MaxMessages   \* bound: events that each client sends

ASSUME AssistanceAssumption ==
  /\ Blank \in Plans \ Incomplete /\ Incomplete \subseteq Plans /\ "none" \notin Plans
  /\ MaxMessages \in [{"user", "runner"} -> Nat]

VARIABLES
  session,      \* rows APPLICATION_SESSION#
  application,  \* status of the application row that a session is for
  message,      \* of each client: the last event it sent, which may arrive at any time
  request,      \* what each request being handled knows
  bearers,      \* bearers issued for the code of a session
  agreed        \* the plan on the user's screen when he approved

history == <<bearers, agreed>>
vars == <<session, application, message, request, history>>

-----------------------------------------------------------------------------
Clients == {"user", "runner"}
Terminal == {"submitted", "failed", "cancelled"}
Resumable == {"filling", "needs-input", "awaiting-user-review", "ready-for-user-submit"}
Status == {"created", "awaiting-user-verification"} \cup Resumable \cup Terminal
Type == {"start", "fill-completed", "answers-updated", "review-approved", "verification-required",
         "verification-completed", "submission-confirmed", "fail", "cancel"}
UserOnly == {"review-approved", "verification-completed", "submission-confirmed"}
Ids == UNION {{c} \X (1..MaxMessages[c]) : c \in Clients}

Session == [status: Status, version: Nat, plan: Plans, approval: Plans \cup {"none"},
            resume: Resumable \cup {"none"}, consumed: BOOLEAN, seen: SUBSET Ids]
NoSession == [status |-> "none"]
Message == [id: Ids, at: Sessions, expected: Nat, type: Type, plan: Plans, shown: Plans]
NoMessage == [type |-> "none"]
Idle == [pc |-> "idle"]

Init ==
  /\ session = [s \in Sessions |-> NoSession]
  /\ application = [s \in Sessions |-> "saved"]
  /\ message = [c \in Clients |-> NoMessage]
  /\ request = [r \in Requests |-> Idle]
  /\ bearers = [s \in Sessions |-> 0] /\ agreed = [s \in Sessions |-> "none"]

To(r, next) == request' = [request EXCEPT ![r] = next]
Exists(s) == session[s] # NoSession
Active(x) == x # NoSession /\ x.status \notin Terminal
\* getApplicationSessionById finds rows whose session_id is set.
Reachable(c, s) ==
  c = "runner" => Active(session[s]) /\ bearers[s] > 0 /\ session[s].consumed

-----------------------------------------------------------------------------
(* Clients *)

\* The events that transitionApplicationSession takes in a status.
Allowed(status, type) ==
  /\ status \notin Terminal
  /\ \/ type \in {"fail", "cancel"}
     \/ type = "verification-required" /\ status \in Resumable
     \/ <<status, type>> \in {<<"created", "start">>, <<"filling", "fill-completed">>,
          <<"needs-input", "answers-updated">>, <<"awaiting-user-review", "answers-updated">>,
          <<"awaiting-user-review", "review-approved">>,
          <<"awaiting-user-verification", "verification-completed">>,
          <<"ready-for-user-submit", "answers-updated">>,
          <<"ready-for-user-submit", "submission-confirmed">>}

Number(c) == IF message[c] = NoMessage THEN 0 ELSE message[c].id[2]

\* What the user has on his screen when he approves.
Shown(type, s) == IF type = "review-approved" THEN session[s].plan ELSE Blank

\* A client goes on when its last event was taken, or cannot be any more.
Settled(c) ==
  LET m == message[c]
  IN  m # NoMessage => m.id \in session[m.at].seen \/ ~Allowed(session[m.at].status, m.type)

\* The client looks at the session and sends an event that its status takes; others are
\* refused without effect.
Send(c, s, type, p) ==
  /\ Exists(s) /\ Reachable(c, s) /\ Number(c) < MaxMessages[c] /\ Settled(c)
  /\ Allowed(session[s].status, type) /\ type \in UserOnly => c = "user"
  /\ type \notin {"fill-completed", "answers-updated"} => p = Blank
  /\ message' = [message EXCEPT ![c] =
       [id |-> <<c, Number(c) + 1>>, at |-> s, expected |-> session[s].version,
        type |-> type, plan |-> p, shown |-> Shown(type, s)]]
  /\ UNCHANGED <<session, application, request, history>>

\* After a conflict a client looks again and repeats the same event.
Rebase(c) ==
  LET m == message[c]
  IN  /\ m # NoMessage /\ Reachable(c, m.at) /\ m.expected < session[m.at].version
      /\ Allowed(session[m.at].status, m.type)
      /\ message' = [message EXCEPT ![c] =
           [m EXCEPT !.expected = session[m.at].version, !.shown = Shown(m.type, m.at)]]
      /\ UNCHANGED <<session, application, request, history>>

-----------------------------------------------------------------------------
(* The state machine of a session: transitionApplicationSession *)

\* The digests must agree when the user confirms the submission.
Approved(x, type) == type = "submission-confirmed" => x.approval = x.plan

Answered(x, p) ==
  [x EXCEPT !.plan = p, !.approval = "none",
            !.status = IF p \in Incomplete THEN "needs-input" ELSE "awaiting-user-review"]

Transition(x, m) ==
  CASE m.type = "start" -> [x EXCEPT !.status = "filling"]
    [] m.type \in {"fill-completed", "answers-updated"} -> Answered(x, m.plan)
    [] m.type = "review-approved" ->
         [x EXCEPT !.status = "ready-for-user-submit", !.approval = x.plan]
    [] m.type = "verification-required" ->
         [x EXCEPT !.status = "awaiting-user-verification", !.resume = x.status]
    [] m.type = "verification-completed" -> [x EXCEPT !.status = x.resume, !.resume = "none"]
    [] m.type = "submission-confirmed" -> [x EXCEPT !.status = "submitted"]
    [] m.type = "fail" -> [x EXCEPT !.status = "failed"]
    [] m.type = "cancel" -> [x EXCEPT !.status = "cancelled"]

Updated(x, m) == [Transition(x, m) EXCEPT !.version = @ + 1, !.seen = @ \cup {m.id}]

-----------------------------------------------------------------------------
(* POST of an event: applySessionEvent *)

\* Mutants: the version, or the ids of earlier events, are not compared.
AnyVersion(x, m) == m.id \notin x.seen /\ Allowed(x.status, m.type) /\ Approved(x, m.type)
Replayed(x, m) == m.expected = x.version /\ Allowed(x.status, m.type) /\ Approved(x, m.type)

\* Replays, version conflicts and refused events change nothing.
Acceptable(x, m) == m.id \notin x.seen /\ m.expected = x.version
                    /\ Allowed(x.status, m.type) /\ Approved(x, m.type)

Arrive(r, c) ==
  LET m == message[c]
      s == m.at
  IN  /\ request[r] = Idle /\ m # NoMessage
      /\ Exists(s) /\ Reachable(c, s)
      /\ Acceptable(session[s], m)
      /\ To(r, [pc |-> "event", message |-> m, copy |-> session[s]])
      /\ UNCHANGED <<session, application, message, history>>

\* Mutant: the update has no condition.
Overwritten(s, copy) == Exists(s)

\* The condition of the update in putApplicationSession.
Unchanged(s, copy) == session[s].version = copy.version

Take(r) ==
  LET m == request[r].message
      s == m.at
      x == Updated(request[r].copy, m)
  IN  /\ request[r].pc = "event"
      /\ IF Unchanged(s, request[r].copy)
         THEN /\ session' = [session EXCEPT ![s] = x]
              /\ agreed' = IF m.type = "review-approved" THEN [agreed EXCEPT ![s] = m.shown] ELSE agreed
         ELSE UNCHANGED <<session, agreed>>
      /\ To(r, IF Unchanged(s, request[r].copy) /\ x.status = "submitted"
                 THEN [pc |-> "submitted", at |-> s] ELSE Idle)
      /\ UNCHANGED <<application, message, bearers>>

\* A submitted session marks its application, if it reads that it is still to be applied to.
Look(r) ==
  /\ request[r].pc = "submitted"
  /\ To(r, IF application[request[r].at] = "saved" THEN [request[r] EXCEPT !.pc = "mark"] ELSE Idle)
  /\ UNCHANGED <<session, application, message, history>>

Mark(r) ==
  /\ request[r].pc = "mark"
  /\ application' = [application EXCEPT ![request[r].at] = "applied"]
  /\ To(r, Idle)
  /\ UNCHANGED <<session, message, history>>

\* The user moves the application on by himself, while a request is about to mark it: PATCH.
Track(s) ==
  /\ application[s] = "saved"
  /\ \E r \in Requests : request[r].pc \in {"submitted", "mark"} /\ request[r].at = s
  /\ application' = [application EXCEPT ![s] = "tracked"]
  /\ UNCHANGED <<session, message, request, history>>

-----------------------------------------------------------------------------
(* A session begins: POST assistance-sessions, then POST /assist/exchange *)

\* The id of a new session is its own from the beginning.
Create(r, s) ==
  /\ request[r] = Idle /\ application[s] = "saved"
  /\ ~Exists(s) /\ \A q \in Requests : request[q].pc = "create" => request[q].at # s
  /\ To(r, [pc |-> "create", at |-> s])
  /\ UNCHANGED <<session, application, message, history>>

Insert(r) ==
  /\ request[r].pc = "create"
  /\ session' = [session EXCEPT ![request[r].at] =
       [status |-> "created", version |-> 0, plan |-> Blank,
        approval |-> "none", resume |-> "none", consumed |-> FALSE, seen |-> {}]]
  /\ To(r, Idle)
  /\ UNCHANGED <<application, message, history>>

Exchange(r, s) ==
  /\ request[r] = Idle /\ Active(session[s]) /\ ~session[s].consumed
  /\ To(r, [pc |-> "exchange", at |-> s, copy |-> session[s]])
  /\ UNCHANGED <<session, application, message, history>>

Consume(r) ==
  LET s == request[r].at
  IN  /\ request[r].pc = "exchange"
      /\ IF Unchanged(s, request[r].copy)
         THEN /\ session' = [session EXCEPT ![s] =
                   [request[r].copy EXCEPT !.version = @ + 1, !.consumed = TRUE]]
              /\ bearers' = [bearers EXCEPT ![s] = @ + 1]
         ELSE UNCHANGED <<session, bearers>>
      /\ To(r, Idle)
      /\ UNCHANGED <<application, message, agreed>>

\* An invocation that ends early leaves its message unanswered.
Dies(r) ==
  /\ request[r] # Idle
  /\ To(r, Idle)
  /\ UNCHANGED <<session, application, message, history>>

Next ==
  \/ \E s \in Sessions : Track(s)
  \/ \E c \in Clients :
       Rebase(c) \/ \E s \in Sessions, type \in Type, p \in Plans : Send(c, s, type, p)
  \/ \E r \in Requests :
       \/ Take(r) \/ Look(r) \/ Mark(r) \/ Insert(r) \/ Consume(r) \/ Dies(r)
       \/ \E c \in Clients : Arrive(r, c)
       \/ \E s \in Sessions : Create(r, s) \/ Exchange(r, s)

Spec == Init /\ [][Next]_vars

-----------------------------------------------------------------------------
Request ==
  [pc: {"idle"}] \cup [pc: {"create", "submitted", "mark"}, at: Sessions]
    \cup [pc: {"event"}, message: Message, copy: Session]
    \cup [pc: {"exchange"}, at: Sessions, copy: Session]

TypeOK ==
  /\ session \in [Sessions -> Session \cup {NoSession}]
  /\ application \in [Sessions -> {"saved", "applied", "tracked"}]
  /\ message \in [Clients -> Message \cup {NoMessage}]
  /\ request \in [Requests -> Request]
  /\ bearers \in [Sessions -> Nat] /\ agreed \in [Sessions -> Plans \cup {"none"}]

\* What is submitted is what the user had on his screen when he approved it, and it is
\* complete, although the runner and the user change answers meanwhile and messages repeat
\* (docs/application-assistance.md, minimum acceptance criteria).
SubmittedAsApproved ==
  \A s \in Sessions : session[s].status = "submitted" =>
    session[s].plan = agreed[s] /\ session[s].plan \notin Incomplete

\* A code buys one bearer, though it is exchanged by several requests at once.
OneBearer == \A s \in Sessions : bearers[s] <= 1

Phase(x) ==
  CASE x.status \in {"created", "filling", "needs-input"} -> "preparing"
    [] x.status = "awaiting-user-review" -> "reviewing"
    [] x.status = "ready-for-user-submit" -> "ready"
    [] x.status = "awaiting-user-verification" -> "paused"
    [] x.status \in {"failed", "cancelled"} -> "stopped"
    [] OTHER -> x.status

Started == {s \in Sessions : Exists(s)}
phase == [s \in Sessions |-> Phase(session[s])]
plan == [s \in Sessions |-> IF Exists(s) THEN session[s].plan ELSE Blank]
handled == [s \in Sessions |-> IF Exists(s) THEN session[s].seen ELSE {}]
reviewed == {s \in Started : session[s].approval # "none"}
opened == {s \in Started : session[s].consumed}
Promise == INSTANCE ReviewedSession

\* Every session behaves as ReviewedSession promises, one event at a time, whatever
\* requests read before and however often a message comes.
SessionsKeepPromise == Promise!Spec
=============================================================================
