---------------------------- MODULE DeadLetters ----------------------------
(***************************************************************************)
(* The guarded repair of the dead letters of a catalog queue,                *)
(* cloudflare/dlq-operations.ts: an operator plans to replay or to discard   *)
(* some of the messages, and applies the plan, several times if a part of it *)
(* fails.                                                                   *)
(*                                                                         *)
(* A replay sends one fresh poll per source instead of the messages, and     *)
(* then removes them from the dead letters. The plan, its items and the      *)
(* letters are read before the plan is locked; the letters live in a service *)
(* outside the database that holds the plan.                                 *)
(***************************************************************************)
EXTENDS FiniteSets, Integers

CONSTANTS
  Messages,      \* messages of the dead-letter queue
  Sources,
  SourceOf,      \* the source each message asks to poll
  Plans,         \* repair plans
  Appliers,      \* requests that may apply a plan at the same time
  MaxFaults      \* bound: calls that fail, requests that die, letters that expire

ASSUME LetterAssumption == SourceOf \in [Messages -> Sources] /\ MaxFaults \in Nat

VARIABLES
  dead,       \* messages in the dead-letter queue
  plan,       \* dlq_repair_plans with their items
  audit,      \* dlq_disposition_audit
  blocked,    \* sources that are paused or quarantined
  applier,    \* what each request does
  faults,
  sent        \* history: letters that a fresh poll of their source was sent for

vars == <<dead, plan, audit, blocked, applier, faults, sent>>

-----------------------------------------------------------------------------
Plan == [at: {"planned", "applied"}, operation: {"replay", "discard"},
         items: SUBSET Messages, replayed: SUBSET Messages, purged: SUBSET Messages,
         applying: BOOLEAN, expired: BOOLEAN]
NoPlan == [at |-> "none"]
Deleted == [at |-> "deleted"]
Locked == {"replay", "mark", "record", "unlock"}
Apply == [pc: {"items", "peek", "lock"} \cup Locked, plan: Plans,
          operation: {"replay", "discard"},
          replay: SUBSET Messages,     \* items it read as not replayed, still to be sent
          pending: SUBSET Messages,    \* items it read as not purged, then those it purged
          marking: SUBSET Messages,    \* items of the source it sent last
          failed: BOOLEAN]
NoApply == [pc |-> "idle"]

Init ==
  /\ dead = Messages /\ audit = {} /\ sent = {} /\ faults = 0
  /\ plan = [p \in Plans |-> NoPlan]
  /\ blocked \in SUBSET Sources
  /\ applier = [a \in Appliers |-> NoApply]

Fault == faults < MaxFaults /\ faults' = faults + 1
Exists(p) == plan[p].at \in {"planned", "applied"}

-----------------------------------------------------------------------------
(* The surroundings: letters that expire, polls and operators that block or  *)
(* free sources.                                                            *)

Expires(m) ==
  /\ m \in dead /\ Fault
  /\ dead' = dead \ {m}
  /\ UNCHANGED <<plan, audit, blocked, applier, sent>>

BlockChanges(s) ==
  /\ Fault
  /\ blocked' = IF s \in blocked THEN blocked \ {s} ELSE blocked \cup {s}
  /\ UNCHANGED <<dead, plan, audit, applier, sent>>

-----------------------------------------------------------------------------
\* planDlq: the selected letters must be there, and the sources of a replay must run.
Planned(p, operation, items) ==
  /\ plan[p] = NoPlan /\ items # {} /\ items \subseteq dead
  /\ operation = "replay" => \A m \in items : SourceOf[m] \notin blocked
  /\ plan' = [plan EXCEPT ![p] =
       [at |-> "planned", operation |-> operation, items |-> items, replayed |-> {},
        purged |-> {}, applying |-> FALSE, expired |-> FALSE]]
  /\ UNCHANGED <<dead, audit, blocked, applier, faults, sent>>

CleanupApplied(p) ==
  /\ Exists(p) /\ plan[p].expired /\ plan[p].at = "applied"
  /\ plan' = [plan EXCEPT ![p] = Deleted]
  /\ UNCHANGED <<dead, audit, blocked, applier, faults, sent>>

\* Fifteen minutes after it was made a plan is not applied any more, and the maintenance
\* of the next morning deletes it with its items.
PlanExpires(p) ==
  /\ Exists(p) /\ ~plan[p].expired
  /\ plan' = [plan EXCEPT ![p].expired = TRUE]
  /\ UNCHANGED <<dead, audit, blocked, applier, faults, sent>>

Cleanup(p) ==
  /\ Exists(p) /\ plan[p].expired
  /\ plan' = [plan EXCEPT ![p] = Deleted]
  /\ UNCHANGED <<dead, audit, blocked, applier, faults, sent>>

-----------------------------------------------------------------------------
(* applyDlq, a step for each call of the database, the queue or the service. *)

To(a, pc) == applier' = [applier EXCEPT ![a].pc = pc]
Stops(a) == applier' = [applier EXCEPT ![a] = NoApply]

Begin(a, p) ==
  /\ applier[a].pc = "idle"
  /\ plan[p].at = "planned" /\ ~plan[p].applying /\ ~plan[p].expired
  /\ applier' = [applier EXCEPT ![a] =
       [pc |-> "items", plan |-> p, operation |-> plan[p].operation, replay |-> {}, pending |-> {}, marking |-> {}, failed |-> FALSE]]
  /\ UNCHANGED <<dead, plan, audit, blocked, faults, sent>>

ReadItems(a) ==
  LET p == plan[applier[a].plan]
  IN  /\ applier[a].pc = "items"
      /\ IF p = Deleted THEN Stops(a)
         ELSE applier' = [applier EXCEPT ![a] =
                [applier[a] EXCEPT !.pc = "peek", !.pending = p.items \ p.purged,
                   !.replay = IF applier[a].operation = "replay" THEN p.items \ p.replayed ELSE {}]]
      /\ UNCHANGED <<dead, plan, audit, blocked, faults, sent>>

\* Every letter that is not purged must still be there.
Peek(a) ==
  /\ applier[a].pc = "peek"
  /\ IF applier[a].pending \subseteq dead THEN To(a, "lock") ELSE Stops(a)
  /\ UNCHANGED <<dead, plan, audit, blocked, faults, sent>>

\* The condition of the update that locks the plan.
Lockable(p) == plan[p].at = "planned" /\ ~plan[p].applying

Lock(a) ==
  LET p == applier[a].plan
  IN  /\ applier[a].pc = "lock"
      /\ IF Lockable(p) THEN plan' = [plan EXCEPT ![p].applying = TRUE] /\ To(a, "replay")
         ELSE plan' = plan /\ Stops(a)
      /\ UNCHANGED <<dead, audit, blocked, faults, sent>>

ReplaySkipping(a, s) ==
  LET group == {m \in applier[a].replay : SourceOf[m] = s}
  IN  /\ applier[a].pc = "replay" /\ group # {}
      /\ sent' = IF s \in blocked THEN sent
                 ELSE sent \cup group
      /\ applier' = [applier EXCEPT ![a] =
           [applier[a] EXCEPT !.pc = "mark", !.marking = group,
              !.replay = applier[a].replay \ group]]
      /\ UNCHANGED <<dead, plan, audit, blocked, faults>>

\* One fresh poll stands for every letter of its source, unless the source is blocked by
\* then.
Replay(a, s) ==
  LET group == {m \in applier[a].replay : SourceOf[m] = s}
  IN  /\ applier[a].pc = "replay" /\ group # {}
      /\ IF s \in blocked THEN To(a, "unlock") /\ sent' = sent
         ELSE /\ sent' = sent \cup group
              /\ applier' = [applier EXCEPT ![a] =
                   [applier[a] EXCEPT !.pc = "mark", !.marking = group,
                      !.replay = applier[a].replay \ group]]
      /\ UNCHANGED <<dead, plan, audit, blocked, faults>>

\* Each letter of the group is marked by a statement of its own.
Mark(a, m) ==
  LET p == applier[a].plan
      rest == applier[a].marking \ {m}
  IN  /\ applier[a].pc = "mark" /\ m \in applier[a].marking
      /\ plan' = IF Exists(p) THEN [plan EXCEPT ![p].replayed = plan[p].replayed \cup {m}]
                 ELSE plan
      /\ applier' = [applier EXCEPT ![a].marking = rest,
                                    ![a].pc = IF rest = {} THEN "replay" ELSE "mark"]
      /\ UNCHANGED <<dead, audit, blocked, faults, sent>>

\* The service removes the letters, or reports those that it could not remove.
Purge(a) ==
  /\ applier[a].pc = "replay" /\ applier[a].replay = {}
  /\ \E failed \in SUBSET applier[a].pending :
       /\ IF failed = {} THEN faults' = faults ELSE Fault
       /\ dead' = dead \ (applier[a].pending \ failed)
       /\ applier' = [applier EXCEPT ![a] =
            [applier[a] EXCEPT !.pc = "record", !.pending = applier[a].pending \ failed,
               !.failed = failed # {}]]
  /\ UNCHANGED <<plan, audit, blocked, sent>>

\* The mark of the item and the entry of the audit are one batch; the entry is written for
\* a plan that was deleted meanwhile, too.
Record(a, m) ==
  LET p == applier[a].plan
  IN  /\ applier[a].pc = "record" /\ m \in applier[a].pending
      /\ plan' = IF Exists(p) THEN [plan EXCEPT ![p].purged = plan[p].purged \cup {m}] ELSE plan
      /\ audit' = audit \cup {[plan |-> p, message |-> m, as |-> applier[a].operation]}
      /\ applier' = [applier EXCEPT ![a].pending = applier[a].pending \ {m}]
      /\ UNCHANGED <<dead, blocked, faults, sent>>

Applied(p) == [plan EXCEPT ![p].at = "applied", ![p].applying = FALSE]
StayedNever(a) == FALSE
Stayed(a) == applier[a].failed

\* A plan of which a letter stayed is unlocked to be applied again.
Finish(a) ==
  LET p == applier[a].plan
  IN  /\ applier[a].pc = "record" /\ applier[a].pending = {}
      /\ IF Stayed(a) THEN To(a, "unlock") /\ plan' = plan
         ELSE /\ plan' = IF plan[p].at = "planned" THEN Applied(p) ELSE plan
              /\ Stops(a)
      /\ UNCHANGED <<dead, audit, blocked, faults, sent>>

Unlock(a) ==
  LET p == applier[a].plan
  IN  /\ applier[a].pc = "unlock"
      /\ plan' = IF plan[p].at = "planned" THEN [plan EXCEPT ![p].applying = FALSE] ELSE plan
      /\ Stops(a)
      /\ UNCHANGED <<dead, audit, blocked, faults, sent>>

\* A call may fail without effect, or, the calls of services outside, after it.
Fails(a) ==
  /\ applier[a].pc # "idle" /\ Fault
  /\ IF applier[a].pc \in Locked \ {"unlock"} THEN To(a, "unlock") ELSE Stops(a)
  /\ \/ UNCHANGED <<dead, sent>>
     \/ /\ applier[a].pc = "replay" /\ applier[a].replay # {} /\ dead' = dead
        /\ \E m \in applier[a].replay :
             sent' = sent \cup {n \in applier[a].replay : SourceOf[n] = SourceOf[m]}
     \/ /\ applier[a].pc = "replay" /\ applier[a].replay = {} /\ sent' = sent
        /\ \E gone \in SUBSET applier[a].pending : dead' = dead \ gone
  /\ UNCHANGED <<plan, audit, blocked>>

RequestDies(a) ==
  /\ applier[a].pc # "idle" /\ Fault
  /\ Stops(a) /\ UNCHANGED <<dead, plan, audit, blocked, sent>>

Step(a) ==
  \/ ReadItems(a) \/ Peek(a) \/ Lock(a) \/ Purge(a) \/ Finish(a) \/ Unlock(a)
  \/ \E s \in Sources : Replay(a, s)
  \/ \E m \in Messages : Mark(a, m) \/ Record(a, m)

Next ==
  \/ \E m \in Messages : Expires(m)
  \/ \E s \in Sources : BlockChanges(s)
  \/ \E p \in Plans :
       \/ PlanExpires(p) \/ Cleanup(p)
       \/ \E operation \in {"replay", "discard"}, items \in SUBSET dead :
            Planned(p, operation, items)
  \/ \E a \in Appliers :
       \/ Step(a) \/ Fails(a) \/ RequestDies(a)
       \/ \E p \in Plans : Begin(a, p)

Spec == Init /\ [][Next]_vars

\* Time passes and the maintenance runs every morning.
FairSpec == Spec /\ \A p \in Plans : WF_vars(PlanExpires(p)) /\ WF_vars(Cleanup(p))

-----------------------------------------------------------------------------
TypeOK ==
  /\ dead \subseteq Messages /\ sent \subseteq Messages /\ blocked \subseteq Sources
  /\ plan \in [Plans -> Plan \cup {NoPlan, Deleted}]
  /\ \A p \in Plans : plan[p].at = "applied" => ~plan[p].applying
  /\ audit \subseteq [plan: Plans, message: Messages, as: {"replay", "discard"}]
  /\ applier \in [Appliers -> Apply \cup {NoApply}] /\ faults \in 0..MaxFaults

\* The lock of a plan holds: no two requests send, remove or record for it at once
\* (dlq-operations.ts:220).
OneApplier ==
  \A a, b \in Appliers :
    applier[a].pc \in Locked /\ applier[b].pc \in Locked /\ applier[a].plan = applier[b].plan
      => a = b

\* A letter that the audit calls replayed was: its source was sent a fresh poll after the
\* letter died and before it was removed, whatever failed, died or was applied again.
NoWorkLost == \A e \in audit : e.as = "replay" => e.message \in sent

\* An applied plan is disposed of completely: every letter of it was removed and is in the
\* audit, though the plan may have been applied in several parts.
AppliedIsDisposed ==
  \A p \in Plans : plan[p].at = "applied" =>
    /\ plan[p].purged = plan[p].items
    /\ plan[p].items \subseteq {e.message : e \in {x \in audit : x.plan = p}}

\* A plan that was locked by a request that died does not hold its letters for ever.
LockEnds ==
  \A p \in Plans : (Exists(p) /\ plan[p].applying) ~> ~(Exists(p) /\ plan[p].applying)
=============================================================================
