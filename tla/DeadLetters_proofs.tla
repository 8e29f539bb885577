------------------------- MODULE DeadLetters_proofs -------------------------
(***************************************************************************)
(* The repair of dead letters, for any number of letters, plans and          *)
(* requests. What a request read of a plan is out of date when it uses it;   *)
(* the invariant says in which direction: a plan only gains marks, so a      *)
(* request may know too few, and then it sends or removes too much, never    *)
(* too little.                                                              *)
(***************************************************************************)
EXTENDS DeadLetters, TLAPS

\* What is read of a plan stays true while the plan exists.
Reading == {"peek", "lock", "replay", "mark"}

PlanOK(p) == Exists(p) =>
  /\ plan[p].purged \subseteq plan[p].items
  /\ plan[p].replayed \subseteq sent
  /\ \A m \in plan[p].purged : \E e \in audit : e.plan = p /\ e.message = m

\* A request works for a plan that was made; what it has not sent yet it knows of.
SendsOK(a) == applier[a].pc # "idle" =>
  /\ plan[applier[a].plan].at # "none"
  /\ applier[a].pc \in Reading \cup {"record"} /\ applier[a].operation = "replay" =>
       applier[a].pending \subseteq sent \cup applier[a].replay
  /\ applier[a].pc = "mark" => applier[a].marking \subseteq sent
  /\ applier[a].pc = "record" => applier[a].replay = {}

\* What is not removed yet it knows of, unless the service refused some.
Covers(a) ==
  /\ applier[a].pending \subseteq plan[applier[a].plan].items
  /\ \/ applier[a].pc = "record" /\ applier[a].failed
     \/ plan[applier[a].plan].items \ plan[applier[a].plan].purged \subseteq applier[a].pending

RemovesOK(a) ==
  applier[a].pc # "idle" /\ Exists(applier[a].plan) =>
    /\ applier[a].operation = plan[applier[a].plan].operation
    /\ applier[a].pc \in Reading \cup {"record"} => Covers(a)

LockOK(a) == applier[a].pc \in Locked =>
  /\ plan[applier[a].plan].at \in {"planned", "deleted"}
  /\ plan[applier[a].plan].at = "planned" => plan[applier[a].plan].applying

\* No plan of which a letter stayed is taken for applied.
IInv ==
  /\ TypeOK /\ OneApplier /\ NoWorkLost /\ AppliedIsDisposed
  /\ \A p \in Plans : PlanOK(p)
  /\ \A a \in Appliers : SendsOK(a) /\ RemovesOK(a) /\ LockOK(a)

-----------------------------------------------------------------------------
\* A plan exists exactly when its row is one, and the rows of requests at work are typed.
LEMMA Rows ==
  ASSUME TypeOK
  PROVE  /\ \A p \in Plans : Exists(p) <=> plan[p] \in Plan
         /\ \A p \in Plans : ~Exists(p) => plan[p] \in {NoPlan, Deleted}
         /\ \A a \in Appliers : applier[a].pc # "idle" <=> applier[a] \in Apply
         /\ \A a \in Appliers : applier[a].pc = "idle" => applier[a] = NoApply
  BY DEF TypeOK, Exists, Plan, NoPlan, Deleted, Apply, NoApply, Locked

LEMMA InitOK == ASSUME LetterAssumption, Init PROVE IInv
  BY DEF Init, IInv, TypeOK, OneApplier, NoWorkLost, AppliedIsDisposed, PlanOK, SendsOK,
         RemovesOK, LockOK, Covers, Exists, NoPlan, NoApply, Locked, Reading, LetterAssumption

\* The updates that the actions make of a plan and of a request keep their types.
LEMMA PlanEdits ==
  ASSUME NEW r \in Plan, NEW S \in SUBSET Messages
  PROVE  /\ [r EXCEPT !.replayed = S] \in Plan /\ [r EXCEPT !.purged = S] \in Plan
         /\ [r EXCEPT !.applying = TRUE] \in Plan /\ [r EXCEPT !.applying = FALSE] \in Plan
         /\ [r EXCEPT !.expired = TRUE] \in Plan
         /\ [r EXCEPT !.at = "applied", !.applying = FALSE] \in Plan
  BY DEF Plan

LEMMA ApplyEdits ==
  ASSUME NEW r \in Apply, NEW S \in SUBSET Messages, NEW R \in SUBSET Messages,
         NEW pc \in {"items", "peek", "lock"} \cup Locked
  PROVE  /\ [r EXCEPT !.pc = pc] \in Apply /\ [r EXCEPT !.pending = S] \in Apply
         /\ [r EXCEPT !.pc = pc, !.pending = S, !.replay = R] \in Apply
         /\ [r EXCEPT !.pc = pc, !.marking = S, !.replay = R] \in Apply
         /\ [r EXCEPT !.marking = S, !.pc = pc] \in Apply
         /\ [r EXCEPT !.pc = pc, !.pending = S, !.failed = TRUE] \in Apply
         /\ [r EXCEPT !.pc = pc, !.pending = S, !.failed = FALSE] \in Apply
  BY DEF Apply

-----------------------------------------------------------------------------
\* The rows keep their types.
LEMMA TypeStep == ASSUME LetterAssumption, IInv, [Next]_vars PROVE TypeOK'
<1> USE LetterAssumption
<1>0. /\ TypeOK
      /\ \A p \in Plans : Exists(p) => plan[p] \in Plan
      /\ \A p \in Plans : ~Exists(p) => plan[p] \in {NoPlan, Deleted}
      /\ \A a \in Appliers : applier[a].pc # "idle" => applier[a] \in Apply
      /\ \A a \in Appliers : applier[a].pc # "idle" => plan[applier[a].plan].at # "none"
  BY Rows DEF IInv, SendsOK
<1> USE <1>0
<1>1. CASE UNCHANGED vars BY <1>1 DEF vars, TypeOK
<1>2. ASSUME NEW m \in Messages, Expires(m) PROVE TypeOK'
  BY <1>2 DEF Expires, Fault, TypeOK
<1>3. ASSUME NEW s \in Sources, BlockChanges(s) PROVE TypeOK'
  BY <1>3 DEF BlockChanges, Fault, TypeOK
<1>4. ASSUME NEW p \in Plans, PlanExpires(p) PROVE TypeOK'
  BY <1>4, ZenonT(60) DEF PlanExpires, TypeOK, Exists, Plan
<1>5. ASSUME NEW p \in Plans, Cleanup(p) PROVE TypeOK'
  BY <1>5 DEF Cleanup, TypeOK, Deleted
<1>6. ASSUME NEW p \in Plans, NEW o \in {"replay", "discard"}, NEW items \in SUBSET dead,
             Planned(p, o, items)
      PROVE  TypeOK'
  BY <1>6 DEF Planned, TypeOK, Plan
<1>7. ASSUME NEW a \in Appliers, NEW p \in Plans, Begin(a, p) PROVE TypeOK'
  BY <1>7 DEF Begin, TypeOK, Apply, Exists, Plan
<1>8. ASSUME NEW a \in Appliers, ReadItems(a) PROVE TypeOK'
  <2> DEFINE p == plan[applier[a].plan]
             pending == p.items \ p.purged
             replay == IF applier[a].operation = "replay" THEN p.items \ p.replayed ELSE {}
  <2>1. applier[a] \in Apply /\ applier[a].plan \in Plans BY <1>8 DEF ReadItems, Apply
  <2>2. CASE p = Deleted BY <1>8, <2>2 DEF ReadItems, Stops, TypeOK
  <2>3. CASE p # Deleted
    <3>1. p \in Plan BY <2>1, <2>3, <1>8 DEF ReadItems, NoPlan
    <3>2. pending \in SUBSET Messages /\ replay \in SUBSET Messages BY <3>1 DEF Plan
    <3>3. [applier[a] EXCEPT !.pc = "peek", !.pending = pending, !.replay = replay] \in Apply
      BY <2>1, <3>2, ApplyEdits
    <3> QED BY <1>8, <2>3, <3>3 DEF ReadItems, TypeOK
  <2> QED BY <2>2, <2>3
<1>9. ASSUME NEW a \in Appliers, Peek(a) PROVE TypeOK'
  BY <1>9 DEF Peek, Stops, To, TypeOK, Apply, NoApply
<1>10. ASSUME NEW a \in Appliers, Lock(a) PROVE TypeOK'
  <2>1. applier[a] \in Apply /\ applier[a].plan \in Plans BY <1>10 DEF Lock, Lockable, Apply
  <2>2. [applier[a] EXCEPT !.pc = "replay"] \in Apply BY <2>1, ApplyEdits DEF Locked
  <2>3. applier' \in [Appliers -> Apply \cup {NoApply}]
    BY <1>10, <2>2 DEF Lock, Lockable, To, Stops, TypeOK
  <2>4. CASE plan' = plan BY <1>10, <2>3, <2>4 DEF Lock, Lockable, TypeOK
  <2>5. CASE plan' # plan
    <3> DEFINE q == applier[a].plan
    <3>1. plan[q].at = "planned" /\ plan' = [plan EXCEPT ![q] = [plan[q] EXCEPT !.applying = TRUE]]
      BY <1>10, <2>5 DEF Lock, Lockable
    <3>2. plan[q] \in Plan /\ [plan[q] EXCEPT !.applying = TRUE] \in Plan
      BY <2>1, <3>1, PlanEdits DEF Exists
    <3>3. [plan[q] EXCEPT !.applying = TRUE].at = "planned" BY <3>1, <3>2 DEF Plan
    <3> QED BY <1>10, <2>1, <2>3, <3>1, <3>2, <3>3 DEF Lock, Lockable, TypeOK
  <2> QED BY <2>4, <2>5
<1>11. ASSUME NEW a \in Appliers, NEW s \in Sources, Replay(a, s) PROVE TypeOK'
  <2> DEFINE group == {m \in applier[a].replay : SourceOf[m] = s}
  <2>1. applier[a] \in Apply BY <1>11 DEF Replay
  <2>2. group \in SUBSET Messages /\ applier[a].replay \ group \in SUBSET Messages
    BY <2>1 DEF Apply
  <2>3. [applier[a] EXCEPT !.pc = "unlock"] \in Apply BY <2>1, ApplyEdits DEF Locked
  <2>4. [applier[a] EXCEPT !.pc = "mark", !.marking = group, !.replay = applier[a].replay \ group]
          \in Apply
    BY <2>1, <2>2, ApplyEdits DEF Locked
  <2>5. sent' \subseteq Messages BY <1>11, <2>2 DEF Replay, TypeOK
  <2> QED BY <1>11, <2>3, <2>4, <2>5 DEF Replay, To, TypeOK
<1>12. ASSUME NEW a \in Appliers, NEW m \in Messages, Mark(a, m) PROVE TypeOK'
  <2> DEFINE q == applier[a].plan
             rest == applier[a].marking \ {m}
  <2>1. applier[a] \in Apply /\ q \in Plans BY <1>12 DEF Mark, Apply
  <2>2. rest \in SUBSET Messages BY <2>1 DEF Apply
  <2>3. [applier[a] EXCEPT !.marking = rest, !.pc = IF rest = {} THEN "replay" ELSE "mark"] \in Apply
    BY <2>1, <2>2, ApplyEdits DEF Locked
  <2>4. applier' = [applier EXCEPT ![a] =
          [applier[a] EXCEPT !.marking = rest, !.pc = IF rest = {} THEN "replay" ELSE "mark"]]
    BY <1>12, <2>1 DEF Mark, TypeOK, Apply
  <2>5. applier' \in [Appliers -> Apply \cup {NoApply}] BY <2>3, <2>4 DEF TypeOK
  <2>6. CASE Exists(q)
    <3>1. plan[q] \in Plan /\ plan[q].replayed \cup {m} \in SUBSET Messages BY <2>1, <2>6 DEF Plan
    <3>2. [plan[q] EXCEPT !.replayed = plan[q].replayed \cup {m}] \in Plan BY <3>1, PlanEdits
    <3>3. /\ [plan[q] EXCEPT !.replayed = plan[q].replayed \cup {m}].at = plan[q].at
          /\ [plan[q] EXCEPT !.replayed = plan[q].replayed \cup {m}].applying = plan[q].applying
      BY <3>1 DEF Plan
    <3>4. plan' = [plan EXCEPT ![q] = [plan[q] EXCEPT !.replayed = plan[q].replayed \cup {m}]]
      BY <1>12, <2>6 DEF Mark
    <3> QED BY <1>12, <2>1, <2>5, <3>2, <3>3, <3>4 DEF Mark, TypeOK
  <2>7. CASE ~Exists(q) BY <1>12, <2>5, <2>7 DEF Mark, TypeOK
  <2> QED BY <2>6, <2>7
<1>13. ASSUME NEW a \in Appliers, Purge(a) PROVE TypeOK'
  <2>1. applier[a] \in Apply BY <1>13 DEF Purge
  <2>2. PICK failed \in SUBSET applier[a].pending :
          /\ faults' = faults \/ Fault
          /\ dead' = dead \ (applier[a].pending \ failed)
          /\ applier' = [applier EXCEPT ![a] =
               [applier[a] EXCEPT !.pc = "record", !.pending = applier[a].pending \ failed,
                  !.failed = failed # {}]]
    BY <1>13 DEF Purge
  <2>3. applier[a].pending \ failed \in SUBSET Messages BY <2>1 DEF Apply
  <2>4. [applier[a] EXCEPT !.pc = "record", !.pending = applier[a].pending \ failed,
           !.failed = failed # {}] \in Apply
    BY <2>1, <2>3, ApplyEdits DEF Locked
  <2>5. faults' \in 0..MaxFaults BY <2>2 DEF Fault, TypeOK, LetterAssumption
  <2> QED BY <1>13, <2>2, <2>4, <2>5 DEF Purge, TypeOK
<1>14. ASSUME NEW a \in Appliers, NEW m \in Messages, Record(a, m) PROVE TypeOK'
  <2> DEFINE q == applier[a].plan
             entry == [plan |-> q, message |-> m, as |-> applier[a].operation]
  <2>1. applier[a] \in Apply /\ q \in Plans BY <1>14 DEF Record, Apply
  <2> DEFINE rest == applier[a].pending \ {m}
  <2>0. rest \in SUBSET Messages BY <2>1 DEF Apply
  <2>2. [applier[a] EXCEPT !.pending = rest] \in Apply
    BY <2>0, <2>1, ApplyEdits DEF Locked
  <2>3. applier' \in [Appliers -> Apply \cup {NoApply}]
    <3>1. applier' = [applier EXCEPT ![a] = [applier[a] EXCEPT !.pending = rest]]
      BY <1>14 DEF Record
    <3> QED BY <2>2, <3>1 DEF TypeOK
  <2>4. entry \in [plan: Plans, message: Messages, as: {"replay", "discard"}]
    BY <2>1 DEF Apply
  <2>5. audit' \subseteq [plan: Plans, message: Messages, as: {"replay", "discard"}]
    BY <1>14, <2>4 DEF Record, TypeOK
  <2>6. CASE Exists(q)
    <3>1. plan[q] \in Plan /\ plan[q].purged \cup {m} \in SUBSET Messages BY <2>1, <2>6 DEF Plan
    <3>2. [plan[q] EXCEPT !.purged = plan[q].purged \cup {m}] \in Plan BY <3>1, PlanEdits
    <3>3. /\ [plan[q] EXCEPT !.purged = plan[q].purged \cup {m}].at = plan[q].at
          /\ [plan[q] EXCEPT !.purged = plan[q].purged \cup {m}].applying = plan[q].applying
      BY <3>1 DEF Plan
    <3>4. plan' = [plan EXCEPT ![q] = [plan[q] EXCEPT !.purged = plan[q].purged \cup {m}]]
      BY <1>14, <2>6 DEF Record
    <3> QED BY <1>14, <2>1, <2>3, <2>5, <3>2, <3>3, <3>4 DEF Record, TypeOK
  <2>7. CASE ~Exists(q) BY <1>14, <2>3, <2>5, <2>7 DEF Record, TypeOK
  <2> QED BY <2>6, <2>7
<1>15. ASSUME NEW a \in Appliers, Finish(a) PROVE TypeOK'
  BY <1>15, SMTT(40) DEF Finish, Applied, Stayed, Stops, To, TypeOK, Apply, NoApply, Locked, Plan, Exists
<1>16. ASSUME NEW a \in Appliers, Unlock(a) PROVE TypeOK'
  <2> DEFINE q == applier[a].plan
  <2>1. q \in Plans BY <1>16 DEF Unlock, Apply
  <2>2. applier' \in [Appliers -> Apply \cup {NoApply}] BY <1>16 DEF Unlock, Stops, TypeOK
  <2>3. CASE plan[q].at = "planned"
    <3>1. plan[q] \in Plan /\ [plan[q] EXCEPT !.applying = FALSE] \in Plan
      BY <2>1, <2>3, PlanEdits DEF Exists
    <3>2. [plan[q] EXCEPT !.applying = FALSE].at = "planned" BY <2>3, <3>1 DEF Plan
    <3>3. plan' = [plan EXCEPT ![q] = [plan[q] EXCEPT !.applying = FALSE]]
      BY <1>16, <2>3 DEF Unlock
    <3> QED BY <1>16, <2>1, <2>2, <3>1, <3>2, <3>3 DEF Unlock, TypeOK
  <2>4. CASE plan[q].at # "planned" BY <1>16, <2>2, <2>4 DEF Unlock, TypeOK
  <2> QED BY <2>3, <2>4
<1>17. ASSUME NEW a \in Appliers, Fails(a) PROVE TypeOK'
  BY <1>17 DEF Fails, Fault, Stops, To, TypeOK, Apply, NoApply, Locked
<1>18. ASSUME NEW a \in Appliers, RequestDies(a) PROVE TypeOK'
  BY <1>18 DEF RequestDies, Fault, Stops, TypeOK, NoApply
<1> QED
  BY <1>1, <1>2, <1>3, <1>4, <1>5, <1>6, <1>7, <1>8, <1>9, <1>10, <1>11, <1>12, <1>13, <1>14,
     <1>15, <1>16, <1>17, <1>18 DEF Next, Step

-----------------------------------------------------------------------------
(* What a step does to the plans: they only gain marks, are deleted or made. *)

Grows ==
  /\ sent \subseteq sent' /\ audit \subseteq audit'
  /\ \A p \in Plans : plan[p].at # "none" =>
       /\ plan'[p].at # "none"
       /\ Exists(p)' =>
            /\ Exists(p) /\ plan'[p].items = plan[p].items
            /\ plan'[p].operation = plan[p].operation
            /\ plan[p].purged \subseteq plan'[p].purged

LEMMA GrowsStep == ASSUME IInv, [Next]_vars PROVE Grows
<1>0. /\ TypeOK
      /\ \A p \in Plans : Exists(p) => plan[p] \in Plan
      /\ \A p \in Plans : ~Exists(p) => plan[p] \in {NoPlan, Deleted}
  BY Rows DEF IInv
<1> USE <1>0
<1>1. CASE plan' = plan /\ sent \subseteq sent' /\ audit \subseteq audit'
  BY <1>1 DEF Grows, Exists
<1>2. ASSUME NEW p \in Plans, PlanExpires(p) PROVE Grows
  BY <1>2 DEF PlanExpires, Grows, Exists, Plan, TypeOK
<1>3. ASSUME NEW p \in Plans, Cleanup(p) PROVE Grows
  BY <1>3 DEF Cleanup, Grows, Exists, Deleted, TypeOK
<1>4. ASSUME NEW p \in Plans, NEW o \in {"replay", "discard"}, NEW items \in SUBSET dead,
             Planned(p, o, items)
      PROVE  Grows
  BY <1>4 DEF Planned, Grows, Exists, NoPlan, TypeOK
<1>5. ASSUME NEW a \in Appliers, Lock(a) PROVE Grows
  BY <1>5 DEF Lock, Lockable, Grows, Exists, Plan, TypeOK
<1>6. ASSUME NEW a \in Appliers, NEW m \in Messages, Mark(a, m) PROVE Grows
  BY <1>6 DEF Mark, Grows, Exists, Plan, TypeOK
<1>7. ASSUME NEW a \in Appliers, NEW m \in Messages, Record(a, m) PROVE Grows
  BY <1>7 DEF Record, Grows, Exists, Plan, TypeOK
<1>8. ASSUME NEW a \in Appliers, Finish(a) PROVE Grows
  BY <1>8 DEF Finish, Applied, Stayed, Grows, Exists, Plan, TypeOK
<1>9. ASSUME NEW a \in Appliers, Unlock(a) PROVE Grows
  BY <1>9 DEF Unlock, Grows, Exists, Plan, TypeOK
<1>10. ASSUME NEW a \in Appliers, NEW s \in Sources, Replay(a, s) PROVE Grows
  BY <1>10, <1>1 DEF Replay
<1>11. ASSUME NEW a \in Appliers, Fails(a) PROVE Grows BY <1>11, <1>1 DEF Fails
<1> QED
  BY <1>1, <1>2, <1>3, <1>4, <1>5, <1>6, <1>7, <1>8, <1>9, <1>10, <1>11
  DEF Next, Step, vars, Expires, BlockChanges, Begin, ReadItems, Peek, Purge, RequestDies

\* What holds of a request holds on while it does nothing.
LEMMA Waits ==
  ASSUME IInv, Grows, NEW a \in Appliers, applier'[a] = applier[a]
  PROVE  SendsOK(a)' /\ RemovesOK(a)'
<1>1. SendsOK(a) /\ RemovesOK(a) /\ (applier[a].pc # "idle" => applier[a].plan \in Plans)
  BY Rows DEF IInv, Apply
<1>2. SendsOK(a)' BY <1>1 DEF SendsOK, Grows, Reading
<1>3. RemovesOK(a)' BY <1>1 DEF RemovesOK, SendsOK, Covers, Grows, Exists, Reading
<1> QED BY <1>2, <1>3

-----------------------------------------------------------------------------
\* A request changes only by a step of its own.
LEMMA Acts ==
  ASSUME TypeOK, [Next]_vars, NEW a \in Appliers, applier'[a] # applier[a]
  PROVE  \/ Step(a) \/ Fails(a) \/ RequestDies(a)
         \/ \E p \in Plans : Begin(a, p)
<1>1. Next BY DEF vars
<1>2. ASSUME NEW b \in Appliers, b # a,
             Step(b) \/ Fails(b) \/ RequestDies(b) \/ \E p \in Plans : Begin(b, p)
      PROVE  FALSE
  BY <1>2 DEF Step, Fails, RequestDies, Begin, ReadItems, Peek, Lock, Lockable, Purge, Finish, Applied, Stayed, Unlock,
              Replay, Mark, Record, To, Stops, TypeOK
<1>3. \E b \in Appliers :
        Step(b) \/ Fails(b) \/ RequestDies(b) \/ \E p \in Plans : Begin(b, p)
  BY <1>1 DEF Next, Expires, BlockChanges, PlanExpires, Cleanup, Planned
<1> QED BY <1>2, <1>3

\* A request sends and removes what its plan asks for, though it read the plan long ago.
LEMMA RequestStep ==
  ASSUME LetterAssumption, IInv, [Next]_vars, NEW a \in Appliers
  PROVE  SendsOK(a)' /\ RemovesOK(a)'
<1>0. /\ TypeOK /\ SendsOK(a) /\ RemovesOK(a) /\ \A p \in Plans : PlanOK(p)
      /\ applier[a].pc # "idle" => applier[a] \in Apply
  BY Rows DEF IInv
<1>1. Grows BY GrowsStep
<1>2. CASE applier'[a] = applier[a] BY <1>1, <1>2, Waits
<1>3. CASE applier'[a].pc = "idle" BY <1>3 DEF SendsOK, RemovesOK
<1>4. ASSUME NEW p \in Plans, Begin(a, p) PROVE SendsOK(a)' /\ RemovesOK(a)'
  BY <1>0, <1>4 DEF Begin, SendsOK, RemovesOK, Reading, Exists, TypeOK
<1>5. CASE ReadItems(a) /\ applier'[a].pc # "idle"
  <2> DEFINE q == applier[a].plan
             replay == IF applier[a].operation = "replay"
                       THEN plan[q].items \ plan[q].replayed ELSE {}
  <2>1. /\ applier[a] \in Apply /\ q \in Plans /\ plan[q].at # "none" /\ plan' = plan
        /\ sent' = sent /\ plan[q] # Deleted
    BY <1>0, <1>5 DEF ReadItems, Apply, SendsOK, Stops, NoApply, TypeOK
  <2>2. Exists(q) /\ plan[q] \in Plan BY <1>0, <2>1 DEF TypeOK, NoPlan, Plan, Exists
  <2>3. applier'[a] = [applier[a] EXCEPT !.pc = "peek", !.pending = plan[q].items \ plan[q].purged,
                                        !.replay = replay]
    BY <1>0, <1>5, <2>1 DEF ReadItems, TypeOK
  <2>4. /\ applier'[a].pc = "peek" /\ applier'[a].plan = q
        /\ applier'[a].operation = applier[a].operation
        /\ applier'[a].pending = plan[q].items \ plan[q].purged /\ applier'[a].replay = replay
    BY <2>1, <2>3 DEF Apply
  <2>5. plan[q].replayed \subseteq sent BY <1>0, <2>1, <2>2 DEF PlanOK
  <2>6. SendsOK(a)' BY <2>1, <2>4, <2>5 DEF SendsOK
  <2>7. RemovesOK(a)'
    BY <1>0, <1>5, <2>1, <2>2, <2>4 DEF RemovesOK, Covers, Exists, ReadItems
  <2> QED BY <2>6, <2>7
<1>6. CASE (Peek(a) \/ Lock(a)) /\ applier'[a].pc # "idle"
  <2>1. /\ applier[a] \in Apply /\ applier[a].plan \in Plans
        /\ applier[a].pc \in {"peek", "lock"} /\ sent' = sent
        /\ \E pc \in {"lock", "replay"} : applier'[a] = [applier[a] EXCEPT !.pc = pc]
    BY <1>0, <1>6 DEF Peek, Lock, Lockable, To, Stops, NoApply, TypeOK, Apply
  <2>2. /\ applier'[a].pc \in {"lock", "replay"} /\ applier'[a].plan = applier[a].plan
        /\ applier'[a].operation = applier[a].operation
        /\ applier'[a].pending = applier[a].pending /\ applier'[a].replay = applier[a].replay
    BY <2>1 DEF Apply
  <2> QED BY <1>0, <1>1, <2>1, <2>2 DEF SendsOK, RemovesOK, Covers, Grows, Exists, Reading
<1>7. ASSUME NEW s \in Sources, Replay(a, s), s \notin blocked PROVE SendsOK(a)' /\ RemovesOK(a)'
  <2> DEFINE group == {m \in applier[a].replay : SourceOf[m] = s}
  <2>1. /\ applier[a] \in Apply /\ applier[a].plan \in Plans /\ applier[a].pc = "replay"
        /\ sent' = sent \cup group
        /\ applier'[a] = [applier[a] EXCEPT !.pc = "mark", !.marking = group,
                                           !.replay = applier[a].replay \ group]
    BY <1>0, <1>7 DEF Replay, TypeOK, Apply
  <2>2. /\ applier'[a].pc = "mark" /\ applier'[a].plan = applier[a].plan
        /\ applier'[a].operation = applier[a].operation /\ applier'[a].marking = group
        /\ applier'[a].pending = applier[a].pending
        /\ applier'[a].replay = applier[a].replay \ group
    BY <2>1 DEF Apply
  <2> HIDE DEF group
  <2>3. SendsOK(a)' BY <1>0, <1>1, <2>1, <2>2 DEF SendsOK, Grows, Reading
  <2>4. RemovesOK(a)' BY <1>0, <1>1, <2>1, <2>2 DEF SendsOK, RemovesOK, Covers, Grows, Exists, Reading
  <2> QED BY <2>3, <2>4
<1>8. CASE applier'[a].pc = "unlock" /\ applier'[a].plan = applier[a].plan
           /\ applier'[a].operation = applier[a].operation /\ applier[a].pc # "idle"
  BY <1>0, <1>1, <1>8 DEF SendsOK, RemovesOK, Grows, Exists, Reading, Apply
<1>9. ASSUME NEW m \in Messages, Mark(a, m) PROVE SendsOK(a)' /\ RemovesOK(a)'
  <2> DEFINE rest == applier[a].marking \ {m}
  <2>1. /\ applier[a] \in Apply /\ applier[a].plan \in Plans /\ applier[a].pc = "mark"
        /\ sent' = sent
    BY <1>0, <1>9 DEF Mark, Apply
  <2>2. applier'[a] =
          [applier[a] EXCEPT !.marking = rest, !.pc = IF rest = {} THEN "replay" ELSE "mark"]
    BY <1>0, <1>9, <2>1 DEF Mark, TypeOK, Apply
  <2>3. /\ applier'[a].pc \in {"replay", "mark"} /\ applier'[a].plan = applier[a].plan
        /\ applier'[a].operation = applier[a].operation /\ applier'[a].marking = rest
        /\ applier'[a].pending = applier[a].pending /\ applier'[a].replay = applier[a].replay
    BY <2>1, <2>2 DEF Apply
  <2>4. SendsOK(a)' BY <1>0, <1>1, <2>1, <2>3 DEF SendsOK, Grows, Reading
  <2>5. RemovesOK(a)' BY <1>0, <1>1, <2>1, <2>3 DEF SendsOK, RemovesOK, Covers, Grows, Exists, Reading
  <2> QED BY <2>4, <2>5
<1>10. CASE Purge(a)
  <2>1. /\ applier[a] \in Apply /\ applier[a].plan \in Plans /\ applier[a].pc = "replay"
        /\ applier[a].replay = {} /\ sent' = sent
    BY <1>0, <1>10 DEF Purge, Apply
  <2>2. PICK failed \in SUBSET applier[a].pending :
          applier'[a] = [applier[a] EXCEPT !.pc = "record", !.pending = applier[a].pending \ failed,
                                          !.failed = failed # {}]
    BY <1>0, <1>10 DEF Purge, TypeOK
  <2>3. /\ applier'[a].pc = "record" /\ applier'[a].plan = applier[a].plan
        /\ applier'[a].operation = applier[a].operation /\ applier'[a].replay = {}
        /\ applier'[a].pending = applier[a].pending \ failed
        /\ failed # {} => applier'[a].failed
    BY <2>1, <2>2 DEF Apply
  <2>4. SendsOK(a)' BY <1>0, <1>1, <2>1, <2>3 DEF SendsOK, Grows, Reading
  <2>5. RemovesOK(a)' BY <1>0, <1>1, <2>1, <2>3 DEF SendsOK, RemovesOK, Covers, Grows, Exists, Reading
  <2> QED BY <2>4, <2>5
<1>11. ASSUME NEW m \in Messages, Record(a, m) PROVE SendsOK(a)' /\ RemovesOK(a)'
  <2>1. /\ applier[a] \in Apply /\ applier[a].plan \in Plans /\ applier[a].pc = "record"
        /\ sent' = sent /\ m \in applier[a].pending
        /\ applier'[a] = [applier[a] EXCEPT !.pending = applier[a].pending \ {m}]
    BY <1>0, <1>11 DEF Record, Apply, TypeOK
  <2>2. /\ applier'[a].pc = "record" /\ applier'[a].plan = applier[a].plan
        /\ applier'[a].operation = applier[a].operation
        /\ applier'[a].replay = applier[a].replay /\ applier'[a].failed = applier[a].failed
        /\ applier'[a].pending = applier[a].pending \ {m}
    BY <2>1 DEF Apply
  <2>3. Exists(applier[a].plan)' =>
          plan'[applier[a].plan].purged = plan[applier[a].plan].purged \cup {m}
    BY <1>0, <1>11, <2>1 DEF Record, Exists, TypeOK, Plan
  <2>4. SendsOK(a)' BY <1>0, <1>1, <2>1, <2>2 DEF SendsOK, Grows, Reading
  <2>5. RemovesOK(a)'
    BY <1>0, <1>1, <2>1, <2>2, <2>3 DEF SendsOK, RemovesOK, Covers, Grows, Exists, Reading
  <2> QED BY <2>4, <2>5
<1>12. CASE Finish(a) \/ Unlock(a) \/ Fails(a) \/ RequestDies(a) \/ \E s \in blocked : Replay(a, s)
  BY <1>0, <1>3, <1>8, <1>12 DEF Finish, Applied, Stayed, Unlock, Fails, RequestDies, Replay, To, Stops, NoApply, Apply, TypeOK
<1> QED BY <1>0, <1>2, <1>3, <1>4, <1>5, <1>6, <1>7, <1>9, <1>10, <1>11, <1>12, Acts DEF Step

-----------------------------------------------------------------------------
\* What a step does to the locks: one request takes a free one, and only who holds a lock
\* gives it back.
LEMMA Leaves ==
  ASSUME IInv, [Next]_vars, NEW a \in Appliers, applier'[a].pc \in Locked
  PROVE  /\ applier[a].pc \in Locked => applier'[a].plan = applier[a].plan
         /\ applier[a].pc \notin Locked =>
              /\ Lock(a) /\ applier[a].pc = "lock" /\ applier'[a].plan = applier[a].plan
              /\ applier[a].plan \in Plans
              /\ plan[applier[a].plan].at = "planned" /\ ~plan[applier[a].plan].applying
              /\ plan'[applier[a].plan].at = "planned" /\ plan'[applier[a].plan].applying
<1>0. TypeOK /\ (applier[a].pc # "idle" => applier[a] \in Apply)
      /\ \A p \in Plans : Exists(p) => plan[p] \in Plan
  BY Rows DEF IInv
<1>1. CASE applier'[a] = applier[a] BY <1>1 DEF Locked
<1>2. CASE Lock(a) BY <1>0, <1>2 DEF Lock, Lockable, To, Stops, NoApply, Locked, TypeOK, Apply, Exists, Plan
<1>3. ASSUME NEW p \in Plans, Begin(a, p) PROVE FALSE BY <1>0, <1>3 DEF Begin, Locked, TypeOK
<1>4. CASE ReadItems(a)
  <2> DEFINE p == plan[applier[a].plan]
             replay == IF applier[a].operation = "replay" THEN p.items \ p.replayed ELSE {}
             read == [applier[a] EXCEPT !.pc = "peek", !.pending = p.items \ p.purged, !.replay = replay]
  <2>1. applier[a] \in Apply BY <1>0, <1>4 DEF ReadItems
  <2>2. read.pc = "peek" BY <2>1 DEF Apply
  <2>3. applier'[a] = NoApply \/ applier'[a] = read BY <1>0, <1>4 DEF ReadItems, Stops, TypeOK
  <2> HIDE DEF read
  <2> QED BY <2>2, <2>3 DEF NoApply, Locked
<1>5. CASE Peek(a) BY <1>0, <1>5 DEF Peek, To, Stops, NoApply, Locked, TypeOK, Apply
<1>6. CASE Purge(a) BY <1>0, <1>6 DEF Purge, Locked, TypeOK, Apply
<1>7. CASE Finish(a) \/ Unlock(a) \/ Fails(a) \/ RequestDies(a)
  BY <1>0, <1>7 DEF Finish, Applied, Stayed, Unlock, Fails, RequestDies, To, Stops, NoApply, Locked, TypeOK, Apply
<1>8. ASSUME NEW s \in Sources, Replay(a, s)
      PROVE  applier[a].pc \in Locked /\ applier'[a].plan = applier[a].plan
  <2> DEFINE group == {m \in applier[a].replay : SourceOf[m] = s}
  <2>1. applier[a].pc \in Locked /\ applier[a] \in Apply BY <1>0, <1>8 DEF Replay, Locked
  <2>2. \/ applier'[a] = [applier[a] EXCEPT !.pc = "unlock"]
        \/ applier'[a] = [applier[a] EXCEPT !.pc = "mark", !.marking = group,
                                           !.replay = applier[a].replay \ group]
    BY <1>0, <1>8 DEF Replay, To, TypeOK
  <2> HIDE DEF group
  <2> QED BY <2>1, <2>2 DEF Apply
<1>9. ASSUME NEW m \in Messages, Mark(a, m) \/ Record(a, m)
      PROVE  applier[a].pc \in Locked /\ applier'[a].plan = applier[a].plan
  BY <1>0, <1>9 DEF Mark, Record, Locked, TypeOK, Apply
<1> QED BY <1>0, <1>1, <1>2, <1>3, <1>4, <1>5, <1>6, <1>7, <1>8, <1>9, Acts DEF Step

LEMMA Held ==
  ASSUME IInv, [Next]_vars, NEW p \in Plans, plan[p].at \in {"planned", "deleted"},
         plan[p].at = "planned" => plan[p].applying
  PROVE  \/ plan'[p].at \in {"planned", "deleted"} /\ (plan'[p].at = "planned" => plan'[p].applying)
         \/ \E b \in Appliers :
              applier[b].pc \in Locked /\ applier[b].plan = p /\ applier'[b].pc \notin Locked
<1>0. TypeOK /\ (Exists(p) => plan[p] \in Plan) /\ (~Exists(p) => plan[p] \in {NoPlan, Deleted})
  BY Rows DEF IInv
<1> USE <1>0
<1>1. CASE plan'[p] = plan[p] BY <1>1
<1>2. ASSUME NEW q \in Plans, PlanExpires(q) \/ Cleanup(q) PROVE plan'[p].at = "deleted" \/
             (plan'[p].at = plan[p].at /\ plan'[p].applying = plan[p].applying)
  BY <1>2 DEF PlanExpires, Cleanup, Deleted, TypeOK, Exists, Plan
<1>3. ASSUME NEW q \in Plans, NEW o \in {"replay", "discard"}, NEW items \in SUBSET dead,
             Planned(q, o, items)
      PROVE  plan'[p] = plan[p]
  BY <1>3 DEF Planned, NoPlan, TypeOK
<1>4. ASSUME NEW b \in Appliers, Lock(b) PROVE plan'[p] = plan[p] \/
             (plan'[p].at = "planned" /\ plan'[p].applying)
  BY <1>4 DEF Lock, Lockable, TypeOK, Exists, Plan
<1>5. ASSUME NEW b \in Appliers, NEW m \in Messages, Mark(b, m) \/ Record(b, m)
      PROVE  plan'[p] = plan[p] \/
             (plan'[p].at = plan[p].at /\ plan'[p].applying = plan[p].applying)
  BY <1>5 DEF Mark, Record, TypeOK, Exists, Plan
<1>6. ASSUME NEW b \in Appliers, Finish(b) \/ Unlock(b), plan'[p] # plan[p]
      PROVE  applier[b].pc \in Locked /\ applier[b].plan = p /\ applier'[b].pc \notin Locked
  BY <1>6 DEF Finish, Applied, Stayed, Unlock, Stops, NoApply, Locked, TypeOK
<1>7. ASSUME NEW b \in Appliers, Purge(b) PROVE plan' = plan BY <1>7 DEF Purge
<1>8. ASSUME NEW b \in Appliers, NEW s \in Sources, Replay(b, s) PROVE plan' = plan
  BY <1>8 DEF Replay
<1>9. ASSUME NEW b \in Appliers, Fails(b) \/ RequestDies(b) \/ ReadItems(b) \/ Peek(b)
               \/ \E q \in Plans : Begin(b, q)
      PROVE plan' = plan
  BY <1>9 DEF Fails, RequestDies, ReadItems, Peek, Begin
<1>10. CASE UNCHANGED plan BY <1>1, <1>10
<1>11. (\E m \in Messages : Expires(m)) \/ (\E s \in Sources : BlockChanges(s)) => UNCHANGED plan
  BY DEF Expires, BlockChanges
<1> QED
  BY <1>1, <1>2, <1>3, <1>4, <1>5, <1>6, <1>7, <1>8, <1>9, <1>10, <1>11 DEF Next, Step, vars

\* A lock keeps out the others until its holder is done or its plan is deleted.
LEMMA LockStep ==
  ASSUME IInv, [Next]_vars
  PROVE  OneApplier' /\ \A a \in Appliers : LockOK(a)'
<1>0. TypeOK /\ OneApplier /\ \A a \in Appliers : LockOK(a) /\ (applier[a].pc # "idle" => applier[a] \in Apply)
  BY Rows DEF IInv
<1>1. ASSUME NEW a \in Appliers, NEW b \in Appliers, Lock(a), Lock(b), applier' # applier, a # b,
             applier'[a].pc \in Locked, applier'[b].pc \in Locked
      PROVE  FALSE
  BY <1>0, <1>1 DEF Lock, Lockable, To, Stops, TypeOK, Locked
<1>2. OneApplier'
  <2> SUFFICES ASSUME NEW a \in Appliers, NEW b \in Appliers, applier'[a].pc \in Locked,
                      applier'[b].pc \in Locked, applier'[a].plan = applier'[b].plan, a # b
               PROVE  FALSE
    BY DEF OneApplier
  <2>1. CASE applier[a].pc \in Locked /\ applier[b].pc \in Locked
    BY <1>0, <2>1, Leaves DEF OneApplier
  <2>2. CASE applier[a].pc \notin Locked
    BY <1>0, <1>1, <2>2, Leaves DEF LockOK
  <2>3. CASE applier[b].pc \notin Locked
    BY <1>0, <1>1, <2>3, Leaves DEF LockOK
  <2> QED BY <2>1, <2>2, <2>3
<1>3. ASSUME NEW a \in Appliers PROVE LockOK(a)'
  <2> SUFFICES ASSUME applier'[a].pc \in Locked
               PROVE  /\ plan'[applier'[a].plan].at \in {"planned", "deleted"}
                      /\ plan'[applier'[a].plan].at = "planned" => plan'[applier'[a].plan].applying
    BY DEF LockOK
  <2>1. CASE applier[a].pc \in Locked
    <3>1. applier[a].plan \in Plans /\ applier'[a].plan = applier[a].plan
      BY <1>0, <2>1, Leaves DEF Apply, Locked
    <3>2. \A b \in Appliers : applier[b].pc \in Locked /\ applier[b].plan = applier[a].plan => b = a
      BY <1>0, <2>1 DEF OneApplier
    <3> QED BY <1>0, <2>1, <3>1, <3>2, Held DEF LockOK
  <2>2. CASE applier[a].pc \notin Locked BY <2>2, Leaves
  <2> QED BY <2>1, <2>2
<1> QED BY <1>2, <1>3

-----------------------------------------------------------------------------
\* The marks of a plan stay true, and the audit calls replayed only what was.
LEMMA MarksStep ==
  ASSUME IInv, [Next]_vars, TypeOK'
  PROVE  NoWorkLost' /\ \A p \in Plans : PlanOK(p)'
<1>0. /\ TypeOK /\ NoWorkLost /\ \A p \in Plans : PlanOK(p)
      /\ \A a \in Appliers : SendsOK(a) /\ RemovesOK(a) /\ (applier[a].pc # "idle" => applier[a] \in Apply)
      /\ \A p \in Plans : Exists(p) => plan[p] \in Plan
      /\ \A p \in Plans : ~Exists(p) => plan[p] \in {NoPlan, Deleted}
  BY Rows DEF IInv
<1>1. Grows BY GrowsStep
<1>2. ASSUME NEW a \in Appliers, NEW m \in Messages, Record(a, m)
      PROVE  NoWorkLost' /\ \A p \in Plans : PlanOK(p)'
  <2>0. PICK q \in Plans : q = applier[a].plan BY <1>0, <1>2 DEF Record, Apply
  <2> DEFINE entry == [plan |-> q, message |-> m, as |-> applier[a].operation]
  <2>1. /\ applier[a] \in Apply /\ m \in applier[a].pending
        /\ audit' = audit \cup {entry} /\ sent' = sent
        /\ plan' = IF Exists(q) THEN [plan EXCEPT ![q].purged = plan[q].purged \cup {m}] ELSE plan
    BY <1>0, <1>2, <2>0 DEF Record, Apply
  <2>2. applier[a].operation = "replay" => m \in sent
    BY <1>0, <1>2, <2>1 DEF SendsOK, Record
  <2>3. NoWorkLost' BY <1>0, <2>1, <2>2 DEF NoWorkLost
  <2>4. ASSUME NEW p \in Plans, p # q PROVE PlanOK(p)'
    <3>1. plan'[p] = plan[p] BY <1>0, <2>1, <2>4 DEF TypeOK
    <3>2. PlanOK(p) /\ audit \subseteq audit' /\ sent' = sent BY <1>0, <2>1
    <3> QED BY <3>1, <3>2 DEF PlanOK, Exists
  <2>5. ASSUME ~Exists(q)' PROVE PlanOK(q)' BY <2>5 DEF PlanOK
  <2>6. ASSUME Exists(q)' PROVE PlanOK(q)'
    <3>1. Exists(q) /\ plan[q] \in Plan BY <1>0, <1>1, <1>2, <2>0, <2>1, <2>6 DEF Grows, SendsOK, Record
    <3>2. /\ plan'[q].purged = plan[q].purged \cup {m} /\ plan'[q].items = plan[q].items
          /\ plan'[q].replayed = plan[q].replayed
      BY <1>0, <2>1, <3>1 DEF TypeOK, Plan
    <3>3. m \in plan[q].items BY <1>0, <1>2, <2>0, <2>1, <3>1 DEF RemovesOK, Covers, Record
    <3>4. entry \in audit' /\ entry.plan = q /\ entry.message = m BY <2>1
    <3>5. PlanOK(q) BY <1>0, <2>1
    <3>6. \A n \in plan'[q].purged : \E e \in audit' : e.plan = q /\ e.message = n
      BY <2>1, <3>1, <3>2, <3>4, <3>5 DEF PlanOK
    <3> QED BY <2>1, <3>1, <3>2, <3>3, <3>5, <3>6 DEF PlanOK
  <2>7. PlanOK(q)' BY <2>5, <2>6
  <2> QED BY <2>3, <2>4, <2>7
<1>3. ASSUME audit' = audit PROVE NoWorkLost' BY <1>0, <1>1, <1>3 DEF NoWorkLost, Grows
<1>4. ASSUME audit' = audit, NEW p \in Plans,
             Exists(p)' => Exists(p) /\ plan'[p].purged = plan[p].purged
                            /\ plan'[p].items = plan[p].items /\ plan'[p].replayed = plan[p].replayed
      PROVE  PlanOK(p)'
  BY <1>0, <1>1, <1>4 DEF PlanOK, Grows
<1>5. CASE plan' = plan /\ audit' = audit
  BY <1>3, <1>4, <1>5 DEF Exists
<1>6. ASSUME NEW a \in Appliers, NEW m \in Messages, Mark(a, m)
      PROVE  NoWorkLost' /\ \A p \in Plans : PlanOK(p)'
  <2> DEFINE q == applier[a].plan
  <2>1. /\ applier[a] \in Apply /\ q \in Plans /\ m \in sent /\ sent' = sent /\ audit' = audit
        /\ plan' = IF Exists(q) THEN [plan EXCEPT ![q].replayed = plan[q].replayed \cup {m}] ELSE plan
    BY <1>0, <1>6 DEF Mark, Apply, SendsOK
  <2>2. ASSUME NEW p \in Plans PROVE PlanOK(p)'
    <3>1. Exists(p)' => /\ Exists(p) /\ plan'[p].purged = plan[p].purged
                        /\ plan'[p].items = plan[p].items
                        /\ plan'[p].replayed \in {plan[p].replayed, plan[p].replayed \cup {m}}
      BY <1>0, <2>1 DEF TypeOK, Plan, Exists
    <3> QED BY <1>0, <2>1, <3>1 DEF PlanOK
  <2> QED BY <1>3, <2>1, <2>2
<1>7. ASSUME NEW q \in Plans, NEW o \in {"replay", "discard"}, NEW items \in SUBSET dead,
             Planned(q, o, items)
      PROVE  NoWorkLost' /\ \A p \in Plans : PlanOK(p)'
  <2>1. audit' = audit BY <1>7 DEF Planned
  <2>2. /\ plan'[q].purged = {} /\ plan'[q].replayed = {}
        /\ \A p \in Plans : p # q => plan'[p] = plan[p]
    BY <1>0, <1>7 DEF Planned, TypeOK
  <2>3. PlanOK(q)' BY <2>2 DEF PlanOK
  <2>4. ASSUME NEW p \in Plans, p # q PROVE PlanOK(p)' BY <1>4, <2>1, <2>2, <2>4 DEF Exists
  <2> QED BY <1>3, <2>1, <2>3, <2>4
<1>8. ASSUME NEW q \in Plans, PlanExpires(q) \/ Cleanup(q)
      PROVE  NoWorkLost' /\ \A p \in Plans : PlanOK(p)'
  <2>1. audit' = audit BY <1>8 DEF PlanExpires, Cleanup
  <2>2. ASSUME NEW p \in Plans PROVE PlanOK(p)'
    <3>1. Exists(p)' => Exists(p) /\ plan'[p].purged = plan[p].purged
                            /\ plan'[p].items = plan[p].items /\ plan'[p].replayed = plan[p].replayed
      BY <1>0, <1>8 DEF PlanExpires, Cleanup, Exists, Deleted, TypeOK, Plan
    <3> QED BY <1>4, <2>1, <3>1
  <2> QED BY <1>3, <2>1, <2>2
<1>9. ASSUME NEW a \in Appliers, Lock(a) \/ Finish(a) \/ Unlock(a)
      PROVE  NoWorkLost' /\ \A p \in Plans : PlanOK(p)'
  <2>1. audit' = audit BY <1>9 DEF Lock, Lockable, Finish, Applied, Stayed, Unlock
  <2>2. ASSUME NEW p \in Plans PROVE PlanOK(p)'
    <3>1. Exists(p)' => Exists(p) /\ plan'[p].purged = plan[p].purged
                            /\ plan'[p].items = plan[p].items /\ plan'[p].replayed = plan[p].replayed
      BY <1>0, <1>9 DEF Lock, Lockable, Finish, Applied, Stayed, Unlock, Exists, TypeOK, Plan
    <3> QED BY <1>4, <2>1, <3>1
  <2> QED BY <1>3, <2>1, <2>2
<1>10. ASSUME NEW a \in Appliers,
              Purge(a) \/ Fails(a) \/ RequestDies(a) \/ ReadItems(a) \/ Peek(a)
                \/ (\E p \in Plans : Begin(a, p)) \/ \E s \in Sources : Replay(a, s)
       PROVE  plan' = plan /\ audit' = audit
  BY <1>10 DEF Purge, Fails, RequestDies, ReadItems, Peek, Begin, Replay
<1>11. (\E m \in Messages : Expires(m)) \/ (\E s \in Sources : BlockChanges(s)) \/ UNCHANGED vars
         => plan' = plan /\ audit' = audit
  BY DEF Expires, BlockChanges, vars
<1> QED BY <1>2, <1>5, <1>6, <1>7, <1>8, <1>9, <1>10, <1>11 DEF Next, Step

\* A plan becomes applied by a request that knew of every letter that was left.
LEMMA AppliedStep ==
  ASSUME IInv, [Next]_vars, TypeOK', \A p \in Plans : PlanOK(p)'
  PROVE  AppliedIsDisposed'
<1>0. /\ TypeOK /\ AppliedIsDisposed
      /\ \A a \in Appliers : RemovesOK(a) /\ (applier[a].pc # "idle" => applier[a] \in Apply)
      /\ \A p \in Plans : Exists(p) => plan[p] \in Plan
      /\ \A p \in Plans : ~Exists(p) => plan[p] \in {NoPlan, Deleted}
  BY Rows DEF IInv
<1>1. Grows BY GrowsStep
<1>2. ASSUME NEW p \in Plans, plan'[p].at = "applied", plan[p].at # "applied"
      PROVE  \E a \in Appliers : Finish(a) /\ applier[a].plan = p /\ Exists(p) /\ ~applier[a].failed
  <2>1. Next /\ plan'[p] # plan[p] BY <1>2 DEF vars
  <2>2. ASSUME NEW q \in Plans, PlanExpires(q) \/ Cleanup(q) PROVE FALSE
    BY <1>0, <1>2, <2>2 DEF PlanExpires, Cleanup, Deleted, TypeOK, Exists, Plan
  <2>3. ASSUME NEW q \in Plans, NEW o \in {"replay", "discard"}, NEW items \in SUBSET dead,
               Planned(q, o, items)
        PROVE  FALSE
    BY <1>0, <1>2, <2>3 DEF Planned, TypeOK
  <2>4. ASSUME NEW b \in Appliers, NEW m \in Messages, Mark(b, m) \/ Record(b, m) PROVE FALSE
    BY <1>0, <1>2, <2>4 DEF Mark, Record, TypeOK, Exists, Plan
  <2>5. ASSUME NEW b \in Appliers, Lock(b) \/ Unlock(b) PROVE FALSE
    BY <1>0, <1>2, <2>5 DEF Lock, Lockable, Unlock, TypeOK, Exists, Plan
  <2>6. ASSUME NEW b \in Appliers, Finish(b)
        PROVE  applier[b].plan = p /\ Exists(p) /\ ~applier[b].failed
    BY <1>0, <1>2, <2>6 DEF Finish, Applied, Stayed, TypeOK, Exists
  <2>7. ASSUME NEW b \in Appliers,
               Purge(b) \/ Fails(b) \/ RequestDies(b) \/ ReadItems(b) \/ Peek(b)
                 \/ (\E q \in Plans : Begin(b, q)) \/ \E s \in Sources : Replay(b, s)
        PROVE  FALSE
    BY <2>1, <2>7 DEF Purge, Fails, RequestDies, ReadItems, Peek, Begin, Replay
  <2>8. ~(\E m \in Messages : Expires(m)) /\ ~(\E s \in Sources : BlockChanges(s))
    BY <2>1 DEF Expires, BlockChanges
  <2> QED BY <2>1, <2>2, <2>3, <2>4, <2>5, <2>6, <2>7, <2>8 DEF Next, Step
<1>3. ASSUME NEW p \in Plans, plan'[p].at = "applied" PROVE plan'[p].items \subseteq plan'[p].purged
  <2>1. plan[p].at # "none" /\ Exists(p)' BY <1>0, <1>2, <1>3 DEF Exists
  <2>2. plan'[p].items = plan[p].items /\ plan[p].purged \subseteq plan'[p].purged
    BY <1>1, <2>1 DEF Grows
  <2>3. CASE plan[p].at = "applied" BY <1>0, <2>2, <2>3 DEF AppliedIsDisposed
  <2>4. CASE plan[p].at # "applied"
    <3>1. PICK a \in Appliers : Finish(a) /\ applier[a].plan = p /\ Exists(p) /\ ~applier[a].failed
      BY <1>2, <1>3, <2>4
    <3>2. applier[a].pc = "record" /\ applier[a].pending = {} BY <3>1 DEF Finish, Applied, Stayed
    <3>3. plan[p].items \ plan[p].purged \subseteq {} BY <1>0, <3>1, <3>2 DEF RemovesOK, Covers
    <3> QED BY <2>2, <3>3
  <2> QED BY <2>3, <2>4
<1>4. ASSUME NEW p \in Plans, plan'[p].at = "applied"
      PROVE  /\ plan'[p].purged = plan'[p].items
             /\ plan'[p].items \subseteq {e.message : e \in {x \in audit' : x.plan = p}}
  <2>1. /\ plan'[p].purged \subseteq plan'[p].items
        /\ \A m \in plan'[p].purged : \E e \in audit' : e.plan = p /\ e.message = m
    BY <1>4 DEF PlanOK, Exists
  <2>2. plan'[p].purged = plan'[p].items BY <1>3, <1>4, <2>1
  <2> QED BY <2>1, <2>2
<1> QED BY <1>4 DEF AppliedIsDisposed

LEMMA IInvStep == ASSUME LetterAssumption, IInv, [Next]_vars PROVE IInv'
<1>1. TypeOK' BY TypeStep
<1>2. NoWorkLost' /\ \A p \in Plans : PlanOK(p)' BY <1>1, MarksStep
<1>3. OneApplier' /\ \A a \in Appliers : LockOK(a)' BY LockStep
<1>4. \A a \in Appliers : SendsOK(a)' /\ RemovesOK(a)' BY RequestStep
<1>5. AppliedIsDisposed' BY <1>1, <1>2, AppliedStep
<1> QED BY <1>1, <1>2, <1>3, <1>4, <1>5 DEF IInv

-----------------------------------------------------------------------------
\* The invariant of dlq-operations.ts, with what requests read of plans that changed since.
THEOREM Invariant == Spec => []IInv
<1>1. Init => IInv BY LetterAssumption, InitOK
<1>2. IInv /\ [Next]_vars => IInv' BY LetterAssumption, IInvStep
<1> QED BY <1>1, <1>2, PTL DEF Spec

\* The rows of plans, of the audit and of the requests keep their types.
THEOREM TypeCorrect == Spec => []TypeOK
<1>1. IInv => TypeOK BY DEF IInv
<1> QED BY <1>1, Invariant, PTL

\* However many requests apply a plan at once, one of them works (dlq-operations.ts:220).
THEOREM OneApplierHolds == Spec => []OneApplier
<1>1. IInv => OneApplier BY DEF IInv
<1> QED BY <1>1, Invariant, PTL

\* No letter is recorded as replayed for whose source no poll was sent, however often the
\* requests that apply its plan fail or die.
THEOREM NoWorkIsLost == Spec => []NoWorkLost
<1>1. IInv => NoWorkLost BY DEF IInv
<1> QED BY <1>1, Invariant, PTL

\* A plan is called applied when every letter of it was removed and audited, in however
\* many parts it was applied.
THEOREM AppliedPlansAreDisposed == Spec => []AppliedIsDisposed
<1>1. IInv => AppliedIsDisposed BY DEF IInv
<1> QED BY <1>1, Invariant, PTL
=============================================================================
