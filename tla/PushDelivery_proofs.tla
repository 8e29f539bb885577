------------------------ MODULE PushDelivery_proofs ------------------------
(* Theorems about PushDelivery, for every value of its constants. *)
EXTENDS PushDelivery, TLAPS

-----------------------------------------------------------------------------
(* Types of the operators *)

\* The values the variables start from and are reset to have their types.
LEMMA DefaultTypes ==
  SomeWork \in Work /\ Absent \in Receipt /\ NoReply \in Reply /\ NoMem \in Mem
<1>0. \E w : w \in Work
  <2>1. PICK u \in Users, t \in Tokens, j \in Jobs : TRUE
    BY ConstantAssumption DEF ConstantAssumption
  <2>2. <<u, t, j>> \in Work
    BY <2>1 DEF Work
  <2> QED BY <2>2
<1>1. SomeWork \in Work
  BY <1>0 DEF SomeWork
<1>2. Absent \in Receipt
  BY <1>1 DEF Absent, Receipt, Status, DeliveryState, Ticket, Work
<1>3. NoReply \in Reply
  BY DEF NoReply, Reply, AllReplies, Ticket
<1>4. NoMem \in Mem
  BY DEF NoMem, Mem, Pref
<1> QED BY <1>1, <1>2, <1>3, <1>4

\* The slot of a user, token and job.
LEMMA SlotType == ASSUME NEW w \in Work PROVE SlotOf(w) \in Slot /\ SlotOf(w)[1] = w[1]
BY ConstantAssumption DEF ConstantAssumption, SlotOf, Work, Slot

\* Putting a status and a state into a receipt gives a receipt.
LEMMA PutType ==
  ASSUME NEW rec \in Receipt, NEW status \in Status, NEW state \in DeliveryState
  PROVE  Put(rec, status, state) \in Receipt
BY DEF Put, Receipt

\* What is written after an answer is a receipt.
LEMMA AnswerTypes ==
  ASSUME NEW rec \in Receipt, NEW rep \in Reply
  PROVE  /\ SentReceipt(rec, rep) \in Receipt
         /\ RetriedReceipt(rec, rep) \in Receipt
         /\ UnknownReceipt(rec) \in Receipt
         /\ UnknownReceipt([rec EXCEPT !.attempts = @ + 1]) \in Receipt
         /\ Confirmed(rec) \in Receipt
<1>1. SentReceipt(rec, rep) \in Receipt
  BY ConstantAssumption DEF ConstantAssumption, SentReceipt, Put, Receipt, Reply, Status, DeliveryState
<1>2. RetriedReceipt(rec, rep) \in Receipt
  <2> DEFINE next == [rec EXCEPT !.attempts = @ + 1, !.ticket = rep.ticket]
  <2>0. rep.ticket \in Ticket
    BY DEF Reply
  <2>1. next \in Receipt
    <3>1. [rec EXCEPT !.attempts = @ + 1] \in Receipt
      BY DEF Receipt
    <3>2. \A old \in Receipt : [old EXCEPT !.ticket = rep.ticket] \in Receipt
      BY <2>0 DEF Receipt
    <3>3. next = [[rec EXCEPT !.attempts = @ + 1] EXCEPT !.ticket = rep.ticket]
      OBVIOUS
    <3> QED BY <3>1, <3>2, <3>3
  <2>2. \A status \in Status, state \in DeliveryState : Put(next, status, state) \in Receipt
    BY <2>1, PutType
  <2> HIDE DEF next
  <2>3. /\ Put(next, "pending", "accepted") \in Receipt /\ Put(next, "pending", "unknown") \in Receipt
        /\ Put(next, "error", "definitive-failure") \in Receipt
        /\ Put(next, "retryable", "claimed") \in Receipt
    BY <2>2 DEF Status, DeliveryState
  <2>4. RetriedReceipt(rec, rep) \in {Put(next, "pending", "accepted"), Put(next, "pending", "unknown"),
          Put(next, "error", "definitive-failure"), Put(next, "retryable", "claimed")}
    BY DEF RetriedReceipt, next
  <2> QED BY <2>3, <2>4
<1>3. ASSUME NEW old \in Receipt PROVE UnknownReceipt(old) \in Receipt
  <2>1. Put(old, "pending", "unknown") \in Receipt
    BY PutType DEF Status, DeliveryState
  <2> QED BY <2>1 DEF UnknownReceipt, Receipt, Ticket
<1>5. [rec EXCEPT !.attempts = @ + 1] \in Receipt
  BY DEF Receipt
<1>4. Confirmed(rec) \in Receipt
  BY DEF Confirmed, Put, Receipt, Status, DeliveryState
<1> QED BY <1>1, <1>2, <1>3, <1>4, <1>5

\* Rows read from the table are rows.
LEMMA RowsType ==
  ASSUME NEW status, receipt \in [Slot -> Receipt] PROVE Rows(status) \subseteq Row
BY DEF Rows, Row, Slot, Work, Receipt

\* Replacing one of a run's other local variables.
LEMMA MemTypes ==
  ASSUME NEW m \in Mem
  PROVE  /\ \A x \in BOOLEAN : [m EXCEPT !.ready = x] \in Mem
         /\ \A x \in SUBSET Jobs : [m EXCEPT !.batch = x] \in Mem
         /\ \A x \in SUBSET Work : [m EXCEPT !.work = x] \in Mem
         /\ \A x \in SUBSET Device : [m EXCEPT !.devices = x] \in Mem
         /\ \A x \in SUBSET Row : [m EXCEPT !.list = x] \in Mem
         /\ \A u \in Users, p \in Pref : [m EXCEPT !.cache[u] = p] \in Mem
BY DEF Mem

\* The receipt a sender finds, under either key, is a receipt.
LEMMA ExistingType ==
  ASSUME NEW w \in Work, receipt \in [Slot -> Receipt] PROVE ExistingReceipt(w) \in Receipt
BY SlotType, DefaultTypes, PutType DEF ExistingReceipt, Status, DeliveryState

-----------------------------------------------------------------------------
(* Type correctness *)

\* The initial rows and variables have their types.
LEMMA InitType == Init => TypeOK
<1> SUFFICES ASSUME Init PROVE TypeOK
  OBVIOUS
<1>1. /\ receipt \in [Slot -> Receipt] /\ at \in [Runs -> Work] /\ draft \in [Runs -> Receipt]
      /\ reply \in [Runs -> Reply] /\ mem \in [Runs -> Mem]
  BY DefaultTypes DEF Init
<1>2. /\ device \in [Device -> {"none", "active", "inactive"}]
      /\ pref \in [Users -> Pref]
      /\ delivered \in [Slot -> 0..2]
      /\ pc \in [Runs -> PC]
  BY DEF Init, Pref, PC
<1> QED BY <1>1, <1>2 DEF Init, TypeOK

\* Ending a run keeps the types of its variables.
LEMMA EndType ==
  ASSUME TypeOK, NEW r \in Runs, End(r)
  PROVE  /\ pc' \in [Runs -> PC] /\ at' \in [Runs -> Work] /\ draft' \in [Runs -> Receipt]
         /\ reply' \in [Runs -> Reply] /\ mem' \in [Runs -> Mem]
BY DefaultTypes DEF End, Goto, TypeOK, PC

\* Every step keeps every row and variable in its type.
LEMMA NextType == TypeOK /\ [Next]_vars => TypeOK'
<1> SUFFICES ASSUME TypeOK, [Next]_vars PROVE TypeOK'
  OBVIOUS
<1> USE DEF Goto, TypeOK
<1>1. ASSUME NEW r \in Runs, NEW js \in SUBSET (Jobs \ announced), StartPoll(r, js) PROVE TypeOK'
  BY <1>1, ZenonT(60) DEF StartPoll, bounds, PC, Mem
<1>2. ASSUME NEW r \in Runs, NEW js \in SUBSET marker, StartDrain(r, js) PROVE TypeOK'
  BY <1>2, ZenonT(60) DEF StartDrain, stores, bounds, PC, Mem
<1>3. ASSUME NEW r \in Runs, CheckReady(r) PROVE TypeOK'
  BY <1>3, MemTypes DEF CheckReady, HasReadyDevice, stores, bounds, PC
<1>4. ASSUME NEW r \in Runs, ReadDevices(r) PROVE TypeOK'
  <2>1. {<<d[1], d[2], j>> : d \in Active, j \in mem[r].batch} \subseteq Work
    BY DEF Active, Device, Work, Mem
  <2> DEFINE new == {<<d[1], d[2], j>> : d \in Active, j \in mem[r].batch}
  <2>2. new \in SUBSET Work /\ mem' = [mem EXCEPT ![r].work = new]
    BY <1>4, <2>1 DEF ReadDevices
  <2> HIDE DEF new
  <2>3. mem' \in [Runs -> Mem]
    BY <2>2, MemTypes
  <2> QED BY <1>4, <2>3 DEF ReadDevices, stores, bounds, PC
<1>5. ASSUME NEW r \in Runs, NEW w \in mem[r].work, Evaluate(r, w) PROVE TypeOK'
  <2>1. w \in Work /\ w[1] \in Users /\ w[3] \in Jobs
    BY DEF Mem, Work
  <2>2. Seen(r, w[1]) \in Pref
    BY <2>1 DEF Seen, Mem
  <2>3. ExistingReceipt(w).attempts \in Nat
    BY <2>1, ExistingType DEF Receipt
  <2> DEFINE rest == [mem[r] EXCEPT !.work = @ \ {w}]
             read == [rest EXCEPT !.cache[w[1]] = Seen(r, w[1])]
  <2>4. rest \in Mem
    BY DEF Mem
  <2>5. read \in Mem
    BY <2>1, <2>2, <2>4 DEF Mem
  <2> HIDE DEF rest, read
  <2>6. mem' = [mem EXCEPT ![r] = IF Excluded(r, w[1]) THEN rest ELSE read]
    BY <1>5 DEF Evaluate, rest, read
  <2>7. mem' \in [Runs -> Mem]
    BY <2>4, <2>5, <2>6
  <2>8. [status |-> "pending", deliveryState |-> "claimed", ticket |-> "none",
         attempts |-> ExistingReceipt(w).attempts + 1, jobId |-> w[3]] \in Receipt
    BY <2>1, <2>3 DEF Receipt, Status, DeliveryState, Ticket
  <2>9. pc' \in [Runs -> PC] /\ at' \in [Runs -> Work] /\ draft' \in [Runs -> Receipt]
    BY <1>5, <2>1, <2>8 DEF Evaluate, PC
  <2> QED BY <1>5, <2>7, <2>9 DEF Evaluate, stores, bounds
<1>6. ASSUME NEW r \in Runs, Claim(r) PROVE TypeOK'
  BY <1>6, SlotType DEF Claim, bounds, PC
<1>7. ASSUME NEW r \in Runs, SendDone(r) PROVE TypeOK'
  BY <1>7, EndType DEF SendDone, stores, bounds, PC
<1>8. ASSUME NEW r \in Runs, Mark(r) PROVE TypeOK'
  <2>1. CASE mem[r].batch = {}
    BY <1>8, <2>1 DEF Mark, bounds, PC
  <2>2. CASE mem[r].batch # {}
    <3>1. PICK j \in mem[r].batch :
            marker' = marker \ {j} /\ mem' = [mem EXCEPT ![r].batch = @ \ {j}] /\ UNCHANGED pc
      BY <1>8, <2>2 DEF Mark
    <3>2. mem[r].batch \ {j} \in SUBSET Jobs
      BY DEF Mem
    <3>3. mem' \in [Runs -> Mem]
      BY <3>1, <3>2, MemTypes
    <3> QED BY <1>8, <3>1, <3>3 DEF Mark, bounds
  <2> QED BY <2>1, <2>2
<1>9. ASSUME NEW r \in Runs, Publish(r) PROVE TypeOK'
  <2>1. PICK answer \in Replies, ticket \in Ticket, reached \in BOOLEAN :
          /\ reply' = [reply EXCEPT ![r] = [answer |-> answer, ticket |-> ticket]]
          /\ delivered' = [delivered EXCEPT ![SlotOf(at[r])] = IF reached /\ @ < 2 THEN @ + 1 ELSE @]
    BY <1>9 DEF Publish
  <2>2. [answer |-> answer, ticket |-> ticket] \in Reply
    BY ConstantAssumption DEF ConstantAssumption, Reply
  <2>4. reply' \in [Runs -> Reply]
    BY <2>1, <2>2
  <2>5. delivered[SlotOf(at[r])] \in 0..2
    BY SlotType
  <2>6. delivered' \in [Slot -> 0..2]
    <3>1. CASE ~reached
      BY <2>1, <3>1
    <3>2. CASE reached
      <4>1. delivered' = [delivered EXCEPT ![SlotOf(at[r])] = IF @ < 2 THEN @ + 1 ELSE @]
        BY <2>1, <3>2
      <4>2. (IF delivered[SlotOf(at[r])] < 2 THEN delivered[SlotOf(at[r])] + 1
             ELSE delivered[SlotOf(at[r])]) \in 0..2
        BY <2>5
      <4> QED BY <4>1, <4>2
    <3> QED BY <3>1, <3>2
  <2>3. reply' \in [Runs -> Reply] /\ delivered' \in [Slot -> 0..2]
    BY <2>4, <2>6
  <2> QED BY <1>9, <2>3 DEF Publish, stores, bounds, PC
<1>10. ASSUME NEW r \in Runs, Record(r) PROVE TypeOK'
  BY <1>10, AnswerTypes, SlotType DEF Record, Write, Recorded, Loop, bounds, PC
<1>11. ASSUME NEW r \in Runs, Deactivate(r) PROVE TypeOK'
  BY <1>11 DEF Deactivate, PutDevice, Assigned, Loop, bounds, PC, Device
<1>12. ASSUME NEW r \in Runs, Refused(r) PROVE TypeOK'
  BY <1>12, EndType DEF Refused, stores, bounds
<1>13. ASSUME NEW r \in Runs, InspectRead(r) PROVE TypeOK'
  BY <1>13, RowsType, ZenonT(60) DEF InspectRead, stores, bounds, PC, Mem
<1>14. ASSUME NEW r \in Runs, Lookup(r) PROVE TypeOK'
  <2>1. PICK known \in SUBSET mem[r].list : mem' = [mem EXCEPT ![r].list = known]
    BY <1>14 DEF Lookup
  <2>2. known \in SUBSET Row
    BY DEF Mem
  <2> QED BY <1>14, <2>1, <2>2, MemTypes DEF Lookup, stores, bounds, PC
<1>15. ASSUME NEW r \in Runs, Find(r) PROVE TypeOK'
  BY <1>15 DEF Find, stores, bounds, PC
<1>16. ASSUME NEW r \in Runs, NEW row \in mem[r].list, Confirm(r, row) PROVE TypeOK'
  <2>1. row.work \in Work /\ row.rec \in Receipt /\ mem[r].list \ {row} \in SUBSET Row
    BY DEF Mem, Row
  <2>2. Confirmed(row.rec) \in Receipt
    BY <2>1 DEF Confirmed, Put, Receipt, Status, DeliveryState
  <2>3. mem' \in [Runs -> Mem]
    BY <1>16, <2>1, MemTypes DEF Confirm
  <2> QED BY <1>16, <2>1, <2>2, <2>3, SlotType DEF Confirm, bounds, PC
<1>17. ASSUME NEW r \in Runs, NEW row \in mem[r].list, ConfirmErased(r, row) PROVE TypeOK'
  BY <1>17, EndType DEF ConfirmErased, stores, bounds
<1>18. ASSUME NEW r \in Runs, RetryDevices(r) PROVE TypeOK'
  <2>1. Active \in SUBSET Device
    BY DEF Active
  <2> QED BY <1>18, <2>1, MemTypes DEF RetryDevices, stores, bounds, PC
<1>19. ASSUME NEW r \in Runs, RetryRead(r) PROVE TypeOK'
  BY <1>19, RowsType, ZenonT(60) DEF RetryRead, stores, bounds, PC, Mem
<1>20. ASSUME NEW r \in Runs, GiveUp(r) PROVE TypeOK'
  BY <1>20, SlotType DEF GiveUp, Write, bounds, PC
<1>21. ASSUME NEW r \in Runs, RetryDone(r) PROVE TypeOK'
  BY <1>21, EndType DEF RetryDone, stores, bounds
<1>22. ASSUME NEW r \in Runs, NEW row \in mem[r].list, RetryEvaluate(r, row) PROVE TypeOK'
  <2>1. row.work \in Work /\ row.rec \in Receipt /\ mem[r].list \ {row} \in SUBSET Row
    BY DEF Mem, Row
  <2>2. mem' \in [Runs -> Mem] /\ at' \in [Runs -> Work]
    BY <1>22, <2>1, MemTypes DEF RetryEvaluate
  <2>3. /\ Put(row.rec, "error", "definitive-failure") \in Receipt
        /\ Put(row.rec, "error", row.rec.deliveryState) \in Receipt
    BY <2>1 DEF Put, Receipt, Status, DeliveryState
  <2>4. draft' \in [Runs -> Receipt] /\ pc' \in [Runs -> PC]
    BY <1>22, <2>1, <2>3 DEF RetryEvaluate, PC
  <2> QED BY <1>22, <2>2, <2>4 DEF RetryEvaluate, stores, bounds
<1>23. ASSUME NEW r \in Runs, WriteFails(r) PROVE TypeOK'
  BY <1>23, AnswerTypes, SlotType DEF WriteFails, Write, Loop, PC
<1>24. ASSUME NEW r \in Runs, Crash(r) PROVE TypeOK'
  BY <1>24, EndType DEF Crash, stores
<1>25. ASSUME NEW u \in Users, NEW t \in Tokens, Register(u, t) PROVE TypeOK'
  BY <1>25 DEF Register, PutDevice, Assigned, Call, Outside, Device
<1>26. ASSUME NEW u \in Users, NEW t \in Tokens, Unregister(u, t) PROVE TypeOK'
  BY <1>26 DEF Unregister, Call, Outside, Device
<1>27. ASSUME NEW u \in Users, NEW value \in {"on", "off"}, SetAlerts(u, value) PROVE TypeOK'
  BY <1>27 DEF SetAlerts, Call, Outside, Pref
<1>28. ASSUME NEW u \in Users, BeginDeletion(u) PROVE TypeOK'
  BY <1>28 DEF BeginDeletion, Call, Outside
<1>29. ASSUME NEW u \in Users, Purge(u) PROVE TypeOK'
  BY <1>29, DefaultTypes DEF Purge, Deletable, Call, Outside, Pref
<1>30. ASSUME NEW j \in Jobs, Requeue(j) PROVE TypeOK'
  BY <1>30 DEF Requeue, Call, Outside
<1>31. CASE UNCHANGED vars
  BY <1>31 DEF vars, stores, bounds
<1> QED
  BY <1>1, <1>2, <1>3, <1>4, <1>5, <1>6, <1>7, <1>8, <1>9, <1>10, <1>11, <1>12, <1>13, <1>14,
     <1>15, <1>16, <1>17, <1>18, <1>19, <1>20, <1>21, <1>22, <1>23, <1>24, <1>25, <1>26, <1>27,
     <1>28, <1>29, <1>30, <1>31
  DEF Next, Start, Step, Sending, Answering, Inspecting, Retrying, Fault, Environment

\* Every row and local variable of the delivery code keeps its type.
THEOREM TypeCorrect == Spec => []TypeOK
<1> QED BY InitType, NextType, PTL DEF Spec
-----------------------------------------------------------------------------
(* Accounts and devices *)

\* A run ends without touching a row.
LEMMA Untouched ==
  ASSUME NEW r \in Runs,
         \/ \E js \in SUBSET marker : StartDrain(r, js)
         \/ \E js \in SUBSET (Jobs \ announced) : StartPoll(r, js)
         \/ CheckReady(r) \/ ReadDevices(r) \/ \E w \in mem[r].work : Evaluate(r, w)
         \/ SendDone(r) \/ Mark(r) \/ Publish(r) \/ Refused(r)
         \/ InspectRead(r) \/ Lookup(r) \/ Find(r)
         \/ \E row \in mem[r].list : ConfirmErased(r, row) \/ RetryEvaluate(r, row)
         \/ RetryDevices(r) \/ RetryRead(r) \/ RetryDone(r) \/ Crash(r)
  PROVE  UNCHANGED <<receipt, device, pref, tombstone, purged>>
<1>1. ASSUME \/ \E js \in SUBSET marker : StartDrain(r, js)
             \/ \E js \in SUBSET (Jobs \ announced) : StartPoll(r, js)
      PROVE  UNCHANGED <<receipt, device, pref, tombstone, purged>>
  BY <1>1 DEF StartDrain, StartPoll, stores
<1>2. ASSUME CheckReady(r) \/ ReadDevices(r) \/ \E w \in mem[r].work : Evaluate(r, w)
      PROVE  UNCHANGED <<receipt, device, pref, tombstone, purged>>
  <2>1. ASSUME NEW w \in mem[r].work, Evaluate(r, w) PROVE UNCHANGED stores
    BY <2>1 DEF Evaluate
  <2> QED BY <1>2, <2>1 DEF CheckReady, ReadDevices, stores
<1>3. ASSUME SendDone(r) \/ Mark(r) \/ Publish(r) \/ Refused(r)
      PROVE  UNCHANGED <<receipt, device, pref, tombstone, purged>>
  BY <1>3 DEF SendDone, Mark, Publish, Refused, stores
<1>4. ASSUME \/ InspectRead(r) \/ Lookup(r) \/ Find(r)
             \/ \E row \in mem[r].list : ConfirmErased(r, row) \/ RetryEvaluate(r, row)
      PROVE  UNCHANGED <<receipt, device, pref, tombstone, purged>>
  BY <1>4 DEF InspectRead, Lookup, Find, ConfirmErased, RetryEvaluate, stores
<1>5. ASSUME RetryDevices(r) \/ RetryRead(r) \/ RetryDone(r) \/ Crash(r)
      PROVE  UNCHANGED <<receipt, device, pref, tombstone, purged>>
  BY <1>5 DEF RetryDevices, RetryRead, RetryDone, Crash, stores
<1> QED BY <1>1, <1>2, <1>3, <1>4, <1>5

\* The steps that write a receipt write one of an account that is not closed.
LEMMA ReceiptWrites ==
  ASSUME TypeOK, NEW r \in Runs,
         \/ Claim(r) \/ Record(r) \/ WriteFails(r) \/ GiveUp(r)
         \/ \E row \in mem[r].list : Confirm(r, row)
  PROVE  /\ \E w \in Work : /\ w[1] \notin tombstone
                            /\ \E rec : receipt' = [receipt EXCEPT ![SlotOf(w)] = rec]
                            \/ receipt' = receipt
         /\ UNCHANGED <<device, pref, tombstone, purged>>
<1>1. CASE Claim(r)
  <2>1. at[r] \in Work /\ SlotOf(at[r])[1] = at[r][1]
    BY SlotType DEF TypeOK
  <2> QED BY <1>1, <2>1 DEF Claim, Claimable
<1>2. CASE Record(r) \/ WriteFails(r) \/ GiveUp(r)
  BY <1>2 DEF Record, WriteFails, GiveUp, Write, Erased, TypeOK
<1>3. ASSUME NEW row \in mem[r].list, Confirm(r, row) PROVE row.work \in Work
  BY DEF TypeOK, Mem, Row
<1> QED BY <1>1, <1>2, <1>3 DEF Confirm

\* Once an account is deleted, no run brings back a row of it.
THEOREM PurgedForGood == Spec => []NoRowsAfterPurge
<1>1. Init => NoRowsAfterPurge
  BY DEF Init, NoRowsAfterPurge
<1>2. TypeOK /\ NoRowsAfterPurge /\ [Next]_vars => NoRowsAfterPurge'
  <2> SUFFICES ASSUME TypeOK, NoRowsAfterPurge, [Next]_vars PROVE NoRowsAfterPurge'
    OBVIOUS
  <2>0. purged \subseteq tombstone
    BY DEF TypeOK
  <2>1. CASE UNCHANGED <<receipt, device, pref, tombstone, purged>>
    BY <2>1 DEF NoRowsAfterPurge
  <2>2. ASSUME NEW r \in Runs,
               \/ Claim(r) \/ Record(r) \/ WriteFails(r) \/ GiveUp(r)
               \/ \E row \in mem[r].list : Confirm(r, row)
        PROVE  NoRowsAfterPurge'
    <3>1. PICK w \in Work : /\ w[1] \notin tombstone
                            /\ \E rec : receipt' = [receipt EXCEPT ![SlotOf(w)] = rec]
                            \/ receipt' = receipt
      BY <2>2, ReceiptWrites
    <3>2. UNCHANGED <<device, pref, tombstone, purged>>
      BY <2>2, ReceiptWrites
    <3>3. SlotOf(w)[1] = w[1]
      BY SlotType
    <3> QED BY <3>1, <3>2, <3>3, <2>0 DEF NoRowsAfterPurge, TypeOK
  <2>3. ASSUME NEW r \in Runs, Deactivate(r) PROVE NoRowsAfterPurge'
    BY <2>3, <2>0 DEF Deactivate, PutDevice, Assigned, NoRowsAfterPurge
  <2>4. ASSUME NEW u \in Users, NEW t \in Tokens, Register(u, t) PROVE NoRowsAfterPurge'
    BY <2>4, <2>0 DEF Register, PutDevice, Assigned, NoRowsAfterPurge
  <2>5. ASSUME NEW u \in Users, NEW t \in Tokens, Unregister(u, t) PROVE NoRowsAfterPurge'
    BY <2>5 DEF Unregister, NoRowsAfterPurge, TypeOK
  <2>6. ASSUME NEW u \in Users, NEW value \in {"on", "off"}, SetAlerts(u, value)
        PROVE  NoRowsAfterPurge'
    BY <2>6, <2>0 DEF SetAlerts, NoRowsAfterPurge, TypeOK
  <2>7. ASSUME NEW u \in Users, BeginDeletion(u) PROVE NoRowsAfterPurge'
    BY <2>7 DEF BeginDeletion, NoRowsAfterPurge
  <2>8. ASSUME NEW u \in Users, Purge(u) PROVE NoRowsAfterPurge'
    BY <2>8 DEF Purge, Absent, NoRowsAfterPurge, TypeOK
  <2>9. ASSUME NEW j \in Jobs, Requeue(j) PROVE NoRowsAfterPurge'
    BY <2>9 DEF Requeue, NoRowsAfterPurge
  <2>10. CASE UNCHANGED vars
    BY <2>10, <2>1 DEF vars, stores
  <2> QED
    BY <2>1, <2>2, <2>3, <2>4, <2>5, <2>6, <2>7, <2>8, <2>9, <2>10, Untouched
    DEF Next, Start, Step, Sending, Answering, Inspecting, Retrying, Fault, Environment
<1> QED BY <1>1, <1>2, TypeCorrect, PTL DEF Spec

\* A token never has rows under two users, whatever stale copies workers put back.
THEOREM TokensHaveOneOwner == Spec => []OneOwnerPerToken
<1>1. Init => OneOwnerPerToken
  BY DEF Init, OneOwnerPerToken
<1>2. TypeOK /\ OneOwnerPerToken /\ [Next]_vars => OneOwnerPerToken'
  <2> SUFFICES ASSUME TypeOK, OneOwnerPerToken, [Next]_vars PROVE OneOwnerPerToken'
    OBVIOUS
  <2> USE DEF OneOwnerPerToken, OneOwner
  <2>1. CASE UNCHANGED device
    BY <2>1
  <2>2. ASSUME NEW u \in Users, NEW t \in Tokens, NEW state, PutDevice(u, t, state)
        PROVE  OneOwnerPerToken'
    BY <2>2 DEF PutDevice, Assigned, Device
  <2>3. ASSUME NEW r \in Runs, Deactivate(r) PROVE OneOwnerPerToken'
    <3>1. at[r][1] \in Users /\ at[r][2] \in Tokens
      BY DEF TypeOK, Work
    <3> QED BY <2>3, <2>2, <3>1 DEF Deactivate
  <2>4. ASSUME NEW u \in Users, NEW t \in Tokens, Register(u, t) PROVE OneOwnerPerToken'
    BY <2>4, <2>2 DEF Register
  <2>5. ASSUME NEW u \in Users, NEW t \in Tokens, Unregister(u, t) PROVE OneOwnerPerToken'
    BY <2>5 DEF Unregister, TypeOK
  <2>6. ASSUME NEW u \in Users, Purge(u) PROVE OneOwnerPerToken'
    BY <2>6 DEF Purge, TypeOK
  <2>7. ASSUME NEW r \in Runs,
               \/ Claim(r) \/ Record(r) \/ WriteFails(r) \/ GiveUp(r)
               \/ \E row \in mem[r].list : Confirm(r, row)
        PROVE  UNCHANGED device
    BY <2>7 DEF Claim, Record, WriteFails, GiveUp, Confirm
  <2>8. ASSUME NEW u \in Users, NEW value \in {"on", "off"}, SetAlerts(u, value)
        PROVE  UNCHANGED device
    BY <2>8 DEF SetAlerts
  <2>11. ASSUME NEW u \in Users, BeginDeletion(u) PROVE UNCHANGED device
    BY <2>11 DEF BeginDeletion
  <2>12. ASSUME NEW j \in Jobs, Requeue(j) PROVE UNCHANGED device
    BY <2>12 DEF Requeue
  <2>9. CASE UNCHANGED vars
    BY <2>9, <2>1 DEF vars, stores
  <2> QED
    BY <2>1, <2>3, <2>4, <2>5, <2>6, <2>7, <2>8, <2>9, <2>11, <2>12, Untouched
    DEF Next, Start, Step, Sending, Answering, Inspecting, Retrying, Fault, Environment
<1> QED BY <1>1, <1>2, TypeCorrect, PTL DEF Spec
-----------------------------------------------------------------------------
(* The bound on attempts *)

\* A receipt that may still be attempted has attempts left.
Spendable(rec) ==
  /\ rec.attempts <= MaxAttempts
  /\ rec.status \in {"absent", "retryable"} => rec.attempts < MaxAttempts
  /\ rec.status = "error" /\ rec.deliveryState # "definitive-failure" => rec.attempts < MaxAttempts

\* Where a run holds rows it read as retryable.
RetryPhase == {"retry", "republish", "rerecord", "redeactivate", "giveUp"}

\* What the bound rests on: the rows, the copies runs hold of them and the
\* receipts they are about to write.
AttemptsInv ==
  /\ \A s \in Slot : Spendable(receipt[s])
  /\ \A r \in Runs : \A row \in mem[r].list :
       /\ Spendable(row.rec)
       /\ pc[r] \in RetryPhase => row.rec.status = "retryable"
       /\ pc[r] \notin RetryPhase => row.rec.status = "pending"
  /\ \A r \in Runs :
       /\ pc[r] \in {"claim", "publish", "record", "deactivate"} =>
            draft[r].attempts <= MaxAttempts /\ draft[r].status = "pending"
       /\ pc[r] \in {"republish", "rerecord", "redeactivate"} => draft[r].attempts < MaxAttempts
       /\ pc[r] = "giveUp" => Spendable(draft[r])

\* A receipt Put leaves the attempts alone.
LEMMA PutFields ==
  ASSUME NEW rec \in Receipt, NEW status, NEW state
  PROVE  /\ Put(rec, status, state).attempts = rec.attempts
         /\ Put(rec, status, state).status = status
         /\ Put(rec, status, state).deliveryState = state
BY DEF Put, Receipt

\* The receipts written after an answer keep the bound.
LEMMA AnswersSpendable ==
  ASSUME NEW rec \in Receipt, NEW rep \in Reply
  PROVE  /\ rec.attempts <= MaxAttempts => Spendable(SentReceipt(rec, rep))
         /\ rec.attempts < MaxAttempts => Spendable(RetriedReceipt(rec, rep))
         /\ rec.attempts <= MaxAttempts => Spendable(UnknownReceipt(rec))
         /\ Spendable(rec) => Spendable(Confirmed(rec))
<1>1. ASSUME rec.attempts <= MaxAttempts PROVE Spendable(SentReceipt(rec, rep))
  <2> DEFINE next == [rec EXCEPT !.ticket = rep.ticket]
  <2>1. next \in Receipt /\ next.attempts = rec.attempts
    BY DEF Receipt, Reply
  <2> HIDE DEF next
  <2>2. \/ SentReceipt(rec, rep) \in {Put(next, "pending", "accepted"), Put(next, "pending", "unknown"),
                                      Put(next, "error", "definitive-failure")}
        \/ SentReceipt(rec, rep) = Put(next, "retryable", "claimed") /\ rec.attempts < MaxAttempts
    BY DEF SentReceipt, next
  <2> QED BY <1>1, <2>1, <2>2, PutFields DEF Spendable
<1>2. ASSUME rec.attempts < MaxAttempts PROVE Spendable(RetriedReceipt(rec, rep))
  <2> DEFINE next == [rec EXCEPT !.attempts = @ + 1, !.ticket = rep.ticket]
  <2>1. next \in Receipt /\ next.attempts = rec.attempts + 1
    <3>1. [rec EXCEPT !.attempts = @ + 1] \in Receipt
      BY DEF Receipt
    <3>2. \A old \in Receipt : /\ [old EXCEPT !.ticket = rep.ticket] \in Receipt
                               /\ [old EXCEPT !.ticket = rep.ticket].attempts = old.attempts
      BY DEF Receipt, Reply
    <3>3. next = [[rec EXCEPT !.attempts = @ + 1] EXCEPT !.ticket = rep.ticket]
      OBVIOUS
    <3>4. [rec EXCEPT !.attempts = @ + 1].attempts = rec.attempts + 1
      BY DEF Receipt
    <3> QED BY <3>1, <3>2, <3>3, <3>4
  <2> HIDE DEF next
  <2>2. \/ RetriedReceipt(rec, rep) \in {Put(next, "pending", "accepted"), Put(next, "pending", "unknown"),
                                         Put(next, "error", "definitive-failure")}
        \/ RetriedReceipt(rec, rep) = Put(next, "retryable", "claimed") /\ next.attempts < MaxAttempts
    BY DEF RetriedReceipt, next
  <2>3. rec.attempts \in Nat /\ MaxAttempts \in Nat
    BY ConstantAssumption DEF ConstantAssumption, Receipt
  <2>4. next.attempts <= MaxAttempts
    BY <1>2, <2>1, <2>3
  <2> QED BY <2>1, <2>2, <2>4, PutFields DEF Spendable
<1>3. ASSUME rec.attempts <= MaxAttempts PROVE Spendable(UnknownReceipt(rec))
  <2>1. /\ UnknownReceipt(rec).attempts = rec.attempts
        /\ UnknownReceipt(rec).status = "pending"
    BY DEF UnknownReceipt, Put, Receipt
  <2> QED BY <1>3, <2>1 DEF Spendable
<1>4. ASSUME Spendable(rec) PROVE Spendable(Confirmed(rec))
  BY <1>4, PutFields DEF Spendable, Confirmed
<1> QED BY <1>1, <1>2, <1>3, <1>4
\* The rows read for inspection or retry carry what the table holds.
LEMMA RowsSpendable ==
  ASSUME NEW status, \A s \in Slot : Spendable(receipt[s]), NEW row \in Rows(status)
  PROVE  Spendable(row.rec) /\ row.rec.status = status
BY DEF Rows

\* A run that ends leaves the other runs' obligations as they are.
LEMMA EndAttempts ==
  ASSUME TypeOK, AttemptsInv, NEW r \in Runs, End(r), UNCHANGED receipt
  PROVE  AttemptsInv'
BY DEF End, Goto, NoMem, RetryPhase, AttemptsInv, TypeOK, Spendable

\* A step of a run that leaves its lists and its draft as they are, writes at
\* most one receipt, and goes where the draft may be used.
LEMMA WriteAttempts ==
  ASSUME TypeOK, AttemptsInv, NEW r \in Runs, NEW s \in Slot, NEW rec, Spendable(rec),
         receipt' = [receipt EXCEPT ![s] = rec] \/ receipt' = receipt,
         UNCHANGED <<draft, mem>>, NEW label, Goto(r, label),
         (label \in RetryPhase) <=> (pc[r] \in RetryPhase),
         label \in {"claim", "publish", "record", "deactivate"} =>
            pc[r] \in {"claim", "publish", "record", "deactivate"},
         label \in {"republish", "rerecord", "redeactivate"} =>
            pc[r] \in {"republish", "rerecord", "redeactivate"},
         label # "giveUp"
  PROVE  AttemptsInv'
<1>1. \A x \in Slot : Spendable(receipt'[x])
  BY DEF AttemptsInv, TypeOK
<1>2. \A q \in Runs : pc'[q] = IF q = r THEN label ELSE pc[q]
  BY DEF Goto, TypeOK
<1>3. \A q \in Runs : \A row \in mem[q].list :
        /\ Spendable(row.rec)
        /\ pc'[q] \in RetryPhase => row.rec.status = "retryable"
        /\ pc'[q] \notin RetryPhase => row.rec.status = "pending"
  BY <1>2 DEF AttemptsInv
<1>4. \A q \in Runs :
       /\ pc'[q] \in {"claim", "publish", "record", "deactivate"} =>
            draft[q].attempts <= MaxAttempts /\ draft[q].status = "pending"
       /\ pc'[q] \in {"republish", "rerecord", "redeactivate"} => draft[q].attempts < MaxAttempts
       /\ pc'[q] = "giveUp" => Spendable(draft[q])
  BY <1>2 DEF AttemptsInv
<1> QED BY <1>1, <1>3, <1>4 DEF AttemptsInv, Spendable
\* What a run must hold at a label with a list of rows and a draft.
HoldsAt(label, rows, rec) ==
  /\ \A row \in rows : /\ Spendable(row.rec)
                       /\ label \in RetryPhase => row.rec.status = "retryable"
                       /\ label \notin RetryPhase => row.rec.status = "pending"
  /\ label \in {"claim", "publish", "record", "deactivate"} =>
       rec.attempts <= MaxAttempts /\ rec.status = "pending"
  /\ label \in {"republish", "rerecord", "redeactivate"} => rec.attempts < MaxAttempts
  /\ label = "giveUp" => Spendable(rec)

\* A step that moves one run to a label, a list and a draft that fit.
LEMMA MoveAttempts ==
  ASSUME TypeOK, AttemptsInv, NEW r \in Runs, \A s \in Slot : Spendable(receipt'[s]),
         \A q \in Runs \ {r} : pc'[q] = pc[q] /\ mem'[q] = mem[q] /\ draft'[q] = draft[q],
         HoldsAt(pc'[r], mem'[r].list, draft'[r])
  PROVE  AttemptsInv'
<1>1. \A q \in Runs : HoldsAt(pc'[q], mem'[q].list, draft'[q])
  BY DEF AttemptsInv, HoldsAt
<1> QED BY <1>1 DEF AttemptsInv, HoldsAt, Spendable

\* The bound holds initially and each step of a run keeps it.
LEMMA AttemptsInit == Init => AttemptsInv
<1> SUFFICES ASSUME Init PROVE AttemptsInv
  OBVIOUS
<1>1. Spendable(Absent)
  BY ConstantAssumption DEF ConstantAssumption, Spendable, Absent
<1>2. \A s \in Slot : Spendable(receipt[s])
  BY <1>1 DEF Init
<1>3. \A r \in Runs : mem[r].list = {} /\ pc[r] = "idle"
  BY DEF Init, NoMem
<1> QED BY <1>2, <1>3 DEF AttemptsInv

\* The steps of a run keep the bound and what makes it inductive.
LEMMA AttemptsStep ==
  ASSUME TypeOK, AttemptsInv, NEW r \in Runs, Start(r) \/ Step(r) \/ Fault(r)
  PROVE  AttemptsInv'
<1>a. \A s \in Slot : Spendable(receipt[s]) /\ receipt[s] \in Receipt
  BY DEF AttemptsInv, TypeOK
<1>b. draft[r] \in Receipt /\ reply[r] \in Reply /\ at[r] \in Work /\ SlotOf(at[r]) \in Slot
  BY SlotType DEF TypeOK
<1>c. MaxAttempts \in Nat /\ MaxAttempts > 0
  BY ConstantAssumption DEF ConstantAssumption
<1>1. ASSUME NEW js \in SUBSET (Jobs \ announced), StartPoll(r, js) PROVE AttemptsInv'
  BY <1>1 DEF StartPoll, Goto, AttemptsInv, TypeOK, Mem, RetryPhase, Spendable
<1>2. ASSUME NEW js \in SUBSET marker, StartDrain(r, js) PROVE AttemptsInv'
  BY <1>2 DEF StartDrain, stores, Goto, AttemptsInv, TypeOK, Mem, RetryPhase, Spendable
<1>3. ASSUME CheckReady(r) PROVE AttemptsInv'
  BY <1>3 DEF CheckReady, stores, Goto, AttemptsInv, TypeOK, Mem, RetryPhase, Spendable
<1>4. ASSUME ReadDevices(r) PROVE AttemptsInv'
  BY <1>4 DEF ReadDevices, stores, Goto, AttemptsInv, TypeOK, Mem, RetryPhase, Spendable
<1>5. ASSUME NEW w \in mem[r].work, Evaluate(r, w) PROVE AttemptsInv'
  <2> DEFINE found == ExistingReceipt(w)
  <2>1. w \in Work /\ found \in Receipt
    BY ExistingType DEF TypeOK, Mem
  <2>2. ~Settled(found) => found.attempts < MaxAttempts
    <3>1. Spendable(Absent)
      BY <1>c DEF Spendable, Absent
    <3>2. Settled(Put(Absent, "ok", "none"))
      BY DefaultTypes, PutFields DEF Settled
    <3>3. ~Settled(found) => Spendable(found)
      BY <1>a, <2>1, <3>1, <3>2, SlotType DEF ExistingReceipt
    <3> QED BY <2>1, <3>3 DEF Spendable, Settled, Receipt, Status
  <2>3. mem'[r].list = mem[r].list /\ \A q \in Runs \ {r} : mem'[q] = mem[q]
    BY <1>5 DEF Evaluate, TypeOK, Mem
  <2>4. CASE UNCHANGED <<pc, at, draft>>
    <3>1. HoldsAt(pc'[r], mem'[r].list, draft'[r])
      BY <2>3, <2>4 DEF AttemptsInv, HoldsAt
    <3> QED BY <1>5, <1>a, <2>3, <2>4, <3>1, MoveAttempts DEF Evaluate, stores
  <2>5. CASE ~UNCHANGED <<pc, at, draft>>
    <3>1. /\ ~Settled(found)
          /\ Goto(r, "claim")
          /\ draft' = [draft EXCEPT ![r] =
                  [status |-> "pending", deliveryState |-> "claimed", ticket |-> "none",
                   attempts |-> found.attempts + 1, jobId |-> w[3]]]
      BY <1>5, <2>5 DEF Evaluate
    <3>2. draft'[r].attempts = found.attempts + 1 /\ draft'[r].status = "pending"
      BY <3>1 DEF TypeOK
    <3>3. found.attempts + 1 <= MaxAttempts
      BY <1>c, <2>1, <2>2, <3>1 DEF Receipt
    <3>4. pc[r] = "send" /\ pc'[r] = "claim" /\ \A q \in Runs \ {r} : pc'[q] = pc[q] /\ draft'[q] = draft[q]
      BY <1>5, <3>1 DEF Evaluate, Goto, TypeOK
    <3>5. HoldsAt(pc'[r], mem'[r].list, draft'[r])
      BY <2>3, <3>2, <3>3, <3>4 DEF AttemptsInv, HoldsAt, RetryPhase
    <3> QED BY <1>5, <1>a, <2>3, <3>4, <3>5, MoveAttempts DEF Evaluate, stores
  <2> QED BY <2>4, <2>5
<1>6. ASSUME Claim(r) PROVE AttemptsInv'
  <2>1. Spendable(draft[r])
    BY <1>6 DEF Claim, AttemptsInv, Spendable
  <2>2. \E label \in {"publish", "send"} : Goto(r, label)
    BY <1>6 DEF Claim
  <2> QED BY <1>6, <1>b, <2>1, <2>2, WriteAttempts DEF Claim, RetryPhase
<1>7. ASSUME SendDone(r) PROVE AttemptsInv'
  <2>1. CASE Kind[r] = "provider"
    BY <1>7, <2>1, EndAttempts DEF SendDone, stores
  <2>2. CASE Kind[r] # "provider"
    <3>1. PICK label \in {"mark", "inspect"} : Goto(r, label)
      BY <1>7, <2>2 DEF SendDone
    <3> QED BY <1>7, <1>a, <1>b, <2>2, <3>1, WriteAttempts DEF SendDone, stores, RetryPhase
  <2> QED BY <2>1, <2>2
<1>8. ASSUME Mark(r) PROVE AttemptsInv'
  <2>1. /\ pc[r] = "mark" /\ pc'[r] \in {"mark", "inspect"} /\ mem'[r].list = mem[r].list
        /\ \A q \in Runs \ {r} : pc'[q] = pc[q] /\ mem'[q] = mem[q]
    BY <1>8 DEF Mark, Goto, TypeOK, Mem
  <2>2. HoldsAt(pc'[r], mem'[r].list, draft'[r])
    BY <2>1 DEF HoldsAt, RetryPhase, AttemptsInv
  <2> QED BY <1>8, <1>a, <2>1, <2>2, MoveAttempts DEF Mark
<1>9. ASSUME Publish(r) PROVE AttemptsInv'
  BY <1>9, <1>a, <1>b, WriteAttempts DEF Publish, stores, RetryPhase
<1>10. ASSUME Record(r) PROVE AttemptsInv'
  <2>1. Spendable(Recorded(r))
    BY <1>10, <1>b, AnswersSpendable DEF Record, Recorded, AttemptsInv
  <2>2. PICK label : /\ Goto(r, label)
                     /\ pc[r] = "record" => label \in {"send", "deactivate"}
                     /\ pc[r] = "rerecord" => label \in {"retry", "redeactivate"}
    BY <1>10 DEF Record, Loop
  <2> QED BY <1>10, <1>b, <2>1, <2>2, WriteAttempts DEF Record, Write, RetryPhase
<1>11. ASSUME Deactivate(r) PROVE AttemptsInv'
  BY <1>11, <1>a, <1>b, WriteAttempts DEF Deactivate, Loop, RetryPhase
<1>12. ASSUME Refused(r) PROVE AttemptsInv'
  BY <1>12, EndAttempts DEF Refused, stores
<1>13. ASSUME InspectRead(r) PROVE AttemptsInv'
  <2>1. /\ pc'[r] = "lookup" /\ mem'[r].list \subseteq Rows("pending")
        /\ \A q \in Runs \ {r} : pc'[q] = pc[q] /\ mem'[q] = mem[q]
    BY <1>13 DEF InspectRead, Goto, TypeOK, Mem
  <2>2. HoldsAt(pc'[r], mem'[r].list, draft'[r])
    BY <1>a, <2>1, RowsSpendable DEF HoldsAt, RetryPhase
  <2> QED BY <1>13, <1>a, <2>1, <2>2, MoveAttempts DEF InspectRead, stores
<1>14. ASSUME Lookup(r) PROVE AttemptsInv'
  <2>1. /\ pc[r] = "lookup" /\ pc'[r] = "confirm" /\ mem'[r].list \subseteq mem[r].list
        /\ \A q \in Runs \ {r} : pc'[q] = pc[q] /\ mem'[q] = mem[q]
    BY <1>14 DEF Lookup, Goto, TypeOK, Mem
  <2>2. HoldsAt(pc'[r], mem'[r].list, draft'[r])
    BY <2>1 DEF HoldsAt, RetryPhase, AttemptsInv
  <2> QED BY <1>14, <1>a, <2>1, <2>2, MoveAttempts DEF Lookup, stores
<1>15. ASSUME Find(r) PROVE AttemptsInv'
  BY <1>15, <1>a, <1>b, WriteAttempts DEF Find, stores, RetryPhase
<1>16. ASSUME NEW row \in mem[r].list, Confirm(r, row) PROVE AttemptsInv'
  <2>1. /\ pc[r] = "confirm" /\ pc'[r] \in {"find", "confirm"} /\ mem'[r].list \subseteq mem[r].list
        /\ \A q \in Runs \ {r} : pc'[q] = pc[q] /\ mem'[q] = mem[q]
    BY <1>16 DEF Confirm, Goto, TypeOK, Mem
  <2>2. HoldsAt(pc'[r], mem'[r].list, draft'[r])
    BY <2>1 DEF HoldsAt, RetryPhase, AttemptsInv
  <2>3. row.work \in Work /\ row.rec \in Receipt /\ Spendable(row.rec)
    BY DEF TypeOK, Mem, Row, AttemptsInv
  <2>4. Spendable(Confirmed(row.rec))
    BY <2>3, PutFields DEF Spendable, Confirmed
  <2>5. \A s \in Slot : Spendable(receipt'[s])
    BY <1>16, <1>a, <2>3, <2>4, SlotType DEF Confirm, TypeOK
  <2> QED BY <1>16, <2>1, <2>2, <2>5, MoveAttempts DEF Confirm
<1>17. ASSUME NEW row \in mem[r].list, ConfirmErased(r, row) PROVE AttemptsInv'
  BY <1>17, EndAttempts DEF ConfirmErased, stores
<1>18. ASSUME RetryDevices(r) PROVE AttemptsInv'
  BY <1>18 DEF RetryDevices, stores, Goto, AttemptsInv, TypeOK, Mem, RetryPhase, Spendable
<1>19. ASSUME RetryRead(r) PROVE AttemptsInv'
  <2>1. /\ pc'[r] = "retry" /\ mem'[r].list = Rows("retryable")
        /\ \A q \in Runs \ {r} : pc'[q] = pc[q] /\ mem'[q] = mem[q]
    BY <1>19 DEF RetryRead, Goto, TypeOK, Mem
  <2>2. HoldsAt(pc'[r], mem'[r].list, draft'[r])
    BY <1>a, <2>1, RowsSpendable DEF HoldsAt, RetryPhase
  <2> QED BY <1>19, <1>a, <2>1, <2>2, MoveAttempts DEF RetryRead, stores
<1>20. ASSUME GiveUp(r) PROVE AttemptsInv'
  <2>1. Spendable(draft[r])
    BY <1>20 DEF GiveUp, AttemptsInv
  <2> QED BY <1>20, <1>b, <2>1, WriteAttempts DEF GiveUp, Write, RetryPhase
<1>21. ASSUME RetryDone(r) PROVE AttemptsInv'
  BY <1>21, EndAttempts DEF RetryDone, stores
<1>22. ASSUME NEW row \in mem[r].list, RetryEvaluate(r, row) PROVE AttemptsInv'
  <2>1. /\ pc[r] = "retry" /\ mem'[r].list \subseteq mem[r].list
        /\ \A q \in Runs \ {r} : pc'[q] = pc[q] /\ mem'[q] = mem[q] /\ draft'[q] = draft[q]
    BY <1>22 DEF RetryEvaluate, Goto, TypeOK, Mem
  <2>2. row.rec \in Receipt /\ Spendable(row.rec) /\ row.rec.status = "retryable"
    BY <2>1 DEF TypeOK, Mem, Row, AttemptsInv, RetryPhase
  <2>3. \/ pc'[r] = "giveUp" /\ \E state : draft'[r] = Put(row.rec, "error", state)
        \/ pc'[r] = "republish" /\ draft'[r] = row.rec
    BY <1>22 DEF RetryEvaluate, Goto, TypeOK
  <2>4. row.rec.attempts < MaxAttempts
    BY <2>2 DEF Spendable
  <2>5. \A state : Spendable(Put(row.rec, "error", state))
    BY <2>2, <2>4, PutFields DEF Spendable
  <2>6. HoldsAt(pc'[r], mem'[r].list, draft'[r])
    BY <2>1, <2>3, <2>4, <2>5 DEF HoldsAt, RetryPhase, AttemptsInv
  <2> QED BY <1>22, <1>a, <2>1, <2>6, MoveAttempts DEF RetryEvaluate, stores
<1>23. ASSUME WriteFails(r) PROVE AttemptsInv'
  <2> DEFINE rec == IF pc[r] \in {"record", "deactivate"} THEN draft[r]
                    ELSE [draft[r] EXCEPT !.attempts = @ + 1]
  <2>1. rec \in Receipt /\ rec.attempts <= MaxAttempts
    <3>1. CASE pc[r] \in {"record", "deactivate"}
      BY <1>b, <3>1 DEF AttemptsInv
    <3>2. CASE pc[r] \in {"rerecord", "redeactivate"}
      <4>1. draft[r].attempts < MaxAttempts
        BY <3>2 DEF AttemptsInv
      <4>2. [draft[r] EXCEPT !.attempts = @ + 1] \in Receipt
        BY <1>b DEF Receipt
      <4>3. [draft[r] EXCEPT !.attempts = @ + 1].attempts = draft[r].attempts + 1
        BY <1>b DEF Receipt
      <4>4. draft[r].attempts + 1 <= MaxAttempts
        BY <1>b, <1>c, <4>1 DEF Receipt
      <4> QED BY <3>2, <4>2, <4>3, <4>4
    <3> QED BY <1>23, <3>1, <3>2 DEF WriteFails
  <2> HIDE DEF rec
  <2>2. Spendable(UnknownReceipt(rec))
    BY <1>b, <2>1, AnswersSpendable
  <2>3. receipt' = [receipt EXCEPT ![SlotOf(at[r])] = UnknownReceipt(rec)]
    BY <1>23 DEF WriteFails, Write, rec
  <2>4. PICK label : /\ Goto(r, label)
                     /\ label = IF pc[r] \in {"record", "deactivate"} THEN "send" ELSE "retry"
    BY <1>23 DEF WriteFails, Loop
  <2> QED BY <1>23, <1>b, <2>2, <2>3, <2>4, WriteAttempts DEF WriteFails, RetryPhase
<1>24. ASSUME Crash(r) PROVE AttemptsInv'
  BY <1>24, EndAttempts DEF Crash, stores
<1> QED
  BY <1>1, <1>2, <1>3, <1>4, <1>5, <1>6, <1>7, <1>8, <1>9, <1>10, <1>11, <1>12, <1>13, <1>14,
     <1>15, <1>16, <1>17, <1>18, <1>19, <1>20, <1>21, <1>22, <1>23, <1>24
  DEF Start, Step, Sending, Answering, Inspecting, Retrying, Fault
\* Steps of users and operators leave the runs' copies alone.
LEMMA AttemptsOutside == TypeOK /\ AttemptsInv /\ (Environment \/ UNCHANGED vars) => AttemptsInv'
<1> SUFFICES ASSUME TypeOK, AttemptsInv, Environment \/ UNCHANGED vars PROVE AttemptsInv'
  OBVIOUS
<1>1. UNCHANGED <<pc, draft, mem>>
  BY DEF Environment, Register, Unregister, SetAlerts, BeginDeletion, Purge, Requeue, Outside, vars
<1>2. Spendable(Absent)
  BY ConstantAssumption DEF ConstantAssumption, Spendable, Absent
<1>3. receipt' = receipt \/ \E u \in Users : receipt' = [s \in Slot |-> IF s[1] = u THEN Absent ELSE receipt[s]]
  BY DEF Environment, Register, Unregister, SetAlerts, BeginDeletion, Purge, Requeue, vars, stores
<1>4. \A s \in Slot : Spendable(receipt'[s])
  BY <1>2, <1>3 DEF AttemptsInv
<1> QED BY <1>1, <1>4 DEF AttemptsInv, Spendable

\* No posting is attempted more often than MAX_EXPO_PUSH_ATTEMPTS on a device,
\* with any number of runs, crashes, deletions and requeued jobs.
THEOREM BoundedAttempts == Spec => []AttemptsBounded
<1>1. TypeOK /\ AttemptsInv /\ [Next]_vars => AttemptsInv'
  BY AttemptsStep, AttemptsOutside DEF Next
<1>2. AttemptsInv => AttemptsBounded
  BY DEF AttemptsInv, Spendable, AttemptsBounded
<1> QED BY <1>1, <1>2, AttemptsInit, TypeCorrect, PTL DEF Spec
-----------------------------------------------------------------------------
(* At most one push, when nothing retries *)

\* Every run is a provider's, and a posting sent under its old key has one job.
SendersOnly ==
  /\ \A r \in Runs : Kind[r] = "provider"
  /\ \A w \in Legacy, v \in Work : SlotOf(w) = SlotOf(v) => w = v

\* Where a provider's run can be, whether it is busy with a slot, and the slots
\* that were sent under their old key.
Sender == {"idle", "read", "send", "claim", "publish", "record", "deactivate"}
Busy(r, s) == pc[r] \in {"publish", "record"} /\ SlotOf(at[r]) = s
Sent(s) == \E w \in Legacy : SlotOf(w) = s

\* A slot that can be claimed is one nobody was pushed on nor is about to be;
\* a slot that is claimed belongs to one run until it records the answer.
PushInv ==
  /\ \A r \in Runs : pc[r] \in Sender
  /\ \A s \in Slot : Sent(s) => receipt[s].status = "absent"
  /\ \A r \in Runs : pc[r] \in {"claim", "publish", "record", "deactivate"} =>
       at[r] \notin Legacy \/ at[r][1] \in tombstone
  /\ \A s \in Slot : Claimable(s) /\ ~Sent(s) =>
       delivered[s] = 0 /\ \A r \in Runs : ~Busy(r, s)
  /\ \A r \in Runs : pc[r] = "publish" => delivered[SlotOf(at[r])] = 0
  /\ \A r \in Runs : pc[r] = "record" /\ reply[r].answer \notin {"accepted", "unticketed", "lost"} =>
       delivered[SlotOf(at[r])] = 0
  /\ \A q, r \in Runs : q # r /\ pc[q] \in {"publish", "record"} /\ pc[r] \in {"publish", "record"} =>
       SlotOf(at[q]) # SlotOf(at[r])
  /\ \A s \in Slot : delivered[s] <= 1

\* A run that goes where it holds no slot gives up nothing another run needs.
LEMMA LeaveSlot ==
  ASSUME TypeOK, PushInv, NEW r \in Runs,
         \A q \in Runs \ {r} : pc'[q] = pc[q] /\ at'[q] = at[q] /\ reply'[q] = reply[q],
         pc'[r] \in Sender \ {"claim", "publish", "record"},
         pc'[r] = "deactivate" => pc[r] = "record" /\ at'[r] = at[r],
         UNCHANGED <<receipt, tombstone, delivered>>
  PROVE  PushInv'
<1>1. \A s : Claimable(s)' = Claimable(s)
  BY DEF Claimable
<1>2. \A s : \A q \in Runs : Busy(q, s)' => Busy(q, s)
  BY DEF Busy
<1> QED BY <1>1, <1>2 DEF PushInv

\* A rewritten receipt of a slot this run alone was busy with: the slot is left.
LEMMA WriteSlot ==
  ASSUME SendersOnly, TypeOK, PushInv, NEW r \in Runs,
         pc[r] \in {"record", "deactivate"}, ~Erased(r),
         pc'[r] \in {"send", "deactivate"}, \A q \in Runs \ {r} : pc'[q] = pc[q],
         UNCHANGED <<at, reply, tombstone, delivered>>,
         NEW rec, receipt' = [receipt EXCEPT ![SlotOf(at[r])] = rec],
         rec.status \in {"absent", "error"} =>
           pc[r] = "record" /\ reply[r].answer \notin {"accepted", "unticketed", "lost"}
  PROVE  PushInv'
<1> DEFINE t == SlotOf(at[r])
<1>1. at[r] \in Work /\ t \in Slot /\ at[r] \notin Legacy /\ ~Sent(t)
  BY SlotType DEF TypeOK, PushInv, Erased, Sent, SendersOnly
<1>2. \A s \in Slot : s # t => receipt'[s] = receipt[s]
  BY DEF TypeOK
<1>3. receipt'[t] = rec
  BY <1>1 DEF TypeOK
<1>4. \A q \in Runs, s \in Slot : Busy(q, s)' => Busy(q, s) /\ q # r
  BY DEF Busy
<1>5. ASSUME NEW s \in Slot, Claimable(s)', ~Sent(s)
      PROVE  delivered'[s] = 0 /\ \A q \in Runs : ~Busy(q, s)'
  <2>1. CASE s # t
    BY <1>2, <1>4, <1>5, <2>1 DEF Claimable, PushInv
  <2>2. CASE s = t
    <3>1. pc[r] = "record" /\ reply[r].answer \notin {"accepted", "unticketed", "lost"}
      BY <1>3, <1>5, <2>2 DEF Claimable
    <3>2. delivered[t] = 0 /\ \A q \in Runs \ {r} : ~Busy(q, t)
      BY <3>1 DEF PushInv, Busy
    <3> QED BY <2>2, <3>2, <1>4
  <2> QED BY <2>1, <2>2
<1>6. \A s \in Slot : Sent(s) => receipt'[s].status = "absent"
  BY <1>1, <1>2 DEF PushInv
<1> HIDE DEF t
<1>7. \A q \in Runs : /\ pc'[q] \in Sender
                      /\ pc'[q] \in {"claim", "publish", "record", "deactivate"} =>
                           at[q] \notin Legacy \/ at[q][1] \in tombstone
                      /\ pc'[q] \in {"publish", "record"} => pc'[q] = pc[q] /\ q # r
  BY DEF PushInv, Sender
<1>8. \A s : Sent(s)' = Sent(s)
  BY DEF Sent
<1> QED BY <1>5, <1>6, <1>7, <1>8 DEF PushInv

\* Only the sending steps are taken, and none of them but these writes.
LEMMA PushStep ==
  ASSUME SendersOnly, TypeOK, AttemptsInv, PushInv, NEW r \in Runs, Start(r) \/ Step(r) \/ Fault(r)
  PROVE  PushInv'
<1>a. Kind[r] = "provider" /\ pc[r] \in Sender
  BY DEF SendersOnly, PushInv
<1>b. at[r] \in Work /\ SlotOf(at[r]) \in Slot /\ SlotOf(at[r])[1] = at[r][1]
  BY SlotType DEF TypeOK
<1>1. ASSUME NEW js \in SUBSET (Jobs \ announced), StartPoll(r, js) PROVE PushInv'
  BY <1>1, LeaveSlot DEF StartPoll, Goto, Sender, TypeOK
<1>2. ASSUME ReadDevices(r) PROVE PushInv'
  BY <1>2, LeaveSlot DEF ReadDevices, stores, Goto, Sender, TypeOK
<1>3. ASSUME NEW w \in mem[r].work, Evaluate(r, w) PROVE PushInv'
  <2>1. w \in Work /\ SlotOf(w) \in Slot
    BY SlotType DEF TypeOK, Mem
  <2>2. CASE UNCHANGED <<pc, at, draft>>
    BY <1>3, <2>2, LeaveSlot DEF Evaluate, stores, Sender
  <2>3. CASE ~UNCHANGED <<pc, at, draft>>
    <3>1. /\ ~Settled(ExistingReceipt(w))
          /\ pc[r] = "send" /\ Goto(r, "claim") /\ at' = [at EXCEPT ![r] = w]
          /\ UNCHANGED <<receipt, tombstone, delivered, reply>>
      BY <1>3, <2>3 DEF Evaluate, stores
    <3>2. w \notin Legacy \/ w[1] \in tombstone
      <4>1. ASSUME w \in Legacy PROVE receipt[SlotOf(w)].status = "absent"
        BY <2>1, <4>1 DEF PushInv, Sent
      <4>2. Settled(Put(Absent, "ok", "none"))
        BY DefaultTypes, PutFields DEF Settled
      <4> QED BY <3>1, <4>1, <4>2 DEF ExistingReceipt, TypeOK
    <3>3. /\ pc'[r] = "claim" /\ at'[r] = w
          /\ \A q \in Runs \ {r} : pc'[q] = pc[q] /\ at'[q] = at[q]
      BY <3>1 DEF Goto, TypeOK
    <3>4. \A s : \A q \in Runs : Busy(q, s)' => Busy(q, s)
      BY <3>3 DEF Busy
    <3>5. \A s : Claimable(s)' = Claimable(s) /\ Sent(s)' = Sent(s)
      BY <3>1 DEF Claimable, Sent
    <3> QED BY <3>1, <3>2, <3>3, <3>4, <3>5 DEF PushInv, Sender
  <2> QED BY <2>2, <2>3
<1>4. ASSUME Claim(r) PROVE PushInv'
  <2> DEFINE t == SlotOf(at[r])
  <2>1. CASE ~Claimable(t)
    BY <1>4, <2>1, LeaveSlot DEF Claim, Goto, Sender, TypeOK
  <2>2. CASE Claimable(t)
    <3>1. at[r] \notin Legacy /\ ~Sent(t)
      BY <1>4, <1>b, <2>2 DEF Claim, Claimable, PushInv, Sent, SendersOnly
    <3>2. delivered[t] = 0 /\ \A q \in Runs : ~Busy(q, t)
      BY <1>b, <2>2, <3>1 DEF PushInv
    <3>3. /\ receipt' = [receipt EXCEPT ![t] = draft[r]] /\ draft[r].status = "pending"
          /\ pc'[r] = "publish" /\ \A q \in Runs \ {r} : pc'[q] = pc[q]
          /\ UNCHANGED <<at, reply, tombstone, delivered>>
      BY <1>4, <2>2 DEF Claim, Goto, TypeOK, AttemptsInv
    <3>4. \A s \in Slot : /\ s # t => receipt'[s] = receipt[s]
                          /\ Claimable(s)' => s # t /\ Claimable(s)
      BY <3>3, <1>b DEF Claimable, TypeOK
    <3>5. \A q \in Runs, s \in Slot : s # t /\ Busy(q, s)' => Busy(q, s)
      BY <3>3 DEF Busy
    <3>6. \A s : Sent(s)' = Sent(s)
      BY DEF Sent
    <3> HIDE DEF t
    <3>7. \A s \in Slot : Claimable(s)' /\ ~Sent(s) => delivered'[s] = 0 /\ \A q \in Runs : ~Busy(q, s)'
      BY <3>3, <3>4, <3>5 DEF PushInv
    <3>8. \A s \in Slot : Sent(s) => receipt'[s].status = "absent"
      BY <3>1, <3>4 DEF PushInv
    <3>9. \A q \in Runs \ {r} : pc[q] \in {"publish", "record"} => SlotOf(at[q]) # t
      BY <3>2 DEF Busy
    <3>10. /\ \A q \in Runs : pc'[q] \in Sender
           /\ \A q \in Runs : pc'[q] \in {"claim", "publish", "record", "deactivate"} =>
                at[q] \notin Legacy \/ at[q][1] \in tombstone
           /\ \A q \in Runs : pc'[q] = "publish" => delivered[SlotOf(at[q])] = 0
           /\ \A q \in Runs : pc'[q] = "record" => pc[q] = "record"
      BY <3>1, <3>2, <3>3 DEF PushInv, Sender, t
    <3>11. \A p, q \in Runs : p # q /\ pc'[p] \in {"publish", "record"} /\ pc'[q] \in {"publish", "record"}
             => SlotOf(at[p]) # SlotOf(at[q])
      BY <3>3, <3>9 DEF PushInv, t
    <3> QED BY <3>3, <3>6, <3>7, <3>8, <3>10, <3>11 DEF PushInv
  <2> QED BY <2>1, <2>2
<1>5. ASSUME Publish(r) PROVE PushInv'
  <2> DEFINE t == SlotOf(at[r])
  <2>1. /\ pc[r] = "publish" /\ pc'[r] = "record" /\ \A q \in Runs \ {r} : pc'[q] = pc[q]
        /\ UNCHANGED <<receipt, tombstone, at>>
    BY <1>5, <1>a DEF Publish, Goto, Sender, TypeOK, stores
  <2>2. PICK answer \in Replies, ticket \in Ticket, reached \in BOOLEAN :
          /\ Answers(answer, ticket, reached)
          /\ reply' = [reply EXCEPT ![r] = [answer |-> answer, ticket |-> ticket]]
          /\ delivered' = [delivered EXCEPT ![t] = IF reached /\ @ < 2 THEN @ + 1 ELSE @]
    BY <1>5 DEF Publish
  <2>3. delivered[t] = 0
    BY <2>1 DEF PushInv
  <2>4. /\ \A s \in Slot : s # t => delivered'[s] = delivered[s]
        /\ delivered'[t] = 0 \/ (delivered'[t] = 1 /\ reached)
    <3>1. CASE ~reached
      <4>1. delivered' = [delivered EXCEPT ![t] = @]
        BY <2>2, <3>1
      <4>2. delivered'[t] = 0 /\ \A s \in Slot : s # t => delivered'[s] = delivered[s]
        BY <4>1, <2>3, <1>b DEF TypeOK
      <4> QED BY <4>2
    <3>2. CASE reached
      <4>1. delivered' = [delivered EXCEPT ![t] = IF @ < 2 THEN @ + 1 ELSE @]
        BY <2>2, <3>2
      <4> QED BY <4>1, <2>3, <3>2, <1>b DEF TypeOK
    <3> QED BY <3>1, <3>2
  <2>5. reached => answer \in {"accepted", "unticketed", "lost"}
    BY <2>2 DEF Answers
  <2>6. reply'[r].answer = answer /\ \A q \in Runs \ {r} : reply'[q] = reply[q]
    BY <2>2 DEF TypeOK
  <2>7. \A s : \A q \in Runs : Busy(q, s)' => Busy(q, s)
    BY <2>1 DEF Busy
  <2>8. \A s : Claimable(s)' = Claimable(s) /\ Sent(s)' = Sent(s)
    BY <2>1 DEF Claimable, Sent
  <2>9. Busy(r, t) /\ \A q \in Runs \ {r} : ~Busy(q, t)
    BY <2>1 DEF Busy, PushInv
  <2> HIDE DEF t
  <2>10. \A s \in Slot : Claimable(s)' /\ ~Sent(s)' =>
           delivered'[s] = 0 /\ \A q \in Runs : ~Busy(q, s)'
    BY <2>4, <2>7, <2>8, <2>9 DEF PushInv
  <2>11. \A q \in Runs : pc'[q] = "publish" => delivered'[SlotOf(at[q])] = 0
    <3>1. \A q \in Runs : pc'[q] = "publish" => q # r /\ SlotOf(at[q]) # t /\ SlotOf(at[q]) \in Slot
      BY <2>1, <2>9, SlotType DEF Busy, TypeOK
    <3> QED BY <3>1, <2>1, <2>4 DEF PushInv
  <2>12. \A q \in Runs : pc'[q] = "record" /\ reply'[q].answer \notin {"accepted", "unticketed", "lost"}
           => delivered'[SlotOf(at[q])] = 0
    <3>1. \A q \in Runs \ {r} : pc'[q] = "record" => SlotOf(at[q]) # t /\ SlotOf(at[q]) \in Slot
      BY <2>1, <2>9, SlotType DEF Busy, TypeOK
    <3> QED BY <3>1, <2>1, <2>4, <2>5, <2>6 DEF PushInv, t
  <2>13. \A s \in Slot : delivered'[s] <= 1
    BY <2>4 DEF PushInv
  <2>14. /\ \A q \in Runs : pc'[q] \in Sender
         /\ \A q \in Runs : pc'[q] \in {"claim", "publish", "record", "deactivate"} =>
              at[q] \notin Legacy \/ at[q][1] \in tombstone
         /\ \A p, q \in Runs : p # q /\ pc'[p] \in {"publish", "record"} /\ pc'[q] \in {"publish", "record"}
              => SlotOf(at[p]) # SlotOf(at[q])
    BY <2>1 DEF PushInv, Sender
  <2> QED BY <2>1, <2>8, <2>10, <2>11, <2>12, <2>13, <2>14 DEF PushInv
<1>6. ASSUME Record(r) PROVE PushInv'
  <2>1. pc[r] = "record" /\ Recorded(r) = SentReceipt(draft[r], reply[r])
    BY <1>6, <1>a DEF Record, Recorded, Sender
  <2>2. SentReceipt(draft[r], reply[r]).status \in {"absent", "error"} =>
          reply[r].answer \notin {"accepted", "unticketed", "lost"}
    <3> DEFINE next == [draft[r] EXCEPT !.ticket = reply[r].ticket]
    <3>1. next \in Receipt
      BY DEF TypeOK, Receipt, Reply
    <3> HIDE DEF next
    <3>2. reply[r].answer \in {"accepted", "unticketed", "lost"} =>
            SentReceipt(draft[r], reply[r]) \in {Put(next, "pending", "accepted"),
                                                 Put(next, "pending", "unknown")}
      BY DEF SentReceipt, next
    <3> QED BY <3>1, <3>2, PutFields
  <2>3. pc'[r] \in {"send", "deactivate"} /\ \A q \in Runs \ {r} : pc'[q] = pc[q]
    BY <1>6, <2>1 DEF Record, Loop, Goto, TypeOK
  <2> QED BY <1>6, <2>1, <2>2, <2>3, WriteSlot DEF Record, Write
<1>7. ASSUME WriteFails(r) PROVE PushInv'
  <2>1. pc[r] \in {"record", "deactivate"}
    BY <1>7, <1>a DEF WriteFails, Sender
  <2>2. UnknownReceipt(draft[r]).status = "pending"
    BY DEF UnknownReceipt, Put, Receipt, TypeOK
  <2>3. pc'[r] = "send" /\ \A q \in Runs \ {r} : pc'[q] = pc[q]
    BY <1>7, <2>1 DEF WriteFails, Loop, Goto, TypeOK
  <2>4. receipt' = [receipt EXCEPT ![SlotOf(at[r])] = UnknownReceipt(draft[r])]
    BY <1>7, <2>1 DEF WriteFails, Write
  <2> QED BY <1>7, <2>1, <2>2, <2>3, <2>4, WriteSlot DEF WriteFails
<1>8. ASSUME Deactivate(r) PROVE PushInv'
  BY <1>8, <1>a, LeaveSlot DEF Deactivate, Loop, Goto, Sender, TypeOK
<1>9. ASSUME SendDone(r) \/ Refused(r) \/ Crash(r) PROVE PushInv'
  <2>1. End(r) /\ UNCHANGED <<receipt, tombstone, delivered>>
    BY <1>9, <1>a DEF SendDone, Refused, Crash, stores
  <2> QED BY <2>1, LeaveSlot DEF End, Goto, Sender, TypeOK
<1>10. \/ \E js \in SUBSET (Jobs \ announced) : StartPoll(r, js)
       \/ ReadDevices(r) \/ \E w \in mem[r].work : Evaluate(r, w)
       \/ Claim(r) \/ Publish(r) \/ Record(r) \/ WriteFails(r) \/ Deactivate(r)
       \/ SendDone(r) \/ Refused(r) \/ Crash(r)
  <2>1. ~\E js \in SUBSET marker : StartDrain(r, js)
    BY <1>a DEF StartDrain
  <2>2. ~CheckReady(r) /\ ~Mark(r)
    BY <1>a DEF CheckReady, Mark, Sender
  <2>3. ~Inspecting(r) /\ ~Retrying(r)
    BY <1>a DEF Inspecting, InspectRead, Lookup, Find, Confirm, ConfirmErased, Sender,
                Retrying, RetryDevices, RetryRead, GiveUp, RetryDone, RetryEvaluate
  <2> QED BY <2>1, <2>2, <2>3 DEF Start, Step, Sending, Answering, Fault
<1> QED BY <1>1, <1>2, <1>3, <1>4, <1>5, <1>6, <1>7, <1>8, <1>9, <1>10
\* What users and operators do frees no slot.
LEMMA PushOutside ==
  ASSUME TypeOK, PushInv, Environment \/ UNCHANGED vars PROVE PushInv'
<1>1. UNCHANGED <<pc, at, reply, delivered>> /\ tombstone \subseteq tombstone'
  BY DEF Environment, Register, Unregister, SetAlerts, BeginDeletion, Purge, Requeue, Outside,
         vars, stores
<1>2. \/ receipt' = receipt
      \/ \E u \in tombstone : receipt' = [s \in Slot |-> IF s[1] = u THEN Absent ELSE receipt[s]]
  BY DEF Environment, Register, Unregister, SetAlerts, BeginDeletion, Purge, Deletable, Requeue,
         vars, stores
<1>3. \A s \in Slot : Claimable(s)' => Claimable(s)
  BY <1>1, <1>2 DEF Claimable, TypeOK
<1>4. \A s \in Slot : receipt[s].status = "absent" => receipt'[s].status = "absent"
  BY <1>2 DEF Absent
<1>5. \A q : \A s : Busy(q, s)' = Busy(q, s)
  BY <1>1 DEF Busy
<1>6. \A s : Sent(s)' = Sent(s)
  BY DEF Sent
<1> QED BY <1>1, <1>3, <1>4, <1>5, <1>6 DEF PushInv

\* However many queue deliveries send the same posting, wherever they die and
\* whatever Expo answers or fails to answer, a user's device gets it once.
THEOREM PushedOnce == ASSUME SendersOnly PROVE Spec => []AtMostOnePush
<1>1. Init => PushInv
  <2> SUFFICES ASSUME Init PROVE PushInv
    OBVIOUS
  <2>1. \A s \in Slot : delivered[s] = IF Sent(s) THEN 1 ELSE 0
    BY DEF Init, Sent
  <2>2. \A r \in Runs : pc[r] = "idle"
    BY DEF Init
  <2>3. \A s \in Slot : receipt[s].status = "absent"
    BY DEF Init, Absent
  <2> QED BY <2>1, <2>2, <2>3 DEF PushInv, Sender, Busy
<1>2. TypeOK /\ AttemptsInv /\ PushInv /\ [Next]_vars => PushInv'
  BY PushStep, PushOutside DEF Next
<1>3. PushInv => AtMostOnePush
  BY DEF PushInv, AtMostOnePush
<1>4. TypeOK /\ AttemptsInv /\ [Next]_vars => AttemptsInv'
  BY AttemptsStep, AttemptsOutside DEF Next
<1> QED BY <1>1, <1>2, <1>3, <1>4, AttemptsInit, TypeCorrect, PTL DEF Spec
-----------------------------------------------------------------------------
(* Receipts implement the ledger, when one worker inspects and retries *)

\* At most one run is not a provider's; and no database error follows the answer that
\* a device is gone. Otherwise the late write of "unknown" over the claim of another
\* sender, or of one worker over the other, breaks the ledger.
OneWorker ==
  /\ \A q, r \in Runs : Kind[q] # "provider" /\ Kind[r] # "provider" => q = r
  /\ MaxCrashes = 0 \/ "gone" \notin Replies

\* The receipts there are, and that they name a job of their posting.
Proper(rec) ==
  /\ rec.status = "absent" => rec.deliveryState = "none"
  /\ rec.status = "pending" => /\ rec.deliveryState \in {"claimed", "accepted", "unknown"}
                               /\ rec.deliveryState = "accepted" <=> rec.ticket # "none"
  /\ rec.status = "retryable" => rec.deliveryState = "claimed"
  /\ rec.status = "error" => rec.deliveryState \in {"claimed", "definitive-failure"}
Filed(s, rec) == rec.status # "absent" => DedupeKey[rec.jobId] = s[3]

\* The row of a slot is this copy of it, unless its account is gone.
Is(s, rec) == receipt[s] = rec \/ s[1] \in purged

\* The receipt a sender claims a slot with, and a row on a list read as "status".
Taken(rec, w) ==
  rec.status = "pending" /\ rec.deliveryState = "claimed" /\ rec.ticket = "none" /\ rec.jobId = w[3]
Queued(row, status) ==
  /\ row.rec.status = status /\ row.rec.jobId = row.work[3] /\ Proper(row.rec)
  /\ status = "pending" => row.rec.ticket # "none"
  /\ Is(SlotOf(row.work), row.rec)

InspectPhase == {"lookup", "confirm", "find", "unlink"}

\* What a run at a label holds: copies of receipts that are still what the table has.
RunAt(label, w, rec, rep, rows) ==
  /\ label \in {"claim", "publish", "record"} => Taken(rec, w)
  /\ label \in {"publish", "record", "republish", "rerecord"} => Is(SlotOf(w), rec)
  /\ label \in {"republish", "rerecord"} => rec.status = "retryable" /\ rec.jobId = w[3] /\ Proper(rec)
  /\ label = "giveUp" => /\ rec.status = "error" /\ Proper(rec) /\ rec.jobId = w[3]
                         /\ receipt[SlotOf(w)].status = "retryable" \/ w[1] \in purged
  /\ label \in {"record", "rerecord"} => (rep.answer = "accepted" <=> rep.ticket # "none")
  /\ label \in {"record", "rerecord"} => rep.answer \in Replies
  /\ label \in {"deactivate", "redeactivate"} => rep.answer = "gone" /\ "gone" \in Replies
  /\ label \in InspectPhase => \A row \in rows : Queued(row, "pending")
  /\ label \in RetryPhase => \A row \in rows : Queued(row, "retryable")
  /\ label \in {"republish", "rerecord", "giveUp"} =>
       \A row \in rows : SlotOf(row.work) # SlotOf(w) \/ w[1] \in purged

Held(label) == label \in {"publish", "record"}

\* The inductive invariant: rows are proper, providers only send, copies are current,
\* and two senders never hold one slot.
LedgerInv ==
  /\ \A s \in Slot : Proper(receipt[s]) /\ Filed(s, receipt[s])
  /\ \A r \in Runs : Kind[r] = "provider" => pc[r] \in Sender
  /\ \A r \in Runs : RunAt(pc[r], at[r], draft[r], reply[r], mem[r].list)
  /\ \A q, r \in Runs : q # r /\ Held(pc[q]) /\ Held(pc[r]) =>
       SlotOf(at[q]) # SlotOf(at[r]) \/ at[q][1] \in purged

\* The slots whose row a run at a label relies on.
Relies(label, w, rows, s) ==
  \/ label \in {"publish", "record", "republish", "rerecord", "giveUp"} /\ SlotOf(w) = s
  \/ label \in InspectPhase \cup RetryPhase /\ \E row \in rows : SlotOf(row.work) = s

\* What a run holds is current as long as the rows it relies on are not written.
LEMMA HeldStays ==
  ASSUME NEW label, NEW w \in Work, NEW rec, NEW rep, NEW rows \in SUBSET Row,
         purged \subseteq purged',
         \A s \in Slot : receipt'[s] = receipt[s] \/ s[1] \in purged' \/ ~Relies(label, w, rows, s),
         RunAt(label, w, rec, rep, rows)
  PROVE  RunAt(label, w, rec, rep, rows)'
<1>1. SlotOf(w) \in Slot /\ SlotOf(w)[1] = w[1]
  BY SlotType
<1>2. \A row \in rows : SlotOf(row.work) \in Slot
  BY SlotType DEF Row
<1>3. label \in {"publish", "record", "republish", "rerecord"} => Is(SlotOf(w), rec)'
  BY <1>1 DEF RunAt, Is, Relies
<1>4. label = "giveUp" => (receipt[SlotOf(w)].status = "retryable" \/ w[1] \in purged)'
  BY <1>1 DEF RunAt, Relies
<1>5. ASSUME NEW row \in rows, NEW status, label \in InspectPhase \cup RetryPhase, Queued(row, status)
      PROVE  Queued(row, status)'
  <2>1. Is(SlotOf(row.work), row.rec)'
    BY <1>2, <1>5 DEF Queued, Is, Relies
  <2> QED BY <1>5, <2>1 DEF Queued
<1>6. /\ label \in InspectPhase => \A row \in rows : Queued(row, "pending")'
      /\ label \in RetryPhase => \A row \in rows : Queued(row, "retryable")'
  BY <1>5 DEF RunAt
<1> QED BY <1>3, <1>4, <1>6 DEF RunAt

\* What the row of a slot is that some run relies on.
LEMMA ReliedIs ==
  ASSUME TypeOK, LedgerInv, NEW q \in Runs, NEW s \in Slot, s[1] \notin purged,
         Relies(pc[q], at[q], mem[q].list, s)
  PROVE  \/ /\ Held(pc[q]) /\ SlotOf(at[q]) = s
            /\ receipt[s].status = "pending" /\ receipt[s].deliveryState = "claimed"
         \/ /\ Kind[q] # "provider"
            /\ receipt[s].status = "retryable" \/ receipt[s].deliveryState = "accepted"
<1>0. RunAt(pc[q], at[q], draft[q], reply[q], mem[q].list) /\ at[q] \in Work /\ SlotOf(at[q])[1] = at[q][1]
  BY SlotType DEF LedgerInv, TypeOK
<1>1. CASE pc[q] \in {"publish", "record"} /\ SlotOf(at[q]) = s
  BY <1>0, <1>1 DEF RunAt, Is, Taken, Held
<1>2. CASE pc[q] \in {"republish", "rerecord", "giveUp"} /\ SlotOf(at[q]) = s
  <2>1. Kind[q] # "provider"
    BY <1>2 DEF LedgerInv, Sender
  <2> QED BY <1>0, <1>2, <2>1 DEF RunAt, Is
<1>3. ASSUME pc[q] \in InspectPhase \cup RetryPhase, NEW row \in mem[q].list, SlotOf(row.work) = s
      PROVE  /\ Kind[q] # "provider"
             /\ receipt[s].status = "retryable" \/ receipt[s].deliveryState = "accepted"
  <2>1. Kind[q] # "provider"
    BY <1>3 DEF LedgerInv, Sender, InspectPhase, RetryPhase
  <2>2. Queued(row, "pending") \/ Queued(row, "retryable")
    BY <1>0, <1>3 DEF RunAt
  <2> QED BY <1>3, <2>1, <2>2 DEF Queued, Is, Proper
<1> QED BY <1>1, <1>2, <1>3 DEF Relies

\* A run that writes a slot nobody claimed, or its own, writes no row another relies on.
LEMMA NobodyRelies ==
  ASSUME OneWorker, TypeOK, LedgerInv, NEW r \in Runs, NEW s \in Slot, s[1] \notin purged,
         \/ receipt[s].status \in {"absent", "error"}
         \/ Held(pc[r]) /\ SlotOf(at[r]) = s
         \/ /\ Kind[r] # "provider"
            /\ receipt[s].status = "retryable" \/ receipt[s].deliveryState = "accepted",
         NEW q \in Runs, q # r
  PROVE  ~Relies(pc[q], at[q], mem[q].list, s)
<1> SUFFICES ASSUME Relies(pc[q], at[q], mem[q].list, s) PROVE FALSE
  OBVIOUS
<1>1. \/ /\ Held(pc[q]) /\ SlotOf(at[q]) = s
         /\ receipt[s].status = "pending" /\ receipt[s].deliveryState = "claimed"
      \/ /\ Kind[q] # "provider"
         /\ receipt[s].status = "retryable" \/ receipt[s].deliveryState = "accepted"
  BY ReliedIs
<1>2. Proper(receipt[s])
  BY DEF LedgerInv
<1>3. CASE Held(pc[r]) /\ SlotOf(at[r]) = s
  <2>1. Relies(pc[r], at[r], mem[r].list, s)
    BY <1>3 DEF Held, Relies
  <2>2. receipt[s].status = "pending" /\ receipt[s].deliveryState = "claimed"
    <3>1. at[r] \in Work /\ SlotOf(at[r])[1] = at[r][1] /\ RunAt(pc[r], at[r], draft[r], reply[r], mem[r].list)
      BY SlotType DEF LedgerInv, TypeOK
    <3> QED BY <1>3, <3>1 DEF RunAt, Held, Is, Taken
  <2>3. ~Held(pc[q])
    <3>1. at[q][1] = s[1] \/ SlotOf(at[q]) # s
      BY SlotType DEF TypeOK
    <3> QED BY <1>1, <1>3, <2>2, <3>1 DEF LedgerInv
  <2> QED BY <1>1, <2>2, <2>3
<1>4. CASE receipt[s].status \in {"absent", "error"}
  BY <1>1, <1>2, <1>4 DEF Proper
<1>5. CASE /\ Kind[r] # "provider"
           /\ receipt[s].status = "retryable" \/ receipt[s].deliveryState = "accepted"
  BY <1>1, <1>2, <1>5 DEF Proper, OneWorker
<1> QED BY <1>3, <1>4, <1>5

\* A step of one run keeps the invariant if it writes only such a row and goes where
\* what it holds is current.
LEMMA LedgerStep ==
  ASSUME TypeOK, TypeOK', LedgerInv, NEW r \in Runs, UNCHANGED purged,
         \A q \in Runs \ {r} : /\ pc'[q] = pc[q] /\ at'[q] = at[q] /\ draft'[q] = draft[q]
                               /\ reply'[q] = reply[q] /\ mem'[q] = mem[q],
         \A s \in Slot : \/ receipt'[s] = receipt[s]
                         \/ /\ Proper(receipt'[s]) /\ Filed(s, receipt'[s])
                            /\ \A q \in Runs \ {r} : ~Relies(pc[q], at[q], mem[q].list, s),
         NEW label, NEW w, NEW rec, NEW rep, NEW rows,
         pc'[r] = label, at'[r] = w, draft'[r] = rec, reply'[r] = rep, mem'[r].list = rows,
         Kind[r] = "provider" => label \in Sender,
         RunAt(label, w, rec, rep, rows)',
         Held(label) => \/ Held(pc[r]) /\ w = at[r]
                        \/ \A q \in Runs \ {r} : Held(pc[q]) => SlotOf(at[q]) # SlotOf(w)
  PROVE  LedgerInv'
<1>1. \A s \in Slot : (Proper(receipt[s]) /\ Filed(s, receipt[s]))'
  BY DEF LedgerInv, Filed, Proper
<1>2. \A q \in Runs : Kind[q] = "provider" => pc'[q] \in Sender
  BY DEF LedgerInv
<1>3. ASSUME NEW q \in Runs,
             NEW la, la = pc'[q], NEW wa, wa = at'[q], NEW ra, ra = draft'[q],
             NEW ya, ya = reply'[q], NEW xa, xa = mem'[q].list
      PROVE  RunAt(la, wa, ra, ya, xa)'
  <2>1. CASE q = r
    BY <1>3, <2>1
  <2>2. CASE q # r
    <3>1. wa \in Work /\ xa \in SUBSET Row
      BY <1>3 DEF TypeOK, Mem
    <3>2. RunAt(la, wa, ra, ya, xa)
      BY <1>3, <2>2 DEF LedgerInv
    <3>3. \A s \in Slot : receipt'[s] = receipt[s] \/ ~Relies(la, wa, xa, s)
      BY <1>3, <2>2
    <3> QED BY <3>1, <3>2, <3>3, HeldStays
  <2> QED BY <2>1, <2>2
<1>4. ASSUME NEW p \in Runs, NEW q \in Runs, p # q, Held(pc'[p]), Held(pc'[q])
      PROVE  SlotOf(at'[p]) # SlotOf(at'[q]) \/ at'[p][1] \in purged
  <2>1. \A x \in Runs : SlotOf(at'[x])[1] = at'[x][1]
    BY SlotType DEF TypeOK
  <2>2. CASE p # r /\ q # r
    BY <1>4, <2>2 DEF LedgerInv
  <2>3. CASE p = r
    BY <1>4, <2>3 DEF LedgerInv
  <2>4. CASE q = r
    BY <1>4, <2>1, <2>4 DEF LedgerInv
  <2> QED BY <2>2, <2>3, <2>4
<1>5. \A p, q \in Runs : p # q /\ Held(pc'[p]) /\ Held(pc'[q]) => SlotOf(at'[p]) # SlotOf(at'[q]) \/ at'[p][1] \in purged'
  BY <1>4
<1>6. \A q \in Runs : RunAt(pc[q], at[q], draft[q], reply[q], mem[q].list)'
  BY <1>3 DEF RunAt, Taken, Is, Queued, Proper
<1> QED BY <1>1, <1>2, <1>5, <1>6 DEF LedgerInv, Held

\* A step that writes no receipt: the ledger stutters.
LEMMA QuietStep ==
  ASSUME TypeOK, TypeOK', LedgerInv, NEW r \in Runs, UNCHANGED <<receipt, tombstone, purged>>,
         \A q \in Runs \ {r} : /\ pc'[q] = pc[q] /\ at'[q] = at[q] /\ draft'[q] = draft[q]
                               /\ reply'[q] = reply[q] /\ mem'[q] = mem[q],
         NEW label, NEW w, NEW rec, NEW rep, NEW rows,
         pc'[r] = label, at'[r] = w, draft'[r] = rec, reply'[r] = rep, mem'[r].list = rows,
         Kind[r] = "provider" => label \in Sender,
         RunAt(label, w, rec, rep, rows),
         Held(label) => Held(pc[r]) /\ w = at[r]
  PROVE  LedgerInv' /\ UNCHANGED Ledger!ledger
<1>1. RunAt(label, w, rec, rep, rows)'
  BY DEF RunAt, Is, Queued
<1>2. LedgerInv'
  BY <1>1, LedgerStep
<1>3. UNCHANGED Ledger!ledger
  BY DEF Ledger!ledger
<1> QED BY <1>2, <1>3

\* The states a receipt in the hands of a run is in, and goes to.
LEMMA AnswersProper ==
  ASSUME NEW rec \in Receipt, NEW rep \in Reply, rep.answer = "accepted" <=> rep.ticket # "none",
         NEW next, next \in {SentReceipt(rec, rep), RetriedReceipt(rec, rep)}
  PROVE  /\ Proper(next) /\ next.jobId = rec.jobId /\ next.status # "absent"
         /\ LedgerState(next) \in {"accepted", "retryable", "failed", "unknown"}
<1>1. ASSUME NEW base \in Receipt, base.jobId = rec.jobId, base.ticket = rep.ticket,
             \/ next = Put(base, "pending", "accepted") /\ rep.answer = "accepted"
             \/ next = Put(base, "pending", "unknown") /\ rep.answer # "accepted"
             \/ next = Put(base, "retryable", "claimed")
             \/ next = Put(base, "error", "definitive-failure")
      PROVE  /\ Proper(next) /\ next.jobId = rec.jobId /\ next.status # "absent"
             /\ LedgerState(next) \in {"accepted", "retryable", "failed", "unknown"}
  <2>1. next.jobId = rec.jobId /\ next.ticket = rep.ticket
    BY <1>1 DEF Put, Receipt
  <2>2. \/ next.status = "pending" /\ next.deliveryState = "accepted" /\ rep.answer = "accepted"
        \/ next.status = "pending" /\ next.deliveryState = "unknown" /\ rep.answer # "accepted"
        \/ next.status = "retryable" /\ next.deliveryState = "claimed"
        \/ next.status = "error" /\ next.deliveryState = "definitive-failure"
    BY <1>1, PutFields
  <2> QED BY <2>1, <2>2 DEF Proper, LedgerState
<1>2. CASE next = SentReceipt(rec, rep)
  <2> DEFINE base == [rec EXCEPT !.ticket = rep.ticket]
  <2>1. base \in Receipt /\ base.jobId = rec.jobId /\ base.ticket = rep.ticket
    BY DEF Receipt, Reply
  <2> HIDE DEF base
  <2>2. \/ next = Put(base, "pending", "accepted") /\ rep.answer = "accepted"
        \/ next = Put(base, "pending", "unknown") /\ rep.answer # "accepted"
        \/ next = Put(base, "retryable", "claimed")
        \/ next = Put(base, "error", "definitive-failure")
    BY <1>2 DEF SentReceipt, base
  <2> QED BY <1>1, <2>1, <2>2
<1>3. CASE next = RetriedReceipt(rec, rep)
  <2> DEFINE once == [rec EXCEPT !.attempts = @ + 1]
             base == [rec EXCEPT !.attempts = @ + 1, !.ticket = rep.ticket]
  <2>1. once \in Receipt /\ once.jobId = rec.jobId
    BY DEF Receipt
  <2>2. base = [once EXCEPT !.ticket = rep.ticket]
    OBVIOUS
  <2>3. next \in {Put(base, "pending", "accepted"), Put(base, "pending", "unknown"),
                  Put(base, "retryable", "claimed"), Put(base, "error", "definitive-failure")}
    BY <1>3 DEF RetriedReceipt
  <2>4. /\ next = Put(base, "pending", "accepted") => rep.answer = "accepted"
        /\ rep.answer = "accepted" => next = Put(base, "pending", "accepted")
        /\ rep.answer = "lost" => next = Put(base, "pending", "unknown")
        /\ rep.answer \notin {"accepted", "lost"} =>
             next \in {Put(base, "retryable", "claimed"), Put(base, "error", "definitive-failure")}
    <3>1. /\ rep.answer = "accepted" => next = Put(base, "pending", "accepted")
          /\ rep.answer = "lost" => next = Put(base, "pending", "unknown")
          /\ rep.answer \notin {"accepted", "lost"} =>
               next \in {Put(base, "retryable", "claimed"), Put(base, "error", "definitive-failure")}
      BY <1>3 DEF RetriedReceipt
    <3>2. base \in Receipt
      <4> HIDE DEF once, base
      <4> QED BY <2>1, <2>2 DEF Receipt, Reply
    <3> HIDE DEF base
    <3>3. /\ Put(base, "pending", "accepted").deliveryState = "accepted"
          /\ Put(base, "pending", "unknown").deliveryState = "unknown"
          /\ Put(base, "retryable", "claimed").deliveryState = "claimed"
          /\ Put(base, "error", "definitive-failure").deliveryState = "definitive-failure"
      BY <3>2, PutFields
    <3> QED BY <3>1, <3>3
  <2> HIDE DEF once, base
  <2>5. base \in Receipt /\ base.jobId = rec.jobId /\ base.ticket = rep.ticket
    BY <2>1, <2>2 DEF Receipt, Reply
  <2> QED BY <1>1, <2>3, <2>4, <2>5
<1> QED BY <1>2, <1>3

\* What the catch block writes is unknown.
LEMMA UnknownProper ==
  ASSUME NEW rec \in Receipt, NEW next, next \in {UnknownReceipt(rec), UnknownReceipt([rec EXCEPT !.attempts = @ + 1])}
  PROVE  /\ Proper(next) /\ next.jobId = rec.jobId /\ next.status # "absent"
         /\ LedgerState(next) = "unknown"
<1>1. ASSUME NEW base \in Receipt, base.jobId = rec.jobId, next = UnknownReceipt(base)
      PROVE  /\ Proper(next) /\ next.jobId = rec.jobId /\ next.status # "absent"
             /\ LedgerState(next) = "unknown"
  <2>1. /\ next.status = "pending" /\ next.deliveryState = "unknown" /\ next.ticket = "none"
        /\ next.jobId = rec.jobId
    BY <1>1 DEF UnknownReceipt, Put, Receipt
  <2> QED BY <2>1 DEF Proper, LedgerState
<1>2. [rec EXCEPT !.attempts = @ + 1] \in Receipt /\ [rec EXCEPT !.attempts = @ + 1].jobId = rec.jobId
  BY DEF Receipt
<1> QED BY <1>1, <1>2

\* What an inspection writes over an accepted receipt.
LEMMA ConfirmedProper ==
  ASSUME NEW rec \in Receipt
  PROVE  /\ Proper(Confirmed(rec)) /\ Confirmed(rec).jobId = rec.jobId /\ Confirmed(rec).status # "absent"
         /\ LedgerState(Confirmed(rec)) \in {"delivered", "failed"}
<1>1. \/ Confirmed(rec).status = "ok"
      \/ Confirmed(rec).status = "error" /\ Confirmed(rec).deliveryState = "definitive-failure"
  BY PutFields DEF Confirmed
<1>2. Confirmed(rec).jobId = rec.jobId
  BY DEF Confirmed, Put, Receipt
<1> QED BY <1>1, <1>2 DEF Proper, LedgerState

\* The transitions of the ledger that write one receipt.
Allowed(from, to) ==
  \/ from \in {"none", "failed", "abandoned"} /\ to = "claimed"
  \/ from \in {"claimed", "retryable"} /\ to \in {"accepted", "retryable", "failed", "unknown"}
  \/ from = "retryable" /\ to \in {"abandoned", "failed"}
  \/ from = "accepted" /\ to \in {"delivered", "failed"}
  \/ from = "failed" /\ to = "unknown"

\* One receipt written, along a transition of the ledger.
LEMMA LedgerMove ==
  ASSUME TypeOK, NEW s \in Slot, s[1] \notin tombstone, UNCHANGED tombstone,
         NEW rec, receipt' = [receipt EXCEPT ![s] = rec],
         Allowed(LedgerState(receipt[s]), LedgerState(rec))
  PROVE  Ledger!Next
<1> DEFINE old == [x \in Slot |-> LedgerState(receipt[x])]
           new == [x \in Slot |-> LedgerState(receipt'[x])]
           from == LedgerState(receipt[s])
           to == LedgerState(rec)
<1>1. new = [old EXCEPT ![s] = to]
  <2>1. \A x \in Slot : receipt'[x] = IF x = s THEN rec ELSE receipt[x]
    BY DEF TypeOK
  <2>2. \A x \in Slot : LedgerState(receipt'[x]) = IF x = s THEN to ELSE LedgerState(receipt[x])
    <3>1. ASSUME NEW x \in Slot, x = s PROVE LedgerState(receipt'[x]) = to
      <4>1. receipt'[x] = rec
        BY <2>1, <3>1
      <4> QED BY <4>1
    <3>2. ASSUME NEW x \in Slot, x # s PROVE LedgerState(receipt'[x]) = LedgerState(receipt[x])
      <4>1. receipt'[x] = receipt[x]
        BY <2>1, <3>2
      <4> QED BY <4>1
    <3> QED BY <3>1, <3>2
  <2> QED BY <2>2
<1>2. old[s] = from
  OBVIOUS
<1>3. [x \in Slot |-> LedgerState(receipt[x])]' = new
  OBVIOUS
<1> HIDE DEF old, new, from, to
<1>4. ASSUME NEW froms, NEW tos, from \in froms, to \in tos
      PROVE  Ledger!Move(s, froms, tos)
  <2>1. SlotOwner(s) \notin tombstone /\ old[s] \in froms /\ (\E next \in tos : new = [old EXCEPT ![s] = next])
        /\ UNCHANGED tombstone
    BY <1>1, <1>2, <1>4 DEF SlotOwner
  <2> QED BY <2>1, <1>3 DEF Ledger!Move, old
<1>5. Ledger!Claim(s) \/ Ledger!Answer(s) \/ Ledger!Abandon(s) \/ Ledger!Confirm(s) \/ Ledger!Lose(s)
  <2>1. Allowed(from, to)
    BY DEF from, to
  <2> QED BY <1>4, <2>1 DEF Allowed, Ledger!Claim, Ledger!Answer, Ledger!Abandon, Ledger!Confirm, Ledger!Lose
<1> QED BY <1>5 DEF Ledger!Next

\* Two rows a run holds are of two slots.
LEMMA RowsApart ==
  ASSUME NEW row \in Row, NEW other \in Row, NEW status,
         Queued(row, status), Queued(other, status),
         SlotOf(row.work) = SlotOf(other.work), row.work[1] \notin purged
  PROVE  row = other
<1>1. SlotOf(row.work)[1] = row.work[1] /\ row.work \in Work /\ other.work \in Work
  BY SlotType DEF Row
<1>2. row.rec = other.rec
  BY <1>1 DEF Queued, Is
<1>3. row.work[3] = other.work[3]
  BY <1>2 DEF Queued
<1>4. row.work[1] = other.work[1] /\ row.work[2] = other.work[2]
  BY DEF SlotOf
<1>5. row.work = other.work
  BY <1>1, <1>3, <1>4 DEF Work
<1> QED BY <1>2, <1>5 DEF Row

\* A step that writes the receipt of a slot the run may write: the ledger moves.
LEMMA WriteStep ==
  ASSUME OneWorker, TypeOK, TypeOK', LedgerInv, NEW r \in Runs, UNCHANGED <<tombstone, purged>>,
         \A q \in Runs \ {r} : /\ pc'[q] = pc[q] /\ at'[q] = at[q] /\ draft'[q] = draft[q]
                               /\ reply'[q] = reply[q] /\ mem'[q] = mem[q],
         NEW s \in Slot, s[1] \notin tombstone,
         \/ receipt[s].status \in {"absent", "error"}
         \/ Held(pc[r]) /\ SlotOf(at[r]) = s
         \/ /\ Kind[r] # "provider"
            /\ receipt[s].status = "retryable" \/ receipt[s].deliveryState = "accepted",
         NEW new, receipt' = [receipt EXCEPT ![s] = new],
         Proper(new), DedupeKey[new.jobId] = s[3],
         Allowed(LedgerState(receipt[s]), LedgerState(new)),
         NEW label, NEW w, NEW rec, NEW rep, NEW rows,
         pc'[r] = label, at'[r] = w, draft'[r] = rec, reply'[r] = rep, mem'[r].list = rows,
         Kind[r] = "provider" => label \in Sender,
         RunAt(label, w, rec, rep, rows)',
         Held(label) => SlotOf(w) = s
  PROVE  LedgerInv' /\ Ledger!Next
<1>1. s[1] \notin purged
  BY DEF TypeOK
<1>2. \A q \in Runs \ {r} : ~Relies(pc[q], at[q], mem[q].list, s)
  BY <1>1, NobodyRelies
<1>3. \A x \in Slot : \/ receipt'[x] = receipt[x]
                      \/ /\ Proper(receipt'[x]) /\ Filed(x, receipt'[x])
                         /\ \A q \in Runs \ {r} : ~Relies(pc[q], at[q], mem[q].list, x)
  <2>1. ASSUME NEW x \in Slot, x = s
        PROVE  /\ Proper(receipt'[x]) /\ Filed(x, receipt'[x])
               /\ \A q \in Runs \ {r} : ~Relies(pc[q], at[q], mem[q].list, x)
    <3>1. receipt'[x] = new
      BY <2>1 DEF TypeOK
    <3> QED BY <1>2, <2>1, <3>1 DEF Filed
  <2>2. ASSUME NEW x \in Slot, x # s PROVE receipt'[x] = receipt[x]
    BY <2>2 DEF TypeOK
  <2> QED BY <2>1, <2>2
<1>4. Held(label) => \A q \in Runs \ {r} : Held(pc[q]) => SlotOf(at[q]) # SlotOf(w)
  <2>1. ASSUME NEW q \in Runs \ {r}, Held(pc[q]) PROVE SlotOf(at[q]) # s
    <3>1. ~Relies(pc[q], at[q], mem[q].list, s)
      BY <1>2, <2>1
    <3> QED BY <2>1, <3>1 DEF Held, Relies
  <2> QED BY <2>1
<1>5. LedgerInv'
  BY <1>3, <1>4, LedgerStep
<1>6. Ledger!Next
  <2>1. UNCHANGED tombstone
    OBVIOUS
  <2> QED BY <2>1, LedgerMove, Zenon
<1> QED BY <1>5, <1>6

\* The rows a run still holds stay current when the row of another slot is written.
LEMMA ListStays ==
  ASSUME receipt \in [Slot -> Receipt], UNCHANGED purged,
         NEW rows \in SUBSET Row, NEW status, \A row \in rows : Queued(row, status),
         NEW s, NEW new, receipt' = [receipt EXCEPT ![s] = new],
         \A row \in rows : SlotOf(row.work) # s
  PROVE  \A row \in rows : Queued(row, status)'
<1> SUFFICES ASSUME NEW row \in rows PROVE Queued(row, status)'
  OBVIOUS
<1>1. SlotOf(row.work) \in Slot /\ SlotOf(row.work) # s
  BY SlotType DEF Row
<1>2. receipt'[SlotOf(row.work)] = receipt[SlotOf(row.work)]
  BY <1>1
<1> QED BY <1>2 DEF Queued, Is

\* The sending steps.
LEMMA LedgerSending ==
  ASSUME OneWorker, TypeOK, TypeOK', LedgerInv, NEW r \in Runs, Start(r) \/ Sending(r)
  PROVE  LedgerInv' /\ [Ledger!Next]_(Ledger!ledger)
<1>a. RunAt(pc[r], at[r], draft[r], reply[r], mem[r].list) /\ (Kind[r] = "provider" => pc[r] \in Sender)
  BY DEF LedgerInv
<1>b. at[r] \in Work /\ SlotOf(at[r]) \in Slot /\ SlotOf(at[r])[1] = at[r][1] /\ SlotOf(at[r])[3] = DedupeKey[at[r][3]]
  BY SlotType DEF TypeOK, SlotOf
<1>1. ASSUME NEW js \in SUBSET (Jobs \ announced), StartPoll(r, js) PROVE LedgerInv' /\ UNCHANGED Ledger!ledger
  <2>1. /\ UNCHANGED <<receipt, tombstone, purged>> /\ pc'[r] = "read"
        /\ \A q \in Runs \ {r} : /\ pc'[q] = pc[q] /\ at'[q] = at[q] /\ draft'[q] = draft[q]
                                 /\ reply'[q] = reply[q] /\ mem'[q] = mem[q]
    BY <1>1 DEF StartPoll, Goto, TypeOK
  <2>2. RunAt("read", at'[r], draft'[r], reply'[r], mem'[r].list)
    BY DEF RunAt, InspectPhase, RetryPhase
  <2> QED BY <2>1, <2>2, QuietStep DEF Sender, Held
<1>2. ASSUME NEW js \in SUBSET marker, StartDrain(r, js) PROVE LedgerInv' /\ UNCHANGED Ledger!ledger
  <2>1. /\ UNCHANGED <<receipt, tombstone, purged>> /\ pc'[r] = "ready" /\ Kind[r] # "provider"
        /\ \A q \in Runs \ {r} : /\ pc'[q] = pc[q] /\ at'[q] = at[q] /\ draft'[q] = draft[q]
                                 /\ reply'[q] = reply[q] /\ mem'[q] = mem[q]
    BY <1>2 DEF StartDrain, Goto, TypeOK, stores
  <2>2. RunAt("ready", at'[r], draft'[r], reply'[r], mem'[r].list)
    BY DEF RunAt, InspectPhase, RetryPhase
  <2> QED BY <2>1, <2>2, QuietStep DEF Held
<1>3. ASSUME CheckReady(r) PROVE LedgerInv' /\ UNCHANGED Ledger!ledger
  <2>1. /\ UNCHANGED <<receipt, tombstone, purged>> /\ pc'[r] = "read"
        /\ \A q \in Runs \ {r} : /\ pc'[q] = pc[q] /\ at'[q] = at[q] /\ draft'[q] = draft[q]
                                 /\ reply'[q] = reply[q] /\ mem'[q] = mem[q]
    BY <1>3 DEF CheckReady, Goto, TypeOK, stores
  <2>2. RunAt("read", at'[r], draft'[r], reply'[r], mem'[r].list)
    BY DEF RunAt, InspectPhase, RetryPhase
  <2> QED BY <2>1, <2>2, QuietStep DEF Sender, Held
<1>4. ASSUME ReadDevices(r) PROVE LedgerInv' /\ UNCHANGED Ledger!ledger
  <2>1. /\ UNCHANGED <<receipt, tombstone, purged>> /\ pc'[r] = "send"
        /\ \A q \in Runs \ {r} : /\ pc'[q] = pc[q] /\ at'[q] = at[q] /\ draft'[q] = draft[q]
                                 /\ reply'[q] = reply[q] /\ mem'[q] = mem[q]
    BY <1>4 DEF ReadDevices, Goto, TypeOK, stores
  <2>2. RunAt("send", at'[r], draft'[r], reply'[r], mem'[r].list)
    BY DEF RunAt, InspectPhase, RetryPhase
  <2> QED BY <2>1, <2>2, QuietStep DEF Sender, Held
<1>5. ASSUME NEW w \in mem[r].work, Evaluate(r, w) PROVE LedgerInv' /\ UNCHANGED Ledger!ledger
  <2>1. /\ UNCHANGED <<receipt, tombstone, purged>> /\ pc[r] = "send" /\ pc'[r] \in {"send", "claim"}
        /\ \A q \in Runs \ {r} : /\ pc'[q] = pc[q] /\ at'[q] = at[q] /\ draft'[q] = draft[q]
                                 /\ reply'[q] = reply[q] /\ mem'[q] = mem[q]
    BY <1>5 DEF Evaluate, Goto, TypeOK, stores
  <2>2. pc'[r] = "claim" => Taken(draft'[r], at'[r])
    <3>1. ASSUME pc'[r] = "claim"
          PROVE  /\ at' = [at EXCEPT ![r] = w]
                 /\ draft' = [draft EXCEPT ![r] =
                      [status |-> "pending", deliveryState |-> "claimed", ticket |-> "none",
                       attempts |-> ExistingReceipt(w).attempts + 1, jobId |-> w[3]]]
      BY <1>5, <2>1, <3>1 DEF Evaluate
    <3> QED BY <3>1 DEF Taken, TypeOK
  <2>3. ASSUME NEW label, label = pc'[r] PROVE RunAt(label, at'[r], draft'[r], reply'[r], mem'[r].list)
    BY <2>1, <2>2, <2>3 DEF RunAt, InspectPhase, RetryPhase
  <2> QED BY <2>1, <2>3, QuietStep DEF Sender, Held
<1>6. ASSUME Claim(r) PROVE LedgerInv' /\ [Ledger!Next]_(Ledger!ledger)
  <2> DEFINE s == SlotOf(at[r])
  <2>1. /\ pc[r] = "claim" /\ UNCHANGED <<tombstone, purged, at, draft, reply, mem>>
        /\ \A q \in Runs \ {r} : pc'[q] = pc[q]
    BY <1>6 DEF Claim, Goto, TypeOK
  <2>2. CASE ~Claimable(s)
    <3>1. UNCHANGED receipt /\ pc'[r] = "send"
      BY <1>6, <2>2 DEF Claim, Goto, TypeOK
    <3>2. RunAt("send", at'[r], draft'[r], reply'[r], mem'[r].list)
      BY DEF RunAt, InspectPhase, RetryPhase
    <3> QED BY <2>1, <3>1, <3>2, QuietStep DEF Sender, Held
  <2>3. CASE Claimable(s)
    <3> DEFINE rec == draft[r]
    <3>1. receipt' = [receipt EXCEPT ![s] = rec] /\ pc'[r] = "publish"
      BY <1>6, <2>3 DEF Claim, Goto, TypeOK
    <3>2. Taken(rec, at[r])
      BY <1>a, <2>1 DEF RunAt
    <3>3. Proper(rec) /\ LedgerState(rec) = "claimed" /\ DedupeKey[rec.jobId] = s[3]
      BY <3>2, <1>b DEF Taken, Proper, LedgerState
    <3>4. s[1] \notin tombstone /\ receipt[s].status \in {"absent", "error"}
      BY <2>3 DEF Claimable
    <3>5. LedgerState(receipt[s]) \in {"none", "failed", "abandoned"}
      BY <3>4 DEF LedgerState
    <3>9. Allowed(LedgerState(receipt[s]), LedgerState(rec))
      BY <3>3, <3>5 DEF Allowed
    <3>6. s \in Slot
      BY <1>b
    <3> HIDE DEF rec
    <3>7. ASSUME NEW w, w = at[r], NEW held, held = draft[r], NEW rep, rep = reply[r],
                 NEW rows, rows = mem[r].list
          PROVE  LedgerInv' /\ Ledger!Next
      <4>1. receipt'[SlotOf(w)] = held /\ Taken(held, w)
        BY <3>1, <3>2, <3>6, <3>7 DEF TypeOK, rec
      <4>2. RunAt("publish", w, held, rep, rows)'
        BY <4>1 DEF RunAt, Taken, Is, InspectPhase, RetryPhase
      <4>3. at'[r] = w /\ draft'[r] = held /\ reply'[r] = rep /\ mem'[r].list = rows /\ SlotOf(w) = s
        BY <2>1, <3>7
      <4> HIDE DEF s
      <4> QED BY <2>1, <3>1, <3>3, <3>4, <3>6, <3>9, <4>2, <4>3, WriteStep DEF Sender
    <3> QED BY <3>7
  <2> QED BY <2>2, <2>3
<1>7. ASSUME SendDone(r) PROVE LedgerInv' /\ UNCHANGED Ledger!ledger
  <2>1. /\ UNCHANGED <<receipt, tombstone, purged>> /\ pc'[r] \in {"idle", "mark", "inspect"}
        /\ Kind[r] = "provider" => pc'[r] = "idle"
        /\ \A q \in Runs \ {r} : /\ pc'[q] = pc[q] /\ at'[q] = at[q] /\ draft'[q] = draft[q]
                                 /\ reply'[q] = reply[q] /\ mem'[q] = mem[q]
    BY <1>7 DEF SendDone, End, Goto, TypeOK, stores
  <2>2. ASSUME NEW label, label = pc'[r] PROVE RunAt(label, at'[r], draft'[r], reply'[r], mem'[r].list)
    BY <2>1, <2>2 DEF RunAt, InspectPhase, RetryPhase
  <2> QED BY <2>1, <2>2, QuietStep DEF Sender, Held
<1>8. ASSUME Mark(r) PROVE LedgerInv' /\ UNCHANGED Ledger!ledger
  <2>1. /\ UNCHANGED <<receipt, tombstone, purged>> /\ pc'[r] \in {"mark", "inspect"} /\ pc[r] = "mark"
        /\ \A q \in Runs \ {r} : /\ pc'[q] = pc[q] /\ at'[q] = at[q] /\ draft'[q] = draft[q]
                                 /\ reply'[q] = reply[q] /\ mem'[q] = mem[q]
    BY <1>8 DEF Mark, Goto, TypeOK
  <2>2. ASSUME NEW label, label = pc'[r] PROVE RunAt(label, at'[r], draft'[r], reply'[r], mem'[r].list)
    BY <2>1, <2>2 DEF RunAt, InspectPhase, RetryPhase
  <2>3. Kind[r] # "provider"
    BY <1>a, <2>1 DEF Sender
  <2> QED BY <2>1, <2>2, <2>3, QuietStep DEF Held
<1> QED BY <1>1, <1>2, <1>3, <1>4, <1>5, <1>6, <1>7, <1>8 DEF Start, Sending

\* A run that ends, or is refused, leaves the ledger alone.
LEMMA LedgerEnds ==
  ASSUME TypeOK, TypeOK', LedgerInv, NEW r \in Runs, End(r), UNCHANGED <<receipt, tombstone, purged>>
  PROVE  LedgerInv' /\ UNCHANGED Ledger!ledger
<1>1. /\ pc'[r] = "idle"
      /\ \A q \in Runs \ {r} : /\ pc'[q] = pc[q] /\ at'[q] = at[q] /\ draft'[q] = draft[q]
                               /\ reply'[q] = reply[q] /\ mem'[q] = mem[q]
  BY DEF End, Goto, TypeOK
<1>2. RunAt("idle", at'[r], draft'[r], reply'[r], mem'[r].list)
  BY DEF RunAt, InspectPhase, RetryPhase
<1> QED BY <1>1, <1>2, QuietStep DEF Sender, Held

\* A run that writes a slot it holds, and goes on with the rest of its list.
LEMMA LedgerWrites ==
  ASSUME OneWorker, TypeOK, TypeOK', LedgerInv, NEW r \in Runs, UNCHANGED <<tombstone, purged, at, draft, reply, mem>>,
         pc[r] \in {"record", "rerecord", "giveUp"}, at[r][1] \notin tombstone,
         \A q \in Runs \ {r} : pc'[q] = pc[q],
         NEW new, receipt' = [receipt EXCEPT ![SlotOf(at[r])] = new],
         Proper(new), DedupeKey[new.jobId] = DedupeKey[at[r][3]],
         Allowed(LedgerState(receipt[SlotOf(at[r])]), LedgerState(new)),
         NEW label, pc'[r] = label,
         pc[r] = "record" => label \in {"send", "deactivate"},
         pc[r] # "record" => label \in {"retry", "redeactivate"},
         label \in {"deactivate", "redeactivate"} => reply[r].answer = "gone" /\ "gone" \in Replies
  PROVE  LedgerInv' /\ Ledger!Next
<1> DEFINE s == SlotOf(at[r])
<1>a. RunAt(pc[r], at[r], draft[r], reply[r], mem[r].list) /\ (Kind[r] = "provider" => pc[r] \in Sender)
  BY DEF LedgerInv
<1>b. at[r] \in Work /\ s \in Slot /\ s[1] = at[r][1] /\ s[3] = DedupeKey[at[r][3]] /\ mem[r].list \in SUBSET Row
  BY SlotType DEF TypeOK, SlotOf, Mem
<1>1. Kind[r] = "provider" => label \in Sender
  BY <1>a DEF Sender
<1>2. \/ Held(pc[r])
      \/ Kind[r] # "provider" /\ receipt[s].status = "retryable"
  <2>1. CASE pc[r] = "record"
    BY <2>1 DEF Held
  <2>2. CASE pc[r] # "record"
    <3>1. receipt[s].status = "retryable"
      BY <1>a, <1>b, <2>2 DEF RunAt, Is, TypeOK
    <3>2. Kind[r] # "provider"
      BY <1>a, <2>2 DEF Sender
    <3> QED BY <3>1, <3>2
  <2> QED BY <2>1, <2>2
<1>3. ASSUME NEW w, w = at[r], NEW rec, rec = draft[r], NEW rep, rep = reply[r], NEW rows, rows = mem[r].list
      PROVE  LedgerInv' /\ Ledger!Next
  <2>1. label \in RetryPhase => \A row \in rows : Queued(row, "retryable")'
    <3>1. CASE label \in RetryPhase
      <4>1. pc[r] \in {"rerecord", "giveUp"}
        BY <3>1 DEF RetryPhase
      <4>2. \A row \in rows : Queued(row, "retryable") /\ SlotOf(row.work) # s
        BY <1>a, <1>b, <1>3, <4>1 DEF RunAt, RetryPhase, TypeOK
      <4>3. receipt' = [receipt EXCEPT ![s] = new] /\ purged' = purged /\ receipt \in [Slot -> Receipt]
        BY DEF TypeOK
      <4>4. rows \in SUBSET Row
        BY <1>b, <1>3
      <4> HIDE DEF s
      <4> QED BY <4>2, <4>3, <4>4, ListStays
    <3> QED BY <3>1
  <2>2. RunAt(label, w, rec, rep, rows)'
    BY <1>3, <2>1 DEF RunAt, InspectPhase, RetryPhase
  <2>3. ~Held(label)
    BY DEF Held
  <2>4. at'[r] = w /\ draft'[r] = rec /\ reply'[r] = rep /\ mem'[r].list = rows
    BY <1>3
  <2>5. DedupeKey[new.jobId] = s[3] /\ s[1] \notin tombstone /\ SlotOf(at[r]) = s
    BY <1>b
  <2>6. Allowed(LedgerState(receipt[s]), LedgerState(new)) /\ receipt' = [receipt EXCEPT ![s] = new]
    OBVIOUS
  <2> HIDE DEF s
  <2> QED BY <1>b, <1>1, <1>2, <2>2, <2>3, <2>4, <2>5, <2>6, WriteStep
<1> QED BY <1>3

\* The steps that ask Expo and write what it answers.
LEMMA LedgerAnswering ==
  ASSUME OneWorker, TypeOK, TypeOK', LedgerInv, NEW r \in Runs, Answering(r)
  PROVE  LedgerInv' /\ [Ledger!Next]_(Ledger!ledger)
<1>a. RunAt(pc[r], at[r], draft[r], reply[r], mem[r].list) /\ (Kind[r] = "provider" => pc[r] \in Sender)
  BY DEF LedgerInv
<1>b. /\ at[r] \in Work /\ SlotOf(at[r]) \in Slot /\ SlotOf(at[r])[1] = at[r][1]
      /\ draft[r] \in Receipt /\ reply[r] \in Reply /\ purged \subseteq tombstone
  BY SlotType DEF TypeOK
<1>1. ASSUME Publish(r) PROVE LedgerInv' /\ UNCHANGED Ledger!ledger
  <2>1. /\ UNCHANGED <<receipt, tombstone, purged, at, draft, mem>>
        /\ \/ pc[r] = "publish" /\ pc'[r] = "record"
           \/ pc[r] = "republish" /\ pc'[r] = "rerecord"
        /\ \A q \in Runs \ {r} : pc'[q] = pc[q] /\ reply'[q] = reply[q]
    BY <1>1 DEF Publish, Goto, TypeOK, stores
  <2>2. reply'[r].answer \in Replies /\ (reply'[r].answer = "accepted" <=> reply'[r].ticket # "none")
    BY <1>1 DEF Publish, Answers, TypeOK
  <2>3. ASSUME NEW label, label = pc'[r] PROVE RunAt(label, at'[r], draft'[r], reply'[r], mem'[r].list)
    BY <1>a, <2>1, <2>2, <2>3 DEF RunAt, InspectPhase, RetryPhase
  <2>4. Kind[r] = "provider" => pc'[r] \in Sender
    BY <1>a, <2>1 DEF Sender
  <2> QED BY <2>1, <2>3, <2>4, QuietStep DEF Held
<1>2. ASSUME Record(r) PROVE LedgerInv' /\ Ledger!Next
  <2> DEFINE s == SlotOf(at[r])
  <2>1. /\ pc[r] \in {"record", "rerecord"} /\ at[r][1] \notin tombstone
        /\ receipt' = [receipt EXCEPT ![s] = Recorded(r)]
        /\ UNCHANGED <<tombstone, purged, at, draft, reply, mem>>
        /\ \A q \in Runs \ {r} : pc'[q] = pc[q]
    BY <1>2 DEF Record, Erased, Write, Goto, TypeOK
  <2>2. /\ pc[r] = "record" => pc'[r] \in {"send", "deactivate"}
        /\ pc[r] # "record" => pc'[r] \in {"retry", "redeactivate"}
        /\ pc'[r] \in {"deactivate", "redeactivate"} => reply[r].answer = "gone"
    BY <1>2 DEF Record, Loop, Goto, TypeOK
  <2>3. /\ reply[r].answer = "accepted" <=> reply[r].ticket # "none"
        /\ reply[r].answer \in Replies
    BY <1>a, <2>1 DEF RunAt
  <2>4. receipt[s] = draft[r] /\ draft[r].jobId = at[r][3]
    BY <1>a, <1>b, <2>1 DEF RunAt, Is, Taken
  <2>5. LedgerState(receipt[s]) \in {"claimed", "retryable"}
    BY <1>a, <2>1, <2>4 DEF RunAt, Taken, LedgerState
  <2>6. /\ Proper(Recorded(r)) /\ Recorded(r).jobId = at[r][3]
        /\ LedgerState(Recorded(r)) \in {"accepted", "retryable", "failed", "unknown"}
    BY <1>b, <2>3, <2>4, AnswersProper DEF Recorded
  <2>7. Allowed(LedgerState(receipt[s]), LedgerState(Recorded(r)))
    BY <2>5, <2>6 DEF Allowed
  <2> QED BY <2>1, <2>2, <2>3, <2>6, <2>7, LedgerWrites
<1>3. ASSUME Deactivate(r) PROVE LedgerInv' /\ UNCHANGED Ledger!ledger
  <2>1. /\ UNCHANGED <<receipt, tombstone, purged, at, draft, reply, mem>>
        /\ \/ pc[r] = "deactivate" /\ pc'[r] = "send"
           \/ pc[r] = "redeactivate" /\ pc'[r] = "retry"
           \/ pc[r] = "unlink" /\ pc'[r] = "confirm"
        /\ \A q \in Runs \ {r} : pc'[q] = pc[q]
    BY <1>3 DEF Deactivate, Loop, Goto, TypeOK
  <2>2. ASSUME NEW label, label = pc'[r] PROVE RunAt(label, at'[r], draft'[r], reply'[r], mem'[r].list)
    BY <1>a, <2>1, <2>2 DEF RunAt, InspectPhase, RetryPhase
  <2>3. Kind[r] = "provider" => pc'[r] \in Sender
    BY <1>a, <2>1 DEF Sender
  <2> QED BY <2>1, <2>2, <2>3, QuietStep DEF Held
<1>4. ASSUME Refused(r) PROVE LedgerInv' /\ UNCHANGED Ledger!ledger
  BY <1>4, LedgerEnds DEF Refused, stores
<1> QED BY <1>1, <1>2, <1>3, <1>4 DEF Answering

\* A row read from the table is what the table has.
LEMMA RowsQueued ==
  ASSUME TypeOK, LedgerInv, NEW status \in {"pending", "retryable"}, NEW row \in Rows(status),
         status = "pending" => row.rec.ticket # "none"
  PROVE  Queued(row, status)
<1>1. PICK s \in Slot : receipt[s].status = status /\ row = [work |-> <<s[1], s[2], receipt[s].jobId>>, rec |-> receipt[s]]
  BY DEF Rows
<1>2. receipt[s].jobId \in Jobs /\ Proper(receipt[s]) /\ DedupeKey[receipt[s].jobId] = s[3]
  BY <1>1 DEF LedgerInv, Filed, TypeOK, Receipt
<1>3. SlotOf(row.work) = s
  BY <1>1, <1>2 DEF SlotOf, Slot
<1> QED BY <1>1, <1>2, <1>3 DEF Queued, Is

\* The inspection of Expo's receipts.
LEMMA LedgerInspecting ==
  ASSUME OneWorker, TypeOK, TypeOK', LedgerInv, NEW r \in Runs, Inspecting(r)
  PROVE  LedgerInv' /\ [Ledger!Next]_(Ledger!ledger)
<1>a. RunAt(pc[r], at[r], draft[r], reply[r], mem[r].list) /\ (Kind[r] = "provider" => pc[r] \in Sender)
  BY DEF LedgerInv
<1>b. mem[r].list \in SUBSET Row /\ purged \subseteq tombstone
  BY DEF TypeOK, Mem
<1>1. ASSUME InspectRead(r) PROVE LedgerInv' /\ UNCHANGED Ledger!ledger
  <2>1. /\ UNCHANGED <<receipt, tombstone, purged>> /\ pc[r] = "inspect" /\ pc'[r] = "lookup"
        /\ mem'[r].list = {row \in Rows("pending") : row.rec.ticket # "none"}
        /\ \A q \in Runs \ {r} : /\ pc'[q] = pc[q] /\ at'[q] = at[q] /\ draft'[q] = draft[q]
                                 /\ reply'[q] = reply[q] /\ mem'[q] = mem[q]
    BY <1>1 DEF InspectRead, Goto, TypeOK, stores, Mem
  <2>2. \A row \in mem'[r].list : Queued(row, "pending")
    BY <2>1, RowsQueued
  <2>3. RunAt("lookup", at'[r], draft'[r], reply'[r], mem'[r].list)
    BY <2>2 DEF RunAt, InspectPhase, RetryPhase
  <2>4. Kind[r] # "provider"
    BY <1>a, <2>1 DEF Sender
  <2> QED BY <2>1, <2>3, <2>4, QuietStep DEF Held
<1>2. ASSUME Lookup(r) PROVE LedgerInv' /\ UNCHANGED Ledger!ledger
  <2>1. /\ UNCHANGED <<receipt, tombstone, purged>> /\ pc[r] = "lookup" /\ pc'[r] = "confirm"
        /\ mem'[r].list \subseteq mem[r].list
        /\ \A q \in Runs \ {r} : /\ pc'[q] = pc[q] /\ at'[q] = at[q] /\ draft'[q] = draft[q]
                                 /\ reply'[q] = reply[q] /\ mem'[q] = mem[q]
    BY <1>2 DEF Lookup, Goto, TypeOK, stores, Mem
  <2>2. \A row \in mem[r].list : Queued(row, "pending")
    BY <1>a, <2>1 DEF RunAt, InspectPhase
  <2>3. RunAt("confirm", at'[r], draft'[r], reply'[r], mem'[r].list)
    BY <2>1, <2>2 DEF RunAt, InspectPhase, RetryPhase
  <2>4. Kind[r] # "provider"
    BY <1>a, <2>1 DEF Sender
  <2> QED BY <2>1, <2>3, <2>4, QuietStep DEF Held
<1>3. ASSUME Find(r) PROVE LedgerInv' /\ UNCHANGED Ledger!ledger
  <2>1. /\ UNCHANGED <<receipt, tombstone, purged, at, draft, reply, mem>>
        /\ pc[r] = "find" /\ pc'[r] \in {"unlink", "confirm"}
        /\ \A q \in Runs \ {r} : pc'[q] = pc[q]
    BY <1>3 DEF Find, Goto, TypeOK, stores
  <2>2. ASSUME NEW label, label = pc'[r] PROVE RunAt(label, at'[r], draft'[r], reply'[r], mem'[r].list)
    BY <1>a, <2>1, <2>2 DEF RunAt, InspectPhase, RetryPhase
  <2>3. Kind[r] # "provider"
    BY <1>a, <2>1 DEF Sender
  <2> QED BY <2>1, <2>2, <2>3, QuietStep DEF Held
<1>4. ASSUME NEW row \in mem[r].list, Confirm(r, row) PROVE LedgerInv' /\ Ledger!Next
  <2> DEFINE s == SlotOf(row.work)
             new == Confirmed(row.rec)
  <2>1. /\ pc[r] = "confirm" /\ pc'[r] \in {"find", "confirm"} /\ row.work[1] \notin tombstone
        /\ receipt' = [receipt EXCEPT ![s] = new]
        /\ mem'[r].list = mem[r].list \ {row}
        /\ UNCHANGED <<tombstone, purged>>
        /\ \A q \in Runs \ {r} : /\ pc'[q] = pc[q] /\ at'[q] = at[q] /\ draft'[q] = draft[q]
                                 /\ reply'[q] = reply[q] /\ mem'[q] = mem[q]
    BY <1>4 DEF Confirm, Goto, TypeOK, Mem
  <2>2. /\ row \in Row /\ row.work \in Work /\ s \in Slot /\ s[1] = row.work[1] /\ s[3] = DedupeKey[row.work[3]]
        /\ row.rec \in Receipt
    BY <1>b, SlotType DEF Row, SlotOf
  <2>3. \A x \in mem[r].list : Queued(x, "pending")
    BY <1>a, <2>1 DEF RunAt, InspectPhase
  <2>4. receipt[s] = row.rec /\ row.rec.deliveryState = "accepted" /\ row.rec.status = "pending"
        /\ row.rec.jobId = row.work[3]
    <3>1. Queued(row, "pending")
      BY <2>3
    <3> QED BY <1>b, <2>1, <2>2, <3>1 DEF Queued, Is, Proper
  <2>5. Proper(new) /\ new.jobId = row.work[3] /\ LedgerState(new) \in {"delivered", "failed"}
    BY <2>2, <2>4, ConfirmedProper
  <2>6. Allowed(LedgerState(receipt[s]), LedgerState(new))
    BY <2>4, <2>5 DEF Allowed, LedgerState
  <2>7. \A x \in mem[r].list \ {row} : SlotOf(x.work) # s
    <3>1. row.work[1] \notin purged
      BY <1>b, <2>1
    <3> QED BY <1>b, <2>2, <2>3, <3>1, RowsApart
  <2>8. Kind[r] # "provider"
    BY <1>a, <2>1 DEF Sender
  <2> HIDE DEF s, new
  <2>9. ASSUME NEW label, label = pc'[r], NEW w, w = at'[r], NEW rec, rec = draft'[r], NEW rep, rep = reply'[r],
               NEW rows, rows = mem'[r].list
        PROVE  LedgerInv' /\ Ledger!Next
    <3>1. rows = mem[r].list \ {row}
      BY <2>1, <2>9
    <3>2. /\ rows \in SUBSET Row /\ \A x \in rows : Queued(x, "pending") /\ SlotOf(x.work) # s
          /\ receipt \in [Slot -> Receipt] /\ purged' = purged
      BY <1>b, <2>1, <2>3, <2>7, <3>1 DEF TypeOK
    <3>3. \A x \in rows : Queued(x, "pending")'
      BY <2>1, <3>2, ListStays
    <3>4. RunAt(label, w, rec, rep, rows)'
      BY <2>1, <2>9, <3>3 DEF RunAt, InspectPhase, RetryPhase
    <3>5. ~Held(label)
      BY <2>1, <2>9 DEF Held
    <3>6. DedupeKey[new.jobId] = s[3] /\ s[1] \notin tombstone /\ receipt[s].deliveryState = "accepted"
      BY <2>1, <2>2, <2>4, <2>5
    <3> QED BY <2>1, <2>2, <2>5, <2>6, <2>8, <2>9, <3>4, <3>5, <3>6, WriteStep
  <2> QED BY <2>9
<1>5. ASSUME NEW row \in mem[r].list, ConfirmErased(r, row) PROVE LedgerInv' /\ UNCHANGED Ledger!ledger
  BY <1>5, LedgerEnds DEF ConfirmErased, stores
<1> QED BY <1>1, <1>2, <1>3, <1>4, <1>5 DEF Inspecting

\* The retry of what Expo refused for a moment.
LEMMA LedgerRetrying ==
  ASSUME OneWorker, TypeOK, TypeOK', LedgerInv, NEW r \in Runs, Retrying(r)
  PROVE  LedgerInv' /\ [Ledger!Next]_(Ledger!ledger)
<1>a. RunAt(pc[r], at[r], draft[r], reply[r], mem[r].list) /\ (Kind[r] = "provider" => pc[r] \in Sender)
  BY DEF LedgerInv
<1>b. /\ mem[r].list \in SUBSET Row /\ purged \subseteq tombstone
      /\ at[r] \in Work /\ SlotOf(at[r]) \in Slot /\ SlotOf(at[r])[1] = at[r][1]
  BY SlotType DEF TypeOK, Mem
<1>1. ASSUME RetryDevices(r) PROVE LedgerInv' /\ UNCHANGED Ledger!ledger
  <2>1. /\ UNCHANGED <<receipt, tombstone, purged>> /\ pc[r] = "confirm" /\ pc'[r] = "retryable"
        /\ \A q \in Runs \ {r} : /\ pc'[q] = pc[q] /\ at'[q] = at[q] /\ draft'[q] = draft[q]
                                 /\ reply'[q] = reply[q] /\ mem'[q] = mem[q]
    BY <1>1 DEF RetryDevices, Goto, TypeOK, stores
  <2>2. RunAt("retryable", at'[r], draft'[r], reply'[r], mem'[r].list)
    BY DEF RunAt, InspectPhase, RetryPhase
  <2>3. Kind[r] # "provider"
    BY <1>a, <2>1 DEF Sender
  <2> QED BY <2>1, <2>2, <2>3, QuietStep DEF Held
<1>2. ASSUME RetryRead(r) PROVE LedgerInv' /\ UNCHANGED Ledger!ledger
  <2>1. /\ UNCHANGED <<receipt, tombstone, purged>> /\ pc[r] = "retryable" /\ pc'[r] = "retry"
        /\ mem'[r].list = Rows("retryable")
        /\ \A q \in Runs \ {r} : /\ pc'[q] = pc[q] /\ at'[q] = at[q] /\ draft'[q] = draft[q]
                                 /\ reply'[q] = reply[q] /\ mem'[q] = mem[q]
    BY <1>2 DEF RetryRead, Goto, TypeOK, stores, Mem
  <2>2. \A row \in mem'[r].list : Queued(row, "retryable")
    BY <2>1, RowsQueued
  <2>3. RunAt("retry", at'[r], draft'[r], reply'[r], mem'[r].list)
    BY <2>2 DEF RunAt, InspectPhase, RetryPhase
  <2>4. Kind[r] # "provider"
    BY <1>a, <2>1 DEF Sender
  <2> QED BY <2>1, <2>3, <2>4, QuietStep DEF Held
<1>3. ASSUME NEW row \in mem[r].list, RetryEvaluate(r, row) PROVE LedgerInv' /\ UNCHANGED Ledger!ledger
  <2>1. /\ UNCHANGED <<receipt, tombstone, purged>> /\ pc[r] = "retry" /\ pc'[r] \in {"giveUp", "republish"}
        /\ mem'[r].list = mem[r].list \ {row} /\ at'[r] = row.work
        /\ \A q \in Runs \ {r} : /\ pc'[q] = pc[q] /\ at'[q] = at[q] /\ draft'[q] = draft[q]
                                 /\ reply'[q] = reply[q] /\ mem'[q] = mem[q]
    BY <1>3 DEF RetryEvaluate, Goto, TypeOK, stores, Mem
  <2>2. /\ pc'[r] = "republish" => draft'[r] = row.rec
        /\ pc'[r] = "giveUp" => \E state \in {row.rec.deliveryState, "definitive-failure"} :
                                  draft'[r] = Put(row.rec, "error", state)
    BY <1>3 DEF RetryEvaluate, Goto, TypeOK
  <2>3. \A x \in mem[r].list : Queued(x, "retryable")
    BY <1>a, <2>1 DEF RunAt, RetryPhase
  <2>4. row \in Row /\ row.rec \in Receipt /\ row.work \in Work /\ SlotOf(row.work)[1] = row.work[1]
    BY <1>b, SlotType DEF Row
  <2>5. \A x \in mem'[r].list : Queued(x, "retryable") /\ (SlotOf(x.work) # SlotOf(row.work) \/ row.work[1] \in purged)
    BY <1>b, <2>1, <2>3, <2>4, RowsApart
  <2>6. /\ row.rec.status = "retryable" /\ row.rec.jobId = row.work[3] /\ Proper(row.rec)
        /\ Is(SlotOf(row.work), row.rec)
    BY <2>3 DEF Queued
  <2>7. pc'[r] = "giveUp" =>
          /\ draft'[r].status = "error" /\ Proper(draft'[r]) /\ draft'[r].jobId = row.work[3]
          /\ receipt[SlotOf(row.work)].status = "retryable" \/ row.work[1] \in purged
    <3>1. ASSUME NEW state \in {row.rec.deliveryState, "definitive-failure"}, NEW new, new = Put(row.rec, "error", state)
          PROVE  new.status = "error" /\ Proper(new) /\ new.jobId = row.work[3]
      <4>1. new.status = "error" /\ new.deliveryState = state /\ new.jobId = row.work[3]
        BY <2>4, <2>6, <3>1, PutFields DEF Put, Receipt
      <4>2. row.rec.deliveryState = "claimed"
        BY <2>6 DEF Proper
      <4> QED BY <3>1, <4>1, <4>2 DEF Proper
    <3>2. receipt[SlotOf(row.work)].status = "retryable" \/ row.work[1] \in purged
      BY <2>4, <2>6 DEF Is
    <3> QED BY <2>2, <3>1, <3>2
  <2>8. ASSUME NEW label, label = pc'[r], NEW w, w = at'[r], NEW rec, rec = draft'[r], NEW rows, rows = mem'[r].list
        PROVE  RunAt(label, w, rec, reply'[r], rows)
    BY <2>1, <2>2, <2>5, <2>6, <2>7, <2>8 DEF RunAt, InspectPhase, RetryPhase
  <2>9. Kind[r] # "provider"
    BY <1>a, <2>1 DEF Sender
  <2> QED BY <2>1, <2>8, <2>9, QuietStep DEF Held
<1>4. ASSUME GiveUp(r) PROVE LedgerInv' /\ Ledger!Next
  <2> DEFINE s == SlotOf(at[r])
  <2>1. /\ pc[r] = "giveUp" /\ pc'[r] = "retry" /\ at[r][1] \notin tombstone
        /\ receipt' = [receipt EXCEPT ![s] = draft[r]]
        /\ UNCHANGED <<tombstone, purged, at, draft, reply, mem>>
        /\ \A q \in Runs \ {r} : pc'[q] = pc[q]
    BY <1>4 DEF GiveUp, Erased, Write, Goto, TypeOK
  <2>2. /\ draft[r].status = "error" /\ Proper(draft[r]) /\ draft[r].jobId = at[r][3]
        /\ receipt[s].status = "retryable"
    BY <1>a, <1>b, <2>1 DEF RunAt
  <2>3. Allowed(LedgerState(receipt[s]), LedgerState(draft[r]))
    BY <2>2 DEF Allowed, LedgerState, Proper
  <2> QED BY <2>1, <2>2, <2>3, LedgerWrites
<1>5. ASSUME RetryDone(r) PROVE LedgerInv' /\ UNCHANGED Ledger!ledger
  BY <1>5, LedgerEnds DEF RetryDone, stores
<1> QED BY <1>1, <1>2, <1>3, <1>4, <1>5 DEF Retrying

\* Crashes and failed database writes.
LEMMA LedgerFaults ==
  ASSUME OneWorker, TypeOK, TypeOK', LedgerInv, NEW r \in Runs, Fault(r)
  PROVE  LedgerInv' /\ [Ledger!Next]_(Ledger!ledger)
<1>a. RunAt(pc[r], at[r], draft[r], reply[r], mem[r].list)
  BY DEF LedgerInv
<1>b. /\ at[r] \in Work /\ SlotOf(at[r]) \in Slot /\ SlotOf(at[r])[1] = at[r][1]
      /\ draft[r] \in Receipt /\ purged \subseteq tombstone
  BY SlotType DEF TypeOK
<1>1. ASSUME WriteFails(r) PROVE LedgerInv' /\ Ledger!Next
  <2> DEFINE s == SlotOf(at[r])
             new == UnknownReceipt(IF pc[r] \in {"record", "deactivate"} THEN draft[r]
                                   ELSE [draft[r] EXCEPT !.attempts = @ + 1])
  <2>1. pc[r] \notin {"deactivate", "redeactivate"}
    <3>1. MaxCrashes # 0
      BY <1>1, ConstantAssumption DEF WriteFails, ConstantAssumption, TypeOK
    <3>2. "gone" \notin Replies
      BY <3>1 DEF OneWorker
    <3> QED BY <1>a, <3>2 DEF RunAt
  <2>2. /\ pc[r] \in {"record", "rerecord"} /\ at[r][1] \notin tombstone
        /\ receipt' = [receipt EXCEPT ![s] = new]
        /\ UNCHANGED <<tombstone, purged, at, draft, reply, mem>>
        /\ \A q \in Runs \ {r} : pc'[q] = pc[q]
    BY <1>1, <2>1 DEF WriteFails, Erased, Write, Goto, TypeOK
  <2>3. /\ pc[r] = "record" => pc'[r] = "send"
        /\ pc[r] # "record" => pc'[r] = "retry"
    BY <1>1, <2>2 DEF WriteFails, Loop, Goto, TypeOK
  <2>4. receipt[s] = draft[r] /\ draft[r].jobId = at[r][3]
    BY <1>a, <1>b, <2>2 DEF RunAt, Is, Taken
  <2>5. LedgerState(receipt[s]) \in {"claimed", "retryable"}
    BY <1>a, <2>2, <2>4 DEF RunAt, Taken, LedgerState
  <2>6. Proper(new) /\ new.jobId = at[r][3] /\ LedgerState(new) = "unknown"
    BY <1>b, <2>4, UnknownProper
  <2> HIDE DEF new
  <2>7. Allowed(LedgerState(receipt[s]), LedgerState(new))
    BY <2>5, <2>6 DEF Allowed
  <2> QED BY <2>2, <2>3, <2>6, <2>7, LedgerWrites
<1>2. ASSUME Crash(r) PROVE LedgerInv' /\ UNCHANGED Ledger!ledger
  BY <1>2, LedgerEnds DEF Crash, stores
<1> QED BY <1>1, <1>2 DEF Fault

\* What users and operators do closes accounts and erases their receipts.
LEMMA LedgerOutside ==
  ASSUME TypeOK, LedgerInv, Environment \/ UNCHANGED vars
  PROVE  LedgerInv' /\ [Ledger!Next]_(Ledger!ledger)
<1>1. UNCHANGED <<pc, at, draft, reply, mem>>
  BY DEF Environment, Register, Unregister, SetAlerts, BeginDeletion, Purge, Requeue, Outside, vars
<1>2. CASE UNCHANGED <<receipt, purged>>
  <2>1. LedgerInv'
    BY <1>1, <1>2 DEF LedgerInv, RunAt, Queued, Is, Filed
  <2>2. \/ UNCHANGED tombstone
        \/ \E u \in Users : tombstone' = tombstone \cup {u}
    BY DEF Environment, Register, Unregister, SetAlerts, BeginDeletion, Purge, Requeue, Outside, vars, stores
  <2>3. CASE UNCHANGED tombstone
    BY <1>2, <2>1, <2>3 DEF Ledger!ledger
  <2>4. ASSUME NEW u \in Users, tombstone' = tombstone \cup {u} PROVE Ledger!Next
    BY <1>2, <2>4 DEF Ledger!Next, Ledger!Close
  <2> QED BY <2>1, <2>2, <2>3, <2>4
<1>3. CASE ~UNCHANGED <<receipt, purged>>
  <2>1. PICK u \in Users : Purge(u)
    BY <1>3 DEF Environment, Register, Unregister, SetAlerts, BeginDeletion, Requeue, Outside, vars, stores
  <2>2. /\ u \in tombstone /\ purged' = purged \cup {u} /\ UNCHANGED tombstone
        /\ receipt' = [s \in Slot |-> IF s[1] = u THEN Absent ELSE receipt[s]]
    BY <2>1 DEF Purge, Deletable
  <2>3. \A s \in Slot : (Proper(receipt[s]) /\ Filed(s, receipt[s]))'
    BY <2>2 DEF LedgerInv, Proper, Filed, Absent
  <2>4. ASSUME NEW r \in Runs,
               NEW label, label = pc[r], NEW w, w = at[r], NEW rec, rec = draft[r],
               NEW rep, rep = reply[r], NEW rows, rows = mem[r].list
        PROVE  RunAt(label, w, rec, rep, rows)'
    <3>1. w \in Work /\ rows \in SUBSET Row /\ RunAt(label, w, rec, rep, rows)
      BY <2>4 DEF TypeOK, Mem, LedgerInv
    <3>2. purged \subseteq purged' /\ \A s \in Slot : receipt'[s] = receipt[s] \/ s[1] \in purged'
      BY <2>2
    <3> QED BY <3>1, <3>2, HeldStays
  <2>5. \A r \in Runs : RunAt(pc[r], at[r], draft[r], reply[r], mem[r].list)'
    BY <1>1, <2>4 DEF RunAt, Taken, Is, Queued, Proper
  <2>6. LedgerInv'
    BY <1>1, <2>2, <2>3, <2>5 DEF LedgerInv, Held
  <2>7. Ledger!Erase(u)
    <3> DEFINE old == [s \in Slot |-> LedgerState(receipt[s])]
               new == [s \in Slot |-> LedgerState(receipt'[s])]
    <3>1. ASSUME NEW s \in Slot
          PROVE  LedgerState(receipt'[s]) = IF s[1] = u THEN "none" ELSE LedgerState(receipt[s])
      <4>1. CASE s[1] = u
        <5>1. receipt'[s] = Absent
          BY <2>2, <4>1
        <5> QED BY <4>1, <5>1 DEF LedgerState, Absent
      <4>2. CASE s[1] # u
        <5>1. receipt'[s] = receipt[s]
          BY <2>2, <4>2
        <5> QED BY <4>2, <5>1
      <4> QED BY <4>1, <4>2
    <3>2. new = [s \in Slot |-> IF SlotOwner(s) = u THEN "none" ELSE old[s]]
      BY <3>1 DEF SlotOwner
    <3> QED BY <2>2, <3>2 DEF Ledger!Erase
  <2> QED BY <2>6, <2>7 DEF Ledger!Next
<1> QED BY <1>2, <1>3

\* The ledger is empty at first.
LEMMA LedgerInit == Init => LedgerInv /\ Ledger!Init
<1> SUFFICES ASSUME Init PROVE LedgerInv /\ Ledger!Init
  OBVIOUS
<1>1. \A s \in Slot : receipt[s] = Absent
  BY DEF Init
<1>2. Proper(Absent) /\ Absent.status = "absent" /\ LedgerState(Absent) = "none"
  BY DEF Proper, Absent, LedgerState
<1>3. \A r \in Runs : pc[r] = "idle"
  BY DEF Init
<1>4. LedgerInv
  BY <1>1, <1>2, <1>3 DEF LedgerInv, Filed, RunAt, Held, Sender, InspectPhase, RetryPhase
<1>5. Ledger!Init
  BY <1>1, <1>2 DEF Ledger!Init, Init
<1> QED BY <1>4, <1>5

\* With any number of providers' senders and one worker that also inspects and retries,
\* every receipt goes only along the transitions of the ledger: what was delivered or is
\* unknown stays so, and a receipt vanishes only with its account.
THEOREM LedgerImplemented == ASSUME OneWorker PROVE Spec => LedgerSpec
<1>1. ASSUME TypeOK, TypeOK', LedgerInv, [Next]_vars PROVE LedgerInv' /\ [Ledger!Next]_(Ledger!ledger)
  <2>1. ASSUME NEW r \in Runs, Start(r) \/ Step(r) \/ Fault(r) PROVE LedgerInv' /\ [Ledger!Next]_(Ledger!ledger)
    BY <1>1, <2>1, LedgerSending, LedgerAnswering, LedgerInspecting, LedgerRetrying, LedgerFaults DEF Step
  <2> QED BY <1>1, <2>1, LedgerOutside DEF Next
<1>2. TypeOK /\ TypeOK' /\ LedgerInv /\ [Next]_vars => LedgerInv' /\ [Ledger!Next]_(Ledger!ledger)
  BY <1>1
<1>3. LedgerSpec <=> Ledger!Init /\ [][Ledger!Next]_(Ledger!ledger)
  BY DEF LedgerSpec, Ledger!Spec
<1> QED BY <1>2, <1>3, LedgerInit, TypeCorrect, PTL DEF Spec

\* A run goes on to publish by claiming the slot, or by taking a row off its list.
LEMMA GoesToPublish ==
  ASSUME TypeOK, [Next]_vars, NEW r \in Runs, pc'[r] \in {"publish", "republish"}, pc[r] # pc'[r]
  PROVE  \/ /\ pc[r] = "claim" /\ at'[r] = at[r]
            /\ receipt[SlotOf(at[r])].status \in {"absent", "error"}
         \/ pc[r] = "retry" /\ \E row \in mem[r].list : at'[r] = row.work
<1>1. PICK q \in Runs : Start(q) \/ Step(q) \/ Fault(q)
  BY DEF Next, Environment, Register, Unregister, SetAlerts, BeginDeletion, Purge, Requeue, Outside, vars
<1> DEFINE Goal == \/ /\ pc[r] = "claim" /\ at'[r] = at[r]
                      /\ receipt[SlotOf(at[r])].status \in {"absent", "error"}
                   \/ pc[r] = "retry" /\ \E row \in mem[r].list : at'[r] = row.work
<1>2. pc \in [Runs -> PC] /\ at \in [Runs -> Work]
  BY DEF TypeOK
<1>3. ASSUME NEW label, Goto(q, label), label \notin {"publish", "republish"} PROVE Goal
  BY <1>2, <1>3 DEF Goto
<1>4. CASE Start(q)
  BY <1>3, <1>4 DEF Start, StartPoll, StartDrain
<1>5. CASE Sending(q)
  <2>1. ASSUME Claim(q) PROVE Goal
    BY <1>2, <2>1 DEF Claim, Claimable, Goto
  <2>2. ASSUME NEW w \in mem[q].work, Evaluate(q, w) PROVE Goal
    <3>1. UNCHANGED pc \/ Goto(q, "claim")
      BY <2>2 DEF Evaluate
    <3> QED BY <1>3, <3>1
  <2>3. ASSUME CheckReady(q) \/ ReadDevices(q) PROVE Goal
    BY <1>3, <2>3 DEF CheckReady, ReadDevices
  <2>4. ASSUME SendDone(q) PROVE Goal
    BY <1>3, <2>4 DEF SendDone, End
  <2>5. ASSUME Mark(q) PROVE Goal
    BY <1>3, <2>5 DEF Mark
  <2> QED BY <1>5, <2>1, <2>2, <2>3, <2>4, <2>5 DEF Sending
<1>6. CASE Answering(q)
  BY <1>3, <1>6 DEF Answering, Publish, Record, Deactivate, Refused, Loop, End
<1>7. CASE Inspecting(q)
  <2>1. ASSUME NEW row \in mem[q].list, Confirm(q, row) \/ ConfirmErased(q, row) PROVE Goal
    BY <1>3, <2>1 DEF Confirm, ConfirmErased, End
  <2> QED BY <1>3, <1>7, <2>1 DEF Inspecting, InspectRead, Lookup, Find
<1>8. CASE Retrying(q)
  <2>1. ASSUME NEW row \in mem[q].list, RetryEvaluate(q, row) PROVE Goal
    <3>1. pc[q] = "retry" /\ at' = [at EXCEPT ![q] = row.work] /\ (Goto(q, "giveUp") \/ Goto(q, "republish"))
      BY <2>1 DEF RetryEvaluate
    <3> QED BY <1>2, <1>3, <2>1, <3>1 DEF Goto
  <2> QED BY <1>3, <1>8, <2>1 DEF Retrying, RetryDevices, RetryRead, GiveUp, RetryDone, End
<1>9. CASE Fault(q)
  BY <1>3, <1>9 DEF Fault, WriteFails, Crash, Loop, End
<1> QED BY <1>1, <1>4, <1>5, <1>6, <1>7, <1>8, <1>9 DEF Step

\* With one worker, a slot whose outcome is unknown is never sent again, by any run.
THEOREM UnknownStays == ASSUME OneWorker PROVE Spec => UnknownNotResent
<1>1. ASSUME TypeOK, NoRowsAfterPurge, LedgerInv, [Next]_vars, NEW r \in Runs,
             pc'[r] \in {"publish", "republish"}, pc[r] # pc'[r]
      PROVE  receipt[SlotOf(at'[r])].deliveryState # "unknown"
  <2>1. CASE /\ pc[r] = "claim" /\ at'[r] = at[r]
             /\ receipt[SlotOf(at[r])].status \in {"absent", "error"}
    <3>1. Proper(receipt[SlotOf(at[r])])
      BY <1>1, SlotType DEF LedgerInv, TypeOK
    <3> QED BY <2>1, <3>1 DEF Proper
  <2>2. ASSUME pc[r] = "retry", NEW row \in mem[r].list, at'[r] = row.work
        PROVE  receipt[SlotOf(at'[r])].deliveryState # "unknown"
    <3>1. row.work \in Work /\ SlotOf(row.work) \in Slot /\ SlotOf(row.work)[1] = row.work[1]
      BY <1>1, SlotType DEF TypeOK, Mem, Row
    <3>2. Proper(receipt[SlotOf(row.work)]) /\ RunAt(pc[r], at[r], draft[r], reply[r], mem[r].list)
      BY <1>1, <3>1 DEF LedgerInv
    <3>3. Queued(row, "retryable")
      BY <2>2, <3>2 DEF RunAt, RetryPhase
    <3>4. CASE row.work[1] \in purged
      <4>1. receipt[SlotOf(row.work)].status = "absent"
        BY <1>1, <3>1, <3>4 DEF NoRowsAfterPurge, TypeOK
      <4> QED BY <2>2, <3>2, <4>1 DEF Proper
    <3>5. CASE row.work[1] \notin purged
      BY <2>2, <3>1, <3>3, <3>5 DEF Queued, Is, Proper
    <3> QED BY <3>4, <3>5
  <2> QED BY <1>1, <2>1, <2>2, GoesToPublish
<1>2. TypeOK /\ NoRowsAfterPurge /\ LedgerInv /\ [Next]_vars =>
        [\A r \in Runs : pc'[r] \in {"publish", "republish"} /\ pc[r] # pc'[r] =>
           receipt[SlotOf(at'[r])].deliveryState # "unknown"]_vars
  BY <1>1
<1>3. TypeOK /\ TypeOK' /\ LedgerInv /\ [Next]_vars => LedgerInv'
  <2>1. ASSUME TypeOK, TypeOK', LedgerInv, NEW r \in Runs, Start(r) \/ Step(r) \/ Fault(r) PROVE LedgerInv'
    BY <2>1, LedgerSending, LedgerAnswering, LedgerInspecting, LedgerRetrying, LedgerFaults DEF Step
  <2> QED BY <2>1, LedgerOutside DEF Next
<1> QED BY <1>2, <1>3, LedgerInit, TypeCorrect, PurgedForGood, PTL DEF Spec, UnknownNotResent

-----------------------------------------------------------------------------
(* The same when nothing retries, whatever fails *)

\* A receipt that a sender may claim is not one whose outcome is unknown.
ClaimableInv ==
  /\ \A r \in Runs : pc[r] \in Sender
  /\ \A s \in Slot : receipt[s].status \in {"absent", "error"} => receipt[s].deliveryState # "unknown"

LEMMA ClaimableStep ==
  ASSUME \A r \in Runs : Kind[r] = "provider", TypeOK, AttemptsInv, ClaimableInv,
         NEW r \in Runs, Start(r) \/ Step(r) \/ Fault(r)
  PROVE  ClaimableInv'
<1>a. Kind[r] = "provider" /\ pc[r] \in Sender
  BY DEF ClaimableInv
<1>b. at[r] \in Work /\ SlotOf(at[r]) \in Slot /\ draft[r] \in Receipt /\ reply[r] \in Reply
  BY SlotType DEF TypeOK
<1>1. ASSUME UNCHANGED receipt, NEW label \in Sender, Goto(r, label) PROVE ClaimableInv'
  BY <1>1 DEF ClaimableInv, Goto, TypeOK
<1>2. ASSUME NEW rec, receipt' = [receipt EXCEPT ![SlotOf(at[r])] = rec],
             rec.status \in {"absent", "error"} => rec.deliveryState # "unknown",
             NEW label \in Sender, Goto(r, label)
      PROVE  ClaimableInv'
  <2>1. \A s \in Slot : receipt'[s] = rec \/ receipt'[s] = receipt[s]
    BY <1>2 DEF TypeOK
  <2> QED BY <1>2, <2>1 DEF ClaimableInv, Goto, TypeOK
<1>3. ASSUME NEW js \in SUBSET (Jobs \ announced), StartPoll(r, js) PROVE ClaimableInv'
  BY <1>1, <1>3 DEF StartPoll, Sender
<1>4. ASSUME ReadDevices(r) PROVE ClaimableInv'
  BY <1>1, <1>4 DEF ReadDevices, Sender, stores
<1>5. ASSUME NEW w \in mem[r].work, Evaluate(r, w) PROVE ClaimableInv'
  <2>1. UNCHANGED receipt /\ (UNCHANGED pc \/ Goto(r, "claim"))
    BY <1>5 DEF Evaluate, stores
  <2> QED BY <1>1, <2>1 DEF Sender, ClaimableInv
<1>6. ASSUME Claim(r) PROVE ClaimableInv'
  <2>1. draft[r].status = "pending"
    BY <1>6 DEF Claim, AttemptsInv
  <2> QED BY <1>1, <1>2, <1>6, <2>1 DEF Claim, Sender
<1>7. ASSUME Publish(r) PROVE ClaimableInv'
  BY <1>1, <1>7, <1>a DEF Publish, Sender, stores
<1>8. ASSUME Record(r) PROVE ClaimableInv'
  <2>1. pc[r] = "record" /\ Recorded(r) = SentReceipt(draft[r], reply[r])
    BY <1>8, <1>a DEF Record, Recorded, Sender
  <2>2. Recorded(r).status \in {"absent", "error"} => Recorded(r).deliveryState # "unknown"
    <3> DEFINE next == [draft[r] EXCEPT !.ticket = reply[r].ticket]
    <3>1. next \in Receipt
      BY <1>b DEF Receipt, Reply
    <3> HIDE DEF next
    <3>2. SentReceipt(draft[r], reply[r]) \in
            {Put(next, "pending", "accepted"), Put(next, "pending", "unknown"),
             Put(next, "retryable", "claimed"), Put(next, "error", "definitive-failure")}
      BY DEF SentReceipt, next
    <3> QED BY <2>1, <3>1, <3>2, PutFields
  <2>3. \E label \in {"send", "deactivate"} : Goto(r, label)
    BY <1>8, <2>1 DEF Record, Loop
  <2> QED BY <1>2, <1>8, <2>2, <2>3 DEF Record, Write, Sender
<1>9. ASSUME WriteFails(r) PROVE ClaimableInv'
  <2>1. pc[r] \in {"record", "deactivate"}
    BY <1>9, <1>a DEF WriteFails, Sender
  <2>2. UnknownReceipt(draft[r]).status = "pending"
    BY <1>b DEF UnknownReceipt, Put, Receipt
  <2> QED BY <1>2, <1>9, <2>1, <2>2 DEF WriteFails, Write, Loop, Sender
<1>10. ASSUME Deactivate(r) PROVE ClaimableInv'
  BY <1>1, <1>10, <1>a DEF Deactivate, Loop, Sender
<1>11. ASSUME SendDone(r) \/ Refused(r) \/ Crash(r) PROVE ClaimableInv'
  <2>1. End(r) /\ UNCHANGED receipt
    BY <1>11, <1>a DEF SendDone, Refused, Crash, stores
  <2> QED BY <1>1, <2>1 DEF End, Sender
<1>12. \/ \E js \in SUBSET (Jobs \ announced) : StartPoll(r, js)
       \/ ReadDevices(r) \/ \E w \in mem[r].work : Evaluate(r, w)
       \/ Claim(r) \/ Publish(r) \/ Record(r) \/ WriteFails(r) \/ Deactivate(r)
       \/ SendDone(r) \/ Refused(r) \/ Crash(r)
  <2>1. ~\E js \in SUBSET marker : StartDrain(r, js)
    BY <1>a DEF StartDrain
  <2>2. ~CheckReady(r) /\ ~Mark(r)
    BY <1>a DEF CheckReady, Mark, Sender
  <2>3. ~Inspecting(r) /\ ~Retrying(r)
    BY <1>a DEF Inspecting, InspectRead, Lookup, Find, Confirm, ConfirmErased, Sender,
                Retrying, RetryDevices, RetryRead, GiveUp, RetryDone, RetryEvaluate
  <2> QED BY <2>1, <2>2, <2>3 DEF Start, Step, Sending, Answering, Fault
<1> QED BY <1>3, <1>4, <1>5, <1>6, <1>7, <1>8, <1>9, <1>10, <1>11, <1>12

\* However many queue deliveries run and whatever fails under them, a slot whose
\* outcome is unknown is not claimed again.
THEOREM UnknownNotClaimed ==
  ASSUME \A r \in Runs : Kind[r] = "provider" PROVE Spec => UnknownNotResent
<1>1. Init => ClaimableInv
  BY DEF Init, ClaimableInv, Sender, Absent
<1>2. ASSUME TypeOK, ClaimableInv, Environment \/ UNCHANGED vars PROVE ClaimableInv'
  <2>1. UNCHANGED pc
    BY <1>2 DEF Environment, Register, Unregister, SetAlerts, BeginDeletion, Purge, Requeue, Outside, vars
  <2>2. receipt' = receipt \/ \E u \in Users : receipt' = [s \in Slot |-> IF s[1] = u THEN Absent ELSE receipt[s]]
    BY <1>2 DEF Environment, Register, Unregister, SetAlerts, BeginDeletion, Purge, Requeue, vars, stores
  <2>3. \A s \in Slot : receipt'[s] = Absent \/ receipt'[s] = receipt[s]
    BY <2>2
  <2> QED BY <1>2, <2>1, <2>3 DEF ClaimableInv, Absent
<1>3. TypeOK /\ AttemptsInv /\ ClaimableInv /\ [Next]_vars => ClaimableInv'
  BY <1>2, ClaimableStep DEF Next
<1>4. TypeOK /\ ClaimableInv /\ [Next]_vars =>
        [\A r \in Runs : pc'[r] \in {"publish", "republish"} /\ pc[r] # pc'[r] =>
           receipt[SlotOf(at'[r])].deliveryState # "unknown"]_vars
  <2>1. ASSUME TypeOK, ClaimableInv, [Next]_vars, NEW r \in Runs,
               pc'[r] \in {"publish", "republish"}, pc[r] # pc'[r]
        PROVE  receipt[SlotOf(at'[r])].deliveryState # "unknown"
    <3>1. pc[r] # "retry" /\ SlotOf(at[r]) \in Slot
      BY <2>1, SlotType DEF ClaimableInv, Sender, TypeOK
    <3> QED BY <2>1, <3>1, GoesToPublish DEF ClaimableInv
  <2> QED BY <2>1
<1>5. TypeOK /\ AttemptsInv /\ [Next]_vars => AttemptsInv'
  BY AttemptsStep, AttemptsOutside DEF Next
<1> QED BY <1>1, <1>3, <1>4, <1>5, AttemptsInit, TypeCorrect, PTL DEF Spec, UnknownNotResent
=============================================================================
