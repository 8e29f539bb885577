--------------------- MODULE CatalogProjection_proofs ---------------------
(***************************************************************************)
(* The projection for any number of groups, refreshes and versions. The      *)
(* invariant says of a refresh that is still writing that nobody else knows  *)
(* its version, and of one that is about to delete that the pointer has left *)
(* what it deletes. What a client that pages gets has a closed form: every   *)
(* answer is right if those at later offsets are, hence all are.             *)
(***************************************************************************)
EXTENDS CatalogProjection, TLAPS, FiniteSetTheorems, SequenceTheorems

Prefix(groups, n) == {g \in groups : Position(g, groups) <= n}

Chunk(groups, n) == {g \in groups : Position(g, groups) \in (n + 1)..(n + Batch)}

Holding(r) == refresh[r].pc \in {"write", "delete"}

WriterOK(r) == refresh[r].pc = "write" =>
  /\ rows[refresh[r].version] = Prefix(planned[refresh[r].version], refresh[r].at)
  /\ refresh[r].version # pointer
  /\ reader # Idle => reader.version # refresh[r].version
  /\ \A q \in Refreshes : Holding(q) =>
       /\ refresh[q].previous # refresh[r].version
       /\ q # r => refresh[q].version # refresh[r].version

DeleterOK(r) == refresh[r].pc = "delete" => refresh[r].previous # pointer

IInv ==
  /\ TypeOK /\ CurrentIsWhole /\ NoTornPage
  /\ \A r \in Refreshes : WriterOK(r) /\ DeleterOK(r)

-----------------------------------------------------------------------------
(* Sets of numbers in order.                                                *)

LEMMA FiniteGroups ==
  ASSUME NEW S \in SUBSET Groups
  PROVE  IsFiniteSet(S) /\ Cardinality(S) \in Nat /\ S \subseteq Nat
<1>1. IsFiniteSet(Groups) BY FS_Interval, ProjectionAssumption DEF Groups, ProjectionAssumption
<1>2. IsFiniteSet(S) BY <1>1, FS_Subset
<1> QED BY <1>2, FS_CardinalityType, ProjectionAssumption DEF Groups, ProjectionAssumption

\* The size of two sets that have nothing in common.
LEMMA Disjoint ==
  ASSUME NEW A, IsFiniteSet(A), NEW B, IsFiniteSet(B), A \cap B = {}
  PROVE  Cardinality(A \cup B) = Cardinality(A) + Cardinality(B)
<1>1. Cardinality(A \cap B) = 0 BY FS_EmptySet
<1>2. Cardinality(A \cup B) = Cardinality(A) + Cardinality(B) - Cardinality(A \cap B) BY FS_Union
<1> QED BY <1>1, <1>2, FS_CardinalityType

LEMMA PositionsRise ==
  ASSUME NEW S, IsFiniteSet(S), S \subseteq Nat, NEW g \in S
  PROVE  /\ Position(g, S) \in 1..Cardinality(S)
         /\ \A h \in S : g < h => Position(g, S) < Position(h, S)
<1> DEFINE upTo(k) == {h \in S : h <= k}
<1>1. Cardinality(S) \in Nat BY FS_CardinalityType
<1>2. ASSUME NEW k
      PROVE  /\ IsFiniteSet(upTo(k)) /\ Cardinality(upTo(k)) \in Nat
             /\ Cardinality(upTo(k)) <= Cardinality(S)
  <2>1. upTo(k) \in SUBSET S OBVIOUS
  <2> HIDE DEF upTo
  <2>2. IsFiniteSet(upTo(k)) /\ Cardinality(upTo(k)) <= Cardinality(S) BY <2>1, FS_Subset
  <2> QED BY <2>2, FS_CardinalityType
<1>3. Cardinality(upTo(g)) # 0
  <2>1. g \in upTo(g) OBVIOUS
  <2> HIDE DEF upTo
  <2> QED BY <2>1, <1>2, FS_EmptySet
<1>4. ASSUME NEW h \in S, g < h PROVE Cardinality(upTo(g)) < Cardinality(upTo(h))
  <2>1. upTo(g) \in SUBSET upTo(h)
    <3>1. \A x \in S : x <= g => x <= h BY <1>4
    <3> QED BY <3>1
  <2>2. h \in upTo(h) /\ h \notin upTo(g) BY <1>4
  <2> HIDE DEF upTo
  <2>3. Cardinality(upTo(g)) <= Cardinality(upTo(h)) BY <2>1, <1>2, FS_Subset
  <2>4. Cardinality(upTo(g)) # Cardinality(upTo(h)) BY <2>1, <2>2, <1>2, FS_Subset
  <2> QED BY <2>3, <2>4, <1>2
<1>5. \A k : Position(k, S) = Cardinality(upTo(k)) BY DEF Position
<1> HIDE DEF upTo
<1> QED BY <1>1, <1>2, <1>3, <1>4, <1>5

\* Every position up to the size of the set is taken, by one member.
LEMMA PositionsTaken ==
  ASSUME NEW S, IsFiniteSet(S), S \subseteq Nat
  PROVE  /\ \A g, h \in S : Position(g, S) = Position(h, S) => g = h
         /\ \A i \in 1..Cardinality(S) : \E g \in S : Position(g, S) = i
<1> DEFINE f == [g \in S |-> Position(g, S)]
           n == Cardinality(S)
<1>1. n \in Nat BY FS_CardinalityType
<1>2. \A g, h \in S : Position(g, S) = Position(h, S) => g = h
  <2> SUFFICES ASSUME NEW g \in S, NEW h \in S, Position(g, S) = Position(h, S) PROVE g = h OBVIOUS
  <2>1. g \in Nat /\ h \in Nat /\ Position(g, S) \in Nat
    <3>1. Position(g, S) \in 1..Cardinality(S) BY PositionsRise
    <3> QED BY <3>1
  <2>2. ~(g < h)
    <3>1. g < h => Position(g, S) < Position(h, S) BY PositionsRise
    <3> QED BY <2>1, <3>1
  <2>3. ~(h < g)
    <3>1. h < g => Position(h, S) < Position(g, S) BY PositionsRise
    <3> QED BY <2>1, <3>1
  <2> QED BY <2>1, <2>2, <2>3
<1>3. f \in [S -> 1..n] BY PositionsRise
<1>4. f \in Injection(S, 1..n) BY <1>2, <1>3 DEF Injection, IsInjective
<1>5. IsFiniteSet(1..n) /\ Cardinality(1..n) = n
  <2> HIDE DEF n
  <2> QED BY <1>1, FS_Interval
<1> HIDE DEF n
<1>6. f \in Surjection(S, 1..n)
  <2> HIDE DEF f
  <2> QED BY <1>4, <1>5, FS_Injection DEF n
<1>7. \A i \in 1..n : \E g \in S : f[g] = i
  <2> HIDE DEF f
  <2> QED BY <1>6 DEF Surjection
<1> QED BY <1>2, <1>7 DEF n

LEMMA InOrderMembers ==
  ASSUME NEW S, IsFiniteSet(S), S \subseteq Nat
  PROVE  /\ InOrder(S) \in Seq(Nat) /\ Len(InOrder(S)) = Cardinality(S)
         /\ \A i \in 1..Cardinality(S) : InOrder(S)[i] \in S /\ Position(InOrder(S)[i], S) = i
         /\ \A g \in S : InOrder(S)[Position(g, S)] = g
<1> DEFINE n == Cardinality(S)
           nth(i) == CHOOSE g \in S : Position(g, S) = i
<1>1. n \in Nat BY FS_CardinalityType
<1>2. \A i \in 1..n : nth(i) \in S /\ Position(nth(i), S) = i BY PositionsTaken
<1>3. InOrder(S) = [i \in 1..n |-> nth(i)] BY DEF InOrder
<1> HIDE DEF nth, n
<1>4. InOrder(S) \in Seq(Nat) /\ Len(InOrder(S)) = n
  <2>1. \A i \in 1..n : nth(i) \in Nat BY <1>2
  <2>2. InOrder(S) \in [1..n -> Nat] BY <1>3, <2>1
  <2> QED BY <1>1, <2>2
<1>5. \A g \in S : Position(g, S) \in 1..n BY PositionsRise DEF n
<1>6. \A g \in S : nth(Position(g, S)) = g
  <2>1. \A g, h \in S : Position(g, S) = Position(h, S) => g = h BY PositionsTaken
  <2> QED BY <2>1, <1>2, <1>5
<1> QED BY <1>2, <1>3, <1>4, <1>5, <1>6 DEF n

\* What comes first is listed first.
LEMMA InOrderSplits ==
  ASSUME NEW A, IsFiniteSet(A), A \subseteq Nat, NEW B, IsFiniteSet(B), B \subseteq Nat,
         \A a \in A, b \in B : a < b
  PROVE  InOrder(A \cup B) = InOrder(A) \o InOrder(B)
<1> DEFINE S == A \cup B
           s == InOrder(S)
           t == InOrder(A) \o InOrder(B)
<1>1. A \cap B = {} OBVIOUS
<1>2. IsFiniteSet(S) /\ S \subseteq Nat BY FS_Union
<1>3. Cardinality(S) = Cardinality(A) + Cardinality(B) BY <1>1, Disjoint
<1>4. Cardinality(A) \in Nat /\ Cardinality(B) \in Nat BY FS_CardinalityType
<1>5. ASSUME NEW a \in A PROVE Position(a, S) = Position(a, A)
  <2>1. \A h \in B : ~(h <= a)
    <3>1. \A h \in B : a < h /\ a \in Nat /\ h \in Nat OBVIOUS
    <3> QED BY <3>1
  <2>2. {h \in S : h <= a} = {h \in A : h <= a} BY <2>1
  <2> QED BY <2>2 DEF Position
<1>6. ASSUME NEW b \in B PROVE Position(b, S) = Cardinality(A) + Position(b, B)
  <2> DEFINE C == {h \in B : h <= b}
  <2>0. \A h \in A : h <= b
    <3>1. \A h \in A : h < b /\ b \in Nat /\ h \in Nat OBVIOUS
    <3> QED BY <3>1
  <2>1. {h \in S : h <= b} = A \cup C BY <2>0
  <2>2. IsFiniteSet(C) /\ A \cap C = {} BY <1>1, FS_Subset
  <2> HIDE DEF C
  <2>3. Cardinality(A \cup C) = Cardinality(A) + Cardinality(C) BY <2>2, Disjoint
  <2> QED BY <2>1, <2>3 DEF Position, C
<1>7. /\ InOrder(A) \in Seq(Nat) /\ Len(InOrder(A)) = Cardinality(A)
      /\ InOrder(B) \in Seq(Nat) /\ Len(InOrder(B)) = Cardinality(B)
      /\ \A i \in 1..Cardinality(A) : InOrder(A)[i] \in A /\ Position(InOrder(A)[i], A) = i
      /\ \A i \in 1..Cardinality(B) : InOrder(B)[i] \in B /\ Position(InOrder(B)[i], B) = i
  BY InOrderMembers
<1> HIDE DEF S
<1>8. s \in Seq(Nat) /\ Len(s) = Cardinality(S) /\ \A g \in S : s[Position(g, S)] = g
  BY <1>2, InOrderMembers
<1> HIDE DEF s
<1>9. /\ t \in Seq(Nat) /\ Len(t) = Cardinality(S)
      /\ \A i \in 1..Cardinality(S) :
           t[i] = IF i <= Cardinality(A) THEN InOrder(A)[i] ELSE InOrder(B)[i - Cardinality(A)]
  <2>1. /\ t \in Seq(Nat) /\ Len(t) = Len(InOrder(A)) + Len(InOrder(B))
        /\ \A i \in 1..(Len(InOrder(A)) + Len(InOrder(B))) :
             t[i] = IF i <= Len(InOrder(A)) THEN InOrder(A)[i] ELSE InOrder(B)[i - Len(InOrder(A))]
    BY <1>7, ConcatProperties
  <2> HIDE DEF t
  <2> QED BY <2>1, <1>3, <1>7
<1> HIDE DEF t
<1>10. ASSUME NEW i \in 1..Cardinality(S) PROVE t[i] = s[i]
  <2>1. i \in Nat /\ i > 0 /\ i <= Cardinality(A) + Cardinality(B) BY <1>3, <1>4
  <2>2. CASE i <= Cardinality(A)
    <3>1. t[i] = InOrder(A)[i] /\ i \in 1..Cardinality(A) BY <2>1, <2>2, <1>4, <1>9
    <3>2. t[i] \in A /\ Position(t[i], A) = i BY <3>1, <1>7
    <3>3. Position(t[i], S) = i /\ t[i] \in S BY <3>2, <1>5 DEF S
    <3> QED BY <3>3, <1>8
  <2>3. CASE ~(i <= Cardinality(A))
    <3> DEFINE j == i - Cardinality(A)
    <3>1. j \in 1..Cardinality(B) /\ Cardinality(A) + j = i BY <2>1, <2>3, <1>4
    <3>2. t[i] = InOrder(B)[j] BY <2>3, <1>9
    <3> HIDE DEF j
    <3>3. t[i] \in B /\ Position(t[i], B) = j BY <3>1, <3>2, <1>7
    <3>4. Position(t[i], S) = i /\ t[i] \in S BY <3>1, <3>3, <1>6 DEF S
    <3> QED BY <3>4, <1>8
  <2> QED BY <2>2, <2>3
<1>11. s = t
  <2>1. \A i \in 1..Len(s) : s[i] = t[i] BY <1>8, <1>10
  <2> QED BY <2>1, <1>8, <1>9, SeqEqual
<1> QED BY <1>11 DEF s, t, S

-----------------------------------------------------------------------------
(* Positions of rows, and fields of records.                                *)

LEMMA Positions ==
  ASSUME ProjectionAssumption, NEW S \in SUBSET Groups
  PROVE  /\ Cardinality(S) \in Nat
         /\ \A g \in S : Position(g, S) \in 1..Cardinality(S)
<1>1. IsFiniteSet(S) /\ Cardinality(S) \in Nat /\ S \subseteq Nat BY FiniteGroups
<1> QED BY <1>1, PositionsRise

LEMMA RowPrefixes ==
  ASSUME ProjectionAssumption, NEW S \in SUBSET Groups, NEW n \in Nat
  PROVE  /\ Prefix(S, 0) = {}
         /\ n >= Cardinality(S) => Prefix(S, n) = S
         /\ Prefix(S, n) \cup Chunk(S, n) = Prefix(S, n + Batch)
<1>1. Batch \in Nat BY DEF ProjectionAssumption
<1>2. \A g \in S : Position(g, S) \in Nat /\ Position(g, S) > 0 /\ Position(g, S) <= Cardinality(S)
  BY Positions
<1>3. Cardinality(S) \in Nat BY Positions
<1>4. Prefix(S, 0) = {} BY <1>2 DEF Prefix
<1>5. n >= Cardinality(S) => Prefix(S, n) = S BY <1>2, <1>3 DEF Prefix
<1>6. ASSUME NEW g \in S
      PROVE  Position(g, S) <= n \/ Position(g, S) \in (n + 1)..(n + Batch) <=> Position(g, S) <= n + Batch
  BY <1>1, <1>2
<1>7. Prefix(S, n) \cup Chunk(S, n) = Prefix(S, n + Batch)
  BY <1>6 DEF Prefix, Chunk
<1> QED BY <1>4, <1>5, <1>7

LEMMA Fields ==
  ASSUME TypeOK, NEW r \in Refreshes
  PROVE  /\ refresh[r] \in RefreshState
         /\ refresh[r].pc \in {"list", "begin"} => refresh[r].read \in Nat /\ refresh[r].found \subseteq Groups
         /\ Holding(r) => /\ refresh[r].version \in Versions
                          /\ refresh[r].previous \in Versions \cup {"none"}
                          /\ refresh[r].at \in Nat
                          /\ refresh[r] = [pc |-> refresh[r].pc, version |-> refresh[r].version,
                                           previous |-> refresh[r].previous, at |-> refresh[r].at]
<1>1. refresh[r] \in RefreshState BY DEF TypeOK
<1> QED BY <1>1 DEF RefreshState, Holding, Idle

\* One refresh changes its own record.
LEMMA Moves ==
  ASSUME TypeOK, NEW r \in Refreshes, NEW next \in RefreshState, To(r, next)
  PROVE  /\ refresh' \in [Refreshes -> RefreshState]
         /\ refresh'[r] = next
         /\ \A q \in Refreshes \ {r} : refresh'[q] = refresh[q]
  BY DEF TypeOK, To

LEMMA Readers ==
  ASSUME TypeOK
  PROVE  /\ reader # Idle => reader.pc = "fetch" /\ reader.version \in Versions
         /\ reader = Idle => reader.pc = "idle"
  BY DEF TypeOK, Idle

-----------------------------------------------------------------------------
\* The inductive invariant holds before the first refresh: an empty version is current.
THEOREM Begins == Init => IInv
<1> SUFFICES ASSUME Init PROVE IInv OBVIOUS
<1> USE ProjectionAssumption DEF ProjectionAssumption
<1>1. TypeOK BY DEF Init, TypeOK, RefreshState
<1>2. CurrentIsWhole /\ NoTornPage BY DEF Init, CurrentIsWhole, NoTornPage
<1>3. ASSUME NEW r \in Refreshes PROVE WriterOK(r) /\ DeleterOK(r)
  BY DEF Init, WriterOK, DeleterOK, Idle
<1> QED BY <1>1, <1>2, <1>3 DEF IInv

\* Steps that change neither rows nor pointer nor reader, of a refresh that holds no version
\* before or after.
LEMMA Quiet ==
  ASSUME IInv, NEW r \in Refreshes, NEW next \in RefreshState, To(r, next),
         ~Holding(r), next.pc \notin {"write", "delete"}, catalog' = catalog, changes' = changes,
         UNCHANGED <<pointer, rows, planned, reader>>
  PROVE  IInv'
<1>1. TypeOK' BY Moves DEF IInv, TypeOK
<1>2. CurrentIsWhole' /\ NoTornPage' BY DEF IInv, CurrentIsWhole, NoTornPage
<1>3. ASSUME NEW q \in Refreshes, refresh'[q].pc \in {"write", "delete"} PROVE q # r /\ refresh'[q] = refresh[q]
  BY <1>3, Moves DEF IInv
<1>4. ASSUME NEW q \in Refreshes PROVE (WriterOK(q) /\ DeleterOK(q))'
  BY <1>3 DEF IInv, WriterOK, DeleterOK, Holding
<1> QED BY <1>1, <1>2, <1>4 DEF IInv

\* A version that somebody knows keeps its rows.
LEMMA Knows ==
  ASSUME NEW v \in Versions, NEW a, NEW b, Keep(a, b), ~Unknown(v)'
  PROVE  rows'[v] = a[v] /\ planned'[v] = b[v]
  BY DEF Keep, Kept

LEMMA KeepsTypes ==
  ASSUME NEW a \in [Versions -> SUBSET Groups], NEW b \in [Versions -> SUBSET Groups], Keep(a, b)
  PROVE  rows' \in [Versions -> SUBSET Groups] /\ planned' \in [Versions -> SUBSET Groups]
  BY DEF Keep, Kept

LEMMA Known ==
  ASSUME TypeOK'
  PROVE  /\ pointer' # "none" => ~Unknown(pointer)'
         /\ reader' # Idle => ~Unknown(reader.version)' /\ reader'.version \in Versions
         /\ \A r \in Refreshes : Holding(r)' => ~Unknown(refresh[r].version)'
<1>1. reader' # Idle => reader'.pc = "fetch" /\ reader'.version \in Versions BY DEF TypeOK, Idle
<1> QED BY <1>1 DEF Unknown, Holds, Holding

LEMMA Beginning ==
  ASSUME IInv, NEW r \in Refreshes, Begin(r)
  PROVE  IInv'
<1> DEFINE v == CHOOSE w \in Versions : Unknown(w)
           a == [rows EXCEPT ![v] = {}]
           b == [planned EXCEPT ![v] = refresh[r].found]
           next == [pc |-> "write", version |-> v, previous |-> pointer, at |-> 0]
<1>1. v \in Versions /\ Unknown(v) BY DEF Begin
<1>2. To(r, next) /\ Keep(a, b) /\ UNCHANGED <<pointer, reader, catalog, changes>> BY DEF Begin
<1>3. refresh[r].pc = "begin" BY DEF Begin
<1> HIDE DEF v
<1>4. TypeOK BY DEF IInv
<1>5. next \in RefreshState BY <1>1, <1>4 DEF RefreshState, TypeOK
<1>6. a \in [Versions -> SUBSET Groups] /\ b \in [Versions -> SUBSET Groups]
  BY <1>1, <1>3, <1>4, Fields DEF TypeOK
<1>7. TypeOK'
  <2> HIDE DEF a, b, next
  <2> QED BY <1>2, <1>4, <1>5, <1>6, KeepsTypes, Moves DEF TypeOK
<1>8. /\ refresh'[r] = next /\ \A q \in Refreshes \ {r} : refresh'[q] = refresh[q]
  BY <1>2, <1>4, <1>5, Moves
<1>9. \A w \in Versions : ~Unknown(w)' => rows'[w] = a[w] /\ planned'[w] = b[w]
  <2> HIDE DEF a, b
  <2> QED BY <1>2, Knows
<1>10. \A w \in Versions \ {v} : a[w] = rows[w] /\ b[w] = planned[w] BY <1>1, <1>4 DEF TypeOK
<1>11. a[v] = {} BY <1>1, <1>4 DEF TypeOK
<1>12. v # pointer /\ (reader # Idle => reader.version # v)
       /\ \A q \in Refreshes : Holding(q) => refresh[q].version # v /\ refresh[q].previous # v
  BY <1>1, <1>4, Readers DEF Unknown, Holds, Holding
<1> HIDE DEF a, b
<1>13. CurrentIsWhole'
  BY <1>2, <1>4, <1>7, <1>9, <1>10, <1>12, Known DEF IInv, CurrentIsWhole, TypeOK
<1>14. NoTornPage'
  BY <1>2, <1>4, <1>7, <1>9, <1>10, <1>12, Known, Readers DEF IInv, NoTornPage
<1>15. \A q \in Refreshes : Holding(q)' => ~Unknown(refresh[q].version)' BY <1>7, Known
<1>16. WriterOK(r)'
  <2>1. rows'[v] = {} /\ planned'[v] \subseteq Groups
    BY <1>1, <1>7, <1>8, <1>9, <1>11, <1>15 DEF Holding, TypeOK
  <2>2. \A S \in SUBSET Groups : Prefix(S, 0) = {} BY RowPrefixes, ProjectionAssumption
  <2>3. ASSUME NEW q \in Refreshes, q # r, Holding(q)' PROVE refresh'[q].previous # v /\ refresh'[q].version # v
    BY <1>8, <1>12, <2>3 DEF Holding
  <2>4. refresh'[r].version = v /\ refresh'[r].previous = pointer /\ refresh'[r].at = 0 BY <1>8
  <2>5. rows'[v] = Prefix(planned'[v], 0) BY <2>1, <2>2
  <2>6. pointer' = pointer /\ reader' = reader BY <1>2
  <2> HIDE DEF next
  <2> QED BY <1>12, <2>3, <2>4, <2>5, <2>6 DEF WriterOK
<1>17. ASSUME NEW q \in Refreshes, q # r PROVE (WriterOK(q) /\ DeleterOK(q))'
  <2>1. refresh'[q] = refresh[q] /\ (Holding(q)' <=> Holding(q)) BY <1>8, <1>17 DEF Holding
  <2>2. DeleterOK(q)' BY <1>2, <2>1 DEF IInv, DeleterOK
  <2>3. CASE refresh[q].pc = "write"
    <3>1. Holding(q) /\ refresh[q].version \in Versions \ {v} BY <1>4, <1>12, <2>3, Fields DEF Holding
    <3>2. rows'[refresh[q].version] = rows[refresh[q].version]
          /\ planned'[refresh[q].version] = planned[refresh[q].version]
      BY <1>9, <1>10, <1>15, <2>1, <3>1
    <3>3. WriterOK(q) BY DEF IInv
    <3>4. ASSUME NEW p \in Refreshes, Holding(p)'
          PROVE  refresh'[p].previous # refresh[q].version /\ (p # q => refresh'[p].version # refresh[q].version)
      <4>1. CASE p = r BY <1>8, <2>3, <3>1, <3>3, <4>1 DEF WriterOK
      <4>2. CASE p # r BY <1>8, <2>3, <3>3, <3>4, <4>2 DEF WriterOK, Holding
      <4> QED BY <4>1, <4>2
    <3> QED BY <1>2, <2>1, <2>2, <2>3, <3>2, <3>3, <3>4 DEF WriterOK
  <2>4. CASE refresh[q].pc # "write" BY <2>1, <2>2, <2>4 DEF WriterOK
  <2> QED BY <2>3, <2>4
<1>18. DeleterOK(r)' BY <1>8 DEF DeleterOK
<1> QED BY <1>7, <1>13, <1>14, <1>16, <1>17, <1>18 DEF IInv

LEMMA Writing ==
  ASSUME IInv, NEW r \in Refreshes, Write(r)
  PROVE  IInv'
<1> DEFINE v == refresh[r].version
           n == refresh[r].at
           next == [refresh[r] EXCEPT !.at = n + Batch]
<1>1. TypeOK /\ refresh[r].pc = "write" /\ Holding(r) BY DEF IInv, Write, Holding
<1>2. v \in Versions /\ n \in Nat /\ Batch \in Nat BY <1>1, Fields, ProjectionAssumption DEF ProjectionAssumption
<1>3. rows' = [rows EXCEPT ![v] = @ \cup Chunk(planned[v], n)] /\ To(r, next)
      /\ UNCHANGED <<catalog, changes, pointer, planned, reader>>
  BY DEF Write, Chunk
<1>4. next = [pc |-> "write", version |-> v, previous |-> refresh[r].previous, at |-> n + Batch]
  <2>1. refresh[r] = [pc |-> "write", version |-> v, previous |-> refresh[r].previous, at |-> n]
    BY <1>1, Fields
  <2>2. \A x, b, c, d, e : x = [pc |-> "write", version |-> b, previous |-> c, at |-> d] =>
          [x EXCEPT !.at = e] = [pc |-> "write", version |-> b, previous |-> c, at |-> e]
    OBVIOUS
  <2> HIDE DEF v, n
  <2> QED BY <2>1, <2>2
<1>5. next \in RefreshState
  <2>1. refresh[r].previous \in Versions \cup {"none"} BY <1>1, Fields
  <2>2. n + Batch \in Nat BY <1>2
  <2> HIDE DEF v, n, next
  <2> QED BY <1>2, <1>4, <2>1, <2>2 DEF RefreshState
<1>6. refresh' \in [Refreshes -> RefreshState] /\ refresh'[r] = next
      /\ \A q \in Refreshes \ {r} : refresh'[q] = refresh[q]
  <2> HIDE DEF next
  <2> QED BY <1>1, <1>3, <1>5, Moves
<1>7. WriterOK(r) BY DEF IInv
<1>8. rows' \in [Versions -> SUBSET Groups] /\ rows'[v] = Prefix(planned[v], n + Batch)
      /\ \A w \in Versions \ {v} : rows'[w] = rows[w]
  <2>1. planned[v] \in SUBSET Groups BY <1>1, <1>2 DEF TypeOK
  <2>2. rows[v] \cup Chunk(planned[v], n) = Prefix(planned[v], n + Batch)
    BY <1>1, <1>2, <1>7, <2>1, RowPrefixes, ProjectionAssumption DEF WriterOK
  <2>3. Prefix(planned[v], n + Batch) \subseteq Groups BY <2>1 DEF Prefix
  <2> HIDE DEF v, n
  <2> QED BY <1>1, <1>2, <1>3, <2>2, <2>3 DEF TypeOK
<1>9. TypeOK' BY <1>1, <1>3, <1>6, <1>8 DEF TypeOK
<1>10. CurrentIsWhole'
  BY <1>1, <1>3, <1>7, <1>8 DEF IInv, CurrentIsWhole, WriterOK, TypeOK
<1>11. NoTornPage'
  BY <1>1, <1>3, <1>7, <1>8, Readers DEF IInv, NoTornPage, WriterOK
<1>12. \A q \in Refreshes :
         /\ refresh'[q].pc = refresh[q].pc
         /\ Holding(q) => refresh'[q].version = refresh[q].version /\ refresh'[q].previous = refresh[q].previous
  BY <1>1, <1>4, <1>6
<1>13. ASSUME NEW q \in Refreshes PROVE (WriterOK(q) /\ DeleterOK(q))'
  <2>1. WriterOK(q) /\ DeleterOK(q) BY DEF IInv
  <2>2. DeleterOK(q)' BY <1>3, <1>12, <2>1 DEF DeleterOK, Holding
  <2>3. CASE refresh[q].pc = "write"
    <3>1. Holding(q) /\ refresh[q].version \in Versions BY <1>1, <2>3, Fields DEF Holding
    <3>2. q # r => refresh[q].version # v BY <1>7, <1>1, <3>1 DEF WriterOK
    <3>3. rows'[refresh'[q].version] = Prefix(planned'[refresh'[q].version], refresh'[q].at)
      <4>1. CASE q = r BY <1>3, <1>4, <1>6, <1>8, <4>1
      <4>2. CASE q # r BY <1>3, <1>6, <1>8, <2>1, <2>3, <3>1, <3>2, <4>2 DEF WriterOK
      <4> QED BY <4>1, <4>2
    <3>4. ASSUME NEW p \in Refreshes, Holding(p)'
          PROVE  refresh'[p].previous # refresh'[q].version /\ (p # q => refresh'[p].version # refresh'[q].version)
      <4>1. Holding(p) BY <1>12, <3>4 DEF Holding
      <4> QED BY <1>12, <2>1, <2>3, <3>1, <4>1 DEF WriterOK
    <3>5. refresh'[q].version # pointer' /\ (reader' # Idle => reader'.version # refresh'[q].version)
      BY <1>3, <1>12, <2>1, <2>3, <3>1 DEF WriterOK
    <3> QED BY <2>2, <3>3, <3>4, <3>5 DEF WriterOK
  <2>4. CASE refresh[q].pc # "write" BY <1>12, <2>2, <2>4 DEF WriterOK
  <2> QED BY <2>3, <2>4
<1> QED BY <1>9, <1>10, <1>11, <1>13 DEF IInv

LEMMA Pointing ==
  ASSUME IInv, NEW r \in Refreshes, Point(r)
  PROVE  IInv'
<1> DEFINE v == refresh[r].version
           next == [refresh[r] EXCEPT !.pc = "delete"]
<1>1. TypeOK /\ refresh[r].pc = "write" /\ Holding(r) /\ WriterOK(r) BY DEF IInv, Point, Holding
<1>2. v \in Versions /\ refresh[r].at \in Nat /\ refresh[r].previous \in Versions \cup {"none"}
  BY <1>1, Fields
<1>3. pointer' = v /\ To(r, next) /\ UNCHANGED <<catalog, changes, reader>> /\ Keep(rows, planned)
  BY DEF Point
<1>4. next = [pc |-> "delete", version |-> v, previous |-> refresh[r].previous, at |-> refresh[r].at]
  <2>1. \A x, b, c, d : x = [pc |-> "write", version |-> b, previous |-> c, at |-> d] =>
          [x EXCEPT !.pc = "delete"] = [pc |-> "delete", version |-> b, previous |-> c, at |-> d]
    OBVIOUS
  <2>2. refresh[r] = [pc |-> "write", version |-> v, previous |-> refresh[r].previous, at |-> refresh[r].at]
    BY <1>1, Fields
  <2> HIDE DEF v
  <2> QED BY <2>1, <2>2
<1>5. next \in RefreshState
  <2> HIDE DEF v, next
  <2> QED BY <1>2, <1>4 DEF RefreshState
<1>6. refresh' \in [Refreshes -> RefreshState] /\ refresh'[r] = next
      /\ \A q \in Refreshes \ {r} : refresh'[q] = refresh[q]
  <2> HIDE DEF next
  <2> QED BY <1>1, <1>3, <1>5, Moves
<1> HIDE DEF next
<1>7. TypeOK'
  <2>1. rows \in [Versions -> SUBSET Groups] /\ planned \in [Versions -> SUBSET Groups] BY <1>1 DEF TypeOK
  <2>2. rows' \in [Versions -> SUBSET Groups] /\ planned' \in [Versions -> SUBSET Groups]
    BY <1>3, <2>1, KeepsTypes
  <2> QED BY <1>1, <1>2, <1>3, <1>6, <2>2 DEF TypeOK
<1>8. \A w \in Versions : ~Unknown(w)' => rows'[w] = rows[w] /\ planned'[w] = planned[w] BY <1>3, Knows
<1>9. v # "none" BY <1>2, ProjectionAssumption DEF ProjectionAssumption
<1>10. CurrentIsWhole'
  <2>1. rows[v] = planned[v]
    <3>1. planned[v] \in SUBSET Groups BY <1>1, <1>2 DEF TypeOK
    <3>2. refresh[r].at >= Cardinality(planned[v]) BY DEF Point, Finished
    <3> QED BY <1>1, <1>2, <3>1, <3>2, RowPrefixes, ProjectionAssumption DEF WriterOK
  <2>2. ~Unknown(pointer)' BY <1>3, <1>7, <1>9, Known
  <2>3. pointer' \in Versions /\ rows[pointer'] = planned[pointer'] BY <1>2, <1>3, <2>1
  <2>4. rows'[pointer'] = rows[pointer'] /\ planned'[pointer'] = planned[pointer'] BY <1>8, <2>2, <2>3
  <2> QED BY <2>3, <2>4 DEF CurrentIsWhole
<1>11. NoTornPage' BY <1>1, <1>3, <1>7, <1>8, Known, Readers DEF IInv, NoTornPage
<1>12. \A q \in Refreshes :
         /\ Holding(q)' <=> Holding(q)
         /\ Holding(q) => refresh'[q].version = refresh[q].version /\ refresh'[q].previous = refresh[q].previous
  BY <1>1, <1>4, <1>6 DEF Holding
<1>13. ASSUME NEW q \in Refreshes PROVE (WriterOK(q) /\ DeleterOK(q))'
  <2>1. WriterOK(q) /\ DeleterOK(q) BY DEF IInv
  <2>2. Holding(q) => refresh[q].previous # v BY <1>1 DEF WriterOK
  <2>3. DeleterOK(q)' BY <1>3, <1>12, <2>2 DEF DeleterOK, Holding
  <2>4. CASE refresh'[q].pc = "write"
    <3>1. q # r /\ refresh'[q] = refresh[q] /\ Holding(q) BY <1>4, <1>6, <2>4 DEF Holding
    <3>2. refresh[q].version \in Versions /\ refresh[q].version # v BY <1>1, <3>1, Fields DEF WriterOK
    <3>3. rows'[refresh[q].version] = rows[refresh[q].version]
          /\ planned'[refresh[q].version] = planned[refresh[q].version]
      BY <1>7, <1>8, <1>12, <3>1, <3>2, Known
    <3>4. ASSUME NEW p \in Refreshes, Holding(p)'
          PROVE  refresh'[p].previous # refresh[q].version /\ (p # q => refresh'[p].version # refresh[q].version)
      BY <1>12, <2>1, <2>4, <3>1, <3>4 DEF WriterOK
    <3> QED BY <1>3, <2>1, <2>3, <2>4, <3>1, <3>2, <3>3, <3>4 DEF WriterOK
  <2>5. CASE refresh'[q].pc # "write" BY <2>3, <2>5 DEF WriterOK
  <2> QED BY <2>4, <2>5
<1> QED BY <1>7, <1>10, <1>11, <1>13 DEF IInv

\* A refresh lets its version go, after it deleted what it replaced, or because it died.
LEMMA LettingGo ==
  ASSUME IInv, NEW r \in Refreshes, Delete(r) \/ Dies(r)
  PROVE  IInv'
<1> DEFINE a == [v \in Versions |-> IF refresh[r].pc = "delete" /\ v = refresh[r].previous THEN {} ELSE rows[v]]
<1>1. TypeOK /\ To(r, Idle) /\ UNCHANGED <<catalog, changes, pointer, reader>>
  BY DEF IInv, Delete, Dies
<1>2. \/ Keep(rows, planned)
      \/ refresh[r].pc = "delete" /\ Keep([v \in Versions |-> IF v \in Replaced(r) THEN {} ELSE rows[v]], planned)
  BY DEF Delete, Dies
<1>3. rows \in [Versions -> SUBSET Groups] /\ planned \in [Versions -> SUBSET Groups] BY <1>1 DEF TypeOK
<1>4. rows' \in [Versions -> SUBSET Groups] /\ planned' \in [Versions -> SUBSET Groups]
  BY <1>2, <1>3 DEF Keep, Kept
<1>5. \A v \in Versions : ~Unknown(v)' =>
        /\ planned'[v] = planned[v]
        /\ rows'[v] = rows[v] \/ (refresh[r].pc = "delete" /\ v = refresh[r].previous /\ rows'[v] = {})
  BY <1>2, <1>3 DEF Keep, Kept, Replaced
<1>6. refresh' \in [Refreshes -> RefreshState] /\ refresh'[r] = Idle
      /\ \A q \in Refreshes \ {r} : refresh'[q] = refresh[q]
  <2>1. Idle \in RefreshState BY DEF RefreshState
  <2> QED BY <1>1, <2>1, Moves
<1>7. TypeOK' BY <1>1, <1>4, <1>6 DEF TypeOK
<1>8. WriterOK(r) /\ DeleterOK(r) /\ (refresh[r].pc = "delete" => Holding(r)) BY DEF IInv, Holding
<1>9. CurrentIsWhole' BY <1>1, <1>5, <1>7, <1>8, Known DEF IInv, CurrentIsWhole, DeleterOK, TypeOK
<1>10. NoTornPage' BY <1>1, <1>5, <1>7, Known, Readers DEF IInv, NoTornPage
<1>11. ASSUME NEW q \in Refreshes PROVE (WriterOK(q) /\ DeleterOK(q))'
  <2>1. WriterOK(q) /\ DeleterOK(q) BY DEF IInv
  <2>2. DeleterOK(q)' BY <1>1, <1>6, <2>1 DEF DeleterOK, Idle
  <2>3. CASE refresh'[q].pc = "write"
    <3>1. q # r /\ refresh'[q] = refresh[q] /\ Holding(q) /\ Holding(q)'
      BY <1>6, <2>3 DEF Holding, Idle
    <3>2. refresh[q].version \in Versions BY <1>1, <3>1, Fields
    <3>3. refresh[r].pc = "delete" => refresh[r].previous # refresh[q].version
      BY <1>8, <2>1, <2>3, <3>1 DEF WriterOK
    <3>4. rows'[refresh[q].version] = rows[refresh[q].version]
          /\ planned'[refresh[q].version] = planned[refresh[q].version]
      BY <1>5, <1>7, <3>1, <3>2, <3>3, Known
    <3>5. ASSUME NEW p \in Refreshes, Holding(p)'
          PROVE  refresh'[p].previous # refresh[q].version /\ (p # q => refresh'[p].version # refresh[q].version)
      <4>1. p # r BY <1>6, <3>5 DEF Holding, Idle
      <4> QED BY <1>6, <2>1, <2>3, <3>1, <3>5, <4>1 DEF WriterOK, Holding
    <3> QED BY <1>1, <2>1, <2>2, <2>3, <3>1, <3>4, <3>5 DEF WriterOK
  <2>4. CASE refresh'[q].pc # "write" BY <2>2, <2>4 DEF WriterOK
  <2> QED BY <2>3, <2>4
<1> QED BY <1>7, <1>9, <1>10, <1>11 DEF IInv

LEMMA Reading ==
  ASSUME IInv, Look \/ Fetch
  PROVE  IInv'
<1>1. TypeOK /\ UNCHANGED <<catalog, changes, pointer, refresh>> BY DEF IInv, Look, Fetch
<1>2. CASE Look
  <2>1. pointer \in Versions /\ reader' = [pc |-> "fetch", version |-> pointer] /\ UNCHANGED <<rows, planned>>
    BY <1>1, <1>2 DEF Look, TypeOK
  <2>2. TypeOK' BY <1>1, <2>1 DEF TypeOK
  <2>3. CurrentIsWhole' /\ NoTornPage'
    BY <1>1, <1>2, <2>1 DEF IInv, CurrentIsWhole, NoTornPage, Look
  <2>4. ASSUME NEW r \in Refreshes PROVE (WriterOK(r) /\ DeleterOK(r))'
    BY <1>1, <2>1 DEF IInv, WriterOK, DeleterOK, Holding
  <2> QED BY <2>2, <2>3, <2>4 DEF IInv
<1>3. CASE Fetch
  <2>1. reader' = Idle /\ Keep(rows, planned) BY <1>3 DEF Fetch
  <2>2. TypeOK'
    <3>1. rows \in [Versions -> SUBSET Groups] /\ planned \in [Versions -> SUBSET Groups] BY <1>1 DEF TypeOK
    <3>2. rows' \in [Versions -> SUBSET Groups] /\ planned' \in [Versions -> SUBSET Groups]
      BY <2>1, <3>1, KeepsTypes
    <3> QED BY <1>1, <2>1, <3>2 DEF TypeOK
  <2>3. \A w \in Versions : ~Unknown(w)' => rows'[w] = rows[w] /\ planned'[w] = planned[w] BY <2>1, Knows
  <2>4. CurrentIsWhole' BY <1>1, <2>2, <2>3, Known DEF IInv, CurrentIsWhole, TypeOK
  <2>5. NoTornPage' BY <2>1 DEF NoTornPage
  <2>6. ASSUME NEW r \in Refreshes PROVE (WriterOK(r) /\ DeleterOK(r))'
    <3>1. WriterOK(r) /\ DeleterOK(r) BY DEF IInv
    <3>2. CASE refresh[r].pc = "write"
      <4>1. Holding(r) /\ Holding(r)' /\ refresh[r].version \in Versions
        BY <1>1, <3>2, Fields DEF Holding
      <4>2. rows'[refresh[r].version] = rows[refresh[r].version]
            /\ planned'[refresh[r].version] = planned[refresh[r].version]
        BY <1>1, <2>2, <2>3, <4>1, Known
      <4> QED BY <1>1, <2>1, <3>1, <4>2 DEF WriterOK, DeleterOK, Holding
    <3>3. CASE refresh[r].pc # "write" BY <1>1, <3>1, <3>3 DEF WriterOK, DeleterOK
    <3> QED BY <3>2, <3>3
  <2> QED BY <2>2, <2>4, <2>5, <2>6 DEF IInv
<1> QED BY <1>2, <1>3

LEMMA Stutters ==
  ASSUME IInv, UNCHANGED vars
  PROVE  IInv'
<1>1. UNCHANGED <<catalog, changes, pointer, rows, planned, refresh, reader>> BY DEF vars
<1>2. TypeOK' /\ CurrentIsWhole' /\ NoTornPage'
  BY <1>1 DEF IInv, TypeOK, CurrentIsWhole, NoTornPage
<1>3. ASSUME NEW r \in Refreshes PROVE (WriterOK(r) /\ DeleterOK(r))'
  BY <1>1 DEF IInv, WriterOK, DeleterOK, Holding
<1> QED BY <1>2, <1>3 DEF IInv

\* Every step of a refresh (refreshCatalogProjection) or of a reader keeps the inductive invariant.
THEOREM Continues == IInv /\ [Next]_vars => IInv'
<1> SUFFICES ASSUME IInv, [Next]_vars PROVE IInv' OBVIOUS
<1>1. ASSUME NEW g \in Changing, Change(g) PROVE IInv'
  <2>1. TypeOK' BY <1>1, ProjectionAssumption DEF Change, IInv, TypeOK, ProjectionAssumption
  <2>2. UNCHANGED <<pointer, rows, planned, refresh, reader>> BY <1>1 DEF Change
  <2>3. CurrentIsWhole' /\ NoTornPage' BY <2>2 DEF IInv, CurrentIsWhole, NoTornPage
  <2>4. ASSUME NEW r \in Refreshes PROVE (WriterOK(r) /\ DeleterOK(r))'
    BY <2>2 DEF IInv, WriterOK, DeleterOK, Holding
  <2> QED BY <2>1, <2>3, <2>4 DEF IInv
<1>2. ASSUME NEW r \in Refreshes, Start(r) PROVE IInv'
  <2> DEFINE next == [pc |-> "list", read |-> 0, found |-> {}]
  <2>1. next \in RefreshState BY DEF RefreshState
  <2>2. To(r, next) /\ UNCHANGED <<catalog, changes, pointer, rows, planned, reader>> /\ refresh[r].pc = "idle"
    BY <1>2 DEF Start, Idle
  <2> QED BY <2>1, <2>2, Quiet DEF Holding
<1>3. ASSUME NEW r \in Refreshes, List(r) PROVE IInv'
  <2> DEFINE x == refresh[r]
             next == [pc |-> IF x.read + ReadPage < N THEN "list" ELSE "begin", read |-> x.read + ReadPage,
                      found |-> x.found \cup (catalog \cap ((x.read + 1) .. (x.read + ReadPage)))]
  <2>1. x.pc = "list" /\ To(r, next) /\ UNCHANGED <<catalog, changes, pointer, rows, planned, reader>>
    BY <1>3 DEF List
  <2>2. x.read \in Nat /\ x.found \subseteq Groups /\ catalog \subseteq Groups BY <2>1, Fields DEF IInv, TypeOK
  <2>3. x.read + ReadPage \in Nat BY <2>2, ProjectionAssumption DEF ProjectionAssumption
  <2>4. next \in RefreshState /\ next.pc \in {"list", "begin"}
    <3> HIDE DEF x
    <3> QED BY <2>2, <2>3 DEF RefreshState
  <2> HIDE DEF next
  <2> QED BY <2>1, <2>4, Quiet DEF Holding
<1> QED BY <1>1, <1>2, <1>3, Beginning, Writing, Pointing, LettingGo, Reading, Stutters DEF Next

-----------------------------------------------------------------------------
(* The rows after an offset, and the rows up to another one.                *)

After(content, offset) == {g \in content : Position(g, content) > offset}
Between(content, from, to) == {g \in content : Position(g, content) \in (from + 1)..to}

\* What a client that is at an offset has still to be given, and what it is given up to another.
Wanted(content, filter, offset) == InOrder(After(content, offset) \cap filter)
Given(content, filter, from, to) == InOrder(Between(content, from, to) \cap filter)

LEMMA RowsSplit ==
  ASSUME NEW content \in SUBSET Groups, NEW from \in Nat, NEW to \in Nat, from <= to
  PROVE  After(content, from) = Between(content, from, to) \cup After(content, to)
<1>1. IsFiniteSet(content) /\ content \subseteq Nat BY FiniteGroups
<1>2. \A g \in content : Position(g, content) \in Nat
  <2>1. \A g \in content : Position(g, content) \in 1..Cardinality(content) BY <1>1, PositionsRise
  <2> QED BY <2>1
<1> QED BY <1>2 DEF After, Between

Splits(content, filter, from, to) ==
  Wanted(content, filter, from) = Given(content, filter, from, to) \o Wanted(content, filter, to)

LEMMA WantedSplits ==
  ASSUME NEW content \in SUBSET Groups, NEW from \in Nat, NEW to \in Nat, from <= to, NEW filter
  PROVE  Splits(content, filter, from, to)
<1> DEFINE A == Between(content, from, to) \cap filter
           B == After(content, to) \cap filter
<1>1. IsFiniteSet(content) /\ content \subseteq Nat BY FiniteGroups
<1>2. \A g \in content : Position(g, content) \in Nat
  <2>1. \A g \in content : Position(g, content) \in 1..Cardinality(content) BY <1>1, PositionsRise
  <2> QED BY <2>1
<1>3. After(content, from) = Between(content, from, to) \cup After(content, to) BY RowsSplit
<1>4. After(content, from) \cap filter = A \cup B BY <1>3
<1>5. A \in SUBSET content /\ B \in SUBSET content BY DEF After, Between
<1>6. IsFiniteSet(A) /\ A \subseteq Nat /\ IsFiniteSet(B) /\ B \subseteq Nat
  <2> HIDE DEF A, B
  <2> QED BY <1>1, <1>5, FS_Subset
<1>7. ASSUME NEW a \in A, NEW b \in B PROVE a < b
  <2>1. Position(a, content) < Position(b, content) BY <1>2 DEF After, Between
  <2>2. a \in content /\ b \in content BY <1>5
  <2>3. ~(b < a)
    <3>1. b < a => Position(b, content) < Position(a, content) BY <1>1, <2>2, PositionsRise
    <3> QED BY <2>1, <2>2, <3>1, <1>2
  <2>4. a # b BY <2>1, <2>2, <1>2
  <2> QED BY <1>1, <2>2, <2>3, <2>4
<1>8. InOrder(A \cup B) = InOrder(A) \o InOrder(B)
  <2> HIDE DEF A, B
  <2> QED BY <1>6, <1>7, InOrderSplits
<1> QED BY <1>4, <1>8 DEF Splits, Wanted, Given

LEMMA LastRows ==
  ASSUME NEW content \in SUBSET Groups, NEW from \in Nat, NEW to \in Nat, from <= to, NEW filter,
         Cardinality(content) <= to
  PROVE  Wanted(content, filter, from) = Given(content, filter, from, to)
<1>1. IsFiniteSet(content) /\ content \subseteq Nat /\ Cardinality(content) \in Nat BY FiniteGroups
<1>2. \A g \in content : Position(g, content) \in 1..Cardinality(content) BY <1>1, PositionsRise
<1>3. \A g \in content : ~(Position(g, content) > to) BY <1>1, <1>2
<1>4. After(content, to) = {} BY <1>3 DEF After
<1>5. After(content, from) = Between(content, from, to) \cup After(content, to) BY RowsSplit
<1> QED BY <1>4, <1>5 DEF Wanted, Given

\* The rows from an offset up to a row are as many as the position of the row says.
LEMMA RowsCounted ==
  ASSUME NEW content \in SUBSET Groups, NEW from \in Nat, NEW last \in content,
         from < Position(last, content)
  PROVE  /\ Between(content, from, Position(last, content))
              = {g \in content : Position(g, content) > from /\ g <= last}
         /\ Cardinality(Between(content, from, Position(last, content)))
              = Position(last, content) - from
<1> DEFINE upTo(k) == {h \in content : h <= k}
           to == Position(last, content)
           first == {g \in content : Position(g, content) <= from}
           rest == Between(content, from, to)
<1>1. IsFiniteSet(content) /\ content \subseteq Nat BY FiniteGroups
<1>2. Cardinality(content) \in Nat /\ \A g \in content : Position(g, content) \in 1..Cardinality(content)
  BY <1>1, FS_CardinalityType, PositionsRise
<1>3. ASSUME NEW k \in content, NEW g \in content
      PROVE  g <= k <=> Position(g, content) <= Position(k, content)
  <2>1. g < k => Position(g, content) < Position(k, content) BY <1>1, PositionsRise
  <2>2. k < g => Position(k, content) < Position(g, content) BY <1>1, PositionsRise
  <2>3. g \in Nat /\ k \in Nat /\ Position(g, content) \in Nat /\ Position(k, content) \in Nat
    BY <1>1, <1>2
  <2> QED BY <2>1, <2>2, <2>3
<1>4. rest = {g \in content : Position(g, content) > from /\ g <= last}
  BY <1>2, <1>3 DEF Between
<1>5. upTo(last) = first \cup rest /\ first \cap rest = {}
  BY <1>2, <1>3 DEF Between
<1>6. Cardinality(first) = from
  <2>1. CASE from = 0
    <3>1. first = {} BY <2>1, <1>2
    <3> HIDE DEF first
    <3> QED BY <3>1, <2>1, FS_EmptySet
  <2>2. CASE from # 0
    <3>1. from \in 1..Cardinality(content) BY <2>2, <1>2
    <3>2. PICK k \in content : Position(k, content) = from BY <3>1, <1>1, PositionsTaken
    <3>3. first = upTo(k) BY <3>2, <1>3
    <3> HIDE DEF first
    <3> QED BY <3>2, <3>3 DEF Position
  <2> QED BY <2>1, <2>2
<1>7. IsFiniteSet(first) /\ IsFiniteSet(rest)
  <2>1. first \in SUBSET content /\ rest \in SUBSET content BY DEF Between
  <2> HIDE DEF first, rest
  <2> QED BY <2>1, <1>1, FS_Subset
<1>8. Cardinality(upTo(last)) = to BY DEF Position
<1> HIDE DEF first, rest, upTo
<1>9. to = from + Cardinality(rest) BY <1>5, <1>6, <1>7, <1>8, Disjoint
<1>10. Cardinality(rest) \in Nat BY <1>7, FS_CardinalityType
<1> QED BY <1>4, <1>9, <1>10 DEF rest

-----------------------------------------------------------------------------
(* Paging.                                                                  *)

Answer(f, content, filter, limit, scan, offset, filled) ==
  LET read == Read(content, offset, scan)
      hits == read \cap filter
      full == {g \in hits : Position(g, hits) = limit - filled}
      used == {g \in read : \A last \in full : g <= last}
      more == HasNext(content, offset, scan)
      got == InOrder(used \cap filter)
  IN  CASE full # {} /\ (used # read \/ more) -> got \o f[Consumed(offset, used)][0]
        [] full = {} /\ more -> got \o f[offset + scan][filled + Cardinality(hits)]
        [] OTHER -> got

Pager(f, content, filter, limit, scan) ==
  f = [offset \in 0..N |-> [filled \in 0..(limit - 1) |->
         Answer(f, content, filter, limit, scan, offset, filled)]]

LEMMA PagedIsPager ==
  ASSUME NEW content, NEW filter, NEW limit, NEW scan
  PROVE  Paged(content, filter, limit, scan)
           = (CHOOSE f : Pager(f, content, filter, limit, scan))[0][0]
BY DEF Paged, Pager, Answer

LEMMA PagerAt ==
  ASSUME NEW content, NEW filter, NEW limit, NEW scan, NEW f, Pager(f, content, filter, limit, scan),
         NEW offset \in 0..N, NEW filled \in 0..(limit - 1)
  PROVE  f[offset][filled] = Answer(f, content, filter, limit, scan, offset, filled)
<1> DEFINE row(o) == [n \in 0..(limit - 1) |-> Answer(f, content, filter, limit, scan, o, n)]
<1>1. f = [o \in 0..N |-> row(o)] BY DEF Pager
<1>2. f[offset] = row(offset)
  <2> HIDE DEF row
  <2> QED BY <1>1
<1> QED BY <1>2

-----------------------------------------------------------------------------
(* The answers of a pager that is right about all later offsets.            *)

\* Of a function over offsets: right from an offset on, with any start of an answer.
RightAfter(f, content, filter, limit, offset) ==
  \A o \in 0..N, n \in 0..(limit - 1) : o > offset => f[o][n] = Wanted(content, filter, o)

LEMMA AnswerIsRight ==
  ASSUME NEW content \in SUBSET Groups, NEW filter, NEW limit \in Nat \ {0}, NEW scan \in Nat \ {0},
         NEW offset \in 0..N, NEW filled \in 0..(limit - 1),
         NEW f, RightAfter(f, content, filter, limit, offset)
  PROVE  Answer(f, content, filter, limit, scan, offset, filled) = Wanted(content, filter, offset)
<1> DEFINE read == Read(content, offset, scan)
           hits == read \cap filter
           full == {g \in hits : Position(g, hits) = limit - filled}
           used == {g \in read : \A last \in full : g <= last}
           more == HasNext(content, offset, scan)
           got == InOrder(used \cap filter)
           goOn == got \o f[Consumed(offset, used)][0]
           readOn == got \o f[offset + scan][filled + Cardinality(hits)]
<1>1. Answer(f, content, filter, limit, scan, offset, filled)
        = CASE full # {} /\ (used # read \/ more) -> goOn
            [] full = {} /\ more -> readOn
            [] OTHER -> got
  BY DEF Answer
<1>2. IsFiniteSet(content) /\ content \subseteq Nat /\ Cardinality(content) \in Nat
  BY FiniteGroups
<1>3. Cardinality(content) <= N /\ N \in Nat
  <2>1. N \in Nat BY ProjectionAssumption DEF ProjectionAssumption
  <2>2. IsFiniteSet(1..N) /\ Cardinality(1..N) = N BY <2>1, FS_Interval
  <2> QED BY <2>1, <2>2, FS_Subset DEF Groups
<1>4. \A g \in content : Position(g, content) \in 1..Cardinality(content) BY <1>2, PositionsRise
<1>5. offset \in Nat /\ offset + scan \in Nat /\ offset < offset + scan BY <1>3
<1>6. read = Between(content, offset, offset + scan) BY DEF Read, Between
<1>7. hits \in SUBSET content /\ read \in SUBSET content BY DEF Read
<1>8. IsFiniteSet(hits) /\ hits \subseteq Nat /\ Cardinality(hits) \in Nat
  <2> HIDE DEF hits
  <2> QED BY <1>2, <1>7, FS_Subset, FS_CardinalityType
<1>9. /\ Wanted(content, filter, offset)
           = Given(content, filter, offset, offset + scan) \o Wanted(content, filter, offset + scan)
      /\ ~more => Wanted(content, filter, offset) = Given(content, filter, offset, offset + scan)
  <2> DEFINE next == offset + scan
  <2>1. next \in Nat /\ offset <= next BY <1>5
  <2>2. ~more => Cardinality(content) <= next BY <1>2, <1>5 DEF HasNext
  <2> HIDE DEF more, next
  <2>3. Splits(content, filter, offset, next) BY <2>1, <1>5, WantedSplits
  <2>4. ~more => Wanted(content, filter, offset) = Given(content, filter, offset, next)
    BY <2>1, <2>2, <1>5, LastRows
  <2> QED BY <2>3, <2>4 DEF Splits, next
<1>10. CASE full = {}
  <2>1. used = read BY <1>10
  <2>2. CASE more
    <3>1. offset + scan \in 0..N /\ offset + scan > offset
      BY <2>2, <1>2, <1>3, <1>5 DEF HasNext
    <3>2. filled + Cardinality(hits) \in 0..(limit - 1)
      <4>1. Cardinality(hits) < limit - filled
        <5>1. ~(limit - filled \in 1..Cardinality(hits))
          <6> SUFFICES ASSUME limit - filled \in 1..Cardinality(hits) PROVE FALSE OBVIOUS
          <6>1. PICK g \in hits : Position(g, hits) = limit - filled
            <7> HIDE DEF hits
            <7> QED BY <1>8, PositionsTaken
          <6> QED BY <6>1, <1>10
        <5> HIDE DEF hits
        <5> QED BY <5>1, <1>8
      <4> HIDE DEF hits
      <4> QED BY <4>1, <1>8
    <3>3. f[offset + scan][filled + Cardinality(hits)] = Wanted(content, filter, offset + scan)
      <4> HIDE DEF hits
      <4> QED BY <3>1, <3>2 DEF RightAfter
    <3>4. got = Given(content, filter, offset, offset + scan) BY <2>1, <1>6 DEF Given
    <3>5. readOn = got \o Wanted(content, filter, offset + scan)
      <4> HIDE DEF got, hits
      <4> QED BY <3>3
    <3>6. readOn = Wanted(content, filter, offset)
      <4> HIDE DEF got, readOn, more
      <4> QED BY <3>4, <3>5, <1>9
    <3> HIDE DEF full, used, readOn, goOn, got, read, more
    <3> QED BY <1>1, <1>10, <2>2, <3>6
  <2>3. CASE ~more
    <3>1. got = Given(content, filter, offset, offset + scan) BY <2>1, <1>6 DEF Given
    <3>2. got = Wanted(content, filter, offset)
      <4> HIDE DEF got, more
      <4> QED BY <2>3, <3>1, <1>9
    <3> HIDE DEF full, used, readOn, goOn, got, read, more
    <3> QED BY <1>1, <1>10, <2>3, <3>2
  <2> QED BY <2>2, <2>3
<1>11. CASE full # {}
  <2>1. PICK last \in hits : full = {last}
    <3>1. PICK last \in full : TRUE BY <1>11
    <3>2. \A g, h \in hits : Position(g, hits) = Position(h, hits) => g = h
      <4> HIDE DEF hits
      <4> QED BY <1>8, PositionsTaken
    <3> QED BY <3>1, <3>2
  <2> DEFINE to == Position(last, content)
  <2>2. last \in content /\ last \in read /\ to \in Nat /\ to > offset /\ to <= offset + scan
        /\ to <= Cardinality(content)
    BY <1>3, <1>4, <1>5, <1>7 DEF Read
  <2>3. used = {g \in read : g <= last}
    <3> HIDE DEF read
    <3> QED BY <2>1
  <2>4. ASSUME NEW g \in content, g <= last PROVE Position(g, content) <= to
    <3>1. g < last => Position(g, content) < to BY <1>2, <2>2, PositionsRise
    <3>2. g = last \/ g < last BY <1>2, <2>2, <2>4
    <3> QED BY <3>1, <3>2, <2>2, <1>4
  <2>5. used = Between(content, offset, to)
    <3>1. Between(content, offset, to) = {g \in content : Position(g, content) > offset /\ g <= last}
      BY <1>5, <2>2, RowsCounted
    <3>2. \A g \in content : g \in read /\ g <= last <=> Position(g, content) > offset /\ g <= last
      BY <2>2, <2>4, <1>4, <1>5 DEF Read
    <3> HIDE DEF read
    <3> QED BY <2>3, <3>1, <3>2, <1>7
  <2>6. Consumed(offset, used) = to
    <3>1. Cardinality(Between(content, offset, to)) = to - offset BY <1>5, <2>2, RowsCounted
    <3> HIDE DEF used, to
    <3> QED BY <2>2, <2>5, <3>1, <1>5 DEF Consumed
  <2>7. f[to][0] = Wanted(content, filter, to)
    <3> HIDE DEF to
    <3>1. to \in 0..N /\ to > offset /\ 0 \in 0..(limit - 1) BY <2>2, <1>2, <1>3
    <3> QED BY <3>1 DEF RightAfter
  <2>8. goOn = Wanted(content, filter, offset)
    <3>1. got = Given(content, filter, offset, to)
      <4> HIDE DEF used, to
      <4> QED BY <2>5 DEF Given
    <3>2. goOn = got \o Wanted(content, filter, to)
      <4> HIDE DEF got, used, to
      <4> QED BY <2>6, <2>7
    <3> HIDE DEF goOn, got, to
    <3>3. Splits(content, filter, offset, to)
      <4>1. offset <= to BY <2>2, <1>5
      <4> QED BY <4>1, <2>2, <1>5, WantedSplits
    <3> QED BY <3>1, <3>2, <3>3 DEF Splits
  <2>9. ASSUME used = read, ~more PROVE got = Wanted(content, filter, offset)
    <3>1. got = Given(content, filter, offset, offset + scan) BY <2>9, <1>6 DEF Given
    <3> HIDE DEF got, more
    <3> QED BY <2>9, <3>1, <1>9
  <2> HIDE DEF full, used, readOn, goOn, got, read, more
  <2> QED BY <1>1, <1>11, <2>8, <2>9
<1> QED BY <1>10, <1>11

-----------------------------------------------------------------------------
(* There is such a pager, and no other.                                     *)

LEMMA PagerExists ==
  ASSUME NEW content \in SUBSET Groups, NEW filter, NEW limit \in Nat \ {0}, NEW scan \in Nat \ {0}
  PROVE  \E f : Pager(f, content, filter, limit, scan)
<1> DEFINE w == [offset \in 0..N |-> [filled \in 0..(limit - 1) |-> Wanted(content, filter, offset)]]
<1>1. ASSUME NEW offset \in 0..N, NEW filled \in 0..(limit - 1)
      PROVE  Wanted(content, filter, offset) = Answer(w, content, filter, limit, scan, offset, filled)
  <2>1. RightAfter(w, content, filter, limit, offset) BY DEF RightAfter
  <2> HIDE DEF w
  <2> QED BY <2>1, AnswerIsRight
<1>2. w = [offset \in 0..N |-> [filled \in 0..(limit - 1) |->
             Answer(w, content, filter, limit, scan, offset, filled)]]
  <2> DEFINE answer(o, n) == Answer(w, content, filter, limit, scan, o, n)
             wanted(o) == Wanted(content, filter, o)
  <2>1. \A o \in 0..N, n \in 0..(limit - 1) : wanted(o) = answer(o, n) BY <1>1
  <2> HIDE DEF answer, wanted
  <2>2. [o \in 0..N |-> [n \in 0..(limit - 1) |-> wanted(o)]]
          = [o \in 0..N |-> [n \in 0..(limit - 1) |-> answer(o, n)]]
    <3>1. \A o \in 0..N : [n \in 0..(limit - 1) |-> wanted(o)] = [n \in 0..(limit - 1) |-> answer(o, n)]
      BY <2>1
    <3> DEFINE v(o) == [n \in 0..(limit - 1) |-> wanted(o)]
               a(o) == [n \in 0..(limit - 1) |-> answer(o, n)]
    <3>2. \A o \in 0..N : v(o) = a(o) BY <3>1
    <3> HIDE DEF v, a
    <3>3. [o \in 0..N |-> v(o)] = [o \in 0..N |-> a(o)] BY <3>2
    <3> QED BY <3>3 DEF v, a
  <2> QED BY <2>2 DEF answer, wanted
<1>3. Pager(w, content, filter, limit, scan)
  <2> HIDE DEF w
  <2> QED BY <1>2 DEF Pager
<1> QED BY <1>3

Right(f, content, filter, limit) ==
  \A o \in 0..N, n \in 0..(limit - 1) : f[o][n] = Wanted(content, filter, o)

\* Of the offsets at which a pager is wrong, the last one cannot be.
LEMMA PagersAreRight ==
  ASSUME NEW content \in SUBSET Groups, NEW filter, NEW limit \in Nat \ {0}, NEW scan \in Nat \ {0},
         NEW f, Pager(f, content, filter, limit, scan)
  PROVE  Right(f, content, filter, limit)
<1> DEFINE wrong == {o \in 0..N : \E n \in 0..(limit - 1) : f[o][n] # Wanted(content, filter, o)}
<1>1. SUFFICES ASSUME wrong # {} PROVE FALSE BY DEF Right
<1>2. IsFiniteSet(wrong) /\ wrong \subseteq Nat
  <2>1. IsFiniteSet(0..N) BY FS_Interval, ProjectionAssumption DEF ProjectionAssumption
  <2>2. wrong \in SUBSET (0..N) OBVIOUS
  <2> HIDE DEF wrong
  <2>3. IsFiniteSet(wrong) BY <2>1, <2>2, FS_Subset
  <2> QED BY <2>2, <2>3
<1>3. PICK last \in wrong : \A o \in wrong : o <= last
  <2> HIDE DEF wrong
  <2>1. Cardinality(wrong) \in Nat /\ Cardinality(wrong) # 0
    BY <1>1, <1>2, FS_CardinalityType, FS_EmptySet
  <2>2. PICK last \in wrong : Position(last, wrong) = Cardinality(wrong)
    <3>1. Cardinality(wrong) \in 1..Cardinality(wrong) BY <2>1
    <3> QED BY <1>2, <3>1, PositionsTaken
  <2>3. ASSUME NEW o \in wrong PROVE o <= last
    <3>1. Position(o, wrong) \in 1..Cardinality(wrong) BY <1>2, PositionsRise
    <3>2. last < o => Position(last, wrong) < Position(o, wrong) BY <1>2, PositionsRise
    <3> QED BY <3>1, <3>2, <2>1, <2>2, <1>2
  <2> QED BY <2>3
<1>4. RightAfter(f, content, filter, limit, last)
  <2> SUFFICES ASSUME NEW o \in 0..N, NEW n \in 0..(limit - 1), o > last
               PROVE  f[o][n] = Wanted(content, filter, o)
    BY DEF RightAfter
  <2>1. o \notin wrong BY <1>2, <1>3
  <2> QED BY <2>1
<1>5. PICK n \in 0..(limit - 1) : f[last][n] # Wanted(content, filter, last) BY <1>3
<1>6. last \in 0..N BY <1>3
<1>7. f[last][n] = Answer(f, content, filter, limit, scan, last, n) BY <1>6, PagerAt
<1>8. f[last][n] = Wanted(content, filter, last) BY <1>4, <1>6, <1>7, AnswerIsRight
<1> QED BY <1>5, <1>8

LEMMA PagedIsRight ==
  ASSUME NEW content \in SUBSET Groups, NEW filter, NEW limit \in Nat \ {0}, NEW scan \in Nat \ {0}
  PROVE  Paged(content, filter, limit, scan) = InOrder(content \cap filter)
<1>1. PICK f : f = CHOOSE g : Pager(g, content, filter, limit, scan) OBVIOUS
<1>2. Pager(f, content, filter, limit, scan) BY <1>1, PagerExists
<1>3. Paged(content, filter, limit, scan) = f[0][0] BY <1>1, PagedIsPager
<1>4. f[0][0] = Wanted(content, filter, 0)
  <2>1. Right(f, content, filter, limit) BY <1>2, PagersAreRight
  <2>2. 0 \in 0..N /\ 0 \in 0..(limit - 1) BY ProjectionAssumption DEF ProjectionAssumption
  <2> QED BY <2>1, <2>2 DEF Right
<1>5. After(content, 0) = content
  <2>1. IsFiniteSet(content) /\ content \subseteq Nat BY FiniteGroups
  <2>2. \A g \in content : Position(g, content) \in 1..Cardinality(content) BY <2>1, PositionsRise
  <2> QED BY <2>2 DEF After
<1> QED BY <1>3, <1>4, <1>5 DEF Wanted

-----------------------------------------------------------------------------
\* In every reachable state a version that is written is known to its refresh alone, one that is
\* deleted is not current, and what the reader has seen belongs to one whole version.
THEOREM Invariant == Spec => []IInv
BY Begins, Continues, PTL DEF Spec

\* Every variable keeps its type.
THEOREM TypeCorrect == Spec => []TypeOK
<1>1. IInv => TypeOK BY DEF IInv
<1> QED BY <1>1, Invariant, PTL

\* Overlapping refreshes never leave the pointer at a version that lacks rows, for any number
\* of them, of groups, and of rows in a batch.
THEOREM PointerIsWhole == Spec => []CurrentIsWhole
<1>1. IInv => CurrentIsWhole BY DEF IInv
<1> QED BY <1>1, Invariant, PTL

\* A request that knows a version sees all its rows or none, however late it reads them.
THEOREM PagesAreNotTorn == Spec => []NoTornPage
<1>1. IInv => NoTornPage BY DEF IInv
<1> QED BY <1>1, Invariant, PTL

\* A client that pages while the pointer stays gets every group of the projection that its
\* filter takes, once and in order (api.ts:102), for any number of groups, any size of an
\* answer, and any number of rows that one statement reads.
THEOREM PagesAreExact == Spec => []PagesExact
<1>1. IInv => PagesExact
  <2> SUFFICES ASSUME IInv, pointer # "none",
                      NEW filter \in Filters, NEW scan \in 1..N, NEW limit \in 1..scan
               PROVE  Paged(rows[pointer], filter, limit, scan) = InOrder(planned[pointer] \cap filter)
    BY DEF PagesExact
  <2>1. rows[pointer] = planned[pointer] /\ rows[pointer] \in SUBSET Groups
    BY DEF IInv, CurrentIsWhole, TypeOK
  <2>2. limit \in Nat \ {0} /\ scan \in Nat \ {0} OBVIOUS
  <2> QED BY <2>1, <2>2, PagedIsRight
<1> QED BY <1>1, Invariant, PTL
=============================================================================
