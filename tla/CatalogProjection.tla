------------------------- MODULE CatalogProjection -------------------------
(***************************************************************************)
(* The grouped catalog that the app browses: a copy of the catalog that a   *)
(* refresh rebuilds under a version of its own and then points to           *)
(* (refreshCatalogProjection of cloudflare/worker.ts, putCatalogProjection  *)
(* and listCatalogProjection of cloudflare/d1-store.ts), and GET /catalog of  *)
(* src/api.ts, which pages through it (projectedCatalogPage).               *)
(*                                                                         *)
(* The maintenance cron and operators refresh at once. Groups are numbered  *)
(* in the order shown, which a change does not move. The version,  *)
(* a hash of the time and the groups, is new in every refresh; one that     *)
(* nobody knows any more is used again. The pointer stays younger than a    *)
(* day, after which a request would read the catalog itself.                *)
(***************************************************************************)
EXTENDS Integers, FiniteSets, Sequences

CONSTANTS
  N,          \* groups
  Refreshes,  \* invocations that refresh
  Cron,       \* the one of the maintenance cron
  Versions,   \* versions known to anybody at once
  ReadPage,   \* groups that one statement reads from the catalog
  Batch,      \* rows that one batch writes
  Changing,   \* groups that appear and go
  Filters,    \* sets of groups that filters take
  MaxChanges  \* bound: changes of the catalog

Groups == 1..N
ASSUME ProjectionAssumption ==
  /\ N \in Nat /\ MaxChanges \in Nat /\ {ReadPage, Batch} \subseteq Nat \ {0}
  /\ Cron \in Refreshes /\ Changing \subseteq Groups /\ Filters \subseteq SUBSET Groups /\ "none" \notin Versions

VARIABLES
  catalog,  \* groups with roles in the catalog
  changes,
  pointer,  \* version of the row CURRENT
  rows,     \* groups with a row in each version
  planned,  \* what the refresh of a version set out to write
  refresh,  \* what each refresh knows
  reader    \* a request between its two reads; requests only read

vars == <<catalog, changes, pointer, rows, planned, refresh, reader>>

-----------------------------------------------------------------------------
Idle == [pc |-> "idle"]
Init ==
  /\ catalog = Groups /\ changes = 0 /\ pointer = "none"
  /\ rows = [v \in Versions |-> {}] /\ planned = [v \in Versions |-> {}]
  /\ refresh = [r \in Refreshes |-> Idle] /\ reader = Idle

Holds(x, v) == \/ x.pc \in {"write", "delete"} /\ v \in {x.version, x.previous}
               \/ x.pc = "fetch" /\ v = x.version
Unknown(v) == v # pointer /\ ~Holds(reader, v) /\ \A r \in Refreshes : ~Holds(refresh[r], v)

\* Rows of a version that nobody knows any more are never read, and not kept here.
Kept(content) == [v \in Versions |-> IF Unknown(v)' THEN {} ELSE content[v]]
Keep(newRows, newPlanned) == rows' = Kept(newRows) /\ planned' = Kept(newPlanned)

\* A group of the catalog appears or goes.
Change(g) ==
  /\ changes < MaxChanges /\ changes' = changes + 1
  /\ catalog' = IF g \in catalog THEN catalog \ {g} ELSE catalog \cup {g}
  /\ UNCHANGED <<pointer, rows, planned, refresh, reader>>

-----------------------------------------------------------------------------
(* A refresh *)

To(r, next) == refresh' = [refresh EXCEPT ![r] = next]

\* Mutant: a refresh does nothing once there is a projection.
StartMissing(r) ==
  /\ refresh[r] = Idle /\ pointer = "none"
  /\ To(r, [pc |-> "list", read |-> 0, found |-> {}])
  /\ UNCHANGED <<catalog, changes, pointer, rows, planned, reader>>

Start(r) ==
  /\ refresh[r] = Idle
  /\ To(r, [pc |-> "list", read |-> 0, found |-> {}])
  /\ UNCHANGED <<catalog, changes, pointer, rows, planned, reader>>

\* listCatalog: a page of the catalog as it is now.
List(r) ==
  LET x == refresh[r]
      page == (x.read + 1) .. (x.read + ReadPage)
  IN  /\ x.pc = "list"
      /\ To(r, [pc |-> IF x.read + ReadPage < N THEN "list" ELSE "begin",
                read |-> x.read + ReadPage, found |-> x.found \cup (catalog \cap page)])
      /\ UNCHANGED <<catalog, changes, pointer, rows, planned, reader>>

\* putCatalogProjection reads which version it will replace.
Begin(r) ==
  /\ refresh[r].pc = "begin" /\ \E v \in Versions : Unknown(v)
  /\ LET v == CHOOSE v \in Versions : Unknown(v)
     IN  /\ To(r, [pc |-> "write", version |-> v, previous |-> pointer, at |-> 0])
         /\ UNCHANGED <<pointer, reader>>
         /\ Keep([rows EXCEPT ![v] = {}], [planned EXCEPT ![v] = refresh[r].found])
  /\ UNCHANGED <<catalog, changes>>

\* Rows have the order of their groups.
Position(g, groups) == Cardinality({h \in groups : h <= g})

Write(r) ==
  LET v == refresh[r].version
      chunk == {g \in planned[v] : Position(g, planned[v]) \in (refresh[r].at + 1)..(refresh[r].at + Batch)}
  IN  /\ refresh[r].pc = "write" /\ refresh[r].at < Cardinality(planned[v])
      /\ rows' = [rows EXCEPT ![v] = @ \cup chunk]
      /\ To(r, [refresh[r] EXCEPT !.at = @ + Batch])
      /\ UNCHANGED <<catalog, changes, pointer, planned, reader>>

\* Mutant: the pointer moves after the first batch.
Begun(r) == refresh[r].at > 0

Finished(r) == refresh[r].at >= Cardinality(planned[refresh[r].version])

Point(r) ==
  /\ refresh[r].pc = "write" /\ Finished(r)
  /\ pointer' = refresh[r].version
  /\ To(r, [refresh[r] EXCEPT !.pc = "delete"])
  /\ UNCHANGED <<catalog, changes, reader>> /\ Keep(rows, planned)

\* Mutant: every version that is not pointed to is deleted.
ReplacedOthers(r) == Versions \ {pointer}

\* Only the version seen at the beginning is deleted.
Replaced(r) == {refresh[r].previous} \cap Versions

Delete(r) ==
  /\ refresh[r].pc = "delete"
  /\ To(r, Idle)
  /\ UNCHANGED <<catalog, changes, pointer, reader>>
  /\ Keep([v \in Versions |-> IF v \in Replaced(r) THEN {} ELSE rows[v]], planned)

Dies(r) ==
  /\ refresh[r] # Idle
  /\ To(r, Idle)
  /\ UNCHANGED <<catalog, changes, pointer, reader>> /\ Keep(rows, planned)

-----------------------------------------------------------------------------
(* A reader: GET /catalog *)

\* listCatalogProjection reads the pointer, and then rows of that version.
Look ==
  /\ reader = Idle /\ pointer # "none"
  /\ reader' = [pc |-> "fetch", version |-> pointer]
  /\ UNCHANGED <<catalog, changes, pointer, rows, planned, refresh>>

Fetch ==
  /\ reader # Idle /\ reader' = Idle
  /\ UNCHANGED <<catalog, changes, pointer, refresh>> /\ Keep(rows, planned)

\* A set of groups in the order shown.
InOrder(groups) ==
  [i \in 1..Cardinality(groups) |-> CHOOSE g \in groups : Position(g, groups) = i]

\* The rows, after an offset, that one read of limit scan gets, and whether there are more: a
\* row more than asked for says so.
Read(content, offset, scan) ==
  {g \in content : Position(g, content) \in (offset + 1)..(offset + scan)}
HasNext(content, offset, scan) == Cardinality(content) > offset + scan

\* Mutant: the cursor skips a row.
ConsumedMore(offset, used) == offset + Cardinality(used) + 1

\* The cursor after an answer that is full with the last of the rows it used.
Consumed(offset, used) == offset + Cardinality(used)

\* projectedCatalogPage, asked again and again with the cursor of its last answer: from an
\* offset, with some groups already in the current answer, the groups it still gives.
Paged(content, filter, limit, scan) ==
  LET rest[offset \in 0..N] == [filled \in 0..(limit - 1) |->
        LET read == Read(content, offset, scan)
            hits == read \cap filter
            \* the row that fills the answer, if one does
            full == {g \in hits : Position(g, hits) = limit - filled}
            used == {g \in read : \A last \in full : g <= last}
            more == HasNext(content, offset, scan)
            got == InOrder(used \cap filter)
        IN  CASE full # {} /\ (used # read \/ more) -> got \o rest[Consumed(offset, used)][0]
              [] full = {} /\ more -> got \o rest[offset + scan][filled + Cardinality(hits)]
              [] OTHER -> got]
  IN  rest[0][0]

Next ==
  \/ \E g \in Changing : Change(g)
  \/ \E r \in Refreshes :
       Start(r) \/ List(r) \/ Begin(r) \/ Write(r) \/ Point(r) \/ Delete(r) \/ Dies(r)
  \/ Look \/ Fetch

Spec == Init /\ [][Next]_vars

\* The cron comes every ten minutes, and in the end its invocations do not die.
Steps(r) == Start(r) \/ List(r) \/ Begin(r) \/ Write(r) \/ Point(r) \/ Delete(r)
Fairness == WF_vars(Steps(Cron)) /\ <>[][~Dies(Cron)]_vars

FairSpec == Spec /\ Fairness

-----------------------------------------------------------------------------
RefreshState ==
  {Idle} \cup [pc: {"list", "begin"}, read: Nat, found: SUBSET Groups]
    \cup [pc: {"write", "delete"}, version: Versions, previous: Versions \cup {"none"}, at: Nat]

TypeOK ==
  /\ catalog \subseteq Groups /\ changes \in 0..MaxChanges /\ pointer \in Versions \cup {"none"}
  /\ rows \in [Versions -> SUBSET Groups] /\ planned \in [Versions -> SUBSET Groups]
  /\ refresh \in [Refreshes -> RefreshState]
  /\ reader \in {Idle} \cup [pc: {"fetch"}, version: Versions]

\* The version pointed to has all its rows, though refreshes overlap, lose the race for the
\* pointer or die (the comment at d1-store.ts:670 claims it).
CurrentIsWhole == pointer # "none" => rows[pointer] = planned[pointer]

\* A request that read the pointer before it moved sees all of the old version or nothing.
NoTornPage == reader # Idle => rows[reader.version] \in {planned[reader.version], {}}

\* While the pointer stays, a client that pages gets every group that its filter takes, once
\* and in order, whatever the groups of an answer and the rows read at once.
PagesExact ==
  pointer # "none" =>
    \A filter \in Filters, scan \in 1..N : \A limit \in 1..scan :
      Paged(rows[pointer], filter, limit, scan) = InOrder(planned[pointer] \cap filter)

\* When the catalog comes to rest, the projection ends up showing it, although a refresh that
\* read the catalog long ago may have overwritten a newer one.
CatchesUp == <>[](pointer # "none" /\ rows[pointer] = catalog)
=============================================================================
