------------------------------- MODULE Alerts -------------------------------
(***************************************************************************)
(* GET /alerts of api/src/routes/alerts.ts: one page of the archive,       *)
(* newest first, by keyset on the message id.  A snowflake grows with the  *)
(* time of sending, so an id is a natural number here.                     *)
(***************************************************************************)
EXTENDS Selection

CONSTANT Limit   \* the page size a client asks for

ASSUME LimitAssumption == Limit \in Nat \ {0}

\* The parameter `deleted`; the other filters never change for a message.
DeletedFilter == {"any", "only", "exclude"}

\* Absence of a cursor; ids are positive.
NoCursor == 0

\* The where clause over the stored ids, some of which are deleted.
Matching(filter, stored, deleted) ==
    CASE filter = "any"     -> stored
      [] filter = "only"    -> stored \cap deleted
      [] filter = "exclude" -> stored \ deleted

\* Everything strictly older than the cursor.
After(ids, cursor) == {id \in ids : cursor = NoCursor \/ id < cursor}

\* orderBy: id desc, take: n.
NewestFirst(ids, n) ==
    LET size == IF Cardinality(ids) < n THEN Cardinality(ids) ELSE n
    IN  [i \in 1 .. size |-> Nth(ids, Cardinality(ids) + 1 - i)]

\* Mutant: no extra row is asked for.
PageWithoutProbe(ids, cursor) ==
    LET rows == NewestFirst(After(ids, cursor), Limit)
    IN  [data |-> rows, next |-> NoCursor]

\* Mutant: the cursor is the first row left out, which is then never sent.
PageFromProbe(ids, cursor) ==
    LET rows == NewestFirst(After(ids, cursor), Limit + 1)
    IN  IF Len(rows) > Limit
        THEN [data |-> SubSeq(rows, 1, Limit), next |-> rows[Limit + 1]]
        ELSE [data |-> rows, next |-> NoCursor]

\* One row more than the page holds tells whether there is another page.
Page(ids, cursor) ==
    LET rows == NewestFirst(After(ids, cursor), Limit + 1)
    IN  IF Len(rows) > Limit
        THEN [data |-> SubSeq(rows, 1, Limit), next |-> rows[Limit]]
        ELSE [data |-> rows, next |-> NoCursor]
=============================================================================
