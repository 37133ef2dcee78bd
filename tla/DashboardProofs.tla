--------------------------- MODULE DashboardProofs ---------------------------
(***************************************************************************)
(* Proofs about module Dashboard, for any number of messages and any page  *)
(* size: first what a page of GET /alerts holds, then the list.            *)
(***************************************************************************)
EXTENDS Dashboard, SelectionProofs, SequenceTheorems

-----------------------------------------------------------------------------
(* Pages. *)

Descending(s) == \A i, j \in DOMAIN s : i < j => s[i] > s[j]

\* Nothing below the cursor, if there is one.
AtLeast(ids, from) == from # NoCursor => \A id \in ids : id >= from

Sorted(answer) ==
    /\ Descending(answer.data)
    /\ AtLeast(ToSet(answer.data), answer.next)
    /\ answer.next # NoCursor => answer.next \in ToSet(answer.data)

\* The n newest of ids in order, all of them if they are fewer.
IsNewest(rows, ids, n) ==
    /\ rows \in Seq(ids)
    /\ Len(rows) <= n
    /\ Descending(rows)
    /\ \A i \in DOMAIN rows, id \in ids :
          id >= rows[i] => \E j \in 1 .. i : rows[j] = id
    /\ Len(rows) < n => \A id \in ids : \E j \in DOMAIN rows : rows[j] = id

\* orderBy and take.
LEMMA NewestFirstReturns ==
    ASSUME NEW ids, ids \subseteq Nat, IsFiniteSet(ids), NEW n \in Nat
    PROVE  IsNewest(NewestFirst(ids, n), ids, n)
<1> DEFINE c == Cardinality(ids)
           size == IF c < n THEN c ELSE n
           Old(i) == Nth(ids, c + 1 - i)
           rows == NewestFirst(ids, n)
<1>1. c \in Nat
  BY FS_CardinalityType
<1>2. size \in Nat /\ size <= n /\ size <= c /\ (size < n => size = c)
  BY <1>1
<1>3. rows = [i \in 1 .. size |-> Old(i)]
  BY DEF NewestFirst
<1>4. \A i \in 1 .. c : c + 1 - i \in 1 .. c
  BY <1>1
<1>5. \A i \in 1 .. c : Old(i) \in ids
  BY <1>4, NthIn
<1>6. \A i, j \in 1 .. c : i < j => Old(j) < Old(i)
  <2> SUFFICES ASSUME NEW i \in 1 .. c, NEW j \in 1 .. c, i < j PROVE Old(j) < Old(i)
    OBVIOUS
  <2>1. c + 1 - j < c + 1 - i
    BY <1>1
  <2> QED BY <1>4, <2>1, NthMonotonic
<1>7. \A id \in ids : \E j \in 1 .. c : Old(j) = id
  <2> SUFFICES ASSUME NEW id \in ids PROVE \E j \in 1 .. c : Old(j) = id
    OBVIOUS
  <2>1. PICK k \in 1 .. c : Nth(ids, k) = id
    BY NthOnto
  <2>2. c + 1 - k \in 1 .. c /\ c + 1 - (c + 1 - k) = k
    BY <1>1
  <2> QED BY <2>1, <2>2
<1> HIDE DEF c, size, Old, rows
<1>8. 1 .. size \subseteq 1 .. c
  BY <1>1, <1>2
<1>9. rows \in Seq(ids) /\ Len(rows) = size /\ DOMAIN rows = 1 .. size
  <2>1. rows \in [1 .. size -> ids]
    BY <1>3, <1>5, <1>8
  <2> QED BY <1>2, <2>1
<1>10. \A i \in 1 .. size : rows[i] = Old(i)
  BY <1>3
<1>11. Descending(rows)
  <2>1. \A i, j \in 1 .. size : i < j => Old(i) > Old(j)
    <3> SUFFICES ASSUME NEW i \in 1 .. size, NEW j \in 1 .. size, i < j
                 PROVE  Old(i) > Old(j)
      OBVIOUS
    <3>1. Old(j) < Old(i) /\ Old(i) \in Nat /\ Old(j) \in Nat
      BY <1>5, <1>6, <1>8
    <3> QED BY <3>1
  <2> QED BY <1>9, <1>10, <2>1 DEF Descending
<1>12. ASSUME NEW i \in 1 .. size, NEW id \in ids, id >= rows[i]
       PROVE  \E j \in 1 .. i : rows[j] = id
  <2>1. PICK j \in 1 .. c : Old(j) = id
    BY <1>7
  <2>2. id >= Old(i) /\ Old(i) \in Nat /\ id \in Nat /\ i \in 1 .. c
    BY <1>5, <1>8, <1>10, <1>12
  <2>3. ~(i < j)
    BY <1>6, <2>1, <2>2
  <2>4. j \in 1 .. i /\ j \in 1 .. size
    BY <1>1, <1>2, <2>2, <2>3
  <2> QED BY <1>10, <2>1, <2>4
<1>13. ASSUME size < n, NEW id \in ids PROVE \E j \in 1 .. size : rows[j] = id
  BY <1>2, <1>7, <1>10, <1>13
<1>14. IsNewest(rows, ids, n)
  BY <1>2, <1>9, <1>11, <1>12, <1>13 DEF IsNewest
<1> QED BY <1>14 DEF rows

\* A page: rows that match and are older than the cursor, newest first.  All of
\* them, unless there is a next cursor; then all that are not older than it, so
\* that the next page starts where this one ends.
LEMMA PageReturns ==
    ASSUME NEW ids \in SUBSET Id, NEW from \in Id \cup {NoCursor}
    PROVE  LET page == Page(ids, from)
           IN  /\ page \in Answer
               /\ Sorted(page)
               /\ ToSet(page.data) \subseteq After(ids, from)
               /\ \A id \in After(ids, from) :
                     \/ id \in ToSet(page.data)
                     \/ page.next # NoCursor /\ id < page.next
<1> DEFINE older == After(ids, from)
           rows == NewestFirst(older, Limit + 1)
<1>1. /\ older \subseteq Id /\ older \subseteq Nat
      /\ \A id \in older : id \in Id /\ id \in Nat /\ id # NoCursor
  <2>1. \A id \in Id : id \in Nat /\ id # NoCursor
    BY MaxIdAssumption DEF Id, NoCursor
  <2>2. older \subseteq ids
    BY DEF After
  <2>3. \A id \in older : id \in Id
    BY <2>2
  <2> HIDE DEF older
  <2> QED BY <2>1, <2>3
<1>2. IsFiniteSet(older)
  <2>1. IsFiniteSet(Id)
    <3>1. 1 \in Int /\ MaxId \in Int
      BY MaxIdAssumption
    <3> QED BY <3>1, FS_Interval DEF Id
  <2> QED BY <1>1, <2>1, FS_Subset
<1>3. Limit + 1 \in Nat /\ Limit \in Nat /\ Limit >= 1 /\ Limit < Limit + 1
  BY LimitAssumption
<1>4. /\ rows \in Seq(older)
      /\ Len(rows) <= Limit + 1
      /\ Descending(rows)
      /\ \A i \in DOMAIN rows, id \in older :
            id >= rows[i] => \E j \in 1 .. i : rows[j] = id
      /\ Len(rows) < Limit + 1 =>
            \A id \in older : \E j \in DOMAIN rows : rows[j] = id
  <2> HIDE DEF older
  <2>1. IsNewest(rows, older, Limit + 1)
    BY <1>1, <1>2, <1>3, NewestFirstReturns
  <2> QED BY <2>1 DEF IsNewest
<1>5. Page(ids, from) = IF Len(rows) > Limit
                        THEN [data |-> SubSeq(rows, 1, Limit), next |-> rows[Limit]]
                        ELSE [data |-> rows, next |-> NoCursor]
  BY DEF Page
<1> HIDE DEF older, rows
<1>6. /\ rows \in Seq(Id) /\ Len(rows) \in Nat /\ DOMAIN rows = 1 .. Len(rows)
      /\ \A i \in DOMAIN rows : rows[i] \in older
  <2>1. Len(rows) \in Nat /\ DOMAIN rows = 1 .. Len(rows) /\ \A i \in 1 .. Len(rows) : rows[i] \in older
    BY <1>4
  <2>2. rows = [i \in 1 .. Len(rows) |-> rows[i]]
    BY <1>4
  <2>3. rows \in [1 .. Len(rows) -> Id]
    BY <1>1, <2>1, <2>2
  <2> QED BY <2>1, <2>3
<1>7. ASSUME Len(rows) > Limit
      PROVE  LET page == [data |-> SubSeq(rows, 1, Limit), next |-> rows[Limit]]
             IN  /\ page \in Answer
                 /\ Sorted(page)
                 /\ ToSet(page.data) \subseteq older
                 /\ \A id \in older : \/ id \in ToSet(page.data)
                                      \/ page.next # NoCursor /\ id < page.next
  <2> DEFINE data == SubSeq(rows, 1, Limit)
  <2>1. Limit \in DOMAIN rows /\ 1 .. Limit \subseteq DOMAIN rows
    BY <1>3, <1>6, <1>7
  <2>2. rows[Limit] \in older /\ rows[Limit] \in Id /\ rows[Limit] \in Nat /\ rows[Limit] # NoCursor
    BY <1>1, <1>6, <2>1
  <2>3. /\ data \in Seq(Id) /\ Len(data) = Limit /\ DOMAIN data = 1 .. Limit
        /\ \A i \in 1 .. Limit : data[i] = rows[i]
    <3>1. 1 \in 1 .. Len(rows) + 1 /\ Limit \in 0 .. Len(rows)
      BY <1>3, <1>6, <1>7
    <3>2. data = [i \in 1 .. Limit |-> rows[i]]
      BY <1>3, <1>6, <3>1, SubSeqProperties
    <3>3. data \in [1 .. Limit -> Id]
      BY <1>1, <1>6, <2>1, <3>2
    <3> HIDE DEF data
    <3>4. data \in Seq(Id) /\ Len(data) = Limit /\ DOMAIN data = 1 .. Limit
      BY <1>3, <3>3
    <3> QED BY <3>2, <3>4
  <2> HIDE DEF data
  <2>4. Descending(data)
    BY <1>4, <2>1, <2>3 DEF Descending
  <2>5. \A i \in 1 .. Limit : rows[i] \in Nat /\ rows[i] >= rows[Limit]
    <3> SUFFICES ASSUME NEW i \in 1 .. Limit PROVE rows[i] \in Nat /\ rows[i] >= rows[Limit]
      OBVIOUS
    <3>1. rows[i] \in Nat /\ rows[Limit] \in Nat
      BY <1>1, <1>6, <2>1
    <3>2. i < Limit => rows[i] > rows[Limit]
      BY <1>4, <2>1 DEF Descending
    <3>3. i < Limit \/ i = Limit
      BY <1>3
    <3> QED BY <3>1, <3>2, <3>3
  <2>6. ToSet(data) \subseteq older /\ \A id \in ToSet(data) : id >= rows[Limit]
    BY <1>4, <2>1, <2>3, <2>5 DEF ToSet
  <2>7. rows[Limit] # NoCursor
    BY <2>2
  <2>8. ASSUME NEW id \in older, ~(id < rows[Limit])
        PROVE  id \in ToSet(data)
    <3>1. id >= rows[Limit]
      <4>1. id \in Nat
        BY <1>1
      <4> QED BY <2>2, <2>8, <4>1
    <3>2. PICK j \in 1 .. Limit : rows[j] = id
      BY <1>4, <2>1, <3>1
    <3> QED BY <2>3, <3>2 DEF ToSet
  <2>9. [data |-> data, next |-> rows[Limit]] \in Answer
    BY <2>2, <2>3 DEF Answer
  <2>10. Sorted([data |-> data, next |-> rows[Limit]])
    <3>1. rows[Limit] \in ToSet(data)
      BY <1>3, <2>3 DEF ToSet
    <3> QED BY <2>4, <2>6, <3>1 DEF Sorted, AtLeast
  <2> QED BY <2>6, <2>7, <2>8, <2>9, <2>10 DEF data
<1>8. ASSUME ~(Len(rows) > Limit)
      PROVE  LET page == [data |-> rows, next |-> NoCursor]
             IN  /\ page \in Answer
                 /\ Sorted(page)
                 /\ ToSet(page.data) \subseteq older
                 /\ \A id \in older : \/ id \in ToSet(page.data)
                                      \/ page.next # NoCursor /\ id < page.next
  <2>1. Len(rows) < Limit + 1
    BY <1>3, <1>6, <1>8
  <2>2. \A id \in older : id \in ToSet(rows)
    BY <1>4, <2>1 DEF ToSet
  <2>3. ToSet(rows) \subseteq older
    BY <1>4 DEF ToSet
  <2>4. [data |-> rows, next |-> NoCursor] \in Answer
    BY <1>6 DEF Answer
  <2>5. Sorted([data |-> rows, next |-> NoCursor])
    BY <1>4 DEF Sorted, AtLeast
  <2> QED BY <2>2, <2>3, <2>4, <2>5
<1> QED BY <1>5, <1>7, <1>8 DEF older

-----------------------------------------------------------------------------
(* Rows of a list. *)

\* Two lists one above the other.
LEMMA StackedRows ==
    ASSUME NEW top \in Seq(Id), NEW bottom \in Seq(Id)
    PROVE  /\ top \o bottom \in Seq(Id)
           /\ ToSet(top \o bottom) = ToSet(top) \cup ToSet(bottom)
           /\ (IsInjective(top) /\ IsInjective(bottom) /\ ToSet(top) \cap ToSet(bottom) = {})
                 => IsInjective(top \o bottom)
           /\ (/\ Descending(top) /\ Descending(bottom)
               /\ \A newer \in ToSet(top), older \in ToSet(bottom) : newer > older)
                 => Descending(top \o bottom)
<1> DEFINE both == top \o bottom
<1>1. /\ Len(top) \in Nat /\ DOMAIN top = 1 .. Len(top)
      /\ Len(bottom) \in Nat /\ DOMAIN bottom = 1 .. Len(bottom)
      /\ both \in Seq(Id) /\ DOMAIN both = 1 .. Len(top) + Len(bottom)
  OBVIOUS
<1>2. \A i \in DOMAIN top : i \in DOMAIN both /\ both[i] = top[i]
  BY <1>1
<1>3. \A i \in DOMAIN bottom : Len(top) + i \in DOMAIN both /\ both[Len(top) + i] = bottom[i]
  BY <1>1
<1>4. \A i \in DOMAIN both : \/ i \in DOMAIN top /\ both[i] = top[i]
                             \/ /\ i > Len(top) /\ i - Len(top) \in DOMAIN bottom
                                /\ both[i] = bottom[i - Len(top)]
  BY <1>1
<1> HIDE DEF both
<1>5. ToSet(both) = ToSet(top) \cup ToSet(bottom)
  BY <1>2, <1>3, <1>4 DEF ToSet
<1>6. ASSUME IsInjective(top), IsInjective(bottom), ToSet(top) \cap ToSet(bottom) = {}
      PROVE  IsInjective(both)
  <2> SUFFICES ASSUME NEW i \in DOMAIN both, NEW j \in DOMAIN both, both[i] = both[j]
               PROVE  i = j
    BY DEF IsInjective
  <2>1. \A k \in DOMAIN top, l \in DOMAIN bottom : top[k] # bottom[l]
    BY <1>6 DEF ToSet
  <2>2. CASE i \in DOMAIN top /\ both[i] = top[i] /\ j \in DOMAIN top /\ both[j] = top[j]
    BY <1>6, <2>2 DEF IsInjective
  <2>3. CASE /\ i > Len(top) /\ i - Len(top) \in DOMAIN bottom /\ both[i] = bottom[i - Len(top)]
             /\ j > Len(top) /\ j - Len(top) \in DOMAIN bottom /\ both[j] = bottom[j - Len(top)]
    <3>1. i - Len(top) = j - Len(top)
      BY <1>6, <2>3 DEF IsInjective
    <3> QED BY <1>1, <3>1
  <2> QED BY <1>4, <2>1, <2>2, <2>3
<1>7. ASSUME Descending(top), Descending(bottom),
             \A newer \in ToSet(top), older \in ToSet(bottom) : newer > older
      PROVE  Descending(both)
  <2> SUFFICES ASSUME NEW i \in DOMAIN both, NEW j \in DOMAIN both, i < j
               PROVE  both[i] > both[j]
    BY DEF Descending
  <2>1. \A k \in DOMAIN top, l \in DOMAIN bottom : top[k] > bottom[l]
    BY <1>7 DEF ToSet
  <2>2. CASE i \in DOMAIN top /\ both[i] = top[i] /\ j \in DOMAIN top /\ both[j] = top[j]
    BY <1>7, <2>2 DEF Descending
  <2>3. CASE /\ i > Len(top) /\ i - Len(top) \in DOMAIN bottom /\ both[i] = bottom[i - Len(top)]
             /\ j > Len(top) /\ j - Len(top) \in DOMAIN bottom /\ both[j] = bottom[j - Len(top)]
    <3>1. i - Len(top) < j - Len(top)
      BY <1>1
    <3> QED BY <1>7, <2>3, <3>1 DEF Descending
  <2>4. CASE i \in DOMAIN top /\ both[i] = top[i] /\ j > Len(top)
    BY <1>4, <1>1, <2>1, <2>4
  <2>5. ~(i > Len(top) /\ j \in DOMAIN top)
    BY <1>1
  <2> QED BY <1>4, <2>2, <2>3, <2>4, <2>5
<1> QED BY <1>1, <1>5, <1>6, <1>7 DEF both

\* Rows in strict order are pairwise different.
LEMMA DescendingInjective ==
    ASSUME NEW s \in Seq(Id), Descending(s)
    PROVE  IsInjective(s)
<1>1. \A i \in DOMAIN s : i \in Nat /\ s[i] \in Nat
  <2>1. \A id \in Id : id \in Nat
    BY MaxIdAssumption DEF Id
  <2> QED BY <2>1
<1> SUFFICES ASSUME NEW i \in DOMAIN s, NEW j \in DOMAIN s, s[i] = s[j]
             PROVE  i = j
  BY DEF IsInjective
<1>2. i \in Nat /\ j \in Nat /\ s[i] \in Nat
  BY <1>1
<1>3. ~(i < j) /\ ~(j < i)
  BY <1>2 DEF Descending
<1> QED BY <1>2, <1>3

\* The rows of a page that `shown` does not have, in their order.
LEMMA UnseenReturns ==
    ASSUME NEW data \in Seq(Id)
    PROVE  /\ Unseen(data) \in Seq(Id)
           /\ ToSet(Unseen(data)) = ToSet(data) \ shown
           /\ Descending(data) => Descending(Unseen(data))
<1> DEFINE chosen == {i \in DOMAIN data : data[i] \notin shown}
           rows == Pick(data, chosen)
<1>1. chosen \subseteq DOMAIN data
  OBVIOUS
<1>2. \A i \in DOMAIN data : i \in chosen <=> data[i] \notin shown
  OBVIOUS
<1> HIDE DEF chosen, rows
<1>3. /\ rows \in Seq(Id)
      /\ \A k \in DOMAIN rows : Nth(chosen, k) \in chosen /\ rows[k] = data[Nth(chosen, k)]
      /\ \A k, l \in DOMAIN rows : k < l => Nth(chosen, k) < Nth(chosen, l)
      /\ \A i \in chosen : \E k \in DOMAIN rows : Nth(chosen, k) = i
  BY <1>1, PickType DEF rows
<1>4. ToSet(rows) = ToSet(data) \ shown
  BY <1>1, <1>2, <1>3 DEF ToSet
<1>5. Descending(data) => Descending(rows)
  BY <1>1, <1>3 DEF Descending
<1> QED BY <1>3, <1>4, <1>5 DEF rows, chosen, Unseen

-----------------------------------------------------------------------------
(* Types. *)

\* What the stage of a fetch says of its record.
LEMMA Stages ==
    ASSUME NEW fetch \in Fetch \cup Answered \cup {NoFetch}
    PROVE  /\ fetch.stage = "asked" => fetch \in Fetch
           /\ fetch.stage = "answered" => fetch \in Answered
           /\ fetch = NoFetch <=> fetch.stage = "none"
           /\ fetch # NoFetch => fetch.stage \in {"asked", "answered"} /\ fetch.reset \in BOOLEAN
BY DEF Fetch, Answered, NoFetch

\* The where clause ranges over stored messages.
LEMMA MatchingStored ==
    ASSUME NEW value \in DeletedFilter, TypeOK
    PROVE  Matching(value, stored, deleted) \in SUBSET stored
BY DEF Matching, DeletedFilter, TypeOK

\* A reply holds the page of what matches when the query runs.
LEMMA ReplyReturns ==
    ASSUME NEW fetch \in Fetch, TypeOK
    PROVE  LET reply == Reply(fetch)
               older == After(Matching(fetch.filter, stored, deleted), fetch.cursor)
           IN  /\ reply \in Answered
               /\ reply.stage = "answered" /\ reply.reset = fetch.reset
               /\ Sorted(reply.answer)
               /\ ToSet(reply.answer.data) \subseteq older
               /\ \A id \in older :
                     \/ id \in ToSet(reply.answer.data)
                     \/ reply.answer.next # NoCursor /\ id < reply.answer.next
<1> DEFINE ids == Matching(fetch.filter, stored, deleted)
           from == fetch.cursor
           page == Page(ids, from)
<1>1. fetch.filter \in DeletedFilter /\ from \in Id \cup {NoCursor} /\ fetch.reset \in BOOLEAN
  BY DEF Fetch
<1>2. ids \in SUBSET Id
  BY <1>1, MatchingStored DEF TypeOK
<1>3. Reply(fetch) = [stage |-> "answered", reset |-> fetch.reset, answer |-> page]
  BY DEF Reply
<1> HIDE DEF ids, from, page
<1>4. /\ page \in Answer
      /\ Sorted(page)
      /\ ToSet(page.data) \subseteq After(ids, from)
      /\ \A id \in After(ids, from) :
            \/ id \in ToSet(page.data)
            \/ page.next # NoCursor /\ id < page.next
  BY <1>1, <1>2, PageReturns DEF page
<1>5. Reply(fetch) \in Answered
  BY <1>1, <1>3, <1>4 DEF Answered
<1> QED BY <1>3, <1>4, <1>5 DEF ids, from

\* fetch() leaves with the form's values.
LEMMA AskType ==
    ASSUME NEW value \in DeletedFilter, NEW reset \in BOOLEAN,
           NEW from \in Id \cup {NoCursor}
    PROVE  Ask(value, reset, from) \in Fetch
BY DEF Ask, Fetch

\* What a page gives to render.
LEMMA IncomingRows ==
    ASSUME TypeOK, load.stage = "answered"
    PROVE  /\ load.answer.data \in Seq(Id)
           /\ load.answer.next \in Id \cup {NoCursor}
           /\ load.reset \in BOOLEAN
           /\ Unseen(load.answer.data) \in Seq(Id)
           /\ list \in Seq(Id)
<1>1. load \in Answered
  BY Stages DEF TypeOK
<1>2. load.answer \in Answer /\ load.reset \in BOOLEAN
  BY <1>1 DEF Answered
<1>3. load.answer.data \in Seq(Id) /\ load.answer.next \in Id \cup {NoCursor}
  BY <1>2 DEF Answer
<1> QED BY <1>2, <1>3, UnseenReturns DEF TypeOK

\* The elements of a list of ids.
LEMMA RowsAreIds ==
    ASSUME NEW s \in Seq(Id)
    PROVE  ToSet(s) \subseteq Id /\ \A id \in ToSet(s) : id \in Nat /\ id # NoCursor
<1>1. \A id \in Id : id \in Nat /\ id # NoCursor
  BY MaxIdAssumption DEF Id, NoCursor
<1>2. \A i \in DOMAIN s : s[i] \in Id
  OBVIOUS
<1> QED BY <1>1, <1>2 DEF ToSet

\* Types are preserved.
LEMMA TypeStep == TypeOK /\ [Next]_vars => TypeOK'
<1> SUFFICES ASSUME TypeOK, [Next]_vars PROVE TypeOK'
  OBVIOUS
<1>1. ASSUME NEW id \in Id, Store(id) PROVE TypeOK'
  BY <1>1 DEF TypeOK, Store, form, view
<1>2. ASSUME NEW id \in Id, Delete(id) PROVE TypeOK'
  BY <1>2 DEF TypeOK, Delete, form, view
<1>3. ASSUME NEW value \in DeletedFilter, Reset(value)
      PROVE  /\ load' \in Fetch /\ cursor' \in Id \cup {NoCursor} /\ shown' \subseteq Id
             /\ walk' = BegunWalk /\ UNCHANGED <<list, more>>
  <2>1. Ask(value, TRUE, NoCursor) \in Fetch
    BY AskType
  <2> QED BY <1>3, <2>1 DEF Reset
<1>4. ASSUME Blank
      PROVE  list' \in Seq(Id) /\ walk' = NoWalk /\ UNCHANGED <<shown, cursor, more, load>>
  <2>1. list' = <<>>
    BY <1>4 DEF Blank
  <2> QED BY <1>4, <2>1 DEF Blank
<1>5. NoWalk \in Walk /\ BegunWalk \in Walk
  BY DEF NoWalk, BegunWalk, Walk
<1>6. ASSUME NEW value \in DeletedFilter, ChangeFilter(value) PROVE TypeOK'
  <2>1. /\ filter' = value
        /\ UNCHANGED <<tables, auto, tail>>
        /\ Reset(value) \/ Blank \/ Dropped
    BY <1>6 DEF ChangeFilter
  <2>2. CASE Reset(value)
    BY <1>3, <1>5, <2>1, <2>2 DEF TypeOK, tables
  <2>3. CASE Blank
    BY <1>4, <1>5, <2>1, <2>3 DEF TypeOK, tables
  <2>4. CASE Dropped
    BY <1>5, <2>1, <2>4 DEF TypeOK, tables, view, Dropped
  <2> QED BY <2>1, <2>2, <2>3, <2>4
<1>7. CASE Refresh
  <2>1. UNCHANGED <<tables, form, tail>> /\ (Reset(filter) \/ Blank) /\ filter \in DeletedFilter
    BY <1>7 DEF Refresh, TypeOK
  <2>2. CASE Reset(filter)
    BY <1>3, <1>5, <2>1, <2>2 DEF TypeOK, tables, form
  <2>3. CASE Blank
    BY <1>4, <1>5, <2>1, <2>3 DEF TypeOK, tables, form
  <2> QED BY <2>1, <2>2, <2>3
<1>8. CASE More
  <2>1. Ask(filter, FALSE, cursor) \in Fetch
    BY AskType DEF TypeOK
  <2> QED BY <1>5, <1>8, <2>1 DEF TypeOK, More, tables, form, view
<1>9. CASE AnswerLoad
  <2>1. load \in Fetch
    BY <1>9, Stages DEF AnswerLoad, TypeOK
  <2>2. Reply(load) \in Answered
    BY <2>1, ReplyReturns
  <2>3. Matching(filter, stored, deleted) \in SUBSET Id
    BY MatchingStored DEF TypeOK
  <2>4. walk' \in Walk
    <3>1. deleted \in SUBSET Id /\ walk \in Walk
      BY DEF TypeOK
    <3>2. [stage |-> "on", ids |-> Matching(filter, stored, deleted), gone |-> deleted] \in Walk
      BY <2>3, <3>1 DEF Walk
    <3> QED BY <1>9, <3>1, <3>2 DEF AnswerLoad
  <2> QED BY <1>9, <2>2, <2>4 DEF AnswerLoad, TypeOK, tables, form, view
<1>10. CASE LoadDone
  <2> DEFINE data == load.answer.data
             incoming == IF load.reset THEN data ELSE Unseen(data)
  <2>1. /\ load.stage = "answered"
        /\ list' = IF load.reset THEN data ELSE list \o Unseen(data)
        /\ shown' = shown \cup ToSet(incoming)
        /\ cursor' = load.answer.next
        /\ more' = (load.answer.next # NoCursor)
        /\ load' = NoFetch
        /\ UNCHANGED <<tables, form, tail, walk>>
    BY <1>10 DEF LoadDone, Renders
  <2>2. data \in Seq(Id) /\ Unseen(data) \in Seq(Id) /\ load.answer.next \in Id \cup {NoCursor}
    BY <2>1, IncomingRows
  <2> HIDE DEF data
  <2>3. list' \in Seq(Id) /\ incoming \in Seq(Id)
    BY <2>1, <2>2, StackedRows DEF TypeOK
  <2>4. shown' \subseteq Id
    BY <2>1, <2>3, RowsAreIds DEF TypeOK
  <2> QED BY <2>1, <2>2, <2>3, <2>4 DEF TypeOK, tables, form
<1>11. CASE LoadFails
  <2>1. list' \in Seq(Id)
    BY <1>11 DEF LoadFails, TypeOK
  <2>2. walk' \in Walk
    BY <1>5, <1>11 DEF LoadFails, TypeOK
  <2> QED BY <1>11, <2>1, <2>2 DEF LoadFails, TypeOK, tables, form
<1>12. CASE Tail12s
  <2>1. Ask(filter, FALSE, NoCursor) \in Fetch
    BY AskType DEF TypeOK
  <2> QED BY <1>12, <2>1 DEF TypeOK, Tail12s, tables, form, view
<1>13. CASE AnswerTail
  <2>1. tail \in Fetch
    BY <1>13, Stages DEF AnswerTail, TypeOK
  <2>2. Reply(tail) \in Answered
    BY <2>1, ReplyReturns
  <2> QED BY <1>13, <2>2 DEF AnswerTail, TypeOK, tables, form, view
<1>14. CASE TailDone
  <2> DEFINE fresh == Unseen(tail.answer.data)
  <2>1. tail.stage = "answered" /\ tail \in Answered
    BY <1>14, Stages DEF TailDone, TypeOK
  <2>2. tail.answer.data \in Seq(Id)
    BY <2>1 DEF Answered, Answer
  <2>3. fresh \in Seq(Id)
    BY <2>2, UnseenReturns
  <2>4. /\ list' = fresh \o list /\ shown' = shown \cup ToSet(fresh) /\ tail' = NoFetch
        /\ UNCHANGED <<tables, form, cursor, more, load, walk>>
    BY <1>14 DEF TailDone
  <2> HIDE DEF fresh
  <2>5. list' \in Seq(Id) /\ shown' \subseteq Id
    BY <2>3, <2>4, StackedRows, RowsAreIds DEF TypeOK
  <2> QED BY <2>4, <2>5 DEF TypeOK, tables, form
<1>15. CASE TailFails
  BY <1>15 DEF TypeOK, TailFails, tables, form, view
<1>16. CASE UNCHANGED vars
  BY <1>16 DEF TypeOK, vars
<1> QED BY <1>1, <1>2, <1>6, <1>7, <1>8, <1>9, <1>10, <1>11, <1>12, <1>13, <1>14, <1>15, <1>16 DEF Next

\* The page before it has loaded anything.
LEMMA TypeInit == Init => TypeOK
<1>1. NoWalk \in Walk /\ <<>> \in Seq(Id)
  BY DEF NoWalk, Walk
<1> QED BY <1>1 DEF Init, TypeOK, DeletedFilter

\* The type invariant: deletes are of stored messages, and whatever fetches
\* overlap, each is asked or answered with a page of known ids.
THEOREM TypeCorrect == Spec => []TypeOK
BY TypeInit, TypeStep, PTL DEF Spec

-----------------------------------------------------------------------------
(* Kinds of steps. *)

\* Ingest writes, or nothing happens.
TablesGrow ==
    /\ stored \subseteq stored' /\ deleted \subseteq deleted'
    /\ UNCHANGED <<auto, filter, list, shown, cursor, more, load, tail, walk>>

\* load(true) starts, with the select as it is.
Restarts ==
    /\ load = NoFetch
    /\ load' # NoFetch /\ load'.stage = "asked" /\ load'.reset /\ load'.cursor = NoCursor
    /\ load'.filter = filter'
    /\ cursor' = NoCursor /\ shown' = {} /\ walk' = BegunWalk
    /\ UNCHANGED <<stored, deleted, auto, list, more, tail>>

\* refresh() without a token, or dropped because a load is in flight.
Blanked ==
    /\ list' \in {<<>>, list} /\ walk' = NoWalk
    /\ UNCHANGED <<stored, deleted, auto, shown, cursor, more, load, tail>>

\* Every step is one of these.
LEMMA StepKinds ==
    ASSUME [Next]_vars
    PROVE  \/ TablesGrow \/ Restarts \/ Blanked
           \/ More \/ AnswerLoad \/ LoadDone \/ LoadFails
           \/ Tail12s \/ AnswerTail \/ TailDone \/ TailFails
<1>1. ASSUME NEW id \in Id, Store(id) \/ Delete(id) PROVE TablesGrow
  BY <1>1 DEF Store, Delete, TablesGrow, form, view
<1>2. ASSUME Reset(filter'), UNCHANGED <<stored, deleted, auto, tail>> PROVE Restarts
  <2>1. load' = Ask(filter', TRUE, NoCursor) /\ load = NoFetch
    BY <1>2 DEF Reset, Loading
  <2>2. /\ load' # NoFetch /\ load'.stage = "asked" /\ load'.reset /\ load'.cursor = NoCursor
        /\ load'.filter = filter'
    BY <2>1 DEF Ask, NoFetch
  <2> QED BY <1>2, <2>1, <2>2 DEF Reset, Restarts
<1>3. ASSUME NEW value \in DeletedFilter, ChangeFilter(value) PROVE Restarts \/ Blanked
  <2>1. filter' = value /\ (Reset(value) \/ Blank \/ Dropped) /\ UNCHANGED <<stored, deleted, auto, tail>>
    BY <1>3 DEF ChangeFilter, tables
  <2> QED BY <1>2, <2>1 DEF Blank, Blanked, Dropped, view
<1>4. ASSUME Refresh PROVE Restarts \/ Blanked
  <2>1. filter' = filter /\ (Reset(filter) \/ Blank) /\ UNCHANGED <<stored, deleted, auto, tail>>
    BY <1>4 DEF Refresh, tables, form
  <2> QED BY <1>2, <2>1 DEF Blank, Blanked
<1>5. ASSUME UNCHANGED vars PROVE TablesGrow
  BY <1>5 DEF vars, TablesGrow
<1> QED BY <1>1, <1>3, <1>4, <1>5 DEF Next

\* What LoadDone renders.
LEMMA LoadDoneRenders ==
    ASSUME LoadDone
    PROVE  /\ load.stage = "answered"
           /\ load.reset => /\ list' = load.answer.data
                            /\ shown' = shown \cup ToSet(load.answer.data)
           /\ ~load.reset => /\ list' = list \o Unseen(load.answer.data)
                             /\ shown' = shown \cup ToSet(Unseen(load.answer.data))
           /\ cursor' = load.answer.next
           /\ more' = (load.answer.next # NoCursor)
           /\ load' = NoFetch
           /\ UNCHANGED <<stored, deleted, auto, filter, tail, walk>>
BY DEF LoadDone, Renders, tables, form

-----------------------------------------------------------------------------
(* Every row once. *)

\* What a page in flight holds is in order, whichever fetch it answers.
AnswersSorted ==
    /\ load.stage = "answered" => Sorted(load.answer)
    /\ tail.stage = "answered" => Sorted(tail.answer)

\* A page in flight is as the API sent it.
LEMMA AnswersSortedStep == TypeOK /\ AnswersSorted /\ [Next]_vars => AnswersSorted'
<1> SUFFICES ASSUME TypeOK, AnswersSorted, [Next]_vars PROVE AnswersSorted'
  OBVIOUS
<1>1. CASE TablesGrow \/ Blanked
  BY <1>1 DEF TablesGrow, Blanked, AnswersSorted, Sorted
<1>2. CASE Restarts
  BY <1>2 DEF Restarts, AnswersSorted, Sorted
<1>3. CASE More
  <2>1. load'.stage = "asked" /\ UNCHANGED tail
    BY <1>3 DEF More, Ask
  <2> QED BY <2>1 DEF AnswersSorted, Sorted
<1>4. CASE AnswerLoad
  <2>1. load \in Fetch /\ load' = Reply(load) /\ UNCHANGED tail
    BY <1>4, Stages DEF AnswerLoad, TypeOK
  <2>2. Sorted(Reply(load).answer)
    BY <2>1, ReplyReturns
  <2>3. Sorted(load'.answer)
    BY <2>1, <2>2
  <2> QED BY <2>1, <2>3 DEF AnswersSorted
<1>5. CASE LoadDone \/ LoadFails
  <2>1. load'.stage = "none" /\ UNCHANGED tail
    BY <1>5, LoadDoneRenders DEF LoadFails, NoFetch
  <2> QED BY <2>1 DEF AnswersSorted
<1>6. CASE Tail12s
  <2>1. tail'.stage = "asked" /\ UNCHANGED load
    BY <1>6 DEF Tail12s, Ask
  <2> QED BY <2>1 DEF AnswersSorted
<1>7. CASE AnswerTail
  <2>1. tail \in Fetch /\ tail' = Reply(tail) /\ UNCHANGED load
    BY <1>7, Stages DEF AnswerTail, TypeOK
  <2>2. Sorted(Reply(tail).answer)
    BY <2>1, ReplyReturns
  <2>3. Sorted(tail'.answer)
    BY <2>1, <2>2
  <2> QED BY <2>1, <2>3 DEF AnswersSorted
<1>8. CASE TailDone \/ TailFails
  <2>1. tail'.stage = "none" /\ UNCHANGED load
    BY <1>8 DEF TailDone, TailFails, NoFetch
  <2> QED BY <2>1 DEF AnswersSorted
<1> QED BY <1>1, <1>2, <1>3, <1>4, <1>5, <1>6, <1>7, <1>8, StepKinds

\* Rows that are put with others were not shown before.
LEMMA SettledRowsStep ==
    TypeOK /\ AnswersSorted /\ SettledRows /\ [Next]_vars => SettledRows'
<1> SUFFICES ASSUME TypeOK, AnswersSorted, SettledRows, [Next]_vars, ~Resetting'
             PROVE  (IsInjective(list) /\ ToSet(list) \subseteq shown)'
  BY DEF SettledRows
<1>1. CASE TablesGrow
  BY <1>1 DEF TablesGrow, SettledRows, Resetting, Loading
<1>2. CASE Restarts
  BY <1>2 DEF Restarts, Resetting, Loading
<1>3. CASE Blanked
  <2>1. ~Resetting /\ UNCHANGED shown
    BY <1>3 DEF Blanked, Resetting, Loading
  <2>2. CASE list' = list
    BY <2>1, <2>2 DEF SettledRows
  <2>3. CASE list' = <<>>
    BY <2>3 DEF IsInjective, ToSet
  <2> QED BY <1>3, <2>2, <2>3 DEF Blanked
<1>4. CASE More \/ Tail12s \/ AnswerTail \/ TailFails
  <2>1. ~Resetting /\ UNCHANGED <<list, shown>>
    BY <1>4 DEF More, Tail12s, AnswerTail, TailFails, view, Resetting, Loading
  <2> QED BY <2>1 DEF SettledRows
<1>5. CASE AnswerLoad
  <2>1. load \in Fetch /\ load' = Reply(load) /\ UNCHANGED <<list, shown>>
    BY <1>5, Stages DEF AnswerLoad, TypeOK, view
  <2>2. Reply(load).stage = "answered" /\ Reply(load).reset = load.reset
    BY <2>1, ReplyReturns
  <2>3. load' # NoFetch /\ load'.reset = load.reset
    BY <2>1, <2>2 DEF NoFetch
  <2>4. ~Resetting
    BY <2>3 DEF Resetting, Loading
  <2> QED BY <2>1, <2>4 DEF SettledRows
<1>6. CASE LoadDone
  <2> DEFINE data == load.answer.data
  <2>1. load.stage = "answered" /\ load # NoFetch /\ data \in Seq(Id) /\ load.reset \in BOOLEAN
    BY <1>6, LoadDoneRenders, IncomingRows DEF NoFetch
  <2>2. Descending(data)
    BY <2>1 DEF AnswersSorted, Sorted
  <2>3. CASE load.reset
    <3>1. list' = data /\ shown' = shown \cup ToSet(data)
      BY <1>6, <2>3, LoadDoneRenders
    <3> HIDE DEF data
    <3>2. IsInjective(data)
      BY <2>1, <2>2, DescendingInjective
    <3> QED BY <3>1, <3>2
  <2>4. CASE ~load.reset
    <3>1. ~Resetting
      BY <2>4 DEF Resetting
    <3>2. list' = list \o Unseen(data) /\ shown' = shown \cup ToSet(Unseen(data))
      BY <1>6, <2>4, LoadDoneRenders
    <3> HIDE DEF data
    <3>3. /\ Unseen(data) \in Seq(Id) /\ ToSet(Unseen(data)) \cap shown = {}
          /\ IsInjective(Unseen(data))
      BY <2>1, <2>2, UnseenReturns, DescendingInjective
    <3>4. list \in Seq(Id) /\ IsInjective(list) /\ ToSet(list) \subseteq shown
      BY <3>1 DEF SettledRows, TypeOK
    <3>5. ToSet(list) \cap ToSet(Unseen(data)) = {}
      BY <3>3, <3>4
    <3>6. IsInjective(list \o Unseen(data)) /\ ToSet(list \o Unseen(data)) = ToSet(list) \cup ToSet(Unseen(data))
      BY <3>3, <3>4, <3>5, StackedRows
    <3> QED BY <3>2, <3>4, <3>6
  <2> QED BY <2>1, <2>3, <2>4
<1>7. CASE LoadFails
  <2>1. load.stage = "asked" /\ UNCHANGED shown /\ list' = IF load.reset THEN <<>> ELSE list
    BY <1>7 DEF LoadFails
  <2>2. CASE load.reset
    BY <2>1, <2>2 DEF IsInjective, ToSet
  <2>3. CASE ~load.reset
    BY <2>1, <2>3 DEF SettledRows, Resetting
  <2> QED BY <2>2, <2>3
<1>8. CASE TailDone
  <2> DEFINE data == tail.answer.data
             fresh == Unseen(data)
  <2>1. tail.stage = "answered" /\ tail \in Answered
    BY <1>8, Stages DEF TailDone, TypeOK
  <2>2. data \in Seq(Id) /\ Descending(data)
    BY <2>1 DEF Answered, Answer, AnswersSorted, Sorted
  <2>3. list' = fresh \o list /\ shown' = shown \cup ToSet(fresh) /\ UNCHANGED load
    BY <1>8 DEF TailDone
  <2> HIDE DEF data
  <2>4. fresh \in Seq(Id) /\ ToSet(fresh) \cap shown = {} /\ IsInjective(fresh)
    BY <2>2, UnseenReturns, DescendingInjective
  <2> HIDE DEF fresh
  <2>5. list \in Seq(Id) /\ IsInjective(list) /\ ToSet(list) \subseteq shown
    BY <2>3 DEF SettledRows, Resetting, Loading, TypeOK
  <2>6. IsInjective(fresh \o list) /\ ToSet(fresh \o list) = ToSet(fresh) \cup ToSet(list)
    <3>1. ToSet(fresh) \cap ToSet(list) = {}
      BY <2>4, <2>5
    <3> QED BY <2>4, <2>5, <3>1, StackedRows
  <2> QED BY <2>3, <2>5, <2>6
<1> QED BY <1>1, <1>2, <1>3, <1>4, <1>5, <1>6, <1>7, <1>8, StepKinds

\* There is no page yet.
LEMMA AnswersSortedInit == Init => AnswersSorted
BY DEF Init, AnswersSorted, NoFetch

\* However pages, tails, refreshes, errors and late commits overlap, no message
\* is on the list twice, and outside a refresh each one is remembered as shown.
THEOREM RowsOnce == Spec => []SettledRows
<1>1. Init => SettledRows
  BY DEF Init, SettledRows, IsInjective, ToSet
<1> QED
  BY <1>1, TypeInit, AnswersSortedInit, TypeStep, AnswersSortedStep, SettledRowsStep, PTL
  DEF Spec

-----------------------------------------------------------------------------
(* Paging. *)

Asking == load.stage = "asked" /\ ~load.reset
Appending == load.stage = "answered" /\ ~load.reset

\* Without the tail the cursor never lies above a row of the list, and a further
\* page, from the request to its rendering, is about rows below all of them.
Paging ==
    /\ tail = NoFetch
    /\ Descending(list)
    /\ Resetting => /\ cursor = NoCursor /\ shown = {}
                    /\ load.stage = "asked" => load.cursor = NoCursor
    /\ ~Resetting => /\ AtLeast(ToSet(list), cursor)
                     /\ cursor = NoCursor /\ more => list = <<>> /\ shown = {}
    /\ Asking => /\ load.cursor = cursor
                 /\ cursor = NoCursor => list = <<>> /\ shown = {}
    /\ Appending => \A id \in ToSet(list), older \in ToSet(load.answer.data) : id > older

\* The facts about an empty list.
LEMMA NoRows == Descending(<<>>) /\ ToSet(<<>>) = {}
BY DEF Descending, ToSet

\* A load in flight is asked or answered, for a reset or for more.
LEMMA LoadCases ==
    ASSUME TypeOK
    PROVE  /\ load = NoFetch \/ Resetting \/ Asking \/ Appending
           /\ Asking => load \in Fetch
           /\ ~(Asking /\ Appending)
           /\ (Asking \/ Appending) => load # NoFetch /\ ~Resetting
<1>1. load \in Fetch \cup Answered \cup {NoFetch}
  BY DEF TypeOK
<1> QED BY <1>1, Stages DEF Resetting, Loading, Asking, Appending, NoFetch

\* A reply keeps what the fetch is for.
LEMMA AnswerLoadReplies ==
    ASSUME TypeOK, AnswerLoad
    PROVE  LET older == After(Matching(load.filter, stored, deleted), load.cursor)
           IN  /\ load \in Fetch /\ load # NoFetch /\ load.stage = "asked"
               /\ load' # NoFetch /\ load'.stage = "answered" /\ load'.reset = load.reset
               /\ ToSet(load'.answer.data) \subseteq older
               /\ \A id \in older :
                     \/ id \in ToSet(load'.answer.data)
                     \/ load'.answer.next # NoCursor /\ id < load'.answer.next
               /\ UNCHANGED <<stored, deleted, auto, filter, list, shown, cursor, more, tail>>
<1>1. load \in Fetch /\ load # NoFetch /\ load.stage = "asked" /\ load' = Reply(load)
  BY Stages DEF AnswerLoad, TypeOK, NoFetch
<1>2. LET reply == Reply(load)
          older == After(Matching(load.filter, stored, deleted), load.cursor)
      IN  /\ reply \in Answered
          /\ reply.stage = "answered" /\ reply.reset = load.reset
          /\ ToSet(reply.answer.data) \subseteq older
          /\ \A id \in older :
                \/ id \in ToSet(reply.answer.data)
                \/ reply.answer.next # NoCursor /\ id < reply.answer.next
  BY <1>1, ReplyReturns
<1>3. load' # NoFetch
  BY <1>1, <1>2 DEF NoFetch
<1>4. UNCHANGED <<stored, deleted, auto, filter, list, shown, cursor, more, tail>>
  BY DEF AnswerLoad, tables, form, view
<1> QED BY <1>1, <1>2, <1>3, <1>4

\* The box is what it was.
LEMMA AutoStays == TypeOK /\ [Next]_vars => auto' = auto
<1> SUFFICES ASSUME TypeOK, [Next]_vars PROVE auto' = auto
  OBVIOUS
<1> QED
  BY StepKinds DEF TablesGrow, Restarts, Blanked, More, AnswerLoad, LoadDone, Renders,
     LoadFails, Tail12s, AnswerTail, TailDone, TailFails, form

\* Paging goes on below the list, also when the page before was empty, a refresh
\* failed or the filter was changed in between.
LEMMA PagingStep ==
    TypeOK /\ AnswersSorted /\ ~auto /\ Paging /\ [Next]_vars => Paging'
<1> SUFFICES ASSUME TypeOK, AnswersSorted, ~auto, Paging, [Next]_vars PROVE Paging'
  OBVIOUS
<1>0. \A id \in Id : id \in Nat /\ id # NoCursor
  BY MaxIdAssumption DEF Id, NoCursor
<1>1. CASE TablesGrow
  BY <1>1 DEF TablesGrow, Paging, Resetting, Loading, Asking, Appending
<1>2. CASE Restarts
  BY <1>2 DEF Restarts, Paging, Resetting, Loading, Asking, Appending
<1>3. CASE Blanked
  <2>1. UNCHANGED <<shown, cursor, more, load, tail>>
    BY <1>3 DEF Blanked
  <2>2. Resetting' = Resetting /\ Asking' = Asking /\ Appending' = Appending
    BY <2>1 DEF Resetting, Loading, Asking, Appending
  <2>3. CASE list' = list
    BY <2>1, <2>2, <2>3 DEF Paging
  <2>4. CASE list' = <<>>
    BY <2>1, <2>2, <2>4, NoRows DEF Paging, AtLeast
  <2> QED BY <1>3, <2>3, <2>4 DEF Blanked
<1>4. CASE More
  <2>1. /\ load = NoFetch /\ load' = Ask(filter, FALSE, cursor) /\ (more \/ cursor # NoCursor)
        /\ UNCHANGED <<list, shown, cursor, more, tail>>
    BY <1>4 DEF More, Loading, view
  <2>2. load'.stage = "asked" /\ ~load'.reset /\ load'.cursor = cursor
    BY <2>1 DEF Ask
  <2>3. ~Resetting /\ ~Resetting' /\ ~Appending'
    BY <2>1, <2>2 DEF Resetting, Loading, Appending
  <2>4. AtLeast(ToSet(list), cursor) /\ (cursor = NoCursor /\ more => list = <<>> /\ shown = {})
    BY <2>3 DEF Paging
  <2>5. (AtLeast(ToSet(list), cursor))'
    BY <2>1, <2>4 DEF AtLeast
  <2> QED BY <2>1, <2>2, <2>3, <2>4, <2>5 DEF Paging, Asking
<1>5. CASE AnswerLoad
  <2> DEFINE older == After(Matching(load.filter, stored, deleted), load.cursor)
  <2>1. /\ load \in Fetch /\ load # NoFetch /\ load.stage = "asked"
        /\ load' # NoFetch /\ load'.stage = "answered" /\ load'.reset = load.reset
        /\ ToSet(load'.answer.data) \subseteq older
        /\ UNCHANGED <<list, shown, cursor, more, tail>>
    BY <1>5, AnswerLoadReplies
  <2>2. Resetting' = Resetting /\ ~Asking' /\ (Appending' => Asking)
    BY <2>1 DEF Resetting, Loading, Asking, Appending
  <2>3. ASSUME Asking, NEW id \in ToSet(list), NEW old \in ToSet(load'.answer.data)
        PROVE  id > old
    <3>1. load.cursor = cursor /\ (cursor = NoCursor => list = <<>>)
      BY <2>3 DEF Paging
    <3>2. cursor # NoCursor
      BY <2>3, <3>1, NoRows
    <3>3. id >= cursor
      BY <2>3, <3>2, LoadCases DEF Paging, AtLeast
    <3>4. old < cursor /\ old \in Id
      <4>1. old \in older
        BY <2>1, <2>3
      <4>2. load.filter \in DeletedFilter
        BY <2>1 DEF Fetch
      <4>3. Matching(load.filter, stored, deleted) \in SUBSET Id
        BY <4>2, MatchingStored DEF TypeOK
      <4> QED BY <3>1, <3>2, <4>1, <4>3 DEF After
    <3>5. id \in Nat /\ cursor \in Nat /\ old \in Nat
      BY <1>0, <3>2, <3>4, <2>3, RowsAreIds DEF TypeOK
    <3> QED BY <3>3, <3>4, <3>5
  <2>4. Descending(list') /\ (AtLeast(ToSet(list), cursor))' = AtLeast(ToSet(list), cursor)
    BY <2>1 DEF Paging, AtLeast
  <2>5. Appending' => \A id \in ToSet(list'), old \in ToSet(load'.answer.data) : id > old
    BY <2>1, <2>2, <2>3
  <2> QED BY <2>1, <2>2, <2>4, <2>5 DEF Paging
<1>6. CASE LoadDone
  <2> DEFINE data == load.answer.data
             next == load.answer.next
  <2>1. /\ load.stage = "answered" /\ load # NoFetch /\ load.reset \in BOOLEAN
        /\ data \in Seq(Id) /\ next \in Id \cup {NoCursor}
    BY <1>6, LoadDoneRenders, IncomingRows DEF NoFetch
  <2>2. /\ Descending(data) /\ AtLeast(ToSet(data), next)
        /\ next # NoCursor => next \in ToSet(data)
    BY <2>1 DEF AnswersSorted, Sorted
  <2>3. /\ cursor' = next /\ more' = (next # NoCursor) /\ load' = NoFetch /\ tail' = NoFetch
    BY <1>6, LoadDoneRenders DEF Paging
  <2>4. ~Resetting' /\ ~Asking' /\ ~Appending'
    BY <2>3 DEF Resetting, Loading, Asking, Appending, NoFetch
  <2>5. Descending(list') /\ AtLeast(ToSet(list'), next)
    <3>1. CASE load.reset
      <4>1. list' = data
        BY <1>6, <3>1, LoadDoneRenders
      <4> QED BY <2>2, <4>1
    <3>2. CASE ~load.reset
      <4>1. list' = list \o Unseen(data)
        BY <1>6, <3>2, LoadDoneRenders
      <4>2. /\ Descending(list) /\ list \in Seq(Id)
            /\ \A id \in ToSet(list), old \in ToSet(data) : id > old
        BY <2>1, <3>2 DEF Paging, Appending, TypeOK
      <4> HIDE DEF data, next
      <4>3. /\ Unseen(data) \in Seq(Id) /\ ToSet(Unseen(data)) \subseteq ToSet(data)
            /\ Descending(Unseen(data))
        BY <2>1, <2>2, UnseenReturns
      <4>4. /\ Descending(list \o Unseen(data))
            /\ ToSet(list \o Unseen(data)) = ToSet(list) \cup ToSet(Unseen(data))
        BY <4>2, <4>3, StackedRows
      <4>5. ASSUME next # NoCursor, NEW id \in ToSet(list \o Unseen(data)) PROVE id >= next
        <5>1. CASE id \in ToSet(Unseen(data))
          BY <2>2, <4>3, <4>5, <5>1 DEF AtLeast
        <5>2. CASE id \in ToSet(list)
          <6>1. id > next
            BY <2>2, <4>2, <4>5, <5>2
          <6>2. id \in Nat /\ next \in Nat
            BY <1>0, <2>1, <4>2, <4>5, <5>2, RowsAreIds
          <6> QED BY <6>1, <6>2
        <5> QED BY <4>4, <5>1, <5>2
      <4> QED BY <4>1, <4>4, <4>5 DEF AtLeast
    <3> QED BY <2>1, <3>1, <3>2
  <2> HIDE DEF data, next
  <2>6. (AtLeast(ToSet(list), cursor))' /\ (cursor' = NoCursor => ~more')
    BY <2>3, <2>5 DEF AtLeast
  <2> QED BY <2>3, <2>4, <2>5, <2>6 DEF Paging
<1>7. CASE LoadFails
  <2>1. /\ load.stage = "asked" /\ list' = IF load.reset THEN <<>> ELSE list
        /\ load' = NoFetch /\ UNCHANGED <<shown, cursor, more, tail>>
    BY <1>7 DEF LoadFails
  <2>2. ~Resetting' /\ ~Asking' /\ ~Appending'
    BY <2>1 DEF Resetting, Loading, Asking, Appending, NoFetch
  <2>3. CASE load.reset
    <3>1. Resetting /\ shown = {}
      BY <2>1, <2>3 DEF Resetting, Loading, Paging, NoFetch
    <3> QED BY <2>1, <2>2, <2>3, <3>1, NoRows DEF Paging, AtLeast
  <2>4. CASE ~load.reset
    <3>1. ~Resetting /\ list' = list
      BY <2>1, <2>4 DEF Resetting
    <3>2. AtLeast(ToSet(list), cursor) /\ (cursor = NoCursor /\ more => list = <<>> /\ shown = {})
      BY <3>1 DEF Paging
    <3>3. (AtLeast(ToSet(list), cursor))'
      BY <2>1, <3>1, <3>2 DEF AtLeast
    <3> QED BY <2>1, <2>2, <3>1, <3>2, <3>3 DEF Paging
  <2> QED BY <2>3, <2>4
<1>8. ~(Tail12s \/ AnswerTail \/ TailDone \/ TailFails)
  <2>1. tail.stage = "none"
    BY DEF Paging, NoFetch
  <2> QED BY <2>1 DEF Tail12s, AnswerTail, TailDone, TailFails
<1> QED BY <1>1, <1>2, <1>3, <1>4, <1>5, <1>6, <1>7, <1>8, StepKinds

\* There is no list yet.
LEMMA PagingInit == Init => Paging
<1> SUFFICES ASSUME Init PROVE Paging
  OBVIOUS
<1>1. load = NoFetch /\ tail = NoFetch /\ list = <<>> /\ cursor = NoCursor /\ more = FALSE
  BY DEF Init
<1> QED BY <1>1, NoRows DEF Paging, AtLeast, Resetting, Loading, Asking, Appending, NoFetch

\* Without the tail the list is newest first, however loads, refreshes, failures,
\* changes of the filter, late commits and deletes follow one another.
THEOREM NewestFirstOnThePage == Spec => []PagedInOrder
<1> DEFINE Inv == TypeOK /\ AnswersSorted /\ (~auto => Paging)
<1>1. Inv /\ [Next]_vars => Inv'
  BY TypeStep, AnswersSortedStep, PagingStep, AutoStays
<1>2. Inv => PagedInOrder
  BY DEF Paging, PagedInOrder, Descending
<1> QED BY <1>1, <1>2, TypeInit, AnswersSortedInit, PagingInit, PTL DEF Spec

-----------------------------------------------------------------------------
(* What a walk shows. *)

\* A first page on its way was asked for with the select as it is.
Begun ==
    walk.stage = "begun" =>
        load.stage = "asked" /\ load.filter = filter /\ load.cursor = NoCursor

\* A walk begins with its request, and ends where that fails or the select changes.
LEMMA BegunStep == TypeOK /\ Begun /\ [Next]_vars => Begun'
<1> SUFFICES ASSUME TypeOK, Begun, [Next]_vars, walk'.stage = "begun"
             PROVE  /\ load'.stage = "asked" /\ load'.filter = filter'
                    /\ load'.cursor = NoCursor
  BY DEF Begun
<1>1. CASE TablesGrow
  BY <1>1 DEF TablesGrow, Begun
<1>2. CASE Restarts
  BY <1>2 DEF Restarts
<1>3. ~Blanked
  BY DEF Blanked, NoWalk
<1>4. CASE More
  <2>1. /\ load = NoFetch /\ load' = Ask(filter, FALSE, cursor) /\ filter' = filter
        /\ walk' = IF cursor = NoCursor THEN BegunWalk ELSE walk
    BY <1>4 DEF More, Loading, form
  <2>2. load'.stage = "asked" /\ load'.filter = filter /\ load'.cursor = cursor
    BY <2>1 DEF Ask
  <2>3. walk.stage # "begun"
    BY <2>1 DEF Begun, NoFetch
  <2> QED BY <2>1, <2>2, <2>3
<1>5. ~AnswerLoad
  <2> SUFFICES ASSUME AnswerLoad PROVE FALSE
    OBVIOUS
  <2>1. walk' = IF walk.stage = "begun"
                THEN [stage |-> "on",
                      ids   |-> Matching(filter, stored, deleted),
                      gone  |-> deleted]
                ELSE walk
    BY DEF AnswerLoad
  <2> QED BY <2>1
<1>6. ~LoadDone
  <2> SUFFICES ASSUME LoadDone PROVE FALSE
    OBVIOUS
  <2>1. load.stage = "answered" /\ walk' = walk
    BY LoadDoneRenders
  <2> QED BY <2>1 DEF Begun
<1>7. ~LoadFails
  <2> SUFFICES ASSUME LoadFails PROVE FALSE
    OBVIOUS
  <2>1. walk' = IF load.cursor = NoCursor THEN NoWalk ELSE walk
    BY DEF LoadFails
  <2> QED BY <2>1 DEF Begun, NoWalk
<1>8. CASE Tail12s \/ AnswerTail \/ TailDone \/ TailFails
  BY <1>8 DEF Tail12s, AnswerTail, TailDone, TailFails, form, Begun
<1> QED BY <1>1, <1>2, <1>3, <1>4, <1>5, <1>6, <1>7, <1>8, StepKinds

\* What the walk has to show as the tables are now.
Walked == walk.ids \cap Matching(filter, stored, deleted)

\* All of it is among rows, or will come after the cursor.
Covered(rows, from) ==
    \A id \in Walked : id \in rows \/ (from # NoCursor /\ id < from)

\* The rows matched the select when they were read.
Fits(rows) ==
    /\ filter = "only" => rows \subseteq deleted
    /\ filter = "exclude" => rows \cap walk.gone = {}

\* From its first page on, what the walk has to show is on the list, in a page that
\* is on its way or below the cursor; since `shown` has nothing that the list has
\* not, no page loses a row to it; and every page is asked for with one filter.
Walking ==
    /\ walk.ids \subseteq stored
    /\ filter = "only" => walk.ids \subseteq deleted
    /\ walk.gone \subseteq deleted
    /\ load.stage = "asked" => ~load.reset /\ load.filter = filter
    /\ Resetting => Covered(ToSet(load.answer.data), load.answer.next)
    /\ Appending => Covered(ToSet(list) \cup ToSet(load.answer.data), load.answer.next)
    /\ load.stage = "answered" => Fits(ToSet(load.answer.data))
    /\ ~Resetting => shown \subseteq ToSet(list) /\ Fits(ToSet(list))
    /\ ~Resetting /\ ~Appending => Covered(ToSet(list), cursor)

\* Of the messages of a walk none starts to match again.
LEMMA WalkedShrinks ==
    ASSUME TypeOK, walk.ids \subseteq stored, filter = "only" => walk.ids \subseteq deleted,
           TablesGrow
    PROVE  /\ Walked' \subseteq Walked
           /\ walk'.ids \subseteq stored'
           /\ filter' = "only" => walk'.ids \subseteq deleted'
<1>1. /\ stored \subseteq stored' /\ deleted \subseteq deleted' /\ walk' = walk /\ filter' = filter
      /\ filter \in DeletedFilter
  BY DEF TablesGrow, TypeOK
<1>2. Walked' = walk.ids \cap Matching(filter, stored', deleted')
  BY <1>1 DEF Walked, Matching
<1>3. walk.ids \cap Matching(filter, stored', deleted') \subseteq Matching(filter, stored, deleted)
  <2>1. CASE filter = "any"
    BY <1>1, <2>1 DEF Matching
  <2>2. CASE filter = "only"
    BY <1>1, <2>2 DEF Matching
  <2>3. CASE filter = "exclude"
    BY <1>1, <2>3 DEF Matching
  <2> QED BY <1>1, <2>1, <2>2, <2>3 DEF DeletedFilter
<1>4. Walked' \subseteq Walked
  BY <1>2, <1>3 DEF Walked
<1> QED BY <1>1, <1>4

\* What matches now has the mark that the filter is about.
LEMMA MatchingFits ==
    ASSUME NEW ids, ids \subseteq Matching(filter, stored, deleted)
    PROVE  /\ filter = "only" => ids \subseteq deleted
           /\ filter = "exclude" => ids \cap deleted = {}
<1>1. CASE filter = "only"
  BY <1>1 DEF Matching
<1>2. CASE filter = "exclude"
  BY <1>2 DEF Matching
<1> QED BY <1>1, <1>2

\* The first page begins the walk: whatever it has to show is on it or follows it.
LEMMA WalkBegins ==
    ASSUME TypeOK, ~auto, Paging, Begun, walk.stage = "begun", AnswerLoad
    PROVE  Walking'
<1> DEFINE ids == Matching(filter, stored, deleted)
           data == load'.answer.data
           next == load'.answer.next
<1>1. /\ load \in Fetch /\ load # NoFetch /\ load.stage = "asked"
      /\ load' # NoFetch /\ load'.stage = "answered" /\ load'.reset = load.reset
      /\ ToSet(data) \subseteq After(Matching(load.filter, stored, deleted), load.cursor)
      /\ \A id \in After(Matching(load.filter, stored, deleted), load.cursor) :
            id \in ToSet(data) \/ (next # NoCursor /\ id < next)
      /\ UNCHANGED <<stored, deleted, auto, filter, list, shown, cursor, more, tail>>
  BY AnswerLoadReplies
<1>2. After(Matching(load.filter, stored, deleted), load.cursor) = ids
  BY DEF Begun, After
<1>3. walk' = [stage |-> "on", ids |-> ids, gone |-> deleted]
  BY DEF AnswerLoad
<1> HIDE DEF data, next
<1>4. Walked' = ids
  <2>1. (Matching(filter, stored, deleted))' = ids
    BY <1>1 DEF Matching
  <2> QED BY <1>3, <2>1 DEF Walked
<1>5. walk'.ids = ids /\ walk'.gone = deleted
  BY <1>3
<1>6. ids \subseteq stored /\ (filter = "only" => ids \subseteq deleted)
  <2>1. filter \in DeletedFilter
    BY DEF TypeOK
  <2> HIDE DEF ids
  <2>2. ids \in SUBSET stored
    BY <2>1, MatchingStored DEF ids
  <2> QED BY <2>2, MatchingFits DEF ids
<1>7. (Fits(ToSet(load.answer.data)))'
  <2>1. ToSet(data) \subseteq ids
    BY <1>1, <1>2
  <2>2. /\ filter = "only" => ToSet(data) \subseteq deleted
        /\ filter = "exclude" => ToSet(data) \cap deleted = {}
    BY <2>1, MatchingFits
  <2> QED BY <1>1, <1>5, <2>2 DEF Fits, data
<1>8. \A id \in ids : id \in ToSet(data) \/ (next # NoCursor /\ id < next)
  BY <1>1, <1>2
<1> HIDE DEF ids
<1>9. CASE load.reset
  <2>1. Resetting' /\ ~Appending'
    BY <1>1, <1>9 DEF Resetting, Loading, Appending
  <2>2. (Covered(ToSet(load.answer.data), load.answer.next))'
    BY <1>4, <1>8 DEF Covered, data, next
  <2> QED BY <1>1, <1>5, <1>6, <1>7, <2>1, <2>2 DEF Walking
<1>10. CASE ~load.reset
  <2>1. ~Resetting' /\ Appending'
    BY <1>1, <1>10 DEF Resetting, Loading, Appending
  <2>2. list = <<>> /\ shown = {}
    BY <1>1, <1>10 DEF Asking, Paging, Begun
  <2>3. (Covered(ToSet(list) \cup ToSet(load.answer.data), load.answer.next))'
    BY <1>4, <1>8 DEF Covered, data, next
  <2>4. (Fits(ToSet(list)))' /\ shown' \subseteq ToSet(list')
    BY <1>1, <2>2, NoRows DEF Fits
  <2> QED BY <1>1, <1>5, <1>6, <1>7, <2>1, <2>3, <2>4 DEF Walking
<1> QED BY <1>9, <1>10, <1>1 DEF Fetch

\* A walk stays covered, and its rows fit, from page to page.
LEMMA WalkingStep ==
    /\ TypeOK /\ ~auto /\ Paging /\ Begun /\ (walk.stage = "on" => Walking)
    /\ [Next]_vars
    => (walk.stage = "on" => Walking)'
<1> SUFFICES ASSUME TypeOK, ~auto, Paging, Begun, walk.stage = "on" => Walking,
                    [Next]_vars, walk'.stage = "on"
             PROVE  Walking'
  OBVIOUS
<1>1. CASE TablesGrow
  <2>1. /\ UNCHANGED <<filter, list, shown, cursor, load, walk>> /\ deleted \subseteq deleted'
        /\ Walking
    BY <1>1 DEF TablesGrow
  <2>2. /\ Walked' \subseteq Walked
        /\ walk'.ids \subseteq stored'
        /\ filter' = "only" => walk'.ids \subseteq deleted'
    BY <1>1, <2>1, WalkedShrinks DEF Walking
  <2>3. Resetting' = Resetting /\ Appending' = Appending
    BY <2>1 DEF Resetting, Loading, Appending
  <2>4. /\ Resetting => (Covered(ToSet(load.answer.data), load.answer.next))'
        /\ Appending => (Covered(ToSet(list) \cup ToSet(load.answer.data), load.answer.next))'
        /\ ~Resetting /\ ~Appending => (Covered(ToSet(list), cursor))'
    BY <2>1, <2>2 DEF Walking, Covered
  <2>5. /\ load.stage = "answered" => (Fits(ToSet(load.answer.data)))'
        /\ ~Resetting => (Fits(ToSet(list)))'
        /\ walk'.gone \subseteq deleted'
    BY <2>1 DEF Walking, Fits
  <2>6. /\ load'.stage = "asked" => ~load'.reset /\ load'.filter = filter'
        /\ ~Resetting' => shown' \subseteq ToSet(list')
    BY <2>1, <2>3 DEF Walking
  <2> QED BY <2>1, <2>2, <2>3, <2>4, <2>5, <2>6 DEF Walking
<1>2. ~(Restarts \/ Blanked)
  BY DEF Restarts, Blanked, NoWalk, BegunWalk
<1>3. CASE More
  <2>1. /\ load = NoFetch /\ load' = Ask(filter, FALSE, cursor)
        /\ walk' = IF cursor = NoCursor THEN BegunWalk ELSE walk
        /\ UNCHANGED <<stored, deleted, filter, list, shown, cursor>>
    BY <1>3 DEF More, Loading, tables, form, view
  <2>2. load'.stage = "asked" /\ ~load'.reset /\ load'.filter = filter
    BY <2>1 DEF Ask
  <2>3. ~Resetting /\ ~Resetting' /\ ~Appending /\ ~Appending'
    BY <2>1, <2>2 DEF Resetting, Loading, Appending, NoFetch
  <2>4. walk' = walk
    BY <2>1 DEF BegunWalk
  <2>5. Walking /\ Covered(ToSet(list), cursor) /\ Fits(ToSet(list)) /\ shown \subseteq ToSet(list)
    BY <2>3, <2>4 DEF Walking
  <2>6. (Covered(ToSet(list), cursor))' /\ (Fits(ToSet(list)))'
    BY <2>1, <2>4, <2>5 DEF Covered, Walked, Fits
  <2> QED BY <2>1, <2>2, <2>3, <2>4, <2>5, <2>6 DEF Walking
<1>4. CASE AnswerLoad /\ walk.stage = "begun"
  BY <1>4, WalkBegins
<1>5. CASE AnswerLoad /\ walk.stage # "begun"
  <2> DEFINE ids == Matching(load.filter, stored, deleted)
             older == After(ids, load.cursor)
             data == load'.answer.data
             next == load'.answer.next
  <2>1. /\ load \in Fetch /\ load # NoFetch /\ load.stage = "asked"
        /\ load' # NoFetch /\ load'.stage = "answered" /\ load'.reset = load.reset
        /\ ToSet(data) \subseteq older
        /\ \A id \in older : id \in ToSet(data) \/ (next # NoCursor /\ id < next)
        /\ UNCHANGED <<stored, deleted, auto, filter, list, shown, cursor, more, tail>>
    BY <1>5, AnswerLoadReplies
  <2>2. walk' = walk /\ Walking
    BY <1>5 DEF AnswerLoad
  <2>3. ~load.reset /\ load.filter = filter /\ load.cursor = cursor
    BY <2>1, <2>2 DEF Walking, Asking, Paging
  <2>4. ~Resetting /\ ~Appending /\ ~Resetting' /\ Appending' /\ load'.stage = "answered"
    BY <2>1, <2>3 DEF Resetting, Loading, Appending
  <2>5. Covered(ToSet(list), cursor) /\ shown \subseteq ToSet(list) /\ Fits(ToSet(list))
    BY <2>2, <2>4 DEF Walking
  <2>6. Walked' = Walked
    BY <2>1, <2>2 DEF Walked, Matching
  <2>7. ASSUME NEW id \in Walked, id \notin ToSet(list)
        PROVE  id \in ToSet(data) \/ (next # NoCursor /\ id < next)
    <3>1. cursor # NoCursor /\ id < cursor /\ id \in ids
      BY <2>3, <2>5, <2>7 DEF Covered, Walked
    <3>2. id \in older
      BY <2>3, <3>1 DEF After
    <3> QED BY <2>1, <3>2
  <2>8. (Covered(ToSet(list) \cup ToSet(load.answer.data), load.answer.next))'
    BY <2>1, <2>6, <2>7 DEF Covered
  <2>9. (Fits(ToSet(load.answer.data)))'
    <3>1. ToSet(data) \subseteq Matching(filter, stored, deleted)
      BY <2>1, <2>3 DEF After
    <3> HIDE DEF data
    <3>2. /\ filter = "only" => ToSet(data) \subseteq deleted
          /\ filter = "exclude" => ToSet(data) \cap deleted = {}
      BY <3>1, MatchingFits
    <3>3. walk.gone \subseteq deleted
      BY <2>2 DEF Walking
    <3> QED BY <2>1, <2>2, <3>2, <3>3 DEF Fits, data
  <2>10. (Fits(ToSet(list)))' /\ shown' \subseteq ToSet(list')
    BY <2>1, <2>2, <2>5 DEF Fits
  <2>11. /\ walk'.ids \subseteq stored' /\ walk'.gone \subseteq deleted'
         /\ filter' = "only" => walk'.ids \subseteq deleted'
    BY <2>1, <2>2 DEF Walking
  <2> QED BY <2>1, <2>4, <2>8, <2>9, <2>10, <2>11 DEF Walking
<1>6. CASE LoadDone
  <2> DEFINE data == load.answer.data
             next == load.answer.next
  <2>1. /\ load.stage = "answered" /\ load # NoFetch /\ load.reset \in BOOLEAN
        /\ data \in Seq(Id)
    BY <1>6, LoadDoneRenders, IncomingRows DEF NoFetch
  <2>2. /\ cursor' = next /\ load' = NoFetch
        /\ UNCHANGED <<stored, deleted, filter, walk>>
        /\ Walking
    BY <1>6, LoadDoneRenders
  <2>3. /\ ~Resetting' /\ ~Appending' /\ load'.stage \notin {"asked", "answered"}
        /\ Walked' = Walked
    BY <2>2 DEF Resetting, Loading, Appending, NoFetch, Walked, Matching
  <2>4. shown' \subseteq ToSet(list') /\ Covered(ToSet(list'), next) /\ Fits(ToSet(list'))
    <3>0. Fits(ToSet(data))
      BY <2>1, <2>2 DEF Walking
    <3>1. CASE load.reset
      <4>1. list' = data /\ shown' = shown \cup ToSet(data)
        BY <1>6, <3>1, LoadDoneRenders
      <4>2. Resetting /\ shown = {}
        BY <2>1, <3>1 DEF Resetting, Loading, Paging
      <4> QED BY <2>2, <3>0, <4>1, <4>2 DEF Walking
    <3>2. CASE ~load.reset
      <4>1. list' = list \o Unseen(data) /\ shown' = shown \cup ToSet(Unseen(data))
        BY <1>6, <3>2, LoadDoneRenders
      <4>2. /\ Appending /\ ~Resetting /\ list \in Seq(Id) /\ shown \subseteq ToSet(list)
            /\ Covered(ToSet(list) \cup ToSet(data), next)
            /\ Fits(ToSet(list))
        BY <2>1, <2>2, <3>2 DEF Appending, Resetting, Walking, TypeOK
      <4> HIDE DEF data, next
      <4>3. Unseen(data) \in Seq(Id) /\ ToSet(Unseen(data)) = ToSet(data) \ shown
        BY <2>1, UnseenReturns
      <4>4. ToSet(list') = ToSet(list) \cup ToSet(Unseen(data))
        BY <4>1, <4>2, <4>3, StackedRows
      <4>5. ToSet(list') = ToSet(list) \cup ToSet(data)
        BY <4>2, <4>3, <4>4
      <4>6. Fits(ToSet(list'))
        BY <3>0, <4>2, <4>5 DEF Fits
      <4> QED BY <4>1, <4>2, <4>4, <4>5, <4>6
    <3> QED BY <2>1, <3>1, <3>2
  <2> HIDE DEF data, next
  <2>5. (Covered(ToSet(list), cursor))' /\ (Fits(ToSet(list)))'
    BY <2>2, <2>3, <2>4 DEF Covered, Fits
  <2>6. /\ walk'.ids \subseteq stored' /\ walk'.gone \subseteq deleted'
        /\ filter' = "only" => walk'.ids \subseteq deleted'
    BY <2>2 DEF Walking
  <2> QED BY <2>3, <2>4, <2>5, <2>6 DEF Walking
<1>7. CASE LoadFails
  <2>1. /\ load.stage = "asked" /\ load' = NoFetch
        /\ list' = IF load.reset THEN <<>> ELSE list
        /\ walk' = IF load.cursor = NoCursor THEN NoWalk ELSE walk
        /\ UNCHANGED <<stored, deleted, filter, shown, cursor>>
    BY <1>7 DEF LoadFails, tables, form
  <2>2. walk' = walk /\ Walking
    BY <2>1 DEF NoWalk
  <2>3. ~load.reset /\ list' = list
    BY <2>1, <2>2 DEF Walking
  <2>4. /\ ~Resetting /\ ~Appending /\ ~Resetting' /\ ~Appending'
        /\ load'.stage \notin {"asked", "answered"}
    BY <2>1, <2>3 DEF Resetting, Loading, Appending, NoFetch
  <2>5. Covered(ToSet(list), cursor) /\ shown \subseteq ToSet(list) /\ Fits(ToSet(list))
    BY <2>2, <2>4 DEF Walking
  <2>6. (Covered(ToSet(list), cursor))' /\ (Fits(ToSet(list)))'
    BY <2>1, <2>2, <2>3, <2>5 DEF Covered, Walked, Fits
  <2>7. /\ walk'.ids \subseteq stored' /\ walk'.gone \subseteq deleted'
        /\ filter' = "only" => walk'.ids \subseteq deleted'
    BY <2>1, <2>2 DEF Walking
  <2> QED BY <2>1, <2>3, <2>4, <2>5, <2>6, <2>7 DEF Walking
<1>8. ~(Tail12s \/ AnswerTail \/ TailDone \/ TailFails)
  <2>1. tail.stage = "none"
    BY DEF Paging, NoFetch
  <2> QED BY <2>1 DEF Tail12s, AnswerTail, TailDone, TailFails
<1> QED BY <1>1, <1>2, <1>3, <1>4, <1>5, <1>6, <1>7, <1>8, StepKinds

\* The inductive invariant of the list without the tail.
WalkInv ==
    /\ TypeOK /\ AnswersSorted /\ Begun
    /\ ~auto => Paging /\ (walk.stage = "on" => Walking)

\* It holds in every state.
LEMMA WalkInvariant == Spec => []WalkInv
<1>1. Init => WalkInv
  <2> SUFFICES ASSUME Init PROVE WalkInv
    OBVIOUS
  <2>1. walk.stage = "none"
    BY DEF Init, NoWalk
  <2> QED BY <2>1, AnswersSortedInit, PagingInit, TypeInit DEF WalkInv, Begun
<1>2. WalkInv /\ [Next]_vars => WalkInv'
  BY TypeStep, AnswersSortedStep, BegunStep, PagingStep, WalkingStep, AutoStays DEF WalkInv
<1> QED BY <1>1, <1>2, PTL DEF Spec

\* Paged to its end without the tail, a list has skipped nothing that was stored
\* when its first page was read and matches still, whatever was stored, deleted
\* or answered late in between, and whether a refresh, a change of the filter or
\* the button after a failed refresh asked for that page.
THEOREM NothingSkipped == Spec => []WalkComplete
<1>1. WalkInv => WalkComplete
  <2> SUFFICES ASSUME WalkInv, ~auto, walk.stage = "on", ~Loading, cursor = NoCursor
               PROVE  walk.ids \cap Matching(filter, stored, deleted) \subseteq ToSet(list)
    BY DEF WalkComplete
  <2>1. Walking /\ ~Resetting /\ ~Appending
    BY DEF WalkInv, Resetting, Loading, Appending, NoFetch
  <2>2. Covered(ToSet(list), NoCursor)
    BY <2>1 DEF Walking
  <2> QED BY <2>2 DEF Covered, Walked
<1> QED BY <1>1, WalkInvariant, PTL

\* A list without the tail never mixes two filters: each row matched the select,
\* as it still is, when its page was read, in however many pages it was read and
\* whichever changes of the select were dropped before it was begun.
THEOREM OneFilter == Spec => []ListMatches
<1>1. WalkInv => ListMatches
  BY DEF WalkInv, ListMatches, Walking, Fits
<1> QED BY <1>1, WalkInvariant, PTL

=============================================================================
