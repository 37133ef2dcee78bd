-------------------------- MODULE RetrySweepProofs --------------------------
(***************************************************************************)
(* Proofs about module RetrySweep, for any messages, routes, attempt       *)
(* budget and size of a sweep: the schedule is what its comment says it    *)
(* is, and the sweep overtakes nobody.                                     *)
(***************************************************************************)
EXTENDS RetrySweep, SelectionProofs, SequenceTheorems

-----------------------------------------------------------------------------
(* The schedule. *)

\* Everything TypeOK says of the schedule.
ScheduleOK ==
    /\ schedule \in Seq(Row)
    /\ ToSet(schedule) = {row \in Row : Pending(row)}
    /\ IsInjective(schedule)
    /\ \A i, j \in DOMAIN schedule :
          i < j /\ deliveries[schedule[j]].due => deliveries[schedule[i]].due

\* Taking a row out leaves the others, in their order.
LEMMA WithoutReturns ==
    ASSUME schedule \in Seq(Row), IsInjective(schedule), NEW row \in Row
    PROVE  /\ Without(row) \in Seq(Row)
           /\ ToSet(Without(row)) = ToSet(schedule) \ {row}
           /\ IsInjective(Without(row))
           /\ \A i, j \in DOMAIN Without(row) :
                 i < j => \E p, q \in DOMAIN schedule :
                             p < q /\ schedule[p] = Without(row)[i] /\ schedule[q] = Without(row)[j]
<1> DEFINE chosen == {i \in DOMAIN schedule : schedule[i] # row}
           rest == Pick(schedule, chosen)
<1>1. chosen \subseteq DOMAIN schedule
  OBVIOUS
<1>2. \A i \in DOMAIN schedule : i \in chosen <=> schedule[i] # row
  OBVIOUS
<1>3. \A i \in DOMAIN schedule : i \in Nat
  OBVIOUS
<1> HIDE DEF chosen, rest
<1>4. /\ rest \in Seq(Row)
      /\ \A k \in DOMAIN rest : Nth(chosen, k) \in chosen /\ rest[k] = schedule[Nth(chosen, k)]
      /\ \A k, l \in DOMAIN rest : k < l => Nth(chosen, k) < Nth(chosen, l)
      /\ \A i \in chosen : \E k \in DOMAIN rest : Nth(chosen, k) = i
  BY <1>1, PickType DEF rest
<1>5. ToSet(rest) = ToSet(schedule) \ {row}
  BY <1>1, <1>2, <1>4 DEF ToSet
<1>6. \A i, j \in DOMAIN rest :
         i < j => \E p, q \in DOMAIN schedule :
                     p < q /\ schedule[p] = rest[i] /\ schedule[q] = rest[j]
  BY <1>1, <1>4
<1>7. IsInjective(rest)
  <2> SUFFICES ASSUME NEW i \in DOMAIN rest, NEW j \in DOMAIN rest, rest[i] = rest[j]
               PROVE  i = j
    BY DEF IsInjective
  <2>1. Nth(chosen, i) = Nth(chosen, j) /\ Nth(chosen, i) \in Nat
    BY <1>1, <1>3, <1>4 DEF IsInjective
  <2>2. ~(i < j) /\ ~(j < i)
    BY <1>4, <2>1
  <2>3. i \in Nat /\ j \in Nat
    BY <1>4
  <2> QED BY <2>2, <2>3
<1> QED BY <1>4, <1>5, <1>6, <1>7 DEF rest, chosen, Without

\* What InsertAt returns.
LEMMA InsertReturns ==
    ASSUME NEW T, NEW s \in Seq(T), NEW e \in T, NEW i \in 1 .. Len(s) + 1
    PROVE  /\ InsertAt(s, i, e) \in Seq(T)
           /\ Len(InsertAt(s, i, e)) = Len(s) + 1
           /\ DOMAIN InsertAt(s, i, e) = 1 .. Len(s) + 1
           /\ \A k \in 1 .. Len(s) + 1 :
                 /\ k < i => k \in DOMAIN s /\ InsertAt(s, i, e)[k] = s[k]
                 /\ k = i => InsertAt(s, i, e)[k] = e
                 /\ k > i => k - 1 \in DOMAIN s /\ InsertAt(s, i, e)[k] = s[k - 1]
<1> DEFINE n == Len(s)
           before == SubSeq(s, 1, i - 1)
           after == SubSeq(s, i, n)
<1>1. n \in Nat /\ i \in Nat /\ i >= 1 /\ i <= n + 1 /\ DOMAIN s = 1 .. n
  OBVIOUS
<1>2. \A k \in 1 .. n : s[k] \in T
  OBVIOUS
<1> HIDE DEF n
<1>3. /\ before \in Seq(T)
      /\ Len(before) = i - 1
      /\ \A k \in 1 .. i - 1 : before[k] = s[k]
  <2>1. \A k \in 1 .. i - 1 : s[k] \in T
    BY <1>1, <1>2
  <2>2. /\ SubSeq(s, 1, i - 1) \in Seq(T)
        /\ Len(SubSeq(s, 1, i - 1)) = IF 1 <= i - 1 THEN (i - 1) - 1 + 1 ELSE 0
        /\ \A k \in 1 .. (i - 1) - 1 + 1 : SubSeq(s, 1, i - 1)[k] = s[1 + k - 1]
    <3>1. 1 \in Int /\ i - 1 \in Int
      BY <1>1
    <3> QED BY <2>1, <3>1, SubSeqProperties
  <2> QED BY <1>1, <2>2
<1>4. /\ after \in Seq(T)
      /\ Len(after) = n + 1 - i
      /\ \A k \in 1 .. n + 1 - i : after[k] = s[i + k - 1]
  <2>1. \A k \in i .. n : s[k] \in T
    BY <1>1, <1>2
  <2>2. /\ SubSeq(s, i, n) \in Seq(T)
        /\ Len(SubSeq(s, i, n)) = IF i <= n THEN n - i + 1 ELSE 0
        /\ \A k \in 1 .. n - i + 1 : SubSeq(s, i, n)[k] = s[i + k - 1]
    <3>1. n \in Int /\ i \in Int
      BY <1>1
    <3> QED BY <2>1, <3>1, SubSeqProperties
  <2>3. n - i + 1 = n + 1 - i
    BY <1>1
  <2> QED BY <1>1, <2>2, <2>3
<1> HIDE DEF before, after
<1>5. /\ before \o <<e>> \in Seq(T) /\ Len(before \o <<e>>) = i
      /\ \A k \in 1 .. i : (before \o <<e>>)[k] = IF k = i THEN e ELSE s[k]
  BY <1>1, <1>3
<1> DEFINE front == before \o <<e>>
<1> HIDE DEF front
<1>6. /\ front \o after \in Seq(T) /\ Len(front \o after) = n + 1
      /\ \A k \in 1 .. n + 1 :
            (front \o after)[k] = IF k = i THEN e ELSE IF k < i THEN s[k] ELSE s[k - 1]
  <2>1. /\ front \in Seq(T) /\ Len(front) = i
        /\ \A k \in 1 .. i : front[k] = IF k = i THEN e ELSE s[k]
    BY <1>5 DEF front
  <2>2. front \o after \in Seq(T) /\ Len(front \o after) = n + 1
    BY <1>1, <1>4, <2>1
  <2>3. \A k \in 1 .. n + 1 : (front \o after)[k] = IF k <= i THEN front[k] ELSE after[k - i]
    BY <1>1, <1>4, <2>1
  <2>4. ASSUME NEW k \in 1 .. n + 1, k > i PROVE after[k - i] = s[k - 1]
    <3>1. k - i \in 1 .. n + 1 - i /\ i + (k - i) - 1 = k - 1
      BY <1>1, <2>4
    <3> QED BY <1>4, <3>1
  <2>5. ASSUME NEW k \in 1 .. n + 1
        PROVE (front \o after)[k] = IF k = i THEN e ELSE IF k < i THEN s[k] ELSE s[k - 1]
    <3>1. CASE k <= i
      <4>1. k \in 1 .. i
        BY <1>1, <3>1
      <4> QED BY <1>1, <2>1, <2>3, <3>1, <4>1
    <3>2. CASE k > i
      <4>1. k # i /\ ~(k < i) /\ ~(k <= i)
        BY <1>1, <3>2
      <4>2. (front \o after)[k] = after[k - i]
        BY <2>3, <4>1
      <4>3. after[k - i] = s[k - 1]
        BY <2>4, <3>2
      <4> QED BY <4>1, <4>2, <4>3
    <3>3. k <= i \/ k > i
      BY <1>1
    <3> QED BY <3>1, <3>2, <3>3
  <2> QED BY <2>2, <2>5
<1>7. InsertAt(s, i, e) = front \o after
  BY DEF InsertAt, front, before, after, n
<1>8. \A k \in 1 .. n + 1 : (k < i => k \in 1 .. n) /\ (k > i => k - 1 \in 1 .. n)
  BY <1>1
<1>9. DOMAIN (front \o after) = 1 .. n + 1
  BY <1>6
<1>10. \A k \in 1 .. n + 1 : k < i => k # i
  BY <1>1
<1>11. \A k \in 1 .. n + 1 : k > i => k # i /\ ~(k < i)
  BY <1>1
<1> QED BY <1>1, <1>6, <1>7, <1>8, <1>9, <1>10, <1>11 DEF n

\* a stands somewhere before b.
Precedes(s, a, b) == \E p, q \in DOMAIN s : p < q /\ s[p] = a /\ s[q] = b

\* A step that rewrites one row of the table, and its place in the schedule.
OthersKept(row) == \A other \in Row \ {row} : deliveries'[other] = deliveries[other]

OrderKept(row) ==
    \A a, b \in Row \ {row} : Precedes(schedule', a, b) => Precedes(schedule, a, b)

\* A row that is no longer PENDING leaves the schedule.
LEMMA UnscheduleKeeps ==
    ASSUME ScheduleOK, NEW row \in Row, Unschedule(row), OthersKept(row),
           deliveries'[row].status # "PENDING"
    PROVE  ScheduleOK' /\ OrderKept(row)
<1> DEFINE rest == Without(row)
<1>1. schedule' = rest
  BY DEF Unschedule
<1>2. /\ rest \in Seq(Row)
      /\ ToSet(rest) = ToSet(schedule) \ {row}
      /\ IsInjective(rest)
      /\ \A i, j \in DOMAIN rest :
            i < j => \E p, q \in DOMAIN schedule :
                        p < q /\ schedule[p] = rest[i] /\ schedule[q] = rest[j]
  BY WithoutReturns DEF ScheduleOK
<1> HIDE DEF rest
<1>3. OrderKept(row)
  BY <1>1, <1>2 DEF OrderKept, Precedes
<1>4. ToSet(schedule') = {x \in Row : deliveries'[x].status = "PENDING"}
  BY <1>1, <1>2 DEF ScheduleOK, OthersKept, Pending
<1>5. \A i \in DOMAIN rest : rest[i] \in Row \ {row}
  BY <1>2 DEF ToSet
<1>6. ASSUME NEW i \in DOMAIN rest, NEW j \in DOMAIN rest, i < j, deliveries'[rest[j]].due
      PROVE  deliveries'[rest[i]].due
  <2>1. PICK p \in DOMAIN schedule, q \in DOMAIN schedule :
           p < q /\ schedule[p] = rest[i] /\ schedule[q] = rest[j]
    BY <1>2, <1>6
  <2>2. deliveries'[rest[i]] = deliveries[rest[i]] /\ deliveries'[rest[j]] = deliveries[rest[j]]
    BY <1>5 DEF OthersKept
  <2> QED BY <1>6, <2>1, <2>2 DEF ScheduleOK
<1> QED BY <1>1, <1>2, <1>3, <1>4, <1>6 DEF ScheduleOK, Pending

\* What stands where after a row is put in.
LEMMA InsertKeepsOrder ==
    ASSUME NEW s \in Seq(Row), NEW row \in Row \ ToSet(s), IsInjective(s),
           NEW i \in 1 .. Len(s) + 1
    PROVE  LET t == InsertAt(s, i, row)
           IN  /\ t \in Seq(Row)
               /\ ToSet(t) = ToSet(s) \cup {row}
               /\ IsInjective(t)
               /\ i \in DOMAIN t /\ t[i] = row
               /\ \A p \in DOMAIN t : \/ p < i /\ p \in DOMAIN s /\ t[p] = s[p]
                                      \/ p = i
                                      \/ p > i /\ p - 1 \in DOMAIN s /\ t[p] = s[p - 1]
               /\ \A a, b \in Row \ {row} : Precedes(t, a, b) => Precedes(s, a, b)
<1> DEFINE n == Len(s)
           t == InsertAt(s, i, row)
<1>1. n \in Nat /\ i \in Nat /\ i >= 1 /\ i <= n + 1 /\ DOMAIN s = 1 .. n
  OBVIOUS
<1>2. /\ t \in Seq(Row)
      /\ Len(t) = n + 1
      /\ DOMAIN t = 1 .. n + 1
      /\ \A k \in 1 .. n + 1 :
            /\ k < i => k \in DOMAIN s /\ t[k] = s[k]
            /\ k = i => t[k] = row
            /\ k > i => k - 1 \in DOMAIN s /\ t[k] = s[k - 1]
  BY InsertReturns
<1> HIDE DEF n, t
<1>3. i \in DOMAIN t /\ t[i] = row
  BY <1>1, <1>2
<1>4. \A p \in DOMAIN t : \/ p < i /\ p \in DOMAIN s /\ t[p] = s[p]
                          \/ p = i
                          \/ p > i /\ p - 1 \in DOMAIN s /\ t[p] = s[p - 1]
  BY <1>1, <1>2
<1>5. \A k \in DOMAIN s : \E p \in DOMAIN t : t[p] = s[k]
  <2> SUFFICES ASSUME NEW k \in DOMAIN s PROVE \E p \in DOMAIN t : t[p] = s[k]
    OBVIOUS
  <2>1. CASE k < i
    <3>1. k \in DOMAIN t
      BY <1>1, <1>2
    <3> QED BY <1>2, <2>1, <3>1
  <2>2. CASE ~(k < i)
    <3>1. k + 1 \in DOMAIN t /\ k + 1 > i /\ k + 1 - 1 = k
      BY <1>1, <1>2, <2>2
    <3> QED BY <1>2, <3>1
  <2> QED BY <2>1, <2>2
<1>6. ToSet(t) = ToSet(s) \cup {row}
  BY <1>3, <1>4, <1>5 DEF ToSet
<1>7. \A k \in DOMAIN s : s[k] # row
  BY DEF ToSet
<1>8. IsInjective(t)
  <2> SUFFICES ASSUME NEW p \in DOMAIN t, NEW q \in DOMAIN t, t[p] = t[q] PROVE p = q
    BY DEF IsInjective
  <2>0. p \in Nat /\ q \in Nat
    BY <1>1, <1>2
  <2>1. CASE p < i /\ p \in DOMAIN s /\ t[p] = s[p]
    <3>1. CASE q < i /\ q \in DOMAIN s /\ t[q] = s[q]
      BY <2>1, <3>1 DEF IsInjective
    <3>2. CASE q = i
      BY <1>3, <1>7, <2>1, <3>2
    <3>3. CASE q > i /\ q - 1 \in DOMAIN s /\ t[q] = s[q - 1]
      <4>1. p = q - 1
        BY <2>1, <3>3 DEF IsInjective
      <4> QED BY <1>1, <2>0, <2>1, <3>3, <4>1
    <3> QED BY <1>4, <3>1, <3>2, <3>3
  <2>2. CASE p = i
    BY <1>3, <1>4, <1>7, <2>2
  <2>3. CASE p > i /\ p - 1 \in DOMAIN s /\ t[p] = s[p - 1]
    <3>1. CASE q < i /\ q \in DOMAIN s /\ t[q] = s[q]
      <4>1. q = p - 1
        BY <2>3, <3>1 DEF IsInjective
      <4> QED BY <1>1, <2>0, <2>3, <3>1, <4>1
    <3>2. CASE q = i
      BY <1>3, <1>7, <2>3, <3>2
    <3>3. CASE q > i /\ q - 1 \in DOMAIN s /\ t[q] = s[q - 1]
      <4>1. p - 1 = q - 1
        BY <2>3, <3>3 DEF IsInjective
      <4> QED BY <2>0, <4>1
    <3> QED BY <1>4, <3>1, <3>2, <3>3
  <2> QED BY <1>4, <2>1, <2>2, <2>3
<1>9. ASSUME NEW a \in Row \ {row}, NEW b \in Row \ {row}, Precedes(t, a, b)
      PROVE  Precedes(s, a, b)
  <2>1. PICK p \in DOMAIN t, q \in DOMAIN t : p < q /\ t[p] = a /\ t[q] = b
    BY <1>9 DEF Precedes
  <2>2. p # i /\ q # i /\ p \in Nat /\ q \in Nat
    BY <1>1, <1>2, <1>3, <2>1
  <2>3. CASE p < i /\ p \in DOMAIN s /\ t[p] = s[p]
    <3>1. CASE q < i /\ q \in DOMAIN s /\ t[q] = s[q]
      BY <2>1, <2>3, <3>1 DEF Precedes
    <3>2. CASE q > i /\ q - 1 \in DOMAIN s /\ t[q] = s[q - 1]
      <4>1. p < q - 1
        BY <1>1, <2>2, <2>3, <3>2
      <4> QED BY <2>1, <2>3, <3>2, <4>1 DEF Precedes
    <3> QED BY <1>4, <2>2, <3>1, <3>2
  <2>4. CASE p > i /\ p - 1 \in DOMAIN s /\ t[p] = s[p - 1]
    <3>1. q > i
      BY <1>1, <2>1, <2>2, <2>4
    <3>2. q - 1 \in DOMAIN s /\ t[q] = s[q - 1]
      BY <1>2, <3>1
    <3>3. p - 1 < q - 1
      BY <2>1, <2>2
    <3> QED BY <2>1, <2>4, <3>2, <3>3 DEF Precedes
  <2> QED BY <1>4, <2>2, <2>3, <2>4
<1> QED BY <1>2, <1>3, <1>4, <1>6, <1>8, <1>9 DEF t

\* A row whose next attempt lies in the future stands behind all that are due.
LEMMA RescheduleKeeps ==
    ASSUME ScheduleOK, NEW row \in Row, Reschedule(row), OthersKept(row),
           deliveries'[row].status = "PENDING", ~deliveries'[row].due
    PROVE  ScheduleOK' /\ OrderKept(row)
<1> DEFINE rest == Without(row)
<1>1. PICK i \in 1 .. Len(rest) + 1 :
         /\ \A j \in DOMAIN rest : IsDue(rest[j]) => j < i
         /\ schedule' = InsertAt(rest, i, row)
  BY DEF Reschedule
<1>2. /\ rest \in Seq(Row)
      /\ ToSet(rest) = ToSet(schedule) \ {row}
      /\ IsInjective(rest)
      /\ \A k, l \in DOMAIN rest :
            k < l => \E p, q \in DOMAIN schedule :
                        p < q /\ schedule[p] = rest[k] /\ schedule[q] = rest[l]
  BY WithoutReturns DEF ScheduleOK
<1> HIDE DEF rest
<1>3. /\ schedule' \in Seq(Row)
      /\ ToSet(schedule') = ToSet(rest) \cup {row}
      /\ IsInjective(schedule')
      /\ i \in DOMAIN schedule' /\ schedule'[i] = row
      /\ \A p \in DOMAIN schedule' :
            \/ p < i /\ p \in DOMAIN rest /\ schedule'[p] = rest[p]
            \/ p = i
            \/ p > i /\ p - 1 \in DOMAIN rest /\ schedule'[p] = rest[p - 1]
      /\ \A a, b \in Row \ {row} : Precedes(schedule', a, b) => Precedes(rest, a, b)
  <2>1. row \in Row \ ToSet(rest)
    BY <1>2
  <2> QED BY <1>1, <1>2, <2>1, InsertKeepsOrder
<1>4. OrderKept(row)
  BY <1>2, <1>3 DEF OrderKept, Precedes
<1>5. ToSet(schedule') = {x \in Row : deliveries'[x].status = "PENDING"}
  BY <1>2, <1>3 DEF ScheduleOK, OthersKept, Pending
<1>6. \A k \in DOMAIN rest : rest[k] \in Row \ {row} /\ deliveries'[rest[k]] = deliveries[rest[k]]
  <2> SUFFICES ASSUME NEW k \in DOMAIN rest
               PROVE  rest[k] \in Row \ {row}
    BY DEF OthersKept
  <2>1. rest[k] \in Row
    BY <1>2
  <2>2. rest[k] # row
    BY <1>2 DEF ToSet
  <2> QED BY <2>1, <2>2
<1>7. ASSUME NEW p \in DOMAIN schedule', NEW q \in DOMAIN schedule', p < q,
             deliveries'[schedule'[q]].due
      PROVE  deliveries'[schedule'[p]].due
  <2>1. p \in Nat /\ q \in Nat /\ i \in Nat
    BY <1>3
  <2>2. q # i
    BY <1>3, <1>7
  <2>3. ~(q > i)
    <3> SUFFICES ASSUME q > i PROVE FALSE
      OBVIOUS
    <3>1. q - 1 \in DOMAIN rest /\ schedule'[q] = rest[q - 1]
      BY <1>3, <2>1, <2>2
    <3>2. IsDue(rest[q - 1])
      BY <1>6, <1>7, <3>1 DEF IsDue
    <3>3. q - 1 < i
      BY <1>1, <3>1, <3>2
    <3> QED BY <2>1, <3>3
  <2>4. q < i /\ p < i
    BY <1>7, <2>1, <2>2, <2>3
  <2>5. p \in DOMAIN rest /\ q \in DOMAIN rest /\ schedule'[p] = rest[p] /\ schedule'[q] = rest[q]
    BY <1>3, <2>1, <2>4
  <2>6. PICK k \in DOMAIN schedule, l \in DOMAIN schedule :
           k < l /\ schedule[k] = rest[p] /\ schedule[l] = rest[q]
    BY <1>2, <1>7, <2>5
  <2>7. deliveries[schedule[l]].due
    BY <1>6, <1>7, <2>5, <2>6
  <2>8. deliveries[schedule[k]].due
    BY <2>6, <2>7 DEF ScheduleOK
  <2> QED BY <1>6, <2>5, <2>6, <2>8
<1> QED BY <1>3, <1>4, <1>5, <1>7 DEF ScheduleOK, Pending

\* A new row stands behind all that are due and before the others.
LEMMA ScheduleNowKeeps ==
    ASSUME ScheduleOK, NEW row \in Row, ScheduleNow(row), OthersKept(row), ~Pending(row),
           deliveries'[row].status = "PENDING", deliveries'[row].due
    PROVE  /\ ScheduleOK' /\ OrderKept(row)
           /\ \A other \in Row \ {row} :
                 deliveries[other].due => ~Precedes(schedule', row, other)
<1>1. PICK i \in 1 .. Len(schedule) + 1 :
         /\ \A j \in DOMAIN schedule : IsDue(schedule[j]) <=> j < i
         /\ schedule' = InsertAt(schedule, i, row)
  BY DEF ScheduleNow
<1>2. row \in Row \ ToSet(schedule) /\ schedule \in Seq(Row) /\ IsInjective(schedule)
  BY DEF ScheduleOK
<1>3. /\ schedule' \in Seq(Row)
      /\ ToSet(schedule') = ToSet(schedule) \cup {row}
      /\ IsInjective(schedule')
      /\ i \in DOMAIN schedule' /\ schedule'[i] = row
      /\ \A p \in DOMAIN schedule' :
            \/ p < i /\ p \in DOMAIN schedule /\ schedule'[p] = schedule[p]
            \/ p = i
            \/ p > i /\ p - 1 \in DOMAIN schedule /\ schedule'[p] = schedule[p - 1]
      /\ \A a, b \in Row \ {row} : Precedes(schedule', a, b) => Precedes(schedule, a, b)
  BY <1>1, <1>2, InsertKeepsOrder
<1>4. ToSet(schedule') = {x \in Row : deliveries'[x].status = "PENDING"}
  BY <1>3 DEF ScheduleOK, OthersKept, Pending
<1>5. \A k \in DOMAIN schedule :
         schedule[k] \in Row \ {row} /\ deliveries'[schedule[k]] = deliveries[schedule[k]]
  <2> SUFFICES ASSUME NEW k \in DOMAIN schedule
               PROVE  schedule[k] \in Row \ {row}
    BY DEF OthersKept
  <2>1. schedule[k] \in Row
    BY <1>2
  <2>2. schedule[k] # row
    BY <1>2 DEF ToSet
  <2> QED BY <2>1, <2>2
<1>6. \A p \in DOMAIN schedule' : p \in Nat
  BY <1>3
<1>7. \A p \in DOMAIN schedule' : p > i => ~deliveries'[schedule'[p]].due
  <2> SUFFICES ASSUME NEW p \in DOMAIN schedule', p > i PROVE ~deliveries'[schedule'[p]].due
    OBVIOUS
  <2>0. p \in Nat /\ i \in Nat
    BY <1>3, <1>6
  <2>1. p - 1 \in DOMAIN schedule /\ schedule'[p] = schedule[p - 1]
    BY <1>3, <2>0
  <2>2. ~(p - 1 < i)
    BY <2>0
  <2> QED BY <1>1, <1>5, <2>1, <2>2 DEF IsDue
<1>8. \A p \in DOMAIN schedule' : p <= i => deliveries'[schedule'[p]].due
  <2> SUFFICES ASSUME NEW p \in DOMAIN schedule', p <= i PROVE deliveries'[schedule'[p]].due
    OBVIOUS
  <2>0. p \in Nat /\ i \in Nat
    BY <1>3, <1>6
  <2>1. CASE p = i
    BY <1>3, <2>1
  <2>2. CASE p # i
    <3>1. p < i /\ p \in DOMAIN schedule /\ schedule'[p] = schedule[p]
      BY <1>3, <2>0, <2>2
    <3> QED BY <1>1, <1>5, <3>1 DEF IsDue
  <2> QED BY <2>1, <2>2
<1>9. \A p, q \in DOMAIN schedule' :
         p < q /\ deliveries'[schedule'[q]].due => deliveries'[schedule'[p]].due
  <2> SUFFICES ASSUME NEW p \in DOMAIN schedule', NEW q \in DOMAIN schedule', p < q,
                      deliveries'[schedule'[q]].due
               PROVE  deliveries'[schedule'[p]].due
    OBVIOUS
  <2>1. p \in Nat /\ q \in Nat /\ i \in Nat
    BY <1>3, <1>6
  <2>2. ~(q > i)
    BY <1>7
  <2>3. p <= i
    BY <2>1, <2>2
  <2> QED BY <1>8, <2>3
<1>10. ASSUME NEW other \in Row \ {row}, deliveries[other].due, Precedes(schedule', row, other)
       PROVE  FALSE
  <2>1. PICK p \in DOMAIN schedule', q \in DOMAIN schedule' :
           p < q /\ schedule'[p] = row /\ schedule'[q] = other
    BY <1>10 DEF Precedes
  <2>2. p = i
    BY <1>3, <2>1 DEF IsInjective
  <2>3. ~deliveries'[other].due
    BY <1>7, <2>1, <2>2
  <2> QED BY <1>10, <2>3 DEF OthersKept
<1> QED BY <1>3, <1>4, <1>9, <1>10 DEF ScheduleOK, Pending, OrderKept

-----------------------------------------------------------------------------
(* Deliveries. *)

\* deliver() for a row: nobody else is touched, the counter does not go back, and
\* a row that waits again has been counted and is not due.
LEMMA DeliverKeeps ==
    ASSUME ArchiveTypeOK, ScheduleOK, NEW row \in Row, HasRow(row),
           NEW attempts, Deliver(row, attempts)
    PROVE  /\ deliveries' \in [Row -> DeliveryRow]
           /\ ScheduleOK' /\ OrderKept(row) /\ OthersKept(row)
           /\ deliveries'[row].status # "none"
           /\ deliveries[row].attempts <= deliveries'[row].attempts
           /\ deliveries'[row].status = "PENDING" =>
                 /\ ~deliveries'[row].due
                 /\ deliveries'[row].attempts = deliveries[row].attempts + 1
<1> DEFINE d == deliveries[row]
<1>1. /\ deliveries \in [Row -> DeliveryRow] /\ d \in DeliveryRow /\ d.attempts \in Nat
      /\ d.status # "none"
  BY DEF ArchiveTypeOK, DeliveryRow, HasRow
<1>2. CASE Delivered(row)
  <2>1. deliveries'[row].status = "DELIVERED" /\ deliveries'[row].attempts = d.attempts + 1
    BY <1>2 DEF Delivered, MarkDelivered, ArchiveTypeOK, DeliveryRow
  <2>2. deliveries' \in [Row -> DeliveryRow]
    BY <1>2 DEF Delivered, MarkDelivered, ArchiveTypeOK, DeliveryRow
  <2>3. OthersKept(row)
    BY <1>2 DEF OthersKept, Delivered, MarkDelivered, ArchiveTypeOK
  <2>4. ScheduleOK' /\ OrderKept(row)
    BY <1>2, <2>1, <2>3, UnscheduleKeeps DEF Delivered
  <2> QED BY <1>1, <2>1, <2>2, <2>3, <2>4
<1>3. CASE Skipped(row)
  <2>1. deliveries' = [deliveries EXCEPT ![row] = [d EXCEPT !.status = "SKIPPED"]]
    BY <1>1, <1>3 DEF Skipped, MarkSkipped
  <2>2. /\ deliveries'[row].status = "SKIPPED" /\ deliveries'[row].attempts = d.attempts
        /\ deliveries' \in [Row -> DeliveryRow]
    BY <1>1, <2>1 DEF DeliveryRow
  <2>3. OthersKept(row)
    BY <1>1, <2>1 DEF OthersKept
  <2>4. ScheduleOK' /\ OrderKept(row)
    BY <1>3, <2>2, <2>3, UnscheduleKeeps DEF Skipped
  <2> QED BY <1>1, <2>2, <2>3, <2>4
<1>4. CASE Failed(row, attempts)
  <2>1. PICK retryable \in BOOLEAN :
           /\ MarkAttemptFailed(row, attempts, retryable)
           /\ IF Exhausted(attempts, retryable) THEN Unschedule(row) ELSE Reschedule(row)
    BY <1>4 DEF Failed
  <2>2. deliveries' = [deliveries EXCEPT ![row] =
                         [status   |-> IF Exhausted(attempts, retryable) THEN "FAILED" ELSE "PENDING",
                          attempts |-> d.attempts + 1,
                          due      |-> FALSE]]
    BY <1>1, <2>1 DEF MarkAttemptFailed
  <2>3. /\ deliveries'[row].attempts = d.attempts + 1 /\ ~deliveries'[row].due
        /\ deliveries'[row].status = IF Exhausted(attempts, retryable) THEN "FAILED" ELSE "PENDING"
        /\ deliveries' \in [Row -> DeliveryRow]
    BY <1>1, <2>2 DEF DeliveryRow
  <2>4. OthersKept(row)
    BY <1>1, <2>2 DEF OthersKept
  <2>5. ScheduleOK' /\ OrderKept(row)
    <3>1. CASE Exhausted(attempts, retryable)
      BY <2>1, <2>3, <2>4, <3>1, UnscheduleKeeps
    <3>2. CASE ~Exhausted(attempts, retryable)
      BY <2>1, <2>3, <2>4, <3>2, RescheduleKeeps
    <3> QED BY <3>1, <3>2
  <2> QED BY <1>1, <2>3, <2>4, <2>5
<1> QED BY <1>2, <1>3, <1>4 DEF Deliver

-----------------------------------------------------------------------------
(* Steps. *)

\* What is delivered has been stored and queued: nothing is queued twice, and
\* every attempt is of a row that is in the table.
Grounded ==
    /\ \A row \in Row : HasRow(row) => Stored(row[1])
    /\ \A m \in Msg : \A r \in todo[m] : Stored(m) /\ ~HasRow(<<m, r>>)
    /\ \A row \in first : HasRow(row)
    /\ \A k \in DOMAIN batch : HasRow(batch[k].row)

\* A row of a message and a route.
LEMMA RowParts ==
    /\ \A row \in Row : row[1] \in Msg /\ row[2] \in Route /\ row = <<row[1], row[2]>>
    /\ \A m \in Msg, r \in Route : <<m, r>> \in Row /\ <<m, r>>[1] = m /\ <<m, r>>[2] = r
BY DEF Row

\* The head of the batch and what comes after it.
LEMMA BatchParts ==
    ASSUME TypeOK, batch # <<>>
    PROVE  /\ 1 \in DOMAIN batch /\ Head(batch) = batch[1]
           /\ Head(batch).row \in Row /\ Head(batch).attempts \in Nat
           /\ Tail(batch) \in Seq(Item) /\ Len(Tail(batch)) = Len(batch) - 1
           /\ \A k \in DOMAIN Tail(batch) :
                 k \in Nat /\ k + 1 \in DOMAIN batch /\ Tail(batch)[k] = batch[k + 1]
           /\ \A k \in DOMAIN batch : k # 1 => k - 1 \in DOMAIN Tail(batch)
<1>1. batch \in Seq(Item)
  BY DEF TypeOK
<1>2. Len(batch) \in Nat /\ Len(batch) >= 1 /\ DOMAIN batch = 1 .. Len(batch)
  BY <1>1
<1>3. /\ Head(batch) = batch[1] /\ Tail(batch) \in Seq(Item) /\ Len(Tail(batch)) = Len(batch) - 1
      /\ \A k \in 1 .. Len(Tail(batch)) : Tail(batch)[k] = batch[k + 1]
  BY <1>1, <1>2, HeadTailProperties
<1>4. batch[1] \in Item
  BY <1>1, <1>2
<1>5. DOMAIN Tail(batch) = 1 .. Len(batch) - 1
  BY <1>3
<1> QED BY <1>2, <1>3, <1>4, <1>5 DEF Item

\* queue_delivery for a route that the fan-out has not reached yet.
LEMMA QueueKeeps ==
    ASSUME TypeOK, Grounded, NEW m \in Msg, Queue(m)
    PROVE  \E r \in todo[m] :
              /\ <<m, r>> \in Row /\ ~HasRow(<<m, r>>) /\ Stored(m)
              /\ deliveries' = [deliveries EXCEPT ![<<m, r>>] =
                                  [status |-> "PENDING", attempts |-> 0, due |-> TRUE]]
              /\ ScheduleOK' /\ OrderKept(<<m, r>>) /\ OthersKept(<<m, r>>)
              /\ \A other \in Row \ {<<m, r>>} :
                    deliveries[other].due => ~Precedes(schedule', <<m, r>>, other)
              /\ todo' = [todo EXCEPT ![m] = todo[m] \ {r}]
              /\ first' = first \cup {<<m, r>>}
              /\ UNCHANGED <<messages, config, batch, faults>>
<1>1. PICK r \in todo[m] :
         /\ QueueDelivery(<<m, r>>, "PENDING")
         /\ ScheduleNow(<<m, r>>)
         /\ todo' = [todo EXCEPT ![m] = @ \ {r}]
         /\ first' = first \cup {<<m, r>>}
  BY DEF Queue
<1>2. r \in Route /\ <<m, r>> \in Row
  BY RowParts DEF TypeOK
<1> DEFINE row == <<m, r>>
<1>3. ~HasRow(row) /\ Stored(m)
  BY DEF Grounded
<1>4. deliveries' = [deliveries EXCEPT ![row] = [status |-> "PENDING", attempts |-> 0, due |-> TRUE]]
  BY <1>1, <1>3 DEF QueueDelivery
<1> HIDE DEF row
<1>5. /\ deliveries'[row].status = "PENDING" /\ deliveries'[row].due
      /\ OthersKept(row) /\ ~Pending(row)
  BY <1>2, <1>3, <1>4 DEF OthersKept, TypeOK, ArchiveTypeOK, HasRow, Pending, row
<1>6. ScheduleOK /\ row \in Row
  BY <1>2 DEF ScheduleOK, TypeOK, row
<1>7. /\ ScheduleOK' /\ OrderKept(row)
      /\ \A other \in Row \ {row} : deliveries[other].due => ~Precedes(schedule', row, other)
  BY <1>1, <1>5, <1>6, ScheduleNowKeeps DEF row
<1>8. UNCHANGED <<messages, config, batch, faults>>
  BY DEF Queue
<1>9. todo' = [todo EXCEPT ![m] = todo[m] \ {r}]
  BY <1>1 DEF TypeOK
<1> QED BY <1>1, <1>2, <1>3, <1>4, <1>5, <1>7, <1>8, <1>9 DEF row

\* The next timestamp passes: all that are due stand before its row.
LEMMA ElapseKeeps ==
    ASSUME TypeOK, Elapse
    PROVE  \E row \in Row :
              /\ Pending(row) /\ ~deliveries[row].due
              /\ deliveries' = [deliveries EXCEPT ![row].due = TRUE]
              /\ ScheduleOK' /\ OthersKept(row)
              /\ \A other \in Row : deliveries[other].due => ~Precedes(schedule, row, other)
              /\ UNCHANGED <<messages, config, todo, first, schedule, batch, faults>>
<1>1. PICK i \in DOMAIN schedule :
         /\ \A j \in 1 .. i - 1 : IsDue(schedule[j])
         /\ BackoffElapses(schedule[i])
  BY DEF Elapse
<1> DEFINE row == schedule[i]
<1>2. row \in Row /\ i \in Nat
  BY DEF TypeOK
<1>3. /\ Pending(row) /\ ~deliveries[row].due
      /\ deliveries' = [deliveries EXCEPT ![row].due = TRUE]
      /\ UNCHANGED <<messages, config, todo, first, schedule, batch, faults>>
  BY <1>1 DEF BackoffElapses, Elapse, Pending
<1>4. /\ \A other \in Row : deliveries'[other].status = deliveries[other].status
      /\ OthersKept(row) /\ deliveries'[row].due
  BY <1>2, <1>3 DEF TypeOK, ArchiveTypeOK, DeliveryRow, OthersKept
<1>5. ScheduleOK
  BY DEF TypeOK, ScheduleOK
<1>6. ASSUME NEW other \in Row, deliveries[other].due, Precedes(schedule, row, other) PROVE FALSE
  <2>1. PICK p \in DOMAIN schedule, q \in DOMAIN schedule :
           p < q /\ schedule[p] = row /\ schedule[q] = other
    BY <1>6 DEF Precedes
  <2>2. deliveries[row].due
    BY <1>5, <1>6, <2>1 DEF ScheduleOK
  <2> QED BY <1>3, <2>2
<1>7. ASSUME NEW p \in DOMAIN schedule, NEW q \in DOMAIN schedule, p < q,
             deliveries'[schedule[q]].due
      PROVE  deliveries'[schedule[p]].due
  <2>1. schedule[p] \in Row /\ schedule[q] \in Row /\ p \in Nat /\ q \in Nat
    BY <1>5 DEF ScheduleOK
  <2>2. CASE q = i
    <3>1. p \in 1 .. i - 1
      BY <1>2, <1>5, <1>7, <2>1, <2>2 DEF ScheduleOK
    <3>2. deliveries[schedule[p]].due
      BY <1>1, <3>1 DEF IsDue
    <3> QED BY <1>4, <2>1, <3>2 DEF OthersKept
  <2>3. CASE q # i
    <3>1. schedule[q] # row
      BY <1>5, <2>3 DEF ScheduleOK, IsInjective
    <3>2. deliveries[schedule[q]].due
      BY <1>4, <1>7, <2>1, <3>1 DEF OthersKept
    <3>3. deliveries[schedule[p]].due
      BY <1>5, <1>7, <3>2 DEF ScheduleOK
    <3> QED BY <1>4, <2>1, <3>3 DEF OthersKept
  <2> QED BY <2>2, <2>3
<1> HIDE DEF row
<1>8. ScheduleOK'
  BY <1>3, <1>4, <1>5, <1>7 DEF ScheduleOK, Pending
<1> QED BY <1>2, <1>3, <1>4, <1>6, <1>8

\* The due rows, up to the limit, in the order of the schedule.
LEMMA SweepReadReturns ==
    ASSUME TypeOK, SweepRead
    PROVE  /\ batch' \in Seq(Item) /\ Len(batch') <= SweepLimit
           /\ \A k \in DOMAIN batch' : /\ batch'[k].row \in DueRows
                                       /\ batch'[k].attempts = deliveries[batch'[k].row].attempts
           /\ \A k \in DOMAIN batch' : \A other \in DueRows :
                 Precedes(schedule, other, batch'[k].row) =>
                     \E j \in 1 .. k - 1 : batch'[j].row = other
<1> DEFINE chosen == {i \in DOMAIN schedule : schedule[i] \in DueRows}
           read == {i \in DOMAIN DueInOrder : i <= SweepLimit}
<1>1. chosen \subseteq DOMAIN schedule /\ schedule \in Seq(Row) /\ IsInjective(schedule)
  BY DEF TypeOK
<1>2. \A i \in DOMAIN schedule : i \in chosen <=> schedule[i] \in DueRows
  OBVIOUS
<1>3. DueInOrder = Pick(schedule, chosen)
  BY DEF DueInOrder
<1>4. batch' = [i \in read |-> [row |-> DueInOrder[i], attempts |-> deliveries[DueInOrder[i]].attempts]]
  BY DEF SweepRead
<1>5. \A i : i \in read <=> i \in DOMAIN DueInOrder /\ i <= SweepLimit
  OBVIOUS
<1> HIDE DEF chosen, read
<1>6. /\ Cardinality(chosen) \in Nat
      /\ DOMAIN DueInOrder = 1 .. Cardinality(chosen)
      /\ \A k \in DOMAIN DueInOrder :
            Nth(chosen, k) \in chosen /\ DueInOrder[k] = schedule[Nth(chosen, k)]
      /\ \A k, l \in DOMAIN DueInOrder : k < l => Nth(chosen, k) < Nth(chosen, l)
      /\ \A i \in chosen : \E k \in DOMAIN DueInOrder : Nth(chosen, k) = i
  BY <1>1, <1>3, PickType
<1>7. \A k \in DOMAIN DueInOrder : DueInOrder[k] \in DueRows
  BY <1>1, <1>2, <1>6
<1>8. \A row \in DueRows : row \in Row /\ deliveries[row].attempts \in Nat
  BY DEF DueRows, TypeOK, ArchiveTypeOK, DeliveryRow
<1> DEFINE n == IF Cardinality(chosen) <= SweepLimit THEN Cardinality(chosen) ELSE SweepLimit
<1>9. n \in Nat /\ n <= SweepLimit /\ read = 1 .. n
  <2>1. SweepLimit \in Nat
    BY BoundsAssumption
  <2>2. n \in Nat /\ n <= SweepLimit /\ n <= Cardinality(chosen)
    BY <1>6, <2>1
  <2>3. \A i \in Nat : i <= n <=> i <= Cardinality(chosen) /\ i <= SweepLimit
    BY <1>6, <2>1
  <2> HIDE DEF n
  <2>4. \A i : i \in 1 .. n <=> i \in 1 .. Cardinality(chosen) /\ i <= SweepLimit
    BY <1>6, <2>1, <2>2, <2>3
  <2>5. \A i : i \in read <=> i \in 1 .. n
    BY <1>5, <1>6, <2>4
  <2> QED BY <2>2, <2>5
<1> HIDE DEF n
<1>10. batch' \in Seq(Item) /\ Len(batch') = n /\ DOMAIN batch' = 1 .. n
  <2>1. batch' \in [1 .. n -> Item]
    BY <1>4, <1>5, <1>7, <1>8, <1>9 DEF Item
  <2> QED BY <1>9, <2>1
<1>11. \A k \in 1 .. n : /\ k \in DOMAIN DueInOrder /\ batch'[k].row = DueInOrder[k]
                         /\ batch'[k].attempts = deliveries[DueInOrder[k]].attempts
  BY <1>4, <1>5, <1>9
<1>12. ASSUME NEW k \in 1 .. n, NEW other \in DueRows, Precedes(schedule, other, batch'[k].row)
       PROVE  \E j \in 1 .. k - 1 : batch'[j].row = other
  <2>1. PICK p \in DOMAIN schedule, q \in DOMAIN schedule :
           p < q /\ schedule[p] = other /\ schedule[q] = batch'[k].row
    BY <1>12 DEF Precedes
  <2>2. k \in DOMAIN DueInOrder /\ batch'[k].row = schedule[Nth(chosen, k)] /\ Nth(chosen, k) \in chosen
    BY <1>6, <1>11
  <2>3. q = Nth(chosen, k)
    BY <1>1, <2>1, <2>2 DEF IsInjective
  <2>4. p \in chosen
    BY <1>2, <2>1
  <2>5. PICK j \in DOMAIN DueInOrder : Nth(chosen, j) = p
    BY <1>6, <2>4
  <2>6. j # k
    BY <1>1, <2>1, <2>3, <2>5
  <2>7. ~(k < j)
    <3> SUFFICES ASSUME k < j PROVE FALSE
      OBVIOUS
    <3>1. q < p
      BY <1>6, <2>2, <2>3, <2>5
    <3>2. p \in Nat /\ q \in Nat
      BY <1>1
    <3> QED BY <2>1, <3>1, <3>2
  <2>8. j \in 1 .. k - 1 /\ j \in 1 .. n
    BY <1>6, <1>9, <2>6, <2>7
  <2>9. batch'[j].row = other
    BY <1>6, <1>11, <2>1, <2>5, <2>8
  <2> QED BY <2>8, <2>9
<1> QED BY <1>7, <1>9, <1>10, <1>11, <1>12

-----------------------------------------------------------------------------
(* Types and ground. *)

\* TypeOK, part by part.
LEMMA TypeParts ==
    TypeOK <=> /\ messages \in [Msg -> MessageRow] /\ deliveries \in [Row -> DeliveryRow]
               /\ config \in Configs /\ todo \in [Msg -> SUBSET Route] /\ first \subseteq Row
               /\ batch \in Seq(Item) /\ Len(batch) <= SweepLimit
               /\ faults \in 0 .. MaxFaults
               /\ ScheduleOK
BY DEF TypeOK, ArchiveTypeOK, ScheduleOK

\* What deliver() does in a step that ends an attempt of a row in the table.
LEMMA AttemptKeeps ==
    ASSUME TypeOK, NEW row \in Row, HasRow(row), NEW attempts, Deliver(row, attempts)
    PROVE  /\ deliveries' \in [Row -> DeliveryRow]
           /\ ScheduleOK' /\ OrderKept(row) /\ OthersKept(row)
           /\ deliveries[row].attempts <= deliveries'[row].attempts
           /\ deliveries'[row].status = "PENDING" =>
                 /\ ~deliveries'[row].due
                 /\ deliveries'[row].attempts = deliveries[row].attempts + 1
           /\ \A other \in Row : HasRow(other)' <=> HasRow(other)
<1>1. ArchiveTypeOK /\ ScheduleOK
  BY DEF TypeOK, ScheduleOK
<1>2. /\ deliveries' \in [Row -> DeliveryRow]
      /\ ScheduleOK' /\ OrderKept(row) /\ OthersKept(row)
      /\ deliveries'[row].status # "none"
      /\ deliveries[row].attempts <= deliveries'[row].attempts
      /\ deliveries'[row].status = "PENDING" =>
            /\ ~deliveries'[row].due
            /\ deliveries'[row].attempts = deliveries[row].attempts + 1
  BY <1>1, DeliverKeeps
<1>3. \A other \in Row : HasRow(other)' <=> HasRow(other)
  BY <1>2 DEF HasRow, OthersKept
<1> QED BY <1>2, <1>3

\* The bound on faults.
LEMMA FaultCounted ==
    ASSUME TypeOK, faults' = faults \/ (faults < MaxFaults /\ faults' = faults + 1)
    PROVE  faults' \in 0 .. MaxFaults
BY BoundsAssumption DEF TypeOK

\* Types and the order of the schedule are preserved.
LEMMA TypeStep == TypeOK /\ Grounded /\ [Next]_vars => TypeOK'
<1> SUFFICES ASSUME TypeOK, Grounded, [Next]_vars PROVE TypeOK'
  OBVIOUS
<1>0. /\ messages \in [Msg -> MessageRow] /\ deliveries \in [Row -> DeliveryRow]
      /\ config \in Configs /\ todo \in [Msg -> SUBSET Route] /\ first \subseteq Row
      /\ batch \in Seq(Item) /\ Len(batch) <= SweepLimit
      /\ faults \in 0 .. MaxFaults
      /\ ScheduleOK
  BY TypeParts
<1>1. ASSUME NEW m \in Msg, Store(m) PROVE TypeOK'
  <2>1. messages' \in [Msg -> MessageRow]
    <3>1. 0 \in Text
      BY MaxEditsAssumption DEF Text
    <3> QED BY <1>0, <1>1, <3>1 DEF Store, StoreMessage, MessageRow
  <2>2. todo' \in [Msg -> SUBSET Route]
    BY <1>0, <1>1 DEF Store
  <2> QED BY <1>0, <1>1, <2>1, <2>2 DEF Store, TypeOK, ArchiveTypeOK, Pending
<1>2. ASSUME NEW m \in Msg, Queue(m) PROVE TypeOK'
  <2>1. PICK r \in todo[m] :
           /\ <<m, r>> \in Row
           /\ deliveries' = [deliveries EXCEPT ![<<m, r>>] =
                               [status |-> "PENDING", attempts |-> 0, due |-> TRUE]]
           /\ ScheduleOK'
           /\ todo' = [todo EXCEPT ![m] = todo[m] \ {r}]
           /\ first' = first \cup {<<m, r>>}
           /\ UNCHANGED <<messages, config, batch, faults>>
    BY <1>2, QueueKeeps
  <2>2. deliveries' \in [Row -> DeliveryRow]
    BY <1>0, <2>1 DEF DeliveryRow
  <2>3. todo' \in [Msg -> SUBSET Route] /\ first' \subseteq Row
    BY <1>0, <2>1
  <2> QED BY <1>0, <2>1, <2>2, <2>3 DEF TypeOK, ArchiveTypeOK, ScheduleOK
<1>3. ASSUME NEW row \in Row, FirstEnds(row) PROVE TypeOK'
  <2>1. HasRow(row) /\ Deliver(row, 0)
    BY <1>3 DEF FirstEnds, Grounded
  <2>2. deliveries' \in [Row -> DeliveryRow] /\ ScheduleOK'
    BY <2>1, AttemptKeeps
  <2> QED BY <1>0, <1>3, <2>2 DEF FirstEnds, TypeOK, ArchiveTypeOK, ScheduleOK
<1>4. ASSUME NEW row \in Row, FirstRaises(row) PROVE TypeOK'
  <2>1. faults' \in 0 .. MaxFaults
    BY <1>4, FaultCounted DEF FirstRaises, Raises
  <2>2. todo' \in [Msg -> SUBSET Route] /\ first' \subseteq Row
    BY <1>0, <1>4, RowParts DEF FirstRaises
  <2> QED BY <1>0, <1>4, <2>1, <2>2 DEF FirstRaises, archiveVars, TypeOK, ArchiveTypeOK, Pending
<1>5. ASSUME Elapse PROVE TypeOK'
  <2>1. PICK row \in Row :
           /\ deliveries' = [deliveries EXCEPT ![row].due = TRUE]
           /\ ScheduleOK'
           /\ UNCHANGED <<messages, config, todo, first, schedule, batch, faults>>
    BY <1>5, ElapseKeeps
  <2>2. deliveries' \in [Row -> DeliveryRow]
    BY <1>0, <2>1 DEF DeliveryRow
  <2> QED BY <1>0, <2>1, <2>2 DEF TypeOK, ArchiveTypeOK, ScheduleOK
<1>6. ASSUME SweepRead PROVE TypeOK'
  <2>1. batch' \in Seq(Item) /\ Len(batch') <= SweepLimit
    BY <1>6, SweepReadReturns
  <2> QED BY <1>0, <1>6, <2>1 DEF SweepRead, archiveVars, TypeOK, ArchiveTypeOK, Pending
<1>7. ASSUME batch # <<>>, batch' = Tail(batch)
      PROVE  batch' \in Seq(Item) /\ Len(batch') <= SweepLimit
  <2>1. Tail(batch) \in Seq(Item) /\ Len(Tail(batch)) = Len(batch) - 1
    BY <1>7, BatchParts
  <2> QED BY <1>0, <1>7, <2>1, BoundsAssumption
<1>8. ASSUME batch' = <<>>
      PROVE  batch' \in Seq(Item) /\ Len(batch') <= SweepLimit
  BY <1>8, BoundsAssumption
<1>9. ASSUME SweepSkip PROVE TypeOK'
  <2>1. batch' \in Seq(Item) /\ Len(batch') <= SweepLimit
    BY <1>7, <1>9 DEF SweepSkip
  <2> QED BY <1>0, <1>9, <2>1 DEF SweepSkip, archiveVars, TypeOK, ArchiveTypeOK, Pending
<1>10. ASSUME SweepDeliver PROVE TypeOK'
  <2>1. /\ batch # <<>> /\ Deliver(Head(batch).row, Head(batch).attempts)
        /\ batch' = Tail(batch) /\ UNCHANGED <<messages, config, todo, first, faults>>
    BY <1>10 DEF SweepDeliver
  <2>2. Head(batch).row \in Row /\ HasRow(Head(batch).row)
    BY <2>1, BatchParts DEF Grounded
  <2>3. deliveries' \in [Row -> DeliveryRow] /\ ScheduleOK'
    BY <2>1, <2>2, AttemptKeeps
  <2>4. batch' \in Seq(Item) /\ Len(batch') <= SweepLimit
    BY <1>7, <2>1
  <2> QED BY <1>0, <2>1, <2>3, <2>4 DEF TypeOK, ArchiveTypeOK, ScheduleOK
<1>11. ASSUME SweepRaises PROVE TypeOK'
  <2>1. faults' \in 0 .. MaxFaults
    BY <1>11, FaultCounted DEF SweepRaises, Raises
  <2>2. batch' \in Seq(Item) /\ Len(batch') <= SweepLimit
    BY <1>8, <1>11 DEF SweepRaises
  <2> QED BY <1>0, <1>11, <2>1, <2>2 DEF SweepRaises, archiveVars, TypeOK, ArchiveTypeOK, Pending
<1>12. ASSUME Restart PROVE TypeOK'
  <2>1. faults' \in 0 .. MaxFaults
    BY <1>12, FaultCounted DEF Restart
  <2>2. batch' \in Seq(Item) /\ Len(batch') <= SweepLimit
    BY <1>8, <1>12 DEF Restart
  <2>3. config' \in Configs /\ todo' \in [Msg -> SUBSET Route] /\ first' \subseteq Row
    BY <1>12 DEF Restart
  <2> QED BY <1>0, <1>12, <2>1, <2>2, <2>3 DEF Restart, archiveVars, TypeOK, ArchiveTypeOK, Pending
<1>13. CASE UNCHANGED vars
  BY <1>0, <1>13 DEF vars, TypeOK, ArchiveTypeOK, Pending
<1> QED
  BY <1>1, <1>2, <1>3, <1>4, <1>5, <1>6, <1>9, <1>10, <1>11, <1>12, <1>13 DEF Next

\* The ground is preserved.
LEMMA GroundedStep == TypeOK /\ Grounded /\ [Next]_vars => Grounded'
<1> SUFFICES ASSUME TypeOK, Grounded, [Next]_vars PROVE Grounded'
  OBVIOUS
<1>0. /\ messages \in [Msg -> MessageRow] /\ deliveries \in [Row -> DeliveryRow]
      /\ todo \in [Msg -> SUBSET Route] /\ first \subseteq Row /\ batch \in Seq(Item)
  BY TypeParts
<1>a. \A k \in DOMAIN batch : batch[k].row \in Row /\ HasRow(batch[k].row)
  <2>1. \A k \in DOMAIN batch : batch[k] \in Item
    BY <1>0
  <2> QED BY <2>1 DEF Item, Grounded
<1>b. \A m \in Msg : \A r \in todo[m] : <<m, r>> \in Row /\ Stored(m) /\ ~HasRow(<<m, r>>)
  <2>1. \A m \in Msg : \A r \in todo[m] : r \in Route
    BY <1>0
  <2> QED BY <2>1, RowParts DEF Grounded
<1>1. ASSUME NEW m \in Msg, Store(m) PROVE Grounded'
  <2>1. /\ ~Stored(m)
        /\ messages' = [messages EXCEPT ![m] = [state |-> "live", text |-> 0]]
        /\ todo' = [todo EXCEPT ![m] = {r \in Route : Forwards(r)}]
        /\ UNCHANGED <<deliveries, config, first, schedule, batch, faults>>
    BY <1>1 DEF Store, StoreMessage
  <2>2. \A x \in Msg : Stored(x) \/ x = m => Stored(x)'
    BY <1>0, <2>1 DEF Stored
  <2>3. \A r \in Route : ~HasRow(<<m, r>>)
    BY <2>1, RowParts DEF Grounded
  <2>4. \A x \in Msg : \A r \in todo'[x] : Stored(x)' /\ ~HasRow(<<x, r>>)
    <3> SUFFICES ASSUME NEW x \in Msg, NEW r \in todo'[x] PROVE Stored(x)' /\ ~HasRow(<<x, r>>)
      OBVIOUS
    <3>1. CASE x = m
      BY <1>0, <2>1, <2>2, <2>3, <3>1
    <3>2. CASE x # m
      <4>1. r \in todo[x]
        BY <1>0, <2>1, <3>2
      <4> QED BY <2>2, <4>1 DEF Grounded
    <3> QED BY <3>1, <3>2
  <2>5. \A row \in Row : HasRow(row) => Stored(row[1])'
    <3> SUFFICES ASSUME NEW row \in Row, HasRow(row) PROVE Stored(row[1])'
      OBVIOUS
    <3>1. row[1] \in Msg /\ Stored(row[1])
      BY RowParts DEF Grounded
    <3> QED BY <2>2, <3>1
  <2> QED BY <2>1, <2>4, <2>5 DEF Grounded, HasRow, Stored
<1>2. ASSUME NEW m \in Msg, Queue(m) PROVE Grounded'
  <2>1. PICK r \in todo[m] :
           /\ <<m, r>> \in Row /\ Stored(m)
           /\ deliveries' = [deliveries EXCEPT ![<<m, r>>] =
                               [status |-> "PENDING", attempts |-> 0, due |-> TRUE]]
           /\ todo' = [todo EXCEPT ![m] = todo[m] \ {r}]
           /\ first' = first \cup {<<m, r>>}
           /\ UNCHANGED <<messages, config, batch, faults>>
    BY <1>2, QueueKeeps
  <2>2. \A row \in Row : HasRow(row)' <=> HasRow(row) \/ row = <<m, r>>
    BY <1>0, <2>1 DEF HasRow
  <2>3. \A x \in Msg : Stored(x)' <=> Stored(x)
    BY <2>1 DEF Stored
  <2>4. \A row \in Row : HasRow(row)' => Stored(row[1])'
    <3> SUFFICES ASSUME NEW row \in Row, HasRow(row)' PROVE Stored(row[1])
      BY <2>3, RowParts
    <3>1. row = <<m, r>> => row[1] = m
      OBVIOUS
    <3> QED BY <2>1, <2>2, <3>1 DEF Grounded
  <2>5. \A x \in Msg : \A s \in todo'[x] : Stored(x)' /\ ~HasRow(<<x, s>>)'
    <3> SUFFICES ASSUME NEW x \in Msg, NEW s \in todo'[x]
                 PROVE  Stored(x) /\ ~HasRow(<<x, s>>)'
      BY <2>3
    <3>1. s \in todo[x] /\ <<x, s>> # <<m, r>>
      BY <1>0, <2>1
    <3>2. <<x, s>> \in Row
      BY <1>0, <3>1, RowParts
    <3> QED BY <2>2, <3>1, <3>2 DEF Grounded
  <2>6. \A row \in first' : HasRow(row)'
    BY <1>0, <2>1, <2>2 DEF Grounded
  <2>7. \A k \in DOMAIN batch : deliveries'[batch[k].row].status # "none"
    BY <1>a, <2>2 DEF HasRow
  <2> QED BY <2>1, <2>4, <2>5, <2>6, <2>7 DEF Grounded, HasRow
<1>3. ASSUME NEW row \in Row, HasRow(row), NEW attempts, Deliver(row, attempts),
             UNCHANGED <<messages, todo>>, first' \subseteq first,
             \A k \in DOMAIN batch' : \E l \in DOMAIN batch : batch'[k] = batch[l]
      PROVE  Grounded'
  <2>1. \A other \in Row : deliveries'[other].status # "none" <=> HasRow(other)
    BY <1>3, AttemptKeeps DEF HasRow
  <2>2. \A other \in Row : deliveries'[other].status # "none" => Stored(other[1])
    BY <2>1 DEF Grounded
  <2>3. \A m \in Msg : \A r \in todo[m] : Stored(m) /\ ~(deliveries'[<<m, r>>].status # "none")
    BY <1>b, <2>1
  <2>4. \A other \in first' : deliveries'[other].status # "none"
    BY <1>0, <1>3, <2>1 DEF Grounded
  <2>5. \A l \in DOMAIN batch : deliveries'[batch[l].row].status # "none"
    BY <1>a, <2>1
  <2>6. \A k \in DOMAIN batch' : deliveries'[batch'[k].row].status # "none"
    BY <1>3, <2>5
  <2> QED BY <1>3, <2>2, <2>3, <2>4, <2>6 DEF Grounded, HasRow, Stored
<1>4. ASSUME NEW row \in Row, FirstEnds(row) PROVE Grounded'
  BY <1>3, <1>4 DEF FirstEnds, Grounded
<1>5. ASSUME SweepDeliver PROVE Grounded'
  <2>1. /\ batch # <<>> /\ Deliver(Head(batch).row, Head(batch).attempts)
        /\ batch' = Tail(batch) /\ UNCHANGED <<messages, todo, first>>
    BY <1>5 DEF SweepDeliver
  <2>2. Head(batch).row \in Row /\ HasRow(Head(batch).row)
    BY <2>1, BatchParts DEF Grounded
  <2>3. \A k \in DOMAIN batch' : \E l \in DOMAIN batch : batch'[k] = batch[l]
    BY <2>1, BatchParts
  <2> QED BY <1>3, <2>1, <2>2, <2>3
<1>6. ASSUME UNCHANGED archiveVars, todo' = todo \/ \A m \in Msg : todo'[m] \subseteq todo[m],
             first' \subseteq first,
             \A k \in DOMAIN batch' : deliveries[batch'[k].row].status # "none"
      PROVE  Grounded'
  BY <1>6 DEF archiveVars, Grounded, HasRow, Stored
<1>7. ASSUME NEW row \in Row, FirstRaises(row) PROVE Grounded'
  <2>1. /\ UNCHANGED archiveVars /\ batch' = batch /\ first' \subseteq first
        /\ todo' = [todo EXCEPT ![row[1]] = {}]
    BY <1>7 DEF FirstRaises
  <2>2. \A m \in Msg : todo'[m] \subseteq todo[m]
    BY <1>0, <2>1
  <2>3. \A k \in DOMAIN batch' : deliveries[batch'[k].row].status # "none"
    BY <2>1 DEF Grounded, HasRow
  <2> QED BY <1>6, <2>1, <2>2, <2>3
<1>8. ASSUME Elapse PROVE Grounded'
  <2>1. PICK row \in Row :
           /\ deliveries' = [deliveries EXCEPT ![row].due = TRUE]
           /\ UNCHANGED <<messages, config, todo, first, schedule, batch, faults>>
    BY <1>8, ElapseKeeps
  <2>2. \A other \in Row : deliveries'[other].status = deliveries[other].status
    BY <1>0, <2>1 DEF DeliveryRow
  <2>3. \A l \in DOMAIN batch : deliveries'[batch[l].row].status # "none"
    BY <1>a, <2>2 DEF HasRow
  <2>4. \A m \in Msg : \A r \in todo[m] : Stored(m) /\ ~(deliveries'[<<m, r>>].status # "none")
    BY <1>b, <2>2 DEF HasRow
  <2>5. \A other \in first : deliveries'[other].status # "none"
    BY <1>0, <2>2 DEF Grounded, HasRow
  <2> QED BY <2>1, <2>2, <2>3, <2>4, <2>5 DEF Grounded, HasRow, Stored
<1>9. ASSUME SweepRead PROVE Grounded'
  <2>1. \A k \in DOMAIN batch' : deliveries[batch'[k].row].status # "none"
    BY <1>9, SweepReadReturns DEF DueRows
  <2> QED BY <1>6, <1>9, <2>1 DEF SweepRead
<1>10. ASSUME SweepSkip PROVE Grounded'
  <2>1. \A k \in DOMAIN batch' : \E l \in DOMAIN batch : batch'[k] = batch[l]
    BY <1>10, BatchParts DEF SweepSkip
  <2>2. \A k \in DOMAIN batch' : deliveries[batch'[k].row].status # "none"
    BY <2>1 DEF Grounded, HasRow
  <2> QED BY <1>6, <1>10, <2>2 DEF SweepSkip
<1>11. ASSUME SweepRaises PROVE Grounded'
  <2>1. DOMAIN batch' = {}
    BY <1>11 DEF SweepRaises
  <2> QED BY <1>6, <1>11, <2>1 DEF SweepRaises
<1>12. ASSUME Restart PROVE Grounded'
  <2>1. DOMAIN batch' = {} /\ first' = {} /\ todo' = [m \in Msg |-> {}] /\ UNCHANGED archiveVars
    BY <1>12 DEF Restart
  <2>2. \A m \in Msg : todo'[m] \subseteq todo[m]
    BY <2>1
  <2> QED BY <1>6, <2>1, <2>2
<1>13. CASE UNCHANGED vars
  BY <1>13 DEF vars, Grounded, HasRow, Stored
<1> QED
  BY <1>1, <1>2, <1>4, <1>5, <1>7, <1>8, <1>9, <1>10, <1>11, <1>12, <1>13 DEF Next

\* The ground the process starts on: empty tables.
LEMMA InitHolds == Init => TypeOK /\ Grounded
<1> SUFFICES ASSUME Init PROVE TypeOK /\ Grounded
  OBVIOUS
<1>1. /\ messages = [m \in Msg |-> [state |-> "absent", text |-> 0]]
      /\ deliveries = [row \in Row |-> NoDelivery]
      /\ config \in Configs /\ todo = [m \in Msg |-> {}] /\ first = {}
      /\ schedule = <<>> /\ batch = <<>> /\ faults = 0
  BY DEF Init, ArchiveInit
<1>2. messages \in [Msg -> MessageRow] /\ deliveries \in [Row -> DeliveryRow]
  <2>1. 0 \in Text
    BY MaxEditsAssumption DEF Text
  <2> QED BY <1>1, <2>1 DEF MessageRow, DeliveryRow, NoDelivery
<1>3. \A row \in Row : deliveries[row].status = "none"
  BY <1>1 DEF NoDelivery
<1>4. schedule \in Seq(Row) /\ ToSet(schedule) = {} /\ IsInjective(schedule) /\ DOMAIN schedule = {}
  BY <1>1 DEF ToSet, IsInjective
<1>5. ScheduleOK
  BY <1>3, <1>4 DEF ScheduleOK, Pending
<1>6. batch \in Seq(Item) /\ Len(batch) <= SweepLimit /\ faults \in 0 .. MaxFaults
  BY <1>1, BoundsAssumption
<1>7. TypeOK
  BY <1>1, <1>2, <1>5, <1>6, TypeParts
<1>8. Grounded
  BY <1>1, <1>3 DEF Grounded, HasRow
<1> QED BY <1>7, <1>8

\* The schedule is the PENDING rows, each once and the due ones in front, through
\* attempts that overlap, broken webhooks, restarts and new routes.
THEOREM ScheduleHolds == Spec => []TypeOK
BY InitHolds, TypeStep, GroundedStep, PTL DEF Spec

-----------------------------------------------------------------------------
(* Nobody is overtaken. *)

\* The row is still what the sweep read.
AsRead(item) ==
    /\ deliveries[item.row].status = "PENDING"
    /\ deliveries[item.row].attempts = item.attempts

\* The due rows before row that may be sent are earlier in the batch.
NoneSkipped(row, k) ==
    \A other \in DueRows :
        Precedes(schedule, other, row) /\ Forwards(other[2])
            => \E j \in 1 .. k - 1 : batch[j].row = other

\* The counter of a row has never gone back since it was read, so that a row
\* which is as it was read has not been marked in between: it is due, and what
\* has moved since has moved behind it.
Snapshot ==
    \A k \in DOMAIN batch :
        /\ batch[k].attempts <= deliveries[batch[k].row].attempts
        /\ AsRead(batch[k]) => batch[k].row \in DueRows /\ NoneSkipped(batch[k].row, k)

\* An attempt ends: its row is in no later snapshot any more, and before a row
\* that is as it was read stands nobody new.
LEMMA AttemptSnapshot ==
    ASSUME TypeOK, Snapshot, NEW row \in Row, HasRow(row), NEW attempts, Deliver(row, attempts),
           UNCHANGED config
    PROVE  \A k \in DOMAIN batch :
              /\ batch[k].attempts <= deliveries'[batch[k].row].attempts
              /\ (/\ deliveries'[batch[k].row].status = "PENDING"
                  /\ deliveries'[batch[k].row].attempts = batch[k].attempts)
                    => /\ batch[k].row # row
                       /\ AsRead(batch[k])
                       /\ deliveries'[batch[k].row] = deliveries[batch[k].row]
                       /\ \A other \in DueRows' :
                             Precedes(schedule', other, batch[k].row)
                                => other # row /\ other \in DueRows
                                   /\ Precedes(schedule, other, batch[k].row)
<1>1. /\ OrderKept(row) /\ OthersKept(row)
      /\ deliveries' \in [Row -> DeliveryRow]
      /\ deliveries[row].attempts <= deliveries'[row].attempts
      /\ deliveries'[row].status = "PENDING" =>
            /\ ~deliveries'[row].due
            /\ deliveries'[row].attempts = deliveries[row].attempts + 1
  BY AttemptKeeps
<1>2. \A x \in Row : deliveries[x].attempts \in Nat /\ deliveries'[x].attempts \in Nat
  BY <1>1, TypeParts DEF DeliveryRow
<1>3. row \notin DueRows'
  BY <1>1 DEF DueRows
<1>4. \A x \in DueRows' : x \in Row /\ x # row /\ x \in DueRows
  <2>1. \A x \in DueRows' : x \in Row /\ x # row
    BY <1>3 DEF DueRows
  <2>2. \A x \in Row : x # row => deliveries'[x] = deliveries[x]
    BY <1>1 DEF OthersKept
  <2> QED BY <2>1, <2>2 DEF DueRows
<1> SUFFICES ASSUME NEW k \in DOMAIN batch
             PROVE  /\ batch[k].attempts <= deliveries'[batch[k].row].attempts
                    /\ (/\ deliveries'[batch[k].row].status = "PENDING"
                        /\ deliveries'[batch[k].row].attempts = batch[k].attempts)
                          => /\ batch[k].row # row
                             /\ AsRead(batch[k])
                             /\ deliveries'[batch[k].row] = deliveries[batch[k].row]
                             /\ \A other \in DueRows' :
                                   Precedes(schedule', other, batch[k].row)
                                      => other # row /\ other \in DueRows
                                         /\ Precedes(schedule, other, batch[k].row)
  OBVIOUS
<1> DEFINE this == batch[k].row
           count == batch[k].attempts
<1>5. this \in Row /\ count \in Nat
  <2>1. batch[k] \in Item
    BY TypeParts
  <2> QED BY <2>1 DEF Item
<1>6. count <= deliveries[this].attempts
  BY DEF Snapshot
<1>7. AsRead(batch[k]) <=> deliveries[this].status = "PENDING" /\ deliveries[this].attempts = count
  BY DEF AsRead
<1> HIDE DEF this, count
<1>8. CASE this = row
  <2>1. count <= deliveries'[this].attempts
    BY <1>1, <1>2, <1>5, <1>6, <1>8
  <2>2. ~(deliveries'[this].status = "PENDING" /\ deliveries'[this].attempts = count)
    BY <1>1, <1>2, <1>5, <1>6, <1>8
  <2> QED BY <2>1, <2>2 DEF this, count
<1>9. CASE this # row
  <2>1. deliveries'[this] = deliveries[this]
    BY <1>1, <1>5, <1>9 DEF OthersKept
  <2>2. \A other \in DueRows' :
           Precedes(schedule', other, this)
              => other # row /\ other \in DueRows /\ Precedes(schedule, other, this)
    BY <1>1, <1>4, <1>5, <1>9 DEF OrderKept
  <2> QED BY <1>6, <1>7, <1>9, <2>1, <2>2 DEF this, count
<1> QED BY <1>8, <1>9

\* The snapshot keeps its sense through every step beside it.
LEMMA SnapshotStep == TypeOK /\ Grounded /\ Snapshot /\ [Next]_vars => Snapshot'
<1> SUFFICES ASSUME TypeOK, Grounded, Snapshot, [Next]_vars PROVE Snapshot'
  OBVIOUS
<1>1. \A k \in DOMAIN batch : /\ k \in Nat /\ k >= 1
                              /\ batch[k].row \in Row /\ batch[k].attempts \in Nat
                              /\ HasRow(batch[k].row)
  <2>1. \A k \in DOMAIN batch : k \in Nat /\ k >= 1 /\ batch[k] \in Item
    BY TypeParts
  <2> QED BY <2>1 DEF Item, Grounded
<1>2. ASSUME UNCHANGED <<deliveries, config, schedule, batch>> PROVE Snapshot'
  BY <1>2 DEF Snapshot, AsRead, NoneSkipped, DueRows, Forwards
<1>3. ASSUME batch' = <<>> PROVE Snapshot'
  BY <1>3 DEF Snapshot
<1>4. ASSUME NEW m \in Msg, Queue(m) PROVE Snapshot'
  <2>1. PICK r \in todo[m] :
           /\ <<m, r>> \in Row /\ ~HasRow(<<m, r>>)
           /\ deliveries' = [deliveries EXCEPT ![<<m, r>>] =
                               [status |-> "PENDING", attempts |-> 0, due |-> TRUE]]
           /\ OrderKept(<<m, r>>) /\ OthersKept(<<m, r>>)
           /\ \A other \in Row \ {<<m, r>>} :
                 deliveries[other].due => ~Precedes(schedule', <<m, r>>, other)
           /\ UNCHANGED <<messages, config, batch, faults>>
    BY <1>4, QueueKeeps
  <2> DEFINE row == <<m, r>>
  <2> HIDE DEF row
  <2>2. /\ row \in Row /\ ~HasRow(row) /\ OrderKept(row)
        /\ \A other \in Row \ {row} : deliveries'[other] = deliveries[other]
        /\ \A other \in Row \ {row} : deliveries[other].due => ~Precedes(schedule', row, other)
        /\ config' = config /\ batch' = batch
    BY <2>1 DEF row, OthersKept
  <2> SUFFICES ASSUME NEW k \in DOMAIN batch
               PROVE  /\ batch[k].attempts <= deliveries'[batch[k].row].attempts
                      /\ (/\ deliveries'[batch[k].row].status = "PENDING"
                          /\ deliveries'[batch[k].row].attempts = batch[k].attempts)
                            => /\ batch[k].row \in DueRows'
                               /\ \A other \in DueRows' :
                                     Precedes(schedule', other, batch[k].row) /\ Forwards(other[2])
                                        => \E j \in 1 .. k - 1 : batch[j].row = other
    BY <2>2 DEF Snapshot, AsRead, NoneSkipped, Forwards
  <2> DEFINE this == batch[k].row
  <2>3. this \in Row \ {row} /\ deliveries'[this] = deliveries[this]
    BY <1>1, <2>2
  <2>4. batch[k].attempts <= deliveries'[this].attempts
    BY <2>3 DEF Snapshot
  <2>5. ASSUME deliveries[this].status = "PENDING", deliveries[this].attempts = batch[k].attempts
        PROVE  /\ this \in DueRows'
               /\ \A other \in DueRows' :
                     Precedes(schedule', other, this) /\ Forwards(other[2])
                        => \E j \in 1 .. k - 1 : batch[j].row = other
    <3>1. this \in DueRows /\ NoneSkipped(this, k)
      BY <2>5 DEF Snapshot, AsRead
    <3>2. this \in DueRows' /\ deliveries[this].due
      BY <2>3, <3>1 DEF DueRows
    <3>3. ASSUME NEW other \in DueRows', Precedes(schedule', other, this), Forwards(other[2])
          PROVE  \E j \in 1 .. k - 1 : batch[j].row = other
      <4>1. other # row
        BY <2>2, <2>3, <3>2, <3>3
      <4>2. other \in Row \ {row} /\ other \in DueRows
        BY <2>2, <4>1 DEF DueRows
      <4>3. Precedes(schedule, other, this)
        BY <2>2, <2>3, <3>3, <4>2 DEF OrderKept
      <4> QED BY <3>1, <3>3, <4>2, <4>3 DEF NoneSkipped
    <3> QED BY <3>2, <3>3
  <2> QED BY <2>3, <2>4, <2>5
<1>5. ASSUME NEW row \in Row, FirstEnds(row) PROVE Snapshot'
  <2>1. HasRow(row) /\ Deliver(row, 0) /\ config' = config /\ batch' = batch
    BY <1>5 DEF FirstEnds, Grounded
  <2>2. \A k \in DOMAIN batch :
           /\ batch[k].attempts <= deliveries'[batch[k].row].attempts
           /\ (/\ deliveries'[batch[k].row].status = "PENDING"
               /\ deliveries'[batch[k].row].attempts = batch[k].attempts)
                 => /\ AsRead(batch[k])
                    /\ deliveries'[batch[k].row] = deliveries[batch[k].row]
                    /\ \A other \in DueRows' :
                          Precedes(schedule', other, batch[k].row)
                             => other \in DueRows /\ Precedes(schedule, other, batch[k].row)
    BY <2>1, AttemptSnapshot
  <2>3. \A k \in DOMAIN batch :
           AsRead(batch[k]) => batch[k].row \in DueRows /\ NoneSkipped(batch[k].row, k)
    BY DEF Snapshot
  <2>4. \A x \in DueRows : deliveries'[x] = deliveries[x] => x \in DueRows'
    BY DEF DueRows
  <2>5. \A k \in DOMAIN batch :
           (/\ deliveries'[batch[k].row].status = "PENDING"
            /\ deliveries'[batch[k].row].attempts = batch[k].attempts)
              => /\ batch[k].row \in DueRows'
                 /\ \A other \in DueRows' :
                       Precedes(schedule', other, batch[k].row) /\ Forwards(other[2])
                          => \E j \in 1 .. k - 1 : batch[j].row = other
    BY <2>2, <2>3, <2>4 DEF NoneSkipped
  <2> QED BY <2>1, <2>2, <2>5 DEF Snapshot, AsRead, NoneSkipped, Forwards
<1>6. ASSUME Elapse PROVE Snapshot'
  <2>1. PICK row \in Row :
           /\ Pending(row) /\ ~deliveries[row].due
           /\ deliveries' = [deliveries EXCEPT ![row].due = TRUE]
           /\ OthersKept(row)
           /\ \A other \in Row : deliveries[other].due => ~Precedes(schedule, row, other)
           /\ UNCHANGED <<messages, config, todo, first, schedule, batch, faults>>
    BY <1>6, ElapseKeeps
  <2>2. \A x \in Row : /\ deliveries'[x].status = deliveries[x].status
                       /\ deliveries'[x].attempts = deliveries[x].attempts
                       /\ x # row => deliveries'[x] = deliveries[x]
    BY <2>1, TypeParts DEF DeliveryRow
  <2>3. \A x \in DueRows : x # row /\ x \in DueRows'
    BY <2>1, <2>2 DEF DueRows
  <2>4. \A x \in DueRows' : x = row \/ x \in DueRows
    BY <2>2 DEF DueRows
  <2>5. \A k \in DOMAIN batch :
           /\ batch[k].attempts <= deliveries'[batch[k].row].attempts
           /\ (/\ deliveries'[batch[k].row].status = "PENDING"
               /\ deliveries'[batch[k].row].attempts = batch[k].attempts)
                 => AsRead(batch[k])
    BY <1>1, <2>2 DEF Snapshot, AsRead
  <2>6. ASSUME NEW k \in DOMAIN batch, AsRead(batch[k])
        PROVE  /\ batch[k].row \in DueRows'
               /\ \A other \in DueRows' :
                     Precedes(schedule, other, batch[k].row) /\ Forwards(other[2])
                        => \E j \in 1 .. k - 1 : batch[j].row = other
    <3>1. batch[k].row \in DueRows /\ NoneSkipped(batch[k].row, k)
      BY <2>6 DEF Snapshot
    <3>2. batch[k].row \in Row /\ deliveries[batch[k].row].due
      BY <3>1 DEF DueRows
    <3>3. ~Precedes(schedule, row, batch[k].row)
      BY <2>1, <3>2
    <3> QED BY <2>3, <2>4, <3>1, <3>3 DEF NoneSkipped
  <2> QED BY <2>1, <2>5, <2>6 DEF Snapshot, AsRead, NoneSkipped, Forwards
<1>7. ASSUME SweepRead PROVE Snapshot'
  <2>1. UNCHANGED <<deliveries, config, schedule>>
    BY <1>7 DEF SweepRead, archiveVars
  <2>2. /\ \A k \in DOMAIN batch' : /\ batch'[k].row \in DueRows
                                    /\ batch'[k].attempts = deliveries[batch'[k].row].attempts
        /\ \A k \in DOMAIN batch' : \A other \in DueRows :
              Precedes(schedule, other, batch'[k].row) =>
                  \E j \in 1 .. k - 1 : batch'[j].row = other
    BY <1>7, SweepReadReturns
  <2>3. \A x \in DueRows : deliveries[x].attempts <= deliveries[x].attempts
    <3>1. \A x \in DueRows : deliveries[x].attempts \in Nat
      BY TypeParts DEF DueRows, DeliveryRow
    <3> QED BY <3>1
  <2>4. DueRows' = DueRows
    BY <2>1 DEF DueRows
  <2> QED BY <2>1, <2>2, <2>3, <2>4 DEF Snapshot, NoneSkipped
<1>8. ASSUME SweepSkip PROVE Snapshot'
  <2>1. /\ batch # <<>> /\ ~Forwards(batch[1].row[2]) /\ batch' = Tail(batch)
        /\ UNCHANGED <<deliveries, config, schedule>>
    BY <1>8, BatchParts DEF SweepSkip, archiveVars
  <2>2. \A k \in DOMAIN batch' : k \in Nat /\ k + 1 \in DOMAIN batch /\ batch'[k] = batch[k + 1]
    BY <2>1, BatchParts
  <2>3. \A k \in DOMAIN batch : k # 1 => k - 1 \in DOMAIN batch'
    BY <2>1, BatchParts
  <2>4. ASSUME NEW k \in DOMAIN batch', NEW other, Forwards(other[2]),
               \E j \in 1 .. k + 1 - 1 : batch[j].row = other
        PROVE  \E j \in 1 .. k - 1 : batch'[j].row = other
    <3>1. PICK j \in 1 .. k + 1 - 1 : batch[j].row = other
      BY <2>4
    <3>2. j # 1
      BY <2>1, <2>4, <3>1
    <3>3. k \in Nat /\ k + 1 \in 1 .. Len(batch) /\ DOMAIN batch = 1 .. Len(batch) /\ Len(batch) \in Nat
      BY <2>2, TypeParts
    <3>4. j \in DOMAIN batch /\ j - 1 \in 1 .. k - 1
      BY <3>2, <3>3
    <3>5. j - 1 \in DOMAIN batch' /\ batch'[j - 1] = batch[j]
      <4>1. j - 1 + 1 = j
        BY <3>3
      <4> QED BY <2>2, <2>3, <3>2, <3>4, <4>1
    <3> QED BY <3>1, <3>4, <3>5
  <2>5. \A k \in DOMAIN batch' :
           /\ batch'[k].attempts <= deliveries[batch'[k].row].attempts
           /\ (/\ deliveries[batch'[k].row].status = "PENDING"
               /\ deliveries[batch'[k].row].attempts = batch'[k].attempts)
                 => /\ batch'[k].row \in DueRows
                    /\ \A other \in DueRows :
                          Precedes(schedule, other, batch'[k].row) /\ Forwards(other[2])
                             => \E j \in 1 .. k - 1 : batch'[j].row = other
    BY <2>2, <2>4 DEF Snapshot, AsRead, NoneSkipped
  <2>6. DueRows' = DueRows
    BY <2>1 DEF DueRows
  <2> QED BY <2>1, <2>5, <2>6 DEF Snapshot, AsRead, NoneSkipped, Forwards
<1>9. ASSUME SweepDeliver PROVE Snapshot'
  <2> DEFINE row == batch[1].row
  <2>1. /\ batch # <<>> /\ Deliver(row, batch[1].attempts)
        /\ batch' = Tail(batch) /\ config' = config /\ 1 \in DOMAIN batch
    BY <1>9, BatchParts DEF SweepDeliver
  <2>2. \A k \in DOMAIN batch' : k \in Nat /\ k + 1 \in DOMAIN batch /\ batch'[k] = batch[k + 1]
    BY <2>1, BatchParts
  <2>3. \A k \in DOMAIN batch : k # 1 => k - 1 \in DOMAIN batch'
    BY <2>1, BatchParts
  <2>4. row \in Row /\ HasRow(row)
    BY <1>1, <2>1
  <2>5. \A k \in DOMAIN batch :
           /\ batch[k].attempts <= deliveries'[batch[k].row].attempts
           /\ (/\ deliveries'[batch[k].row].status = "PENDING"
               /\ deliveries'[batch[k].row].attempts = batch[k].attempts)
                 => /\ AsRead(batch[k])
                    /\ deliveries'[batch[k].row] = deliveries[batch[k].row]
                    /\ \A other \in DueRows' :
                          Precedes(schedule', other, batch[k].row)
                             => other # row /\ other \in DueRows
                                /\ Precedes(schedule, other, batch[k].row)
    BY <2>1, <2>4, AttemptSnapshot
  <2>6. \A x \in DueRows : deliveries'[x] = deliveries[x] => x \in DueRows'
    BY DEF DueRows
  <2>7. \A k \in DOMAIN batch :
           (/\ deliveries'[batch[k].row].status = "PENDING"
            /\ deliveries'[batch[k].row].attempts = batch[k].attempts)
              => /\ batch[k].row \in DueRows'
                 /\ \A other \in DueRows' :
                       Precedes(schedule', other, batch[k].row) /\ Forwards(other[2])
                          => other # row /\ \E j \in 1 .. k - 1 : batch[j].row = other
    BY <2>5, <2>6 DEF Snapshot, NoneSkipped
  <2>8. ASSUME NEW k \in DOMAIN batch', NEW other, other # row,
               \E j \in 1 .. k + 1 - 1 : batch[j].row = other
        PROVE  \E j \in 1 .. k - 1 : batch'[j].row = other
    <3>1. PICK j \in 1 .. k + 1 - 1 : batch[j].row = other
      BY <2>8
    <3>2. j # 1
      BY <2>8, <3>1
    <3>3. k \in Nat /\ k + 1 \in 1 .. Len(batch) /\ DOMAIN batch = 1 .. Len(batch) /\ Len(batch) \in Nat
      BY <2>2, TypeParts
    <3>4. j \in DOMAIN batch /\ j - 1 \in 1 .. k - 1
      BY <3>2, <3>3
    <3>5. j - 1 \in DOMAIN batch' /\ batch'[j - 1] = batch[j]
      <4>1. j - 1 + 1 = j
        BY <3>3
      <4> QED BY <2>2, <2>3, <3>2, <3>4, <4>1
    <3> QED BY <3>1, <3>4, <3>5
  <2>9. \A k \in DOMAIN batch' :
           /\ batch'[k].attempts <= deliveries'[batch'[k].row].attempts
           /\ (/\ deliveries'[batch'[k].row].status = "PENDING"
               /\ deliveries'[batch'[k].row].attempts = batch'[k].attempts)
                 => /\ batch'[k].row \in DueRows'
                    /\ \A other \in DueRows' :
                          Precedes(schedule', other, batch'[k].row) /\ Forwards(other[2])
                             => \E j \in 1 .. k - 1 : batch'[j].row = other
    BY <2>2, <2>5, <2>7, <2>8
  <2> QED BY <2>1, <2>9 DEF Snapshot, AsRead, NoneSkipped, Forwards
<1> QED
  BY <1>2, <1>3, <1>4, <1>5, <1>6, <1>7, <1>8, <1>9
  DEF Next, vars, Store, FirstRaises, SweepRaises, Restart, archiveVars

\* Of two due rows in the schedule the earlier position is the earlier row.
LEMMA AheadPrecedes ==
    ASSUME TypeOK, NEW row \in DueRows, NEW other \in Ahead(row)
    PROVE  other \in DueRows /\ Precedes(schedule, other, row)
<1>1. other \in DueRows /\ Position(other) < Position(row)
  BY DEF Ahead
<1>2. \A x \in DueRows : \E i \in DOMAIN schedule : schedule[i] = x
  <2>1. \A x \in DueRows : x \in ToSet(schedule)
    BY DEF DueRows, TypeOK, Pending
  <2> QED BY <2>1 DEF ToSet
<1>3. \A x \in DueRows : Position(x) \in DOMAIN schedule /\ schedule[Position(x)] = x
  BY <1>2 DEF Position
<1> QED BY <1>1, <1>3 DEF Precedes

\* Although it works from a snapshot, the sweep attempts no row while an older
\* one that it may send is due, unless the fan-out has marked the row since.
THEOREM NobodyOvertaken == Spec => NoOvertaking
<1>1. Init => Snapshot
  BY DEF Init, Snapshot
<1>2. TypeOK /\ Snapshot =>
         \A row \in Row :
            (/\ SweepDeliver
             /\ Head(batch).row = row
             /\ row \in DueRows
             /\ Head(batch).attempts = deliveries[row].attempts)
                => \A other \in Ahead(row) : ~Forwards(other[2])
  <2> SUFFICES ASSUME TypeOK, Snapshot, NEW row \in Row, SweepDeliver, Head(batch).row = row,
                      row \in DueRows, Head(batch).attempts = deliveries[row].attempts,
                      NEW other \in Ahead(row), Forwards(other[2])
               PROVE  FALSE
    OBVIOUS
  <2>1. 1 \in DOMAIN batch /\ Head(batch) = batch[1]
    BY BatchParts DEF SweepDeliver
  <2>2. AsRead(batch[1])
    BY <2>1 DEF AsRead, DueRows
  <2>3. NoneSkipped(row, 1)
    BY <2>1, <2>2 DEF Snapshot
  <2>4. other \in DueRows /\ Precedes(schedule, other, row)
    BY AheadPrecedes
  <2>5. \E j \in 1 .. 1 - 1 : batch[j].row = other
    BY <2>3, <2>4 DEF NoneSkipped
  <2> QED BY <2>5
<1> QED
  BY <1>1, <1>2, InitHolds, TypeStep, GroundedStep, SnapshotStep, PTL DEF Spec, NoOvertaking

=============================================================================
