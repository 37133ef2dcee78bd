----------------------------- MODULE RoutesProofs ---------------------------
(***************************************************************************)
(* Proofs about module Routes, for files of any length: the loop over the  *)
(* entries of a file reads what the file says.  Every prefix of the loop   *)
(* does; were there one that does not, there would be a shortest one.      *)
(***************************************************************************)
EXTENDS Routes, SelectionProofs, SequencesExt, SequenceTheorems

-----------------------------------------------------------------------------
(* The loop, by its rounds. *)

\* A set of numbers up to a bound has a least one, unless it is empty.
LEMMA LeastMember ==
    ASSUME NEW n \in Nat, NEW S, S \subseteq 0 .. n, S # {}
    PROVE  \E x \in S : \A y \in S : x <= y
<1>1. IsFiniteSet(0 .. n) /\ S \in SUBSET (0 .. n)
  BY FS_Interval
<1>2. IsFiniteSet(S) /\ S \subseteq Nat
  <2>1. IsFiniteSet(S)
    BY <1>1, FS_Subset
  <2>2. \A x \in 0 .. n : x \in Nat
    OBVIOUS
  <2>3. QED
    BY <2>1, <2>2
<1>3. Cardinality(S) \in Nat /\ Cardinality(S) # 0
  BY <1>2, FS_CardinalityType, FS_EmptySet
<1>4. 1 \in 1 .. Cardinality(S)
  BY <1>3
<1>5. Nth(S, 1) \in S /\ Rank(S, Nth(S, 1)) = 0
  <2>1. Rank(S, Nth(S, 1)) = 1 - 1 /\ Nth(S, 1) \in S
    BY <1>2, <1>4, NthIn
  <2>2. QED
    BY <2>1
<1>6. ASSUME NEW y \in S, y < Nth(S, 1) PROVE FALSE
  <2>1. Rank(S, y) < Rank(S, Nth(S, 1))
    BY <1>2, <1>5, <1>6, RankMonotonic
  <2>2. Rank(S, y) \in 0 .. Cardinality(S) - 1
    BY <1>2, RankRange
  <2>3. QED
    BY <1>3, <1>5, <2>1, <2>2
<1>7. \A y \in S : Nth(S, 1) <= y
  <2>1. \A y \in S : y \in Nat /\ Nth(S, 1) \in Nat /\ ~(y < Nth(S, 1))
    BY <1>2, <1>5, <1>6
  <2>2. QED
    BY <2>1
<1>8. QED
  BY <1>5, <1>7

Nothing == [ok |-> TRUE, routes |-> <<>>]

\* r is what the first n rounds of the loop make of a file.
IsReading(r, file, env, n) ==
    r = [i \in 0 .. n |-> IF i = 0 THEN Nothing ELSE ReadEntry(r[i - 1], file[i], env)]

\* The rounds of the loop can be run one after the other, to the end.
LEMMA ReadingExists ==
    ASSUME NEW n \in Nat, NEW file, NEW env
    PROVE  \E r : IsReading(r, file, env, n)
<1> DEFINE S == {k \in 0 .. n : ~ \E r : IsReading(r, file, env, k)}
<1> SUFFICES ASSUME S # {} PROVE FALSE
  OBVIOUS
<1>1. PICK k \in S : \A y \in S : k <= y
  <2> HIDE DEF S
  <2>1. S \subseteq 0 .. n
    BY DEF S
  <2>2. QED
    BY <2>1, LeastMember
<1>2. CASE k = 0
  <2> DEFINE r == [i \in 0 .. 0 |-> Nothing]
  <2>1. IsReading(r, file, env, 0)
    BY DEF IsReading
  <2>2. QED
    BY <1>1, <1>2, <2>1
<1>3. CASE k # 0
  <2>1. k \in 1 .. n /\ k - 1 \in 0 .. n /\ ~(k <= k - 1)
    BY <1>1, <1>3
  <2>2. PICK r : IsReading(r, file, env, k - 1)
    BY <1>1, <2>1
  <2> DEFINE s == [i \in 0 .. k |-> IF i = k THEN ReadEntry(r[k - 1], file[k], env) ELSE r[i]]
  <2>3. \A i \in 0 .. k - 1 : s[i] = r[i]
    BY <2>1
  <2>4. \A i \in 0 .. k - 1 :
           r[i] = IF i = 0 THEN Nothing ELSE ReadEntry(r[i - 1], file[i], env)
    BY <2>2 DEF IsReading
  <2>5. ASSUME NEW i \in 0 .. k
        PROVE  s[i] = IF i = 0 THEN Nothing ELSE ReadEntry(s[i - 1], file[i], env)
    <3>1. CASE i = k
      <4>1. i # 0 /\ i - 1 \in 0 .. k - 1 /\ s[i] = ReadEntry(r[k - 1], file[k], env)
        BY <1>3, <2>1, <3>1
      <4>2. s[i - 1] = r[k - 1]
        BY <2>3, <3>1, <4>1
      <4> HIDE DEF s
      <4>3. QED
        BY <3>1, <4>1, <4>2
    <3>2. CASE i # k
      <4>1. i \in 0 .. k - 1 /\ (i # 0 => i - 1 \in 0 .. k - 1)
        BY <2>1, <3>2
      <4>2. s[i] = r[i] /\ (i # 0 => s[i - 1] = r[i - 1])
        BY <2>3, <4>1
      <4> HIDE DEF s
      <4>3. QED
        BY <2>4, <4>1, <4>2
    <3>3. QED
      BY <3>1, <3>2
  <2>6. IsReading(s, file, env, k)
    <3>1. s = [i \in 0 .. k |-> s[i]]
      OBVIOUS
    <3> HIDE DEF s
    <3>2. [i \in 0 .. k |-> s[i]]
             = [i \in 0 .. k |-> IF i = 0 THEN Nothing ELSE ReadEntry(s[i - 1], file[i], env)]
      BY <2>5
    <3>3. QED
      BY <3>1, <3>2 DEF IsReading
  <2>7. QED
    BY <1>1, <2>6
<1>4. QED
  BY <1>2, <1>3

\* Reading starts with nothing and does one round after the other.
LEMMA ReadingRounds ==
    ASSUME NEW file, Len(file) \in Nat, NEW env
    PROVE  /\ Reading(file, env)[0] = Nothing
           /\ \A i \in 1 .. Len(file) :
                 Reading(file, env)[i] = ReadEntry(Reading(file, env)[i - 1], file[i], env)
<1> DEFINE n == Len(file)
           read == Reading(file, env)
<1>1. read = CHOOSE r : IsReading(r, file, env, n)
  BY DEF Reading, IsReading, Nothing
<1>2. \E r : IsReading(r, file, env, n)
  BY ReadingExists
<1> HIDE DEF n, read
<1>3. IsReading(read, file, env, n)
  BY <1>1, <1>2
<1>4. \A i \in 0 .. n :
         read[i] = IF i = 0 THEN Nothing ELSE ReadEntry(read[i - 1], file[i], env)
  BY <1>3 DEF IsReading
<1>5. n \in Nat /\ 0 \in 0 .. n /\ \A i \in 1 .. n : i \in 0 .. n /\ i # 0
  BY DEF n
<1>6. QED
  BY <1>4, <1>5 DEF n, read

-----------------------------------------------------------------------------
(* What has been read. *)

ReadOf(entry) == [name |-> entry.name, target |-> entry.target]

ReadRoute == [name : Name, target : Var \cup {NoVar}]

\* The first n entries of a file are right.
RightUpTo(file, env, n) ==
    /\ \A i \in 1 .. n : file[i].mapping
    /\ \A i \in 1 .. n : file[i].enabled =>
          /\ file[i].name \in Name
          /\ file[i].valid
          /\ file[i].target \in Var => env.url[file[i].target] = "https"
    /\ \A i, j \in 1 .. n :
          file[i].enabled /\ file[j].enabled /\ file[i].name = file[j].name => i = j

\* What the loop should have of them.
ReadUpTo(file, n) == {ReadOf(file[i]) : i \in {j \in 1 .. n : file[j].enabled}}

\* It has it, or an error that it keeps.
ReadsUpTo(file, env, n) ==
    LET read == Reading(file, env)[n]
    IN  \/ /\ RightUpTo(file, env, n)
           /\ read.ok = TRUE
           /\ read \in [ok : BOOLEAN, routes : Seq(ReadRoute)]
           /\ ToSet(read.routes) = ReadUpTo(file, n)
        \/ /\ ~RightUpTo(file, env, n)
           /\ read = Unusable

\* One round after n right entries: an entry that is right is taken.
LEMMA RoundTakes ==
    ASSUME NEW file \in File, NEW env \in Env, NEW n \in Nat, n + 1 \in 1 .. Len(file),
           RightUpTo(file, env, n), RightUpTo(file, env, n + 1), ReadsUpTo(file, env, n)
    PROVE  ReadsUpTo(file, env, n + 1)
<1> DEFINE entry == file[n + 1]
           read == Reading(file, env)[n]
           next == Reading(file, env)[n + 1]
<1> SUFFICES /\ next.ok = TRUE
             /\ next \in [ok : BOOLEAN, routes : Seq(ReadRoute)]
             /\ ToSet(next.routes) = ReadUpTo(file, n + 1)
  BY DEF ReadsUpTo
<1>1. next = ReadEntry(read, entry, env)
  <2>1. Len(file) \in Nat /\ n + 1 - 1 = n
    BY DEF File
  <2>2. QED
    BY <2>1, ReadingRounds
<1>2. /\ read \in [ok : BOOLEAN, routes : Seq(ReadRoute)] /\ read.ok = TRUE
      /\ ToSet(read.routes) = ReadUpTo(file, n)
  BY DEF ReadsUpTo
<1> HIDE DEF read, next
<1>3. entry \in Entry /\ entry.mapping
  BY DEF File, RightUpTo
<1>4. 1 .. n + 1 = 1 .. n \cup {n + 1} /\ n + 1 \notin 1 .. n
  OBVIOUS
<1>5. read.routes \in Seq(ReadRoute)
  BY <1>2
<1>6. CASE ~entry.enabled
  <2>1. next = read
    BY <1>1, <1>3, <1>6 DEF ReadEntry
  <2>2. ReadUpTo(file, n + 1) = ReadUpTo(file, n)
    BY <1>4, <1>6 DEF ReadUpTo
  <2>3. QED
    BY <1>2, <2>1, <2>2
<1>7. CASE entry.enabled
  <2>1. /\ entry.name \in Name /\ entry.valid
        /\ entry.target \in Var => env.url[entry.target] = "https"
    BY <1>7 DEF RightUpTo
  <2>2. \A i \in 1 .. n : file[i].enabled => file[i].name # entry.name
    BY <1>4, <1>7 DEF RightUpTo
  <2>3. entry.name \notin Names(read.routes)
    <3>1. Names(read.routes) = {r.name : r \in ReadUpTo(file, n)}
      BY <1>2 DEF Names, ToSet
    <3>2. QED
      BY <2>2, <3>1 DEF ReadUpTo, ReadOf
  <2>4. ~Faulty(entry, Names(read.routes), env)
    BY <1>3, <2>1, <2>3, NamesAssumption DEF Faulty, Entry
  <2>5. next = [read EXCEPT !.routes = Append(read.routes, ReadOf(entry))]
    BY <1>1, <1>2, <1>3, <1>7, <2>4 DEF ReadEntry, ReadOf
  <2>6. ReadOf(entry) \in ReadRoute
    BY <1>3, <2>1 DEF ReadOf, ReadRoute, Entry
  <2>7. next.ok = TRUE /\ next.routes = Append(read.routes, ReadOf(entry))
        /\ next \in [ok : BOOLEAN, routes : Seq(ReadRoute)]
    <3>1. Append(read.routes, ReadOf(entry)) \in Seq(ReadRoute)
      BY <1>5, <2>6
    <3>2. QED
      BY <1>2, <2>5, <3>1
  <2>8. ToSet(next.routes) = ToSet(read.routes) \cup {ReadOf(entry)}
    <3> DEFINE new == Append(read.routes, ReadOf(entry))
    <3>1. /\ DOMAIN new = 1 .. Len(read.routes) + 1
          /\ DOMAIN read.routes = 1 .. Len(read.routes)
          /\ Len(read.routes) \in Nat
          /\ new[Len(read.routes) + 1] = ReadOf(entry)
          /\ \A k \in 1 .. Len(read.routes) : new[k] = read.routes[k]
      BY <1>5, <2>6
    <3> HIDE DEF new
    <3>2. ToSet(new) = ToSet(read.routes) \cup {ReadOf(entry)}
      BY <3>1 DEF ToSet
    <3>3. QED
      BY <2>7, <3>2 DEF new
  <2>9. ReadUpTo(file, n + 1) = ReadUpTo(file, n) \cup {ReadOf(entry)}
    BY <1>4, <1>7 DEF ReadUpTo
  <2>10. QED
    BY <1>2, <2>7, <2>8, <2>9
<1>8. QED
  BY <1>3, <1>6, <1>7 DEF Entry

\* One round after n right entries: one that is not right is an error.
LEMMA RoundRefuses ==
    ASSUME NEW file \in File, NEW env \in Env, NEW n \in Nat, n + 1 \in 1 .. Len(file),
           NEW read \in [ok : BOOLEAN, routes : Seq(ReadRoute)], read.ok = TRUE,
           ToSet(read.routes) = ReadUpTo(file, n),
           RightUpTo(file, env, n), ~RightUpTo(file, env, n + 1)
    PROVE  ReadEntry(read, file[n + 1], env) = Unusable
<1> DEFINE entry == file[n + 1]
<1>1. entry \in Entry
  BY DEF File
<1>2. 1 .. n + 1 = 1 .. n \cup {n + 1} /\ n + 1 \notin 1 .. n
  OBVIOUS
<1>3. CASE ~entry.mapping
  BY <1>3 DEF ReadEntry
<1>4. CASE entry.mapping /\ ~entry.enabled
  <2>1. RightUpTo(file, env, n + 1)
    BY <1>2, <1>4 DEF RightUpTo
  <2>2. QED
    BY <2>1
<1>5. CASE entry.mapping /\ entry.enabled
  <2>1. Names(read.routes) = {r.name : r \in ReadUpTo(file, n)}
    BY DEF Names, ToSet
  <2>2. ASSUME NEW i \in 1 .. n, file[i].enabled, file[i].name = entry.name
        PROVE  entry.name \in Names(read.routes)
    <3>1. ReadOf(file[i]) \in ReadUpTo(file, n)
      BY <2>2 DEF ReadUpTo
    <3>2. ReadOf(file[i]).name = entry.name
      BY <2>2 DEF ReadOf
    <3>3. QED
      BY <2>1, <3>1, <3>2
  <2>3. ASSUME ~Faulty(entry, Names(read.routes), env) PROVE RightUpTo(file, env, n + 1)
    <3>1. /\ entry.name \in Name /\ entry.valid
          /\ entry.target \in Var => env.url[entry.target] = "https"
      BY <1>1, <2>3, NamesAssumption DEF Faulty, Entry
    <3>2. \A i \in 1 .. n : file[i].enabled => file[i].name # entry.name
      BY <2>2, <2>3 DEF Faulty
    <3>3. QED
      BY <1>2, <1>5, <3>1, <3>2 DEF RightUpTo
  <2>4. QED
    BY <1>5, <2>3 DEF ReadEntry
<1>6. QED
  BY <1>3, <1>4, <1>5

\* Each round keeps what has been read in step with the file.
LEMMA RoundReads ==
    ASSUME NEW file \in File, NEW env \in Env, NEW n \in Nat, n + 1 \in 1 .. Len(file),
           ReadsUpTo(file, env, n)
    PROVE  ReadsUpTo(file, env, n + 1)
<1> DEFINE read == Reading(file, env)[n]
           next == Reading(file, env)[n + 1]
<1>1. next = ReadEntry(read, file[n + 1], env)
  <2>1. Len(file) \in Nat /\ n + 1 - 1 = n
    BY DEF File
  <2>2. QED
    BY <2>1, ReadingRounds
<1> HIDE DEF read, next
<1>2. CASE ~RightUpTo(file, env, n)
  <2>1. read = Unusable
    BY <1>2 DEF ReadsUpTo, read
  <2>2. next = Unusable
    BY <1>1, <2>1 DEF ReadEntry, Unusable
  <2>3. ~RightUpTo(file, env, n + 1)
    <3>1. \A i \in 1 .. n : i \in 1 .. n + 1
      OBVIOUS
    <3>2. QED
      BY <1>2, <3>1 DEF RightUpTo
  <2>4. QED
    BY <2>2, <2>3 DEF ReadsUpTo, next
<1>3. CASE RightUpTo(file, env, n)
  <2>1. /\ read \in [ok : BOOLEAN, routes : Seq(ReadRoute)] /\ read.ok = TRUE
        /\ ToSet(read.routes) = ReadUpTo(file, n)
    BY <1>3 DEF ReadsUpTo, read
  <2>2. CASE RightUpTo(file, env, n + 1)
    BY <1>3, <2>2, RoundTakes
  <2>3. CASE ~RightUpTo(file, env, n + 1)
    <3>1. next = Unusable
      BY <1>1, <1>3, <2>1, <2>3, RoundRefuses
    <3>2. QED
      BY <2>3, <3>1 DEF ReadsUpTo, next
  <2>4. QED
    BY <2>2, <2>3
<1>4. QED
  BY <1>2, <1>3

\* The loop has read every prefix of the file.
LEMMA FileReads ==
    ASSUME NEW file \in File, NEW env \in Env
    PROVE  ReadsUpTo(file, env, Len(file))
<1> DEFINE n == Len(file)
           S == {k \in 0 .. n : ~ReadsUpTo(file, env, k)}
<1>1. n \in Nat /\ n \in 0 .. n
  BY DEF File
<1> SUFFICES ASSUME S # {} PROVE FALSE
  BY <1>1
<1>2. PICK k \in S : \A y \in S : k <= y
  <2> HIDE DEF S, n
  <2>1. S \subseteq 0 .. n
    BY DEF S
  <2>2. QED
    BY <1>1, <2>1, LeastMember
<1>3. CASE k = 0
  <2>1. Reading(file, env)[0] = Nothing
    BY <1>1, ReadingRounds
  <2>2. RightUpTo(file, env, 0) /\ ReadUpTo(file, 0) = {}
    BY DEF RightUpTo, ReadUpTo
  <2>3. Nothing \in [ok : BOOLEAN, routes : Seq(ReadRoute)] /\ Nothing.ok = TRUE
        /\ ToSet(Nothing.routes) = {}
    BY DEF Nothing, ToSet
  <2>4. ReadsUpTo(file, env, 0)
    BY <2>1, <2>2, <2>3 DEF ReadsUpTo
  <2>5. QED
    BY <1>2, <1>3, <2>4
<1>4. CASE k # 0
  <2>1. k - 1 \in 0 .. n /\ k - 1 \in Nat /\ (k - 1) + 1 = k /\ k \in 1 .. n /\ ~(k <= k - 1)
    BY <1>1, <1>2, <1>4
  <2>2. ReadsUpTo(file, env, k - 1)
    BY <1>2, <2>1
  <2>3. ReadsUpTo(file, env, (k - 1) + 1)
    BY <2>1, <2>2, RoundReads
  <2>4. QED
    BY <1>2, <2>1, <2>3
<1>5. QED
  BY <1>3, <1>4

\* A file is read if it is usable, and then as it is written: a route for each
\* enabled entry, with its name and target, and no other.
THEOREM SettingsRead ==
    ASSUME NEW file \in File, NEW env \in Env
    PROVE  LET loaded == LoadSettings(file, env)
           IN  /\ loaded.ok <=> Usable(file, env)
               /\ loaded.ok => ToSet(loaded.routes)
                                  = {ReadOf(file[i]) : i \in Enabled(file)}
<1> DEFINE n == Len(file)
           read == Reading(file, env)[n]
           loaded == LoadSettings(file, env)
<1>1. DOMAIN file = 1 .. n
  BY DEF File
<1>2. Enabled(file) = {j \in 1 .. n : file[j].enabled}
  BY <1>1 DEF Enabled
<1>3. Usable(file, env) <=> env.secrets /\ RightUpTo(file, env, n) /\ Enabled(file) # {}
  BY <1>1, <1>2 DEF Usable, RightUpTo
<1>4. ReadsUpTo(file, env, n)
  BY FileReads
<1>5. loaded = IF env.secrets /\ read.routes # <<>> THEN read ELSE Unusable
  BY DEF LoadSettings, LoadRoutes
<1> HIDE DEF loaded, read
<1>6. CASE ~RightUpTo(file, env, n)
  <2>1. read = Unusable
    BY <1>4, <1>6 DEF ReadsUpTo, read
  <2>2. QED
    BY <1>3, <1>5, <1>6, <2>1 DEF Unusable, loaded
<1>7. CASE RightUpTo(file, env, n)
  <2>1. /\ read \in [ok : BOOLEAN, routes : Seq(ReadRoute)] /\ read.ok = TRUE
        /\ ToSet(read.routes) = {ReadOf(file[i]) : i \in Enabled(file)}
    BY <1>2, <1>4, <1>7 DEF ReadsUpTo, ReadUpTo, read
  <2>2. read.routes \in Seq(ReadRoute)
    BY <2>1
  <2>3. read.routes = <<>> <=> DOMAIN read.routes = {}
    <3> DEFINE s == read.routes
    <3>1. s \in Seq(ReadRoute) /\ Len(s) \in Nat /\ DOMAIN s = 1 .. Len(s)
      BY <2>2
    <3> HIDE DEF s
    <3>2. s = <<>> <=> Len(s) = 0
      BY <3>1, EmptySeq
    <3>3. 1 .. Len(s) = {} <=> Len(s) = 0
      <4>1. Len(s) # 0 => 1 \in 1 .. Len(s)
        BY <3>1
      <4>2. Len(s) = 0 => 1 .. Len(s) = {}
        BY <3>1
      <4>3. QED
        BY <4>1, <4>2
    <3>4. QED
      BY <3>1, <3>2, <3>3 DEF s
  <2>4. read.routes = <<>> <=> Enabled(file) = {}
    <3>1. ToSet(read.routes) = {} <=> DOMAIN read.routes = {}
      BY DEF ToSet
    <3>2. {ReadOf(file[i]) : i \in Enabled(file)} = {} <=> Enabled(file) = {}
      OBVIOUS
    <3>3. QED
      BY <2>1, <2>3, <3>1, <3>2
  <2>5. Unusable.ok = FALSE
    BY DEF Unusable
  <2>6. QED
    BY <1>3, <1>5, <1>7, <2>1, <2>4, <2>5 DEF loaded
<1>8. QED
  BY <1>6, <1>7
=============================================================================
