--------------------------- MODULE PipelineProofs ---------------------------
(***************************************************************************)
(* Proofs about module Pipeline, for every value of its constants.         *)
(***************************************************************************)
EXTENDS Pipeline, SequenceTheorems, TLAPS

-----------------------------------------------------------------------------
(* Types. *)

\* What a statement on a table leaves in it has the table's type.
LEMMA StatementTypes ==
    ASSUME ArchiveTypeOK
    PROVE  /\ \A m \in Msg : StoreMessage(m) => messages' \in [Msg -> MessageRow]
           /\ \A m \in Msg, text \in Text :
                RecordEdit(m, text) => messages' \in [Msg -> MessageRow]
           /\ \A ids : SoftDelete(ids) => messages' \in [Msg -> MessageRow]
           /\ \A row \in Row, status \in {"PENDING", "SKIPPED"} :
                QueueDelivery(row, status) => deliveries' \in [Row -> DeliveryRow]
           /\ \A row \in Row : BackoffElapses(row) => deliveries' \in [Row -> DeliveryRow]
           /\ \A row \in Row : MarkDelivered(row) => deliveries' \in [Row -> DeliveryRow]
           /\ \A row \in Row : MarkSkipped(row) => deliveries' \in [Row -> DeliveryRow]
           /\ \A row \in Row, attempts \in Nat, retryable \in BOOLEAN :
                MarkAttemptFailed(row, attempts, retryable)
                    => deliveries' \in [Row -> DeliveryRow]
<1> USE DEF ArchiveTypeOK, MessageRow, DeliveryRow
<1>0. 0 \in Text
  BY MaxEditsAssumption DEF Text
<1>1. \A m \in Msg : StoreMessage(m) => messages' \in [Msg -> MessageRow]
  BY <1>0 DEF StoreMessage
<1>2. \A m \in Msg, text \in Text :
         RecordEdit(m, text) => messages' \in [Msg -> MessageRow]
  BY DEF RecordEdit
<1>3. \A ids : SoftDelete(ids) => messages' \in [Msg -> MessageRow]
  BY DEF SoftDelete
<1>4. \A row \in Row, status \in {"PENDING", "SKIPPED"} :
         QueueDelivery(row, status) => deliveries' \in [Row -> DeliveryRow]
  BY DEF QueueDelivery
<1>5. \A row \in Row : BackoffElapses(row) => deliveries' \in [Row -> DeliveryRow]
  BY DEF BackoffElapses
<1>6. \A row \in Row : MarkDelivered(row) => deliveries' \in [Row -> DeliveryRow]
  BY DEF MarkDelivered
<1>7. \A row \in Row : MarkSkipped(row) => deliveries' \in [Row -> DeliveryRow]
  BY DEF MarkSkipped
<1>8. \A row \in Row, attempts \in Nat, retryable \in BOOLEAN :
         MarkAttemptFailed(row, attempts, retryable)
             => deliveries' \in [Row -> DeliveryRow]
  BY DEF MarkAttemptFailed
<1>9. QED
  BY <1>1, <1>2, <1>3, <1>4, <1>5, <1>6, <1>7, <1>8

\* An attempt is a job, and not the absence of one.
LEMMA AttemptIsJob ==
    ASSUME NEW row \in Row, NEW attempts \in Nat, NEW text \in Text
    PROVE  /\ Attempt(row, attempts, text) \in Job
           /\ Attempt(row, attempts, text).row = row
BY DEF Attempt, Job, Outcome

\* No job looks like the absence of one.
LEMMA JobsAreBusy ==
    ASSUME NEW j \in Job
    PROVE  j # NoJob
BY DEF Job, NoJob

\* Remembering and forgetting a delete leave a sequence of messages.
LEMMA PendingTypes ==
    ASSUME pending \in Seq(Msg), NEW m \in Msg
    PROVE  /\ Remember(m) \in Seq(Msg)
           /\ Remembered(m) => Forget(m) \in Seq(Msg)
<1>1. Remember(m) \in Seq(Msg)
  <2>1. Append(pending, m) \in Seq(Msg) /\ Len(Append(pending, m)) = Len(pending) + 1
    BY AppendProperties
  <2> DEFINE grown == IF Remembered(m) THEN pending ELSE Append(pending, m)
  <2>2. grown \in Seq(Msg)
    BY <2>1
  <2>3. CASE Len(grown) > MaxPending
    <3>1. grown # <<>>
      BY <2>3, BoundsAssumption
    <3>2. Tail(grown) \in Seq(Msg)
      BY <2>2, <3>1, HeadTailProperties
    <3>3. QED
      BY <2>3, <3>2 DEF Remember
  <2>4. CASE ~(Len(grown) > MaxPending)
    BY <2>2, <2>4 DEF Remember
  <2>5. QED
    BY <2>3, <2>4
<1>2. ASSUME NEW i \in 1 .. Len(pending)
      PROVE  SubSeq(pending, 1, i - 1) \o SubSeq(pending, i + 1, Len(pending)) \in Seq(Msg)
  <2>1. Len(pending) \in Nat /\ \A k \in 1 .. Len(pending) : pending[k] \in Msg
    BY ElementOfSeq, LenProperties
  <2>2. SubSeq(pending, 1, i - 1) \in Seq(Msg)
    <3>1. \A k \in 1 .. i - 1 : pending[k] \in Msg
      BY <2>1
    <3>2. QED
      BY <2>1, <3>1, SubSeqProperties
  <2>3. SubSeq(pending, i + 1, Len(pending)) \in Seq(Msg)
    <3>1. \A k \in i + 1 .. Len(pending) : pending[k] \in Msg
      BY <2>1
    <3>2. QED
      BY <2>1, <3>1, SubSeqProperties
  <2>4. QED
    BY <2>2, <2>3, ConcatProperties
<1>3. ASSUME Remembered(m)
      PROVE  Forget(m) \in Seq(Msg)
  <2>1. (CHOOSE j \in DOMAIN pending : pending[j] = m) \in 1 .. Len(pending)
    BY <1>3 DEF Remembered
  <2>2. QED
    BY <1>2, <2>1 DEF Forget
<1>4. QED
  BY <1>1, <1>3

\* The values a process starts with have their types.
LEMMA StartTypes ==
    /\ NoHandler \in [Msg -> {"none", "store", "check", "reconcile"}]
    /\ NoHandler \in [Msg -> {"none", "record", "miss"}]
    /\ NoFanOut \in [Msg -> SUBSET Route]
    /\ NoJobs \in [Worker -> Job \cup {NoJob}]
    /\ <<>> \in Seq(Msg)
BY DEF NoHandler, NoFanOut, NoJobs

\* The initial values have their types.
LEMMA InitTypes == Init => TypeOK
<1>1. 0 \in Text
  BY MaxEditsAssumption DEF Text
<1>2. SUFFICES ASSUME Init PROVE TypeOK
  OBVIOUS
<1>3. ArchiveTypeOK
  BY <1>1, <1>2 DEF Init, ArchiveInit, ArchiveTypeOK, MessageRow, DeliveryRow, NoDelivery
<1>4. QED
  BY <1>1, <1>2, <1>3, StartTypes DEF Init, TypeOK

\* No step of the fan-out, of the gateway handlers, of a send, of the sweeper or
\* of a fault leaves the types.
LEMMA NextTypes ==
    ASSUME TypeOK, [Next]_vars
    PROVE  TypeOK'
<1> USE DEF TypeOK
<1>0. 0 \in Text /\ 0 \in Nat /\ \A row \in Row : row[1] \in Msg /\ row[2] \in Route
  BY MaxEditsAssumption DEF Text, Row
<1>a. ASSUME UNCHANGED archiveVars PROVE ArchiveTypeOK'
  BY <1>a DEF archiveVars, ArchiveTypeOK
<1>b. ASSUME messages' \in [Msg -> MessageRow], UNCHANGED deliveries PROVE ArchiveTypeOK'
  BY <1>b DEF ArchiveTypeOK
<1>c. ASSUME deliveries' \in [Row -> DeliveryRow], UNCHANGED messages PROVE ArchiveTypeOK'
  BY <1>c DEF ArchiveTypeOK
<1>d. \A m \in Msg : m \in Worker
  BY DEF Worker
<1>1. ASSUME NEW m \in Msg, CreateEvent(m) PROVE TypeOK'
  BY <1>1, <1>a DEF CreateEvent
<1>2. ASSUME NEW m \in Msg, StoreCommit(m) PROVE TypeOK'
  <2>1. ArchiveTypeOK'
    BY <1>2, <1>b, StatementTypes DEF StoreCommit
  <2>2. QED
    BY <1>2, <2>1 DEF StoreCommit, sourceVars
<1>3. ASSUME NEW m \in Msg, CheckPending(m) PROVE TypeOK'
  <2>1. pending' \in Seq(Msg)
    BY <1>3, PendingTypes DEF CheckPending
  <2>2. FanOut(m) \subseteq Route
    BY MatchesAssumption DEF FanOut, RoutesForChannel
  <2>3. create' \in [Msg -> {"none", "store", "check", "reconcile"}]
    BY <1>3 DEF CheckPending
  <2>4. todo' \in [Msg -> SUBSET Route]
    BY <1>3, <2>2 DEF CheckPending
  <2>5. QED
    BY <1>3, <1>a, <2>1, <2>3, <2>4 DEF CheckPending, sourceVars
<1>4. ASSUME NEW m \in Msg, ReconcileCommit(m) PROVE TypeOK'
  <2>1. ArchiveTypeOK'
    BY <1>4, <1>b, StatementTypes DEF ReconcileCommit
  <2>2. QED
    BY <1>4, <2>1 DEF ReconcileCommit, sourceVars
<1>5. ASSUME NEW m \in Msg, Dispatch(m) PROVE TypeOK'
  <2>1. PICK r \in todo[m] :
           LET row == <<m, r>>
           IN  /\ QueueDelivery(row, IF Allowed(row) THEN "PENDING" ELSE "SKIPPED")
               /\ todo' = [todo EXCEPT ![m] = @ \ {r}]
               /\ job' = [job EXCEPT ![m] = IF Allowed(row) /\ ~HasRow(row)
                                            THEN Attempt(row, 0, 0) ELSE NoJob]
    BY <1>5 DEF Dispatch
  <2>2. <<m, r>> \in Row
    BY <2>1 DEF Row
  <2>3. ArchiveTypeOK'
    <3>1. deliveries' \in [Row -> DeliveryRow]
      BY <2>1, <2>2, StatementTypes
    <3>2. QED
      BY <1>5, <1>c, <3>1 DEF Dispatch
  <2>4. job' \in [Worker -> Job \cup {NoJob}]
    BY <1>0, <1>d, <2>1, <2>2, AttemptIsJob
  <2>5. todo' \in [Msg -> SUBSET Route]
    BY <2>1
  <2>6. QED
    BY <1>5, <2>3, <2>4, <2>5 DEF Dispatch, sourceVars
<1>6. ASSUME NEW m \in Msg, EditEvent(m) PROVE TypeOK'
  <2>1. latest[m] + 1 \in Text
    BY <1>6, MaxEditsAssumption DEF EditEvent, Text
  <2>2. latest' \in [Msg -> Text] /\ edits' \subseteq Msg \X Text
    BY <1>6, <2>1 DEF EditEvent
  <2>3. QED
    BY <1>6, <1>a, <2>2 DEF EditEvent
<1>7. ASSUME NEW e \in edits, EditCommit(e) PROVE TypeOK'
  <2>1. e[1] \in Msg /\ e[2] \in Text
    OBVIOUS
  <2>2. ArchiveTypeOK'
    BY <1>7, <1>b, <2>1, StatementTypes DEF EditCommit
  <2>3. QED
    BY <1>7, <2>2 DEF EditCommit, sourceVars
<1>8. ASSUME NEW m \in Msg, DeleteEvent(m) PROVE TypeOK'
  BY <1>8, <1>a DEF DeleteEvent, Departed
<1>9. ASSUME NEW m \in Msg, DeleteCommit(m) PROVE TypeOK'
  <2>1. ArchiveTypeOK'
    BY <1>9, <1>b, StatementTypes DEF DeleteCommit
  <2>2. QED
    BY <1>9, <2>1 DEF DeleteCommit, sourceVars
<1>10. ASSUME NEW m \in Msg, DeleteMiss(m) PROVE TypeOK'
  BY <1>10, <1>a, PendingTypes DEF DeleteMiss, sourceVars
<1>11. ASSUME NEW ids \in SUBSET Msg, BulkDelete(ids) PROVE TypeOK'
  <2>1. ArchiveTypeOK'
    BY <1>11, <1>b, StatementTypes DEF BulkDelete
  <2>2. QED
    BY <1>11, <2>1 DEF BulkDelete, Departed
<1>12. ASSUME NEW w \in Worker, Working(w, "send") \/ Working(w, "accepted")
                                                   \/ Working(w, "mark")
       PROVE  job[w] \in Job /\ job[w].row \in Row /\ job[w].attempts \in Nat
  BY <1>12 DEF Working, Job
<1>13. ASSUME NEW w \in Worker, Accept(w) PROVE TypeOK'
  <2>1. job[w] \in Job /\ job[w].row \in Row
    BY <1>12, <1>13 DEF Accept
  <2>2. [job[w] EXCEPT !.pc = "accepted"] \in Job
    BY <2>1 DEF Job
  <2>3. job' \in [Worker -> Job \cup {NoJob}]
    BY <1>13, <2>2 DEF Accept
  <2>4. copies' \in [Row -> Nat]
    BY <1>13, <2>1 DEF Accept
  <2>5. QED
    BY <1>13, <1>a, <2>3, <2>4 DEF Accept, sourceVars, handlerVars
<1>14. ASSUME NEW w \in Worker, NEW outcome \in Outcome, Concludes(w, outcome),
              Working(w, "send") \/ Working(w, "accepted"), faults' \in Nat
       PROVE  TypeOK'
  <2>1. job[w] \in Job
    BY <1>12, <1>14
  <2>2. [job[w] EXCEPT !.pc = "mark", !.outcome = outcome] \in Job
    BY <2>1 DEF Job
  <2>3. job' \in [Worker -> Job \cup {NoJob}]
    BY <1>14, <2>2 DEF Concludes
  <2>4. QED
    BY <1>14, <1>a, <2>3 DEF Concludes, sourceVars, handlerVars
<1>15. ASSUME NEW w \in Worker, Reply(w) PROVE TypeOK'
  BY <1>14, <1>15 DEF Reply, Outcome
<1>16. ASSUME NEW w \in Worker, LoseReply(w) PROVE TypeOK'
  BY <1>14, <1>16 DEF LoseReply, Outcome
<1>17. ASSUME NEW w \in Worker, Refuse(w) PROVE TypeOK'
  BY <1>14, <1>17 DEF Refuse, Outcome
<1>18. ASSUME NEW w \in Worker, Mark(w) PROVE TypeOK'
  <2>1. job[w] \in Job /\ job[w].row \in Row /\ job[w].attempts \in Nat
    BY <1>12, <1>18 DEF Mark
  <2>2. deliveries' \in [Row -> DeliveryRow]
    BY <1>18, <2>1, StatementTypes DEF Mark, RecordOutcome
  <2>3. ArchiveTypeOK'
    BY <1>18, <1>c, <2>2 DEF Mark
  <2>4. job' \in [Worker -> Job \cup {NoJob}]
    BY <1>18 DEF Mark
  <2>5. QED
    BY <1>18, <2>3, <2>4 DEF Mark, sourceVars, handlerVars
<1>19. ASSUME SweepRead PROVE TypeOK'
  <2>1. PICK rows \in SUBSET DueRows :
           batch' = {[row      |-> row,
                      attempts |-> deliveries[row].attempts,
                      text     |-> messages[row[1]].text] : row \in rows}
    BY <1>19 DEF SweepRead
  <2>2. rows \subseteq Row
    BY DEF DueRows
  <2>3. \A row \in Row : deliveries[row].attempts \in Nat /\ messages[row[1]].text \in Text
    BY <1>0 DEF ArchiveTypeOK, MessageRow, DeliveryRow
  <2>4. batch' \subseteq Item
    BY <2>1, <2>2, <2>3 DEF Item
  <2>5. QED
    BY <1>19, <1>a, <2>4 DEF SweepRead, sourceVars
<1>20. ASSUME NEW item \in batch, SweepTake(item) PROVE TypeOK'
  <2>1. item.row \in Row /\ item.attempts \in Nat /\ item.text \in Text
    BY DEF Item
  <2>2. job' \in [Worker -> Job \cup {NoJob}]
    BY <1>20, <2>1, AttemptIsJob DEF SweepTake
  <2>3. QED
    BY <1>20, <1>a, <2>2 DEF SweepTake, sourceVars
<1>21. ASSUME NEW row \in Row, Backoff(row) PROVE TypeOK'
  <2>1. ArchiveTypeOK'
    BY <1>21, <1>c, StatementTypes DEF Backoff, BackoffElapses
  <2>2. QED
    BY <1>21, <2>1 DEF Backoff, sourceVars, handlerVars
<1>22. ASSUME NEW m \in Msg, CreateFails(m) PROVE TypeOK'
  BY <1>22, <1>a DEF CreateFails, Fault, sourceVars
<1>23. ASSUME NEW m \in Msg, FanOutFails(m) PROVE TypeOK'
  <2>1. todo' \in [Msg -> SUBSET Route] /\ job' \in [Worker -> Job \cup {NoJob}]
    BY <1>23 DEF FanOutFails
  <2>2. QED
    BY <1>23, <1>a, <2>1 DEF FanOutFails, Fault, sourceVars
<1>24. ASSUME SweepFails PROVE TypeOK'
  <2>1. batch' \subseteq Item /\ job' \in [Worker -> Job \cup {NoJob}]
    BY <1>24 DEF SweepFails
  <2>2. QED
    BY <1>24, <1>a, <2>1 DEF SweepFails, Fault, sourceVars
<1>25. ASSUME NEW m \in Msg, DeleteFails(m) PROVE TypeOK'
  BY <1>25, <1>a DEF DeleteFails, Fault, sourceVars
<1>26. ASSUME NEW e \in edits, EditFails(e) PROVE TypeOK'
  BY <1>26, <1>a DEF EditFails, Fault, sourceVars
<1>27. ASSUME Crash PROVE TypeOK'
  BY <1>27, <1>a, StartTypes DEF Crash, Fault
<1>28. ASSUME UNCHANGED vars PROVE TypeOK'
  BY <1>28 DEF vars, ArchiveTypeOK
<1>29. QED
  BY <1>1, <1>2, <1>3, <1>4, <1>5, <1>6, <1>7, <1>8, <1>9, <1>10, <1>11, <1>13,
     <1>15, <1>16, <1>17, <1>18, <1>19, <1>20, <1>21, <1>22, <1>23, <1>24, <1>25,
     <1>26, <1>27, <1>28
  DEF Next, CreateNext, DeleteNext, SendNext, FaultNext

\* Every variable keeps its type, whatever the interleaving and the faults.
THEOREM TypeCorrect == Spec => []TypeOK
<1>1. Init => TypeOK
  BY InitTypes
<1>2. TypeOK /\ [Next]_vars => TypeOK'
  BY NextTypes
<1>3. QED
  BY <1>1, <1>2, PTL DEF Spec

-----------------------------------------------------------------------------
(* What is sent. *)

\* Empty tables and a process that has just started are grounded.
LEMMA InitGrounded == Init => Grounded
BY DEF Init, ArchiveInit, NoDelivery, NoHandler, NoFanOut, NoJobs, Grounded, RowsArchived,
       FanOutArchived, QueuedAllowed, CopiesGrounded, JobsGrounded, BatchGrounded, HasRow

\* A step that takes nothing from the tables, and adds no row, fan-out, copy, job
\* or snapshot but grounded ones, leaves everything grounded.
LEMMA GroundedStep ==
    ASSUME TypeOK, Grounded,
           \A m \in Msg : Stored(m) => Stored(m)',
           \A row \in Row : HasRow(row) => HasRow(row)',
           \A row \in Row : HasRow(row)' => HasRow(row) \/ Stored(row[1])',
           \A m \in Msg : todo'[m] # {} \/ create'[m] = "check"
                              => todo[m] # {} \/ create[m] = "check" \/ Stored(m)',
           \A row \in Row : deliveries'[row].status \notin {"none", "SKIPPED"}
                                => Allowed(row),
           \A row \in Row : copies'[row] > 0
                                => copies[row] > 0 \/ (HasRow(row) /\ Allowed(row)),
           \A w \in Worker : job'[w] # NoJob
               => \/ job[w] # NoJob /\ job'[w].row = job[w].row
                  \/ \E row \in Row : job'[w].row = row /\ HasRow(row)' /\ Allowed(row),
           \A item \in batch' : item \in batch
               \/ (item.row \in Row /\ HasRow(item.row)' /\ Allowed(item.row))
    PROVE  Grounded'
<1> USE DEF TypeOK, Grounded
<1>0. \A row \in Row : row[1] \in Msg
  BY DEF Row
<1>1. RowsArchived'
  BY <1>0 DEF RowsArchived
<1>2. FanOutArchived'
  BY DEF FanOutArchived
<1>3. QueuedAllowed'
  BY DEF QueuedAllowed, Allowed
<1>4. CopiesGrounded'
  BY DEF CopiesGrounded, Allowed
<1>5. JobsGrounded'
  <2>1. SUFFICES ASSUME NEW w \in Worker, job'[w] # NoJob
                 PROVE  deliveries'[job'[w].row].status # "none" /\ Allowed(job'[w].row)
    BY DEF JobsGrounded, Allowed, HasRow
  <2>2. CASE job[w] # NoJob /\ job'[w].row = job[w].row
    <3>1. job[w].row \in Row /\ HasRow(job[w].row) /\ Allowed(job[w].row)
      BY <2>2 DEF Job, JobsGrounded
    <3>2. \A row \in Row : HasRow(row) => deliveries'[row].status # "none"
      BY DEF HasRow
    <3>3. QED
      BY <2>2, <3>1, <3>2
  <2>3. CASE \E row \in Row : job'[w].row = row /\ HasRow(row)' /\ Allowed(row)
    BY <2>3 DEF HasRow
  <2>4. QED
    BY <2>1, <2>2, <2>3
<1>6. BatchGrounded'
  BY DEF BatchGrounded, Item, Allowed
<1>7. QED
  BY <1>1, <1>2, <1>3, <1>4, <1>5, <1>6

\* No statement on messages takes a row away, and the INSERT leaves one.
LEMMA MessagesKept ==
    ASSUME ArchiveTypeOK
    PROVE  /\ \A m \in Msg : StoreMessage(m) =>
                \A n \in Msg : Stored(n)' <=> (n = m \/ Stored(n))
           /\ \A m \in Msg, text \in Text :
                RecordEdit(m, text) => \A n \in Msg : Stored(n)' <=> Stored(n)
           /\ \A ids : SoftDelete(ids) => \A n \in Msg : Stored(n)' <=> Stored(n)
<1> USE DEF ArchiveTypeOK, MessageRow, Stored
<1>1. \A m \in Msg : StoreMessage(m) =>
         \A n \in Msg : Stored(n)' <=> (n = m \/ Stored(n))
  BY DEF StoreMessage
<1>2. \A m \in Msg, text \in Text :
         RecordEdit(m, text) => \A n \in Msg : Stored(n)' <=> Stored(n)
  BY DEF RecordEdit
<1>3. \A ids : SoftDelete(ids) => \A n \in Msg : Stored(n)' <=> Stored(n)
  BY DEF SoftDelete
<1>4. QED
  BY <1>1, <1>2, <1>3

\* The outcome of an attempt stays in its row, whatever the outcome.
LEMMA OutcomeStaysInRow ==
    ASSUME ArchiveTypeOK, NEW j \in Job, RecordOutcome(j)
    PROVE  /\ \A row \in Row : row # j.row => deliveries'[row] = deliveries[row]
           /\ deliveries'[j.row].status # "none"
<1>1. j.row \in Row
  BY DEF Job
<1>2. CASE MarkDelivered(j.row)
  BY <1>1, <1>2 DEF MarkDelivered, ArchiveTypeOK, DeliveryRow, HasRow
<1>3. CASE MarkSkipped(j.row)
  BY <1>1, <1>3 DEF MarkSkipped, ArchiveTypeOK, DeliveryRow, HasRow
<1>4. CASE MarkAttemptFailed(j.row, j.attempts, j.outcome = "retryable")
  BY <1>1, <1>4 DEF MarkAttemptFailed, ArchiveTypeOK, DeliveryRow, HasRow
<1>5. QED
  BY <1>2, <1>3, <1>4 DEF RecordOutcome

\* No step, and no fault, breaks the ground that copies stand on.
LEMMA NextGrounded ==
    ASSUME TypeOK, Grounded, [Next]_vars
    PROVE  Grounded'
<1> USE DEF TypeOK, Grounded
<1>0. \A row \in Row : row[1] \in Msg
  BY DEF Row
<1>a. ASSUME UNCHANGED deliveries
      PROVE  /\ \A row \in Row : HasRow(row)' <=> HasRow(row)
             /\ \A row \in Row : deliveries'[row].status \notin {"none", "SKIPPED"}
                                     => Allowed(row)
  BY <1>a DEF HasRow, QueuedAllowed
<1>b. ASSUME UNCHANGED messages
      PROVE  \A m \in Msg : Stored(m)' <=> Stored(m)
  BY <1>b DEF Stored
<1>c. ASSUME UNCHANGED archiveVars PROVE UNCHANGED messages /\ UNCHANGED deliveries
  BY <1>c DEF archiveVars
<1>1. ASSUME NEW m \in Msg, CreateEvent(m) PROVE Grounded'
  BY <1>1, <1>a, <1>b, <1>c, GroundedStep DEF CreateEvent
<1>2. ASSUME NEW m \in Msg, StoreCommit(m) PROVE Grounded'
  <2>1. Stored(m)' /\ \A n \in Msg : Stored(n) => Stored(n)'
    BY <1>2, MessagesKept DEF StoreCommit
  <2>2. QED
    BY <1>2, <1>a, <2>1, GroundedStep DEF StoreCommit
<1>3. ASSUME NEW m \in Msg, CheckPending(m) PROVE Grounded'
  BY <1>3, <1>a, <1>b, <1>c, GroundedStep DEF CheckPending
<1>4. ASSUME NEW m \in Msg, ReconcileCommit(m) PROVE Grounded'
  <2>1. \A n \in Msg : Stored(n) => Stored(n)'
    BY <1>4, MessagesKept DEF ReconcileCommit
  <2>2. QED
    BY <1>4, <1>a, <2>1, GroundedStep DEF ReconcileCommit
<1>5. ASSUME NEW m \in Msg, Dispatch(m) PROVE Grounded'
  <2>1. PICK r \in todo[m] :
           LET row == <<m, r>>
           IN  /\ QueueDelivery(row, IF Allowed(row) THEN "PENDING" ELSE "SKIPPED")
               /\ todo' = [todo EXCEPT ![m] = @ \ {r}]
               /\ job' = [job EXCEPT ![m] = IF Allowed(row) /\ ~HasRow(row)
                                            THEN Attempt(row, 0, 0) ELSE NoJob]
    BY <1>5 DEF Dispatch
  <2> DEFINE row == <<m, r>>
  <2>2. row \in Row /\ row[1] = m /\ Stored(m)
    BY <2>1 DEF Row, FanOutArchived
  <2>3. /\ \A other \in Row : other # row => deliveries'[other] = deliveries[other]
        /\ HasRow(row) => deliveries'[row] = deliveries[row]
        /\ ~HasRow(row) => deliveries'[row].status =
                               IF Allowed(row) THEN "PENDING" ELSE "SKIPPED"
    BY <2>1, <2>2 DEF QueueDelivery, ArchiveTypeOK
  <2>4. HasRow(row)'
    BY <2>3 DEF HasRow
  <2>5. \A other \in Row : other # row => (HasRow(other)' <=> HasRow(other))
    BY <2>3 DEF HasRow
  <2>6. \A other \in Row : deliveries'[other].status \notin {"none", "SKIPPED"}
                               => Allowed(other)
    BY <2>3 DEF QueuedAllowed
  <2>7. 0 \in Text /\ 0 \in Nat
    BY MaxEditsAssumption DEF Text
  <2>8. \A w \in Worker : job'[w] # NoJob
            => \/ job[w] # NoJob /\ job'[w].row = job[w].row
               \/ \E other \in Row : job'[w].row = other /\ HasRow(other)' /\ Allowed(other)
    BY <2>1, <2>2, <2>4, <2>7, AttemptIsJob
  <2>9. \A n \in Msg : Stored(n)' <=> Stored(n)
    BY <1>5, <1>b DEF Dispatch
  <2>10. \A n \in Msg : todo'[n] # {} \/ create'[n] = "check"
                            => todo[n] # {} \/ create[n] = "check" \/ Stored(n)'
    BY <1>5, <2>1 DEF Dispatch
  <2>11. copies' = copies /\ batch' = batch
    BY <1>5 DEF Dispatch
  <2>12. \A other \in Row : HasRow(other) => HasRow(other)'
    BY <2>4, <2>5
  <2>13. \A other \in Row : HasRow(other)' => HasRow(other) \/ Stored(other[1])'
    BY <2>2, <2>5, <2>9
  <2>14. QED
    BY <2>6, <2>8, <2>9, <2>10, <2>11, <2>12, <2>13, GroundedStep
<1>6. ASSUME NEW m \in Msg, EditEvent(m) PROVE Grounded'
  BY <1>6, <1>a, <1>b, <1>c, GroundedStep DEF EditEvent
<1>7. ASSUME NEW e \in edits, EditCommit(e) PROVE Grounded'
  <2>1. e[1] \in Msg /\ e[2] \in Text
    OBVIOUS
  <2>2. \A n \in Msg : Stored(n) => Stored(n)'
    BY <1>7, <2>1, MessagesKept DEF EditCommit
  <2>3. QED
    BY <1>7, <1>a, <2>2, GroundedStep DEF EditCommit
<1>8. ASSUME NEW m \in Msg, DeleteEvent(m) PROVE Grounded'
  BY <1>8, <1>a, <1>b, <1>c, GroundedStep DEF DeleteEvent
<1>9. ASSUME NEW m \in Msg, DeleteCommit(m) PROVE Grounded'
  <2>1. \A n \in Msg : Stored(n) => Stored(n)'
    BY <1>9, MessagesKept DEF DeleteCommit
  <2>2. QED
    BY <1>9, <1>a, <2>1, GroundedStep DEF DeleteCommit
<1>10. ASSUME NEW m \in Msg, DeleteMiss(m) PROVE Grounded'
  BY <1>10, <1>a, <1>b, <1>c, GroundedStep DEF DeleteMiss
<1>11. ASSUME NEW ids \in SUBSET Msg, BulkDelete(ids) PROVE Grounded'
  <2>1. \A n \in Msg : Stored(n) => Stored(n)'
    BY <1>11, MessagesKept DEF BulkDelete
  <2>2. QED
    BY <1>11, <1>a, <2>1, GroundedStep DEF BulkDelete
<1>12. ASSUME NEW w \in Worker, Accept(w) PROVE Grounded'
  <2>1. job[w] \in Job /\ job[w] # NoJob /\ job[w].row \in Row
    BY <1>12 DEF Accept, Working, Job
  <2>2. HasRow(job[w].row) /\ Allowed(job[w].row)
    BY <2>1 DEF JobsGrounded
  <2>3. \A row \in Row : copies'[row] > 0
            => copies[row] > 0 \/ (HasRow(row) /\ Allowed(row))
    BY <1>12, <2>1, <2>2 DEF Accept
  <2>4. \A v \in Worker : job'[v] # NoJob => job[v] # NoJob /\ job'[v].row = job[v].row
    BY <1>12, <2>1 DEF Accept, Job
  <2>5. QED
    BY <1>12, <1>a, <1>b, <1>c, <2>3, <2>4, GroundedStep DEF Accept, handlerVars
<1>13. ASSUME NEW w \in Worker, NEW outcome, Concludes(w, outcome),
              Working(w, "send") \/ Working(w, "accepted")
       PROVE  Grounded'
  <2>1. job[w] \in Job /\ job[w] # NoJob
    BY <1>13 DEF Working
  <2>2. \A v \in Worker : job'[v] # NoJob => job[v] # NoJob /\ job'[v].row = job[v].row
    BY <1>13, <2>1 DEF Concludes, Job
  <2>3. QED
    BY <1>13, <1>a, <1>b, <1>c, <2>2, GroundedStep DEF Concludes, handlerVars
<1>14. ASSUME NEW w \in Worker, Reply(w) \/ LoseReply(w) \/ Refuse(w) PROVE Grounded'
  BY <1>13, <1>14 DEF Reply, LoseReply, Refuse
<1>15. ASSUME NEW w \in Worker, Mark(w) PROVE Grounded'
  <2>1. job[w] \in Job /\ job[w] # NoJob /\ job[w].row \in Row
    BY <1>15 DEF Mark, Working, Job
  <2>2. HasRow(job[w].row) /\ Allowed(job[w].row)
    BY <2>1 DEF JobsGrounded
  <2> DEFINE own == job[w].row
  <2>3. /\ \A row \in Row : row # own => deliveries'[row] = deliveries[row]
        /\ deliveries'[own].status # "none"
    BY <1>15, <2>1, OutcomeStaysInRow DEF Mark
  <2>4. \A row \in Row : HasRow(row)' <=> HasRow(row)
    <3>1. SUFFICES ASSUME NEW row \in Row PROVE HasRow(row)' <=> HasRow(row)
      OBVIOUS
    <3>2. CASE row = job[w].row
      BY <2>2, <2>3, <3>2 DEF HasRow
    <3>3. CASE row # job[w].row
      BY <2>3, <3>3 DEF HasRow
    <3>4. QED
      BY <3>2, <3>3
  <2>5. \A row \in Row : deliveries'[row].status \notin {"none", "SKIPPED"} => Allowed(row)
    BY <2>2, <2>3 DEF QueuedAllowed
  <2>6. \A v \in Worker : job'[v] # NoJob => job[v] # NoJob /\ job'[v].row = job[v].row
    BY <1>15 DEF Mark
  <2>7. QED
    BY <1>15, <1>b, <2>4, <2>5, <2>6, GroundedStep DEF Mark, handlerVars
<1>16. ASSUME SweepRead PROVE Grounded'
  <2>1. PICK rows \in SUBSET DueRows :
           batch' = {[row      |-> row,
                      attempts |-> deliveries[row].attempts,
                      text     |-> messages[row[1]].text] : row \in rows}
    BY <1>16 DEF SweepRead
  <2>2. \A row \in rows : row \in Row /\ HasRow(row) /\ Allowed(row)
    BY DEF DueRows, HasRow, QueuedAllowed
  <2>3. \A item \in batch' : item.row \in Row /\ HasRow(item.row) /\ Allowed(item.row)
    BY <2>1, <2>2
  <2>4. QED
    BY <1>16, <1>a, <1>b, <1>c, <2>3, GroundedStep DEF SweepRead
<1>17. ASSUME NEW item \in batch, SweepTake(item) PROVE Grounded'
  <2>1. item.row \in Row /\ item.attempts \in Nat /\ item.text \in Text
    BY DEF Item
  <2>2. HasRow(item.row) /\ Allowed(item.row)
    BY DEF BatchGrounded
  <2>3. HasRow(item.row)'
    BY <1>17, <1>a, <1>c, <2>1, <2>2 DEF SweepTake
  <2>4. \A w \in Worker : job'[w] # NoJob
            => \/ job[w] # NoJob /\ job'[w].row = job[w].row
               \/ \E row \in Row : job'[w].row = row /\ HasRow(row)' /\ Allowed(row)
    BY <1>17, <2>1, <2>2, <2>3, AttemptIsJob DEF SweepTake
  <2>5. QED
    BY <1>17, <1>a, <1>b, <1>c, <2>4, GroundedStep DEF SweepTake
<1>18. ASSUME NEW row \in Row, Backoff(row) PROVE Grounded'
  <2>1. \A other \in Row : deliveries'[other].status = deliveries[other].status
    BY <1>18 DEF Backoff, BackoffElapses, ArchiveTypeOK, DeliveryRow
  <2>2. \A other \in Row : HasRow(other)' <=> HasRow(other)
    BY <2>1 DEF HasRow
  <2>3. UNCHANGED messages
    BY <1>18 DEF Backoff, BackoffElapses
  <2>4. QED
    BY <1>18, <1>b, <2>1, <2>2, <2>3, GroundedStep
    DEF Backoff, handlerVars, QueuedAllowed
<1>19. ASSUME NEW m \in Msg, CreateFails(m) PROVE Grounded'
  BY <1>19, <1>a, <1>b, <1>c, GroundedStep DEF CreateFails
<1>20. ASSUME NEW m \in Msg, FanOutFails(m) PROVE Grounded'
  BY <1>20, <1>a, <1>b, <1>c, GroundedStep DEF FanOutFails
<1>21. ASSUME SweepFails PROVE Grounded'
  BY <1>21, <1>a, <1>b, <1>c, GroundedStep DEF SweepFails
<1>22. ASSUME NEW m \in Msg, DeleteFails(m) PROVE Grounded'
  BY <1>22, <1>a, <1>b, <1>c, GroundedStep DEF DeleteFails
<1>23. ASSUME NEW e \in edits, EditFails(e) PROVE Grounded'
  BY <1>23, <1>a, <1>b, <1>c, GroundedStep DEF EditFails
<1>24. ASSUME Crash PROVE Grounded'
  BY <1>24, <1>a, <1>b, <1>c, GroundedStep DEF Crash, NoHandler, NoFanOut, NoJobs
<1>25. ASSUME UNCHANGED vars PROVE Grounded'
  BY <1>25, <1>a, <1>b, GroundedStep DEF vars
<1>26. QED
  BY <1>1, <1>2, <1>3, <1>4, <1>5, <1>6, <1>7, <1>8, <1>9, <1>10, <1>11, <1>12,
     <1>14, <1>15, <1>16, <1>17, <1>18, <1>19, <1>20, <1>21, <1>22, <1>23, <1>24, <1>25
  DEF Next, CreateNext, DeleteNext, SendNext, FaultNext

\* Grounded is inductive: rows, jobs, snapshots and copies stand on archived
\* messages and on the decision of the filters in every reachable state.
THEOREM GroundedAlways == Spec => []Grounded
<1>1. Init => TypeOK /\ Grounded
  BY InitTypes, InitGrounded
<1>2. TypeOK /\ Grounded /\ [Next]_vars => TypeOK' /\ Grounded'
  BY NextTypes, NextGrounded
<1>3. QED
  BY <1>1, <1>2, PTL DEF Spec

\* What is promised about archive and filters follows from types and ground.
LEMMA GroundedSuffices ==
    ASSUME TypeOK, Grounded
    PROVE  ArchiveBeforeForward /\ FilteredNeverSent
<1> USE DEF TypeOK, Grounded
<1>1. ArchiveBeforeForward
  BY DEF ArchiveBeforeForward, OnRow, CopiesGrounded, JobsGrounded, RowsArchived
<1>2. FilteredNeverSent
  <2>1. SUFFICES ASSUME NEW row \in Row, ~Allowed(row)
                 PROVE  copies[row] = 0 /\ deliveries[row].status \in {"none", "SKIPPED"}
    BY DEF FilteredNeverSent
  <2>2. copies[row] \in Nat /\ ~(copies[row] > 0)
    BY <2>1 DEF CopiesGrounded
  <2>3. QED
    BY <2>1, <2>2 DEF QueuedAllowed
<1>3. QED
  BY <1>1, <1>2

\* Nothing is sent, or being sent, of a message that is not in the archive.
THEOREM ArchivedFirst == Spec => []ArchiveBeforeForward
<1>1. TypeOK /\ Grounded => ArchiveBeforeForward
  BY GroundedSuffices
<1>2. QED
  BY <1>1, TypeCorrect, GroundedAlways, PTL

\* What a route's filters exclude at capture never reaches its destination.
THEOREM FilterHolds == Spec => []FilteredNeverSent
<1>1. TypeOK /\ Grounded => FilteredNeverSent
  BY GroundedSuffices
<1>2. QED
  BY <1>1, TypeCorrect, GroundedAlways, PTL

-----------------------------------------------------------------------------
(* The pipeline implements Relay. *)

\* The initial states map to the initial state of Relay.
LEMMA RelayInit == Init => R!Init
BY DEF Init, ArchiveInit, NoDelivery, R!Init, Stored, HasRow, Row

\* A step that stores no message, adds no row and makes no copy is a stutter.
LEMMA RelayStutter ==
    ASSUME \A m \in Msg : Stored(m)' <=> Stored(m),
           \A row \in Row : HasRow(row)' <=> HasRow(row),
           copies' = copies
    PROVE  UNCHANGED R!vars
<1>1. {m \in Msg : Stored(m)}' = {m \in Msg : Stored(m)}
  OBVIOUS
<1>2. {row \in Row : HasRow(row)}' = {row \in Row : HasRow(row)}
  OBVIOUS
<1>3. QED
  BY <1>1, <1>2 DEF R!vars

\* Every step of the pipeline is a step of Relay or a stutter.
LEMMA RelayStep ==
    ASSUME TypeOK, Grounded, [Next]_vars
    PROVE  [R!Next]_(R!vars)
<1> USE DEF TypeOK, Grounded
<1> DEFINE Step == R!Next \/ UNCHANGED R!vars
<1>a. ASSUME UNCHANGED deliveries
      PROVE  \A row \in Row : HasRow(row)' <=> HasRow(row)
  BY <1>a DEF HasRow
<1>b. ASSUME UNCHANGED messages
      PROVE  \A m \in Msg : Stored(m)' <=> Stored(m)
  BY <1>b DEF Stored
<1>c. ASSUME UNCHANGED archiveVars, UNCHANGED copies PROVE Step
  BY <1>a, <1>b, <1>c, RelayStutter DEF archiveVars
<1>1. ASSUME NEW m \in Msg, StoreCommit(m) PROVE Step
  <2>1. /\ \A n \in Msg : Stored(n)' <=> (n = m \/ Stored(n))
        /\ \A row \in Row : HasRow(row)' <=> HasRow(row)
        /\ copies' = copies
    BY <1>1, <1>a, MessagesKept DEF StoreCommit
  <2>2. CASE Stored(m)
    <3>1. \A n \in Msg : Stored(n)' <=> Stored(n)
      BY <2>1, <2>2
    <3>2. QED
      BY <2>1, <3>1, RelayStutter
  <2>3. CASE ~Stored(m)
    <3>1. {n \in Msg : Stored(n)}' = {n \in Msg : Stored(n)} \cup {m}
      BY <2>1
    <3>2. {row \in Row : HasRow(row)}' = {row \in Row : HasRow(row)}
      BY <2>1
    <3>3. R!Archive(m)
      BY <2>1, <2>3, <3>1, <3>2 DEF R!Archive
    <3>4. QED
      BY <3>3 DEF R!Next
  <2>4. QED
    BY <2>2, <2>3
<1>2. ASSUME NEW m \in Msg, Dispatch(m) PROVE Step
  <2>1. PICK r \in todo[m] :
           QueueDelivery(<<m, r>>, IF Allowed(<<m, r>>) THEN "PENDING" ELSE "SKIPPED")
    BY <1>2 DEF Dispatch
  <2> DEFINE row == <<m, r>>
  <2>2. row \in Row /\ row[1] = m /\ Stored(m)
    BY <2>1 DEF Row, FanOutArchived
  <2>3. /\ \A other \in Row : other # row => deliveries'[other] = deliveries[other]
        /\ HasRow(row) => deliveries'[row] = deliveries[row]
        /\ ~HasRow(row) => deliveries'[row].status # "none"
    BY <2>1, <2>2 DEF QueueDelivery, ArchiveTypeOK
  <2>4. \A other \in Row : HasRow(other)' <=> (other = row \/ HasRow(other))
    BY <2>2, <2>3 DEF HasRow
  <2>5. (\A n \in Msg : Stored(n)' <=> Stored(n)) /\ copies' = copies
    BY <1>2, <1>b DEF Dispatch
  <2>6. CASE HasRow(row)
    <3>1. \A other \in Row : HasRow(other)' <=> HasRow(other)
      BY <2>4, <2>6
    <3>2. QED
      BY <2>5, <3>1, RelayStutter
  <2>7. CASE ~HasRow(row)
    <3>1. {other \in Row : HasRow(other)}' = {other \in Row : HasRow(other)} \cup {row}
      BY <2>2, <2>4
    <3>2. {n \in Msg : Stored(n)}' = {n \in Msg : Stored(n)}
      BY <2>5
    <3>3. R!Decide(row)
      BY <2>2, <2>5, <2>7, <3>1, <3>2 DEF R!Decide
    <3>4. QED
      BY <2>2, <3>3 DEF R!Next, Row
  <2>8. QED
    BY <2>6, <2>7
<1>3. ASSUME NEW w \in Worker, Accept(w) PROVE Step
  <2> DEFINE row == job[w].row
  <2>1. job[w] # NoJob /\ row \in Row
    BY <1>3 DEF Accept, Working, Job
  <2>2. HasRow(row) /\ Allowed(row)
    BY <2>1 DEF JobsGrounded
  <2>3. /\ \A n \in Msg : Stored(n)' <=> Stored(n)
        /\ \A other \in Row : HasRow(other)' <=> HasRow(other)
        /\ copies' = [copies EXCEPT ![row] = @ + 1]
    BY <1>3, <1>a, <1>b DEF Accept, archiveVars
  <2>4. /\ {other \in Row : HasRow(other)}' = {other \in Row : HasRow(other)}
        /\ {n \in Msg : Stored(n)}' = {n \in Msg : Stored(n)}
    BY <2>3
  <2>5. R!Copy(row)
    BY <2>1, <2>2, <2>3, <2>4 DEF R!Copy
  <2>6. QED
    BY <2>1, <2>5 DEF R!Next, Row
<1>4. ASSUME NEW w \in Worker, Mark(w) PROVE Step
  <2>1. job[w] \in Job /\ job[w] # NoJob /\ job[w].row \in Row
    BY <1>4 DEF Mark, Working, Job
  <2> DEFINE own == job[w].row
  <2>2. /\ \A row \in Row : row # own => deliveries'[row] = deliveries[row]
        /\ deliveries'[own].status # "none"
    BY <1>4, <2>1, OutcomeStaysInRow DEF Mark
  <2>3. HasRow(own)
    BY <2>1 DEF JobsGrounded
  <2>4. \A row \in Row : HasRow(row)' <=> HasRow(row)
    BY <2>2, <2>3 DEF HasRow
  <2>5. QED
    BY <1>4, <1>b, <2>4, RelayStutter DEF Mark
<1>5. ASSUME NEW row \in Row, Backoff(row) PROVE Step
  <2>1. \A other \in Row : HasRow(other)' <=> HasRow(other)
    BY <1>5 DEF Backoff, BackoffElapses, ArchiveTypeOK, DeliveryRow, HasRow
  <2>2. QED
    BY <1>5, <1>b, <2>1, RelayStutter DEF Backoff, BackoffElapses
<1>6. ASSUME NEW m \in Msg, ReconcileCommit(m) \/ DeleteCommit(m) PROVE Step
  <2>1. \A n \in Msg : Stored(n)' <=> Stored(n)
    BY <1>6, MessagesKept DEF ReconcileCommit, DeleteCommit
  <2>2. QED
    BY <1>6, <1>a, <2>1, RelayStutter DEF ReconcileCommit, DeleteCommit
<1>7. ASSUME NEW ids \in SUBSET Msg, BulkDelete(ids) PROVE Step
  <2>1. \A n \in Msg : Stored(n)' <=> Stored(n)
    BY <1>7, MessagesKept DEF BulkDelete
  <2>2. QED
    BY <1>7, <1>a, <2>1, RelayStutter DEF BulkDelete
<1>8. ASSUME NEW e \in edits, EditCommit(e) PROVE Step
  <2>1. e[1] \in Msg /\ e[2] \in Text
    OBVIOUS
  <2>2. \A n \in Msg : Stored(n)' <=> Stored(n)
    BY <1>8, <2>1, MessagesKept DEF EditCommit
  <2>3. QED
    BY <1>8, <1>a, <2>2, RelayStutter DEF EditCommit
<1>9. ASSUME NEW m \in Msg, \/ CreateEvent(m) \/ CheckPending(m) \/ EditEvent(m)
                            \/ DeleteEvent(m) \/ DeleteMiss(m)
      PROVE  Step
  BY <1>9, <1>c DEF CreateEvent, CheckPending, EditEvent, DeleteEvent, DeleteMiss
<1>10. ASSUME NEW w \in Worker, Reply(w) \/ LoseReply(w) \/ Refuse(w) PROVE Step
  BY <1>10, <1>c DEF Reply, LoseReply, Refuse, Concludes
<1>11. ASSUME SweepRead \/ \E item \in batch : SweepTake(item) PROVE Step
  BY <1>11, <1>c DEF SweepRead, SweepTake
<1>12. ASSUME FaultNext PROVE Step
  BY <1>12, <1>c DEF FaultNext, CreateFails, FanOutFails, DeleteFails, EditFails,
                     SweepFails, Crash
<1>13. ASSUME UNCHANGED vars PROVE Step
  BY <1>13, <1>c DEF vars, archiveVars
<1>14. QED
  BY <1>1, <1>2, <1>3, <1>4, <1>5, <1>6, <1>7, <1>8, <1>9, <1>10, <1>11, <1>12, <1>13
  DEF Next, CreateNext, DeleteNext, SendNext

\* The pipeline, with its queue, retries, restarts and faults, is a relay that
\* archives, decides once and then copies, and takes nothing back.
THEOREM Implementation == Spec => ImplementsRelay
<1>1. Init => R!Init
  BY RelayInit
<1>2. TypeOK /\ Grounded /\ [Next]_vars => [R!Next]_(R!vars)
  BY RelayStep
<1>3. QED
  BY <1>1, <1>2, TypeCorrect, GroundedAlways, PTL DEF Spec, ImplementsRelay, R!Spec
=============================================================================
