--------------------------- MODULE DeliveryProofs ---------------------------
(***************************************************************************)
(* Proofs about module Pipeline that need more than types and ground: what *)
(* tasks with different views of one row do to its attempts, its status    *)
(* and its copies, and what replays and the cap do to messages and         *)
(* remembered deletes.                                                     *)
(***************************************************************************)
EXTENDS PipelineProofs, FiniteSetTheorems

-----------------------------------------------------------------------------
(* Kinds of steps. *)

\* Rows and copies stay, no job starts, and a job goes only by a fault.
Quiet ==
    /\ UNCHANGED <<deliveries, copies>>
    /\ \A w \in Worker : job'[w] \in {job[w], NoJob}
    /\ batch' \subseteq batch
    /\ (faults' = faults /\ UNCHANGED job) \/ faults' = faults + 1

\* A request ends: send() returns or raises.
Ends(w) == Reply(w) \/ LoseReply(w) \/ Refuse(w)

\* Every step is quiet, or one of those that deliver().
LEMMA StepKinds ==
    ASSUME TypeOK, [Next]_vars
    PROVE  \/ Quiet
           \/ \E m \in Msg : Dispatch(m)
           \/ \E w \in Worker : Accept(w) \/ Ends(w) \/ Mark(w)
           \/ SweepRead
           \/ \E item \in batch : SweepTake(item)
           \/ \E row \in Row : Backoff(row)
<1> USE DEF TypeOK
<1>1. ASSUME NEW m \in Msg,
             \/ CreateEvent(m) \/ StoreCommit(m) \/ CheckPending(m) \/ ReconcileCommit(m)
             \/ EditEvent(m) \/ DeleteNext(m) \/ CreateFails(m) \/ DeleteFails(m)
      PROVE  Quiet
  BY <1>1
  DEF CreateEvent, StoreCommit, CheckPending, ReconcileCommit, EditEvent, DeleteNext,
      DeleteEvent, DeleteCommit, DeleteMiss, CreateFails, DeleteFails, Fault, archiveVars, Quiet
<1>2. ASSUME \/ \E e \in edits : EditCommit(e) \/ EditFails(e)
             \/ \E ids \in SUBSET Msg : BulkDelete(ids)
             \/ UNCHANGED vars
      PROVE  Quiet
  BY <1>2 DEF EditCommit, EditFails, BulkDelete, Fault, archiveVars, vars, Quiet
<1>3. ASSUME NEW m \in Msg, FanOutFails(m) PROVE Quiet
  BY <1>3 DEF FanOutFails, Fault, archiveVars, Quiet
<1>4. ASSUME SweepFails PROVE Quiet
  BY <1>4 DEF SweepFails, Fault, archiveVars, Quiet
<1>5. ASSUME Crash PROVE Quiet
  BY <1>5 DEF Crash, NoJobs, Fault, archiveVars, Quiet
<1>6. QED
  BY <1>1, <1>2, <1>3, <1>4, <1>5 DEF Next, CreateNext, SendNext, FaultNext, Ends

\* The create handler and the fan-out of each message: they go on with less to
\* do, or stop; the INSERT succeeds; the loop over the routes starts.
FanOutStep ==
    \A m \in Msg :
        \/ todo'[m] \subseteq todo[m] /\ (create'[m] = "check" => create[m] = "check")
        \/ todo'[m] = todo[m] /\ ~Stored(m)
        \/ create[m] = "check" /\ create'[m] # "check" /\ todo'[m] = FanOut(m)

\* Settings change only with the process.
SettingsStep ==
    config' = config \/ (todo' = NoFanOut /\ job' = NoJobs)

\* What every step does to fan-outs and settings.
LEMMA FanOutSteps ==
    ASSUME TypeOK, [Next]_vars
    PROVE  FanOutStep /\ SettingsStep
<1> USE DEF TypeOK, FanOutStep, SettingsStep, sourceVars
<1>1. ASSUME NEW m \in Msg, StoreCommit(m) PROVE FanOutStep /\ SettingsStep
  BY <1>1 DEF StoreCommit
<1>2. ASSUME NEW m \in Msg, CheckPending(m) PROVE FanOutStep /\ SettingsStep
  BY <1>2 DEF CheckPending
<1>3. ASSUME NEW m \in Msg, Dispatch(m) PROVE FanOutStep /\ SettingsStep
  <2>1. PICK r \in todo[m] : todo' = [todo EXCEPT ![m] = @ \ {r}]
    BY <1>3 DEF Dispatch
  <2>2. QED
    BY <1>3, <2>1 DEF Dispatch
<1>4. ASSUME NEW m \in Msg,
             CreateEvent(m) \/ ReconcileCommit(m) \/ CreateFails(m) \/ FanOutFails(m)
      PROVE  FanOutStep /\ SettingsStep
  BY <1>4 DEF CreateEvent, ReconcileCommit, CreateFails, FanOutFails
<1>5. ASSUME NEW m \in Msg, EditEvent(m) \/ DeleteNext(m) \/ DeleteFails(m)
      PROVE  FanOutStep /\ SettingsStep
  BY <1>5 DEF EditEvent, DeleteNext, DeleteEvent, DeleteCommit, DeleteMiss, DeleteFails
<1>6. ASSUME \/ \E e \in edits : EditCommit(e) \/ EditFails(e)
             \/ \E ids \in SUBSET Msg : BulkDelete(ids)
             \/ UNCHANGED vars
      PROVE  FanOutStep /\ SettingsStep
  BY <1>6 DEF EditCommit, EditFails, BulkDelete, vars
<1>7. ASSUME NEW w \in Worker, SendNext(w) PROVE FanOutStep /\ SettingsStep
  BY <1>7 DEF SendNext, Accept, Reply, Refuse, LoseReply, Mark, Concludes, handlerVars
<1>8. ASSUME \/ SweepRead \/ SweepFails
             \/ \E item \in batch : SweepTake(item)
             \/ \E row \in Row : Backoff(row)
      PROVE  FanOutStep /\ SettingsStep
  BY <1>8 DEF SweepRead, SweepFails, SweepTake, Backoff, handlerVars
<1>9. ASSUME Crash PROVE FanOutStep /\ SettingsStep
  BY <1>9 DEF Crash, NoFanOut, NoHandler
<1>10. QED
  BY <1>1, <1>2, <1>3, <1>4, <1>5, <1>6, <1>7, <1>8, <1>9 DEF Next, CreateNext, FaultNext

\* A marked job's row, and no other, is counted, settled or rescheduled.
LEMMA MarkedRow ==
    ASSUME TypeOK, NEW w \in Worker, Mark(w)
    PROVE  /\ job[w] \in Job /\ job[w] # NoJob /\ job[w].row \in Row
           /\ job' = [job EXCEPT ![w] = NoJob]
           /\ \A row \in Row : row # job[w].row => deliveries'[row] = deliveries[row]
           /\ deliveries'[job[w].row].status # "none"
           /\ IF job[w].outcome = "blank"
              THEN deliveries'[job[w].row].attempts = deliveries[job[w].row].attempts
              ELSE deliveries'[job[w].row].attempts = deliveries[job[w].row].attempts + 1
<1> USE DEF TypeOK
<1>1. job[w] \in Job /\ job[w] # NoJob /\ job[w].row \in Row /\ RecordOutcome(job[w])
  BY DEF Mark, Working, Job
<1> DEFINE Counted ==
             IF job[w].outcome = "blank"
             THEN deliveries'[job[w].row].attempts = deliveries[job[w].row].attempts
             ELSE deliveries'[job[w].row].attempts = deliveries[job[w].row].attempts + 1
<1>2. ASSUME job[w].outcome = "sent", MarkDelivered(job[w].row) PROVE Counted
  BY <1>1, <1>2 DEF MarkDelivered, ArchiveTypeOK, DeliveryRow
<1>3. ASSUME job[w].outcome = "blank", MarkSkipped(job[w].row) PROVE Counted
  BY <1>1, <1>3 DEF MarkSkipped, ArchiveTypeOK, DeliveryRow
<1>4. ASSUME job[w].outcome \in {"retryable", "permanent"},
             MarkAttemptFailed(job[w].row, job[w].attempts, job[w].outcome = "retryable")
      PROVE  Counted
  BY <1>1, <1>4 DEF MarkAttemptFailed, ArchiveTypeOK, DeliveryRow
<1>5. Counted
  BY <1>1, <1>2, <1>3, <1>4 DEF RecordOutcome
<1>6. QED
  BY <1>1, <1>5, OutcomeStaysInRow DEF Mark

\* A fan-out makes the row of its next route, and starts its attempt if the row is
\* new and allowed.
LEMMA DispatchedRow ==
    ASSUME TypeOK, NEW m \in Msg, Dispatch(m)
    PROVE  \E r \in todo[m] :
             /\ <<m, r>> \in Row /\ <<m, r>>[1] = m
             /\ job[m] = NoJob
             /\ \A row \in Row : row # <<m, r>> => deliveries'[row] = deliveries[row]
             /\ HasRow(<<m, r>>) => /\ deliveries'[<<m, r>>] = deliveries[<<m, r>>]
                                    /\ job' = job
             /\ ~HasRow(<<m, r>>) =>
                    /\ deliveries'[<<m, r>>].status \in {"PENDING", "SKIPPED"}
                    /\ deliveries'[<<m, r>>].attempts = 0
                    /\ job' = [job EXCEPT ![m] = IF Allowed(<<m, r>>)
                                                 THEN Attempt(<<m, r>>, 0, 0) ELSE NoJob]
             /\ todo' = [todo EXCEPT ![m] = @ \ {r}]
             /\ UNCHANGED <<copies, faults, batch, create>>
<1> USE DEF TypeOK
<1>1. PICK r \in todo[m] :
         LET row == <<m, r>>
         IN  /\ QueueDelivery(row, IF Allowed(row) THEN "PENDING" ELSE "SKIPPED")
             /\ todo' = [todo EXCEPT ![m] = @ \ {r}]
             /\ job' = [job EXCEPT ![m] = IF Allowed(row) /\ ~HasRow(row)
                                          THEN Attempt(row, 0, 0) ELSE NoJob]
  BY DEF Dispatch
<1> DEFINE row == <<m, r>>
<1>2. row \in Row /\ row[1] = m
  BY <1>1 DEF Row
<1>3. m \in Worker /\ job[m] = NoJob
  BY DEF Dispatch, Idle, Worker
<1>4. /\ \A other \in Row : other # row => deliveries'[other] = deliveries[other]
      /\ HasRow(row) => deliveries'[row] = deliveries[row]
      /\ ~HasRow(row) => /\ deliveries'[row].status \in {"PENDING", "SKIPPED"}
                         /\ deliveries'[row].attempts = 0
  BY <1>1, <1>2 DEF QueueDelivery, ArchiveTypeOK
<1>5. HasRow(row) => job' = job
  BY <1>1, <1>3
<1>6. ~HasRow(row) => job' = [job EXCEPT ![m] = IF Allowed(row)
                                               THEN Attempt(row, 0, 0) ELSE NoJob]
  BY <1>1
<1>7. UNCHANGED <<copies, faults, batch, create>>
  BY DEF Dispatch
<1>8. QED
  BY <1>1, <1>2, <1>3, <1>4, <1>5, <1>6, <1>7

\* A request that ends leaves its worker on the same row, with a mark to make.
LEMMA EndedRequest ==
    ASSUME TypeOK, NEW w \in Worker, Ends(w)
    PROVE  /\ job[w] \in Job /\ job[w] # NoJob
           /\ job[w].pc \in {"send", "accepted"}
           /\ \E outcome \in {"sent", "retryable", "permanent"} :
                /\ job' = [job EXCEPT ![w] = [job[w] EXCEPT !.pc = "mark",
                                                            !.outcome = outcome]]
                /\ outcome = "sent" => job[w].pc = "accepted"
           /\ UNCHANGED <<deliveries, copies, batch>>
           /\ faults' \in {faults, faults + 1}
<1> USE DEF TypeOK
<1>1. job[w] \in Job /\ job[w] # NoJob /\ job[w].pc \in {"send", "accepted"}
  BY DEF Ends, Reply, LoseReply, Refuse, Working
<1>2. ASSUME NEW outcome, Concludes(w, outcome)
      PROVE  /\ job' = [job EXCEPT ![w] = [job[w] EXCEPT !.pc = "mark",
                                                         !.outcome = outcome]]
             /\ UNCHANGED <<deliveries, copies, batch>>
  BY <1>1, <1>2 DEF Concludes, archiveVars, handlerVars
<1>3. CASE Reply(w)
  BY <1>1, <1>2, <1>3 DEF Reply, Working
<1>4. CASE LoseReply(w)
  BY <1>1, <1>2, <1>4 DEF LoseReply
<1>5. CASE Refuse(w)
  BY <1>1, <1>2, <1>5 DEF Refuse
<1>6. QED
  BY <1>3, <1>4, <1>5 DEF Ends

\* Jobs end, go on with their row, or start: in a fan-out on the row it has just
\* made, in the sweeper on what its snapshot says.
JobStep(w) ==
    \/ job'[w] = NoJob
    \/ /\ job[w] # NoJob
       /\ job'[w].row = job[w].row /\ job'[w].attempts = job[w].attempts
    \/ /\ w \in Msg
       /\ \E r \in todo[w] : job'[w].row = <<w, r>> /\ job'[w].attempts = 0
    \/ /\ w = Sweeper
       /\ \E item \in batch : /\ batch' = batch \ {item}
                             /\ job'[w].row = item.row /\ Forwards(item.row[2])
                             /\ job'[w].attempts = item.attempts

\* What every step does to jobs.
LEMMA JobSteps ==
    ASSUME TypeOK, [Next]_vars, NEW w \in Worker
    PROVE  JobStep(w)
<1> USE DEF TypeOK
<1>1. ASSUME NEW m \in Msg, Dispatch(m) PROVE JobStep(w)
  <2>1. PICK r \in todo[m] :
           \/ job' = job
           \/ job' = [job EXCEPT ![m] = IF Allowed(<<m, r>>)
                                        THEN Attempt(<<m, r>>, 0, 0) ELSE NoJob]
    BY <1>1, DispatchedRow
  <2>2. Attempt(<<m, r>>, 0, 0).row = <<m, r>> /\ Attempt(<<m, r>>, 0, 0).attempts = 0
    BY DEF Attempt
  <2>3. QED
    BY <2>1, <2>2 DEF JobStep
<1>2. ASSUME NEW item \in batch, SweepTake(item) PROVE JobStep(w)
  <2>1. /\ Attempt(item.row, item.attempts, item.text).row = item.row
        /\ Attempt(item.row, item.attempts, item.text).attempts = item.attempts
    BY DEF Attempt
  <2>2. QED
    BY <1>2, <2>1 DEF SweepTake, JobStep
<1>3. ASSUME NEW v \in Worker, Accept(v) PROVE JobStep(w)
  BY <1>3 DEF Accept, Working, Job, JobStep
<1>4. ASSUME NEW v \in Worker, Ends(v) PROVE JobStep(w)
  <2>1. PICK outcome :
           job' = [job EXCEPT ![v] = [job[v] EXCEPT !.pc = "mark", !.outcome = outcome]]
    BY <1>4, EndedRequest
  <2>2. job[v] \in Job /\ job[v] # NoJob
    BY <1>4, EndedRequest
  <2>3. QED
    BY <2>1, <2>2 DEF Job, JobStep
<1>5. ASSUME NEW v \in Worker, Mark(v) PROVE JobStep(w)
  BY <1>5 DEF Mark, JobStep
<1>6. ASSUME Quiet \/ SweepRead \/ \E row \in Row : Backoff(row) PROVE JobStep(w)
  BY <1>6 DEF Quiet, SweepRead, Backoff, JobStep
<1>7. QED
  BY <1>1, <1>2, <1>3, <1>4, <1>5, <1>6, StepKinds

-----------------------------------------------------------------------------
(* A fan-out meets no row of its own. *)

\* Neither the loop over the routes nor the moment before it has a row ahead.
FreshFanOut ==
    \A m \in Msg :
        /\ create[m] = "check" => todo[m] = {} /\ \A r \in Route : ~HasRow(<<m, r>>)
        /\ \A r \in todo[m] : ~HasRow(<<m, r>>)

\* Rows come only from fan-outs, which leave the route whose row they make.
LEMMA RowsAhead ==
    ASSUME TypeOK, Grounded, FreshFanOut, [Next]_vars
    PROVE  \A m \in Msg, r \in Route :
             HasRow(<<m, r>>)' => \/ HasRow(<<m, r>>)
                                  \/ create[m] # "check" /\ create'[m] # "check"
                                     /\ r \notin todo'[m]
<1> USE DEF TypeOK, Grounded
<1>0. \A m \in Msg, r \in Route : <<m, r>> \in Row
  BY DEF Row
<1>1. CASE UNCHANGED deliveries
  BY <1>1 DEF HasRow
<1>2. ASSUME NEW m \in Msg, Dispatch(m)
      PROVE  \A n \in Msg, r \in Route :
               HasRow(<<n, r>>)' => \/ HasRow(<<n, r>>)
                                    \/ create[n] # "check" /\ create'[n] # "check"
                                       /\ r \notin todo'[n]
  <2>1. PICK q \in todo[m] :
           /\ \A row \in Row : row # <<m, q>> => deliveries'[row] = deliveries[row]
           /\ todo' = [todo EXCEPT ![m] = @ \ {q}]
           /\ UNCHANGED create
    BY <1>2, DispatchedRow
  <2>2. create[m] # "check" /\ q \notin todo'[m]
    BY <2>1 DEF FreshFanOut
  <2>3. QED
    BY <1>0, <2>1, <2>2 DEF HasRow
<1>3. ASSUME NEW w \in Worker, Mark(w)
      PROVE  \A row \in Row : HasRow(row)' => HasRow(row)
  BY <1>3, MarkedRow DEF HasRow, JobsGrounded
<1>4. ASSUME NEW row \in Row, Backoff(row)
      PROVE  \A other \in Row : HasRow(other)' => HasRow(other)
  BY <1>4 DEF Backoff, BackoffElapses, HasRow, ArchiveTypeOK, DeliveryRow
<1>5. ASSUME NEW w \in Worker, Accept(w) \/ Ends(w) PROVE UNCHANGED deliveries
  BY <1>5, EndedRequest DEF Accept, archiveVars
<1>6. ASSUME SweepRead \/ \E item \in batch : SweepTake(item) PROVE UNCHANGED deliveries
  BY <1>6 DEF SweepRead, SweepTake, archiveVars
<1>7. QED
  BY <1>0, <1>1, <1>2, <1>3, <1>4, <1>5, <1>6, StepKinds DEF Quiet

\* No step puts a row in front of a fan-out.
LEMMA NextFresh ==
    ASSUME TypeOK, Grounded, FreshFanOut, [Next]_vars
    PROVE  FreshFanOut'
<1> USE DEF TypeOK, Grounded
<1>1. SUFFICES ASSUME NEW m \in Msg
               PROVE  /\ create'[m] = "check"
                            => todo'[m] = {} /\ \A r \in Route : ~HasRow(<<m, r>>)'
                      /\ \A r \in todo'[m] : ~HasRow(<<m, r>>)'
  BY DEF FreshFanOut
<1>2. \A r \in Route : <<m, r>> \in Row /\ <<m, r>>[1] = m
  BY DEF Row
<1>3. \A r \in Route :
        HasRow(<<m, r>>)' => \/ HasRow(<<m, r>>)
                             \/ create[m] # "check" /\ create'[m] # "check"
                                /\ r \notin todo'[m]
  BY RowsAhead
<1>4. todo'[m] \subseteq Route
  BY NextTypes
<1>5. \A r \in todo'[m] : HasRow(<<m, r>>)' => HasRow(<<m, r>>)
  BY <1>3, <1>4
<1>6. create'[m] = "check" => \A r \in Route : HasRow(<<m, r>>)' => HasRow(<<m, r>>)
  BY <1>3
<1>7. CASE todo'[m] \subseteq todo[m] /\ (create'[m] = "check" => create[m] = "check")
  BY <1>5, <1>6, <1>7 DEF FreshFanOut
<1>8. CASE todo'[m] = todo[m] /\ ~Stored(m)
  <2>1. todo[m] = {} /\ \A r \in Route : ~HasRow(<<m, r>>)
    BY <1>2, <1>8 DEF FanOutArchived, RowsArchived
  <2>2. QED
    BY <1>6, <1>8, <2>1
<1>9. CASE create[m] = "check" /\ create'[m] # "check" /\ todo'[m] = FanOut(m)
  BY <1>4, <1>5, <1>9 DEF FreshFanOut
<1>10. QED
  BY <1>7, <1>8, <1>9, FanOutSteps DEF FanOutStep

\* Whatever is replayed or restarted, ON CONFLICT of queue_delivery never fires.
THEOREM FanOutsAreFresh == Spec => []FanOutOnce
<1>1. Init => FreshFanOut
  BY DEF Init, ArchiveInit, NoDelivery, NoHandler, NoFanOut, FreshFanOut, HasRow, Row
<1>2. TypeOK /\ Grounded /\ FreshFanOut /\ [Next]_vars => FreshFanOut'
  BY NextFresh
<1>3. TypeOK /\ Grounded /\ FreshFanOut => FanOutOnce
  <2>1. SUFFICES ASSUME TypeOK, Grounded, FreshFanOut, NEW m \in Msg, NEW r \in todo[m]
                 PROVE  ~HasRow(<<m, r>>) /\ copies[<<m, r>>] = 0
    BY DEF FanOutOnce
  <2>2. <<m, r>> \in Row /\ ~HasRow(<<m, r>>)
    BY <2>1 DEF TypeOK, Row, FreshFanOut
  <2>3. copies[<<m, r>>] \in Nat /\ ~(copies[<<m, r>>] > 0)
    BY <2>1, <2>2 DEF TypeOK, Grounded, CopiesGrounded
  <2>4. QED
    BY <2>2, <2>3
<1>4. QED
  BY <1>1, <1>2, <1>3, TypeCorrect, GroundedAlways, PTL DEF Spec

-----------------------------------------------------------------------------
(* Rows of routes without a webhook are left alone. *)

\* What is being sent, and what a fan-out has ahead, is of forwarding routes.
ForwardsOnly ==
    /\ \A m \in Msg : \A r \in todo[m] : Forwards(r)
    /\ \A w \in Worker : job[w] # NoJob => Forwards(job[w].row[2])

\* Settings are asked before a job starts, and do not change while it lives.
LEMMA NextForwards ==
    ASSUME TypeOK, ForwardsOnly, [Next]_vars
    PROVE  ForwardsOnly'
<1> USE DEF TypeOK
<1>1. CASE todo' = NoFanOut /\ job' = NoJobs
  BY <1>1 DEF ForwardsOnly, NoFanOut, NoJobs
<1>2. CASE config' = config
  <2>1. ASSUME NEW m \in Msg, NEW r \in todo'[m] PROVE Forwards(r)'
    BY <1>2, <2>1, FanOutSteps DEF FanOutStep, FanOut, ForwardsOnly, Forwards
  <2>2. SUFFICES ASSUME NEW w \in Worker, job'[w] # NoJob
                 PROVE  Forwards(job'[w].row[2])
    BY <1>2, <2>1 DEF ForwardsOnly, Forwards
  <2>3. \A m \in Msg : \A r \in todo[m] : <<m, r>>[2] = r
    OBVIOUS
  <2>4. QED
    BY <2>2, <2>3, JobSteps DEF JobStep, ForwardsOnly
<1>3. QED
  BY <1>1, <1>2, FanOutSteps DEF SettingsStep

\* A step touches only rows of forwarding routes; only time touches the others.
LEMMA UnroutedStep ==
    ASSUME TypeOK, ForwardsOnly, [Next]_vars, NEW row \in Row, ~Forwards(row[2])
    PROVE  /\ copies'[row] = copies[row]
           /\ deliveries'[row].status = deliveries[row].status
           /\ deliveries'[row].attempts = deliveries[row].attempts
<1> USE DEF TypeOK
<1>1. ASSUME NEW m \in Msg, Dispatch(m)
      PROVE  copies' = copies /\ deliveries'[row] = deliveries[row]
  <2>1. PICK r \in todo[m] :
           /\ \A other \in Row : other # <<m, r>> => deliveries'[other] = deliveries[other]
           /\ copies' = copies
    BY <1>1, DispatchedRow
  <2>2. Forwards(r) /\ <<m, r>>[2] = r
    BY DEF ForwardsOnly
  <2>3. QED
    BY <2>1, <2>2
<1>2. ASSUME NEW w \in Worker, Accept(w)
      PROVE  copies'[row] = copies[row] /\ deliveries' = deliveries
  <2>1. job[w] # NoJob
    BY <1>2 DEF Accept, Working
  <2>2. job[w].row # row
    BY <2>1 DEF ForwardsOnly
  <2>3. QED
    BY <1>2, <2>2 DEF Accept, archiveVars
<1>3. ASSUME NEW w \in Worker, Ends(w) PROVE copies' = copies /\ deliveries' = deliveries
  BY <1>3, EndedRequest
<1>4. ASSUME NEW w \in Worker, Mark(w)
      PROVE  copies' = copies /\ deliveries'[row] = deliveries[row]
  <2>1. job[w].row # row
    BY <1>4, MarkedRow DEF ForwardsOnly
  <2>2. QED
    BY <1>4, <2>1, MarkedRow DEF Mark
<1>5. ASSUME \/ SweepRead \/ Quiet \/ \E item \in batch : SweepTake(item)
      PROVE  copies' = copies /\ deliveries' = deliveries
  BY <1>5 DEF SweepRead, SweepTake, Quiet, archiveVars
<1>6. ASSUME NEW other \in Row, Backoff(other)
      PROVE  /\ copies' = copies
             /\ deliveries'[row].status = deliveries[row].status
             /\ deliveries'[row].attempts = deliveries[row].attempts
  BY <1>6 DEF Backoff, BackoffElapses, ArchiveTypeOK, DeliveryRow
<1>7. QED
  BY <1>1, <1>2, <1>3, <1>4, <1>5, <1>6, StepKinds

\* A row of a route that is gone or archive-only is neither sent nor marked, by
\* the fan-out or by a sweep that read it when it was neither.
THEOREM UnroutedStays == Spec => UnroutedLeftAlone
<1>1. Init => ForwardsOnly
  BY DEF Init, NoFanOut, NoJobs, ForwardsOnly
<1>2. TypeOK /\ ForwardsOnly /\ [Next]_vars => ForwardsOnly'
  BY NextForwards
<1>3. TypeOK /\ ForwardsOnly /\ [Next]_vars
        => [\A row \in Row :
              ~Forwards(row[2])
                  => /\ copies'[row] = copies[row]
                     /\ deliveries'[row].status = deliveries[row].status
                     /\ deliveries'[row].attempts = deliveries[row].attempts]_vars
  BY UnroutedStep
<1>4. QED
  BY <1>1, <1>2, <1>3, TypeCorrect, PTL DEF Spec, UnroutedLeftAlone

-----------------------------------------------------------------------------
(* The attempt budget. *)

\* A fan-out delivers rows of its own message, each for the first time.
FirstAttempts ==
    \A m \in Msg : job[m] # NoJob => job[m].row[1] = m /\ job[m].attempts = 0

\* A sweep attempts a row once.
SweptOnce ==
    /\ \A one, other \in batch : one.row = other.row => one = other
    /\ job[Sweeper] # NoJob => \A item \in batch : item.row # job[Sweeper].row

\* The attempts of a row, with the one its fan-out is still to count.
Spent(row) == deliveries[row].attempts + (IF OnRow(row[1], row) THEN 1 ELSE 0)

\* A counter that a sweep has read: since then, nobody but the fan-out can have
\* counted an attempt.
Fresh(row, attempts) ==
    /\ attempts < MaxAttempts
    /\ attempts <= deliveries[row].attempts
    /\ Spent(row) <= attempts + 1

SnapshotsFresh ==
    /\ \A item \in batch : Fresh(item.row, item.attempts)
    /\ job[Sweeper] # NoJob => Fresh(job[Sweeper].row, job[Sweeper].attempts)

Budgeted == \A row \in Row : Spent(row) <= MaxAttempts + 1

InTime == FirstAttempts /\ SweptOnce /\ SnapshotsFresh /\ Budgeted

\* A step shrinks the snapshot, unless it reads one.
LEMMA BatchSteps ==
    ASSUME TypeOK, [Next]_vars
    PROVE  \/ batch' \subseteq batch
           \/ SweepRead
<1>1. ASSUME NEW m \in Msg, Dispatch(m) PROVE batch' \subseteq batch
  BY <1>1 DEF Dispatch
<1>2. ASSUME NEW w \in Worker, Accept(w) \/ Ends(w) \/ Mark(w) PROVE batch' \subseteq batch
  BY <1>2, EndedRequest DEF Accept, Mark, handlerVars
<1>3. ASSUME \/ \E item \in batch : SweepTake(item)
             \/ \E row \in Row : Backoff(row)
      PROVE  batch' \subseteq batch
  BY <1>3 DEF SweepTake, Backoff, handlerVars
<1>4. QED
  BY <1>1, <1>2, <1>3, StepKinds DEF Quiet

\* What a sweep reads are the counters of this moment, of rows it may attempt.
LEMMA ReadSnapshot ==
    ASSUME TypeOK, SweepRead
    PROVE  /\ job' = job /\ job[Sweeper] = NoJob
           /\ \A one, other \in batch' : one.row = other.row => one = other
           /\ \A item \in batch' : /\ item.row \in Row
                                   /\ item.attempts = deliveries[item.row].attempts
                                   /\ item.attempts < MaxAttempts
<1>1. PICK rows \in SUBSET DueRows :
         batch' = {[row      |-> row,
                    attempts |-> deliveries[row].attempts,
                    text     |-> messages[row[1]].text] : row \in rows}
  BY DEF SweepRead
<1>2. \A row \in rows : row \in Row /\ deliveries[row].attempts < MaxAttempts
  BY DEF DueRows
<1>3. QED
  BY <1>1, <1>2 DEF SweepRead, Idle

\* Fan-outs stay with their message, and sweeps with one attempt per row.
LEMMA NextOnce ==
    ASSUME TypeOK, FirstAttempts, SweptOnce, [Next]_vars
    PROVE  FirstAttempts' /\ SweptOnce'
<1> USE DEF TypeOK
<1>1. FirstAttempts'
  <2>1. SUFFICES ASSUME NEW m \in Msg, job'[m] # NoJob
                 PROVE  job'[m].row[1] = m /\ job'[m].attempts = 0
    BY DEF FirstAttempts
  <2>2. m \in Worker /\ m # Sweeper /\ \A r \in todo[m] : <<m, r>>[1] = m
    BY SweeperAssumption DEF Worker
  <2>3. QED
    BY <2>1, <2>2, JobSteps DEF JobStep, FirstAttempts
<1>2. CASE batch' \subseteq batch
  <2>1. Sweeper \in Worker /\ Sweeper \notin Msg
    BY SweeperAssumption DEF Worker
  <2>2. job'[Sweeper] # NoJob => \A item \in batch' : item.row # job'[Sweeper].row
    BY <1>2, <2>1, JobSteps DEF JobStep, SweptOnce
  <2>3. QED
    BY <1>1, <1>2, <2>2 DEF SweptOnce
<1>3. CASE SweepRead
  BY <1>1, <1>3, ReadSnapshot DEF SweptOnce
<1>4. QED
  BY <1>2, <1>3, BatchSteps

\* The counter of a row does not fall, and no attempt is spent that was not
\* known to be; or nobody who counts from an older counter is left.
SpentStep(row) ==
    \/ /\ Spent(row)' <= Spent(row)
       /\ deliveries[row].attempts <= deliveries'[row].attempts
    \/ /\ Spent(row)' <= MaxAttempts + 1
       /\ \A item \in batch' : item.row # row
       /\ ~OnRow(Sweeper, row)'

\* Counters that stay, and a fan-out that does not come to the row.
LEMMA SpentKept ==
    ASSUME TypeOK, NEW row \in Row,
           deliveries'[row].attempts = deliveries[row].attempts,
           OnRow(row[1], row)' => OnRow(row[1], row)
    PROVE  SpentStep(row)
BY DEF SpentStep, Spent, TypeOK, ArchiveTypeOK, DeliveryRow

\* What a mark does to the budget of its row.
LEMMA MarkSpends ==
    ASSUME TypeOK, InTime, NEW w \in Worker, Mark(w), NEW row \in Row
    PROVE  SpentStep(row)
<1> USE DEF TypeOK
<1>0. row[1] \in Msg /\ row[1] \in Worker /\ MaxAttempts \in Nat
  BY MaxAttemptsAssumption DEF Row, Worker
<1>1. job' = [job EXCEPT ![w] = NoJob] /\ job[w] # NoJob
  BY MarkedRow
<1>2. CASE row # job[w].row
  <2>1. deliveries'[row] = deliveries[row]
    BY <1>2, MarkedRow
  <2>2. OnRow(row[1], row)' => OnRow(row[1], row)
    BY <1>0, <1>1 DEF OnRow
  <2>3. QED
    BY <2>1, <2>2, SpentKept
<1>3. CASE row = job[w].row
  <2> DEFINE before == deliveries[row].attempts
             after  == deliveries'[row].attempts
  <2>1. before \in Nat /\ after \in {before, before + 1}
    BY <1>3, MarkedRow DEF ArchiveTypeOK, DeliveryRow
  <2>2. CASE w \in Msg
    <3>1. w = row[1]
      BY <1>1, <1>3, <2>2 DEF InTime, FirstAttempts
    <3>2. OnRow(row[1], row) /\ ~OnRow(row[1], row)'
      BY <1>0, <1>1, <1>3, <3>1 DEF OnRow
    <3>3. Spent(row) = before + 1 /\ Spent(row)' = after
      BY <2>1, <3>2 DEF Spent
    <3>4. QED
      BY <2>1, <3>3 DEF SpentStep
  <2>3. CASE w = Sweeper
    <3>1. Fresh(row, job[Sweeper].attempts) /\ job[Sweeper].attempts \in Nat
      BY <1>1, <1>3, <2>3, MarkedRow DEF InTime, SnapshotsFresh, Job
    <3>2. OnRow(row[1], row)' => OnRow(row[1], row)
      BY <1>0, <1>1 DEF OnRow
    <3>3. Spent(row) \in Nat /\ Spent(row)' <= Spent(row) + 1
      BY <2>1, <3>2 DEF Spent
    <3>4. Spent(row)' \in Nat
      BY <2>1 DEF Spent
    <3>5. Spent(row)' <= MaxAttempts + 1
      BY <1>0, <3>1, <3>3, <3>4 DEF Fresh
    <3>6. \A item \in batch' : item.row # row
      BY <1>1, <1>3, <2>3 DEF Mark, handlerVars, InTime, SweptOnce
    <3>7. ~OnRow(Sweeper, row)'
      BY <1>1, <2>3 DEF OnRow
    <3>8. QED
      BY <3>5, <3>6, <3>7 DEF SpentStep
  <2>4. QED
    BY <2>2, <2>3 DEF Worker
<1>4. QED
  BY <1>2, <1>3

\* What every step does to the budget of a row.
LEMMA SpentSteps ==
    ASSUME TypeOK, Grounded, InTime, [Next]_vars, NEW row \in Row
    PROVE  SpentStep(row)
<1> USE DEF TypeOK
<1>0. row[1] \in Msg /\ row[1] \in Worker /\ row[1] # Sweeper /\ MaxAttempts \in Nat
  BY MaxAttemptsAssumption, SweeperAssumption DEF Row, Worker
<1>1. CASE Quiet
  BY <1>0, <1>1, SpentKept DEF Quiet, OnRow
<1>2. ASSUME NEW m \in Msg, Dispatch(m) PROVE SpentStep(row)
  <2>1. PICK r \in todo[m] :
          /\ <<m, r>> \in Row /\ <<m, r>>[1] = m
          /\ job[m] = NoJob
          /\ \A other \in Row : other # <<m, r>> => deliveries'[other] = deliveries[other]
          /\ HasRow(<<m, r>>) => /\ deliveries'[<<m, r>>] = deliveries[<<m, r>>]
                                 /\ job' = job
          /\ ~HasRow(<<m, r>>) =>
                 /\ deliveries'[<<m, r>>].attempts = 0
                 /\ job' = [job EXCEPT ![m] = IF Allowed(<<m, r>>)
                                              THEN Attempt(<<m, r>>, 0, 0) ELSE NoJob]
          /\ batch' = batch
    BY <1>2, DispatchedRow
  <2> DEFINE own == <<m, r>>
  <2>2. Attempt(own, 0, 0).row = own
    BY DEF Attempt
  <2>3. CASE HasRow(own)
    <3>1. deliveries'[row].attempts = deliveries[row].attempts
      BY <2>1, <2>3
    <3>2. OnRow(row[1], row)' => OnRow(row[1], row)
      BY <2>1, <2>3 DEF OnRow
    <3>3. QED
      BY <3>1, <3>2, SpentKept
  <2>4. CASE ~HasRow(own) /\ row # own
    <3>1. OnRow(row[1], row)' => OnRow(row[1], row)
      BY <1>0, <2>1, <2>2, <2>4 DEF OnRow
    <3>2. QED
      BY <2>1, <2>4, <3>1, SpentKept
  <2>5. CASE ~HasRow(own) /\ row = own
    <3>1. Spent(row)' <= MaxAttempts + 1
      BY <1>0, <2>1, <2>5, MaxAttemptsAssumption DEF Spent
    <3>2. \A item \in batch' : item.row # row
      BY <2>1, <2>5 DEF Grounded, BatchGrounded
    <3>3. Sweeper \in Worker /\ Sweeper # m
      BY SweeperAssumption DEF Worker
    <3>4. ~OnRow(Sweeper, row)'
      <4>1. job'[Sweeper] = job[Sweeper]
        BY <2>1, <2>5, <3>3
      <4>2. ~HasRow(row)
        BY <2>5
      <4>3. job[Sweeper] # NoJob => job[Sweeper].row # row
        BY <3>3, <4>2 DEF Grounded, JobsGrounded
      <4>4. QED
        BY <4>1, <4>3 DEF OnRow
    <3>5. QED
      BY <3>1, <3>2, <3>4 DEF SpentStep
  <2>6. QED
    BY <2>3, <2>4, <2>5
<1>3. ASSUME NEW w \in Worker, Accept(w) \/ Ends(w) PROVE SpentStep(row)
  <2>1. deliveries' = deliveries
    BY <1>3, EndedRequest DEF Accept, archiveVars
  <2>2. OnRow(row[1], row)' => OnRow(row[1], row)
    <3>1. CASE Accept(w)
      BY <1>0, <3>1 DEF Accept, Working, Job, OnRow
    <3>2. CASE Ends(w)
      <4>1. PICK outcome :
              job' = [job EXCEPT ![w] = [job[w] EXCEPT !.pc = "mark", !.outcome = outcome]]
        BY <3>2, EndedRequest
      <4>2. job[w] \in Job /\ job[w] # NoJob
        BY <3>2, EndedRequest
      <4>3. QED
        BY <1>0, <4>1, <4>2 DEF Job, OnRow
    <3>3. QED
      BY <1>3, <3>1, <3>2
  <2>3. QED
    BY <2>1, <2>2, SpentKept
<1>4. ASSUME NEW w \in Worker, Mark(w) PROVE SpentStep(row)
  BY <1>4, MarkSpends
<1>5. ASSUME SweepRead \/ \E item \in batch : SweepTake(item) PROVE SpentStep(row)
  BY <1>0, <1>5, SpentKept DEF SweepRead, SweepTake, archiveVars, OnRow
<1>6. ASSUME NEW other \in Row, Backoff(other) PROVE SpentStep(row)
  <2>1. deliveries'[row].attempts = deliveries[row].attempts
    BY <1>6 DEF Backoff, BackoffElapses, ArchiveTypeOK, DeliveryRow
  <2>2. QED
    BY <1>6, <2>1, SpentKept DEF Backoff, OnRow
<1>7. QED
  BY <1>1, <1>2, <1>3, <1>4, <1>5, <1>6, StepKinds

\* No step overruns the budget, nor ages a snapshot past the fan-out's attempt.
LEMMA NextInTime ==
    ASSUME TypeOK, Grounded, InTime, [Next]_vars
    PROVE  InTime'
<1> USE DEF TypeOK
<1>0. MaxAttempts \in Nat /\ Sweeper \in Worker /\ Sweeper \notin Msg
  BY MaxAttemptsAssumption, SweeperAssumption DEF Worker
<1>1. FirstAttempts' /\ SweptOnce'
  BY NextOnce DEF InTime
<1>2. \A row \in Row : /\ Spent(row) \in Nat /\ Spent(row)' \in Nat
                       /\ deliveries[row].attempts \in Nat
                       /\ deliveries'[row].attempts \in Nat
  BY NextTypes DEF Spent, ArchiveTypeOK, DeliveryRow
<1>3. Budgeted'
  <2>1. SUFFICES ASSUME NEW row \in Row PROVE Spent(row)' <= MaxAttempts + 1
    BY DEF Budgeted
  <2>2. Spent(row) <= MaxAttempts + 1
    BY DEF InTime, Budgeted
  <2>3. QED
    BY <1>0, <1>2, <2>2, SpentSteps DEF SpentStep
<1>4. ASSUME NEW row \in Row, NEW attempts \in Nat, Fresh(row, attempts),
             ~ (\A item \in batch' : item.row # row) \/ OnRow(Sweeper, row)'
      PROVE  Fresh(row, attempts)'
  <2>1. /\ Spent(row)' <= Spent(row)
        /\ deliveries[row].attempts <= deliveries'[row].attempts
    BY <1>4, SpentSteps DEF SpentStep
  <2>2. QED
    BY <1>0, <1>2, <1>4, <2>1 DEF Fresh
<1>5. ASSUME NEW item \in batch' PROVE Fresh(item.row, item.attempts)
  <2>1. CASE batch' \subseteq batch
    BY <2>1 DEF InTime, SnapshotsFresh
  <2>2. CASE SweepRead
    <3>1. /\ item.row \in Row
          /\ item.attempts = deliveries[item.row].attempts
          /\ item.attempts < MaxAttempts
      BY <2>2, ReadSnapshot
    <3>2. QED
      BY <1>0, <1>2, <3>1 DEF Fresh, Spent
  <2>3. QED
    BY <2>1, <2>2, BatchSteps
<1>6. ASSUME NEW row \in Row, NEW attempts \in Nat, job'[Sweeper] # NoJob,
             row = job'[Sweeper].row, attempts = job'[Sweeper].attempts
      PROVE  Fresh(row, attempts)
  BY <1>0, <1>6, JobSteps DEF JobStep, InTime, SnapshotsFresh
<1>7. ASSUME NEW item \in batch' PROVE Fresh(item.row, item.attempts)'
  <2>1. item.row \in Row /\ item.attempts \in Nat
    BY NextTypes DEF Item
  <2>2. QED
    BY <1>4, <1>5, <2>1
<1>8. ASSUME NEW row \in Row, NEW attempts \in Nat, job'[Sweeper] # NoJob,
             row = job'[Sweeper].row, attempts = job'[Sweeper].attempts
      PROVE  Fresh(row, attempts)'
  <2>1. OnRow(Sweeper, row)'
    BY <1>8 DEF OnRow
  <2>2. QED
    BY <1>4, <1>6, <1>8, <2>1
<1>9. SnapshotsFresh'
  <2>1. job'[Sweeper] # NoJob
            => job'[Sweeper].row \in Row /\ job'[Sweeper].attempts \in Nat
    BY <1>0, NextTypes DEF Job
  <2>2. QED
    BY <1>7, <1>8, <2>1 DEF SnapshotsFresh
<1>10. QED
  BY <1>1, <1>3, <1>9 DEF InTime

\* An idle process has spent nothing.
LEMMA InitInTime == Init => InTime
<1>1. 0 + 0 <= MaxAttempts + 1
  BY MaxAttemptsAssumption
<1>2. \A m \in Msg : m \in Worker
  BY DEF Worker
<1>3. QED
  BY <1>1, <1>2
  DEF Init, ArchiveInit, NoDelivery, NoJobs, InTime, FirstAttempts, SweptOnce,
      SnapshotsFresh, Budgeted, Spent, OnRow, Row, Worker

\* The budget is kept whatever the two views of a counter are.
LEMMA InTimeAlways == Spec => []InTime
<1>1. TypeOK /\ Grounded /\ InTime /\ [Next]_vars => InTime'
  BY NextInTime
<1>2. QED
  BY <1>1, InitInTime, TypeCorrect, GroundedAlways, PTL DEF Spec

\* The overlap of a first attempt and a sweep costs one attempt beyond the
\* budget, and no longer sequence of them costs more.
THEOREM AttemptsAreBounded == Spec => []AttemptsBounded
<1>1. TypeOK /\ InTime => AttemptsBounded
  <2>1. SUFFICES ASSUME TypeOK, InTime, NEW row \in Row
                 PROVE  deliveries[row].attempts <= MaxAttempts + 1
    BY DEF AttemptsBounded
  <2>2. Spent(row) <= MaxAttempts + 1
    BY <2>1 DEF InTime, Budgeted
  <2>3. deliveries[row].attempts \in Nat /\ MaxAttempts \in Nat
    BY <2>1, MaxAttemptsAssumption DEF TypeOK, ArchiveTypeOK, DeliveryRow
  <2>4. QED
    BY <2>2, <2>3 DEF Spent
<1>2. QED
  BY <1>1, TypeCorrect, InTimeAlways, PTL

\* A row becomes FAILED for a refusal, or when the statement counts the last
\* attempt of the budget.
LEMMA FailedStep ==
    ASSUME TypeOK, InTime, [Next]_vars, NEW row \in Row,
           deliveries'[row].status = "FAILED", deliveries[row].status # "FAILED"
    PROVE  \/ deliveries'[row].attempts >= MaxAttempts
           \/ \E w \in Worker : OnRow(w, row) /\ Idle(w)' /\ job[w].outcome = "permanent"
<1> USE DEF TypeOK
<1>1. ASSUME NEW w \in Worker, Mark(w)
      PROVE  \/ deliveries'[row].attempts >= MaxAttempts
             \/ OnRow(w, row) /\ Idle(w)' /\ job[w].outcome = "permanent"
  <2>1. /\ job[w] \in Job /\ job[w] # NoJob /\ job[w].row = row
        /\ deliveries[row] \in DeliveryRow
    BY <1>1, MarkedRow DEF ArchiveTypeOK
  <2>2. /\ MarkAttemptFailed(row, job[w].attempts, job[w].outcome = "retryable")
        /\ job[w].outcome \in {"retryable", "permanent"}
    BY <1>1, <2>1 DEF Mark, RecordOutcome, MarkDelivered, MarkSkipped, ArchiveTypeOK, DeliveryRow
  <2>3. Exhausted(job[w].attempts, job[w].outcome = "retryable")
    BY <2>2 DEF MarkAttemptFailed, ArchiveTypeOK
  <2>4. CASE job[w].outcome = "permanent"
    BY <1>1, <2>1, <2>4, MarkedRow DEF OnRow, Idle
  <2>5. CASE job[w].outcome = "retryable"
    <3>1. job[w].attempts + 1 >= MaxAttempts
      BY <2>3, <2>5 DEF Exhausted
    <3>2. job[w].attempts <= deliveries[row].attempts
      <4>1. CASE w \in Msg
        BY <2>1, <4>1 DEF InTime, FirstAttempts, DeliveryRow
      <4>2. CASE w = Sweeper
        BY <2>1, <4>2 DEF InTime, SnapshotsFresh, Fresh
      <4>3. QED
        BY <4>1, <4>2 DEF Worker
    <3>3. deliveries'[row].attempts = deliveries[row].attempts + 1
      BY <2>2 DEF MarkAttemptFailed, ArchiveTypeOK
    <3>4. job[w].attempts \in Nat /\ deliveries[row].attempts \in Nat /\ MaxAttempts \in Nat
      BY <2>1, MaxAttemptsAssumption DEF Job, DeliveryRow
    <3>5. QED
      BY <3>1, <3>2, <3>3, <3>4
  <2>6. QED
    BY <2>2, <2>4, <2>5
<1>2. ASSUME NEW m \in Msg, Dispatch(m) PROVE FALSE
  BY <1>2, DispatchedRow
<1>3. ASSUME NEW w \in Worker, Accept(w) \/ Ends(w) PROVE FALSE
  BY <1>3, EndedRequest DEF Accept, archiveVars
<1>4. ASSUME Quiet \/ SweepRead \/ \E item \in batch : SweepTake(item) PROVE FALSE
  BY <1>4 DEF Quiet, SweepRead, SweepTake, archiveVars
<1>5. ASSUME NEW other \in Row, Backoff(other) PROVE FALSE
  BY <1>5 DEF Backoff, BackoffElapses, ArchiveTypeOK, DeliveryRow
<1>6. QED
  BY <1>1, <1>2, <1>3, <1>4, <1>5, StepKinds

\* Although it is decided on the caller's counter, FAILED never means less than
\* what db.py says.
THEOREM FailuresAreEarned == Spec => FailedIsEarned
<1>1. TypeOK /\ InTime /\ [Next]_vars
        => [\A row \in Row :
              deliveries'[row].status = "FAILED" /\ deliveries[row].status # "FAILED"
                  => \/ deliveries'[row].attempts >= MaxAttempts
                     \/ \E w \in Worker : /\ OnRow(w, row) /\ Idle(w)'
                                          /\ job[w].outcome = "permanent"]_vars
  BY FailedStep
<1>2. QED
  BY <1>1, TypeCorrect, InTimeAlways, PTL DEF Spec, FailedIsEarned

-----------------------------------------------------------------------------
(* What is left of a success. *)

\* Whoever still holds a delivered row has read its counter before the success was
\* counted: jobs, and what a sweep has ahead.
Superseded ==
    \A row \in Row :
        deliveries[row].status = "DELIVERED" =>
            /\ deliveries[row].attempts > 0
            /\ \A w \in Worker :
                  OnRow(w, row) => job[w].attempts < deliveries[row].attempts
            /\ \A item \in batch :
                  item.row = row => item.attempts < deliveries[row].attempts

\* No task is ahead of the counter of the row it holds.
LEMMA ViewsLag ==
    ASSUME TypeOK, InTime, NEW row \in Row
    PROVE  /\ deliveries[row].attempts \in Nat
           /\ \A w \in Worker :
                 OnRow(w, row) => job[w].attempts \in Nat
                                  /\ job[w].attempts <= deliveries[row].attempts
           /\ \A item \in batch :
                 item.row = row => item.attempts \in Nat
                                   /\ item.attempts <= deliveries[row].attempts
<1> USE DEF TypeOK
<1>1. deliveries[row].attempts \in Nat
  BY DEF ArchiveTypeOK, DeliveryRow
<1>2. ASSUME NEW w \in Worker, OnRow(w, row)
      PROVE  job[w].attempts \in Nat /\ job[w].attempts <= deliveries[row].attempts
  <2>1. job[w] \in Job /\ job[w] # NoJob /\ job[w].row = row
    BY <1>2 DEF OnRow
  <2>2. job[w].attempts \in Nat
    BY <2>1 DEF Job
  <2>3. CASE w \in Msg
    BY <1>1, <2>1, <2>3 DEF InTime, FirstAttempts
  <2>4. CASE w = Sweeper
    <3>1. Fresh(row, job[w].attempts)
      BY <2>1, <2>4 DEF InTime, SnapshotsFresh
    <3>2. QED
      BY <2>2, <3>1 DEF Fresh
  <2>5. QED
    BY <2>2, <2>3, <2>4 DEF Worker
<1>3. ASSUME NEW item \in batch, item.row = row
      PROVE  item.attempts \in Nat /\ item.attempts <= deliveries[row].attempts
  BY <1>3 DEF Item, InTime, SnapshotsFresh, Fresh
<1>4. QED
  BY <1>1, <1>2, <1>3

\* A row that exists changes its status and its counter by a mark alone.
LEMMA OnlyMarks ==
    ASSUME TypeOK, [Next]_vars, NEW row \in Row, HasRow(row)
    PROVE  \/ \E w \in Worker : Mark(w) /\ job[w].row = row
           \/ /\ deliveries'[row].status = deliveries[row].status
              /\ deliveries'[row].attempts = deliveries[row].attempts
<1> USE DEF TypeOK
<1>1. ASSUME NEW m \in Msg, Dispatch(m) PROVE deliveries'[row] = deliveries[row]
  <2>1. PICK r \in todo[m] :
          /\ \A other \in Row : other # <<m, r>> => deliveries'[other] = deliveries[other]
          /\ HasRow(<<m, r>>) => deliveries'[<<m, r>>] = deliveries[<<m, r>>]
    BY <1>1, DispatchedRow
  <2>2. QED
    BY <2>1
<1>2. ASSUME NEW w \in Worker, Accept(w) \/ Ends(w) PROVE deliveries' = deliveries
  BY <1>2, EndedRequest DEF Accept, archiveVars
<1>3. ASSUME NEW w \in Worker, Mark(w), job[w].row # row
      PROVE  deliveries'[row] = deliveries[row]
  BY <1>3, MarkedRow
<1>4. ASSUME Quiet \/ SweepRead \/ \E item \in batch : SweepTake(item)
      PROVE  deliveries' = deliveries
  BY <1>4 DEF Quiet, SweepRead, SweepTake, archiveVars
<1>5. ASSUME NEW other \in Row, Backoff(other)
      PROVE  /\ deliveries'[row].status = deliveries[row].status
             /\ deliveries'[row].attempts = deliveries[row].attempts
  BY <1>5 DEF Backoff, BackoffElapses, ArchiveTypeOK, DeliveryRow
<1>6. QED
  BY <1>1, <1>2, <1>3, <1>4, <1>5, StepKinds

\* Nobody takes up a delivered row again.
LEMMA NextHolders ==
    ASSUME TypeOK, InTime, Superseded, [Next]_vars,
           NEW row \in Row, deliveries[row].status = "DELIVERED"
    PROVE  /\ \A w \in Worker :
                 OnRow(w, row)' => job'[w].attempts < deliveries[row].attempts
           /\ \A item \in batch' :
                 item.row = row => item.attempts < deliveries[row].attempts
<1>1. /\ deliveries[row].attempts > 0
      /\ \A w \in Worker : OnRow(w, row) => job[w].attempts < deliveries[row].attempts
      /\ \A item \in batch : item.row = row => item.attempts < deliveries[row].attempts
  BY DEF Superseded
<1>2. ASSUME NEW w \in Worker, OnRow(w, row)'
      PROVE  job'[w].attempts < deliveries[row].attempts
  <2>1. JobStep(w)
    BY JobSteps
  <2>2. QED
    BY <1>1, <1>2, <2>1 DEF JobStep, OnRow
<1>3. CASE batch' \subseteq batch
  BY <1>1, <1>2, <1>3
<1>4. CASE SweepRead
  <2>1. PICK rows \in SUBSET DueRows :
           batch' = {[row      |-> due,
                      attempts |-> deliveries[due].attempts,
                      text     |-> messages[due[1]].text] : due \in rows}
    BY <1>4 DEF SweepRead
  <2>2. \A item \in batch' : item.row # row
    BY <2>1 DEF DueRows
  <2>3. QED
    BY <1>2, <2>2
<1>5. QED
  BY <1>3, <1>4, BatchSteps

\* A success outruns every view of the row, and stays ahead of them.
LEMMA NextSuperseded ==
    ASSUME TypeOK, Grounded, InTime, Superseded, [Next]_vars
    PROVE  Superseded'
<1> USE DEF TypeOK
<1>1. SUFFICES ASSUME NEW row \in Row, deliveries'[row].status = "DELIVERED"
               PROVE  /\ deliveries'[row].attempts > 0
                      /\ \A w \in Worker :
                            OnRow(w, row)' => job'[w].attempts < deliveries'[row].attempts
                      /\ \A item \in batch' :
                            item.row = row => item.attempts < deliveries'[row].attempts
  BY DEF Superseded
<1>2. deliveries[row].attempts \in Nat /\ deliveries'[row].attempts \in Nat
  BY NextTypes DEF ArchiveTypeOK, DeliveryRow
<1>3. CASE deliveries[row].status = "DELIVERED"
  <2>1. HasRow(row)
    BY <1>3 DEF HasRow
  <2>2. deliveries'[row].attempts >= deliveries[row].attempts
    <3>1. ASSUME NEW w \in Worker, Mark(w), job[w].row = row
          PROVE  deliveries'[row].attempts \in {deliveries[row].attempts,
                                                deliveries[row].attempts + 1}
      BY <3>1, MarkedRow
    <3>2. QED
      BY <1>2, <2>1, <3>1, OnlyMarks
  <2>3. /\ deliveries[row].attempts > 0
        /\ \A w \in Worker :
              OnRow(w, row)' => job'[w].attempts < deliveries[row].attempts
        /\ \A item \in batch' :
              item.row = row => item.attempts < deliveries[row].attempts
    BY <1>3, NextHolders DEF Superseded
  <2>4. /\ \A w \in Worker : OnRow(w, row)' => job'[w].attempts \in Nat
        /\ \A item \in batch' : item.attempts \in Nat
    BY NextTypes DEF OnRow, Job, Item
  <2>5. QED
    BY <1>2, <2>2, <2>3, <2>4
<1>4. CASE deliveries[row].status # "DELIVERED"
  <2>1. HasRow(row)
    <3>1. ASSUME NEW m \in Msg, Dispatch(m), ~HasRow(row)
          PROVE  FALSE
      BY <1>1, <1>4, <3>1, DispatchedRow
    <3>2. ASSUME NEW w \in Worker, Mark(w), ~HasRow(row)
          PROVE  FALSE
      <4>1. job[w].row # row
        BY <3>2, MarkedRow DEF Grounded, JobsGrounded
      <4>2. QED
        BY <1>1, <1>4, <3>2, <4>1, MarkedRow
    <3>3. ASSUME NEW w \in Worker, Accept(w) \/ Ends(w) PROVE FALSE
      BY <1>1, <1>4, <3>3, EndedRequest DEF Accept, archiveVars
    <3>4. ASSUME Quiet \/ SweepRead \/ \E item \in batch : SweepTake(item) PROVE FALSE
      BY <1>1, <1>4, <3>4 DEF Quiet, SweepRead, SweepTake, archiveVars
    <3>5. ASSUME NEW other \in Row, Backoff(other) PROVE FALSE
      BY <1>1, <1>4, <3>5 DEF Backoff, BackoffElapses, ArchiveTypeOK, DeliveryRow
    <3>6. QED
      BY <3>1, <3>2, <3>3, <3>4, <3>5, StepKinds
  <2>2. PICK w \in Worker : Mark(w) /\ job[w].row = row
    BY <1>1, <1>4, <2>1, OnlyMarks
  <2>3. job[w].outcome = "sent"
    BY <1>1, <1>4, <2>2, MarkedRow
    DEF Mark, RecordOutcome, MarkSkipped, MarkAttemptFailed, ArchiveTypeOK, DeliveryRow
  <2>4. /\ deliveries'[row].attempts = deliveries[row].attempts + 1
        /\ job' = [job EXCEPT ![w] = NoJob]
        /\ batch' = batch
    BY <2>2, <2>3, MarkedRow DEF Mark, handlerVars
  <2>5. \A v \in Worker : OnRow(v, row)' => OnRow(v, row) /\ job'[v] = job[v]
    BY <2>4 DEF OnRow
  <2>6. QED
    BY <1>2, <2>4, <2>5, ViewsLag
<1>5. QED
  BY <1>3, <1>4

\* However many sweeps, replays and restarts follow, a DELIVERED row is written
\* again only by an attempt that was under way, or in a snapshot, when the success
\* was counted.
THEOREM SuccessesAreKept == Spec => DeliveredKept
<1>1. Init => Superseded
  BY DEF Init, ArchiveInit, NoDelivery, Superseded
<1>2. TypeOK /\ Grounded /\ InTime /\ Superseded /\ [Next]_vars => Superseded'
  BY NextSuperseded
<1>3. TypeOK /\ Superseded /\ [Next]_vars
        => [\A row \in Row :
              deliveries[row].status = "DELIVERED" /\ deliveries'[row].status # "DELIVERED"
                  => \E w \in Worker : /\ OnRow(w, row) /\ Idle(w)'
                                      /\ job[w].attempts < deliveries[row].attempts]_vars
  <2>1. SUFFICES ASSUME TypeOK, Superseded, [Next]_vars, NEW row \in Row,
                        deliveries[row].status = "DELIVERED",
                        deliveries'[row].status # "DELIVERED"
                 PROVE  \E w \in Worker : /\ OnRow(w, row) /\ Idle(w)'
                                         /\ job[w].attempts < deliveries[row].attempts
    OBVIOUS
  <2>2. PICK w \in Worker : Mark(w) /\ job[w].row = row
    BY <2>1, OnlyMarks DEF HasRow
  <2>3. OnRow(w, row) /\ Idle(w)'
    BY <2>1, <2>2, MarkedRow DEF OnRow, Idle, TypeOK
  <2>4. QED
    BY <2>1, <2>3 DEF Superseded
<1>4. QED
  BY <1>1, <1>2, <1>3, TypeCorrect, GroundedAlways, InTimeAlways, PTL DEF Spec, DeliveredKept

-----------------------------------------------------------------------------
(* Copies. *)

\* A worker that knows, or will be told, that the webhook took the message.
TakenKnown ==
    \A w \in Worker :
        job[w] # NoJob /\ (job[w].pc = "accepted" \/ job[w].outcome = "sent")
            => copies[job[w].row] > 0

\* What is owed to the counter of a row: an attempt that is over, or that the
\* webhook has taken, and is not counted yet.
Owed(w, row) ==
    IF OnRow(w, row) /\ (\/ job[w].pc = "accepted"
                         \/ job[w].pc = "mark" /\ job[w].outcome # "blank")
    THEN 1 ELSE 0

Counted ==
    \A row \in Row :
        copies[row] <= deliveries[row].attempts + Owed(row[1], row) + Owed(Sweeper, row)
                       + 2 * faults

Accounted == TakenKnown /\ DeliveredMeansCopied /\ Counted

\* Copies are never taken back.
LEMMA CopiesStay ==
    ASSUME TypeOK, [Next]_vars, NEW row \in Row
    PROVE  copies'[row] \in Nat /\ copies'[row] >= copies[row]
<1> USE DEF TypeOK
<1>1. ASSUME NEW m \in Msg, Dispatch(m) PROVE copies' = copies
  BY <1>1 DEF Dispatch
<1>2. ASSUME NEW w \in Worker, Accept(w) PROVE copies'[row] >= copies[row]
  BY <1>2 DEF Accept
<1>3. ASSUME NEW w \in Worker, Ends(w) \/ Mark(w) PROVE copies' = copies
  BY <1>3, EndedRequest DEF Mark
<1>4. ASSUME \/ Quiet \/ SweepRead
             \/ \E item \in batch : SweepTake(item)
             \/ \E other \in Row : Backoff(other)
      PROVE  copies' = copies
  BY <1>4 DEF Quiet, SweepRead, SweepTake, Backoff
<1>5. copies'[row] \in Nat /\ copies[row] \in Nat
  BY NextTypes
<1>6. QED
  BY <1>1, <1>2, <1>3, <1>4, <1>5, StepKinds

\* A worker knows of a copy only after the webhook took the message.
LEMMA NextTaken ==
    ASSUME TypeOK, TakenKnown, [Next]_vars
    PROVE  TakenKnown'
<1> USE DEF TypeOK
<1>1. SUFFICES ASSUME NEW w \in Worker, job'[w] # NoJob,
                      job'[w].pc = "accepted" \/ job'[w].outcome = "sent"
               PROVE  copies'[job'[w].row] > 0
  BY DEF TakenKnown
<1>2. job'[w] \in Job /\ job'[w].row \in Row
  <2>1. job'[w] \in Job
    BY <1>1, NextTypes
  <2>2. QED
    BY <2>1 DEF Job
<1>3. \A row \in Row : copies[row] \in Nat /\ copies'[row] \in Nat /\ copies'[row] >= copies[row]
  BY CopiesStay
<1>4. ASSUME job'[w] = job[w] PROVE copies'[job'[w].row] > 0
  BY <1>1, <1>2, <1>3, <1>4 DEF TakenKnown
<1>5. \A row, attempts, text :
        LET new == Attempt(row, attempts, text)
        IN  new.pc # "accepted" /\ new.outcome # "sent"
  BY DEF Attempt
<1>6. ASSUME NEW m \in Msg, Dispatch(m) PROVE copies'[job'[w].row] > 0
  <2>1. PICK r \in todo[m] :
           \/ job' = job
           \/ job' = [job EXCEPT ![m] = IF Allowed(<<m, r>>)
                                        THEN Attempt(<<m, r>>, 0, 0) ELSE NoJob]
    BY <1>6, DispatchedRow
  <2>2. QED
    BY <1>1, <1>4, <1>5, <2>1
<1>7. ASSUME NEW v \in Worker, Accept(v) PROVE copies'[job'[w].row] > 0
  <2>1. CASE v = w
    <3>1. job[w] \in Job /\ job[w].row \in Row
      BY <1>7, <2>1 DEF Accept, Working, Job
    <3>2. copies'[job[w].row] = copies[job[w].row] + 1
      BY <1>7, <2>1, <3>1 DEF Accept
    <3>3. job'[w].row = job[w].row
      BY <1>7, <2>1, <3>1 DEF Accept, Job
    <3>4. QED
      BY <1>3, <3>1, <3>2, <3>3
  <2>2. CASE v # w
    BY <1>4, <1>7, <2>2 DEF Accept
  <2>3. QED
    BY <2>1, <2>2
<1>8. ASSUME NEW v \in Worker, Ends(v) PROVE copies'[job'[w].row] > 0
  <2>1. PICK outcome :
          /\ job' = [job EXCEPT ![v] = [job[v] EXCEPT !.pc = "mark", !.outcome = outcome]]
          /\ outcome = "sent" => job[v].pc = "accepted"
    BY <1>8, EndedRequest
  <2>2. CASE v = w
    <3>1. job[w] \in Job /\ job[w] # NoJob
      BY <1>8, <2>2, EndedRequest
    <3>2. job'[w].pc = "mark" /\ job'[w].outcome = outcome /\ job'[w].row = job[w].row
      BY <2>1, <2>2, <3>1 DEF Job
    <3>3. copies[job[w].row] > 0
      BY <1>1, <2>1, <2>2, <3>1, <3>2 DEF TakenKnown
    <3>4. QED
      BY <1>2, <1>3, <3>2, <3>3
  <2>3. CASE v # w
    BY <1>4, <2>1, <2>3
  <2>4. QED
    BY <2>2, <2>3
<1>9. ASSUME NEW item \in batch, SweepTake(item) PROVE copies'[job'[w].row] > 0
  BY <1>1, <1>4, <1>5, <1>9 DEF SweepTake
<1>10. ASSUME NEW v \in Worker, Mark(v) PROVE copies'[job'[w].row] > 0
  BY <1>1, <1>4, <1>10 DEF Mark
<1>11. ASSUME Quiet \/ SweepRead \/ \E row \in Row : Backoff(row)
       PROVE  copies'[job'[w].row] > 0
  BY <1>1, <1>4, <1>11 DEF Quiet, SweepRead, Backoff
<1>12. QED
  BY <1>6, <1>7, <1>8, <1>9, <1>10, <1>11, StepKinds

\* Only a worker that knows of a copy marks a row DELIVERED.
LEMMA NextDelivered ==
    ASSUME TypeOK, TakenKnown, DeliveredMeansCopied, [Next]_vars
    PROVE  DeliveredMeansCopied'
<1> USE DEF TypeOK
<1>1. SUFFICES ASSUME NEW row \in Row, deliveries'[row].status = "DELIVERED"
               PROVE  copies'[row] > 0
  BY DEF DeliveredMeansCopied
<1>2. copies[row] \in Nat /\ copies'[row] \in Nat /\ copies'[row] >= copies[row]
  BY CopiesStay
<1>3. ASSUME deliveries'[row].status = deliveries[row].status PROVE copies'[row] > 0
  BY <1>1, <1>2, <1>3 DEF DeliveredMeansCopied
<1>4. ASSUME NEW w \in Worker, Mark(w) PROVE copies'[row] > 0
  <2>1. CASE row # job[w].row
    BY <1>3, <1>4, <2>1, MarkedRow
  <2>2. CASE row = job[w].row
    <3>1. job[w] # NoJob /\ RecordOutcome(job[w])
      BY <1>4, MarkedRow DEF Mark
    <3>2. job[w].outcome = "sent"
      BY <1>1, <2>2, <3>1
      DEF RecordOutcome, MarkSkipped, MarkAttemptFailed, ArchiveTypeOK, DeliveryRow
    <3>3. QED
      BY <1>2, <2>2, <3>1, <3>2 DEF TakenKnown
  <2>3. QED
    BY <2>1, <2>2
<1>5. ASSUME NEW m \in Msg, Dispatch(m) PROVE copies'[row] > 0
  BY <1>1, <1>3, <1>5, DispatchedRow
<1>6. ASSUME NEW w \in Worker, Accept(w) \/ Ends(w) PROVE copies'[row] > 0
  BY <1>3, <1>6, EndedRequest DEF Accept, archiveVars
<1>7. ASSUME Quiet \/ SweepRead \/ \E item \in batch : SweepTake(item)
      PROVE  copies'[row] > 0
  BY <1>3, <1>7 DEF Quiet, SweepRead, SweepTake, archiveVars
<1>8. ASSUME NEW other \in Row, Backoff(other) PROVE copies'[row] > 0
  BY <1>3, <1>8 DEF Backoff, BackoffElapses, ArchiveTypeOK, DeliveryRow
<1>9. QED
  BY <1>4, <1>5, <1>6, <1>7, <1>8, StepKinds

\* The account of one row.
CountedRow(row) ==
    copies[row] <= deliveries[row].attempts + Owed(row[1], row) + Owed(Sweeper, row)
                   + 2 * faults

\* What is owed is a number.
LEMMA OwedTypes ==
    ASSUME TypeOK, TypeOK', NEW row \in Row
    PROVE  /\ Owed(row[1], row) \in {0, 1} /\ Owed(row[1], row)' \in {0, 1}
           /\ Owed(Sweeper, row) \in {0, 1} /\ Owed(Sweeper, row)' \in {0, 1}
           /\ deliveries[row].attempts \in Nat /\ deliveries'[row].attempts \in Nat
           /\ copies[row] \in Nat /\ copies'[row] \in Nat
           /\ faults \in Nat /\ faults' \in Nat
BY DEF Owed, TypeOK, ArchiveTypeOK, DeliveryRow

\* A mark counts what was owed.
LEMMA MarkCounts ==
    ASSUME TypeOK, TypeOK', FirstAttempts, NEW row \in Row, CountedRow(row),
           NEW w \in Worker, Mark(w)
    PROVE  CountedRow(row)'
<1>t. /\ Owed(row[1], row) \in {0, 1} /\ Owed(row[1], row)' \in {0, 1}
      /\ Owed(Sweeper, row) \in {0, 1} /\ Owed(Sweeper, row)' \in {0, 1}
      /\ deliveries[row].attempts \in Nat /\ deliveries'[row].attempts \in Nat
      /\ copies[row] \in Nat /\ copies'[row] \in Nat
      /\ faults \in Nat /\ faults' \in Nat
  BY OwedTypes
<1> USE DEF TypeOK
<1>0. row[1] \in Worker /\ Sweeper \in Worker /\ row[1] # Sweeper
  BY SweeperAssumption DEF Row, Worker
<1>1. /\ job' = [job EXCEPT ![w] = NoJob] /\ job[w] # NoJob /\ job[w].pc = "mark"
      /\ copies' = copies /\ faults' = faults
  BY DEF Mark, Working
<1>2. CASE row # job[w].row
  <2>1. deliveries'[row] = deliveries[row]
    BY <1>2, MarkedRow
  <2>2. \A v \in Worker : Owed(v, row)' = Owed(v, row)
    BY <1>1, <1>2 DEF Owed, OnRow
  <2>3. QED
    BY <1>0, <1>1, <2>1, <2>2 DEF CountedRow
<1>3. CASE row = job[w].row
  <2>1. w \in {row[1], Sweeper}
    BY <1>1, <1>3 DEF FirstAttempts, Worker
  <2>2. \A v \in Worker : v # w => Owed(v, row)' = Owed(v, row)
    BY <1>1 DEF Owed, OnRow
  <2>3. Owed(w, row)' = 0
    BY <1>1 DEF Owed, OnRow
  <2>4. deliveries'[row].attempts = deliveries[row].attempts + Owed(w, row)
    <3>1. CASE job[w].outcome = "blank"
      <4>1. Owed(w, row) = 0
        BY <1>1, <3>1 DEF Owed
      <4>2. deliveries'[row].attempts = deliveries[row].attempts
        BY <1>3, <3>1, MarkedRow
      <4>3. QED
        BY <4>1, <4>2, <1>t
    <3>2. CASE job[w].outcome # "blank"
      <4>1. Owed(w, row) = 1
        BY <1>1, <1>3, <3>2 DEF Owed, OnRow
      <4>2. QED
        BY <1>3, <3>2, <4>1, MarkedRow
    <3>3. QED
      BY <3>1, <3>2
  <2>5. CASE w = row[1]
    <3>1. Owed(row[1], row)' = 0 /\ Owed(Sweeper, row)' = Owed(Sweeper, row)
      BY <1>0, <2>2, <2>3, <2>5
    <3>2. deliveries'[row].attempts = deliveries[row].attempts + Owed(row[1], row)
      BY <2>4, <2>5
    <3>3. QED
      BY <1>1, <3>1, <3>2, <1>t DEF CountedRow
  <2>6. CASE w = Sweeper
    <3>1. Owed(Sweeper, row)' = 0 /\ Owed(row[1], row)' = Owed(row[1], row)
      BY <1>0, <2>2, <2>3, <2>6
    <3>2. deliveries'[row].attempts = deliveries[row].attempts + Owed(Sweeper, row)
      BY <2>4, <2>6
    <3>3. QED
      BY <1>1, <3>1, <3>2, <1>t DEF CountedRow
  <2>7. QED
    BY <2>1, <2>5, <2>6
<1>4. QED
  BY <1>2, <1>3

\* A request that is taken is owed to the counter.
LEMMA AcceptOwes ==
    ASSUME TypeOK, TypeOK', FirstAttempts, NEW row \in Row, CountedRow(row),
           NEW w \in Worker, Accept(w)
    PROVE  CountedRow(row)'
<1>t. /\ Owed(row[1], row) \in {0, 1} /\ Owed(row[1], row)' \in {0, 1}
      /\ Owed(Sweeper, row) \in {0, 1} /\ Owed(Sweeper, row)' \in {0, 1}
      /\ deliveries[row].attempts \in Nat /\ deliveries'[row].attempts \in Nat
      /\ copies[row] \in Nat /\ copies'[row] \in Nat
      /\ faults \in Nat /\ faults' \in Nat
  BY OwedTypes
<1> USE DEF TypeOK
<1>0. row[1] \in Worker /\ Sweeper \in Worker /\ row[1] # Sweeper
  BY SweeperAssumption DEF Row, Worker
<1>1. job[w] \in Job /\ job[w] # NoJob /\ job[w].pc = "send" /\ job[w].row \in Row
  BY DEF Accept, Working, Job
<1>2. /\ job'[w] # NoJob /\ job'[w].pc = "accepted" /\ job'[w].row = job[w].row
      /\ \A v \in Worker : v # w => job'[v] = job[v]
      /\ deliveries' = deliveries /\ faults' = faults
  BY <1>1, JobsAreBusy DEF Accept, Job, archiveVars
<1>3. \A v \in Worker : v # w => Owed(v, row)' = Owed(v, row)
  BY <1>2 DEF Owed, OnRow
<1>4. CASE row # job[w].row
  <2>1. Owed(w, row)' = Owed(w, row) /\ copies'[row] = copies[row]
    BY <1>1, <1>2, <1>4 DEF Owed, OnRow, Accept
  <2>2. QED
    BY <1>0, <1>2, <1>3, <2>1 DEF CountedRow
<1>5. CASE row = job[w].row
  <2>1. w \in {row[1], Sweeper}
    BY <1>1, <1>5 DEF FirstAttempts, Worker
  <2>2. Owed(w, row) = 0 /\ Owed(w, row)' = 1
    BY <1>1, <1>2, <1>5 DEF Owed, OnRow
  <2>3. copies'[row] = copies[row] + 1
    BY <1>1, <1>5 DEF Accept
  <2>4. CASE w = row[1]
    <3>1. /\ Owed(row[1], row) = 0 /\ Owed(row[1], row)' = 1
          /\ Owed(Sweeper, row)' = Owed(Sweeper, row)
      BY <1>0, <1>3, <2>2, <2>4
    <3>2. QED
      BY <1>2, <2>3, <3>1, <1>t DEF CountedRow
  <2>5. CASE w = Sweeper
    <3>1. /\ Owed(Sweeper, row) = 0 /\ Owed(Sweeper, row)' = 1
          /\ Owed(row[1], row)' = Owed(row[1], row)
      BY <1>0, <1>3, <2>2, <2>5
    <3>2. QED
      BY <1>2, <2>3, <3>1, <1>t DEF CountedRow
  <2>6. QED
    BY <2>1, <2>4, <2>5
<1>6. QED
  BY <1>4, <1>5

\* Where no copy is made and no attempt forgotten, the account holds.
LEMMA CountedKept ==
    ASSUME TypeOK, TypeOK', NEW row \in Row, CountedRow(row),
           copies'[row] = copies[row], faults' >= faults,
           deliveries'[row].attempts = deliveries[row].attempts,
           Owed(row[1], row)' >= Owed(row[1], row),
           Owed(Sweeper, row)' >= Owed(Sweeper, row)
    PROVE  CountedRow(row)'
<1> DEFINE att == deliveries[row].attempts
           o1 == Owed(row[1], row)
           o2 == Owed(Sweeper, row)
<1>1. att \in Nat /\ o1 \in {0, 1} /\ o2 \in {0, 1} /\ o1' \in {0, 1} /\ o2' \in {0, 1}
      /\ copies[row] \in Nat /\ faults \in Nat /\ faults' \in Nat
  BY OwedTypes
<1>2. QED
  BY <1>1 DEF CountedRow

\* The account of a row is a number.
LEMMA AccountIsNatural ==
    ASSUME NEW a \in Nat, NEW b \in {0, 1}, NEW c \in {0, 1}, NEW d \in Nat
    PROVE  0 <= a + b + c + 2 * d
OBVIOUS

\* A fault pays for the two attempts it may hide.
LEMMA FaultPays ==
    ASSUME NEW n \in Nat, NEW a \in Nat, NEW d \in Nat,
           NEW b \in {0, 1}, NEW c \in {0, 1}, NEW e \in {0, 1}, NEW f \in {0, 1},
           n <= a + b + c + 2 * d
    PROVE  n <= a + e + f + 2 * (d + 1)
OBVIOUS

\* What every step does to the account of a row.
LEMMA NextCounted ==
    ASSUME TypeOK, TypeOK', Grounded, FirstAttempts, [Next]_vars, NEW row \in Row, CountedRow(row)
    PROVE  CountedRow(row)'
<1>t. /\ Owed(row[1], row) \in {0, 1} /\ Owed(row[1], row)' \in {0, 1}
      /\ Owed(Sweeper, row) \in {0, 1} /\ Owed(Sweeper, row)' \in {0, 1}
      /\ deliveries[row].attempts \in Nat /\ deliveries'[row].attempts \in Nat
      /\ copies[row] \in Nat /\ copies'[row] \in Nat
      /\ faults \in Nat /\ faults' \in Nat
  BY OwedTypes
<1> USE DEF TypeOK
<1>0. row[1] \in Worker /\ Sweeper \in Worker /\ row[1] # Sweeper
  BY SweeperAssumption DEF Row, Worker
<1>a. ASSUME copies'[row] = copies[row], faults' = faults, job' = job,
             deliveries'[row].attempts = deliveries[row].attempts
      PROVE  CountedRow(row)'
  BY <1>a DEF CountedRow, Owed, OnRow
<1>1. CASE Quiet
  <2>1. CASE UNCHANGED job /\ faults' = faults
    BY <1>1, <1>a, <2>1 DEF Quiet
  <2>2. CASE faults' = faults + 1
    <3>1. copies'[row] = copies[row] /\ deliveries'[row] = deliveries[row]
      BY <1>1 DEF Quiet
    <3>2. copies[row] <= deliveries[row].attempts + Owed(row[1], row)
                         + Owed(Sweeper, row) + 2 * faults
      BY DEF CountedRow
    <3>3. copies[row] <= deliveries[row].attempts + Owed(row[1], row)'
                         + Owed(Sweeper, row)' + 2 * (faults + 1)
      BY <1>t, <3>2, FaultPays
    <3>4. QED
      BY <2>2, <3>1, <3>3 DEF CountedRow
  <2>3. QED
    BY <1>1, <2>1, <2>2 DEF Quiet
<1>2. ASSUME NEW m \in Msg, Dispatch(m) PROVE CountedRow(row)'
  <2>1. PICK r \in todo[m] :
          /\ <<m, r>> \in Row /\ <<m, r>>[1] = m
          /\ job[m] = NoJob
          /\ \A other \in Row : other # <<m, r>> => deliveries'[other] = deliveries[other]
          /\ HasRow(<<m, r>>) => /\ deliveries'[<<m, r>>] = deliveries[<<m, r>>]
                                 /\ job' = job
          /\ ~HasRow(<<m, r>>) =>
                 job' = [job EXCEPT ![m] = IF Allowed(<<m, r>>)
                                           THEN Attempt(<<m, r>>, 0, 0) ELSE NoJob]
          /\ copies' = copies /\ faults' = faults
    BY <1>2, DispatchedRow
  <2>2. CASE HasRow(<<m, r>>)
    BY <1>a, <2>1, <2>2
  <2>3. CASE ~HasRow(<<m, r>>) /\ row # <<m, r>>
    <3>1. \A w \in Worker : w # m => Owed(w, row)' = Owed(w, row)
      BY <2>1, <2>3 DEF Owed, OnRow
    <3>2. Owed(m, row) = 0
      BY <2>1 DEF Owed, OnRow
    <3>3. /\ Owed(row[1], row)' >= Owed(row[1], row)
          /\ Owed(Sweeper, row)' >= Owed(Sweeper, row)
      <4>1. Owed(Sweeper, row)' = Owed(Sweeper, row)
        BY <1>0, <3>1, SweeperAssumption
      <4>2. Owed(row[1], row)' = Owed(row[1], row) \/ Owed(row[1], row) = 0
        BY <1>0, <3>1, <3>2
      <4>3. QED
        BY <4>1, <4>2, <1>t
    <3>4. faults' >= faults /\ copies'[row] = copies[row]
      BY <2>1
    <3>5. deliveries'[row].attempts = deliveries[row].attempts
      BY <2>1, <2>3
    <3>6. QED
      BY <1>0, <3>3, <3>4, <3>5, CountedKept
  <2>4. CASE ~HasRow(<<m, r>>) /\ row = <<m, r>>
    <3>1. copies'[row] = 0
      <4>1. copies'[row] = copies[row]
        BY <2>1
      <4>2. ~HasRow(row)
        BY <2>4
      <4>3. ~(copies[row] > 0)
        BY <4>2 DEF Grounded, CopiesGrounded
      <4>4. QED
        BY <4>1, <4>3, <1>t
    <3>2. 0 <= deliveries'[row].attempts + Owed(row[1], row)' + Owed(Sweeper, row)'
               + 2 * faults'
      BY <1>t, AccountIsNatural
    <3>3. QED
      BY <3>1, <3>2 DEF CountedRow
  <2>5. QED
    BY <2>2, <2>3, <2>4
<1>3. ASSUME NEW w \in Worker, Accept(w) PROVE CountedRow(row)'
  BY <1>3, AcceptOwes
<1>4. ASSUME NEW w \in Worker, Ends(w) PROVE CountedRow(row)'
  <2>1. PICK outcome \in {"sent", "retryable", "permanent"} :
          /\ job' = [job EXCEPT ![w] = [job[w] EXCEPT !.pc = "mark", !.outcome = outcome]]
          /\ UNCHANGED <<deliveries, copies>>
          /\ faults' \in {faults, faults + 1}
    BY <1>4, EndedRequest
  <2>2. job[w] \in Job /\ job[w] # NoJob
    BY <1>4, EndedRequest
  <2>3. /\ job'[w].row = job[w].row
        /\ job'[w].pc = "mark" /\ job'[w].outcome # "blank"
        /\ \A v \in Worker : v # w => job'[v] = job[v]
    BY <2>1, <2>2 DEF Job
  <2>4. \A v \in Worker : v # w => Owed(v, row)' = Owed(v, row)
    BY <2>3 DEF Owed, OnRow
  <2>5. Owed(w, row) = 1 => Owed(w, row)' = 1
    <3>1. job'[w] # NoJob
      BY <2>3 DEF NoJob
    <3>2. QED
      BY <2>3, <3>1 DEF Owed, OnRow
  <2>6. /\ Owed(row[1], row)' >= Owed(row[1], row)
        /\ Owed(Sweeper, row)' >= Owed(Sweeper, row)
    <3>1. \A v \in {row[1], Sweeper} :
            Owed(v, row)' = Owed(v, row) \/ (v = w /\ (Owed(v, row) = 1 => Owed(v, row)' = 1))
      BY <1>0, <2>4, <2>5
    <3>2. QED
      BY <3>1, <1>t
  <2>7. faults' >= faults
    BY <2>1
  <2>8. QED
    BY <1>0, <2>1, <2>6, <2>7, CountedKept
<1>5. ASSUME NEW w \in Worker, Mark(w) PROVE CountedRow(row)'
  BY <1>5, MarkCounts
<1>6. CASE SweepRead
  BY <1>6, <1>a DEF SweepRead, archiveVars
<1>7. ASSUME NEW item \in batch, SweepTake(item) PROVE CountedRow(row)'
  <2>1. /\ \A w \in Worker : w # Sweeper => job'[w] = job[w]
        /\ job[Sweeper] = NoJob
        /\ UNCHANGED <<deliveries, copies, faults>>
    BY <1>7 DEF SweepTake, Idle, archiveVars
  <2>2. Owed(row[1], row)' = Owed(row[1], row) /\ Owed(Sweeper, row) = 0
    BY <1>0, <2>1 DEF Owed, OnRow
  <2>3. /\ Owed(row[1], row)' >= Owed(row[1], row)
        /\ Owed(Sweeper, row)' >= Owed(Sweeper, row)
        /\ faults' >= faults
    BY <2>1, <2>2, <1>t
  <2>4. QED
    BY <2>1, <2>3, CountedKept
<1>8. ASSUME NEW other \in Row, Backoff(other) PROVE CountedRow(row)'
  <2>1. deliveries'[row].attempts = deliveries[row].attempts
    BY <1>8 DEF Backoff, BackoffElapses, ArchiveTypeOK, DeliveryRow
  <2>2. QED
    BY <1>8, <1>a, <2>1 DEF Backoff
<1>9. QED
  BY <1>1, <1>2, <1>3, <1>4, <1>5, <1>6, <1>7, <1>8, StepKinds

\* Nothing is owed at first, and every step keeps the account.
LEMMA AccountedAlways == Spec => [](InTime /\ Accounted)
<1>1. Init => Accounted
  <2>1. 0 <= 0 + 0 + 0 + 2 * 0
    OBVIOUS
  <2>2. \A row \in Row : row[1] \in Worker
    BY DEF Row, Worker
  <2>3. QED
    BY <2>1, <2>2
    DEF Init, ArchiveInit, NoDelivery, NoJobs, Accounted, TakenKnown, DeliveredMeansCopied,
        Counted, Owed, OnRow, Worker
<1>2. TypeOK /\ TypeOK' /\ Grounded /\ InTime /\ Accounted /\ [Next]_vars => Accounted'
  <2>1. SUFFICES ASSUME TypeOK, TypeOK', Grounded, InTime, Accounted, [Next]_vars
                 PROVE  Accounted'
    OBVIOUS
  <2>2. TakenKnown'
    BY <2>1, NextTaken DEF Accounted
  <2>3. DeliveredMeansCopied'
    BY <2>1, NextDelivered DEF Accounted
  <2>4. ASSUME NEW row \in Row PROVE CountedRow(row)'
    BY <2>1, NextCounted DEF InTime, Accounted, Counted, CountedRow
  <2>5. Counted'
    BY <2>4 DEF Counted, CountedRow
  <2>6. QED
    BY <2>2, <2>3, <2>5 DEF Accounted
<1>3. QED
  BY <1>1, <1>2, TypeCorrect, GroundedAlways, InTimeAlways, PTL DEF Spec

\* DELIVERED stands for a copy, whoever writes it.
THEOREM DeliveredIsCopied == Spec => []DeliveredMeansCopied
<1>1. Accounted => DeliveredMeansCopied
  BY DEF Accounted
<1>2. QED
  BY <1>1, AccountedAlways, PTL

\* At most two workers have a row; what they owe its counter is bounded by how
\* many have it.
LEMMA OwedByWorkers ==
    ASSUME TypeOK, NEW row \in Row
    PROVE  LET on == {w \in Worker : OnRow(w, row)}
           IN  /\ Cardinality(on) \in Nat
               /\ Owed(row[1], row) + Owed(Sweeper, row) <= Cardinality(on)
<1> DEFINE on == {w \in Worker : OnRow(w, row)}
           one == Owed(row[1], row)
           other == Owed(Sweeper, row)
<1>0. row[1] \in Worker /\ Sweeper \in Worker /\ row[1] # Sweeper
  BY SweeperAssumption DEF Row, Worker
<1>1. IsFiniteSet(Worker)
  BY MsgAssumption, FS_AddElement DEF Worker
<1>2. IsFiniteSet(on) /\ Cardinality(on) \in Nat
  BY <1>1, FS_Subset, FS_CardinalityType
<1>3. one \in {0, 1} /\ other \in {0, 1}
  BY DEF Owed
<1>4. (one = 1 => row[1] \in on) /\ (other = 1 => Sweeper \in on)
  BY <1>0 DEF Owed
<1>5. ASSUME NEW w \in on PROVE Cardinality(on) >= 1
  <2>1. Cardinality(on) # 0
    BY <1>2, <1>5, FS_EmptySet
  <2>2. QED
    BY <1>2, <2>1
<1>6. ASSUME row[1] \in on, Sweeper \in on PROVE Cardinality(on) >= 2
  <2>1. IsFiniteSet(on \ {Sweeper}) /\ Cardinality(on \ {Sweeper}) = Cardinality(on) - 1
    BY <1>2, <1>6, FS_RemoveElement
  <2>2. row[1] \in on \ {Sweeper}
    BY <1>0, <1>6
  <2>3. Cardinality(on \ {Sweeper}) # 0 /\ Cardinality(on \ {Sweeper}) \in Nat
    BY <2>1, <2>2, FS_EmptySet, FS_CardinalityType
  <2>4. QED
    BY <1>2, <2>1, <2>3
<1>7. one + other <= Cardinality(on)
  BY <1>2, <1>3, <1>4, <1>5, <1>6
<1>8. QED
  BY <1>2, <1>7

\* Copies are counted, up to attempts in flight and what faults hide.
THEOREM CopiesAreAccounted == Spec => []CopiesAccounted
<1>1. TypeOK /\ Accounted => CopiesAccounted
  <2>1. SUFFICES ASSUME TypeOK, Accounted, NEW row \in Row
                 PROVE  copies[row] <= deliveries[row].attempts
                                       + Cardinality({w \in Worker : OnRow(w, row)})
                                       + 2 * faults
    BY DEF CopiesAccounted
  <2> DEFINE n == Cardinality({w \in Worker : OnRow(w, row)})
             one == Owed(row[1], row)
             other == Owed(Sweeper, row)
  <2>2. copies[row] <= deliveries[row].attempts + one + other + 2 * faults
    BY <2>1 DEF Accounted, Counted
  <2>3. n \in Nat /\ one + other <= n
    BY <2>1, OwedByWorkers
  <2>4. /\ one \in {0, 1} /\ other \in {0, 1}
        /\ copies[row] \in Nat /\ deliveries[row].attempts \in Nat /\ faults \in Nat
    BY <2>1 DEF Owed, TypeOK, ArchiveTypeOK, DeliveryRow
  <2> HIDE DEF n, one, other
  <2>5. copies[row] <= deliveries[row].attempts + n + 2 * faults
    BY <2>2, <2>3, <2>4
  <2>6. QED
    BY <2>5 DEF n
<1>2. QED
  BY <1>1, TypeCorrect, AccountedAlways, PTL

-----------------------------------------------------------------------------
(* Replays. *)

\* A message that is not stored has no text but the one it will be stored with.
Unwritten == \A m \in Msg : ~Stored(m) => messages[m].text = 0

\* What statements on messages do to each of them.
LEMMA MessageSteps ==
    ASSUME TypeOK, Unwritten
    PROVE  /\ \A m \in Msg : StoreMessage(m) =>
                \A n \in Msg : /\ Stored(n) => messages'[n] = messages[n]
                               /\ messages'[n].text = messages[n].text
           /\ \A ids : SoftDelete(ids) =>
                \A n \in Msg : /\ Stored(n) <=> Stored(n)'
                               /\ messages[n].state = "deleted" => messages'[n] = messages[n]
                               /\ messages'[n].text = messages[n].text
           /\ \A e \in Msg \X Text : RecordEdit(e[1], e[2]) =>
                \A n \in Msg : /\ messages'[n].state = messages[n].state
                               /\ messages'[n].text # messages[n].text
                                    => <<n, messages'[n].text>> = e /\ Stored(n)
<1> USE DEF TypeOK, ArchiveTypeOK, MessageRow
<1>1. ASSUME NEW m \in Msg, StoreMessage(m), NEW n \in Msg
      PROVE  /\ Stored(n) => messages'[n] = messages[n]
             /\ messages'[n].text = messages[n].text
  BY <1>1 DEF StoreMessage, Stored, Unwritten
<1>2. ASSUME NEW ids, SoftDelete(ids), NEW n \in Msg
      PROVE  /\ Stored(n) <=> Stored(n)'
             /\ messages[n].state = "deleted" => messages'[n] = messages[n]
             /\ messages'[n].text = messages[n].text
  BY <1>2 DEF SoftDelete, Stored
<1>3. ASSUME NEW e \in Msg \X Text, RecordEdit(e[1], e[2]), NEW n \in Msg
      PROVE  /\ messages'[n].state = messages[n].state
             /\ messages'[n].text # messages[n].text => <<n, messages'[n].text>> = e /\ Stored(n)
  <2>1. messages' = [messages EXCEPT ![e[1]].text = IF Stored(e[1]) THEN e[2] ELSE @]
    BY <1>3 DEF RecordEdit
  <2>2. e = <<e[1], e[2]>> /\ e[1] \in Msg
    OBVIOUS
  <2>3. CASE n = e[1]
    BY <2>1, <2>2, <2>3 DEF Stored
  <2>4. CASE n # e[1]
    BY <2>1, <2>2, <2>4
  <2>5. QED
    BY <2>3, <2>4
<1>4. QED
  BY <1>1, <1>2, <1>3

\* What every step does to a message.
LEMMA ReplayStep ==
    ASSUME TypeOK, Unwritten, [Next]_vars, NEW m \in Msg
    PROVE  /\ Stored(m) => Stored(m)'
           /\ messages[m].state = "deleted" => messages'[m].state = "deleted"
           /\ messages'[m].text # messages[m].text
                => <<m, messages'[m].text>> \in edits /\ Stored(m)
<1> USE DEF TypeOK
<1>1. ASSUME NEW n \in Msg, StoreMessage(n)
      PROVE  /\ Stored(m) => messages'[m] = messages[m]
             /\ messages'[m].text = messages[m].text
  BY <1>1, MessageSteps
<1>2. ASSUME NEW ids, SoftDelete(ids)
      PROVE  /\ Stored(m) <=> Stored(m)'
             /\ messages[m].state = "deleted" => messages'[m] = messages[m]
             /\ messages'[m].text = messages[m].text
  BY <1>2, MessageSteps
<1>3. ASSUME NEW e \in edits, RecordEdit(e[1], e[2])
      PROVE  /\ messages'[m].state = messages[m].state
             /\ messages'[m].text # messages[m].text => <<m, messages'[m].text>> = e /\ Stored(m)
  <2>1. e \in Msg \X Text
    OBVIOUS
  <2>2. QED
    BY <1>3, <2>1, MessageSteps
<1>4. \/ messages' = messages
      \/ \E n \in Msg : StoreMessage(n)
      \/ \E ids \in SUBSET Msg : SoftDelete(ids)
      \/ \E e \in edits : RecordEdit(e[1], e[2])
  <2>1. ASSUME NEW n \in Msg, CreateNext(n) \/ EditEvent(n) \/ DeleteNext(n)
        PROVE  \/ messages' = messages
               \/ StoreMessage(n)
               \/ SoftDelete({n})
    BY <2>1
    DEF CreateNext, CreateEvent, StoreCommit, CheckPending, ReconcileCommit, Dispatch,
        EditEvent, DeleteNext, DeleteEvent, DeleteCommit, DeleteMiss, archiveVars
  <2>2. ASSUME \/ \E w \in Worker : SendNext(w)
               \/ SweepRead
               \/ \E item \in batch : SweepTake(item)
               \/ \E row \in Row : Backoff(row)
        PROVE  messages' = messages
    BY <2>2
    DEF SendNext, Accept, Reply, Refuse, LoseReply, Mark, Concludes, SweepRead, SweepTake,
        Backoff, BackoffElapses, archiveVars
  <2>3. ASSUME FaultNext \/ UNCHANGED vars PROVE messages' = messages
    BY <2>3
    DEF FaultNext, CreateFails, FanOutFails, DeleteFails, EditFails, SweepFails, Crash,
        archiveVars, vars
  <2>4. QED
    BY <2>1, <2>2, <2>3 DEF Next, EditCommit, BulkDelete
<1>5. CASE messages' = messages
  BY <1>5 DEF Stored
<1>6. CASE \E n \in Msg : StoreMessage(n)
  BY <1>1, <1>6, MessagesKept DEF Stored
<1>7. CASE \E ids \in SUBSET Msg : SoftDelete(ids)
  BY <1>2, <1>7
<1>8. CASE \E e \in edits : RecordEdit(e[1], e[2])
  BY <1>3, <1>8 DEF Stored
<1>9. QED
  BY <1>4, <1>5, <1>6, <1>7, <1>8

\* What the gateway replays is in the archive already and leaves it as it is.
THEOREM ReplaysAreHarmless == Spec => ReplayChangesNothing
<1>1. Init => Unwritten
  BY DEF Init, ArchiveInit, Unwritten
<1>2. TypeOK /\ Unwritten /\ [Next]_vars => Unwritten'
  BY ReplayStep DEF Unwritten
<1>3. TypeOK /\ Unwritten /\ [Next]_vars
        => [\A m \in Msg :
              /\ Stored(m) => Stored(m)'
              /\ messages[m].state = "deleted" => messages'[m].state = "deleted"
              /\ messages'[m].text # messages[m].text
                    => <<m, messages'[m].text>> \in edits]_vars
  BY ReplayStep
<1>4. QED
  BY <1>1, <1>2, <1>3, TypeCorrect, PTL DEF Spec, ReplayChangesNothing

-----------------------------------------------------------------------------
(* Remembered deletes. *)

Bounded(s) == Len(s) <= MaxPending /\ \A i, j \in DOMAIN s : s[i] = s[j] => i = j

\* The set keeps its cap and its entries, but for the oldest of a full set.
LEMMA RememberKeeps ==
    ASSUME pending \in Seq(Msg), PendingBounded, NEW m \in Msg
    PROVE  /\ Bounded(Remember(m))
           /\ \A i \in DOMAIN pending :
                \/ \E j \in DOMAIN Remember(m) : Remember(m)[j] = pending[i]
                \/ Len(pending) = MaxPending /\ i = 1
<1> DEFINE n == Len(pending)
<1>0. n \in Nat /\ n <= MaxPending /\ MaxPending \in Nat \ {0} /\ DOMAIN pending = 1 .. n
  BY BoundsAssumption, LenProperties DEF PendingBounded
<1>1. CASE Remembered(m)
  <2>1. ~(Len(pending) > MaxPending)
    BY <1>0
  <2>2. Remember(m) = pending
    BY <1>1, <2>1 DEF Remember
  <2>3. QED
    BY <2>2 DEF Bounded, PendingBounded
<1>2. CASE ~Remembered(m)
  <2> DEFINE grown == Append(pending, m)
  <2>1. /\ grown \in Seq(Msg) /\ Len(grown) = n + 1 /\ DOMAIN grown = 1 .. n + 1
        /\ \A i \in 1 .. n : grown[i] = pending[i]
        /\ grown[n + 1] = m
    BY <1>0, AppendProperties, LenProperties
  <2>2. \A i \in 1 .. n : pending[i] # m
    BY <1>0, <1>2 DEF Remembered
  <2>3. \A i, j \in 1 .. n + 1 : grown[i] = grown[j] => i = j
    <3>1. SUFFICES ASSUME NEW i \in 1 .. n + 1, NEW j \in 1 .. n + 1, grown[i] = grown[j]
                   PROVE  i = j
      OBVIOUS
    <3>2. CASE i \in 1 .. n /\ j \in 1 .. n
      BY <1>0, <2>1, <3>1, <3>2 DEF PendingBounded
    <3>3. CASE i = n + 1 \/ j = n + 1
      <4>1. \A k \in 1 .. n + 1 : k = n + 1 \/ k \in 1 .. n
        BY <1>0
      <4>2. QED
        BY <2>1, <2>2, <3>1, <3>3, <4>1
    <3>4. QED
      BY <1>0, <3>2, <3>3
  <2>4. CASE n + 1 <= MaxPending
    <3>1. ~(Len(grown) > MaxPending)
      BY <1>0, <2>1, <2>4
    <3>2. Remember(m) = grown
      BY <1>2, <3>1 DEF Remember
    <3>3. Bounded(grown)
      BY <2>1, <2>3, <2>4 DEF Bounded
    <3>4. \A i \in DOMAIN pending : \E j \in DOMAIN grown : grown[j] = pending[i]
      BY <1>0, <2>1
    <3>5. QED
      BY <3>2, <3>3, <3>4
  <2>5. CASE n = MaxPending
    <3>0. Len(grown) > MaxPending
      BY <1>0, <2>1, <2>5
    <3>1. Remember(m) = Tail(grown)
      BY <1>2, <3>0 DEF Remember
    <3>2. grown # <<>>
      BY <1>0, <2>1
    <3>3. /\ Tail(grown) \in Seq(Msg) /\ Len(Tail(grown)) = n
          /\ \A i \in 1 .. n : Tail(grown)[i] = grown[i + 1]
      BY <1>0, <2>1, <3>2, HeadTailProperties
    <3>4. DOMAIN Tail(grown) = 1 .. n
      BY <3>3, LenProperties
    <3>5. Bounded(Tail(grown))
      <4>1. ASSUME NEW i \in 1 .. n, NEW j \in 1 .. n, Tail(grown)[i] = Tail(grown)[j]
            PROVE  i = j
        <5>1. i + 1 \in 1 .. n + 1 /\ j + 1 \in 1 .. n + 1 /\ grown[i + 1] = grown[j + 1]
          BY <1>0, <3>3, <4>1
        <5>2. i + 1 = j + 1
          BY <2>3, <5>1
        <5>3. QED
          BY <5>2
      <4>2. QED
        BY <1>0, <3>3, <3>4, <4>1 DEF Bounded
    <3>6. ASSUME NEW i \in 1 .. n, i # 1
          PROVE  \E j \in DOMAIN Tail(grown) : Tail(grown)[j] = pending[i]
      <4>1. i - 1 \in 1 .. n /\ (i - 1) + 1 = i
        BY <1>0, <3>6
      <4>2. Tail(grown)[i - 1] = grown[i]
        BY <3>3, <4>1
      <4>3. QED
        BY <2>1, <3>4, <4>1, <4>2
    <3>7. QED
      BY <1>0, <2>5, <3>1, <3>5, <3>6
  <2>6. n + 1 <= MaxPending \/ n = MaxPending
    <3> HIDE DEF n
    <3> QED BY <1>0
  <2>7. QED
    BY <2>4, <2>5, <2>6
<1>3. QED
  BY <1>1, <1>2

\* Taking one entry out leaves the others.
LEMMA ForgetKeeps ==
    ASSUME pending \in Seq(Msg), PendingBounded, NEW m \in Msg, Remembered(m)
    PROVE  /\ Bounded(Forget(m))
           /\ \A i \in DOMAIN pending :
                \/ \E j \in DOMAIN Forget(m) : Forget(m)[j] = pending[i]
                \/ pending[i] = m
<1> DEFINE n == Len(pending)
           i == CHOOSE j \in DOMAIN pending : pending[j] = m
           before == SubSeq(pending, 1, i - 1)
           after == SubSeq(pending, i + 1, n)
<1>0. /\ n \in Nat /\ n <= MaxPending /\ MaxPending \in Nat /\ DOMAIN pending = 1 .. n
      /\ \A k \in 1 .. n : pending[k] \in Msg
  BY BoundsAssumption, LenProperties, ElementOfSeq DEF PendingBounded
<1>1. i \in 1 .. n /\ pending[i] = m
  BY <1>0 DEF Remembered
<1>2. Forget(m) = before \o after
  BY DEF Forget
<1> HIDE DEF i
<1>3. /\ before \in Seq(Msg) /\ Len(before) = i - 1
      /\ \A k \in 1 .. i - 1 : before[k] = pending[k]
  <2>1. i - 1 \in Int /\ 1 \in Int /\ \A k \in 1 .. i - 1 : pending[k] \in Msg
    BY <1>0, <1>1
  <2>2. /\ before \in Seq(Msg) /\ Len(before) = IF 1 <= i - 1 THEN (i - 1) - 1 + 1 ELSE 0
        /\ \A k \in 1 .. (i - 1) - 1 + 1 : before[k] = pending[1 + k - 1]
    BY <2>1, SubSeqProperties
  <2>3. QED
    BY <1>0, <1>1, <2>2
<1>4. /\ after \in Seq(Msg) /\ Len(after) = n - i
      /\ \A k \in 1 .. n - i : after[k] = pending[i + k]
  <2>1. i + 1 \in Int /\ n \in Int /\ \A k \in i + 1 .. n : pending[k] \in Msg
    BY <1>0, <1>1
  <2>2. /\ after \in Seq(Msg) /\ Len(after) = IF i + 1 <= n THEN n - (i + 1) + 1 ELSE 0
        /\ \A k \in 1 .. n - (i + 1) + 1 : after[k] = pending[(i + 1) + k - 1]
    BY <2>1, SubSeqProperties
  <2> HIDE DEF n, after
  <2>3. Len(after) = n - i
    BY <1>0, <1>1, <2>2
  <2>4. ASSUME NEW k \in 1 .. n - i PROVE after[k] = pending[i + k]
    <3>1. k \in 1 .. n - (i + 1) + 1 /\ (i + 1) + k - 1 = i + k
      BY <1>0, <1>1
    <3>2. QED
      BY <2>2, <3>1
  <2>5. QED
    BY <2>2, <2>3, <2>4
<1> DEFINE left == before \o after
<1>5. /\ left \in Seq(Msg) /\ Len(left) = n - 1
      /\ \A k \in 1 .. n - 1 : left[k] = IF k <= i - 1 THEN before[k] ELSE after[k - (i - 1)]
  <2>1. Len(before) + Len(after) = n - 1
    <3> HIDE DEF n, before, after
    <3> QED BY <1>0, <1>1, <1>3, <1>4
  <2>2. QED
    BY <1>3, <1>4, <2>1, ConcatProperties
<1>6. DOMAIN left = 1 .. n - 1
  BY <1>5, LenProperties
<1> HIDE DEF before, after, left
<1>7. \A k \in 1 .. n - 1 : left[k] = IF k < i THEN pending[k] ELSE pending[k + 1]
  <2>1. SUFFICES ASSUME NEW k \in 1 .. n - 1
                 PROVE  left[k] = IF k < i THEN pending[k] ELSE pending[k + 1]
    OBVIOUS
  <2>2. CASE k < i
    BY <1>0, <1>1, <1>3, <1>5, <2>2
  <2>3. CASE ~(k < i)
    <3>1. k - (i - 1) \in 1 .. n - i /\ i + (k - (i - 1)) = k + 1 /\ ~(k <= i - 1)
      BY <1>0, <1>1, <2>3
    <3>2. QED
      BY <1>4, <1>5, <2>3, <3>1
  <2>4. QED
    BY <2>2, <2>3
<1>8. Bounded(left)
  <2>1. ASSUME NEW k \in 1 .. n - 1, NEW l \in 1 .. n - 1, left[k] = left[l]
        PROVE  k = l
    <3>1. \A a, b \in 1 .. n : pending[a] = pending[b] => a = b
      BY <1>0 DEF PendingBounded
    <3>2. k \in 1 .. n /\ l \in 1 .. n /\ k + 1 \in 1 .. n /\ l + 1 \in 1 .. n
      BY <1>0
    <3>3. i \in Int
      BY <1>1
    <3>4. QED
      BY <1>7, <2>1, <3>1, <3>2, <3>3
  <2>2. QED
    BY <1>0, <1>5, <1>6, <2>1 DEF Bounded
<1>9. ASSUME NEW k \in 1 .. n, k # i
      PROVE  \E j \in DOMAIN left : left[j] = pending[k]
  <2>1. CASE k < i
    <3>1. k \in 1 .. n - 1
      BY <1>0, <1>1, <2>1
    <3>2. QED
      BY <1>6, <1>7, <2>1, <3>1
  <2>2. CASE k > i
    <3>1. k - 1 \in 1 .. n - 1 /\ ~(k - 1 < i) /\ (k - 1) + 1 = k
      BY <1>0, <1>1, <2>2
    <3>2. QED
      BY <1>6, <1>7, <3>1
  <2>3. QED
    BY <1>1, <1>9, <2>1, <2>2
<1>10. QED
  BY <1>0, <1>1, <1>2, <1>8, <1>9 DEF left

\* Who touches the remembered deletes.
LEMMA PendingSteps ==
    ASSUME TypeOK, [Next]_vars
    PROVE  \/ pending' = pending
           \/ \E m \in Msg : CheckPending(m) /\ Remembered(m)
           \/ \E m \in Msg : DeleteMiss(m)
           \/ pending' = <<>> /\ faults' = faults + 1
<1>1. ASSUME NEW m \in Msg,
             \/ CreateEvent(m) \/ StoreCommit(m) \/ ReconcileCommit(m) \/ Dispatch(m)
             \/ EditEvent(m) \/ DeleteEvent(m) \/ DeleteCommit(m)
             \/ CreateFails(m) \/ FanOutFails(m) \/ DeleteFails(m)
             \/ CheckPending(m) /\ ~Remembered(m)
      PROVE  pending' = pending
  BY <1>1
  DEF CreateEvent, StoreCommit, ReconcileCommit, Dispatch, EditEvent, DeleteEvent,
      DeleteCommit, CreateFails, FanOutFails, DeleteFails, CheckPending
<1>2. ASSUME \/ \E w \in Worker : SendNext(w)
             \/ SweepRead \/ SweepFails
             \/ \E item \in batch : SweepTake(item)
             \/ \E row \in Row : Backoff(row)
             \/ \E e \in edits : EditCommit(e) \/ EditFails(e)
             \/ \E ids \in SUBSET Msg : BulkDelete(ids)
             \/ UNCHANGED vars
      PROVE  pending' = pending
  BY <1>2
  DEF SendNext, Accept, Reply, Refuse, LoseReply, Mark, Concludes, SweepRead, SweepFails,
      SweepTake, Backoff, EditCommit, EditFails, BulkDelete, handlerVars, vars
<1>3. ASSUME Crash PROVE pending' = <<>> /\ faults' = faults + 1
  BY <1>3 DEF Crash, Fault
<1>4. QED
  BY <1>1, <1>2, <1>3 DEF Next, CreateNext, DeleteNext, FaultNext

\* Every step keeps the set bounded, and entries go for a reason.
LEMMA PendingStep ==
    ASSUME TypeOK, PendingBounded, [Next]_vars
    PROVE  /\ PendingBounded'
           /\ \A m \in Msg :
                Remembered(m) /\ ~Remembered(m)' =>
                    \/ create[m] = "check" /\ create'[m] = "reconcile"
                    \/ /\ Len(pending) = MaxPending /\ pending[1] = m
                       /\ \E other \in Msg : del[other] = "miss" /\ del'[other] = "none"
                    \/ faults' > faults /\ pending' = <<>>
<1> USE DEF TypeOK
<1>1. CASE pending' = pending
  BY <1>1 DEF PendingBounded, Remembered
<1>2. ASSUME NEW m \in Msg, CheckPending(m), Remembered(m)
      PROVE  /\ PendingBounded'
             /\ \A n \in Msg : Remembered(n) /\ ~Remembered(n)' =>
                    create[n] = "check" /\ create'[n] = "reconcile"
  <2>1. /\ pending' = Forget(m)
        /\ create[m] = "check" /\ create'[m] = "reconcile"
    BY <1>2 DEF CheckPending
  <2>2. /\ Bounded(pending')
        /\ \A i \in DOMAIN pending :
             (\E j \in DOMAIN pending' : pending'[j] = pending[i]) \/ pending[i] = m
    BY <1>2, <2>1, ForgetKeeps
  <2>3. QED
    BY <2>1, <2>2 DEF Bounded, PendingBounded, Remembered
<1>3. ASSUME NEW m \in Msg, DeleteMiss(m)
      PROVE  /\ PendingBounded'
             /\ \A n \in Msg : Remembered(n) /\ ~Remembered(n)' =>
                    /\ Len(pending) = MaxPending /\ pending[1] = n
                    /\ \E other \in Msg : del[other] = "miss" /\ del'[other] = "none"
  <2>1. pending' = Remember(m) /\ del[m] = "miss" /\ del'[m] = "none"
    BY <1>3 DEF DeleteMiss
  <2>2. /\ Bounded(pending')
        /\ \A i \in DOMAIN pending :
             \/ \E j \in DOMAIN pending' : pending'[j] = pending[i]
             \/ Len(pending) = MaxPending /\ i = 1
    BY <2>1, RememberKeeps
  <2>3. QED
    BY <2>1, <2>2 DEF Bounded, PendingBounded, Remembered
<1>4. CASE pending' = <<>> /\ faults' = faults + 1
  <2>1. PendingBounded'
    BY <1>4, BoundsAssumption DEF PendingBounded
  <2>2. faults' > faults
    BY <1>4
  <2>3. QED
    BY <1>4, <2>1, <2>2
<1>5. QED
  BY <1>1, <1>2, <1>3, <1>4, PendingSteps

\* The cap holds and an entry is one entry, for any cap and any deletes.
THEOREM PendingIsBounded == Spec => []PendingBounded
<1>1. Init => PendingBounded
  BY BoundsAssumption DEF Init, PendingBounded
<1>2. TypeOK /\ PendingBounded /\ [Next]_vars => PendingBounded'
  BY PendingStep
<1>3. QED
  BY <1>1, <1>2, TypeCorrect, PTL DEF Spec

\* A remembered delete is not lost but to its create, to the cap or with the
\* process.
THEOREM RememberedStay == Spec => RememberedKept
<1>1. TypeOK /\ PendingBounded /\ [Next]_vars
        => [\A m \in Msg :
              Remembered(m) /\ ~Remembered(m)' =>
                  \/ create[m] = "check" /\ create'[m] = "reconcile"
                  \/ /\ Len(pending) = MaxPending /\ pending[1] = m
                     /\ \E other \in Msg : del[other] = "miss" /\ del'[other] = "none"
                  \/ faults' > faults /\ pending' = <<>>]_vars
  BY PendingStep
<1>2. QED
  BY <1>1, TypeCorrect, PendingIsBounded, PTL DEF Spec, RememberedKept
=============================================================================
