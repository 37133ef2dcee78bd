--------------------------- MODULE LifecycleProofs --------------------------
(***************************************************************************)
(* Proofs about module Lifecycle, for every value of its constants: any    *)
(* messages, routes, files and environments, and any number of starts.     *)
(* What is proved of Pipeline carries over; the steps that Lifecycle adds  *)
(* are proved here.                                                        *)
(***************************************************************************)
EXTENDS Lifecycle, PipelineProofs, RoutesProofs

\* The tasks go on as in Pipeline, in the phases that allow it.
LEMMA TasksAreNext ==
    ASSUME \/ \E m \in Msg : Events(m) \/ Statement(m) \/ Resume(m)
           \/ Sweep \/ Elapses
    PROVE  Next
<1>1. \A m \in Msg : m \in Worker /\ {m} \in SUBSET Msg
  BY DEF Worker
<1>2. Sweeper \in Worker
  BY DEF Worker
<1>3. ASSUME NEW m \in Msg, Events(m) PROVE Next
  BY <1>1, <1>3 DEF Events, Next, CreateNext, DeleteNext
<1>4. ASSUME NEW m \in Msg, Statement(m) PROVE Next
  BY <1>1, <1>4 DEF Statement, Next, CreateNext, DeleteNext, SendNext
<1>5. ASSUME NEW m \in Msg, Resume(m) PROVE Next
  BY <1>1, <1>5 DEF Resume, Next, CreateNext, DeleteNext, SendNext
<1>6. ASSUME Sweep PROVE Next
  BY <1>2, <1>6 DEF Sweep, Next, SendNext
<1>7. ASSUME Elapses PROVE Next
  BY <1>7 DEF Elapses, Next
<1>8. QED
  BY <1>3, <1>4, <1>5, <1>6, <1>7

\* A step that only takes tasks away leaves what is left grounded, and is none of
\* Relay's business.
LEMMA TakingAway ==
    ASSUME TypeOK, Grounded, UNCHANGED <<archiveVars, copies>>,
           \A m \in Msg : todo'[m] \subseteq todo[m] /\ create'[m] \in {create[m], "none"},
           \A w \in Worker : job'[w] # NoJob => job[w] # NoJob /\ job'[w].row = job[w].row,
           batch' \subseteq batch
    PROVE  Grounded' /\ UNCHANGED R!vars
<1>1. UNCHANGED messages /\ UNCHANGED deliveries /\ UNCHANGED copies
  BY DEF archiveVars
<1>2. /\ \A m \in Msg : Stored(m)' <=> Stored(m)
      /\ \A row \in Row : HasRow(row)' <=> HasRow(row)
  BY <1>1 DEF Stored, HasRow
<1>3. \A row \in Row : deliveries'[row].status \notin {"none", "SKIPPED"} => Allowed(row)
  BY <1>1 DEF Grounded, QueuedAllowed
<1>4. \A m \in Msg : todo'[m] # {} \/ create'[m] = "check"
                         => todo[m] # {} \/ create[m] = "check"
  OBVIOUS
<1>5. Grounded'
  BY <1>1, <1>2, <1>3, <1>4, GroundedStep
<1>6. QED
  BY <1>1, <1>2, <1>5, RelayStutter

-----------------------------------------------------------------------------
(* The steps that Lifecycle adds. *)

Sound == TypeOK' /\ Grounded' /\ [R!Next]_(R!vars)

\* Every map from routes to what a file may say of them is a configuration.
LEMMA ConfigTypes ==
    /\ NoSettings \in Configs
    /\ \A routes : ConfigOf(routes) \in Configs
BY AllConfigs DEF NoSettings, ConfigOf

\* Loading turns an idle process into one that has just started.
LEMMA LoadSound == ASSUME TypeOK, Grounded, Load PROVE Sound
<1>1. TypeOK'
  BY ConfigTypes DEF Load, TypeOK, ArchiveTypeOK, archiveVars, handlerVars
<1>2. Grounded' /\ UNCHANGED R!vars
  BY TakingAway DEF Load, handlerVars
<1>3. QED
  BY <1>1, <1>2 DEF Sound

\* The end of the process, orderly or not, takes its tasks and leaves the tables.
LEMMA GoneSound == ASSUME TypeOK, Grounded, Gone PROVE Sound
<1>1. TypeOK'
  BY ConfigTypes, StartTypes DEF Gone, TypeOK, ArchiveTypeOK, archiveVars
<1>2. Grounded' /\ UNCHANGED R!vars
  BY TakingAway DEF Gone, NoHandler, NoFanOut, NoJobs
<1>3. QED
  BY <1>1, <1>2 DEF Sound

\* A request that the closing session ends is a failed attempt.
LEMMA AbortedSound ==
    ASSUME TypeOK, Grounded, NEW w \in Worker, RequestAborted(w)
    PROVE  Sound
<1>1. job[w] \in Job /\ job[w] # NoJob
  BY DEF RequestAborted, Working, TypeOK
<1>2. job' = [job EXCEPT ![w].pc = "mark", ![w].outcome = "retryable"]
  BY DEF RequestAborted, Concludes
<1>3. job' \in [Worker -> Job \cup {NoJob}]
  <2>1. [job[w] EXCEPT !.pc = "mark", !.outcome = "retryable"] \in Job
    BY <1>1 DEF Job, Outcome
  <2>2. QED
    BY <1>2, <2>1 DEF TypeOK
<1>4. UNCHANGED <<archiveVars, sourceVars, handlerVars, copies, faults>>
  BY DEF RequestAborted, Concludes
<1>5. TypeOK'
  BY <1>3, <1>4 DEF TypeOK, ArchiveTypeOK, archiveVars, sourceVars, handlerVars
<1>6. \A v \in Worker : job'[v] # NoJob => job[v] # NoJob /\ job'[v].row = job[v].row
  BY <1>1, <1>2 DEF TypeOK, Job
<1>7. Grounded' /\ UNCHANGED R!vars
  BY <1>4, <1>6, TakingAway DEF handlerVars
<1>8. QED
  BY <1>5, <1>7 DEF Sound

\* A send that raises, in the closed session, ends its fan-out.
LEMMA RaisesSound ==
    ASSUME TypeOK, Grounded, NEW m \in Msg, SendRaises(m)
    PROVE  Sound
<1>1. /\ todo' \in [Msg -> SUBSET Route] /\ job' \in [Worker -> Job \cup {NoJob}]
      /\ UNCHANGED <<archiveVars, sourceVars, create, del, edits, pending, batch,
                     copies, faults>>
  BY DEF SendRaises, TypeOK
<1>2. TypeOK'
  BY <1>1 DEF TypeOK, ArchiveTypeOK, archiveVars, sourceVars
<1>3. /\ \A v \in Worker : job'[v] # NoJob => job[v] # NoJob /\ job'[v].row = job[v].row
      /\ \A n \in Msg : todo'[n] \subseteq todo[n]
  BY DEF SendRaises, TypeOK
<1>4. Grounded' /\ UNCHANGED R!vars
  BY <1>1, <1>3, TakingAway
<1>5. QED
  BY <1>2, <1>4 DEF Sound

\* A row queued in vain is a row: Relay decides, and no copy ever follows.
LEMMA UnsentSound ==
    ASSUME TypeOK, Grounded, NEW m \in Msg, DispatchUnsent(m)
    PROVE  Sound
<1>1. PICK r \in todo[m] :
         /\ QueueDelivery(<<m, r>>, IF Allowed(<<m, r>>) THEN "PENDING" ELSE "SKIPPED")
         /\ todo' = [todo EXCEPT ![m] = IF PoolOpen /\ ~Allowed(<<m, r>>)
                                        THEN @ \ {r} ELSE {}]
  BY DEF DispatchUnsent
<1> DEFINE row == <<m, r>>
<1>2. UNCHANGED <<messages, sourceVars, create, job, del, edits, pending, batch,
                  copies, faults>>
  BY DEF DispatchUnsent
<1>3. row \in Row /\ row[1] = m /\ Stored(m)
  BY <1>1 DEF Row, TypeOK, Grounded, FanOutArchived
<1>4. TypeOK'
  <2>1. deliveries' \in [Row -> DeliveryRow]
    BY <1>1, <1>3, StatementTypes DEF TypeOK
  <2>2. todo' \in [Msg -> SUBSET Route]
    BY <1>1 DEF TypeOK
  <2>3. QED
    BY <1>2, <2>1, <2>2 DEF TypeOK, ArchiveTypeOK, sourceVars
<1>5. /\ \A other \in Row : other # row => deliveries'[other] = deliveries[other]
      /\ HasRow(row) => deliveries'[row] = deliveries[row]
      /\ ~HasRow(row) => deliveries'[row].status =
                             IF Allowed(row) THEN "PENDING" ELSE "SKIPPED"
  BY <1>1, <1>3 DEF QueueDelivery, TypeOK, ArchiveTypeOK
<1>6. \A other \in Row : HasRow(other)' <=> (other = row \/ HasRow(other))
  BY <1>3, <1>5 DEF HasRow
<1>7. \A n \in Msg : Stored(n)' <=> Stored(n)
  BY <1>2 DEF Stored
<1>8. Grounded'
  <2>1. \A other \in Row : deliveries'[other].status \notin {"none", "SKIPPED"}
                               => Allowed(other)
    BY <1>5 DEF Grounded, QueuedAllowed
  <2>2. \A n \in Msg : todo'[n] # {} \/ create'[n] = "check"
                           => todo[n] # {} \/ create[n] = "check"
    BY <1>1, <1>2 DEF TypeOK
  <2>3. \A other \in Row : HasRow(other)' => HasRow(other) \/ Stored(other[1])'
    BY <1>3, <1>6, <1>7
  <2>4. QED
    BY <1>2, <1>6, <1>7, <2>1, <2>2, <2>3, GroundedStep DEF TypeOK
<1>9. [R!Next]_(R!vars)
  <2>1. CASE HasRow(row)
    BY <1>2, <1>6, <1>7, <2>1, RelayStutter
  <2>2. CASE ~HasRow(row)
    <3>1. {other \in Row : HasRow(other)}' = {other \in Row : HasRow(other)} \cup {row}
      BY <1>3, <1>6
    <3>2. {n \in Msg : Stored(n)}' = {n \in Msg : Stored(n)}
      BY <1>7
    <3>3. R!Decide(row)
      BY <1>2, <1>3, <2>2, <3>1, <3>2 DEF R!Decide
    <3>4. QED
      BY <1>3, <3>3 DEF R!Next, Row
  <2>3. QED
    BY <2>1, <2>2
<1>10. QED
  BY <1>4, <1>8, <1>9 DEF Sound

\* The sweeper ends with or without the statement it was at.
LEMMA EndsSound == ASSUME TypeOK, Grounded, SweeperEnds PROVE Sound
<1>0. Sweeper \in Worker
  BY DEF Worker
<1>1. /\ job' = [job EXCEPT ![Sweeper] = NoJob] /\ batch' = {}
      /\ UNCHANGED <<messages, sourceVars, create, todo, del, edits, pending, copies,
                     faults>>
  BY DEF SweeperEnds
<1>2. /\ job' \in [Worker -> Job \cup {NoJob}]
      /\ \A v \in Worker : job'[v] # NoJob => job[v] # NoJob /\ job'[v].row = job[v].row
  BY <1>1 DEF TypeOK
<1>3. CASE UNCHANGED deliveries
  <2>1. TypeOK'
    BY <1>1, <1>2, <1>3 DEF TypeOK, ArchiveTypeOK, sourceVars
  <2>2. UNCHANGED archiveVars
    BY <1>1, <1>3 DEF archiveVars
  <2>3. Grounded' /\ UNCHANGED R!vars
    BY <1>1, <1>2, <2>2, TakingAway
  <2>4. QED
    BY <2>1, <2>3 DEF Sound
<1>4. CASE Working(Sweeper, "mark") /\ RecordOutcome(job[Sweeper])
  <2> DEFINE own == job[Sweeper].row
  <2>1. /\ job[Sweeper] \in Job /\ job[Sweeper] # NoJob
        /\ own \in Row /\ job[Sweeper].attempts \in Nat
    BY <1>0, <1>4 DEF Working, TypeOK, Job
  <2>2. HasRow(own) /\ Allowed(own)
    BY <1>0, <2>1 DEF Grounded, JobsGrounded
  <2>3. /\ \A row \in Row : row # own => deliveries'[row] = deliveries[row]
        /\ deliveries'[own].status # "none"
    BY <1>4, <2>1, OutcomeStaysInRow DEF TypeOK
  <2>4. \A row \in Row : HasRow(row)' <=> HasRow(row)
    <3>1. SUFFICES ASSUME NEW row \in Row PROVE HasRow(row)' <=> HasRow(row)
      OBVIOUS
    <3>2. CASE row = own
      BY <2>2, <2>3, <3>2 DEF HasRow
    <3>3. CASE row # own
      BY <2>3, <3>3 DEF HasRow
    <3>4. QED
      BY <3>2, <3>3
  <2>5. \A row \in Row : deliveries'[row].status \notin {"none", "SKIPPED"} => Allowed(row)
    BY <2>2, <2>3 DEF Grounded, QueuedAllowed
  <2>6. \A m \in Msg : Stored(m)' <=> Stored(m)
    BY <1>1 DEF Stored
  <2>7. deliveries' \in [Row -> DeliveryRow]
    BY <1>4, <2>1, StatementTypes DEF RecordOutcome, TypeOK
  <2>8. TypeOK'
    BY <1>1, <1>2, <2>7 DEF TypeOK, ArchiveTypeOK, sourceVars
  <2>9. Grounded'
    BY <1>1, <1>2, <2>4, <2>5, <2>6, GroundedStep
  <2>10. UNCHANGED R!vars
    BY <1>1, <2>4, <2>6, RelayStutter
  <2>11. QED
    BY <2>8, <2>9, <2>10 DEF Sound
<1>5. QED
  BY <1>3, <1>4 DEF SweeperEnds

\* No step of the process, from start to end, takes the ground away.
LEMMA StepSound ==
    ASSUME TypeOK, Grounded, [LifecycleNext]_allVars
    PROVE  Sound
<1>1. ASSUME [Next]_vars PROVE Sound
  BY <1>1, NextTypes, NextGrounded, RelayStep DEF Sound
<1>2. ASSUME Start \/ Signal \/ CancelSweeper \/ CloseSession \/ ClosePool
             \/ UNCHANGED allVars
      PROVE  Sound
  BY <1>1, <1>2 DEF Start, Signal, CancelSweeper, CloseSession, ClosePool, allVars
<1>3. ASSUME Exit \/ Kill PROVE Sound
  BY <1>3, GoneSound DEF Exit, Kill
<1>4. ASSUME \/ \E m \in Msg : Events(m) \/ Statement(m) \/ Resume(m)
             \/ Sweep \/ Elapses
      PROVE  Sound
  BY <1>1, <1>4, TasksAreNext
<1>5. QED
  BY <1>2, <1>3, <1>4, LoadSound, AbortedSound, RaisesSound, UnsentSound, EndsSound
  DEF LifecycleNext

\* Types and ground hold in every reachable state of a process that is started,
\* stopped and killed.
LEMMA LifecycleGrounded == LifecycleSpec => [](TypeOK /\ Grounded)
<1>1. LifecycleInit => TypeOK /\ Grounded
  BY InitTypes, InitGrounded DEF LifecycleInit
<1>2. TypeOK /\ Grounded /\ [LifecycleNext]_allVars => TypeOK' /\ Grounded'
  BY StepSound DEF Sound
<1>3. QED
  BY <1>1, <1>2, PTL DEF LifecycleSpec

\* Starts, orderly stops with handlers in flight, and kills leave the process a
\* relay: nothing is sent that is not archived, queued and allowed.
THEOREM LifecycleImplementation == LifecycleSpec => ImplementsRelay
<1>1. LifecycleInit => R!Init
  BY RelayInit DEF LifecycleInit
<1>2. TypeOK /\ Grounded /\ [LifecycleNext]_allVars => [R!Next]_(R!vars)
  BY StepSound DEF Sound
<1>3. QED
  BY <1>1, <1>2, LifecycleGrounded, PTL DEF LifecycleSpec, ImplementsRelay, R!Spec

-----------------------------------------------------------------------------
(* Phases. *)

\* A handler leaves the sweeper alone.
LEMMA SweeperUntouched ==
    ASSUME TypeOK, NEW m \in Msg, Statement(m) \/ Resume(m)
    PROVE  job'[Sweeper] = job[Sweeper] /\ batch' = batch
<1>1. m \in Worker /\ Sweeper \in Worker /\ m # Sweeper
  BY SweeperAssumption DEF Worker
<1>2. ASSUME Statement(m) PROVE job'[Sweeper] = job[Sweeper] /\ batch' = batch
  BY <1>1, <1>2 DEF Statement, StoreCommit, ReconcileCommit, DeleteCommit, Mark, EditCommit,
                    handlerVars, TypeOK
<1>3. ASSUME Resume(m) PROVE job'[Sweeper] = job[Sweeper] /\ batch' = batch
  BY <1>1, <1>3 DEF Resume, CheckPending, DeleteMiss, Dispatch, Accept, Reply, Refuse,
                    Concludes, handlerVars, TypeOK
<1>4. QED
  BY <1>2, <1>3

\* What is empty in a process that is down or loading, and what has ended before
\* the session is closed.
LEMMA PhaseTypes ==
    ASSUME LifecycleTypeOK, TypeOK', [LifecycleNext]_allVars
    PROVE  LifecycleTypeOK'
<1> USE DEF LifecycleTypeOK
<1>0. TypeOK /\ Sweeper \in Worker
  BY DEF Worker
<1>1. CASE Start
  BY <1>1, MaxStartsAssumption
  DEF Start, Phase, vars, Idle, NoHandler, NoFanOut, NoJobs, NoSettings
<1>2. CASE Load
  BY <1>2 DEF Load, Phase, handlerVars, Idle, NoHandler, NoFanOut, NoJobs, NoSettings
<1>3. CASE Gone
  BY <1>3 DEF Gone, Phase, NoHandler, NoFanOut, NoJobs, NoSettings
<1>4. CASE Signal \/ CancelSweeper \/ CloseSession \/ ClosePool
  BY <1>4 DEF Signal, CancelSweeper, CloseSession, ClosePool, Enter, Phase, vars, Idle
<1>5. CASE SweeperEnds
  BY <1>0, <1>5 DEF SweeperEnds, Enter, Phase, Idle, TypeOK
<1>6. ASSUME NEW m \in Msg, Events(m) PROVE LifecycleTypeOK'
  BY <1>6 DEF Events, Connected, lifeVars, Phase
<1>7. ASSUME NEW m \in Msg, Statement(m) \/ Resume(m) PROVE LifecycleTypeOK'
  BY <1>0, <1>7, SweeperUntouched
  DEF Statement, Resume, StatementsRun, PoolOpen, SessionOpen, lifeVars, Phase, Idle
<1>8. CASE Sweep
  BY <1>8 DEF Sweep, Sweeping, lifeVars, Phase
<1>9. CASE Elapses
  BY <1>9 DEF Elapses, Backoff, handlerVars, sourceVars, lifeVars, Idle, NoHandler, NoFanOut,
              NoJobs, NoSettings
<1>10. ASSUME NEW w \in Worker, RequestAborted(w) PROVE LifecycleTypeOK'
  <2>1. phase = "draining" /\ w # Sweeper
    BY <1>10 DEF RequestAborted, PoolOpen, SessionOpen, Working, Idle
  <2>2. job[w].row \in Row
    BY <1>0, <1>10 DEF RequestAborted, Working, TypeOK, Job
  <2>3. aborted' \in [Row -> Nat]
    BY <1>10, <2>2 DEF RequestAborted
  <2>4. job'[Sweeper] = job[Sweeper] /\ batch' = batch
    BY <1>0, <1>10, <2>1 DEF RequestAborted, Concludes, handlerVars, TypeOK
  <2>5. QED
    BY <1>10, <2>1, <2>3, <2>4 DEF RequestAborted, Phase, Idle
<1>11. ASSUME NEW m \in Msg, SendRaises(m) PROVE LifecycleTypeOK'
  <2>1. m # Sweeper
    BY SweeperAssumption
  <2>2. QED
    BY <1>0, <1>11, <2>1 DEF SendRaises, PoolOpen, SessionOpen, lifeVars, Phase, Idle, TypeOK
<1>12. ASSUME NEW m \in Msg, DispatchUnsent(m) PROVE LifecycleTypeOK'
  BY <1>12 DEF DispatchUnsent, StatementsRun, PoolOpen, SessionOpen, lifeVars, Phase, Idle
<1>13. CASE UNCHANGED allVars
  BY <1>13 DEF allVars, lifeVars, vars, Idle, NoHandler, NoFanOut, NoJobs, NoSettings
<1>14. QED
  BY <1>1, <1>2, <1>3, <1>4, <1>5, <1>6, <1>7, <1>8, <1>9, <1>10, <1>11, <1>12, <1>13
  DEF LifecycleNext, Exit, Kill

-----------------------------------------------------------------------------
(* What a stop costs. *)

\* The worker has a request of the row in flight, or is about to make it.
Requesting(w, row) ==
    (Working(w, "send") \/ Working(w, "accepted")) /\ job[w].row = row

\* A fan-out delivers its own message.
OwnJobs == \A m \in Msg : job[m] # NoJob => job[m].row[1] = m

\* A row whose attempt was aborted is there for good, and its fan-out is past it.
AbortedOnce ==
    \A row \in Row :
        aborted[row] > 0 => /\ aborted[row] = 1
                            /\ HasRow(row)
                            /\ ~Requesting(row[1], row)

\* Only a fan-out that has just made the row starts a request of its own.
OwnRequests ==
    /\ OwnJobs'
    /\ \A m \in Msg, row \in Row :
          Requesting(m, row)' => Requesting(m, row) \/ ~HasRow(row)

\* Tasks whose jobs end, go on or stay start no request.
LEMMA JobsKept ==
    ASSUME TypeOK, OwnJobs,
           \A m \in Msg : \/ job'[m] = NoJob
                          \/ job'[m] = job[m]
                          \/ /\ job[m] # NoJob /\ job'[m].row = job[m].row
                             /\ job'[m].pc \in {"send", "accepted"}
                                   => job[m].pc \in {"send", "accepted"}
    PROVE  OwnRequests
BY DEF OwnRequests, OwnJobs, Requesting, Working

\* No step of the tasks starts a request of a row that a second one could abort.
LEMMA NextOwnRequests ==
    ASSUME TypeOK, OwnJobs, [Next]_vars
    PROVE  OwnRequests
<1> USE DEF TypeOK
<1>0. \A m \in Msg : m \in Worker /\ m # Sweeper
  BY SweeperAssumption DEF Worker
<1>1. ASSUME NEW m \in Msg, Dispatch(m) PROVE OwnRequests
  <2>1. PICK r \in todo[m] :
           job' = [job EXCEPT ![m] = IF Allowed(<<m, r>>) /\ ~HasRow(<<m, r>>)
                                     THEN Attempt(<<m, r>>, 0, 0) ELSE NoJob]
    BY <1>1 DEF Dispatch
  <2>2. <<m, r>> \in Row /\ 0 \in Text /\ 0 \in Nat
    BY <2>1, MaxEditsAssumption DEF Row, Text
  <2>3. Attempt(<<m, r>>, 0, 0).row = <<m, r>>
    BY <2>2, AttemptIsJob
  <2>4. \A n \in Msg : \/ job'[n] = job[n] \/ job'[n] = NoJob
                       \/ n = m /\ job'[n].row = <<m, r>> /\ ~HasRow(<<m, r>>)
    BY <1>0, <2>1, <2>3
  <2>5. OwnJobs'
    <3>1. <<m, r>>[1] = m
      OBVIOUS
    <3>2. QED
      BY <2>4, <3>1 DEF OwnJobs
  <2>6. ASSUME NEW n \in Msg, NEW row \in Row, Requesting(n, row)'
        PROVE  Requesting(n, row) \/ ~HasRow(row)
    <3>1. job'[n] # NoJob /\ job'[n].row = row
      BY <2>6 DEF Requesting, Working
    <3>2. CASE job'[n] = job[n]
      BY <2>6, <3>2 DEF Requesting, Working
    <3>3. CASE job'[n] # job[n]
      BY <2>4, <3>1, <3>3
    <3>4. QED
      BY <3>2, <3>3
  <2>7. QED
    BY <2>5, <2>6 DEF OwnRequests
<1>2. ASSUME NEW w \in Worker, Accept(w) PROVE OwnRequests
  <2>1. job[w] \in Job /\ job[w] # NoJob /\ job[w].pc = "send"
    BY <1>2 DEF Accept, Working
  <2>2. job' = [job EXCEPT ![w].pc = "accepted"]
    BY <1>2 DEF Accept
  <2>3. \A m \in Msg : \/ job'[m] = job[m]
                       \/ m = w /\ job'[m].row = job[m].row
    BY <1>0, <2>1, <2>2 DEF Job
  <2>4. QED
    BY <2>1, <2>3, JobsKept
<1>3. ASSUME NEW w \in Worker, NEW outcome, Concludes(w, outcome), job[w] # NoJob
      PROVE  OwnRequests
  <2>1. job[w] \in Job
    BY <1>3
  <2>2. \A m \in Msg : \/ job'[m] = job[m]
                       \/ m = w /\ job'[m].row = job[m].row /\ job'[m].pc = "mark"
    BY <1>0, <1>3, <2>1 DEF Concludes, Job
  <2>3. QED
    BY <1>3, <2>2, JobsKept
<1>4. ASSUME NEW w \in Worker, Reply(w) \/ LoseReply(w) \/ Refuse(w) PROVE OwnRequests
  BY <1>3, <1>4 DEF Reply, LoseReply, Refuse, Working
<1>5. ASSUME NEW w \in Worker, Mark(w) PROVE OwnRequests
  BY <1>0, <1>5, JobsKept DEF Mark
<1>6. ASSUME NEW item \in batch, SweepTake(item) PROVE OwnRequests
  BY <1>0, <1>6, JobsKept DEF SweepTake
<1>7. ASSUME NEW m \in Msg, FanOutFails(m) PROVE OwnRequests
  BY <1>0, <1>7, JobsKept DEF FanOutFails
<1>8. ASSUME SweepFails PROVE OwnRequests
  BY <1>0, <1>8, JobsKept DEF SweepFails
<1>9. ASSUME Crash PROVE OwnRequests
  BY <1>0, <1>9, JobsKept DEF Crash, NoJobs
<1>10. ASSUME UNCHANGED job PROVE OwnRequests
  BY <1>10, JobsKept
<1>11. ASSUME NEW m \in Msg,
              \/ CreateEvent(m) \/ StoreCommit(m) \/ CheckPending(m) \/ ReconcileCommit(m)
              \/ EditEvent(m) \/ DeleteNext(m) \/ CreateFails(m) \/ DeleteFails(m)
       PROVE  OwnRequests
  BY <1>10, <1>11
  DEF CreateEvent, StoreCommit, CheckPending, ReconcileCommit, EditEvent, DeleteNext,
      DeleteEvent, DeleteCommit, DeleteMiss, CreateFails, DeleteFails
<1>12. ASSUME \/ \E e \in edits : EditCommit(e) \/ EditFails(e)
              \/ \E ids \in SUBSET Msg : BulkDelete(ids)
              \/ SweepRead
              \/ \E row \in Row : Backoff(row)
              \/ UNCHANGED vars
       PROVE  OwnRequests
  BY <1>10, <1>12 DEF EditCommit, EditFails, BulkDelete, SweepRead, Backoff, vars
<1>13. QED
  BY <1>1, <1>2, <1>4, <1>5, <1>6, <1>7, <1>8, <1>9, <1>11, <1>12
  DEF Next, CreateNext, SendNext, FaultNext

\* Relay takes no decision back, so a row that is there stays.
LEMMA RowsKept ==
    ASSUME [R!Next]_(R!vars), NEW row \in Row, HasRow(row)
    PROVE  HasRow(row)'
<1>1. {other \in Row : HasRow(other)} \subseteq {other \in Row : HasRow(other)}'
  BY DEF R!Next, R!vars, R!Archive, R!Decide, R!Copy
<1>2. QED
  BY <1>1

LifecycleInv == LifecycleTypeOK /\ Grounded /\ OwnJobs /\ AbortedOnce

\* A step that counts no aborted attempt keeps what is known of those counted.
LEMMA AbortedKept ==
    ASSUME LifecycleInv, OwnRequests, [R!Next]_(R!vars), UNCHANGED aborted
    PROVE  OwnJobs' /\ AbortedOnce'
<1>1. \A row \in Row : row[1] \in Msg
  BY DEF Row
<1>2. AbortedOnce'
  <2>1. SUFFICES ASSUME NEW row \in Row, aborted[row] > 0
                 PROVE  aborted[row] = 1 /\ HasRow(row)' /\ ~Requesting(row[1], row)'
    BY DEF AbortedOnce
  <2>2. aborted[row] = 1 /\ HasRow(row) /\ ~Requesting(row[1], row)
    BY <2>1 DEF LifecycleInv, AbortedOnce
  <2>3. HasRow(row)'
    BY <2>2, RowsKept
  <2>4. ~Requesting(row[1], row)'
    BY <1>1, <2>2 DEF OwnRequests
  <2>5. QED
    BY <2>2, <2>3, <2>4
<1>3. QED
  BY <1>2 DEF OwnRequests

\* The session is closed only once the sweeper has ended, so the request it aborts
\* is of a fan-out, the only one its row will have.
LEMMA AbortedCounted ==
    ASSUME LifecycleInv, NEW w \in Worker, RequestAborted(w)
    PROVE  OwnJobs' /\ AbortedOnce'
<1> USE DEF LifecycleInv, LifecycleTypeOK
<1> DEFINE own == job[w].row
<1>1. phase = "draining" /\ w \in Msg
  BY DEF RequestAborted, PoolOpen, SessionOpen, Working, Idle, Worker
<1>2. job[w] \in Job /\ job[w] # NoJob /\ own \in Row
  BY DEF RequestAborted, Working, TypeOK, Job
<1>3. own[1] = w /\ HasRow(own) /\ Requesting(w, own)
  BY <1>1, <1>2 DEF OwnJobs, Grounded, JobsGrounded, RequestAborted, Requesting
<1>4. aborted[own] = 0
  BY <1>2, <1>3 DEF AbortedOnce
<1>5. /\ \A m \in Msg : m # w => job'[m] = job[m]
      /\ job'[w].row = own /\ job'[w].pc = "mark"
      /\ UNCHANGED deliveries
      /\ aborted' = [aborted EXCEPT ![own] = @ + 1]
  BY <1>2 DEF RequestAborted, Concludes, TypeOK, Job, archiveVars, Worker
<1>6. OwnJobs'
  BY <1>3, <1>5 DEF OwnJobs
<1>7. AbortedOnce'
  <2>1. SUFFICES ASSUME NEW row \in Row, aborted'[row] > 0
                 PROVE  aborted'[row] = 1 /\ HasRow(row)' /\ ~Requesting(row[1], row)'
    BY DEF AbortedOnce
  <2>2. row[1] \in Msg
    BY DEF Row
  <2>3. CASE row = own
    BY <1>2, <1>3, <1>4, <1>5, <2>3 DEF HasRow, Requesting, Working
  <2>4. CASE row # own
    <3>1. aborted[row] = 1 /\ HasRow(row) /\ ~Requesting(row[1], row)
      BY <1>2, <1>5, <2>1, <2>4 DEF AbortedOnce
    <3>2. aborted'[row] = 1 /\ HasRow(row)'
      BY <1>2, <1>5, <2>4, <3>1 DEF HasRow
    <3>3. ~Requesting(row[1], row)'
      BY <1>5, <2>2, <2>4, <3>1 DEF Requesting, Working
    <3>4. QED
      BY <3>1, <3>2, <3>3
  <2>5. QED
    BY <2>3, <2>4
<1>8. QED
  BY <1>6, <1>7

\* Nothing is aborted before the first start.
LEMMA LifecycleInitInv == LifecycleInit => LifecycleInv
<1>1. SUFFICES ASSUME LifecycleInit PROVE LifecycleInv
  OBVIOUS
<1>2. TypeOK /\ Grounded
  BY <1>1, InitTypes, InitGrounded DEF LifecycleInit
<1>3. LifecycleTypeOK
  BY <1>1, <1>2, MaxStartsAssumption DEF LifecycleInit, LifecycleTypeOK, Init, Phase
<1>4. OwnJobs /\ AbortedOnce
  BY <1>1 DEF LifecycleInit, Init, NoJobs, OwnJobs, AbortedOnce, Worker
<1>5. QED
  BY <1>2, <1>3, <1>4 DEF LifecycleInv

\* Every step of the process, from start to end, preserves the invariant.
LEMMA LifecycleNextInv ==
    ASSUME LifecycleInv, [LifecycleNext]_allVars
    PROVE  LifecycleInv'
<1> USE DEF LifecycleInv
<1>0. TypeOK /\ \A m \in Msg : m \in Worker /\ m # Sweeper
  BY SweeperAssumption DEF LifecycleTypeOK, Worker
<1>1. TypeOK' /\ Grounded' /\ [R!Next]_(R!vars)
  BY <1>0, StepSound DEF Sound
<1>2. LifecycleTypeOK'
  BY <1>1, PhaseTypes
<1>3. ASSUME OwnRequests, UNCHANGED aborted PROVE LifecycleInv'
  BY <1>1, <1>2, <1>3, AbortedKept
<1>4. ASSUME UNCHANGED job, UNCHANGED aborted PROVE LifecycleInv'
  BY <1>0, <1>3, <1>4, JobsKept
<1>5. ASSUME \/ \E m \in Msg : Events(m) \/ Statement(m) \/ Resume(m)
             \/ Sweep \/ Elapses
      PROVE  LifecycleInv'
  <2>1. OwnRequests
    BY <1>0, <1>5, TasksAreNext, NextOwnRequests
  <2>2. UNCHANGED aborted
    BY <1>5 DEF Events, Statement, Resume, Sweep, Elapses, lifeVars
  <2>3. QED
    BY <1>3, <2>1, <2>2
<1>6. ASSUME Start \/ Load \/ Signal \/ CancelSweeper \/ CloseSession \/ ClosePool
             \/ UNCHANGED allVars
      PROVE  LifecycleInv'
  BY <1>4, <1>6 DEF Start, Load, Signal, CancelSweeper, CloseSession, ClosePool, Enter, vars,
                    allVars, lifeVars
<1>7. ASSUME Gone PROVE LifecycleInv'
  BY <1>0, <1>3, <1>7, JobsKept DEF Gone, NoJobs
<1>8. ASSUME SweeperEnds PROVE LifecycleInv'
  BY <1>0, <1>3, <1>8, JobsKept DEF SweeperEnds, Enter, TypeOK
<1>9. ASSUME NEW m \in Msg, SendRaises(m) PROVE LifecycleInv'
  BY <1>0, <1>3, <1>9, JobsKept DEF SendRaises, TypeOK, lifeVars
<1>10. ASSUME NEW m \in Msg, DispatchUnsent(m) PROVE LifecycleInv'
  BY <1>4, <1>10 DEF DispatchUnsent, lifeVars
<1>11. ASSUME NEW w \in Worker, RequestAborted(w) PROVE LifecycleInv'
  BY <1>1, <1>2, <1>11, AbortedCounted
<1>12. QED
  BY <1>5, <1>6, <1>7, <1>8, <1>9, <1>10, <1>11 DEF LifecycleNext, Exit, Kill

\* The phases hold and what is known of aborted attempts stays true.
LEMMA LifecycleInvariance == LifecycleSpec => []LifecycleInv
<1>1. LifecycleInit => LifecycleInv
  BY LifecycleInitInv
<1>2. LifecycleInv /\ [LifecycleNext]_allVars => LifecycleInv'
  BY LifecycleNextInv
<1>3. QED
  BY <1>1, <1>2, PTL DEF LifecycleSpec

\* A process that is down or loading holds nothing, and the sweeper has ended
\* before the session is closed, from any moment of the shutdown on.
THEOREM PhasesHold == LifecycleSpec => []LifecycleTypeOK
<1>1. LifecycleInv => LifecycleTypeOK
  BY DEF LifecycleInv
<1>2. QED
  BY <1>1, LifecycleInvariance, PTL

\* However often the process is started and stopped, a row loses at most one
\* attempt to closing sessions.
THEOREM StopsAreCheap == LifecycleSpec => []StopsCostOneAttempt
<1>1. ASSUME LifecycleInv PROVE StopsCostOneAttempt
  <2>1. SUFFICES ASSUME NEW row \in Row PROVE aborted[row] <= 1
    BY DEF StopsCostOneAttempt
  <2>2. aborted[row] \in Nat /\ (aborted[row] > 0 => aborted[row] = 1)
    BY <1>1 DEF LifecycleInv, LifecycleTypeOK, AbortedOnce
  <2>3. QED
    BY <2>2
<1>2. QED
  BY <1>1, LifecycleInvariance, PTL

\* The routes by name are those that the file says, when no name stands twice.
LEMMA ConfigAsRouted ==
    ASSUME NEW file \in File, NEW env \in Env, Usable(file, env), NEW routes,
           ToSet(routes) = {ReadOf(file[i]) : i \in Enabled(file)}, NEW r \in Route
    PROVE  ConfigOf(routes)[r] = Routed(file, r)
<1>1. \A i \in Enabled(file) : file[i].target \in Var \cup {NoVar}
  <2>1. \A i \in DOMAIN file : file[i] \in Entry
    BY DEF File
  <2>2. \A entry \in Entry : entry.target \in Var \cup {NoVar}
    BY DEF Entry
  <2>3. QED
    BY <2>1, <2>2 DEF Enabled
<1>2. \A i, j \in Enabled(file) : file[i].name = file[j].name => i = j
  BY DEF Usable
<1>3. r \in Names(routes) <=> \E i \in Enabled(file) : file[i].name = r
  <2>1. Names(routes) = {route.name : route \in ToSet(routes)}
    BY DEF Names, ToSet
  <2>2. \A i \in Enabled(file) : ReadOf(file[i]).name = file[i].name
    BY DEF ReadOf
  <2>3. QED
    BY <2>1, <2>2
<1>4. (\E i \in DOMAIN routes : routes[i] = [name |-> r, target |-> NoVar])
         <=> \E i \in Enabled(file) : file[i].name = r /\ file[i].target = NoVar
  <2>1. (\E i \in DOMAIN routes : routes[i] = [name |-> r, target |-> NoVar])
           <=> [name |-> r, target |-> NoVar] \in ToSet(routes)
    BY DEF ToSet
  <2>2. \A i \in Enabled(file) :
           ReadOf(file[i]) = [name |-> r, target |-> NoVar]
              <=> file[i].name = r /\ file[i].target = NoVar
    BY DEF ReadOf
  <2>3. QED
    BY <2>1, <2>2
<1>5. ASSUME NEW i \in Enabled(file), file[i].name = r
      PROVE  (\E j \in Enabled(file) : file[j].name = r /\ file[j].target = NoVar)
                <=> ~ \E j \in Enabled(file) : file[j].name = r /\ file[j].target \in Var
  BY <1>1, <1>2, <1>5, NamesAssumption
<1>6. QED
  BY <1>3, <1>4, <1>5 DEF ConfigOf, Routed

\* The process runs if the file is usable as a whole, and then on what it says,
\* for files of any length with any entries.
THEOREM RunsOnTheFile == LifecycleSpec => LoadedAsWritten
<1>1. ASSUME LifecycleTypeOK, Load
      PROVE  /\ phase' = "running" <=> Usable(input.file, input.env)
             /\ phase' = "running" => \A r \in Route : config'[r] = Routed(input.file, r)
  <2> DEFINE file == input.file
             env == input.env
             loaded == LoadSettings(file, env)
  <2>1. /\ file \in File /\ env \in Env
        /\ phase' = IF loaded.ok THEN "running" ELSE "down"
        /\ config' = IF loaded.ok THEN ConfigOf(loaded.routes) ELSE NoSettings
    BY <1>1, FilesAssumption DEF LifecycleTypeOK, Load
  <2> HIDE DEF file, env, loaded
  <2>2. /\ loaded.ok <=> Usable(file, env)
        /\ loaded.ok => ToSet(loaded.routes) = {ReadOf(file[i]) : i \in Enabled(file)}
    BY <2>1, SettingsRead DEF loaded
  <2>3. ASSUME loaded.ok, NEW r \in Route PROVE config'[r] = Routed(file, r)
    BY <2>1, <2>2, <2>3, ConfigAsRouted
  <2>4. QED
    BY <2>1, <2>2, <2>3 DEF file, env
<1>2. LifecycleTypeOK =>
         (Load => /\ phase' = "running" <=> Usable(input.file, input.env)
                  /\ phase' = "running" =>
                        \A r \in Route : config'[r] = Routed(input.file, r))
  BY <1>1
<1>3. QED
  BY <1>2, PhasesHold, PTL DEF LoadedAsWritten
=============================================================================
