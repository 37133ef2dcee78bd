------------------------------ MODULE Lifecycle -----------------------------
(***************************************************************************)
(* The ingest process from start to end, ingest/src/resender/__main__.py:  *)
(* main() loads the settings (Routes), _run() starts what Pipeline models  *)
(* and takes it down in order: the sweeper is cancelled and awaited, the   *)
(* gateway client is closed, then the webhook session, then the connection *)
(* pool.  Handlers of gateway events are nobody's children: they go on     *)
(* through all of this until asyncio.run cancels them at the end.          *)
(*                                                                         *)
(* A service manager starts the process again and may kill it at any time. *)
(***************************************************************************)
EXTENDS Pipeline, Routes

CONSTANTS
    Files,      \* contents of routes.yaml
    Envs,       \* environments
    MaxStarts   \* bound: starts in one behaviour

ASSUME FilesAssumption == Files \subseteq File /\ Envs \subseteq Env
ASSUME NamesAreRoutes == Name = Route
ASSUME AllConfigs == Configs = [Route -> {"forward", "archive", "absent"}]
ASSUME MaxStartsAssumption == MaxStarts \in Nat

VARIABLES
    phase,     \* how far the process is
    input,     \* what main() is loading: a file and an environment
    starts,    \* starts so far
    aborted    \* per row: attempts counted that the closing session has ended

lifeVars == <<phase, input, starts, aborted>>
allVars == <<vars, lifeVars>>

Phase == {"down", "loading", "running", "signalled", "cancelling", "closing",
          "draining", "releasing"}

NoInput == [file |-> <<>>, env |-> <<>>]

NoSettings == [r \in Route |-> "absent"]

\* A process that is down, or loading, holds nothing.
LifecycleTypeOK ==
    /\ TypeOK
    /\ phase \in Phase
    /\ IF phase = "loading" THEN input.file \in Files /\ input.env \in Envs
                            ELSE input = NoInput
    /\ starts \in 0 .. MaxStarts
    /\ aborted \in [Row -> Nat]
    /\ phase \in {"down", "loading"} =>
          /\ config = NoSettings /\ create = NoHandler /\ todo = NoFanOut
          /\ job = NoJobs /\ del = NoHandler /\ edits = {} /\ pending = <<>>
          /\ batch = {}
    /\ phase \in {"closing", "draining", "releasing"} => Idle(Sweeper) /\ batch = {}

LifecycleInit ==
    /\ Init
    /\ config = NoSettings
    /\ phase = "down"
    /\ input = NoInput
    /\ starts = 0
    /\ aborted = [row \in Row |-> 0]

-----------------------------------------------------------------------------
(* main() *)

\* The file and the environment are read once, at the start.
Start ==
    /\ phase = "down"
    /\ starts < MaxStarts
    /\ starts' = starts + 1
    /\ phase' = "loading"
    /\ \E file \in Files, env \in Envs : input' = [file |-> file, env |-> env]
    /\ UNCHANGED <<vars, aborted>>

\* The routes by name.
ConfigOf(routes) ==
    [r \in Route |->
        IF r \notin Names(routes) THEN "absent"
        ELSE IF \E i \in DOMAIN routes : routes[i] = [name |-> r, target |-> NoVar]
        THEN "archive" ELSE "forward"]

Load ==
    /\ phase = "loading"
    /\ LET loaded == LoadSettings(input.file, input.env)
       IN  /\ phase' = IF loaded.ok THEN "running" ELSE "down"
           /\ config' = IF loaded.ok THEN ConfigOf(loaded.routes) ELSE NoSettings
    /\ input' = NoInput
    /\ UNCHANGED <<archiveVars, gateway, latest, handlerVars, job, copies, faults,
                   starts, aborted>>

\* Nothing of the process is left.
Gone ==
    /\ phase' = "down"
    /\ config' = NoSettings
    /\ create' = NoHandler /\ todo' = NoFanOut /\ job' = NoJobs
    /\ del' = NoHandler /\ edits' = {} /\ pending' = <<>> /\ batch' = {}
    /\ gateway' = [m \in Msg |-> IF gateway[m] = "session" THEN "past"
                                 ELSE gateway[m]]
    /\ input' = NoInput
    /\ UNCHANGED <<archiveVars, latest, copies, faults, starts, aborted>>

\* A second stop, the service manager's kill after its grace period, or a crash.
Kill == phase # "down" /\ Gone

-----------------------------------------------------------------------------
(* What runs in which phase. *)

\* The gateway delivers events.
Connected == phase = "running"

\* The sweeper has not been cancelled.
Sweeping == phase \in {"running", "signalled"}

\* forwarder.close() has not begun.
SessionOpen == phase \in {"running", "signalled", "cancelling", "closing"}

\* database.close() has not begun, so a statement may start ...
PoolOpen == SessionOpen \/ phase = "draining"

\* ... and close() waits for those that have.
StatementsRun == PoolOpen \/ phase = "releasing"

Events(m) ==
    /\ Connected
    /\ CreateEvent(m) \/ EditEvent(m) \/ DeleteEvent(m) \/ BulkDelete({m})
    /\ UNCHANGED lifeVars

Statement(m) ==
    /\ StatementsRun
    /\ \/ StoreCommit(m) \/ ReconcileCommit(m) \/ DeleteCommit(m) \/ Mark(m)
       \/ \E e \in edits : e[1] = m /\ EditCommit(e)
    /\ UNCHANGED lifeVars

\* The handlers' steps in between.  With the pool closed the next statement
\* raises, so a handler that is at one of them has come to its end.
Resume(m) ==
    /\ \/ PoolOpen /\ CheckPending(m)
       \/ StatementsRun /\ DeleteMiss(m)
       \/ SessionOpen /\ (Dispatch(m) \/ Accept(m) \/ Reply(m) \/ Refuse(m))
    /\ UNCHANGED lifeVars

Sweep ==
    /\ Sweeping
    /\ \/ SweepRead
       \/ \E item \in batch : SweepTake(item)
       \/ PoolOpen /\ Mark(Sweeper)
       \/ SessionOpen /\ (Accept(Sweeper) \/ Reply(Sweeper) \/ Refuse(Sweeper))
    /\ UNCHANGED lifeVars

Elapses ==
    /\ \E row \in Row : Backoff(row)
    /\ UNCHANGED lifeVars

\* The session is closed under a request: aiohttp raises a ClientError, which
\* deliver() records as an attempt that failed.
RequestAborted(w) ==
    /\ PoolOpen /\ ~SessionOpen
    /\ Working(w, "send") \/ Working(w, "accepted")
    /\ Concludes(w, "retryable")
    /\ aborted' = [aborted EXCEPT ![job[w].row] = @ + 1]
    /\ UNCHANGED <<faults, phase, input, starts>>

\* The session is closed before the request: AttributeError or RuntimeError.
SendRaises(m) ==
    /\ PoolOpen /\ ~SessionOpen
    /\ Working(m, "send")
    /\ job' = [job EXCEPT ![m] = NoJob]
    /\ todo' = [todo EXCEPT ![m] = {}]
    /\ UNCHANGED <<archiveVars, sourceVars, create, del, edits, pending, batch,
                   copies, faults, lifeVars>>

\* The loop over the routes commits one more row; if that is to be sent, send()
\* raises, and with the pool closed the next statement does.
DispatchUnsent(m) ==
    /\ StatementsRun /\ ~SessionOpen
    /\ Idle(m)
    /\ \E r \in todo[m] :
         /\ \A other \in todo[m] : r <= other
         /\ QueueDelivery(<<m, r>>, IF Allowed(<<m, r>>) THEN "PENDING" ELSE "SKIPPED")
         /\ todo' = [todo EXCEPT ![m] = IF PoolOpen /\ ~Allowed(<<m, r>>)
                                        THEN @ \ {r} ELSE {}]
    /\ UNCHANGED <<messages, sourceVars, create, job, del, edits, pending, batch,
                   copies, faults, lifeVars>>

-----------------------------------------------------------------------------
(* _run(), from the signal to its end. *)

Enter(from, to) ==
    /\ phase = from
    /\ phase' = to
    /\ UNCHANGED <<input, starts, aborted>>

\* SIGTERM, SIGINT, or a gateway connection that is over: the client closes.
Signal == Enter("running", "signalled") /\ UNCHANGED vars

\* client.start returns; sweeper.cancel().
CancelSweeper == Enter("signalled", "cancelling") /\ UNCHANGED vars

\* Mutant: the retry loop takes the cancellation for one more failed sweep.
SweeperSwallows ==
    /\ phase = "cancelling"
    /\ job' = [job EXCEPT ![Sweeper] = NoJob]
    /\ batch' = {}
    /\ UNCHANGED <<archiveVars, sourceVars, create, todo, del, edits, pending,
                   copies, faults, lifeVars>>

\* Mutant: the sweeper is cancelled and not awaited.
SweeperUnawaited == Enter("cancelling", "closing") /\ UNCHANGED vars

\* CancelledError ends the sweeper at its await, whichever that is; a statement
\* that is under way may commit nevertheless.
SweeperEnds ==
    /\ Enter("cancelling", "closing")
    /\ job' = [job EXCEPT ![Sweeper] = NoJob]
    /\ batch' = {}
    /\ \/ UNCHANGED deliveries
       \/ Working(Sweeper, "mark") /\ RecordOutcome(job[Sweeper])
    /\ UNCHANGED <<messages, sourceVars, create, todo, del, edits, pending,
                   copies, faults>>

\* client.close() returns, forwarder.close().
CloseSession == Enter("closing", "draining") /\ UNCHANGED vars

\* database.close()
ClosePool == Enter("draining", "releasing") /\ UNCHANGED vars

Executing(m) ==
    \/ create[m] \in {"store", "reconcile"}
    \/ del[m] = "record"
    \/ Working(m, "mark")
    \/ \E e \in edits : e[1] = m

\* The pool is closed; asyncio.run cancels what is left of the handlers.
Exit ==
    /\ phase = "releasing"
    /\ \A m \in Msg : ~Executing(m)
    /\ Gone

-----------------------------------------------------------------------------
LifecycleNext ==
    \/ Start \/ Load \/ Signal \/ CancelSweeper \/ SweeperEnds \/ CloseSession
    \/ ClosePool \/ Exit \/ Kill
    \/ \E m \in Msg : Events(m) \/ Statement(m) \/ Resume(m) \/ SendRaises(m)
                      \/ DispatchUnsent(m)
    \/ \E w \in Worker : RequestAborted(w)
    \/ Sweep
    \/ Elapses

LifecycleSpec == LifecycleInit /\ [][LifecycleNext]_allVars

\* _run() is not starved and statements return.
LifecycleFairSpec ==
    /\ LifecycleSpec
    /\ WF_allVars(CancelSweeper)
    /\ WF_allVars(SweeperEnds)
    /\ WF_allVars(CloseSession)
    /\ WF_allVars(ClosePool)
    /\ WF_allVars(Exit)
    /\ \A m \in Msg : WF_allVars(Statement(m))

-----------------------------------------------------------------------------
(* Correctness. *)

\* config.py, test_config.py: the process runs only on a file that is usable as
\* a whole, and then on what the file says; a variable that is not set is an
\* error and not a silent archive, a name stands once, a disabled entry counts
\* for nothing, whatever it holds.
LoadedAsWritten ==
    [][Load => /\ phase' = "running" <=> Usable(input.file, input.env)
               /\ phase' = "running" =>
                     \A r \in Route : config'[r] = Routed(input.file, r)]_allVars

\* __main__.py takes the sweeper down before the session: however often the
\* process is stopped, a row loses at most its first attempt to a closed session,
\* so stops do not eat up the attempts of a delivery.
StopsCostOneAttempt == \A row \in Row : aborted[row] <= 1

\* Whatever is in flight when it is asked to, the process stops.
Stops == phase = "signalled" ~> phase = "down"
=============================================================================
