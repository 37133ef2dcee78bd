----------------------------- MODULE RetrySweep -----------------------------
(***************************************************************************)
(* The retry sweep in the order of its query: retry_due of                 *)
(* ingest/src/resender/pipeline.py over due_deliveries of db.py, which     *)
(* reads the oldest rows whose next_attempt_at has passed, SweepLimit of   *)
(* them.  Module Pipeline leaves that order open; here the rows it ranges  *)
(* over outnumber the limit, some belong to routes that are gone, and some *)
(* to webhooks whose answer send() cannot read.                            *)
(*                                                                         *)
(* next_attempt_at is kept as a position: schedule holds the PENDING rows  *)
(* in its order.  The rows that are due stand in front, since now() passes *)
(* the timestamps in their order.                                          *)
(***************************************************************************)
EXTENDS Archive, Selection, SequencesExt

CONSTANTS
    Configs,      \* what routes.yaml, and the webhooks, may be at a start
    SweepLimit,   \* the LIMIT of the due query
    MaxFaults     \* bound: failed statements, lost answers and restarts

\* "broken" is a webhook to which every attempt raises what deliver() does not
\* catch: a 429 with neither a JSON body nor a number in Retry-After, or an
\* error whose body cannot be decoded.
Mode == {"forward", "broken", "archive", "absent"}

ASSUME ConfigsAssumption == Configs \subseteq [Route -> Mode]
ASSUME BoundsAssumption == SweepLimit \in Nat \ {0} /\ MaxFaults \in Nat

VARIABLES
    config,    \* per route: is it there, has it a webhook, of which kind
    todo,      \* per message: routes its fan-out has not reached yet
    first,     \* rows whose first attempt, in the fan-out, is in flight
    schedule,  \* the PENDING rows by next_attempt_at
    batch,     \* what is left of the rows the sweep has read
    faults     \* faults so far

vars == <<messages, deliveries, config, todo, first, schedule, batch, faults>>

Item == [row : Row, attempts : Nat]

Pending(row) == deliveries[row].status = "PENDING"

\* A schedule is the PENDING rows, each once, those that are due in front.
TypeOK ==
    /\ ArchiveTypeOK
    /\ config \in Configs
    /\ todo \in [Msg -> SUBSET Route]
    /\ first \subseteq Row
    /\ batch \in Seq(Item) /\ Len(batch) <= SweepLimit
    /\ faults \in 0 .. MaxFaults
    /\ schedule \in Seq(Row)
    /\ ToSet(schedule) = {row \in Row : Pending(row)}
    /\ IsInjective(schedule)
    /\ \A i, j \in DOMAIN schedule :
          i < j /\ deliveries[schedule[j]].due => deliveries[schedule[i]].due

Init ==
    /\ ArchiveInit
    /\ config \in Configs
    /\ todo = [m \in Msg |-> {}]
    /\ first = {}
    /\ schedule = <<>>
    /\ batch = <<>>
    /\ faults = 0

Forwards(r) == config[r] \in {"forward", "broken"}

-----------------------------------------------------------------------------
(* The schedule. *)

IsDue(row) == deliveries[row].due

\* next_attempt_at is now(): after every row that is due, before all others.
ScheduleNow(row) ==
    \E i \in 1 .. Len(schedule) + 1 :
        /\ \A j \in DOMAIN schedule : IsDue(schedule[j]) <=> j < i
        /\ schedule' = InsertAt(schedule, i, row)

Without(row) == Pick(schedule, {i \in DOMAIN schedule : schedule[i] # row})

Unschedule(row) == schedule' = Without(row)

\* Mutant: the backoff is left out, the row keeps its next_attempt_at.
RescheduleNowhere(row) ==
    schedule' = IF row \in ToSet(schedule) THEN schedule ELSE Append(schedule, row)

\* next_attempt_at is in the future; how it stands to the others that are
\* depends on their delays.
Reschedule(row) ==
    \E i \in 1 .. Len(Without(row)) + 1 :
        /\ \A j \in DOMAIN Without(row) : IsDue(Without(row)[j]) => j < i
        /\ schedule' = InsertAt(Without(row), i, row)

\* now() passes the next timestamp.
Elapse ==
    /\ \E i \in DOMAIN schedule :
         /\ \A j \in 1 .. i - 1 : IsDue(schedule[j])
         /\ BackoffElapses(schedule[i])
    /\ UNCHANGED <<config, todo, first, schedule, batch, faults>>

\* deliver() ends: what send() returned or raised, and the mark for it.
Delivered(row) == MarkDelivered(row) /\ Unschedule(row)

Skipped(row) == MarkSkipped(row) /\ Unschedule(row)

Failed(row, attempts) ==
    \E retryable \in BOOLEAN :
        /\ MarkAttemptFailed(row, attempts, retryable)
        /\ IF Exhausted(attempts, retryable) THEN Unschedule(row) ELSE Reschedule(row)

Deliver(row, attempts) ==
    /\ config[row[2]] = "forward"
    /\ Delivered(row) \/ Skipped(row) \/ Failed(row, attempts)

-----------------------------------------------------------------------------
(* The fan-out, up to the first attempt of each row. *)

\* ingest() has stored a message and enters its loop over the routes.
Store(m) ==
    /\ ~Stored(m)
    /\ StoreMessage(m)
    /\ todo' = [todo EXCEPT ![m] = {r \in Route : Forwards(r)}]
    /\ UNCHANGED <<deliveries, config, first, schedule, batch, faults>>

\* queue_delivery for the next route, and deliver().
Queue(m) ==
    /\ \A row \in first : row[1] # m
    /\ \E r \in todo[m] :
         /\ \A other \in todo[m] : r <= other
         /\ QueueDelivery(<<m, r>>, "PENDING")
         /\ ScheduleNow(<<m, r>>)
         /\ todo' = [todo EXCEPT ![m] = @ \ {r}]
         /\ first' = first \cup {<<m, r>>}
    /\ UNCHANGED <<messages, config, batch, faults>>

FirstEnds(row) ==
    /\ row \in first
    /\ Deliver(row, 0)
    /\ first' = first \ {row}
    /\ UNCHANGED <<messages, config, todo, batch, faults>>

\* Raising is the only outcome of an attempt at a broken webhook, and a fault of
\* any other.
Raises(row) ==
    IF config[row[2]] = "broken"
    THEN UNCHANGED faults
    ELSE faults < MaxFaults /\ faults' = faults + 1

\* The exception leaves the loop over the routes.
FirstRaises(row) ==
    /\ row \in first
    /\ Raises(row)
    /\ first' = first \ {row}
    /\ todo' = [todo EXCEPT ![row[1]] = {}]
    /\ UNCHANGED <<archiveVars, config, schedule, batch>>

-----------------------------------------------------------------------------
(* The sweep. *)

\* Mutant: ORDER BY next_attempt_at DESC.
DueInOrderReversed ==
    Reverse(Pick(schedule, {i \in DOMAIN schedule : schedule[i] \in DueRows}))

DueInOrder == Pick(schedule, {i \in DOMAIN schedule : schedule[i] \in DueRows})

\* The sweeper sleeps out its interval between two reads; a read may find nothing.
SweepRead ==
    /\ batch = <<>>
    /\ LET read == {i \in DOMAIN DueInOrder : i <= SweepLimit}
       IN  batch' = [i \in read |-> [row      |-> DueInOrder[i],
                                     attempts |-> deliveries[DueInOrder[i]].attempts]]
    /\ UNCHANGED <<archiveVars, config, todo, first, schedule, faults>>

\* Mutant: an unknown route ends the sweep.
SweepSkipReturns ==
    /\ batch # <<>>
    /\ ~Forwards(Head(batch).row[2])
    /\ batch' = <<>>
    /\ UNCHANGED <<archiveVars, config, todo, first, schedule, faults>>

\* The route is unknown, or has no webhook: the row stays as it is, due.
SweepSkip ==
    /\ batch # <<>>
    /\ ~Forwards(Head(batch).row[2])
    /\ batch' = Tail(batch)
    /\ UNCHANGED <<archiveVars, config, todo, first, schedule, faults>>

SweepDeliver ==
    /\ batch # <<>>
    /\ Deliver(Head(batch).row, Head(batch).attempts)
    /\ batch' = Tail(batch)
    /\ UNCHANGED <<messages, config, todo, first, faults>>

\* run_retry_loop logs the exception; the row and the rest of the batch are as
\* they were before the sweep.
SweepRaises ==
    /\ batch # <<>>
    /\ Forwards(Head(batch).row[2])
    /\ Raises(Head(batch).row)
    /\ batch' = <<>>
    /\ UNCHANGED <<archiveVars, config, todo, first, schedule>>

\* The process ends and starts again; the schedule is in the table.
Restart ==
    /\ faults < MaxFaults
    /\ faults' = faults + 1
    /\ config' \in Configs
    /\ todo' = [m \in Msg |-> {}]
    /\ first' = {}
    /\ batch' = <<>>
    /\ UNCHANGED <<archiveVars, schedule>>

-----------------------------------------------------------------------------
Next ==
    \/ \E m \in Msg : Store(m) \/ Queue(m)
    \/ \E row \in Row : FirstEnds(row) \/ FirstRaises(row)
    \/ Elapse
    \/ SweepRead \/ SweepSkip \/ SweepDeliver \/ SweepRaises
    \/ Restart

Spec == Init /\ [][Next]_vars

\* Time passes, the sweep loop does not end and each of its attempts does.
\* Nothing is assumed of the fan-out.
FairSpec ==
    /\ Spec
    /\ WF_vars(Elapse)
    /\ WF_vars(SweepRead)
    /\ WF_vars(SweepSkip \/ SweepDeliver \/ SweepRaises)

-----------------------------------------------------------------------------
(* Correctness. *)

Position(row) == CHOOSE i \in DOMAIN schedule : schedule[i] = row

\* Due rows that the next sweeps read before row.
Ahead(row) ==
    {other \in DueRows : Position(other) < Position(row)}

\* db.py, ORDER BY next_attempt_at: although the sweep works from a snapshot
\* while rows are queued, marked and rescheduled beside it, it attempts no row
\* while an older one that it may send is due.  The exception is a row that the
\* fan-out has rescheduled after the snapshot.
NoOvertaking ==
    [][\A row \in Row :
          (/\ SweepDeliver
           /\ Head(batch).row = row
           /\ row \in DueRows
           /\ Head(batch).attempts = deliveries[row].attempts)
              => \A other \in Ahead(row) : ~Forwards(other[2])]_vars

\* The row waits for a sweep that will send it.
Waiting(row) == row \in DueRows /\ Forwards(row[2])

\* What keeps the sweep from a row: as many rows of unknown or archive-only
\* routes as the query returns, or a row whose attempt raises, in front of it.
Barred(row) ==
    \/ config[row[2]] = "broken"
    \/ \E other \in Ahead(row) : config[other[2]] = "broken"
    \/ Cardinality({other \in Ahead(row) : ~Forwards(other[2])}) >= SweepLimit

\* Nothing else keeps it: behind any backlog, with fewer dead rows than the
\* limit, and with failing statements and restarts, a due row gets its attempt.
TurnComes == \A row \in Row : Waiting(row) ~> (~Waiting(row) \/ Barred(row))

\* docs/operations.md: a message that is stored and not yet delivered "keeps its
\* PENDING delivery row and is retried".
DueIsRetried == \A row \in Row : Waiting(row) ~> ~Waiting(row)
=============================================================================
