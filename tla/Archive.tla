------------------------------ MODULE Archive -------------------------------
(***************************************************************************)
(* The two PostgreSQL tables that the ingest process and the API share     *)
(* (api/prisma/schema.prisma) and the statements that ingest runs on them  *)
(* (ingest/src/resender/db.py).  Every statement is one auto-committed     *)
(* transaction that touches one row, so it is one operator that primes one *)
(* table; what the statement returns is a state predicate to be evaluated  *)
(* in the same step.                                                       *)
(***************************************************************************)
EXTENDS Naturals, FiniteSets

CONSTANTS
    Msg,          \* snowflakes of the messages posted in watched channels
    NumRoutes,    \* routes of config/routes.yaml, in file order
    MaxAttempts,  \* Settings.max_delivery_attempts
    MaxEdits      \* how many times the source may edit a message

ASSUME MsgAssumption == IsFiniteSet(Msg)
ASSUME NumRoutesAssumption == NumRoutes \in Nat
ASSUME MaxAttemptsAssumption == MaxAttempts \in Nat \ {0}
ASSUME MaxEditsAssumption == MaxEdits \in Nat

Route == 1 .. NumRoutes

\* The key of a delivery, (message_id, route).
Row == Msg \X Route

\* A message's content, by the number of edits made at the source: 0 is the
\* original.  search_text, embeds and attachments are functions of it.
Text == 0 .. MaxEdits

VARIABLES
    messages,     \* the table messages: is the row there, is deleted_at set
    deliveries    \* the table deliveries; "none" where there is no row

archiveVars == <<messages, deliveries>>

MessageRow == [state : {"absent", "live", "deleted"}, text : Text]

\* due abstracts next_attempt_at <= now().
DeliveryRow ==
    [status   : {"none", "PENDING", "DELIVERED", "FAILED", "SKIPPED"},
     attempts : Nat,
     due      : BOOLEAN]

ArchiveTypeOK ==
    /\ messages \in [Msg -> MessageRow]
    /\ deliveries \in [Row -> DeliveryRow]

NoDelivery == [status |-> "none", attempts |-> 0, due |-> FALSE]

ArchiveInit ==
    /\ messages = [m \in Msg |-> [state |-> "absent", text |-> 0]]
    /\ deliveries = [row \in Row |-> NoDelivery]

Stored(m) == messages[m].state # "absent"

HasRow(row) == deliveries[row].status # "none"

-----------------------------------------------------------------------------
(* Statements on messages. *)

\* Mutant: ON CONFLICT DO UPDATE, as for an upsert.
StoreMessageUpsert(m) ==
    messages' = [messages EXCEPT ![m] = [state |-> "live", text |-> 0]]

\* INSERT ... ON CONFLICT (id) DO NOTHING; returns a row iff ~Stored(m).
StoreMessage(m) ==
    messages' = [messages EXCEPT
                   ![m] = IF Stored(m) THEN @ ELSE [state |-> "live", text |-> 0]]

\* UPDATE ... WHERE id = $1: no guard on edited_at and none on deleted_at.
RecordEdit(m, text) ==
    messages' = [messages EXCEPT ![m].text = IF Stored(m) THEN text ELSE @]

\* UPDATE ... SET deleted_at = now() WHERE deleted_at IS NULL over a set of ids;
\* the single delete is the one-element case.
SoftDelete(ids) ==
    messages' = [m \in Msg |->
                   IF m \in ids /\ messages[m].state = "live"
                   THEN [messages[m] EXCEPT !.state = "deleted"]
                   ELSE messages[m]]

\* What record_delete returns: did the statement flip a live row?
Deletable(m) == messages[m].state = "live"

-----------------------------------------------------------------------------
(* Statements on deliveries. *)

\* INSERT ... ON CONFLICT (message_id, route) DO NOTHING; next_attempt_at
\* defaults to now(), so a PENDING row is due at once.
QueueDelivery(row, status) ==
    deliveries' = [deliveries EXCEPT
                     ![row] = IF HasRow(row)
                              THEN @
                              ELSE [status |-> status, attempts |-> 0, due |-> TRUE]]

\* Mutant: the attempt that succeeds is not counted.
MarkDeliveredUncounted(row) ==
    deliveries' = [deliveries EXCEPT ![row].status = "DELIVERED"]

\* Mutant: a row is removed once it is delivered, as from a queue.
MarkDeliveredRemoves(row) ==
    deliveries' = [deliveries EXCEPT ![row] = NoDelivery]

\* None of the three marks looks at the status it overwrites.
MarkDelivered(row) ==
    deliveries' = [deliveries EXCEPT
                     ![row].status = "DELIVERED", ![row].attempts = @ + 1]

MarkSkipped(row) ==
    deliveries' = [deliveries EXCEPT ![row].status = "SKIPPED"]

\* Mutant: the attempt that fails now is counted twice.
ExhaustedEarly(attemptsSoFar, retryable) ==
    ~retryable \/ attemptsSoFar + 2 >= MaxAttempts

\* attemptsSoFar is the caller's copy of the counter; the counter in the row is
\* incremented by the statement itself.
Exhausted(attemptsSoFar, retryable) ==
    ~retryable \/ attemptsSoFar + 1 >= MaxAttempts

\* Mutant: a status that the enum delivery_status does not have.
MarkAttemptFailedRetrying(row, attemptsSoFar, retryable) ==
    deliveries' = [deliveries EXCEPT
                     ![row] = [status   |-> IF Exhausted(attemptsSoFar, retryable)
                                            THEN "FAILED" ELSE "RETRYING",
                               attempts |-> @.attempts + 1,
                               due      |-> FALSE]]

MarkAttemptFailed(row, attemptsSoFar, retryable) ==
    deliveries' = [deliveries EXCEPT
                     ![row] = [status   |-> IF Exhausted(attemptsSoFar, retryable)
                                            THEN "FAILED" ELSE "PENDING",
                               attempts |-> @.attempts + 1,
                               due      |-> FALSE]]

\* Mutant: the query forgets the attempt budget.
DueRowsUnbudgeted ==
    {row \in Row : deliveries[row].status = "PENDING" /\ deliveries[row].due}

\* Mutant: the query leaves the last attempt out.
DueRowsShort ==
    {row \in Row : /\ deliveries[row].status = "PENDING"
                   /\ deliveries[row].due
                   /\ deliveries[row].attempts + 1 < MaxAttempts}

\* Mutant: the query does not look at the status.
DueRowsAnyStatus ==
    {row \in Row : /\ HasRow(row)
                   /\ deliveries[row].due
                   /\ deliveries[row].attempts < MaxAttempts}

\* The rows that the sweeper's SELECT ranges over, before its LIMIT.  It does
\* not look at deleted_at.
DueRows ==
    {row \in Row : /\ deliveries[row].status = "PENDING"
                   /\ deliveries[row].due
                   /\ deliveries[row].attempts < MaxAttempts}

\* now() passes next_attempt_at.  Only a PENDING row's is ever read.
BackoffElapses(row) ==
    /\ deliveries[row].status = "PENDING"
    /\ ~deliveries[row].due
    /\ deliveries' = [deliveries EXCEPT ![row].due = TRUE]
    /\ UNCHANGED messages
=============================================================================
