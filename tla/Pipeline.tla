------------------------------ MODULE Pipeline ------------------------------
(***************************************************************************)
(* The ingest process: ingest/src/resender/pipeline.py with the gateway    *)
(* handlers of listener.py that call it, over the tables of Archive.       *)
(*                                                                         *)
(* The process is one asyncio loop.  Every gateway event is a task of its  *)
(* own and the retry sweeper is one more; a task runs undisturbed between  *)
(* two awaits, so an action is the code between two awaits together with   *)
(* the statement or request that the first of them waited for.  Where the  *)
(* statement's commit and the code that resumes after it touch two things  *)
(* that others touch (the tables and _pending_deletes: the create handler  *)
(* and the delete handler) they are two actions.                           *)
(*                                                                         *)
(* A send is what module WebhookSend promises and module Forwarder         *)
(* implements: some refused requests, at most one accepted, one outcome.   *)
(***************************************************************************)
EXTENDS Archive, Sequences

CONSTANTS
    Sweeper,      \* the retry-sweeper task
    Matches,      \* Matches[m]: the routes whose channel_ids hold m's channel
    Admits,       \* Admits[row]: texts that the route's Filters.allows admits
    Blank,        \* Blank[m]: texts for which build_payload has nothing to send
    Configs,      \* the contents routes.yaml may have at a start of the process
    MaxPending,   \* _MAX_PENDING_DELETES
    SweepLimit,   \* the LIMIT of the due query
    MaxFaults     \* bound: faults and crashes in one behaviour

ASSUME SweeperAssumption == Sweeper \notin Msg
ASSUME MatchesAssumption == Matches \in [Msg -> SUBSET Route]
ASSUME AdmitsAssumption == Admits \in [Row -> SUBSET Text]
ASSUME BlankAssumption == Blank \in [Msg -> SUBSET Text]
ASSUME ConfigsAssumption ==
    Configs \subseteq [Route -> {"forward", "archive", "absent"}]
ASSUME BoundsAssumption ==
    MaxPending \in Nat \ {0} /\ SweepLimit \in Nat \ {0} /\ MaxFaults \in Nat

VARIABLES
    config,   \* Settings.routes: per route, has it a webhook, is it there
    gateway,  \* per message: create not sent yet, sent in this session, gone by
    latest,   \* per message: the newest text at the source
    create,   \* per message: where its on_message handler is before the fan-out
    todo,     \* per message: forwarding routes its fan-out has not reached yet
    job,      \* per worker: the deliver() it is in
    del,      \* per message: where its on_raw_message_delete handler is
    edits,    \* edit handlers whose statement has not run
    pending,  \* Pipeline._pending_deletes, oldest first
    batch,    \* due deliveries the sweeper has read and not taken yet
    copies,   \* per row: how often the destination accepted the message
    faults    \* faults so far

handlerVars == <<create, todo, del, edits, pending, batch>>
sourceVars == <<config, gateway, latest>>
vars == <<messages, deliveries, config, gateway, latest, create, todo, job,
          del, edits, pending, batch, copies, faults>>

\* A fan-out runs inside the create handler of its message, so the worker of an
\* ingest-side delivery is named by the message.
Worker == Msg \cup {Sweeper}

NoJob == [pc |-> "idle"]

Item == [row : Row, attempts : Nat, text : Text]

Outcome == {"none", "sent", "retryable", "permanent", "blank"}

Job == [pc : {"send", "accepted", "mark"}, row : Row, attempts : Nat,
        text : Text, outcome : Outcome]

TypeOK ==
    /\ ArchiveTypeOK
    /\ config \in Configs
    /\ gateway \in [Msg -> {"unseen", "session", "past"}]
    /\ latest \in [Msg -> Text]
    /\ create \in [Msg -> {"none", "store", "check", "reconcile"}]
    /\ todo \in [Msg -> SUBSET Route]
    /\ job \in [Worker -> Job \cup {NoJob}]
    /\ del \in [Msg -> {"none", "record", "miss"}]
    /\ edits \subseteq Msg \X Text
    /\ pending \in Seq(Msg)
    /\ batch \subseteq Item
    /\ copies \in [Row -> Nat]
    /\ faults \in Nat

Idle(w) == job[w] = NoJob

Working(w, pc) == job[w] # NoJob /\ job[w].pc = pc

\* What a process that has just started holds.
NoHandler == [m \in Msg |-> "none"]
NoFanOut == [m \in Msg |-> {}]
NoJobs == [w \in Worker |-> NoJob]

Init ==
    /\ ArchiveInit
    /\ create = NoHandler /\ todo = NoFanOut /\ job = NoJobs
    /\ del = NoHandler /\ edits = {} /\ pending = <<>> /\ batch = {}
    /\ config \in Configs
    /\ gateway = [m \in Msg |-> "unseen"]
    /\ latest = [m \in Msg |-> 0]
    /\ copies = [row \in Row |-> 0]
    /\ faults = 0

-----------------------------------------------------------------------------
(* Settings. *)

RoutesForChannel(m) == {r \in Matches[m] : config[r] # "absent"}

\* watched_channel_ids, asked for the channel of m.
Watched(m) == RoutesForChannel(m) # {}

\* Route.forwards: there is a webhook.
Forwards(r) == config[r] = "forward"

\* Filters.allows on the message as captured: the decision is taken once.
Allowed(row) == 0 \in Admits[row]

-----------------------------------------------------------------------------
(* deliver(): one attempt of one row by one worker. *)

\* forwarder.send builds the payload before it waits for anything.
Attempt(row, attempts, text) ==
    [pc       |-> IF text \in Blank[row[1]] THEN "mark" ELSE "send",
     row      |-> row,
     attempts |-> attempts,
     text     |-> text,
     outcome  |-> IF text \in Blank[row[1]] THEN "blank" ELSE "none"]

\* The webhook takes the message (200 or 204): the destination has a copy, the
\* process does not know yet.
Accept(w) ==
    /\ Working(w, "send")
    /\ job' = [job EXCEPT ![w].pc = "accepted"]
    /\ copies' = [copies EXCEPT ![job[w].row] = @ + 1]
    /\ UNCHANGED <<archiveVars, sourceVars, handlerVars, faults>>

Concludes(w, outcome) ==
    /\ job' = [job EXCEPT ![w].pc = "mark", ![w].outcome = outcome]
    /\ UNCHANGED <<archiveVars, sourceVars, handlerVars, copies>>

\* send() returns.
Reply(w) ==
    /\ Working(w, "accepted")
    /\ Concludes(w, "sent")
    /\ UNCHANGED faults

\* The answer to an accepted request is lost: a timeout or a reset connection,
\* which send() reports as a retryable DeliveryError.
LoseReply(w) ==
    /\ Working(w, "accepted")
    /\ faults < MaxFaults
    /\ faults' = faults + 1
    /\ Concludes(w, "retryable")

\* Mutant: send() returns normally for a status it should have raised on.
RefuseUnnoticed(w) ==
    /\ Working(w, "send")
    /\ Concludes(w, "sent")
    /\ UNCHANGED faults

\* send() raises DeliveryError with no copy made: a 5xx, three 429s or a
\* connection error (retryable), another status (permanent).
Refuse(w) ==
    /\ Working(w, "send")
    /\ \E outcome \in {"retryable", "permanent"} : Concludes(w, outcome)
    /\ UNCHANGED faults

\* The statement that deliver() ends with.
RecordOutcome(j) ==
    \/ j.outcome = "sent" /\ MarkDelivered(j.row)
    \/ j.outcome = "blank" /\ MarkSkipped(j.row)
    \/ /\ j.outcome \in {"retryable", "permanent"}
       /\ MarkAttemptFailed(j.row, j.attempts, j.outcome = "retryable")

Mark(w) ==
    /\ Working(w, "mark")
    /\ RecordOutcome(job[w])
    /\ job' = [job EXCEPT ![w] = NoJob]
    /\ UNCHANGED <<messages, sourceVars, handlerVars, copies, faults>>

-----------------------------------------------------------------------------
(* on_message -> ingest(). *)

\* A live event, or its replay after a resume of the same gateway session.  A
\* second handler beside one that is still at its INSERT would only lose the
\* conflict, so one at a time is enough.
CreateEvent(m) ==
    /\ gateway[m] \in {"unseen", "session"}
    /\ Watched(m)
    /\ create[m] = "none"
    /\ gateway' = [gateway EXCEPT ![m] = "session"]
    /\ create' = [create EXCEPT ![m] = "store"]
    /\ UNCHANGED <<archiveVars, config, latest, todo, job, del, edits, pending,
                   batch, copies, faults>>

\* Mutant: forward first, the INSERT is not waited for.
StoreCommitUnawaited(m) ==
    /\ create[m] = "store"
    /\ create' = [create EXCEPT ![m] = IF Stored(m) THEN "none" ELSE "check"]
    /\ UNCHANGED <<messages, deliveries, sourceVars, todo, job, del, edits,
                   pending, batch, copies, faults>>

\* Mutant: what store_message returns is ignored.
StoreCommitUnchecked(m) ==
    /\ create[m] = "store"
    /\ StoreMessage(m)
    /\ create' = [create EXCEPT ![m] = "check"]
    /\ UNCHANGED <<deliveries, sourceVars, todo, job, del, edits, pending,
                   batch, copies, faults>>

\* store_message commits; on a conflict ingest() returns.
StoreCommit(m) ==
    /\ create[m] = "store"
    /\ StoreMessage(m)
    /\ create' = [create EXCEPT ![m] = IF Stored(m) THEN "none" ELSE "check"]
    /\ UNCHANGED <<deliveries, sourceVars, todo, job, del, edits, pending,
                   batch, copies, faults>>

Remembered(m) == \E i \in DOMAIN pending : pending[i] = m

\* Mutant: the oldest entry is taken out, whichever it is.
ForgetOldest(m) == Tail(pending)

\* del self._pending_deletes[m]
Forget(m) ==
    LET i == CHOOSE j \in DOMAIN pending : pending[j] = m
    IN  SubSeq(pending, 1, i - 1) \o SubSeq(pending, i + 1, Len(pending))

\* The loop of ingest() over routes_for_channel, without the routes that
\* _dispatch leaves at its first line.
FanOut(m) == {r \in RoutesForChannel(m) : Forwards(r)}

\* Mutant: no look at the remembered deletes.
CheckPendingSkipped(m) ==
    /\ create[m] = "check"
    /\ todo' = [todo EXCEPT ![m] = FanOut(m)]
    /\ create' = [create EXCEPT ![m] = "none"]
    /\ UNCHANGED <<archiveVars, sourceVars, job, del, edits, pending, batch,
                   copies, faults>>

\* ingest() resumes: is a delete for this message remembered?
CheckPending(m) ==
    /\ create[m] = "check"
    /\ IF Remembered(m)
         THEN /\ pending' = Forget(m)
              /\ create' = [create EXCEPT ![m] = "reconcile"]
              /\ UNCHANGED todo
         ELSE /\ todo' = [todo EXCEPT ![m] = FanOut(m)]
              /\ create' = [create EXCEPT ![m] = "none"]
              /\ UNCHANGED pending
    /\ UNCHANGED <<archiveVars, sourceVars, job, del, edits, batch, copies, faults>>

\* record_delete from ingest(), which returns after it.
ReconcileCommit(m) ==
    /\ create[m] = "reconcile"
    /\ SoftDelete({m})
    /\ create' = [create EXCEPT ![m] = "none"]
    /\ UNCHANGED <<deliveries, sourceVars, todo, job, del, edits, pending,
                   batch, copies, faults>>

\* _dispatch for the next route in file order: queue_delivery, and deliver()
\* unless the row was there already or the filters said no.
Dispatch(m) ==
    /\ Idle(m)
    /\ \E r \in todo[m] :
         LET row == <<m, r>>
         IN  /\ \A other \in todo[m] : r <= other
             /\ QueueDelivery(row, IF Allowed(row) THEN "PENDING" ELSE "SKIPPED")
             /\ todo' = [todo EXCEPT ![m] = @ \ {r}]
             /\ job' = [job EXCEPT ![m] = IF Allowed(row) /\ ~HasRow(row)
                                          THEN Attempt(row, 0, 0) ELSE NoJob]
    /\ UNCHANGED <<messages, sourceVars, create, del, edits, pending, batch,
                   copies, faults>>

-----------------------------------------------------------------------------
(* on_message_edit -> apply_edit(). *)

\* The library reports edits of messages in its cache, which starts empty: only
\* of those whose create came in this session.
EditEvent(m) ==
    /\ gateway[m] = "session"
    /\ Watched(m)
    /\ latest[m] < MaxEdits
    /\ latest' = [latest EXCEPT ![m] = @ + 1]
    /\ edits' = edits \cup {<<m, latest[m] + 1>>}
    /\ UNCHANGED <<archiveVars, config, gateway, create, todo, job, del,
                   pending, batch, copies, faults>>

\* Two edits are two tasks on two connections: either may commit first.
EditCommit(e) ==
    /\ e \in edits
    /\ RecordEdit(e[1], e[2])
    /\ edits' = edits \ {e}
    /\ UNCHANGED <<deliveries, sourceVars, create, todo, job, del, pending,
                   batch, copies, faults>>

-----------------------------------------------------------------------------
(* on_raw_message_delete and on_raw_bulk_message_delete. *)

\* A delete may name a message posted before the account joined or while the
\* process was down; its create never comes.  Replays are possible too.
Departed(ids) ==
    gateway' = [m \in Msg |-> IF m \in ids /\ gateway[m] = "unseen"
                              THEN "past" ELSE gateway[m]]

DeleteEvent(m) ==
    /\ Watched(m)
    /\ del[m] = "none"
    /\ del' = [del EXCEPT ![m] = "record"]
    /\ Departed({m})
    /\ UNCHANGED <<archiveVars, config, latest, create, todo, job, edits,
                   pending, batch, copies, faults>>

\* record_delete commits; if it flipped a row apply_delete returns.
DeleteCommit(m) ==
    /\ del[m] = "record"
    /\ SoftDelete({m})
    /\ del' = [del EXCEPT ![m] = IF Deletable(m) THEN "none" ELSE "miss"]
    /\ UNCHANGED <<deliveries, sourceVars, create, todo, job, edits, pending,
                   batch, copies, faults>>

\* Mutant: a list instead of a dict, a repeated delete is a second entry.
RememberTwice(m) ==
    LET grown == Append(pending, m)
    IN  IF Len(grown) > MaxPending THEN Tail(grown) ELSE grown

\* _remember_pending_delete: assigning a key that is there keeps its place, and
\* the oldest entry goes when the cap is passed.
Remember(m) ==
    LET grown == IF Remembered(m) THEN pending ELSE Append(pending, m)
    IN  IF Len(grown) > MaxPending THEN Tail(grown) ELSE grown

DeleteMiss(m) ==
    /\ del[m] = "miss"
    /\ pending' = Remember(m)
    /\ del' = [del EXCEPT ![m] = "none"]
    /\ UNCHANGED <<archiveVars, sourceVars, create, todo, job, edits, batch,
                   copies, faults>>

\* apply_bulk_delete is one statement and remembers nothing, so its event and
\* its commit are one step.
BulkDelete(ids) ==
    /\ ids # {}
    /\ \A m \in ids : Watched(m)
    /\ SoftDelete(ids)
    /\ Departed(ids)
    /\ UNCHANGED <<deliveries, config, latest, create, todo, job, del, edits,
                   pending, batch, copies, faults>>

-----------------------------------------------------------------------------
(* retry_due(). *)

\* due_deliveries: at most SweepLimit of the due rows, with the text stored now.
\* The order within a sweep is left open.
SweepRead ==
    /\ batch = {}
    /\ Idle(Sweeper)
    /\ \E rows \in SUBSET DueRows :
         /\ rows # {}
         /\ Cardinality(rows) <= SweepLimit
         /\ Cardinality(rows) = SweepLimit \/ rows = DueRows
         /\ batch' = {[row      |-> row,
                       attempts |-> deliveries[row].attempts,
                       text     |-> messages[row[1]].text] : row \in rows}
    /\ UNCHANGED <<archiveVars, sourceVars, create, todo, job, del, edits,
                   pending, copies, faults>>

\* Mutant: the route is not looked up in the settings.
SweepTakeUnrouted(item) ==
    /\ item \in batch
    /\ Idle(Sweeper)
    /\ batch' = batch \ {item}
    /\ job' = [job EXCEPT ![Sweeper] = Attempt(item.row, item.attempts, item.text)]
    /\ UNCHANGED <<archiveVars, sourceVars, create, todo, del, edits, pending,
                   copies, faults>>

\* The next item: left alone if its route is unknown or has lost its webhook,
\* delivered otherwise.
SweepTake(item) ==
    /\ item \in batch
    /\ Idle(Sweeper)
    /\ batch' = batch \ {item}
    /\ job' = [job EXCEPT ![Sweeper] =
                 IF Forwards(item.row[2])
                 THEN Attempt(item.row, item.attempts, item.text) ELSE NoJob]
    /\ UNCHANGED <<archiveVars, sourceVars, create, todo, del, edits, pending,
                   copies, faults>>

\* The interval between two sweeps passes with every sweep that finds nothing.
Backoff(row) ==
    /\ BackoffElapses(row)
    /\ UNCHANGED <<sourceVars, handlerVars, job, copies, faults>>

-----------------------------------------------------------------------------
(* Faults: a statement or a send that raises what nothing but the task's own *)
(* top level catches, and the end of the process.                            *)

Fault ==
    /\ faults < MaxFaults
    /\ faults' = faults + 1

\* A statement of the create handler fails before the fan-out.  At "check" it
\* is the INSERT that committed with its answer lost.
CreateFails(m) ==
    /\ Fault
    /\ create[m] # "none"
    /\ create' = [create EXCEPT ![m] = "none"]
    /\ UNCHANGED <<archiveVars, sourceVars, todo, job, del, edits, pending,
                   batch, copies>>

\* Not after an accepted request: from there on only the answer can be lost.
Raises(w) == Idle(w) \/ Working(w, "send") \/ Working(w, "mark")

\* The exception leaves the loop over the routes.
FanOutFails(m) ==
    /\ Fault
    /\ Raises(m)
    /\ todo[m] # {} \/ ~Idle(m)
    /\ todo' = [todo EXCEPT ![m] = {}]
    /\ job' = [job EXCEPT ![m] = NoJob]
    /\ UNCHANGED <<archiveVars, sourceVars, create, del, edits, pending, batch,
                   copies>>

\* run_retry_loop logs the exception and drops the rest of the sweep.
SweepFails ==
    /\ Fault
    /\ Raises(Sweeper)
    /\ ~Idle(Sweeper)
    /\ batch' = {}
    /\ job' = [job EXCEPT ![Sweeper] = NoJob]
    /\ UNCHANGED <<archiveVars, sourceVars, create, todo, del, edits, pending,
                   copies>>

DeleteFails(m) ==
    /\ Fault
    /\ del[m] = "record"
    /\ del' = [del EXCEPT ![m] = "none"]
    /\ UNCHANGED <<archiveVars, sourceVars, create, todo, job, edits, pending,
                   batch, copies>>

EditFails(e) ==
    /\ Fault
    /\ e \in edits
    /\ edits' = edits \ {e}
    /\ UNCHANGED <<archiveVars, sourceVars, create, todo, job, del, pending,
                   batch, copies>>

\* The process ends, in any state, and is started again with whatever
\* routes.yaml says then.  The tables survive; the new gateway session replays
\* nothing of the old one.
Crash ==
    /\ Fault
    /\ create' = NoHandler /\ todo' = NoFanOut /\ job' = NoJobs
    /\ del' = NoHandler /\ edits' = {} /\ pending' = <<>> /\ batch' = {}
    /\ config' \in Configs
    /\ gateway' = [m \in Msg |-> IF gateway[m] = "session" THEN "past"
                                 ELSE gateway[m]]
    /\ UNCHANGED <<archiveVars, latest, copies>>

-----------------------------------------------------------------------------
CreateNext(m) == CreateEvent(m) \/ StoreCommit(m) \/ CheckPending(m)
                 \/ ReconcileCommit(m) \/ Dispatch(m)

DeleteNext(m) == DeleteEvent(m) \/ DeleteCommit(m) \/ DeleteMiss(m)

SendNext(w) == Accept(w) \/ Reply(w) \/ Refuse(w) \/ LoseReply(w) \/ Mark(w)

FaultNext ==
    \/ \E m \in Msg : CreateFails(m) \/ FanOutFails(m) \/ DeleteFails(m)
    \/ \E e \in edits : EditFails(e)
    \/ SweepFails
    \/ Crash

Next ==
    \/ \E m \in Msg : CreateNext(m) \/ EditEvent(m) \/ DeleteNext(m)
    \/ \E e \in edits : EditCommit(e)
    \/ \E ids \in SUBSET Msg : BulkDelete(ids)
    \/ \E w \in Worker : SendNext(w)
    \/ SweepRead
    \/ \E item \in batch : SweepTake(item)
    \/ \E row \in Row : Backoff(row)
    \/ FaultNext

Spec == Init /\ [][Next]_vars

\* What an asyncio loop that is not starved gives: a task whose await is over
\* goes on, a statement returns, a send ends (WebhookSend), time passes and the
\* sweeper wakes.  Nothing is assumed of the source, of faults or of refusals.
Fairness ==
    /\ \A m \in Msg :
         /\ WF_vars(StoreCommit(m))
         /\ WF_vars(CheckPending(m))
         /\ WF_vars(ReconcileCommit(m))
         /\ WF_vars(Dispatch(m))
         /\ WF_vars(DeleteCommit(m) \/ DeleteMiss(m))
    /\ \A w \in Worker : WF_vars(Accept(w) \/ Refuse(w) \/ Reply(w) \/ Mark(w))
    /\ WF_vars(SweepRead)
    /\ WF_vars(\E item \in batch : SweepTake(item))
    /\ \A row \in Row : WF_vars(Backoff(row))

FairSpec == Spec /\ Fairness

-----------------------------------------------------------------------------
(* Correctness. *)

OnRow(w, row) == job[w] # NoJob /\ job[w].row = row

\* The rows of the tables, what tasks hold of them and what the destination has
\* rest on each other: copies, jobs and snapshots on rows the filters let
\* through, rows and fan-outs on archived messages.  Everything that is promised
\* about what is sent follows from this, and it is preserved by every step.
RowsArchived == \A row \in Row : HasRow(row) => Stored(row[1])
FanOutArchived ==
    \A m \in Msg : todo[m] # {} \/ create[m] = "check" => Stored(m)
QueuedAllowed ==
    \A row \in Row : deliveries[row].status \notin {"none", "SKIPPED"} => Allowed(row)
CopiesGrounded == \A row \in Row : copies[row] > 0 => HasRow(row) /\ Allowed(row)
JobsGrounded ==
    \A w \in Worker : job[w] # NoJob => HasRow(job[w].row) /\ Allowed(job[w].row)
BatchGrounded == \A item \in batch : HasRow(item.row) /\ Allowed(item.row)
Grounded ==
    /\ RowsArchived
    /\ FanOutArchived
    /\ QueuedAllowed
    /\ CopiesGrounded
    /\ JobsGrounded
    /\ BatchGrounded

\* docs/architecture.md, "Store before forward": nothing is sent, and nothing is
\* being sent, of a message that is not archived and whose delivery row is not
\* committed.
ArchiveBeforeForward ==
    \A row \in Row :
        (copies[row] > 0 \/ \E w \in Worker : OnRow(w, row))
            => HasRow(row) /\ Stored(row[1])

\* A message the filters of a route exclude when it is captured is never sent
\* there, by the fan-out or by any later sweep, whatever its edits say.
FilteredNeverSent ==
    \A row \in Row :
        ~Allowed(row) => /\ copies[row] = 0
                         /\ deliveries[row].status \in {"none", "SKIPPED"}

\* DELIVERED is never written for a message the destination did not take, even
\* by a worker whose view of the row is stale.
DeliveredMeansCopied ==
    \A row \in Row : deliveries[row].status = "DELIVERED" => copies[row] > 0

\* However the fan-out, the sweeper, lost answers and restarts interleave, the
\* copies a destination has are counted by the attempts of the row, up to the
\* attempts still in flight and what each fault can hide (a crash, two jobs).
CopiesAccounted ==
    \A row \in Row :
        copies[row] <= deliveries[row].attempts
                       + Cardinality({w \in Worker : OnRow(w, row)}) + 2 * faults

\* The attempt budget may be overrun by one, by the fan-out's attempt counted
\* after the sweeper has read the row for its last one; never by more.
AttemptsBounded ==
    \A row \in Row : deliveries[row].attempts <= MaxAttempts + 1

\* A fan-out meets no row of its own: queue_delivery's ON CONFLICT never fires,
\* so replays and restarts are stopped by the key of messages, not of deliveries.
FanOutOnce ==
    \A m \in Msg : \A r \in todo[m] : ~HasRow(<<m, r>>) /\ copies[<<m, r>>] = 0

\* db.py: "FAILED means the attempt budget is spent" or a refusal waiting cannot
\* fix, although it is decided on the caller's copy of the counter.
FailedIsEarned ==
    [][\A row \in Row :
          deliveries'[row].status = "FAILED" /\ deliveries[row].status # "FAILED"
              => \/ deliveries'[row].attempts >= MaxAttempts
                 \/ \E w \in Worker : /\ OnRow(w, row) /\ Idle(w)'
                                      /\ job[w].outcome = "permanent"]_vars

\* The marks look at no status, yet a success is taken back only by an attempt that
\* was under way when it was counted: nothing that starts later, in a sweep, a
\* replay or another process, touches a delivered row.
DeliveredKept ==
    [][\A row \in Row :
          deliveries[row].status = "DELIVERED" /\ deliveries'[row].status # "DELIVERED"
              => \E w \in Worker : /\ OnRow(w, row) /\ Idle(w)'
                                  /\ job[w].attempts < deliveries[row].attempts]_vars

\* Replays change nothing: a stored message stays stored, a deleted one stays
\* deleted, and its text changes only to that of an edit being applied.
ReplayChangesNothing ==
    [][\A m \in Msg :
          /\ Stored(m) => Stored(m)'
          /\ messages[m].state = "deleted" => messages'[m].state = "deleted"
          /\ messages'[m].text # messages[m].text
                => <<m, messages'[m].text>> \in edits]_vars

\* pipeline.py: rows of a route that was renamed, removed or made archive-only
\* are left alone, whoever holds a job or a snapshot of them.
UnroutedLeftAlone ==
    [][\A row \in Row :
          ~Forwards(row[2])
              => /\ copies'[row] = copies[row]
                 /\ deliveries'[row].status = deliveries[row].status
                 /\ deliveries'[row].attempts = deliveries[row].attempts]_vars

\* Each remembered delete is one entry of at most MaxPending.
PendingBounded ==
    /\ Len(pending) <= MaxPending
    /\ \A i, j \in DOMAIN pending : pending[i] = pending[j] => i = j

\* A remembered delete goes only by being handed to its own create handler, as
\* the oldest of a full set when another is remembered, or with the process.
RememberedKept ==
    [][\A m \in Msg :
          Remembered(m) /\ ~Remembered(m)' =>
              \/ create[m] = "check" /\ create'[m] = "reconcile"
              \/ /\ Len(pending) = MaxPending /\ pending[1] = m
                 /\ \E other \in Msg : del[other] = "miss" /\ del'[other] = "none"
              \/ faults' > faults /\ pending' = <<>>]_vars

\* A delete that is remembered while its create waits for its INSERT is applied,
\* and the message is never queued for any route, if no fault is still to come and
\* no other delete pushes it out (with one message none can; see RememberedKept).
RememberedDeleteApplied ==
    \A m \in Msg :
        (Remembered(m) /\ create[m] = "store" /\ ~Stored(m) /\ faults = MaxFaults)
            ~> [](messages[m].state = "deleted" /\ \A r \in Route : ~HasRow(<<m, r>>))

\* No attempt of the row works from a counter that another one has advanced.
Unraced(row) ==
    \A w \in Worker : OnRow(w, row) => job[w].attempts = deliveries[row].attempts

\* A queued delivery of a live route does not stay PENDING for ever, whatever fails
\* and whenever the process restarts, unless its attempts race: then it can, with
\* its budget spent (SpentIsFailed).
QueuedSettles ==
    \A row \in Row :
        []Unraced(row)
            => (deliveries[row].status = "PENDING" /\ Forwards(row[2])
                    ~> deliveries[row].status # "PENDING")

-----------------------------------------------------------------------------
(* The pipeline implements module Relay. *)

R == INSTANCE Relay WITH
         Wanted   <- {row \in Row : Allowed(row)},
         archived <- {m \in Msg : Stored(m)},
         decided  <- {row \in Row : HasRow(row)},
         copies   <- copies

\* Every behaviour of the pipeline, faults included, is one of Relay: a copy is
\* made only of an archived message, for a route that decided once to relay it,
\* and archive, decisions and copies are never taken back.
ImplementsRelay == R!Spec

-----------------------------------------------------------------------------
(* What the repository's documents and comments say, and the code does not do. *)

\* pipeline.py: the key "is what stops a restart from sending a second copy".
SingleCopy == \A row \in Row : copies[row] <= 1

\* docs/operations.md: a stored message that is not delivered "keeps its PENDING
\* delivery row".  Once its handler is gone every forwarding route that matches
\* has a row, unless the message was reconciled as deleted.
StoredHasRows ==
    \A m \in Msg :
        messages[m].state = "live" /\ create[m] = "none" /\ todo[m] = {} /\ Idle(m)
            => \A r \in FanOut(m) : HasRow(<<m, r>>)

\* docs/operations.md: "PENDING is queued or waiting out a backoff" and "FAILED
\* exhausted its attempts": a PENDING row has an attempt left.
SpentIsFailed ==
    \A row \in Row :
        deliveries[row].status = "PENDING" => deliveries[row].attempts < MaxAttempts
=============================================================================
