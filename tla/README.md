# Verification of the message resender

TLA+ models of the resender, the TLC runs that check them on small instances,
and machine-checked proofs of every safety property that these runs check. Paths of the code are relative to the repository.

## 1. The system

One Python process (`ingest/`) listens to a gateway session, archives every
message of the watched channels in PostgreSQL and forwards it to a webhook per
matching route. A TypeScript process (`api/`) serves the archive and a one-page
dashboard. The two share only the tables.

```
gateway events --> listener --> pipeline --> db.py ----> messages, deliveries
                                  |   ^                       ^
                                  v   | sweep every 30 s      | reads
                               forwarder --> webhooks      API --> dashboard
```

| Component | State it keeps | Operations | Must hold |
|---|---|---|---|
| Archive (`db.py`, `schema.prisma`) | `messages` (text, `deleted_at`), `deliveries` (status, attempts, next_attempt_at) | eight statements, each its own transaction | replays change nothing; statuses mean what they say |
| Pipeline (`pipeline.py`) | the handlers in flight, `_pending_deletes` | ingest, apply_edit, apply_delete, apply_bulk_delete | store before forward, filters decide once, attempts are bounded, remembered deletes are applied |
| Retry sweeper (`pipeline.py`, `db.py`) | the rows it has read | retry_due, run_retry_loop | the oldest row it may send goes first; each gets its turn |
| Listener (`listener.py`) | the watched channels | four event handlers, a task each | as the pipeline's |
| Forwarder (`forwarder.py`) | a lock and the time of the last request per webhook | send | pacing, one request at a time, at most one copy per send, every send returns |
| Route configuration (`config.py`) | the routes, fixed while the process runs | load, allows, routes_for_channel | the process runs on what the file says, or not at all |
| Entry point (`__main__.py`) | the process | start, signal, shutdown | it stops; stops and restarts lose nothing that was promised |
| Alert API (`alerts.ts`) | none | a page by keyset, one message, statistics | a walk neither skips nor repeats |
| Dashboard (`dashboard.ts`) | list, `shown`, `cursor`, `loading` | load, refresh, tail, change of a filter | rows stand once, none is lost |

**What is hard here.** Every gateway event is a task of its own, the sweeper is
one more, and each of them awaits the database and the webhook between steps
that read and steps that write. A message and its delivery rows are separate
transactions. A delivery row is due from the moment it is inserted, before its
first attempt. `_pending_deletes` lives in memory only. The answer to a request
may be lost after the message was taken. The sweep reads a limited number of
rows in an order that rows nobody can send take part in. The process may end
anywhere and come back with other routes; when it stops in order, the handlers
in flight go on while what they use is closed under them. On the page, fetches
overlap and share one set. `PROJECT.json` lists each hazard at its line with the
properties aimed at it.

## 2. Modules

| Module | Models | Uses |
|---|---|---|
| `Archive` | the two tables and the statements of `db.py` | |
| `Pipeline` | the ingest process over the tables, with faults and restarts | extends `Archive` |
| `Relay` | abstract: what the relay promises, with no process in it | implemented by `Pipeline` and `Lifecycle` |
| `RetrySweep` | the sweep in the order and the LIMIT of its query | extends `Archive`, `Selection` |
| `WebhookSend` | abstract: what one send promises its caller | implemented by `Forwarder` |
| `Forwarder` | `WebhookForwarder`: lock, pacing, cooldowns, three requests | |
| `Routes` | `load_settings`, `load_routes` as operators over files | |
| `Lifecycle` | the process from start to shutdown, with handlers in flight | extends `Pipeline`, `Routes` |
| `Selection` | ORDER BY and `filter()`: members of a set by size, elements of a sequence in their order | |
| `Alerts` | `GET /alerts` as a function from tables to a page | extends `Selection` |
| `Dashboard` | the list of the page over an archive that changes | extends `Alerts` |
| `PipelineProofs` | proofs: types, ground, refinement of `Relay` | extends `Pipeline` |
| `DeliveryProofs` | proofs: attempts, statuses, copies, replays, remembered deletes | extends `PipelineProofs` |
| `ForwarderProofs` | proofs: exclusion, pacing, refinement of `WebhookSend` | extends `Forwarder` |
| `RoutesProofs` | proofs: what the loop over the entries of a file reads | extends `Routes`, `SelectionProofs` |
| `LifecycleProofs` | proofs: phases, what stops cost, the file and the routes, refinement of `Relay` | extends `Lifecycle`, `PipelineProofs`, `RoutesProofs` |
| `SelectionProofs` | lemmas: what `Nth` and `Pick` return | extends `Selection` |
| `RetrySweepProofs` | proofs: the schedule, the order of a sweep | extends `RetrySweep`, `SelectionProofs` |
| `DashboardProofs` | proofs: pages, rows shown, order, nothing skipped | extends `Dashboard`, `SelectionProofs` |
| `MCPipeline`, `MCRetrySweep`, `MCForwarder`, `MCLifecycle`, `MCDashboard` | values for the constants | |

An operator that stands in front of another and starts with the comment
*Mutant:* is a wrong version of the definition that follows it. It is used by
no specification; the entries of `PROJECT.json` put one in the place of the
right definition and require TLC to find the property broken.

### Archive and Pipeline

A message is an id, and its content is the number of edits it has seen: filters
(`Admits`) and the payload (`Blank`) are functions of that number. A route is a
position in the file. `due` stands for `next_attempt_at <= now()`.

The loop is cooperative, so an action is the code between two awaits together
with the statement or request that the first of them waited for. `create[m]`
says where the `on_message` handler of `m` is, before its INSERT (`store`),
between the INSERT and the look at `_pending_deletes` (`check`), or before the
UPDATE of a reconciled delete; `todo[m]` is what its loop over the routes has
not reached; `job[w]` is a `deliver()`, of the handler (`w` is the message) or
of the sweeper. `del` and `edits` are the other handlers, `batch` is what
`due_deliveries` returned, with the attempts and the text of that moment. The
variable `copies` is what the destination has, which the process never sees.

| Code | Actions |
|---|---|
| `on_message`, `ingest` | `CreateEvent`, `StoreCommit`, `CheckPending`, `ReconcileCommit` |
| `_dispatch` | `Dispatch` |
| `deliver` with `send` | `Accept`, `Reply`, `Refuse`, `LoseReply`, `Mark` |
| `on_message_edit`, `apply_edit` | `EditEvent`, `EditCommit` |
| `on_raw_message_delete`, `apply_delete` | `DeleteEvent`, `DeleteCommit`, `DeleteMiss` |
| `on_raw_bulk_message_delete`, `apply_bulk_delete` | `BulkDelete` |
| `retry_due`, `run_retry_loop` | `SweepRead`, `SweepTake`, `Backoff` |
| exceptions | `CreateFails`, `FanOutFails`, `SweepFails`, `DeleteFails`, `EditFails` |
| end and restart of the process | `Crash` |

A statement that commits and whose answer is lost needs no action of its own
where the code that would have resumed changes nothing else: it is the commit
followed by a fault (`CreateFails` at `check`, `Crash`). A bulk delete remembers
nothing and reads nothing, so its event and its commit are one step.

The statements do what `scripts/check_retry_lifecycle.py` asserts of them
against a live database: a first failure leaves a PENDING row that is not due,
the backoff makes it due with its counter at one, a delivered row is due no
more, the last failure makes it FAILED, and an error that a retry cannot fix
does so at once (`MarkAttemptFailed`, `BackoffElapses`, `DueRows`).

Simplifications, and why they lose nothing that is claimed:

- The order of rows inside one sweep is left open in `Pipeline`, which is more
  than the code does; `RetrySweep` has the order.
- The webhooks of two routes are not shared in `Pipeline`: the lock only
  delays a send, and `Pipeline` lets a send take any time. `Forwarder` has the
  lock.
- One create handler and one delete handler per message at a time. A second
  one can only lose the conflict, respectively remember what is remembered. A
  replay after the first has ended is possible.
- Filters and channels stay the same over a restart; webhooks and the presence
  of a route may change. With filters that change, `FilteredNeverSent` speaks
  of the filters at capture, as the code does.
- Delivered or failed rows are never read again, so only PENDING rows have a
  backoff that elapses.

### RetrySweep

The timestamps of `next_attempt_at` matter by their order alone, so `schedule`
holds the PENDING rows in that order, those that are due in front. A row that
is queued takes the place of `now()`, behind all that are due; one whose attempt
has failed goes to some place among those that are not, because how two delays
compare depends on their counters. The fan-out is kept up to the first attempt
of each row (`first`), since it writes rows and moves them while the sweeper
holds its snapshot.

A route forwards, is archive-only, absent, or *broken*: its webhook answers in a
way that makes `send()` raise what `deliver()` does not catch (a 429 that has
neither a JSON body nor a number in `Retry-After`, `forwarder.py:157-163`). The
exception leaves the row as it was and ends the sweep.

| Code | Actions |
|---|---|
| `store_message` and the list of targets | `Store` |
| `queue_delivery` for the next target, its first attempt | `Queue`, `FirstEnds`, `FirstRaises` |
| `due_deliveries`, ORDER BY and LIMIT | `SweepRead` |
| an item of `retry_due` | `SweepSkip`, `SweepDeliver`, `SweepRaises` |
| `now()` passes a timestamp | `Elapse` |
| end and restart of the process | `Restart` |

### Forwarder

`pc[c]` follows `send`: waiting for the lock, in the sleep of `_throttle`, the
request in flight, taken by the webhook without the caller knowing, sleeping
out a 429. Time is counted in ticks; a tick may pass between any two steps, and
`last_sent` is kept as its age up to the minimum interval, beyond which the code
does not tell ages apart. The lock is a queue, as `asyncio.Lock` serves its
waiters in order. `Stage` maps this to `WebhookSend`, whose outcomes are those
of `Pipeline`'s `Reply`, `LoseReply`, `Refuse`, `FanOutFails` and `SweepFails`.

### Routes and Lifecycle

An entry of a route file is a record of what the loader asks of it: is it a
mapping, is it enabled, are its IDs and expressions well formed, its name, the
variable that holds its webhook. `Reading` is the loop over the entries, one
`ReadEntry` a round, with its early errors and the set of names seen; a name that is read twice
is an error and so is a file without enabled entries. `Usable` and `Routed` say
the same without a loop, in the terms of the comments and tests of `config.py`.

`Lifecycle` is `Pipeline` with a process around it. `phase` is where `main()` and
`_run()` are; the phases allow the actions of `Pipeline` that can still happen.

| Code | Phase before | Action |
|---|---|---|
| `main()` is called; `load_settings` | `down`, `loading` | `Start`, `Load` |
| SIGTERM, SIGINT, or the gateway connection is over | `running` | `Signal` |
| `sweeper.cancel()` | `signalled` | `CancelSweeper` |
| `await sweeper` | `cancelling` | `SweeperEnds` |
| `forwarder.close()` | `closing` | `CloseSession` |
| `database.close()`: no statement may start, those that have go on | `draining` | `ClosePool` |
| `asyncio.run` cancels the handlers that are left | `releasing` | `Exit` |
| a kill, anywhere | any | `Kill` |

A handler of a gateway event goes on through all of this. With the session
closed its request fails as one the network lost (`RequestAborted`, which counts
an attempt), or raises before it starts (`SendRaises`, which leaves the loop
over the routes); a row that it commits is not attempted (`DispatchUnsent`). A
bulk delete is taken here one message at a time: its statement, of many rows, is
in `Pipeline`.

### Alerts and Dashboard

`Page` is the query with its probe row. In `Dashboard` a fetch is three steps,
asked, answered by the API from the tables of that moment, and taken up by the
script. `loading` excludes a second `load`, and a `tail` that would start after
it; it does not exclude a `load` that starts while a tail is in flight. Live
mode is chosen once per behaviour, so that statements about paging can say
"without the tail". The filter on `deleted` stands for all of them: it is the
one whose matches change while a list is walked. A change of the select runs
`refresh()` with the new value in the form, so the load asks with it; if a load
is in flight the call is dropped, and the form and the list then differ
(`Dropped`). `walk` is history. A walk begins where a first page is asked for: by
a refresh, by a change of the select, or by the button for more after a
refresh that failed, which finds no cursor. What matches when the page is
answered is noted. The walk ends where that request fails, where the list is
blanked, and where a change of the select is dropped.

| Code | Actions |
|---|---|
| `refresh()` by button, Enter or first load | `Refresh` |
| `refresh()` by a change of the select | `ChangeFilter` |
| `load(false)` by button or sentinel | `More` |
| `load()` resumes | `LoadDone`, `LoadFails` |
| `tail()` | `Tail12s`, `TailDone`, `TailFails` |
| the API answers | `AnswerLoad`, `AnswerTail` |
| ingest stores and deletes | `Store`, `Delete` |

## 3. Properties and runs

| Run | Instance | Properties |
|---|---|---|
| `pipeline_faults` | 1 message, 2 routes of which one may become archive-only or vanish at a restart, 2 attempts, 1 fault | `TypeOK`, `ArchiveBeforeForward`, `DeliveredMeansCopied`, `CopiesAccounted`, `AttemptsBounded`, `FanOutOnce`, `FailedIsEarned`, `DeliveredKept`, `UnroutedLeftAlone`, `ImplementsRelay` |
| `pipeline_edits` | 1 message, 2 edits, 2 routes, one excluding the original text, the last edit blank, 1 fault, fair | `FilteredNeverSent`, `Grounded`, `ReplayChangesNothing`, `RememberedDeleteApplied`, `QueuedSettles` |
| `pipeline_deletes` | 3 messages of an archive-only channel, cap of 2, 1 fault | `PendingBounded`, `RememberedKept` |
| `forwarder_sends` | 3 senders, 2 webhooks, interval 2, cooldowns 1 and 3, fair | `TypeOK`, `OneAtATime`, `OneCopyPerSend`, `MinIntervalKept`, `ImplementsSend`, `SendReturns` |
| `sweep_order` | 1 message, 3 routes of which two may be broken or absent, LIMIT 2, 2 attempts, 2 faults, fair | `TypeOK`, `NoOvertaking`, `TurnComes` |
| `lifecycle_stops` | 1 message, 1 edit, 2 names, files of up to two entries, every environment, 2 starts, fair | `LifecycleTypeOK`, `StopsCostOneAttempt`, `LoadedAsWritten`, `Stops`, `ImplementsRelay` |
| `dashboard_list` | 3 messages, pages of 1 row | `TypeOK`, `SettledRows`, `WalkComplete`, `ListMatches`, `PagedInOrder` |
| `single_copy` | 1 message, 1 route, no fault | violates `SingleCopy` |
| `stored_has_rows` | 1 message, 1 route, 1 fault | violates `StoredHasRows` |
| `spent_is_failed` | 1 message, 1 route, no fault | violates `SpentIsFailed` |
| `sweep_starved` | 1 message, 2 routes of which one may become archive-only, LIMIT 1, 1 fault, fair | violates `DueIsRetried` |
| `refreshed_shown` | 2 messages, pages of 1 row | violates `RefreshedShown` |

What the passing runs show:

- Whatever the fan-out, the sweeper, lost answers, failing statements and
  restarts do together, a message is archived before it is sent, the decision of
  the filters at capture holds, counters, statuses and copies agree, and the
  whole is a `Relay`. Replays take nothing back. A success is overwritten only by
  an attempt that was under way when it was counted. A delete that overtakes its
  create is applied when the create ends, and a queued row leaves PENDING unless
  two attempts of it race on its counter (section 4 has what happens then).
- The set of remembered deletes keeps its cap, and an entry goes for a reason.
- Requests to a webhook are exclusive and spaced also through cooldowns; a send
  makes at most one copy, and everybody waiting behind it gets a turn.
- The sweep attempts the oldest row that it may send. A due row is kept from its
  attempt by two things only, which are named: as many dead rows as the LIMIT in
  front of it, or a row in front of it whose attempt raises.
- The process runs on a file that is right as a whole and on what that file
  says. A stop ends, whatever is in flight, and costs a row at most its first
  attempt, however often it is repeated.
- Outside a refresh the dashboard shows each row once. Without the tail it shows
  them in order, a list that was paged to its end has left nothing out, and as
  long as the form is as it was when the list was begun its pages are of one
  filter.

The bounds, and why the interesting cases happen inside them:

- Rows of different messages touch only through the sweeper, which takes one at
  a time, and through `_pending_deletes`. Two routes of one message give the
  fan-out its order, a second row in the sweeper's snapshot, and a route that
  disappears. Three messages and a cap of two give the eviction.
- Two attempts make the first failure retryable and the second one final, and
  let the sweeper read a row for its last attempt while the fan-out's first is
  still in flight, which is where the budget is overrun by one
  (`AttemptsBounded` is `MaxAttempts + 1`, and not `MaxAttempts`).
- One fault is placed anywhere. `CopiesAccounted` is stated for any number: a
  fault hides at most the two attempts that a crash interrupts.
- Three rows and a LIMIT of two put more rows in the table than a sweep reads,
  and two dead ones in front of a live one. Two faults are a restart that breaks
  or removes routes and one that brings them back, or a restart and an
  exception. Which message a row belongs to matters for the fan-out alone, so
  the three rows are of one message.
- Three senders on two webhooks give a holder, a waiter and a bystander. An
  interval of two ticks with cooldowns of one and three has cooldowns that end
  before and after the interval.
- Files of two entries have a name that stands twice, a wrong entry after a right
  one and the other way round. What the loop carries from one round to the next
  is the names seen and the error, so a third entry finds nothing that a
  second did not. Two starts are a restart over rows of the first, with
  another file. Kills are possible at any moment, so `MaxFaults` is 0 there.
- Pages of one row and three messages have full, last and exactly full pages,
  with messages that arrive before, inside and after a page and are deleted
  meanwhile.

No run uses symmetry. `lifecycle_stops` alone checks no deadlock, since a process
that is down after its last start stays down.

**Fairness.** A task whose await is over goes on, a statement returns, a send
ends, backoffs elapse and the sweeper wakes: weak fairness of each of these
steps (`Fairness` in `Pipeline`, `FairSpec` in `Forwarder` and `RetrySweep`). It
is what an event loop that is not starved gives, with a client timeout of fifteen
seconds on every request (`forwarder.py:93`), statements that return and an
infinite sweep loop that swallows its exceptions (`pipeline.py:150-162`). Nothing
is assumed of gateway events, of faults, or of the webhook, which may refuse for
ever; in `RetrySweep` nothing is assumed of fan-outs either. `QueuedSettles`
therefore ends in FAILED as well as in a sent message, and it speaks of rows
whose attempts never work from a counter that another has advanced (`Unraced`):
nothing in the code brings one that did out of PENDING. The lock of
`Forwarder` needs no strong fairness: its waiters stand in a queue, and only the
head of the queue may take it. In `Lifecycle` each step of the shutdown is an
`await` of something that returns, and the statements that `database.close()`
waits for return (`LifecycleFairSpec`); nothing is assumed of signals, kills,
starts or requests.

## 4. Where code and documents differ

Five runs check what a document or a comment says and find it violated.

- **A second copy without a restart** (`single_copy`). `docs/operations.md`
  says the key on message and route prevents a second copy. The key prevents a
  second *row*. The row of a first attempt is due as soon as it is inserted, so
  a sweep that wakes during the attempt sends the message too.
- **Stored, never queued** (`stored_has_rows`). The same document says restarts
  are safe at any point because a PENDING row is kept. Between the INSERT of
  the message and the INSERT of the row there is none, and the replay of the
  create stops at the stored message.
- **PENDING with nothing left** (`spent_is_failed`). The document says that
  PENDING is queued or waiting, and FAILED is what has exhausted its attempts.
  Whether it has is decided on the caller's copy of the counter, while the
  statement increments the stored one. Fan-out and sweeper that both read 0 of 2
  and both fail both write PENDING, and the counter is 2: the row is never due
  again and never FAILED.
- **Kept, and never retried** (`sweep_starved`). The document says that a row
  that is PENDING is retried. Rows of routes that were removed or made
  archive-only are left alone, so they stay due and stay the oldest. As many of
  them as the LIMIT of the query (fifty) fill every sweep, and nothing that
  failed once is tried again.
- **Rows taken for shown** (`refreshed_shown`). A tail in flight while a refresh
  starts marks rows as shown that the refresh then removes from the page.

What does hold in their place is checked by the passing runs: copies are
counted by attempts, attempts in flight and faults (`CopiesAccounted`), a fan-out
never meets a row of its own (`FanOutOnce`), DELIVERED and FAILED are never
written without their reason (`DeliveredMeansCopied`, `FailedIsEarned`), marks do
not look at the status they overwrite, yet nothing that starts after a success
was counted takes it back (`DeliveredKept`), a row whose attempts do not race
leaves PENDING (`QueuedSettles`), a due
row with fewer dead rows in front of it than the LIMIT has its turn
(`TurnComes`), and outside a refresh no row stands twice (`SettledRows`).

One sentence is too loose for a property: `config/routes.example.yaml:6-7` says
that every message in a watched channel is stored and that "a channel with no
route is archive-only". A channel is watched because a route names it
(`watched_channel_ids`), so a channel without a route is not archived either; an
archive-only channel has a route without a target.

## 5. What is proved

TLAPS checks the theorems for every value of the constants: any set of messages,
any routes, filters, files, environments and configurations, any budget, cap,
limit, interval and cooldowns, any number of senders, faults and starts. The
assumptions are those the modules declare (`Msg` finite, `Sweeper` not a message,
the constants of their types). Every invariant and every action property of the
passing runs is stated by one of them, and so is every refinement.

| Theorem | States | Module |
|---|---|---|
| `TypeCorrect` | `Spec => []TypeOK` | `PipelineProofs` |
| `GroundedAlways` | `Spec => []Grounded` | `PipelineProofs` |
| `ArchivedFirst` | `Spec => []ArchiveBeforeForward` | `PipelineProofs` |
| `FilterHolds` | `Spec => []FilteredNeverSent` | `PipelineProofs` |
| `Implementation` | `Spec => ImplementsRelay` | `PipelineProofs` |
| `FanOutsAreFresh` | `Spec => []FanOutOnce` | `DeliveryProofs` |
| `UnroutedStays` | `Spec => UnroutedLeftAlone` | `DeliveryProofs` |
| `AttemptsAreBounded` | `Spec => []AttemptsBounded` | `DeliveryProofs` |
| `FailuresAreEarned` | `Spec => FailedIsEarned` | `DeliveryProofs` |
| `SuccessesAreKept` | `Spec => DeliveredKept` | `DeliveryProofs` |
| `DeliveredIsCopied` | `Spec => []DeliveredMeansCopied` | `DeliveryProofs` |
| `CopiesAreAccounted` | `Spec => []CopiesAccounted` | `DeliveryProofs` |
| `ReplaysAreHarmless` | `Spec => ReplayChangesNothing` | `DeliveryProofs` |
| `PendingIsBounded` | `Spec => []PendingBounded` | `DeliveryProofs` |
| `RememberedStay` | `Spec => RememberedKept` | `DeliveryProofs` |
| `SendsTyped` | `Spec => []TypeOK` | `ForwarderProofs` |
| `Exclusion` | `Spec => []OneAtATime` | `ForwarderProofs` |
| `AtMostOneCopy` | `Spec => []OneCopyPerSend` | `ForwarderProofs` |
| `PacingHolds` | `Spec => MinIntervalKept` | `ForwarderProofs` |
| `SendImplements` | `Spec => ImplementsSend` | `ForwarderProofs` |
| `PhasesHold` | `LifecycleSpec => []LifecycleTypeOK` | `LifecycleProofs` |
| `StopsAreCheap` | `LifecycleSpec => []StopsCostOneAttempt` | `LifecycleProofs` |
| `LifecycleImplementation` | `LifecycleSpec => ImplementsRelay` | `LifecycleProofs` |
| `RunsOnTheFile` | `LifecycleSpec => LoadedAsWritten` | `LifecycleProofs` |
| `SettingsRead` | `LoadSettings` succeeds on usable files and returns their enabled entries | `RoutesProofs` |
| `ScheduleHolds` | `Spec => []TypeOK` | `RetrySweepProofs` |
| `NobodyOvertaken` | `Spec => NoOvertaking` | `RetrySweepProofs` |
| `TypeCorrect` | `Spec => []TypeOK` | `DashboardProofs` |
| `RowsOnce` | `Spec => []SettledRows` | `DashboardProofs` |
| `NewestFirstOnThePage` | `Spec => []PagedInOrder` | `DashboardProofs` |
| `NothingSkipped` | `Spec => []WalkComplete` | `DashboardProofs` |
| `OneFilter` | `Spec => []ListMatches` | `DashboardProofs` |

**Ground.** The promises about what is sent are not inductive. A copy may be made
by a job that a sweep started from a snapshot that was read before a crash of
another handler, so what is in `job`, `batch`, `todo` and `create` must be known
as well. `Grounded` says it: every row, and every fan-out about to make one,
belongs to an archived message; every job, snapshot and copy belongs to a row
that the filters let through. Given types, every step preserves it
(`NextGrounded`): most steps only take away, and lemma `GroundedStep` covers all
of these at once; `MessagesKept` and `OutcomeStaysInRow` say what statements
leave alone. `Grounded` is itself an invariant of `pipeline_edits`. The
refinement follows from it, since the copies, rows and archived messages of
`Relay` need exactly that ground (`RelayStutter`, `RelayStep`).

**Attempts and copies.** `StepKinds` sorts the steps of `Pipeline` by what they
do to rows and jobs, so that each proof of `DeliveryProofs` looks at six kinds
and not at twenty actions. The budget is overrun by one attempt and no more
because of what a stale view can be: `InTime` says that a fan-out's job is the
first attempt of its own row, that a sweep attempts a row once, and that a
counter in a snapshot or in the sweeper's job is behind the stored one by at
most the attempt that a fan-out still owes (`Fresh`, `Spent`). The budget, and
the reason of every FAILED, follow. `Superseded` is what keeps a success: whoever
still holds a delivered row, in a job or in a snapshot, read its counter before
the success was counted. It survives because only a mark changes a row that
exists (`OnlyMarks`) and no sweep reads one that is not PENDING (`NextHolders`).
`Accounted` adds the copies: a worker that
has been told so, or will be, knows a copy that is there (`TakenKnown`), and
what a row's copies exceed its counter by is owed by the workers that hold it, or
was hidden by a fault, which takes at most two of them away (`Counted`).
`FreshFanOut` and `ForwardsOnly` say of a fan-out what is ahead of it: rows that
do not exist, and routes that forward. For remembered deletes it takes what
`Remember` and `Forget` do to a sequence (`RememberKeeps`, `ForgetKeeps`).

**Sends.** `IInv` of `ForwarderProofs` says that whoever is past the lock stands
at the head of its queue (`LockHeld`), that there is a request left whenever one
is paced (`RequestsLeft`), that nothing is taken before the last request
(`OneTaken`), and that the rest of a pacing sleep covers what is missing of
the interval (`Paced`). The last is what makes the pacing hold although a clock
is read before a sleep and written after it.

**The process.** The steps of `Lifecycle` that are `Pipeline`'s preserve types
and ground by what is proved there (`TasksAreNext`); those it adds are shown to
take away only, or to write what the ground allows (`StepSound`). That stops are
cheap rests on `AbortedOnce`: a row whose attempt the closing session has
ended is past its fan-out for good, and the sweeper, the only one who would try
it again, is gone before the session closes (`LifecycleTypeOK`).

**The file.** What the loop over the entries computes takes an induction over the
length of the file. It is done by the least counterexample: the set of prefixes
that are not read as they should be is bounded, so if it is not empty it has a
least member (`LeastMember`), and one more round after a prefix that is read
right reads right (`RoundTakes` where the entry is right, `RoundRefuses` where it
is not). `ReadsUpTo` is what is kept: as long as all entries are right the
routes are exactly the enabled ones, and from the first wrong one on the result is
the error. That the recursion of `Reading` has a value at all is shown the same way
(`ReadingExists`). `ConfigAsRouted` then reads the routes by name, which is well
defined because a usable file has no name twice.

**The sweep.** What `TypeOK` of `RetrySweep` says of the schedule is the invariant
itself: each statement takes one row out, or puts it in where it belongs, and
leaves the order of the others (`OthersKept`, `OrderKept`; `QueueKeeps`,
`ElapseKeeps` and the lemmas about the marks). `NoOvertaking` is not inductive,
since a sweep works from a snapshot while a fan-out inserts, marks and moves rows.
`Snapshot` says what remains true of an item that was read: its counter is never
ahead of the stored one, and if the row is still as it was read, then it is still
due, and each due row in front of it that may be sent is an earlier item of the
same snapshot. It survives because a row that is inserted or whose backoff
elapses goes behind all that are due, and because every failed attempt moves the
counter, so that a row which has been moved no longer looks as it was read
(`AttemptSnapshot`). A step that takes the first item off therefore has nothing
in front of it.

**Pages.** A page is defined by the rank of its members (`Nth`). A rank is an
injection of a finite set into the numbers below its cardinality, hence onto
(`RankOnto`), which gives that a page holds the newest rows in order and
leaves out only what is older than its last (`IsNewest`) without an induction.
None of the four properties of the list is inductive. `SettledRows` needs that
every page in flight is in order, with its cursor its last row
(`AnswersSorted`), so that a page repeats nothing by itself. `PagedInOrder` needs
in addition that the page a `load` waits for was asked, or will be, from
the end of the list (`Paging`). `WalkComplete` and `ListMatches` need `Begun`,
that a walk that has begun waits for a first page asked with the form as it is,
and `Walking`: at each moment of a walk everything that matched at its start and
matches still is on the list, on the page in flight, or older than the cursor
(`Covered`), and every row of the list or the page in flight was read with the
filter of the form (`Fits`). `WalkInv` is their conjunction.

These invariants were checked by TLC before they were proved: those of the
sweep on the instance of `sweep_order`, those of the list on the instance of
`dashboard_list` and on four messages with pages of two rows (8.7 million
states).

Only model-checked is liveness (`RememberedDeleteApplied`, `QueuedSettles`,
`SendReturns`, `TurnComes`, `Stops`): it rests on fairness, which is out of the
prover's reach.

## 6. Not modelled

- The search of an expression in a text (`Filters.allows`): `Admits` is any set
  of texts. The values that `load_routes` only copies.
- The shape of a payload: truncation, usernames, embed keys. `Blank` is whether
  anything is left to send.
- Logging, and the redaction of URLs in it.
- `validate.py`: a command run by hand that makes one request and keeps nothing.
- `/alerts/:id` and `/stats`, which read one row or count; the filters on columns
  that never change, with them `failed=false` (`z.coerce.boolean()`); headers,
  authentication, rendering.
- The migrations build the tables that `Archive` starts from. The scripts under
  `scripts/` are tests against a live database.
- The database refusing connections for good, and two ingest processes at once,
  which `docs/operations.md` excludes.
- No property is stated where the code promises nothing: a delete that commits
  between the INSERT of its message and the look at the remembered deletes, a
  bulk delete that overtakes a create, two edits that commit out of order. The
  interleavings are in `Pipeline`.

## 7. Plan

Done, in this order: `Archive`, `Pipeline`, `Relay`; `WebhookSend`, `Forwarder`;
`Alerts`, `Dashboard`; `RetrySweep`; `Routes`, `Lifecycle`; the proofs of section 5.

Left, in order of what it would add:

1. Filters that change over a restart, with rows queued under the old ones.
2. The safety parts of the liveness properties: what a due row in `RetrySweep`
   waits for, as a number of rows in front of it that only shrinks.
