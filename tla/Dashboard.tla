----------------------------- MODULE Dashboard ------------------------------
(***************************************************************************)
(* The list of the dashboard (the script of api/src/dashboard.ts): paging, *)
(* refreshes and the live tail, over the pages that GET /alerts answers,   *)
(* while ingest stores messages and marks them deleted.                    *)
(*                                                                         *)
(* A fetch is three steps: it leaves with the form's values, the API       *)
(* answers from the tables as they are then, and the script resumes with   *)
(* the answer.  `loading` keeps two load() apart; nothing keeps tail()     *)
(* apart from a load() that starts after it.                               *)
(***************************************************************************)
EXTENDS Alerts, SequencesExt

CONSTANT MaxId   \* bound: ids of the messages that may be stored

ASSUME MaxIdAssumption == MaxId \in Nat

Id == 1 .. MaxId

VARIABLES
    stored,    \* the table messages
    deleted,   \* those with deleted_at set
    auto,      \* the box that runs tail() every twelve seconds
    filter,    \* the select `deleted` of the form
    list,      \* the rows of the page, from the top
    shown,     \* the set that remembers what was rendered
    cursor,    \* of the next page
    more,      \* is the button "more" visible
    load,      \* the load() in flight: `loading` says there is one
    tail,      \* the tail() in flight
    walk       \* history: the last load of a first page since which the select
               \* is as it is, and what the tables held when the API answered it

tables == <<stored, deleted>>
form == <<auto, filter>>
view == <<list, shown, cursor, more>>
vars == <<stored, deleted, auto, filter, list, shown, cursor, more, load, tail, walk>>

NoFetch == [stage |-> "none"]
NoWalk == [stage |-> "none", ids |-> {}, gone |-> {}]
BegunWalk == [stage |-> "begun", ids |-> {}, gone |-> {}]

Answer == [data : Seq(Id), next : Id \cup {NoCursor}]
Fetch == [stage : {"asked"}, reset : BOOLEAN, filter : DeletedFilter,
          cursor : Id \cup {NoCursor}]
Answered == [stage : {"answered"}, reset : BOOLEAN, answer : Answer]
Walk == [stage : {"none", "begun", "on"}, ids : SUBSET Id, gone : SUBSET Id]

TypeOK ==
    /\ stored \subseteq Id /\ deleted \subseteq stored
    /\ auto \in BOOLEAN /\ filter \in DeletedFilter
    /\ list \in Seq(Id) /\ shown \subseteq Id
    /\ cursor \in Id \cup {NoCursor} /\ more \in BOOLEAN
    /\ load \in Fetch \cup Answered \cup {NoFetch}
    /\ tail \in Fetch \cup Answered \cup {NoFetch}
    /\ walk \in Walk

Init ==
    /\ stored = {} /\ deleted = {}
    /\ auto \in BOOLEAN /\ filter = "any"
    /\ list = <<>> /\ shown = {} /\ cursor = NoCursor /\ more = FALSE
    /\ load = NoFetch /\ tail = NoFetch
    /\ walk = NoWalk

Loading == load # NoFetch

-----------------------------------------------------------------------------
(* Ingest. *)

\* Two create handlers may commit in either order, so a message may be stored
\* after one that was sent later.
Store(id) ==
    /\ id \notin stored
    /\ stored' = stored \cup {id}
    /\ UNCHANGED <<deleted, form, view, load, tail, walk>>

\* Mutant: a delete is recorded for a message that is not stored, too.
DeleteUnstored(id) ==
    /\ id \notin deleted
    /\ deleted' = deleted \cup {id}
    /\ UNCHANGED <<stored, form, view, load, tail, walk>>

Delete(id) ==
    /\ id \in stored \ deleted
    /\ deleted' = deleted \cup {id}
    /\ UNCHANGED <<stored, form, view, load, tail, walk>>

-----------------------------------------------------------------------------
(* load(). *)

\* queryParams() reads the form when the fetch leaves: `value` is what the select
\* has then.
Ask(value, reset, from) ==
    [stage |-> "asked", reset |-> reset, filter |-> value, cursor |-> from]

\* load(true): the list stays as it is until the answer, `shown` does not.
Reset(value) ==
    /\ ~Loading
    /\ load' = Ask(value, TRUE, NoCursor)
    /\ cursor' = NoCursor
    /\ shown' = {}
    /\ walk' = BegunWalk
    /\ UNCHANGED <<list, more>>

\* refresh() without a token in its field.
Blank ==
    /\ list' = <<>>
    /\ walk' = NoWalk
    /\ UNCHANGED <<shown, cursor, more, load>>

\* load(true) where a load is in flight: the list is not about the new form.
Dropped ==
    /\ Loading
    /\ walk' = NoWalk
    /\ UNCHANGED <<view, load>>

\* The Refresh button, Enter in the search box and the first load of the page;
\* nothing happens while a load is in flight.
Refresh ==
    /\ Reset(filter) \/ Blank
    /\ UNCHANGED <<tables, form, tail>>

\* Mutant: the load leaves before the select has its new value.
ChangeFilterStale(value) ==
    /\ value # filter
    /\ filter' = value
    /\ Reset(filter) \/ Blank \/ Dropped
    /\ UNCHANGED <<tables, auto, tail>>

\* The select has its new value when its change event runs refresh(), so that the
\* load asks with it; where that is dropped, the form has the new value and the
\* list the old one.
ChangeFilter(value) ==
    /\ value # filter
    /\ filter' = value
    /\ Reset(value) \/ Blank \/ Dropped
    /\ UNCHANGED <<tables, auto, tail>>

\* load(false): the button, or the sentinel of the infinite mode, which wants a
\* cursor.  A refresh that fails leaves the button where it was and no cursor, so
\* that the first page is asked for as a further one.
More ==
    /\ ~Loading
    /\ more \/ cursor # NoCursor
    /\ load' = Ask(filter, FALSE, cursor)
    /\ walk' = IF cursor = NoCursor THEN BegunWalk ELSE walk
    /\ UNCHANGED <<tables, form, view, tail>>

\* The API runs its query.
Reply(fetch) ==
    [stage  |-> "answered",
     reset  |-> fetch.reset,
     answer |-> Page(Matching(fetch.filter, stored, deleted), fetch.cursor)]

AnswerLoad ==
    /\ load.stage = "asked"
    /\ load' = Reply(load)
    /\ walk' = IF walk.stage = "begun"
               THEN [stage |-> "on",
                     ids   |-> Matching(filter, stored, deleted),
                     gone  |-> deleted]
               ELSE walk
    /\ UNCHANGED <<tables, form, view, tail>>

Unseen(data) == Pick(data, {i \in DOMAIN data : data[i] \notin shown})

\* fetch() resumes with a page that holds `incoming` for the list.
Renders(incoming, rows) ==
    /\ load.stage = "answered"
    /\ list' = rows
    /\ shown' = shown \cup ToSet(incoming)
    /\ cursor' = load.answer.next
    /\ more' = (load.answer.next # NoCursor)
    /\ load' = NoFetch
    /\ UNCHANGED <<tables, form, tail, walk>>

\* Mutant: rows of a further page are appended as they come.
LoadDoneUnfiltered ==
    LET incoming == load.answer.data
    IN  Renders(incoming, IF load.reset THEN incoming ELSE list \o incoming)

\* Mutant: an older page goes on top.
LoadDonePrepends ==
    LET incoming == IF load.reset THEN load.answer.data ELSE Unseen(load.answer.data)
    IN  Renders(incoming, IF load.reset THEN incoming ELSE incoming \o list)

\* A reset replaces the list by what came, another load appends what is new.
LoadDone ==
    LET incoming == IF load.reset THEN load.answer.data ELSE Unseen(load.answer.data)
    IN  Renders(incoming, IF load.reset THEN incoming ELSE list \o incoming)

\* An error status, a network error or an unreadable body: an error box takes
\* the place of the list after a reset, and stands under it otherwise.
LoadFails ==
    /\ load.stage = "asked"
    /\ list' = IF load.reset THEN <<>> ELSE list
    /\ walk' = IF load.cursor = NoCursor THEN NoWalk ELSE walk
    /\ load' = NoFetch
    /\ UNCHANGED <<tables, form, shown, cursor, more, tail>>

-----------------------------------------------------------------------------
(* tail(): one at a time is enough for what is said below. *)

Tail12s ==
    /\ auto
    /\ ~Loading
    /\ tail = NoFetch
    /\ tail' = Ask(filter, FALSE, NoCursor)
    /\ UNCHANGED <<tables, form, view, load, walk>>

AnswerTail ==
    /\ tail.stage = "asked"
    /\ tail' = Reply(tail)
    /\ UNCHANGED <<tables, form, view, load, walk>>

\* Mutant: rendered rows are not remembered.
TailDoneForgets ==
    /\ tail.stage = "answered"
    /\ list' = Unseen(tail.answer.data) \o list
    /\ tail' = NoFetch
    /\ UNCHANGED <<tables, form, shown, cursor, more, load, walk>>

\* The newest page, less what is shown, goes on top.
TailDone ==
    /\ tail.stage = "answered"
    /\ LET fresh == Unseen(tail.answer.data)
       IN  /\ list' = fresh \o list
           /\ shown' = shown \cup ToSet(fresh)
    /\ tail' = NoFetch
    /\ UNCHANGED <<tables, form, cursor, more, load, walk>>

TailFails ==
    /\ tail.stage = "asked"
    /\ tail' = NoFetch
    /\ UNCHANGED <<tables, form, view, load, walk>>

-----------------------------------------------------------------------------
Next ==
    \/ \E id \in Id : Store(id) \/ Delete(id)
    \/ Refresh \/ \E value \in DeletedFilter : ChangeFilter(value)
    \/ More \/ AnswerLoad \/ LoadDone \/ LoadFails
    \/ Tail12s \/ AnswerTail \/ TailDone \/ TailFails

Spec == Init /\ [][Next]_vars

-----------------------------------------------------------------------------
(* Correctness. *)

Resetting == Loading /\ load.reset

\* Outside a reset every row stands once and is remembered as shown, whatever
\* pages, tails, errors and late commits overlap.
SettledRows == ~Resetting => IsInjective(list) /\ ToSet(list) \subseteq shown

\* docs/operations.md: arrivals "do not cause a page to repeat or skip rows".
\* Paged to its end without the tail, the list has every message that was
\* stored when its first page was read and matches still, in order.
WalkComplete ==
    (~auto /\ walk.stage = "on" /\ ~Loading /\ cursor = NoCursor)
        => walk.ids \cap Matching(filter, stored, deleted) \subseteq ToSet(list)

\* Without the tail no two filters are mixed: while the select is as it was when
\* the list was begun, each row matched it when its page was read.  With "only" it
\* is deleted; with "exclude" it was not when the first page was read.
ListMatches ==
    (~auto /\ walk.stage = "on" /\ ~Resetting) =>
        /\ filter = "only" => ToSet(list) \subseteq deleted
        /\ filter = "exclude" => ToSet(list) \cap walk.gone = {}

\* Without the tail the list is newest first, also over pages that were read
\* before and after late commits, deletes and a change of the filter.
PagedInOrder ==
    ~auto => \A i, j \in DOMAIN list : i < j => list[i] > list[j]

-----------------------------------------------------------------------------
(* What a comment says, and the script does not do. *)

\* dashboard.ts, tail(): "prepend only messages not already shown".  When the page
\* of a refresh has come, every message that matches and counts as shown is on the
\* list, so that no tail leaves out a row that is not there.
RefreshedShown ==
    [][load.stage = "answered" /\ load.reset /\ load' = NoFetch
           => shown' \cap Matching(filter, stored, deleted) \subseteq ToSet(list')]_vars
=============================================================================
