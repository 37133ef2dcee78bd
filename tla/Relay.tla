------------------------------- MODULE Relay --------------------------------
(***************************************************************************)
(* What the relay promises, with no process, queue, retry or fault in it:  *)
(* a message is archived, then each route decides once whether it relays   *)
(* the message, and only then, and only if it does, do copies appear at    *)
(* the destination.  Nothing is ever taken back.  How many copies appear   *)
(* is left open: the system sends at least once, not at most once.         *)
(***************************************************************************)
EXTENDS Naturals

CONSTANTS
    Msg,    \* messages
    Route,  \* destinations
    Wanted  \* the <<message, route>> pairs that the filters let through

VARIABLES
    archived,  \* messages in the archive
    decided,   \* pairs decided upon
    copies     \* copies at the destination, per pair

vars == <<archived, decided, copies>>

Init ==
    /\ archived = {}
    /\ decided = {}
    /\ copies = [row \in Msg \X Route |-> 0]

Archive(m) ==
    /\ m \notin archived
    /\ archived' = archived \cup {m}
    /\ UNCHANGED <<decided, copies>>

Decide(row) ==
    /\ row[1] \in archived
    /\ row \notin decided
    /\ decided' = decided \cup {row}
    /\ UNCHANGED <<archived, copies>>

Copy(row) ==
    /\ row \in decided \cap Wanted
    /\ copies' = [copies EXCEPT ![row] = @ + 1]
    /\ UNCHANGED <<archived, decided>>

Next ==
    \/ \E m \in Msg : Archive(m)
    \/ \E row \in Msg \X Route : Decide(row) \/ Copy(row)

Spec == Init /\ [][Next]_vars
=============================================================================
