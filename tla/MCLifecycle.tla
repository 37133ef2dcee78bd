---------------------------- MODULE MCLifecycle -----------------------------
(***************************************************************************)
(* Small instances of Lifecycle for TLC: every message is posted in a      *)
(* channel that route 1 alone lists, so that the order of a file does not  *)
(* matter; the other names are there for the files to be wrong about.      *)
(***************************************************************************)
EXTENDS Lifecycle

OnFirstRoute == [m \in Msg |-> {1}]

AdmitAll == [row \in Row |-> Text]

NoneBlank == [m \in Msg |-> {}]

AnyConfig == [Route -> {"forward", "archive", "absent"}]

Good(name, target) ==
    [mapping |-> TRUE, enabled |-> TRUE, valid |-> TRUE, name |-> name, target |-> target]

\* Entries that are right, and each way to be wrong.
Entries ==
    {Good(name, target) : name \in Name, target \in Var \cup {NoVar}}
    \cup {[Good(1, NoVar) EXCEPT !.mapping = FALSE],
          [Good(1, NoVar) EXCEPT !.enabled = FALSE],
          [Good(1, NoVar) EXCEPT !.enabled = FALSE, !.valid = FALSE],
          [Good(2, NoVar) EXCEPT !.valid = FALSE],
          Good(NoName, NoVar)}

UpToTwoEntries == UNION {[1 .. n -> Entries] : n \in 0 .. 2}

EveryUrl ==
    {[secrets |-> TRUE, url |-> url] : url \in [Var -> {"blank", "https", "other"}]}
    \cup {[secrets |-> FALSE, url |-> [v \in Var |-> "https"]]}
=============================================================================
