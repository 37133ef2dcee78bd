------------------------------- MODULE Routes -------------------------------
(***************************************************************************)
(* load_settings and load_routes of ingest/src/resender/config.py: what a  *)
(* route file means in an environment, or that it means nothing.  Entries  *)
(* are records of what the code asks of them; a value that it only copies  *)
(* (IDs, expressions, the URL itself) is left out.                         *)
(***************************************************************************)
EXTENDS Naturals, Sequences

CONSTANTS
    Name, NoName,   \* names of routes; a name that is missing or blank
    Var, NoVar      \* environment variables; a target that names none

ASSUME NamesAssumption == NoName \notin Name /\ NoVar \notin Var

Entry == [mapping : BOOLEAN,              \* is it a mapping
          enabled : BOOLEAN,              \* `enabled`, true when left out
          valid   : BOOLEAN,              \* IDs are digits, expressions compile
          name    : Name \cup {NoName},
          target  : Var \cup {NoVar}]     \* target.webhook_url_env

\* A file that is missing, or that defines no list, is one without entries.
File == Seq(Entry)

\* secrets: both the token and the database URL are set.
Env == [secrets : BOOLEAN, url : [Var -> {"blank", "https", "other"}]]

-----------------------------------------------------------------------------
\* The routes of a file, or an error: a ConfigError, or an exception that main()
\* does not catch either.
Unusable == [ok |-> FALSE, routes |-> <<>>]

\* An enabled entry for which the loop raises, after the names in seen.
Faulty(entry, seen, env) ==
    \/ entry.name = NoName
    \/ entry.name \in seen
    \/ ~entry.valid
    \/ entry.target # NoVar /\ env.url[entry.target] # "https"

Names(routes) == {routes[i].name : i \in DOMAIN routes}

\* Mutant: `seen` is never added to.
ReadEntryUnseen(sofar, entry, env) ==
    IF ~sofar.ok \/ (entry.mapping /\ ~entry.enabled) THEN sofar
    ELSE IF ~entry.mapping \/ Faulty(entry, {}, env) THEN Unusable
    ELSE [sofar EXCEPT !.routes =
            Append(@, [name |-> entry.name, target |-> entry.target])]

\* One round of the loop over the entries.
ReadEntry(sofar, entry, env) ==
    IF ~sofar.ok \/ (entry.mapping /\ ~entry.enabled) THEN sofar
    ELSE IF ~entry.mapping \/ Faulty(entry, Names(sofar.routes), env) THEN Unusable
    ELSE [sofar EXCEPT !.routes =
            Append(@, [name |-> entry.name, target |-> entry.target])]

\* What the loop has made of the first 0, 1, ... entries.
Reading(file, env) ==
    LET read[i \in 0 .. Len(file)] ==
            IF i = 0 THEN [ok |-> TRUE, routes |-> <<>>]
            ELSE ReadEntry(read[i - 1], file[i], env)
    IN  read

LoadRoutes(file, env) ==
    LET read == Reading(file, env)[Len(file)]
    IN  IF read.routes = <<>> THEN Unusable ELSE read

LoadSettings(file, env) ==
    IF env.secrets THEN LoadRoutes(file, env) ELSE Unusable
-----------------------------------------------------------------------------
(* The same, as a file is read by its author. *)

Enabled(file) == {i \in DOMAIN file : file[i].enabled}

\* Disabled entries are not looked into, but they have to be entries.
Usable(file, env) ==
    /\ env.secrets
    /\ \A i \in DOMAIN file : file[i].mapping
    /\ Enabled(file) # {}
    /\ \A i \in Enabled(file) :
         /\ file[i].name \in Name
         /\ file[i].valid
         /\ file[i].target \in Var => env.url[file[i].target] = "https"
    /\ \A i, j \in Enabled(file) : file[i].name = file[j].name => i = j

\* How the file routes a name: not at all, into the archive only, or forward.
Routed(file, name) ==
    IF \E i \in Enabled(file) : file[i].name = name
    THEN IF \E i \in Enabled(file) : file[i].name = name /\ file[i].target \in Var
         THEN "forward" ELSE "archive"
    ELSE "absent"
=============================================================================
