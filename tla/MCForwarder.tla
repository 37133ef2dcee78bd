---------------------------- MODULE MCForwarder -----------------------------
(***************************************************************************)
(* Small instances of Forwarder for TLC.                                   *)
(***************************************************************************)
EXTENDS Forwarder

\* Shorter than the interval, and longer.
ShortAndLong == {1, 3}
=============================================================================
