----------------------------- MODULE MCPipeline -----------------------------
(***************************************************************************)
(* Small instances of Pipeline for TLC.  Every message is posted in a      *)
(* channel that all routes watch; what differs between the runs is what    *)
(* the filters admit, which texts are blank and what routes.yaml may say.  *)
(***************************************************************************)
EXTENDS Pipeline

EveryRoute == [m \in Msg |-> Route]

AdmitAll == [row \in Row |-> Text]

\* Route 1 takes everything, the others exclude the original text.
AdmitEdited == [row \in Row |-> IF row[2] = 1 THEN Text ELSE Text \ {0}]

NoneBlank == [m \in Msg |-> {}]

\* The last edit removes all that can be sent.
LastBlank == [m \in Msg |-> {MaxEdits}]

AllForward == {[r \in Route |-> "forward"]}

AllArchive == {[r \in Route |-> "archive"]}

\* The last route may be archive-only, or gone, at any start.
LastVaries ==
    {[r \in Route |-> IF r = NumRoutes THEN mode ELSE "forward"] :
        mode \in {"forward", "archive", "absent"}}
=============================================================================
