---------------------------- MODULE MCRetrySweep ----------------------------
(***************************************************************************)
(* Small instances of RetrySweep for TLC.                                  *)
(***************************************************************************)
EXTENDS RetrySweep

\* Routes from 2 on may be any of modes at a start, route 1 forwards.
OthersAre(modes) ==
    {[r \in Route |-> IF r = 1 THEN "forward" ELSE mode[r]] :
        mode \in [2 .. NumRoutes -> modes]}

OthersVary == OthersAre({"forward", "broken", "absent"})

OthersVanish == OthersAre({"forward", "archive"})
=============================================================================
