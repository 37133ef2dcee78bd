---------------------------- MODULE WebhookSend -----------------------------
(***************************************************************************)
(* What WebhookForwarder.send promises its caller, and what module         *)
(* Pipeline relies on: a send makes at most one copy at the destination,   *)
(* returns normally only after that copy, and raises "not retryable", or   *)
(* an error the caller does not expect, only if there is none.  A          *)
(* retryable error says nothing about the copy: its answer may be lost.    *)
(***************************************************************************)
CONSTANT Caller

VARIABLES
    stage,    \* per caller: no send, or how far its send is
    outcome   \* per caller: how its last send ended

vars == <<stage, outcome>>

Init ==
    /\ stage = [c \in Caller |-> "idle"]
    /\ outcome = [c \in Caller |-> "none"]

Begin(c) ==
    /\ stage[c] = "idle"
    /\ stage' = [stage EXCEPT ![c] = "send"]
    /\ outcome' = [outcome EXCEPT ![c] = "none"]

\* The one copy.
Accept(c) ==
    /\ stage[c] = "send"
    /\ stage' = [stage EXCEPT ![c] = "accepted"]
    /\ UNCHANGED outcome

Return(c, result) ==
    /\ \/ stage[c] = "accepted" /\ result \in {"sent", "retryable"}
       \/ stage[c] = "send" /\ result \in {"retryable", "permanent", "raised"}
       \/ stage[c] = "idle" /\ result = "blank"
    /\ stage' = [stage EXCEPT ![c] = "idle"]
    /\ outcome' = [outcome EXCEPT ![c] = result]

Next ==
    \E c \in Caller :
        \/ Begin(c)
        \/ Accept(c)
        \/ \E result \in {"sent", "retryable", "permanent", "raised", "blank"} :
              Return(c, result)

Spec == Init /\ [][Next]_vars
=============================================================================
