------------------------------- MODULE MCAisFeed -------------------------------
(* Two keys; a ladder of one rung, so that three sockets are enough to leave   *)
(* it, be down and try again; a probe interval longer than every silence       *)
(* budget, as in the code.                                                     *)
EXTENDS AisFeedProps

CONSTANTS k1, k2

MCKey     == {k1, k2}
MCBackoff == <<1>>

(* The keys are interchangeable: the server does not start under k2. *)
MCInit == Init /\ key # k2
MCSpec == MCInit /\ [][Next]_vars /\ WF_vars(Ensure) /\ WF_vars(Elapse)

================================================================================
