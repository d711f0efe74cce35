------------------------------- MODULE Request -------------------------------
(***************************************************************************)
(* What the rest of the program takes a call of the Herdr client to be,    *)
(* and what TokenSync builds on: Herdr serves a request at most once, also *)
(* after its sender gave up, and no answer is believed that was not given. *)
(***************************************************************************)
VARIABLES served, outcome

Init == served = FALSE /\ outcome = "waiting"

Serve == ~served /\ served' = TRUE /\ UNCHANGED outcome

Succeed == outcome = "waiting" /\ served /\ outcome' = "ok" /\ UNCHANGED served

GiveUp == outcome = "waiting" /\ outcome' = "error" /\ UNCHANGED served

Spec == Init /\ [][Serve \/ Succeed \/ GiveUp]_<<served, outcome>>
=============================================================================
