------------------------------- MODULE Publish -------------------------------
(***************************************************************************)
(* What the plugin promises a reader of the sidebar.                       *)
(*                                                                         *)
(* A workspace shows nothing, or the tokens of a view that the plugin has  *)
(* read while it was true.  A reading may be published late, also after a  *)
(* newer one; nothing is published that was not read, in whole and for     *)
(* that workspace.                                                         *)
(***************************************************************************)
CONSTANTS Workspaces, Nothing

VARIABLES
    truth,      \* workspace -> the tokens that would be right now
    reading,    \* workspace -> the tokens that are on their way to it
    shown       \* workspace -> the tokens it shows

Init == \A w \in Workspaces : reading[w] = {} /\ shown[w] = Nothing

\* The plugin reads and forgets.
Read(w) == \A r \in reading'[w] : r = truth[w] \/ r \in reading[w]

Publish(w) == truth'[w] = truth[w] /\ shown'[w] \in reading[w]

\* The world changes, and Herdr may drop what it held.
Drift(w) == shown'[w] = Nothing \/ shown'[w] = shown[w]

Next == \A w \in Workspaces : Read(w) /\ (Drift(w) \/ Publish(w))

Spec == Init /\ [][Next]_<<truth, reading, shown>>
=============================================================================
