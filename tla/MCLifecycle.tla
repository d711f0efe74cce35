---------------------------- MODULE MCLifecycle ----------------------------
(* Instances of Lifecycle for TLC: who runs which commands. *)
EXTENDS Lifecycle, TLC

CONSTANTS hook1, hook2, terminal, plugin

OneDir == [s \in Shells |-> plugin]

\* A hook starts, another starts and later stops, a user restarts.
Mixed == {[s \in Shells |-> CASE s = hook1 -> <<"start">>
                              [] s = hook2 -> <<"start", "stop">>
                              [] OTHER     -> <<"stop", "start">>]}

\* Every hook starts; or one does while a user starts and stops.
StartsAndStops ==
    {[s \in Shells |-> <<"start">>],
     [s \in Shells |-> CASE s = hook1    -> <<"start">>
                          [] s = terminal -> <<"start", "stop", "stop">>
                          [] OTHER        -> <<>>]}

StartsAndStop ==
    {[s \in Shells |-> IF s = terminal THEN <<"stop">> ELSE <<"start", "start">>]}
Starts  == {[s \in Shells |-> <<"start">>]}
Restart == {[s \in Shells |-> <<"start", "stop", "start">>]}

PidSymmetry == Permutations(Pids)
=============================================================================
