----------------------------- MODULE MCTickLoop -----------------------------
(* Instances of TickLoop for TLC: configuration files and their durations. *)
EXTENDS TickLoop

File(p, t) ==
    [is |-> "decoded", schema_version |-> Absent, poll |-> p, ttl |-> t, value |-> Absent]

\* 500ms with 2.25s and with 3.75s: 4.5 and 7.5 intervals; and 3, the least.
Shortest ==
    {File(2 * Quarter, 9 * Quarter), File(2 * Quarter, 15 * Quarter),
     File(2 * Quarter, 6 * Quarter), File(3 * Quarter, 9 * Quarter)}

OtherFiles ==
    {[is |-> reason] : reason \in {"missing", "unreadable", "malformed", "unknown field"}}
    \cup {
     File(Bad, Absent), File(2 * Quarter, Bad), File(2 * Quarter - 1, Absent),
     File(60 * Second + 1, Absent), File(2 * Quarter, 5 * Quarter),
     File(2 * Quarter, 4 * Quarter), File(Absent, 86400 * Second + 1),
     [File(2 * Quarter, 9 * Quarter) EXCEPT !.schema_version = 2],
     [File(2 * Quarter, 9 * Quarter) EXCEPT !.value = "colour"]}

SomeFiles == Shortest \cup OtherFiles
LeastTTL  == {File(2 * Quarter, 6 * Quarter)}
=============================================================================
