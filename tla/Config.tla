------------------------------- MODULE Config -------------------------------
(***************************************************************************)
(* internal/config/config.go: Load, Validate and HeartbeatAge.             *)
(*                                                                         *)
(* Durations are whole clock units and a unit is a whole number of         *)
(* milliseconds, which is what Herdr is told of a TTL. Quarter is the      *)
(* number of units in 250ms, the shortest duration the program names.      *)
(* file.is tells whether the file is there and decodes; Absent is a field  *)
(* it does not set, Bad a text that is no duration.                        *)
(***************************************************************************)
EXTENDS Integers

CONSTANTS Quarter, Absent, Bad, Invalid

ASSUME QuarterAssumption == Quarter \in Nat \ {0}
ASSUME MillisecondAssumption == 250 % Quarter = 0

Second        == 4 * Quarter
SchemaVersion == 1

Default == [schema_version |-> SchemaVersion, poll |-> 3 * Second, ttl |-> 90 * Second,
            value |-> "label"]

HeartbeatAge(c) == c.ttl \div 3

\* mutation: room for one tick less
ValidateTwoPolls(c) ==
    /\ c.schema_version = SchemaVersion
    /\ c.poll >= 2 * Quarter /\ c.poll <= 60 * Second
    /\ c.ttl <= 86400 * Second /\ c.ttl >= 2 * c.poll
    /\ c.value \in {"label", "status"}

\* The range of poll is tested before 3 * poll is formed, which so cannot overflow.
Validate(c) ==
    /\ c.schema_version = SchemaVersion
    /\ c.poll >= 2 * Quarter /\ c.poll <= 60 * Second
    /\ c.ttl <= 86400 * Second /\ c.ttl >= 3 * c.poll
    /\ c.value \in {"label", "status"}

Or(field, default) == IF field = Absent THEN default ELSE field

\* A missing file is valid; one that cannot be read or parsed, has a field
\* nobody knows or a duration that is none is not.
Load(file) ==
    IF file.is = "missing" THEN Default
    ELSE IF file.is # "decoded" THEN Invalid
    ELSE IF Bad \in {file.poll, file.ttl} THEN Invalid
    ELSE LET c == [schema_version |-> Or(file.schema_version, Default.schema_version),
                   poll  |-> Or(file.poll, Default.poll),
                   ttl   |-> Or(file.ttl, Default.ttl),
                   value |-> Or(file.value, Default.value)]
         IN  IF Validate(c) THEN c ELSE Invalid
=============================================================================
