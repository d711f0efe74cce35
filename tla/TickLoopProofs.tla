--------------------------- MODULE TickLoopProofs ---------------------------
(***************************************************************************)
(* For every set of configuration files and every clock unit: the tokens   *)
(* of an acknowledged write outlive the waits that TickLoop allows.        *)
(*                                                                         *)
(* The argument is a budget.  Bound says, place by place in the loop, how  *)
(* much older the record may still get before the daemon leaves that       *)
(* place: at most H - 1 when the write was skipped last, one poll interval *)
(* for each deadline since, two more for a failed attempt.  Lasts says     *)
(* that Herdr's TTL and the record's age run down together.                *)
(***************************************************************************)
EXTENDS TickLoop, TLAPS

Valid(c) == c.poll \in Nat /\ c.ttl \in Nat /\ Validate(c)

LEMMA DefaultIsValid == Valid(Default)
BY QuarterAssumption DEF Valid, Validate, Default, SchemaVersion, Second

\* What Load returns is Invalid or has the ranges that Validate tests.
LEMMA LoadIsValid ==
    ASSUME NEW f \in Files, Load(f) # Invalid
    PROVE  Valid(Load(f))
<1>1. CASE f.is = "missing"
  BY <1>1, DefaultIsValid DEF Load
<1>2. CASE f.is # "missing"
  <2> DEFINE c == [schema_version |-> Or(f.schema_version, Default.schema_version),
                   poll  |-> Or(f.poll, Default.poll),
                   ttl   |-> Or(f.ttl, Default.ttl),
                   value |-> Or(f.value, Default.value)]
  <2>1. f.is = "decoded" /\ Bad \notin {f.poll, f.ttl} /\ Load(f) = c /\ Validate(c)
    BY <1>2 DEF Load
  <2>2. c.poll \in Int /\ c.ttl \in Int
    <3>1. Default.poll \in Nat /\ Default.ttl \in Nat
      BY DefaultIsValid DEF Valid
    <3>2. f.poll \in Int \cup {Absent} /\ f.ttl \in Int \cup {Absent}
      BY <2>1, FilesAssumption
    <3> QED  BY <3>1, <3>2 DEF Or
  <2>3. c.poll >= 2 * Quarter /\ c.ttl >= 3 * c.poll
    BY <2>1 DEF Validate
  <2> HIDE DEF c
  <2>4. c.poll \in Nat /\ c.ttl \in Nat
    BY <2>2, <2>3, QuarterAssumption
  <2> QED  BY <2>1, <2>4 DEF Valid
<1> QED  BY <1>1, <1>2

\* A third of the TTL, rounded down.
LEMMA AgeFits ==
    ASSUME Valid(cfg)
    PROVE  /\ Poll \in Nat /\ TTL \in Nat /\ H \in Nat
           /\ Poll >= 2 * Quarter /\ TTL >= 3 * Poll /\ H >= 1 /\ 3 * H <= TTL
<1>1. /\ Poll \in Nat /\ TTL \in Nat /\ Poll >= 2 * Quarter /\ TTL >= 3 * Poll
  BY DEF Valid, Validate, Poll, TTL
<1>2. H = TTL \div 3
  BY DEF H, HeartbeatAge, TTL
<1> HIDE DEF H, Poll, TTL
<1>3. H \in Nat /\ 3 * H <= TTL /\ TTL < 3 * H + 3
  BY <1>1, <1>2
<1> QED  BY <1>1, <1>3, QuarterAssumption

-----------------------------------------------------------------------------
Waits     == pc \in {"snapshot", "answer"}
Unvisited == (pc = "reconcile" /\ ~visited) \/ pc = "sent"
Slack     == H - 1 + (IF misses = 0 THEN 0 ELSE 2 * Poll)

\* The next tick falls inside the deadline of Reconcile, or is there already.
TickIsNear == pc \in {"reconcile", "sent"} => pending \/ due <= left

\* Herdr holds the tokens for as long as the record is younger than the TTL.
Lasts ==
    /\ written => ttl + age >= TTL
    /\ pc = "sent" => ttl + (Poll - left) >= TTL

\* Only a failure raises the backoff.
BackoffIsReset ==
    /\ pc \in {"reconcile", "sent", "wait"} => backoff = BaseBackoff
    /\ written /\ misses = 0 => pc # "retry" /\ (Waits => backoff = BaseBackoff)

Bound ==
    written /\ misses <= 1 =>
        /\ pc = "reconcile" /\ visited => age + left <= Slack + Poll
        /\ pc = "wait" /\ pending => age <= Slack + Poll
        /\ pc = "wait" /\ ~pending => age + due <= Slack + Poll
        /\ Waits => age + left <= Slack + 2 * Poll
        /\ Unvisited => age + left <= Slack + 3 * Poll
        /\ pc = "retry" => age + left <= H - 1 + 3 * Poll

\* The same budget when no call has taken more than half its deadline.
PromptBound ==
    written /\ misses = 0 /\ ~slow =>
        /\ Waits \/ Unvisited => 2 * (Poll - left) <= Poll
        /\ Unvisited => 2 * (age - (Poll - left)) <= 2 * (H - 1) + 3 * Poll

LoadedIsNew == pc = "loaded" => ~written

IInv == TypeOK /\ LoadedIsNew /\ TickIsNear /\ Lasts /\ BackoffIsReset /\ Bound /\ PromptBound

-----------------------------------------------------------------------------
LEMMA InitIInv == Init => IInv
<1> SUFFICES ASSUME Init PROVE IInv
  OBVIOUS
<1>1. cfg # Invalid => Valid(cfg)
  BY LoadIsValid DEF Init
<1>2. ~written /\ pc \in {"refused", "loaded"} /\ (pc # "refused" => Valid(cfg))
  BY <1>1 DEF Init
<1>3. Flags
  BY DEF Init, Flags
<1>4. TypeOK
  BY <1>2, <1>3, QuarterAssumption DEF Init, Valid, TypeOK, Running, BaseBackoff
<1>5. TickIsNear /\ Lasts /\ BackoffIsReset /\ Bound /\ PromptBound
  BY <1>2 DEF TickIsNear, Lasts, BackoffIsReset, Bound, PromptBound
<1> QED  BY <1>2, <1>4, <1>5 DEF IInv, LoadedIsNew

\* Once the daemon runs, the facts about its configuration are at hand.
LEMMA RunsValid ==
    ASSUME IInv, Next
    PROVE  /\ Valid(cfg) /\ pc # "refused" /\ cfg' = cfg
           /\ Poll' = Poll /\ TTL' = TTL /\ H' = H
<1>1. pc # "refused" /\ cfg' = cfg
  BY DEF Next, Boot, Elapse, SnapshotServed, SnapshotReturns, Reconcile, SnapshotFails,
         Retry, Tick, AskAgain, Skip, WriteApplied, WriteReturns, WriteFails,
         EndReconcile, Visiting, Visited
<1> QED  BY <1>1 DEF IInv, TypeOK, Valid, Poll, TTL, H, HeartbeatAge

LEMMA FlagsStay == ASSUME Flags, Next PROVE Flags'
<1>1. CASE Boot \/ Elapse
  BY <1>1, Zenon DEF Flags, Boot, Elapse
<1>2. CASE SnapshotServed \/ SnapshotReturns \/ SnapshotFails \/ Retry \/ Tick
  BY <1>2, Zenon DEF Flags, SnapshotServed, SnapshotReturns, Reconcile, SnapshotFails,
                     Retry, Tick, AskAgain
<1>3. CASE Skip \/ WriteApplied \/ WriteReturns \/ WriteFails \/ EndReconcile
  BY <1>3, Zenon DEF Flags, Skip, WriteApplied, WriteReturns, WriteFails, EndReconcile,
                     Visited
<1> QED  BY <1>1, <1>2, <1>3 DEF Next

LEMMA BootKeeps == ASSUME IInv, Boot PROVE IInv'
<1>1. Next
  BY DEF Next
<1>2. Valid(cfg) /\ Valid(cfg') /\ Poll' = Poll /\ Poll \in Nat /\ Poll >= 1
  BY <1>1, RunsValid, AgeFits, QuarterAssumption
<1>3. ~written'
  BY DEF Boot, IInv, LoadedIsNew
<1> HIDE DEF Poll
<1>4. Flags'
  BY <1>1, FlagsStay DEF IInv, TypeOK
<1>5. TypeOK'
  BY <1>2, <1>4 DEF Boot, IInv, TypeOK, Running, Valid
<1>6. TickIsNear' /\ Lasts' /\ BackoffIsReset' /\ Bound' /\ PromptBound'
  BY <1>3 DEF Boot, TickIsNear, Lasts, BackoffIsReset, Bound, PromptBound
<1> QED  BY <1>3, <1>5, <1>6 DEF IInv, LoadedIsNew, Boot

LEMMA UnitForUnit ==
    \A a, a2, l, l2, b \in Int : a2 <= a + 1 /\ l2 = l - 1 /\ a + l <= b => a2 + l2 <= b
OBVIOUS

\* A unit of time costs the record one unit of its budget and the deadline, or
\* the wait for the tick, pays for it.
LEMMA ElapseKeeps == ASSUME IInv, Elapse PROVE IInv'
<1>1. Next
  BY DEF Next
<1>2. Valid(cfg) /\ Poll' = Poll /\ TTL' = TTL /\ H' = H /\ pc' = pc /\ visited' = visited
  BY <1>1, RunsValid DEF Elapse
<1>3. /\ Poll \in Nat /\ TTL \in Nat /\ H \in Nat
      /\ Poll >= 2 * Quarter /\ TTL >= 3 * Poll /\ H >= 1 /\ 3 * H <= TTL
  BY <1>2, AgeFits
<1>4. Slack' = Slack /\ Slack \in Nat
  BY <1>2, <1>3 DEF Slack, Elapse, IInv, TypeOK
<1> HIDE DEF Poll, TTL, H, Slack
<1>5. Flags'
  BY <1>1, FlagsStay DEF IInv, TypeOK
<1>6. TypeOK'
  BY <1>2, <1>3, <1>5, QuarterAssumption DEF Elapse, IInv, TypeOK, Running, AtMost, Valid, Poll
<1>7. age' <= age + 1
  BY <1>3 DEF Elapse, AtMost, IInv, TypeOK
<1>8. (pending' <=> pending \/ due = 1) /\ (written' <=> written) /\ (slow => slow')
  BY DEF Elapse
<1>9.
      /\ due \in Nat /\ due >= 1 /\ left \in Nat /\ age \in Nat
      /\ due' = (IF due = 1 THEN Poll ELSE due - 1)
      /\ pc # "wait" => left > 0 /\ left' = left - 1
      /\ pc = "wait" => ~pending
      /\ age' \in Nat /\ misses' = misses
      /\ pc \in {"snapshot", "answer", "retry", "reconcile", "sent", "wait"}
  BY <1>3 DEF Elapse, IInv, TypeOK, Running, AtMost
<1>10. TickIsNear'
  BY <1>2, <1>8, <1>9 DEF IInv, TickIsNear
<1>11. Lasts'
  BY <1>2, <1>3 DEF Elapse, IInv, TypeOK, Lasts, AtMost
<1>12. BackoffIsReset'
  BY <1>2 DEF Elapse, IInv, BackoffIsReset, Waits, BaseBackoff
<1>13. misses \in Nat
  BY DEF IInv, TypeOK
<1>14. /\ age \in Int /\ age' \in Int /\ left \in Int /\ due \in Int
       /\ Slack + Poll \in Int /\ Slack + 2 * Poll \in Int
       /\ Slack + 3 * Poll \in Int /\ H - 1 + 3 * Poll \in Int
  BY <1>3, <1>4, <1>9
<1>15. Bound'
  <2> SUFFICES ASSUME written, misses <= 1 PROVE Bound'
    BY <1>8, <1>9 DEF Bound
  <2>1. CASE pc = "wait"
    <3>1. age + due <= Slack + Poll
      BY <1>9, <2>1 DEF IInv, Bound
    <3>2. CASE due = 1
      <4>1. pending' /\ age' <= Slack + Poll
        BY <1>3, <1>4, <1>7, <1>8, <1>9, <3>1, <3>2
      <4> QED  BY <1>2, <1>4, <2>1, <4>1 DEF Bound, Waits, Unvisited
    <3>3. CASE due # 1
      <4>1. due' = due - 1 /\ due' \in Int /\ ~pending'
        BY <1>8, <1>9, <2>1, <3>3
      <4>2. age' + due' <= Slack + Poll
        BY <1>7, <1>14, <3>1, <4>1, UnitForUnit
      <4> QED  BY <1>2, <1>4, <2>1, <4>1, <4>2 DEF Bound, Waits, Unvisited
    <3> QED  BY <3>2, <3>3
  <2>2. CASE pc # "wait"
    <3>1. left' = left - 1 /\ left' \in Int
      BY <1>9, <2>2
    <3>2. \A b \in Int : age + left <= b => age' + left' <= b
      BY <1>7, <1>14, <3>1, UnitForUnit
    <3> QED
      BY <1>2, <1>4, <1>14, <2>2, <3>2 DEF IInv, Bound, Waits, Unvisited
  <2> QED  BY <2>1, <2>2
<1>16. ~slow' => ~(Attempting /\ 2 * (Poll - left') > Poll)
  BY DEF Elapse
<1>17. PromptBound'
  BY <1>2, <1>3, <1>7, <1>8, <1>9, <1>16
  DEF IInv, PromptBound, Waits, Unvisited, Attempting
<1> QED  BY <1>6, <1>10, <1>11, <1>12, <1>15, <1>17, <1>2, <1>8 DEF IInv, LoadedIsNew

LEMMA AskKeeps ==
    ASSUME IInv, SnapshotServed \/ Retry \/ Tick
    PROVE  IInv'
<1>1. Next
  BY DEF Next
<1>2. Valid(cfg) /\ Poll' = Poll /\ TTL' = TTL /\ H' = H
  BY <1>1, RunsValid
<1>3. /\ Poll \in Nat /\ TTL \in Nat /\ H \in Nat
      /\ Poll >= 2 * Quarter /\ TTL >= 3 * Poll /\ H >= 1 /\ 3 * H <= TTL
  BY <1>2, AgeFits
<1>4. misses' = misses
  BY Zenon DEF SnapshotServed, Retry, Tick, AskAgain
<1>5. Slack' = Slack /\ Slack \in Nat
  BY <1>2, <1>3, <1>4 DEF Slack
<1>6. Flags'
  BY <1>1, FlagsStay DEF IInv, TypeOK
<1>7. misses = 1 => Slack = H - 1 + 2 * Poll
  BY DEF Slack
<1> HIDE DEF Poll, TTL, H, Slack
<1>8. CASE SnapshotServed
  <2>1. /\ pc = "snapshot" /\ pc' = "answer"
        /\ UNCHANGED <<cfg, left, due, pending, backoff, visited, recorded, age, ttl,
                       written, fails, misses, slow>>
    BY <1>8, Zenon DEF SnapshotServed
  <2> QED
    BY <1>2, <1>5, <1>6, <2>1
    DEF IInv, TypeOK, Running, LoadedIsNew, TickIsNear, Lasts, BackoffIsReset, Bound,
        PromptBound, Waits, Unvisited, BaseBackoff, Poll
<1>9. CASE Retry
  <2>1. misses # 0 \/ ~written
    BY <1>9 DEF Retry, IInv, TypeOK, BackoffIsReset
  <2> QED
    BY <1>2, <1>3, <1>5, <1>7, <1>9, <1>6, <2>1
    DEF Retry, AskAgain, IInv, TypeOK, Running, LoadedIsNew, TickIsNear, Lasts, BackoffIsReset,
        Bound, PromptBound, Waits, Unvisited, BaseBackoff, Poll
<1>10. CASE Tick
  BY <1>2, <1>3, <1>5, <1>10, <1>6
  DEF Tick, AskAgain, IInv, TypeOK, Running, LoadedIsNew, TickIsNear, Lasts, BackoffIsReset,
      Bound, PromptBound, Waits, Unvisited, BaseBackoff, Poll
<1> QED  BY <1>8, <1>9, <1>10

LEMMA SnapshotReturnsKeeps == ASSUME IInv, SnapshotReturns PROVE IInv'
<1>1. Next
  BY DEF Next
<1>2. Valid(cfg) /\ Poll' = Poll /\ TTL' = TTL /\ H' = H
  BY <1>1, RunsValid
<1>3. /\ Poll \in Nat /\ TTL \in Nat /\ H \in Nat
      /\ Poll >= 2 * Quarter /\ TTL >= 3 * Poll /\ H >= 1 /\ 3 * H <= TTL
  BY <1>2, AgeFits
<1>4. Slack' = Slack /\ Slack \in Nat
  BY <1>2, <1>3 DEF Slack, SnapshotReturns, Reconcile, IInv, TypeOK
<1>5. misses = 0 => Slack = H - 1
  BY <1>3 DEF Slack
<1>6. Flags'
  BY <1>1, FlagsStay DEF IInv, TypeOK
<1> HIDE DEF Poll, TTL, H, Slack
<1> QED
  BY <1>2, <1>3, <1>4, <1>6, <1>5, QuarterAssumption
  DEF SnapshotReturns, Reconcile, IInv, TypeOK, Running, LoadedIsNew, TickIsNear, Lasts,
      BackoffIsReset, Bound, PromptBound, Waits, Unvisited, BaseBackoff, Poll

\* The first failure waits a Quarter, which is less than a poll interval.
LEMMA SnapshotFailsKeeps == ASSUME IInv, SnapshotFails PROVE IInv'
<1>1. Next
  BY DEF Next
<1>2. Valid(cfg) /\ Poll' = Poll /\ TTL' = TTL /\ H' = H
  BY <1>1, RunsValid
<1>3. /\ Poll \in Nat /\ TTL \in Nat /\ H \in Nat
      /\ Poll >= 2 * Quarter /\ TTL >= 3 * Poll /\ H >= 1 /\ 3 * H <= TTL
  BY <1>2, AgeFits
<1>4. misses = 0 => Slack = H - 1
  BY <1>3 DEF Slack
<1>5. misses' = (IF misses + 1 < 2 THEN misses + 1 ELSE 2) /\ misses' # 0
  BY DEF SnapshotFails, OneMore, AtMost, IInv, TypeOK
<1>6. fails' \in 0..8 /\ backoff' \in Nat
  BY QuarterAssumption DEF SnapshotFails, AtMost, IInv, TypeOK, MaxBackoff
<1>7. Flags'
  BY <1>1, FlagsStay DEF IInv, TypeOK
<1> HIDE DEF Poll, TTL, H, Slack
<1> QED
  BY <1>2, <1>3, <1>4, <1>7, <1>5, <1>6, QuarterAssumption
  DEF SnapshotFails, IInv, TypeOK, Running, LoadedIsNew, TickIsNear, Lasts,
      BackoffIsReset, Bound, PromptBound, Waits, Unvisited, BaseBackoff, Poll

LEMMA VisitKeeps ==
    ASSUME IInv, Skip \/ WriteApplied \/ WriteReturns \/ WriteFails \/ EndReconcile
    PROVE  IInv'
<1>1. Next
  BY DEF Next
<1>2. Valid(cfg) /\ Poll' = Poll /\ TTL' = TTL /\ H' = H
  BY <1>1, RunsValid
<1>3. /\ Poll \in Nat /\ TTL \in Nat /\ H \in Nat
      /\ Poll >= 2 * Quarter /\ TTL >= 3 * Poll /\ H >= 1 /\ 3 * H <= TTL
  BY <1>2, AgeFits
<1>4. /\ misses = 0 => Slack = H - 1
      /\ misses # 0 => Slack = H - 1 + 2 * Poll
      /\ Slack \in Nat
      /\ misses' = misses => Slack' = Slack
      /\ misses' = 0 => Slack' = H - 1
      /\ misses' # 0 => Slack' = H - 1 + 2 * Poll
  BY <1>2, <1>3 DEF Slack
<1>5. Flags'
  BY <1>1, FlagsStay DEF IInv, TypeOK
<1> HIDE DEF Poll, TTL, H, Slack
<1>6. CASE Skip
  BY <1>2, <1>3, <1>4, <1>5, <1>6
  DEF Skip, Visiting, Visited, UpToDate, SinceNow, IInv, TypeOK, Running, LoadedIsNew, TickIsNear,
      Lasts, BackoffIsReset, Bound, PromptBound, Waits, Unvisited, BaseBackoff, Poll
<1>7. CASE WriteApplied
  BY <1>2, <1>3, <1>4, <1>5, <1>7
  DEF WriteApplied, Visiting, UpToDate, SinceNow, IInv, TypeOK, Running, LoadedIsNew, TickIsNear,
      Lasts, BackoffIsReset, Bound, PromptBound, Waits, Unvisited, BaseBackoff, Poll
<1>8. CASE WriteReturns
  BY <1>2, <1>3, <1>4, <1>5, <1>8
  DEF WriteReturns, Visited, SinceNow, IInv, TypeOK, Running, LoadedIsNew, TickIsNear,
      Lasts, BackoffIsReset, Bound, PromptBound, Waits, Unvisited, BaseBackoff, Poll
<1>9. CASE WriteFails
  <2>1. misses' = (IF misses + 1 < 2 THEN misses + 1 ELSE 2) /\ misses' # 0
    BY <1>9 DEF WriteFails, OneMore, AtMost, IInv, TypeOK
  <2> QED
    BY <1>2, <1>3, <1>4, <1>5, <1>9, <2>1
    DEF WriteFails, Visiting, Visited, IInv, TypeOK, Running, LoadedIsNew, TickIsNear,
        Lasts, BackoffIsReset, Bound, PromptBound, Waits, Unvisited, BaseBackoff, Poll
<1>10. CASE EndReconcile
  BY <1>2, <1>3, <1>4, <1>5, <1>10
  DEF EndReconcile, IInv, TypeOK, Running, LoadedIsNew, TickIsNear,
      Lasts, BackoffIsReset, Bound, PromptBound, Waits, Unvisited, BaseBackoff, Poll
<1> QED  BY <1>6, <1>7, <1>8, <1>9, <1>10

\* The budget is kept for every configuration Load may return (daemon.go:67-141).
THEOREM BudgetHolds == Spec => []IInv
<1>1. IInv /\ [Next]_vars => IInv'
  <2> SUFFICES ASSUME IInv, [Next]_vars PROVE IInv'
    OBVIOUS
  <2>1. CASE Next
    BY <2>1, BootKeeps, ElapseKeeps, AskKeeps, SnapshotReturnsKeeps, SnapshotFailsKeeps,
       VisitKeeps
    DEF Next
  <2>2. CASE UNCHANGED vars
    <3>1. UNCHANGED <<TypeOK, LoadedIsNew, TickIsNear, Lasts, BackoffIsReset>>
      BY <2>2
      DEF vars, TypeOK, Flags, Running, LoadedIsNew, TickIsNear, Lasts, BackoffIsReset,
          Waits, Poll, TTL
    <3>2. UNCHANGED <<Bound, PromptBound>>
      BY <2>2 DEF vars, Bound, PromptBound, Waits, Unvisited, Slack, Poll, H, HeartbeatAge
    <3> QED  BY <3>1, <3>2 DEF IInv
  <2> QED  BY <2>1, <2>2
<1> QED  BY <1>1, InitIInv, PTL DEF Spec

-----------------------------------------------------------------------------
\* What a running daemon knows when it leaves a budget of less than the TTL.
LEMMA YoungIsHeld ==
    ASSUME IInv, Running, written, age < TTL
    PROVE  ttl > 0
<1>1. Valid(cfg)
  BY DEF IInv, TypeOK, Running, Valid
<1>2. TTL \in Nat
  BY <1>1, AgeFits
<1> HIDE DEF TTL
<1> QED  BY <1>2 DEF IInv, TypeOK, Lasts

LEMMA BudgetSuffices == IInv => HealthyAlive /\ PromptAlive /\ OneMissAlive
<1> SUFFICES ASSUME IInv, Running, written, misses <= 1
             PROVE  /\ 2 * TTL >= 9 * Poll /\ misses = 0 => ttl > 0
                    /\ misses = 0 /\ ~slow => ttl > 0
                    /\ 2 * TTL >= 15 * Poll => ttl > 0
  BY DEF HealthyAlive, PromptAlive, OneMissAlive
<1>1. /\ Poll \in Nat /\ TTL \in Nat /\ H \in Nat
      /\ Poll >= 2 * Quarter /\ TTL >= 3 * Poll /\ H >= 1 /\ 3 * H <= TTL
  BY AgeFits DEF IInv, TypeOK, Running, Valid
<1>2. /\ misses = 0 => Slack = H - 1
      /\ misses # 0 => Slack = H - 1 + 2 * Poll
  BY <1>1 DEF Slack
<1>3. /\ pc \in {"snapshot", "answer", "retry", "reconcile", "sent", "wait"}
      /\ age \in Nat /\ left \in Nat /\ due \in Nat /\ misses \in Nat
      /\ Waits \/ Unvisited => left <= Poll
      /\ misses = 0 => pc # "retry"
  BY DEF IInv, TypeOK, Running, Waits, Unvisited, BackoffIsReset
<1>4. age <= Slack + 3 * Poll
  <2> HIDE DEF Poll, TTL, H, Slack
  <2> QED
    BY <1>1, <1>2, <1>3, QuarterAssumption DEF IInv, Bound, Waits, Unvisited, Running
<1>5. misses = 0 /\ ~slow => 2 * age <= 2 * (H - 1) + 4 * Poll
  <2> HIDE DEF Poll, TTL, H, Slack
  <2> QED
    BY <1>1, <1>2, <1>3, QuarterAssumption
    DEF IInv, Bound, PromptBound, Waits, Unvisited, Running
<1> HIDE DEF Poll, TTL, H, Slack
<1>6. /\ 2 * TTL >= 9 * Poll /\ misses = 0 => age < TTL
      /\ misses = 0 /\ ~slow => age < TTL
      /\ 2 * TTL >= 15 * Poll => age < TTL
  BY <1>1, <1>2, <1>3, <1>4, <1>5
<1> QED  BY <1>6, YoungIsHeld

\* A daemon that misses nothing keeps the tokens alive at 4.5 intervals, with
\* every call as slow as its deadline allows (config.go:44-46).
THEOREM HealthyLasts == Spec => []HealthyAlive
BY BudgetHolds, BudgetSuffices, PTL

\* With prompt calls every accepted configuration keeps them alive (config.go:58).
THEOREM PromptLasts == Spec => []PromptAlive
BY BudgetHolds, BudgetSuffices, PTL

\* A single failed attempt is survived at 7.5 intervals (config.go:59-60).
THEOREM OneMissLasts == Spec => []OneMissAlive
BY BudgetHolds, BudgetSuffices, PTL

-----------------------------------------------------------------------------
(* The backoff *)

\* What the backoff is after n failures in a row.
Doubled(n) == AtMost(BaseBackoff * 2^n, MaxBackoff)

BackoffDoubles ==
    /\ backoff = Doubled(fails)
    /\ pc = "retry" => fails >= 1 /\ left <= Doubled(fails - 1)

LEMMA Powers ==
    /\ 2^0 = 1 /\ 2^1 = 2 /\ 2^2 = 4 /\ 2^3 = 8 /\ 2^4 = 16
    /\ 2^5 = 32 /\ 2^6 = 64 /\ 2^7 = 128 /\ 2^8 = 256
OBVIOUS

\* Base, twice, four, eight and sixteen times the base, and then the cap.
LEMMA DoubledIs ==
    /\ Doubled(0) = Quarter /\ Doubled(1) = 2 * Quarter /\ Doubled(2) = 4 * Quarter
    /\ Doubled(3) = 8 * Quarter /\ Doubled(4) = 16 * Quarter
    /\ \A n \in 5..8 : Doubled(n) = 20 * Quarter
<1>1. /\ Doubled(0) = Quarter /\ Doubled(1) = 2 * Quarter /\ Doubled(2) = 4 * Quarter
      /\ Doubled(3) = 8 * Quarter /\ Doubled(4) = 16 * Quarter
  BY QuarterAssumption, Powers DEF Doubled, AtMost, BaseBackoff, MaxBackoff
<1>2. /\ Doubled(5) = 20 * Quarter /\ Doubled(6) = 20 * Quarter
      /\ Doubled(7) = 20 * Quarter /\ Doubled(8) = 20 * Quarter
  BY QuarterAssumption, Powers DEF Doubled, AtMost, BaseBackoff, MaxBackoff
<1>3. \A n \in 5..8 : n = 5 \/ n = 6 \/ n = 7 \/ n = 8
  OBVIOUS
<1> QED  BY <1>1, <1>2, <1>3

\* One more failure doubles it, up to the cap; fails counts to 8, beyond the cap.
LEMMA DoublesOnce ==
    ASSUME NEW n \in 0..8
    PROVE  /\ AtMost(2 * Doubled(n), MaxBackoff) = Doubled(AtMost(n + 1, 8))
           /\ Doubled(n) <= Doubled(AtMost(n + 1, 8) - 1)
<1>1. n = 0 \/ n = 1 \/ n = 2 \/ n = 3 \/ n = 4 \/ n = 5 \/ n = 6 \/ n = 7 \/ n = 8
  OBVIOUS
<1>2. /\ Doubled(5) = 20 * Quarter /\ Doubled(6) = 20 * Quarter
      /\ Doubled(7) = 20 * Quarter /\ Doubled(8) = 20 * Quarter
  BY DoubledIs
<1> QED  BY <1>1, <1>2, DoubledIs, QuarterAssumption DEF AtMost, MaxBackoff

LEMMA DoublesStep == TypeOK /\ BackoffDoubles /\ [Next]_vars => BackoffDoubles'
<1> SUFFICES ASSUME TypeOK, BackoffDoubles, [Next]_vars PROVE BackoffDoubles'
  OBVIOUS
<1>0. /\ fails \in 0..8 /\ left \in Nat
      /\ \A n \in 0..8 : Doubled(n) \in Int
  <2>1. \A n \in 0..8 : n = 0 \/ n = 1 \/ n = 2 \/ n = 3 \/ n = 4 \/ n \in 5..8
    OBVIOUS
  <2> QED  BY <2>1, DoubledIs, QuarterAssumption DEF TypeOK
<1>1. CASE SnapshotFails
  BY <1>0, <1>1, DoublesOnce DEF SnapshotFails, BackoffDoubles, AtMost
<1>2. CASE SnapshotReturns
  BY <1>2, DoubledIs DEF SnapshotReturns, Reconcile, BackoffDoubles, BaseBackoff
<1>3. CASE Elapse
  <2>1. pc = "retry" => left' <= left
    BY <1>0, <1>3 DEF Elapse
  <2>2. pc = "retry" => left' \in Int
    BY <1>0, <1>3 DEF Elapse
  <2> QED  BY <1>0, <1>3, <2>1, <2>2 DEF Elapse, BackoffDoubles
<1>4. CASE Boot \/ SnapshotServed \/ Retry \/ Tick
  BY <1>4 DEF Boot, SnapshotServed, Retry, Tick, AskAgain, BackoffDoubles
<1>5. CASE Skip \/ WriteApplied \/ WriteReturns \/ WriteFails \/ EndReconcile
  BY <1>5 DEF Skip, WriteApplied, WriteReturns, WriteFails, EndReconcile, Visited,
              BackoffDoubles
<1>6. CASE UNCHANGED vars
  BY <1>6 DEF vars, BackoffDoubles
<1> QED  BY <1>1, <1>2, <1>3, <1>4, <1>5, <1>6 DEF Next

\* The daemon asks Herdr again in time after any row of failures, and at once
\* after the first failure that follows a success (daemon.go:99-109).
THEOREM RetriesAreInTime == Spec => []RetriesInTime
<1>1. Init => BackoffDoubles
  BY DoubledIs DEF Init, BackoffDoubles, BaseBackoff
<1>2. IInv => TypeOK
  BY DEF IInv
<1>3. BackoffDoubles => RetriesInTime
  BY DEF BackoffDoubles, RetriesInTime, Doubled
<1> QED  BY <1>1, <1>2, <1>3, BudgetHolds, DoublesStep, PTL DEF Spec
=============================================================================
