---------------------------- MODULE PublishProofs ----------------------------
(***************************************************************************)
(* TokenSync implements Publish, for any workspaces, agents, labels,       *)
(* statuses, other writers and late requests.                              *)
(*                                                                         *)
(* A reading starts with a snapshot, which reads the truth, and is handed  *)
(* from the visit to the request and from the request to the late ones.    *)
(* A write covers every key, so what it leaves of the plugin's own keys is *)
(* what it carries, whatever was there before.                             *)
(***************************************************************************)
EXTENDS TokenSyncProofs

Owed(w) == pc \in {"reconcile", "call"} /\ w \in todo

\* Readings, member by member.
LEMMA ReadingsAre ==
  \A w, r : r \in Readings(w) <=>
     \/ Owed(w) /\ r = Own(Want(w))
     \/ \E q \in late : q.workspace_id = w /\ r = Own(q.tokens)
     \/ pc = "call" /\ request.workspace_id = w /\ r = Own(request.tokens)
  BY DEF Readings, Owed

\* A complete write leaves what it carries.
LEMMA OwnOfWrite ==
  ASSUME NEW f, NEW want, DOMAIN want = AllTokens
  PROVE  Own(Merge(f, want)) = Own(want)
  <1>1. OwnKeys \subseteq DOMAIN want
    BY DEF OwnKeys
  <1>2. \A k \in OwnKeys :
           /\ k \in DOMAIN Merge(f, want) <=> want[k] # Nil
           /\ want[k] # Nil => Merge(f, want)[k] = want[k]
    BY <1>1, MergeByKey
  <1>3. {j \in DOMAIN Merge(f, want) \cap OwnKeys : Merge(f, want)[j] # Nil}
          = {j \in DOMAIN want \cap OwnKeys : want[j] # Nil}
    BY <1>1, <1>2
  <1> QED  BY <1>2, <1>3 DEF Own

\* What agrees on the plugin's own keys is the same to it.
LEMMA OwnAgrees ==
  ASSUME NEW f, NEW g, DOMAIN f \cap OwnKeys = DOMAIN g \cap OwnKeys,
         \A k \in DOMAIN f \cap OwnKeys : f[k] = g[k]
  PROVE  Own(f) = Own(g)
  <1>1. {j \in DOMAIN f \cap OwnKeys : f[j] # Nil} = {j \in DOMAIN g \cap OwnKeys : g[j] # Nil}
    OBVIOUS
  <1> QED  BY <1>1 DEF Own

LEMMA OwnOfNothing ==
  ASSUME NEW f, DOMAIN f \cap OwnKeys = {}
  PROVE  Own(f) = NoTokens
  BY DEF Own, NoTokens

-----------------------------------------------------------------------------
\* Whatever is on its way to w was the truth of w, or was on its way before.
LEMMA ReadsTruth ==
  ASSUME TypeOK, [Next]_vars, NEW w \in WorkspaceIDs, NEW r, (r \in Readings(w))'
  PROVE  r = Truth(w) \/ r \in Readings(w)
  <1>1. \/ Owed(w)' /\ r = Own(Want(w))'
        \/ \E q \in late' : q.workspace_id = w /\ r = Own(q.tokens)
        \/ pc' = "call" /\ request'.workspace_id = w /\ r = Own(request'.tokens)
    BY DEF Readings, Owed, Own
  <1>2. CASE SnapshotOk
    <2>1. late' = late /\ pc' = "reconcile" /\ todo' = Open /\ snap' = CurrentSnapshot
      BY <1>2 DEF SnapshotOk, herdrVars
    <2>2. w \in Open => Want(w)' = Desired(View(w), agents)
      BY <2>1 DEF Want, CurrentSnapshot
    <2>3. w \in Open => Own(Want(w))' = Truth(w)
      BY <2>2 DEF Truth, Own
    <2> QED  BY <1>1, <2>1, <2>3, ReadingsAre DEF Owed
  <1>3. CASE \E v \in WorkspaceIDs : Report(v)
    <2>1. PICK v \in WorkspaceIDs : Report(v)
      BY <1>3
    <2>2. /\ late' = late /\ todo' = todo /\ snap' = snap
          /\ pc = "reconcile" /\ v \in todo
          /\ request'.workspace_id = v /\ request'.tokens = Want(v)
      BY <2>1 DEF Report, Visiting, herdrVars
    <2>3. Want(w)' = Want(w)
      BY <2>2 DEF Want
    <2>4. Own(Want(w))' = Own(Want(w))
      BY <2>3 DEF Own
    <2> QED  BY <1>1, <2>2, <2>4, ReadingsAre DEF Owed
  <1>4. CASE Serve \/ Restart
    <2>1. /\ late' \subseteq late /\ todo' = todo /\ snap' = snap /\ pc' = pc
          /\ pc = "call" => /\ request'.workspace_id = request.workspace_id
                            /\ request'.tokens = request.tokens
      <3>1. CASE Serve
        <4>1. /\ request'.workspace_id = request.workspace_id
              /\ request'.tokens = request.tokens
          BY <3>1, ReplyType DEF Serve
        <4> QED  BY <3>1, <4>1 DEF Serve
      <3>2. CASE Restart
        BY <3>2, ReplyType DEF Restart
      <3> QED  BY <1>4, <3>1, <3>2
    <2>2. Own(Want(w))' = Own(Want(w))
      BY <2>1 DEF Want, Own
    <2> QED  BY <1>1, <2>1, <2>2, ReadingsAre DEF Owed
  <1>5. CASE GivesUp \/ Crash
    <2>1. /\ pc' # "call" /\ (pc' = "reconcile" => pc = "call" /\ todo' \subseteq todo /\ snap' = snap)
          /\ \A q \in late' : q \in late \/ (/\ pc = "call" /\ q.tokens = request.tokens
                                             /\ q.workspace_id = request.workspace_id)
      BY <1>5 DEF GivesUp, Crash, CallEnds, Forget
    <2>2. pc' = "reconcile" => Own(Want(w))' = Own(Want(w))
      BY <2>1 DEF Want, Own
    <2> QED  BY <1>1, <2>1, <2>2, ReadingsAre DEF Owed
  <1>6. CASE /\ late' \subseteq late
             /\ pc' = "call" => pc = "call" /\ request' = request
             /\ pc' \in {"reconcile", "call"} =>
                   pc \in {"reconcile", "call"} /\ todo' \subseteq todo /\ snap' = snap
    <2>1. Owed(w)' => Owed(w) /\ Own(Want(w))' = Own(Want(w))
      BY <1>6 DEF Owed, Want, Own
    <2> QED  BY <1>1, <1>6, <2>1, ReadingsAre
  <1>7. \/ SnapshotOk \/ Serve \/ Restart \/ GivesUp \/ Crash
        \/ \E v \in WorkspaceIDs : Report(v)
        \/ /\ late' \subseteq late
           /\ pc' = "call" => pc = "call" /\ request' = request
           /\ pc' \in {"reconcile", "call"} =>
                 pc \in {"reconcile", "call"} /\ todo' \subseteq todo /\ snap' = snap
    BY DEF Next, Daemon, Disturbance, Blanking, SnapshotCancelled, SnapshotFails, Retry, Tick,
           Return, Forget, Skip, Visiting, ReportOnDeadCtx, ReportFails, ReportReturns,
           ReportJustInTime, ReportErrors, ReportAbandoned, ReportLost, CallEnds, EndReconcile, Age, Settle, Change, ServeLate,
           OpenWorkspace, CloseWorkspace, Expire, Clobber, AgentStarts, AgentEnds,
           DeadlinePasses, Cancel, StartDaemon, herdrVars, daemonVars, vars
  <1> QED  BY <1>2, <1>3, <1>4, <1>5, <1>6, <1>7

\* The truth does not depend on what Herdr holds.
LEMMA TruthStays ==
  ASSUME NEW w \in WorkspaceIDs, workspaces' = workspaces, agents' = agents
  PROVE  Truth(w)' = Truth(w)
  <1>1. Desired(View(w), agents)' = Desired(View(w), agents)
    <2>1. View(w)'.workspace_id = View(w).workspace_id /\ View(w)'.label = View(w).label
          /\ View(w)'.agent_status = View(w).agent_status
      BY DEF View
    <2>2. Desired(View(w)', agents) = Desired(View(w), agents)
      BY <2>1, DesiredIgnoresTokens
    <2> QED  BY <2>2
  <1> QED  BY <1>1 DEF Truth, Own, Open

\* A workspace keeps what it shows, loses it, or shows a reading.
LEMMA ShowsReading ==
  ASSUME TypeOK, [Next]_vars, NEW w \in WorkspaceIDs
  PROVE  \/ Own(held'[w]) = NoTokens \/ Own(held'[w]) = Own(held[w])
         \/ Truth(w)' = Truth(w) /\ Own(held'[w]) \in Readings(w)
  <1>1. ASSUME NEW v \in WorkspaceIDs, NEW want, Apply(v, want), DOMAIN want = AllTokens
        PROVE  held'[w] = held[w] \/ (v = w /\ Own(held'[w]) = Own(want))
    BY <1>1, OwnOfWrite DEF Apply, TypeOK
  <1>2. CASE Serve
    <2>1. CASE held' = held
      BY <2>1
    <2>2. CASE held' # held
      <3>1. /\ Apply(request.workspace_id, request.tokens) /\ pc = "call"
            /\ workspaces' = workspaces /\ agents' = agents
        BY <1>2, <2>2 DEF Serve
      <3>2. request.workspace_id \in WorkspaceIDs /\ DOMAIN request.tokens = AllTokens
        BY <3>1 DEF TypeOK, IsWrite
      <3> QED  BY <1>1, <3>1, <3>2, TruthStays, ReadingsAre
    <2> QED  BY <2>1, <2>2
  <1>3. CASE \E q \in late : ServeLate(q)
    <2>1. CASE held' = held
      BY <2>1
    <2>2. CASE held' # held
      <3>1. PICK q \in late : ServeLate(q)
        BY <1>3
      <3>2. /\ Apply(q.workspace_id, q.tokens)
            /\ workspaces' = workspaces /\ agents' = agents
        BY <2>2, <3>1 DEF ServeLate
      <3>3. q.workspace_id \in WorkspaceIDs /\ DOMAIN q.tokens = AllTokens
        BY DEF TypeOK, IsWrite
      <3> QED  BY <1>1, <3>2, <3>3, TruthStays, ReadingsAre
    <2> QED  BY <2>1, <2>2
  <1>4. CASE Restart
    BY <1>4, NoTokensType, OwnOfNothing DEF Restart
  <1>5. CASE \E v \in WorkspaceIDs : Expire(v) \/ CloseWorkspace(v)
    <2>1. held'[w] = held[w] \/ DOMAIN held'[w] \cap OwnKeys = {}
      BY <1>5, NoTokensType DEF Expire, CloseWorkspace, WithoutKeys, OwnKeys, TypeOK
    <2> QED  BY <2>1, OwnOfNothing
  <1>6. CASE \E v \in WorkspaceIDs : Clobber(v)
    <2> PICK v \in WorkspaceIDs : Clobber(v)
      BY <1>6
    <2>1. PICK f : \E k \in ForeignKeys : DOMAIN f = {k} /\ Apply(v, f)
      BY DEF Clobber
    <2>2. held'[w] = held[w] \/ held'[w] = Merge(held[w], f)
      BY <2>1 DEF Apply, TypeOK
    <2>3. /\ DOMAIN held'[w] \cap OwnKeys = DOMAIN held[w] \cap OwnKeys
          /\ \A k \in DOMAIN held'[w] \cap OwnKeys : held'[w][k] = held[w][k]
      BY <2>1, <2>2, MergeByKey DEF OwnKeys
    <2> QED  BY <2>3, OwnAgrees
  <1>7. held' = held \/ Serve \/ (\E r \in late : ServeLate(r)) \/ Blanking
    BY DEF Next, Daemon, Disturbance, SnapshotOk, SnapshotCancelled, SnapshotFails, Retry,
           Tick, Return, Forget, Skip, Report, ReportOnDeadCtx, ReportFails, ReportReturns,
           ReportJustInTime, ReportErrors, ReportAbandoned, ReportLost, GivesUp, CallEnds, EndReconcile, Age, Settle, Change,
           OpenWorkspace, AgentStarts, AgentEnds, DeadlinePasses, Cancel, Crash,
           StartDaemon, herdrVars, daemonVars, vars
  <1> QED  BY <1>2, <1>3, <1>4, <1>5, <1>6, <1>7 DEF Blanking

-----------------------------------------------------------------------------
\* The sidebar shows nothing but what the plugin read of that workspace, in
\* every interleaving of snapshots, failing and late writes, restarts and
\* changes (controller.go:78-104, client.go:82).
THEOREM ImplementsPublish == Spec => PublishesReadings
  <1>1. Init => Sidebar!Init
    <2> SUFFICES ASSUME Init, NEW w \in WorkspaceIDs
                 PROVE  Readings(w) = {} /\ Own(held[w]) = NoTokens
      BY DEF Sidebar!Init
    <2>1. Own(held[w]) = NoTokens
      BY NoTokensType, OwnOfNothing DEF Init
    <2>2. \A r : r \notin Readings(w)
      BY ReadingsAre DEF Init, Owed
    <2> QED  BY <2>1, <2>2
  <1>2. TypeOK /\ [Next]_vars => Sidebar!Next
    <2> SUFFICES ASSUME TypeOK, [Next]_vars, NEW w \in WorkspaceIDs
                 PROVE  /\ \A r \in Readings(w)' : r = Truth(w) \/ r \in Readings(w)
                        /\ \/ Own(held[w])' = NoTokens \/ Own(held[w])' = Own(held[w])
                           \/ Truth(w)' = Truth(w) /\ Own(held[w])' \in Readings(w)
      BY DEF Sidebar!Next, Sidebar!Read, Sidebar!Drift, Sidebar!Publish
    <2>1. \A r \in Readings(w)' : r = Truth(w) \/ r \in Readings(w)
      BY ReadsTruth
    <2>2. Own(held[w])' = Own(held'[w])
      BY DEF Own
    <2> QED  BY <2>1, <2>2, ShowsReading
  <1> QED  BY <1>1, <1>2, TypeCorrect, PTL DEF Spec, PublishesReadings, Sidebar!Spec
=============================================================================
