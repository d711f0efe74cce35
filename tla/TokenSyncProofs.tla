--------------------------- MODULE TokenSyncProofs ---------------------------
(***************************************************************************)
(* Proofs about TokenSync: its type invariant, that a clean tick heals     *)
(* every workspace, that tokens are never a mixture of two views, and that *)
(* the daemon never blanks a workspace that shows its name.                *)
(***************************************************************************)
EXTENDS TokenSync, FiniteSetTheorems, TLAPS

-----------------------------------------------------------------------------
(* Derive *)

\* Every agent_status, known or not, nil or not, has a status token.
LEMMA StatusTokenIsKey == \A s : StatusToken(s) \in StatusKeys
  BY DEF StatusToken, statusTokens, StatusKeys

\* Desired, key by key.
LEMMA DesiredByKey ==
  ASSUME NEW ws, NEW A
  PROVE  /\ DOMAIN Desired(ws, A) = AllTokens
         /\ \A k \in StatusKeys :
               Desired(ws, A)[k] = IF k = StatusToken(ws.agent_status)
                                   THEN StatusValue(ws) ELSE Nil
         /\ Desired(ws, A)["att_blocked"] = Count(BlockedOf(ws.workspace_id, A))
         /\ Desired(ws, A)["n_agents"] = Count(AgentsOf(ws.workspace_id, A))
  <1>1. StatusToken(ws.agent_status) \in StatusKeys
    BY StatusTokenIsKey
  <1>2. DOMAIN Desired(ws, A) = AllTokens
    BY DEF Desired, NoValues
  <1>3. ASSUME NEW k \in StatusKeys
        PROVE  Desired(ws, A)[k] = IF k = StatusToken(ws.agent_status)
                                   THEN StatusValue(ws) ELSE Nil
    <2>1. k \in AllTokens /\ k # "att_blocked" /\ k # "n_agents"
      BY DEF StatusKeys, AllTokens
    <2> QED  BY <2>1 DEF Desired, NoValues
  <1>4. Desired(ws, A)["att_blocked"] = Count(BlockedOf(ws.workspace_id, A))
    <2>1. "att_blocked" \in AllTokens /\ "att_blocked" # StatusToken(ws.agent_status)
      BY <1>1 DEF StatusKeys, AllTokens, CountKeys
    <2> QED  BY <2>1 DEF Desired, NoValues
  <1>5. Desired(ws, A)["n_agents"] = Count(AgentsOf(ws.workspace_id, A))
    <2>1. "n_agents" \in AllTokens /\ "n_agents" # StatusToken(ws.agent_status)
      BY <1>1 DEF StatusKeys, AllTokens, CountKeys
    <2> QED  BY <2>1 DEF Desired, NoValues
  <1> QED  BY <1>2, <1>3, <1>4, <1>5

\* What a status token carries is never a null.
LEMMA StatusValueType ==
  ASSUME NEW ws, ws.label \in Labels, ws.agent_status \in StatusOrNil
  PROVE  /\ StatusValue(ws) \in Labels \cup Statuses \cup {"none"}
         /\ StatusValue(ws) # Nil
  BY NilAssumption DEF StatusValue, StatusOrNil

\* A count is a null or positive.
LEMMA CountType ==
  ASSUME NEW S, IsFiniteSet(S)
  PROVE  Count(S) = Nil \/ Count(S) \in Nat \ {0}
  BY FS_CardinalityType, FS_EmptySet DEF Count

LEMMA AgentsOfFinite ==
  ASSUME NEW id, NEW A \in AgentLists
  PROVE  IsFiniteSet(AgentsOf(id, A)) /\ IsFiniteSet(BlockedOf(id, A))
  <1>1. DOMAIN A \subseteq AgentIDs
    BY DEF AgentLists, Partial
  <1>2. AgentsOf(id, A) \subseteq AgentIDs /\ BlockedOf(id, A) \subseteq AgentIDs
    BY <1>1 DEF AgentsOf, BlockedOf
  <1> QED  BY <1>2, FS_Subset, TokenSyncAssumption

\* Desired is a complete write.
LEMMA DesiredType ==
  ASSUME NEW ws, ws.label \in Labels, ws.agent_status \in StatusOrNil,
         NEW A \in AgentLists, NEW k \in AllTokens
  PROVE  Desired(ws, A)[k] = Nil \/ Desired(ws, A)[k] \in ValuesOf(k)
  <1>1. CASE k \in StatusKeys
    <2>1. k \notin CountKeys
      BY <1>1 DEF StatusKeys, CountKeys
    <2> QED  BY <1>1, <2>1, DesiredByKey, StatusValueType DEF ValuesOf
  <1>2. CASE k \in CountKeys
    <2>1. /\ Count(BlockedOf(ws.workspace_id, A)) \in (Nat \ {0}) \cup {Nil}
          /\ Count(AgentsOf(ws.workspace_id, A)) \in (Nat \ {0}) \cup {Nil}
      BY AgentsOfFinite, CountType
    <2> QED  BY <1>2, <2>1, DesiredByKey DEF ValuesOf, CountKeys
  <1> QED  BY <1>1, <1>2 DEF AllTokens

\* Exactly one status token of a desired map has a value.
LEMMA OneStatusToken ==
  ASSUME NEW ws, ws.label \in Labels, ws.agent_status \in StatusOrNil, NEW A
  PROVE  \A k \in StatusKeys :
            Desired(ws, A)[k] # Nil <=> k = StatusToken(ws.agent_status)
  BY DesiredByKey, StatusValueType

\* After a merge every key of the write is as the write says.
LEMMA MergeByKey ==
  ASSUME NEW f, NEW want
  PROVE  /\ \A k \in DOMAIN want :
               /\ k \in DOMAIN Merge(f, want) <=> want[k] # Nil
               /\ want[k] # Nil => Merge(f, want)[k] = want[k]
         /\ \A k : k \notin DOMAIN want =>
               /\ k \in DOMAIN Merge(f, want) <=> k \in DOMAIN f
               /\ k \in DOMAIN f => Merge(f, want)[k] = f[k]
  BY DEF Merge

-----------------------------------------------------------------------------
(* Type correctness *)

\* A restriction of a partial function is one.
LEMMA PartialRestrict ==
  ASSUME NEW S, NEW T, NEW f \in Partial(S, T), NEW D \in SUBSET DOMAIN f
  PROVE  [x \in D |-> f[x]] \in Partial(S, T)
  <1>1. PICK E \in SUBSET S : f \in [E -> T]
    BY DEF Partial
  <1>2. D \in SUBSET S /\ [x \in D |-> f[x]] \in [D -> T]
    BY <1>1
  <1> QED  BY <1>2 DEF Partial

LEMMA EmptyIsPartial ==
  ASSUME NEW S, NEW T, NEW x
  PROVE  [y \in {} |-> x] \in Partial(S, T)
  <1>1. {} \in SUBSET S /\ [y \in {} |-> x] \in [{} -> T]
    OBVIOUS
  <1> QED  BY <1>1 DEF Partial

LEMMA MergeType ==
  ASSUME NEW f, IsTokens(f), NEW want,
         DOMAIN want \subseteq AllTokens \cup ForeignKeys,
         \A k \in DOMAIN want : want[k] = Nil \/ want[k] = Foreign \/ want[k] \in ValuesOf(k)
  PROVE  IsTokens(Merge(f, want))
  <1>1. DOMAIN Merge(f, want) \subseteq AllTokens \cup ForeignKeys
    BY DEF Merge, IsTokens
  <1>2. ASSUME NEW k \in DOMAIN Merge(f, want)
        PROVE  Merge(f, want)[k] = Foreign \/ Merge(f, want)[k] \in ValuesOf(k)
    <2>1. CASE k \in DOMAIN want
      BY <1>2, <2>1, MergeByKey
    <2>2. CASE k \notin DOMAIN want
      BY <1>2, <2>2, MergeByKey DEF IsTokens
    <2> QED  BY <2>1, <2>2
  <1> QED  BY <1>1, <1>2 DEF IsTokens

LEMMA NoTokensType == IsTokens(NoTokens) /\ DOMAIN NoTokens = {}
  BY DEF IsTokens, NoTokens

\* What Herdr serves is a well-formed snapshot.
LEMMA CurrentSnapshotType ==
  ASSUME TypeOK
  PROVE  /\ IsSnapshot(CurrentSnapshot)
         /\ DOMAIN CurrentSnapshot.workspaces = Open
         /\ CurrentSnapshot.agents = agents
         /\ \A w \in Open : CurrentSnapshot.workspaces[w] = View(w)
  <1>1. Open \subseteq WorkspaceIDs
    BY DEF TypeOK, Open, Partial
  <1>2. \A w \in Open : workspaces[w] \in WorkspaceViews
    BY DEF TypeOK, Open, Partial
  <1>3. /\ DOMAIN CurrentSnapshot.workspaces = Open
        /\ CurrentSnapshot.agents = agents
        /\ \A w \in Open : CurrentSnapshot.workspaces[w] = View(w)
    BY DEF CurrentSnapshot
  <1>4. ASSUME NEW w \in Open
        PROVE  /\ View(w).workspace_id = w
               /\ View(w).label \in Labels
               /\ View(w).agent_status \in StatusOrNil
               /\ IsTokens(View(w).tokens)
    BY <1>1, <1>2 DEF View, WorkspaceViews, TypeOK
  <1> QED  BY <1>1, <1>3, <1>4 DEF IsSnapshot, TypeOK

\* What Reconcile wants for a workspace of the snapshot is a complete write.
LEMMA WantType ==
  ASSUME IsSnapshot(snap), NEW w \in Seen, NEW reply
  PROVE  IsWrite([workspace_id |-> w, tokens |-> Want(w), reply |-> reply])
  <1>1. /\ w \in WorkspaceIDs
        /\ snap.workspaces[w].label \in Labels
        /\ snap.workspaces[w].agent_status \in StatusOrNil
        /\ snap.agents \in AgentLists
    BY DEF IsSnapshot, Seen
  <1>2. \A k \in AllTokens : Want(w)[k] = Nil \/ Want(w)[k] \in ValuesOf(k)
    BY <1>1, DesiredType DEF Want
  <1>3. DOMAIN Want(w) = AllTokens
    BY DesiredByKey DEF Want
  <1> QED  BY <1>1, <1>2, <1>3 DEF IsWrite

\* A write applied to w leaves every workspace with well-formed tokens.
LEMMA ApplyType ==
  ASSUME TypeOK, NEW w \in WorkspaceIDs, NEW want, Apply(w, want),
         DOMAIN want \subseteq AllTokens \cup ForeignKeys,
         \A k \in DOMAIN want : want[k] = Nil \/ want[k] = Foreign \/ want[k] \in ValuesOf(k)
  PROVE  /\ DOMAIN held' = WorkspaceIDs
         /\ \A v \in WorkspaceIDs : IsTokens(held'[v])
  <1>1. IsTokens(Merge(held[w], want))
    BY MergeType DEF TypeOK
  <1>2. /\ DOMAIN held' = WorkspaceIDs
        /\ \A v \in WorkspaceIDs : held'[v] = IF v = w THEN Merge(held[w], want) ELSE held[v]
    BY DEF Apply, TypeOK
  <1> QED  BY <1>1, <1>2 DEF TypeOK

\* An abandoned request joins the late ones only below the bound.
LEMMA LateType ==
  ASSUME TypeOK, pc = "call", Cardinality(late) < MaxLate,
         late' = late \cup {[workspace_id |-> request.workspace_id,
                             tokens |-> request.tokens]}
  PROVE  /\ IsFiniteSet(late') /\ Cardinality(late') <= MaxLate
         /\ \A r \in late' : IsWrite(r)
  <1> DEFINE r == [workspace_id |-> request.workspace_id, tokens |-> request.tokens]
  <1>1. IsFiniteSet(late') /\ Cardinality(late') <= Cardinality(late) + 1
    <2>1. late' = late \cup {r} /\ IsFiniteSet(late)
      BY DEF TypeOK
    <2> HIDE DEF r
    <2>2. CASE r \in late
      <3>1. late' = late /\ Cardinality(late) \in Nat
        BY <2>1, <2>2, FS_CardinalityType
      <3>2. Cardinality(late) <= Cardinality(late) + 1
        BY <3>1
      <3> QED  BY <2>1, <3>1, <3>2
    <2>3. CASE r \notin late
      <3>1. Cardinality(late \cup {r}) = Cardinality(late) + 1 /\ IsFiniteSet(late \cup {r})
        BY <2>1, <2>3, FS_AddElement
      <3>2. Cardinality(late') = Cardinality(late) + 1 /\ IsFiniteSet(late')
        BY <2>1, <3>1
      <3>3. Cardinality(late) \in Nat /\ Cardinality(late') \in Nat
        BY <2>1, <3>2, FS_CardinalityType
      <3> QED  BY <3>2, <3>3
    <2> QED  BY <2>2, <2>3
  <1>2. Cardinality(late) \in Nat /\ Cardinality(late') \in Nat
    BY <1>1, FS_CardinalityType DEF TypeOK
  <1>3. IsWrite(r)
    BY DEF TypeOK, IsWrite
  <1>4. \A q \in late' : IsWrite(q)
    BY <1>3 DEF TypeOK
  <1> QED  BY <1>1, <1>2, <1>4, TokenSyncAssumption

\* A reply changes nothing else of a request.
LEMMA ReplyType ==
  ASSUME TypeOK, pc = "call", NEW x
  PROVE  /\ DOMAIN [request EXCEPT !.reply = x] = DOMAIN request
         /\ IsWrite([request EXCEPT !.reply = x])
         /\ [request EXCEPT !.reply = x].workspace_id = request.workspace_id
         /\ [request EXCEPT !.reply = x].tokens = request.tokens
         /\ [request EXCEPT !.reply = x].reply = x
  BY DEF TypeOK, IsWrite

\* The program keeps its state well formed, in every environment
\* (the field types of controller.go, types.go and run's locals).
THEOREM TypeCorrect == Spec => []TypeOK
  <1>1. Init => TypeOK
    <2> SUFFICES ASSUME Init PROVE TypeOK
      OBVIOUS
    <2>1. /\ workspaces \in Partial(WorkspaceIDs, WorkspaceViews)
          /\ Open # {}
      BY DEF Init, Partial, WorkspaceViews, StatusOrNil, Open
    <2>2. agents \in AgentLists
      BY EmptyIsPartial DEF Init, AgentLists
    <2>3. DOMAIN held = WorkspaceIDs /\ \A w \in WorkspaceIDs : IsTokens(held[w])
      BY NoTokensType DEF Init
    <2>4. IsFiniteSet(late) /\ Cardinality(late) <= MaxLate /\ \A r \in late : IsWrite(r)
      BY FS_EmptySet, TokenSyncAssumption DEF Init
    <2> QED  BY <2>1, <2>2, <2>3, <2>4 DEF Init, TypeOK, NoRecords
  <1>2. TypeOK /\ [Next]_vars => TypeOK'
    <2> SUFFICES ASSUME TypeOK, [Next]_vars PROVE TypeOK'
      OBVIOUS
    <2> USE DEF herdrVars, daemonVars, Open, Seen
    <2>1. CASE SnapshotOk
      <3>1. IsSnapshot(snap') /\ DOMAIN snap'.workspaces = Open
        BY <2>1, CurrentSnapshotType DEF SnapshotOk
      <3> QED  BY <2>1, <3>1 DEF SnapshotOk, TypeOK, NoRecords
    <2>2. CASE SnapshotFails /\ clean' \in BOOLEAN /\ calm' \in BOOLEAN
      BY <2>2 DEF SnapshotFails, TypeOK
    <2>3. CASE Retry
      BY <2>3 DEF Retry, TypeOK
    <2>4. CASE Tick
      BY <2>4 DEF Tick, TypeOK
    <2>5. CASE Return
      BY <2>5 DEF Return, Forget, TypeOK, NoRecords
    <2>6. CASE \E w \in WorkspaceIDs : Skip(w)
      BY <2>6 DEF Skip, Visiting, TypeOK
    <2>7. CASE \E w \in WorkspaceIDs : Report(w)
      <3>1. PICK w \in WorkspaceIDs : Report(w)
        BY <2>7
      <3>2. w \in Seen /\ IsSnapshot(snap)
        BY <3>1 DEF Report, Visiting, TypeOK
      <3>3. IsWrite(request')
        BY <3>1, <3>2, WantType DEF Report
      <3> QED  BY <3>1, <3>3 DEF Report, Visiting, TypeOK
    <2>8. CASE \E w \in WorkspaceIDs :
                  ReportFails(w) /\ clean' \in BOOLEAN /\ calm' \in BOOLEAN
      BY <2>8 DEF ReportFails, Visiting, TypeOK
    <2>9. CASE ReportReturns \/ ReportJustInTime
      <3>1. request.workspace_id \in WorkspaceIDs
        BY <2>9 DEF ReportReturns, ReportJustInTime, TypeOK, IsWrite
      <3> QED  BY <2>9, <3>1 DEF ReportReturns, ReportJustInTime, Acknowledged, CallEnds, TypeOK
    <2>10. CASE ReportErrors
      BY <2>10 DEF ReportErrors, CallEnds, TypeOK
    <2>11. CASE GivesUp /\ clean' \in BOOLEAN /\ calm' \in BOOLEAN
      <3>1. IsFiniteSet(late') /\ Cardinality(late') <= MaxLate /\ \A r \in late' : IsWrite(r)
        BY <2>11, LateType DEF GivesUp, CallEnds, TypeOK
      <3> QED  BY <2>11, <3>1 DEF GivesUp, CallEnds, TypeOK
    <2>12. CASE EndReconcile
      BY <2>12 DEF EndReconcile, Pruned, TypeOK
    <2>13. CASE Serve
      <3>1. CASE request.workspace_id \in Open
        <4>1. /\ DOMAIN held' = WorkspaceIDs
              /\ \A v \in WorkspaceIDs : IsTokens(held'[v])
          BY <2>13, <3>1, ApplyType DEF Serve, TypeOK, IsWrite
        <4>2. IsWrite(request') /\ request'.reply = "ok"
              /\ request'.workspace_id = request.workspace_id
          BY <2>13, <3>1, ReplyType DEF Serve
        <4> QED  BY <2>13, <3>1, <4>1, <4>2 DEF Serve, TypeOK
      <3>2. CASE request.workspace_id \notin Open
        <4>1. IsWrite(request') /\ request'.reply = "error"
              /\ request'.workspace_id = request.workspace_id
          BY <2>13, <3>2, ReplyType DEF Serve
        <4> QED  BY <2>13, <3>2, <4>1 DEF Serve, TypeOK
      <3> QED  BY <3>1, <3>2
    <2>14. CASE \E r \in late : ServeLate(r)
      <3>1. PICK r \in late : ServeLate(r)
        BY <2>14
      <3>2. /\ DOMAIN held' = WorkspaceIDs
            /\ \A v \in WorkspaceIDs : IsTokens(held'[v])
        BY <3>1, ApplyType DEF ServeLate, TypeOK, IsWrite
      <3>3. IsFiniteSet(late') /\ Cardinality(late') <= Cardinality(late)
        <4>1. late' = late \ {r} /\ IsFiniteSet(late)
          BY <3>1 DEF ServeLate, TypeOK
        <4>2. IsFiniteSet(late') /\ Cardinality(late') = Cardinality(late) - 1
          BY <4>1, FS_RemoveElement
        <4>3. Cardinality(late) \in Nat
          BY <4>1, FS_CardinalityType
        <4> QED  BY <4>2, <4>3
      <3>4. Cardinality(late) \in Nat /\ Cardinality(late') \in Nat
        BY <3>3, FS_CardinalityType DEF TypeOK
      <3>5. Cardinality(late') <= MaxLate
        BY <3>3, <3>4, TokenSyncAssumption DEF TypeOK
      <3> QED  BY <3>1, <3>2, <3>3, <3>5 DEF ServeLate, TypeOK
    <2>15. CASE \E w \in WorkspaceIDs : Age(w)
      BY <2>15 DEF Age, TypeOK
    <2>16. CASE Disturbance
      <3>0. clean' \in BOOLEAN /\ calm' \in BOOLEAN
        BY <2>16 DEF Disturbance, TypeOK
      <3>1. CASE Restart
        <4>1. DOMAIN held' = WorkspaceIDs /\ \A w \in WorkspaceIDs : IsTokens(held'[w])
          BY <3>1, NoTokensType DEF Restart
        <4>2. IsFiniteSet(late') /\ Cardinality(late') <= MaxLate /\ \A r \in late' : IsWrite(r)
          BY <3>1, FS_EmptySet, TokenSyncAssumption DEF Restart
        <4>3. pc = "call" => /\ IsWrite(request')
                             /\ request'.workspace_id = request.workspace_id
                             /\ request'.reply = "error"
          BY <3>1, ReplyType DEF Restart
        <4> QED  BY <3>0, <3>1, <4>1, <4>2, <4>3 DEF Restart, TypeOK
      <3>2. CASE \E w \in WorkspaceIDs : Expire(w)
        BY <3>0, <3>2 DEF Expire, WithoutKeys, TypeOK, IsTokens
      <3>3. CASE \E w \in WorkspaceIDs : Clobber(w)
        <4>1. PICK w \in WorkspaceIDs, k \in ForeignKeys :
                 /\ Clobber(w)
                 /\ \/ Apply(w, [j \in {k} |-> Foreign])
                    \/ Apply(w, [j \in {k} |-> Nil])
          BY <3>3 DEF Clobber
        <4>2. /\ DOMAIN held' = WorkspaceIDs
              /\ \A v \in WorkspaceIDs : IsTokens(held'[v])
          <5>1. CASE Apply(w, [j \in {k} |-> Foreign])
            BY <5>1, ApplyType
          <5>2. CASE Apply(w, [j \in {k} |-> Nil])
            BY <5>2, ApplyType
          <5> QED  BY <4>1, <5>1, <5>2
        <4> QED  BY <3>0, <4>1, <4>2 DEF Clobber, TypeOK
      <3>4. CASE \E w \in WorkspaceIDs : CloseWorkspace(w)
        <4>1. PICK w \in WorkspaceIDs : CloseWorkspace(w)
          BY <3>4
        <4>2. workspaces' \in Partial(WorkspaceIDs, WorkspaceViews) /\ Open' # {}
          BY <4>1 DEF CloseWorkspace, TypeOK, Partial
        <4>3. agents' \in AgentLists
          BY <4>1, PartialRestrict DEF CloseWorkspace, TypeOK, AgentLists
        <4>4. DOMAIN held' = WorkspaceIDs /\ \A v \in WorkspaceIDs : IsTokens(held'[v])
          BY <4>1, NoTokensType DEF CloseWorkspace, TypeOK
        <4> QED  BY <3>0, <4>1, <4>2, <4>3, <4>4 DEF CloseWorkspace, TypeOK
      <3>5. CASE \E w \in WorkspaceIDs : Change(w)
        <4>1. workspaces' \in Partial(WorkspaceIDs, WorkspaceViews) /\ Open' # {}
          BY <3>5 DEF Change, TypeOK, Partial, WorkspaceViews, StatusOrNil
        <4> QED  BY <3>0, <3>5, <4>1 DEF Change, TypeOK
      <3>6. CASE \E w \in WorkspaceIDs : OpenWorkspace(w)
        <4>1. workspaces' \in Partial(WorkspaceIDs, WorkspaceViews) /\ Open' # {}
          BY <3>6 DEF OpenWorkspace, TypeOK, Partial, WorkspaceViews, StatusOrNil
        <4> QED  BY <3>0, <3>6, <4>1 DEF OpenWorkspace, TypeOK
      <3>7. CASE \E a \in AgentIDs : AgentStarts(a)
        <4>1. agents' \in AgentLists
          BY <3>7 DEF AgentStarts, TypeOK, AgentLists, Partial, StatusOrNil
        <4> QED  BY <3>0, <3>7, <4>1 DEF AgentStarts, TypeOK
      <3>8. CASE \E a \in AgentIDs : AgentEnds(a)
        <4>1. agents' \in AgentLists
          BY <3>8, PartialRestrict DEF AgentEnds, TypeOK, AgentLists
        <4> QED  BY <3>0, <3>8, <4>1 DEF AgentEnds, TypeOK
      <3>9. CASE DeadlinePasses
        BY <3>0, <3>9 DEF DeadlinePasses, TypeOK
      <3>10. CASE Cancel
        BY <3>0, <3>10 DEF Cancel, TypeOK
      <3>11. CASE Crash
        <4>1. IsFiniteSet(late') /\ Cardinality(late') <= MaxLate /\ \A r \in late' : IsWrite(r)
          BY <3>11, LateType DEF Crash, TypeOK
        <4> QED  BY <3>0, <3>11, <4>1 DEF Crash, Forget, TypeOK, NoRecords
      <3>12. CASE StartDaemon
        BY <3>0, <3>12 DEF StartDaemon, TypeOK
      <3> QED  BY <2>2, <2>8, <2>11, <2>16, <3>0, <3>1, <3>2, <3>3, <3>4, <3>5, <3>6, <3>7,
                  <3>8, <3>9, <3>10, <3>11, <3>12 DEF Disturbance, Blanking, ReportLost
    <2>17. CASE Settle
      BY <2>17 DEF Settle, TypeOK
    <2>18. CASE UNCHANGED vars
      BY <2>18 DEF vars, TypeOK
    <2> QED
      <3>1. CASE Daemon
        BY <2>1, <2>2, <2>3, <2>4, <2>5, <2>6, <2>7, <2>8, <2>9, <2>10, <2>11, <2>12, <3>1
           DEF Daemon, SnapshotCancelled, ReportOnDeadCtx, ReportAbandoned, TypeOK
      <3> QED  BY <2>13, <2>14, <2>15, <2>16, <2>17, <2>18, <3>1 DEF Next
  <1> QED  BY <1>1, <1>2, PTL DEF Spec

-----------------------------------------------------------------------------
(* Coherence *)

\* Reconcile always wants the tokens of one view of the workspace.
LEMMA WantIsWanted ==
  ASSUME IsSnapshot(snap), NEW w \in Seen
  PROVE  Want(w) \in WantedMaps(w)
  <1> DEFINE v == [label |-> snap.workspaces[w].label,
                   agent_status |-> snap.workspaces[w].agent_status]
             ws == [workspace_id |-> w, label |-> v.label, agent_status |-> v.agent_status]
  <1>1. v \in WorkspaceViews /\ snap.agents \in AgentLists
    BY DEF IsSnapshot, Seen, WorkspaceViews
  <1>2. /\ ws.workspace_id = snap.workspaces[w].workspace_id
        /\ ws.label = snap.workspaces[w].label
        /\ ws.agent_status = snap.workspaces[w].agent_status
    BY DEF IsSnapshot, Seen
  <1>3. Desired(snap.workspaces[w], snap.agents) = Desired(ws, snap.agents)
    <2> HIDE DEF ws
    <2> QED  BY <1>2 DEF Desired, StatusValue
  <1> QED  BY <1>1, <1>3 DEF Want, WantedMaps

\* Such a map covers every key of the plugin and gives one status token a value.
LEMMA WantedShape ==
  ASSUME NEW w, NEW want \in WantedMaps(w)
  PROVE  /\ DOMAIN want = AllTokens
         /\ \E k \in StatusKeys :
               want[k] # Nil /\ \A j \in StatusKeys \ {k} : want[j] = Nil
  <1>1. PICK v \in WorkspaceViews, A \in AgentLists :
           want = Desired([workspace_id |-> w, label |-> v.label,
                           agent_status |-> v.agent_status], A)
    BY DEF WantedMaps
  <1> DEFINE ws == [workspace_id |-> w, label |-> v.label, agent_status |-> v.agent_status]
  <1>2. ws.label \in Labels /\ ws.agent_status \in StatusOrNil
    BY DEF WorkspaceViews
  <1> HIDE DEF ws
  <1>3. want = Desired(ws, A)
    BY <1>1 DEF ws
  <1>4. \A k \in StatusKeys : want[k] # Nil <=> k = StatusToken(ws.agent_status)
    BY <1>2, <1>3, OneStatusToken
  <1> QED  BY <1>3, <1>4, DesiredByKey, StatusTokenIsKey

\* Serving a complete write leaves the workspace coherent, whatever it held.
LEMMA ApplyCoherent ==
  ASSUME DOMAIN held = WorkspaceIDs, CoherentTokens, NEW w \in WorkspaceIDs,
         NEW want \in WantedMaps(w), Apply(w, want)
  PROVE  CoherentTokens'
  <1>1. \A v \in WorkspaceIDs : held'[v] = IF v = w THEN Merge(held[w], want) ELSE held[v]
    BY DEF Apply
  <1>2. \A k \in OwnKeys :
           IF want[k] = Nil THEN k \notin DOMAIN Merge(held[w], want)
           ELSE k \in DOMAIN Merge(held[w], want) /\ Merge(held[w], want)[k] = want[k]
    BY WantedShape, MergeByKey DEF OwnKeys
  <1>3. Coherent(w, Merge(held[w], want))
    BY <1>2 DEF Coherent
  <1> QED  BY <1>1, <1>3 DEF CoherentTokens

\* A step that leaves the own keys of every workspace alone, or removes all of
\* them, keeps every workspace coherent.
LEMMA KeepsCoherent ==
  ASSUME CoherentTokens,
         \A w \in WorkspaceIDs :
            \/ held'[w] = held[w]
            \/ DOMAIN held'[w] \cap OwnKeys = {}
            \/ /\ DOMAIN held'[w] \cap OwnKeys = DOMAIN held[w] \cap OwnKeys
               /\ \A k \in DOMAIN held[w] \cap OwnKeys : held'[w][k] = held[w][k]
  PROVE  CoherentTokens'
  <1> SUFFICES ASSUME NEW w \in WorkspaceIDs PROVE Coherent(w, held'[w])
    BY DEF CoherentTokens
  <1>1. Coherent(w, held[w])
    BY DEF CoherentTokens
  <1>2. CASE held'[w] = held[w] \/ DOMAIN held'[w] \cap OwnKeys = {}
    BY <1>1, <1>2 DEF Coherent
  <1>3. CASE /\ DOMAIN held'[w] \cap OwnKeys = DOMAIN held[w] \cap OwnKeys
             /\ \A k \in DOMAIN held[w] \cap OwnKeys : held'[w][k] = held[w][k]
    <2>1. CASE DOMAIN held[w] \cap OwnKeys = {}
      BY <1>3, <2>1 DEF Coherent
    <2>2. CASE \E want \in WantedMaps(w) :
                  \A k \in OwnKeys :
                     IF want[k] = Nil THEN k \notin DOMAIN held[w]
                     ELSE k \in DOMAIN held[w] /\ held[w][k] = want[k]
      <3>1. PICK want \in WantedMaps(w) :
                  \A k \in OwnKeys :
                     IF want[k] = Nil THEN k \notin DOMAIN held[w]
                     ELSE k \in DOMAIN held[w] /\ held[w][k] = want[k]
        BY <2>2
      <3>2. \A k \in OwnKeys :
                     IF want[k] = Nil THEN k \notin DOMAIN held'[w]
                     ELSE k \in DOMAIN held'[w] /\ held'[w][k] = want[k]
        BY <1>3, <3>1
      <3> QED  BY <3>2 DEF Coherent
    <2> QED  BY <1>1, <2>1, <2>2 DEF Coherent
  <1> QED  BY <1>2, <1>3

\* Every write on its way carries all tokens of one view of its workspace.
LEMMA WritesComplete == Spec => []CompleteWrites
  <1>1. Init => CompleteWrites
    BY DEF Init, CompleteWrites
  <1>2. TypeOK /\ CompleteWrites /\ [Next]_vars => CompleteWrites'
    <2> SUFFICES ASSUME TypeOK, CompleteWrites, [Next]_vars PROVE CompleteWrites'
      OBVIOUS
    <2> USE DEF CompleteWrites, herdrVars, daemonVars
    <2>1. CASE \E w \in WorkspaceIDs : Report(w)
      <3>1. PICK w \in WorkspaceIDs : Report(w)
        BY <2>1
      <3>2. Want(w) \in WantedMaps(w)
        BY <3>1, WantIsWanted DEF Report, Visiting, TypeOK
      <3> QED  BY <3>1, <3>2 DEF Report
    <2>2. CASE SnapshotOk \/ SnapshotFails \/ Retry \/ Tick \/ Return \/ EndReconcile
      BY <2>2 DEF SnapshotOk, SnapshotFails, Retry, Tick, Return, Forget, EndReconcile
    <2>3. CASE \E w \in WorkspaceIDs : Skip(w) \/ ReportFails(w) \/ Age(w)
      BY <2>3 DEF Skip, ReportFails, Visiting, Age
    <2>4. CASE ReportReturns \/ ReportJustInTime \/ ReportErrors
      BY <2>4 DEF ReportReturns, ReportJustInTime, ReportErrors, CallEnds
    <2>5. CASE GivesUp \/ Crash
      BY <2>5 DEF GivesUp, CallEnds, Crash, Forget
    <2>6. CASE Serve
      <3>1. /\ request'.workspace_id = request.workspace_id
            /\ request'.tokens = request.tokens
        BY <2>6, ReplyType DEF Serve
      <3> QED  BY <2>6, <3>1 DEF Serve
    <2>7. CASE \E r \in late : ServeLate(r)
      BY <2>7 DEF ServeLate
    <2>8. CASE Restart
      BY <2>8, ReplyType DEF Restart
    <2>9. CASE \/ \E w \in WorkspaceIDs :
                     \/ Expire(w) \/ Clobber(w) \/ CloseWorkspace(w)
                     \/ Change(w) \/ OpenWorkspace(w)
               \/ \E a \in AgentIDs : AgentStarts(a) \/ AgentEnds(a)
      BY <2>9 DEF Expire, Clobber, CloseWorkspace, Change, OpenWorkspace, AgentStarts, AgentEnds
    <2>10. CASE DeadlinePasses \/ Cancel \/ StartDaemon \/ Settle \/ UNCHANGED vars
      BY <2>10 DEF DeadlinePasses, Cancel, StartDaemon, Settle, vars
    <2> QED  BY <2>1, <2>2, <2>3, <2>4, <2>5, <2>6, <2>7, <2>8, <2>9, <2>10
                DEF Next, Daemon, Disturbance, Blanking, SnapshotCancelled, ReportOnDeadCtx, ReportAbandoned,
                    ReportLost
  <1> QED  BY <1>1, <1>2, TypeCorrect, PTL DEF Spec

\* Herdr never holds a mixture of two views of a workspace, in any interleaving
\* of failing, late and overtaking writes (client.go:118-130, derive.go:16-23).
THEOREM Coherence == Spec => []CoherentTokens
  <1>1. Init => CoherentTokens
    BY NoTokensType DEF Init, CoherentTokens, Coherent
  <1>2. TypeOK /\ CompleteWrites /\ CoherentTokens /\ [Next]_vars => CoherentTokens'
    <2> SUFFICES ASSUME TypeOK, CompleteWrites, CoherentTokens, [Next]_vars
                 PROVE  CoherentTokens'
      OBVIOUS
    <2>1. CASE held' = held
      BY <2>1, KeepsCoherent
    <2>2. CASE Serve
      BY <2>1, <2>2, ApplyCoherent DEF Serve, CompleteWrites, TypeOK, IsWrite
    <2>3. CASE \E r \in late : ServeLate(r)
      BY <2>1, <2>3, ApplyCoherent DEF ServeLate, CompleteWrites, TypeOK, IsWrite
    <2>4. CASE Restart
      BY <2>4, KeepsCoherent, NoTokensType DEF Restart
    <2>5. CASE \E w \in WorkspaceIDs : Expire(w)
      <3>1. PICK w \in WorkspaceIDs : Expire(w)
        BY <2>5
      <3>2. DOMAIN held'[w] \cap OwnKeys = {} /\ \A v \in WorkspaceIDs \ {w} : held'[v] = held[v]
        BY <3>1 DEF Expire, WithoutKeys, OwnKeys, TypeOK
      <3> QED  BY <3>2, KeepsCoherent
    <2>6. CASE \E w \in WorkspaceIDs : CloseWorkspace(w)
      <3>1. PICK w \in WorkspaceIDs : CloseWorkspace(w)
        BY <2>6
      <3>2. DOMAIN held'[w] = {} /\ \A v \in WorkspaceIDs \ {w} : held'[v] = held[v]
        BY <3>1, NoTokensType DEF CloseWorkspace, TypeOK
      <3> QED  BY <3>2, KeepsCoherent
    <2>7. CASE \E w \in WorkspaceIDs : Clobber(w)
      <3> PICK w \in WorkspaceIDs : Clobber(w)
        BY <2>7
      <3>1. PICK f : \E k \in ForeignKeys : DOMAIN f = {k} /\ Apply(w, f)
        BY DEF Clobber
      <3>2. /\ held'[w] = Merge(held[w], f)
            /\ \A v \in WorkspaceIDs \ {w} : held'[v] = held[v]
        BY <3>1 DEF Apply, TypeOK
      <3>3. /\ DOMAIN held'[w] \cap OwnKeys = DOMAIN held[w] \cap OwnKeys
            /\ \A k \in DOMAIN held[w] \cap OwnKeys : held'[w][k] = held[w][k]
        BY <3>1, <3>2, MergeByKey DEF OwnKeys
      <3> QED  BY <3>2, <3>3, KeepsCoherent
    <2>8. held' = held \/ Serve \/ (\E r \in late : ServeLate(r)) \/ Blanking
      BY DEF Next, Daemon, Disturbance, SnapshotOk, SnapshotCancelled, SnapshotFails, Retry,
             Tick, Return, Forget, Skip, Report, ReportOnDeadCtx, ReportFails, ReportReturns,
             ReportJustInTime, ReportErrors, ReportAbandoned, ReportLost, GivesUp, CallEnds, EndReconcile, Age, Settle, Change,
             OpenWorkspace, AgentStarts, AgentEnds, DeadlinePasses, Cancel, Crash,
             StartDaemon, herdrVars, daemonVars, vars
    <2> QED  BY <2>1, <2>2, <2>3, <2>4, <2>5, <2>6, <2>7, <2>8 DEF Blanking
  <1> QED  BY <1>1, <1>2, TypeCorrect, WritesComplete, PTL DEF Spec

-----------------------------------------------------------------------------
(* Nothing the daemon does blanks a workspace *)

\* A complete write shows a status token.
LEMMA ApplyShows ==
  ASSUME DOMAIN held = WorkspaceIDs, NEW w \in WorkspaceIDs,
         NEW want \in WantedMaps(w), Apply(w, want), NEW v \in WorkspaceIDs, Shown(v)
  PROVE  Shown(v)'
  <1>1. held'[v] = IF v = w THEN Merge(held[w], want) ELSE held[v]
    BY DEF Apply
  <1>2. PICK k \in StatusKeys : want[k] # Nil
    BY WantedShape
  <1>3. k \in DOMAIN Merge(held[w], want)
    BY <1>2, WantedShape, MergeByKey DEF AllTokens
  <1> QED  BY <1>1, <1>2, <1>3 DEF Shown

\* Once a workspace shows its name, no step but a restart, an expiry, a closing
\* or another writer takes it away (controller.go:90).
THEOREM NamesStay == Spec => NeverBlanks
  <1>1. TypeOK /\ CompleteWrites /\ [Next]_vars =>
           [\A w \in WorkspaceIDs : Shown(w) => Shown(w)' \/ Blanking]_vars
    <2> SUFFICES ASSUME TypeOK, CompleteWrites, [Next]_vars, ~Blanking,
                        NEW w \in WorkspaceIDs, Shown(w)
                 PROVE  Shown(w)'
      OBVIOUS
    <2>1. CASE held' = held
      BY <2>1 DEF Shown
    <2>2. CASE Serve
      BY <2>1, <2>2, ApplyShows DEF Serve, CompleteWrites, TypeOK, IsWrite
    <2>3. CASE \E r \in late : ServeLate(r)
      BY <2>1, <2>3, ApplyShows DEF ServeLate, CompleteWrites, TypeOK, IsWrite
    <2>4. held' = held \/ Serve \/ \E r \in late : ServeLate(r)
      BY DEF Next, Daemon, Disturbance, SnapshotOk, SnapshotCancelled, SnapshotFails, Retry,
             Tick, Return, Forget, Skip, Report, ReportOnDeadCtx, ReportFails, ReportReturns,
             ReportJustInTime, ReportErrors, ReportAbandoned, ReportLost, GivesUp, CallEnds, EndReconcile, Age, Settle, Change,
             OpenWorkspace, AgentStarts, AgentEnds, DeadlinePasses, Cancel, Crash,
             StartDaemon, herdrVars, daemonVars, vars
    <2> QED  BY <2>1, <2>2, <2>3, <2>4
  <1> QED  BY <1>1, TypeCorrect, WritesComplete, PTL DEF Spec, NeverBlanks

-----------------------------------------------------------------------------
(* A clean tick heals every workspace *)

\* The code's comparison decides whether a workspace carries what is wanted.
LEMMA MatchMeansCarries ==
  ASSUME NEW f, NEW want, DOMAIN want = AllTokens
  PROVE  ObservedMatchesDesired(f, want) <=> Carries(f, want)
  BY DEF ObservedMatchesDesired, Carries

\* A served write makes the workspace carry it, whatever it held before.
LEMMA MergeCarries ==
  ASSUME NEW f, NEW want, DOMAIN want = AllTokens
  PROVE  Carries(Merge(f, want), want)
  BY MergeByKey DEF Carries

\* Desired does not look at the tokens a workspace holds.
LEMMA DesiredIgnoresTokens ==
  ASSUME NEW a, NEW b, NEW A, a.workspace_id = b.workspace_id, a.label = b.label,
         a.agent_status = b.agent_status
  PROVE  Desired(a, A) = Desired(b, A)
  BY DEF Desired, StatusValue

\* While nothing changes Reconcile wants what Herdr should hold.
LEMMA WantIsCurrent ==
  ASSUME IsSnapshot(snap), NEW w \in Seen, snap.agents = agents,
         snap.workspaces[w].label = workspaces[w].label,
         snap.workspaces[w].agent_status = workspaces[w].agent_status
  PROVE  Want(w) = Desired(View(w), agents) /\ DOMAIN Want(w) = AllTokens
  <1>1. /\ View(w).workspace_id = snap.workspaces[w].workspace_id
        /\ View(w).label = snap.workspaces[w].label
        /\ View(w).agent_status = snap.workspaces[w].agent_status
    BY DEF View, IsSnapshot, Seen
  <1>2. Desired(View(w), agents) = Desired(snap.workspaces[w], snap.agents)
    BY <1>1, DesiredIgnoresTokens
  <1> QED  BY <1>2, DesiredByKey DEF Want

\* The loop of a clean tick deals rightly with each workspace.
LEMMA CleanLoopHolds == Spec => []HealInv
  <1>1. Init => HealInv
    BY DEF Init, HealInv
  <1>2. TypeOK /\ TypeOK' /\ HealInv /\ [Next]_vars => HealInv'
    <2> SUFFICES ASSUME TypeOK, TypeOK', HealInv, [Next]_vars, clean'
                 PROVE  CleanLoop'
      BY DEF HealInv
    <2> USE DEF herdrVars, daemonVars, Open
    <2>1. CASE SnapshotOk
      <3>1. /\ snap'.agents = agents' /\ Seen' = Open'
            /\ \A w \in Open' : snap'.workspaces[w] = View(w)
        BY <2>1, CurrentSnapshotType DEF SnapshotOk, Seen
      <3>2. late' = {} /\ ~cancelled' /\ ~expired' /\ pc' = "reconcile" /\ todo' = Open'
        BY <2>1 DEF SnapshotOk, TypeOK
      <3>3. workspaces' = workspaces /\ held' = held
        BY <2>1 DEF SnapshotOk
      <3>4. ASSUME NEW w \in Open'
            PROVE  /\ snap'.workspaces[w].label = workspaces'[w].label
                   /\ snap'.workspaces[w].agent_status = workspaces'[w].agent_status
                   /\ snap'.workspaces[w].tokens = held'[w]
        <4>1. snap'.workspaces[w] = [workspace_id |-> w, label |-> workspaces'[w].label,
                                     agent_status |-> workspaces'[w].agent_status,
                                     tokens |-> held'[w]]
          BY <3>1, <3>3, <3>4 DEF View
        <4> QED  BY <4>1
      <3> QED  BY <3>1, <3>2, <3>4 DEF CleanLoop
    <2> SUFFICES ASSUME clean, CleanLoop PROVE CleanLoop'
      BY <2>1 DEF HealInv, Next, Daemon, Disturbance, SnapshotCancelled, Retry, Tick, Return,
                  Skip, Report, ReportOnDeadCtx, ReportReturns, ReportErrors, ReportAbandoned,
                  ReportJustInTime, GivesUp, CallEnds, EndReconcile, Serve, ServeLate, Age, Settle, vars
    <2>2. ASSUME UNCHANGED <<workspaces, agents, held>>
          PROVE  \A w \in Open : Synced(w)' <=> Synced(w)
      BY <2>2 DEF Synced, View
    <2>3. ASSUME pc \in {"reconcile", "call"}, NEW w \in Open
          PROVE  /\ w \in Seen /\ IsSnapshot(snap)
                 /\ Want(w) = Desired(View(w), agents) /\ DOMAIN Want(w) = AllTokens
      BY <2>3, WantIsCurrent DEF CleanLoop, TypeOK
    <2>4. CASE \E w \in WorkspaceIDs : Skip(w)
      <3>1. PICK w \in WorkspaceIDs : Skip(w)
        BY <2>4
      <3>2. w \in Open /\ pc = "reconcile" /\ last[w] = "fresh"
            /\ ObservedMatchesDesired(held[w], Want(w))
        BY <3>1 DEF Skip, Visiting, UpToDate, CleanLoop, TypeOK
      <3>3. Synced(w)
        BY <3>2, <2>3, MatchMeansCarries DEF Synced
      <3> QED  BY <3>1, <3>2, <3>3, <2>2 DEF Skip, CleanLoop, Seen, Want
    <2>5. CASE \E w \in WorkspaceIDs : Report(w)
      BY <2>5, <2>2 DEF Report, Visiting, CleanLoop, Seen, Want
    <2>6. CASE ReportReturns
      BY <2>6, <2>2 DEF ReportReturns, Acknowledged, CallEnds, CleanLoop, Seen, Want, TypeOK
    <2>7. CASE EndReconcile
      <3>1. Pruned = [w \in WorkspaceIDs |-> IF w \in Open THEN last[w] ELSE "none"]
        BY <2>7 DEF EndReconcile, Pruned, CleanLoop
      <3>2. \A w \in Open : Synced(w)' /\ last[w] # "none"
        BY <2>7, <2>2 DEF EndReconcile, CleanLoop
      <3>3. Tracked' = Open'
        BY <2>7, <3>1, <3>2 DEF EndReconcile, Tracked, TypeOK, Partial
      <3> QED  BY <2>7, <3>2, <3>3 DEF EndReconcile, CleanLoop
    <2>8. CASE Serve
      <3> DEFINE id == request.workspace_id
      <3>1. pc = "call" /\ id \in Open /\ id \in WorkspaceIDs /\ request.reply = "pending"
        BY <2>8 DEF Serve, CleanLoop, TypeOK, IsWrite
      <3>2. /\ held' = [held EXCEPT ![id] = Merge(held[id], request.tokens)]
            /\ request'.reply = "ok" /\ request'.workspace_id = id
            /\ request'.tokens = request.tokens
        <4>1. request' = [request EXCEPT !.reply = "ok"]
              /\ held' = [held EXCEPT ![id] = Merge(held[id], request.tokens)]
          BY <2>8, <3>1 DEF Serve, Apply
        <4> QED  BY <3>1, <4>1, ReplyType
      <3>3. request.tokens = Desired(View(id), agents) /\ DOMAIN request.tokens = AllTokens
        BY <3>1, <2>3 DEF CleanLoop
      <3>4. /\ held'[id] = Merge(held[id], request.tokens)
            /\ \A w \in WorkspaceIDs \ {id} : held'[w] = held[w]
        BY <3>1, <3>2 DEF TypeOK
      <3>5. Synced(id)'
        <4>1. Desired(View(id), agents)' = Desired(View(id), agents)
          <5>1. workspaces' = workspaces /\ agents' = agents
            BY <2>8 DEF Serve
          <5>2. /\ View(id)'.workspace_id = View(id).workspace_id
                /\ View(id)'.label = View(id).label
                /\ View(id)'.agent_status = View(id).agent_status
            BY <5>1, <3>2 DEF View
          <5>3. Desired(View(id)', agents) = Desired(View(id), agents)
            BY <5>2, DesiredIgnoresTokens
          <5> QED  BY <5>1, <5>3
        <4>2. request'.workspace_id = id
          BY <3>2
        <4>3. Carries(held'[id], Desired(View(id), agents))
          BY <3>3, <3>4, MergeCarries
        <4> QED  BY <3>2, <4>1, <4>2, <4>3 DEF Synced
      <3>6. ASSUME NEW w \in Open, w # id, Synced(w)
            PROVE  Synced(w)'
        <4>1. held'[w] = held[w]
          BY <3>4, <3>6 DEF TypeOK, Partial
        <4> QED  BY <2>8, <3>6, <4>1 DEF Serve, Synced, View
      <3>7. id \in todo /\ todo \subseteq WorkspaceIDs
        BY <3>1 DEF TypeOK, IsSnapshot, Seen
      <3> QED  BY <2>8, <3>1, <3>2, <3>4, <3>5, <3>6, <3>7
                  DEF Serve, CleanLoop, Seen, Want
    <2>9. CASE \E w \in WorkspaceIDs : Age(w)
      BY <2>9, <2>2 DEF Age, CleanLoop, Tracked, TypeOK
    <2>10. CASE Tick
      BY <2>10, <2>2 DEF Tick, CleanLoop
    <2>12. CASE Settle \/ UNCHANGED vars
      <3>1. UNCHANGED <<workspaces, agents, held, late, pc, cancelled, expired, snap, todo,
                        last, request>>
        BY <2>12 DEF Settle, vars
      <3> QED  BY <3>1 DEF CleanLoop, Seen, Want, Synced, View, Tracked
    <2>11. ~ (\/ SnapshotCancelled \/ Retry \/ Return \/ ReportErrors \/ ReportAbandoned
              \/ ReportJustInTime \/ Disturbance
              \/ \E w \in WorkspaceIDs : ReportOnDeadCtx(w)
              \/ \E r \in late : ServeLate(r))
      BY DEF SnapshotCancelled, Retry, Return, ReportErrors, ReportAbandoned, GivesUp, CallEnds,
             ReportJustInTime, Disturbance, ReportOnDeadCtx, CtxDead, ServeLate, CleanLoop
    <2> QED  BY <2>1, <2>4, <2>5, <2>6, <2>7, <2>8, <2>9, <2>10, <2>11, <2>12
             DEF Next, Daemon
  <1> QED  BY <1>1, <1>2, TypeCorrect, PTL DEF Spec

\* A tick during which nothing goes wrong ends with every open workspace in
\* sync, whatever happened before it (controller.go:56-67).
THEOREM Healing == Spec => []OneTickHeals
  <1>1. HealInv => OneTickHeals
    BY DEF HealInv, CleanLoop, OneTickHeals
  <1> QED  BY <1>1, CleanLoopHolds, PTL

\* It also ends with a record for exactly the open workspaces
\* (controller.go:97, 101-105).
THEOREM Tracking == Spec => []TracksOpenWorkspaces
  <1>1. HealInv => TracksOpenWorkspaces
    BY DEF HealInv, CleanLoop, TracksOpenWorkspaces
  <1> QED  BY <1>1, CleanLoopHolds, PTL

-----------------------------------------------------------------------------
(* What the steps of an undisturbed daemon may do *)

\* A step that leaves the tick clean and touches tokens serves the request of
\* the call in progress, which carries what its workspace should show.
LEMMA CleanSteps ==
  ASSUME [Next]_vars, TypeOK, HealInv, clean, clean'
  PROVE  /\ UNCHANGED <<workspaces, agents>>
         /\ \/ held' = held
            \/ /\ Apply(request.workspace_id, request.tokens)
               /\ pc = "call" /\ request.workspace_id \in Open
               /\ request.tokens = Desired(View(request.workspace_id), agents)
               /\ DOMAIN request.tokens = AllTokens
  <1>1. CleanLoop
    BY DEF HealInv
  <1>2. ~Disturbance /\ ~(\E r \in late : ServeLate(r))
    BY <1>1 DEF Disturbance, ServeLate, CleanLoop
  <1>3. CASE Serve
    <2>1. pc = "call" /\ request.reply = "pending" /\ UNCHANGED <<workspaces, agents>>
      BY <1>3 DEF Serve
    <2>2. CASE request.workspace_id \in Open
      <3>1. Apply(request.workspace_id, request.tokens)
        BY <1>3, <2>2 DEF Serve
      <3>2. /\ request.workspace_id \in Seen /\ IsSnapshot(snap)
            /\ request.tokens = Want(request.workspace_id)
        BY <1>1, <2>1 DEF CleanLoop, TypeOK
      <3>3. /\ Want(request.workspace_id) = Desired(View(request.workspace_id), agents)
            /\ DOMAIN Want(request.workspace_id) = AllTokens
        BY <1>1, <2>1, <2>2, <3>2, WantIsCurrent DEF CleanLoop
      <3> QED  BY <2>1, <2>2, <3>1, <3>2, <3>3
    <2>3. CASE request.workspace_id \notin Open
      BY <1>3, <2>1, <2>3 DEF Serve
    <2> QED  BY <2>2, <2>3
  <1>4. CASE ~Serve
    BY <1>2, <1>4 DEF Next, Daemon, SnapshotOk, SnapshotCancelled, SnapshotFails, Retry, Tick,
         Return, Forget, Skip, Report, ReportOnDeadCtx, ReportFails, ReportReturns,
         ReportJustInTime, ReportErrors, ReportAbandoned, GivesUp, CallEnds, EndReconcile,
         Age, Settle, herdrVars,
         daemonVars, vars
  <1> QED  BY <1>3, <1>4

\* As long as nothing goes wrong and nothing changes, a workspace in sync stays
\* in sync through every write (controller.go:78-99).
THEOREM SyncLasts == Spec => StaysRight
  <1>1. TypeOK /\ HealInv /\ [Next]_vars =>
           [clean /\ clean' => \A w \in Open : Synced(w) => Synced(w)']_vars
    <2> SUFFICES ASSUME TypeOK, HealInv, [Next]_vars, clean, clean',
                        NEW w \in Open, Synced(w)
                 PROVE  Synced(w)'
      OBVIOUS
    <2>1. UNCHANGED <<workspaces, agents>>
      BY CleanSteps
    <2>2. Desired(View(w), agents)' = Desired(View(w), agents)
      <3>1. /\ View(w)'.workspace_id = View(w).workspace_id
            /\ View(w)'.label = View(w).label
            /\ View(w)'.agent_status = View(w).agent_status
        BY <2>1 DEF View
      <3>2. Desired(View(w)', agents) = Desired(View(w), agents)
        BY <3>1, DesiredIgnoresTokens
      <3> QED  BY <2>1, <3>2
    <2>3. CASE held'[w] = held[w]
      BY <2>2, <2>3 DEF Synced
    <2>4. CASE held'[w] # held[w]
      <3>1. /\ Apply(request.workspace_id, request.tokens)
            /\ request.tokens = Desired(View(request.workspace_id), agents)
            /\ DOMAIN request.tokens = AllTokens
        BY <2>4, CleanSteps
      <3>2. w \in DOMAIN held
        BY DEF TypeOK, Open, Partial
      <3>3. w = request.workspace_id /\ held'[w] = Merge(held[w], request.tokens)
        BY <2>4, <3>1, <3>2 DEF Apply
      <3>4. Carries(held'[w], Desired(View(w), agents))
        BY <3>1, <3>3, MergeCarries
      <3> QED  BY <2>2, <3>4 DEF Synced
    <2> QED  BY <2>3, <2>4
  <1> QED  BY <1>1, TypeCorrect, CleanLoopHolds, PTL DEF Spec, StaysRight

\* In a clean tick a write means that the record is due or missing or that the
\* workspace is out of sync (controller.go:83-86).
THEOREM NeededWrites == Spec => WritesOnlyWhenNeeded
  <1>1. TypeOK /\ HealInv /\ [Next]_vars =>
           [\A w \in WorkspaceIDs : clean /\ Report(w) => last[w] # "fresh" \/ ~Synced(w)]_vars
    <2> SUFFICES ASSUME TypeOK, HealInv, NEW w \in WorkspaceIDs, clean, Report(w),
                        last[w] = "fresh", Synced(w)
                 PROVE  FALSE
      OBVIOUS
    <2>1. pc = "reconcile" /\ w \in todo /\ ~UpToDate(w)
      BY DEF Report, Visiting
    <2>2. CleanLoop
      BY DEF HealInv
    <2>3. w \in Seen /\ w \in Open /\ IsSnapshot(snap) /\ snap.workspaces[w].tokens = held[w]
      BY <2>1, <2>2 DEF CleanLoop, TypeOK
    <2>4. Want(w) = Desired(View(w), agents) /\ DOMAIN Want(w) = AllTokens
      BY <2>1, <2>2, <2>3, WantIsCurrent DEF CleanLoop
    <2>5. ObservedMatchesDesired(snap.workspaces[w].tokens, Want(w))
      BY <2>3, <2>4, MatchMeansCarries DEF Synced
    <2> QED  BY <2>1, <2>5 DEF UpToDate
  <1> QED  BY <1>1, TypeCorrect, CleanLoopHolds, PTL DEF Spec, WritesOnlyWhenNeeded

\* After a signal the daemon only ever gets closer to its end and sends no
\* further write (daemon.go:80-133).
THEOREM SignalWindsDown == Spec => WindsDown
  <1>1. TypeOK /\ [Next]_vars =>
           [cancelled /\ cancelled' => \/ pc' = pc /\ todo' \subseteq todo
                                       \/ Ahead[pc'] < Ahead[pc]]_vars
    <2> SUFFICES ASSUME TypeOK, [Next]_vars, cancelled, cancelled'
                 PROVE  \/ pc' = pc /\ todo' \subseteq todo
                        \/ Ahead[pc'] < Ahead[pc]
      OBVIOUS
    <2> USE DEF herdrVars, daemonVars
    <2>1. CASE Daemon
      BY <2>1 DEF Daemon, SnapshotOk, SnapshotCancelled, SnapshotFails, Retry, Tick, Return,
           Forget, Skip, Visiting, Report, CtxDead, ReportOnDeadCtx, ReportFails,
           ReportReturns, ReportJustInTime, ReportErrors, ReportAbandoned, GivesUp, CallEnds,
           EndReconcile, Ahead
    <2>2. CASE Serve \/ (\E r \in late : ServeLate(r)) \/ (\E w \in WorkspaceIDs : Age(w))
               \/ Settle \/ UNCHANGED vars
      BY <2>2 DEF Serve, ServeLate, Age, Settle, vars
    <2>3. CASE Disturbance
      <3>1. CASE SnapshotFails \/ ReportLost \/ \E w \in WorkspaceIDs : ReportFails(w)
        BY <3>1 DEF SnapshotFails, ReportLost, GivesUp, CallEnds, ReportFails, Ahead
      <3>2. CASE Crash
        BY <3>2 DEF Crash, Forget, Ahead, TypeOK
      <3>3. CASE StartDaemon \/ Cancel
        BY <3>3 DEF StartDaemon, Cancel
      <3>4. CASE ~(\/ SnapshotFails \/ ReportLost \/ Crash \/ StartDaemon \/ Cancel
                   \/ \E w \in WorkspaceIDs : ReportFails(w))
        BY <2>3, <3>4 DEF Disturbance, Blanking, Restart, Expire, Clobber, CloseWorkspace,
             Change, OpenWorkspace, AgentStarts, AgentEnds, DeadlinePasses
      <3> QED  BY <3>1, <3>2, <3>3, <3>4
    <2> QED  BY <2>1, <2>2, <2>3 DEF Next
  <1> QED  BY <1>1, TypeCorrect, PTL DEF Spec, WindsDown
=============================================================================
