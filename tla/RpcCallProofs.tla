---------------------------- MODULE RpcCallProofs ----------------------------
(***************************************************************************)
(* Every step of a call, of its watcher and of its peer is a step of       *)
(* Request or changes nothing of it.                                       *)
(***************************************************************************)
EXTENDS RpcCall, TLAPS

Deciding == {"dial", "arm", "spawn", "write", "read", "decode"}

\* Until it unwinds a call has no result; what it has read the peer has sent,
\* and the peer sends "ok" or "bare" only after it has served the request.
CallInv ==
    /\ TypeOK
    /\ pc \in Deciding => result = "none"
    /\ answer = "none" => sent = Nothing /\ ~served
    /\ answer \in {"ok", "bare"} => served

vs == <<served, result>>

LEMMA InitCallInv == Init => CallInv
<1> SUFFICES ASSUME Init PROVE CallInv
  OBVIOUS
<1>1. TypeOK
  <2>1. /\ hasDeadline \in BOOLEAN /\ wants \in BOOLEAN /\ done \in BOOLEAN
        /\ request \in BOOLEAN /\ served \in BOOLEAN
    BY DEF Init
  <2>2. sent \in Nothing..Line /\ got \in Nothing..sent
    BY DEF Init, Nothing, Line
  <2> QED  BY <2>1, <2>2 DEF Init, TypeOK
<1>2. answer = "none" /\ sent = Nothing /\ ~served /\ result = "none"
  BY DEF Init
<1> QED  BY <1>1, <1>2 DEF CallInv

LEMMA StepCallInv == CallInv /\ [Next]_vars => CallInv'
<1> SUFFICES ASSUME CallInv, [Next]_vars PROVE CallInv'
  OBVIOUS
<1> USE DEF CallInv, TypeOK, Deciding, Nothing, Part, Body, Line
<1>1. CASE Dial \/ SetDeadline \/ StartWatcher \/ Write
  <2>1. CASE Dial
    BY <2>1 DEF Dial, Context, Herdr, Watch
  <2>2. CASE SetDeadline
    BY <2>2 DEF SetDeadline, Context, Herdr, Watch
  <2>3. CASE StartWatcher
    BY <2>3 DEF StartWatcher, Context, Herdr
  <2>4. CASE Write
    BY <2>4 DEF Write, Context, Watch
  <2> QED  BY <1>1, <2>1, <2>2, <2>3, <2>4
<1>2. CASE DialFails \/ WriteFails \/ ReadFails
  BY <1>2 DEF DialFails, WriteFails, ReadFails, Fail, Context, Herdr, Watch
<1>3. CASE Read
  BY <1>3 DEF Read, Context, Herdr, Watch
<1>4. CASE Decode \/ CloseDone \/ CloseConn
  <2>1. CASE Decode
    BY <2>1 DEF Decode, DecodeTo, Context, Herdr, Watch
  <2>2. CASE CloseDone
    BY <2>2 DEF CloseDone, Context, Herdr
  <2>3. CASE CloseConn
    BY <2>3 DEF CloseConn, Context, Herdr, Watch
  <2> QED  BY <1>4, <2>1, <2>2, <2>3
<1>5. CASE WatcherSeesCtx \/ WatcherSeesDone \/ WatcherFires
  BY <1>5 DEF WatcherSeesCtx, WatcherSeesDone, WatcherFires, Watcher, Context, Herdr, Watch
<1>6. CASE CtxEnds \/ DeadlinePasses
  BY <1>6 DEF CtxEnds, DeadlinePasses, Context, Herdr, Watch
<1>7. CASE Serve \/ Refuse \/ PeerCloses
  <2>1. CASE Serve
    BY <2>1 DEF Serve, Context, Watch
  <2>2. CASE Refuse
    BY <2>2 DEF Refuse, Context, Watch
  <2>3. CASE PeerCloses
    BY <2>3 DEF PeerCloses, Context, Watch
  <2> QED  BY <1>7, <2>1, <2>2, <2>3
<1>8. CASE Send
  BY <1>8 DEF Send, Context, Watch
<1>9. CASE UNCHANGED vars
  BY <1>9 DEF vars
<1> QED  BY <1>1, <1>2, <1>3, <1>4, <1>5, <1>6, <1>7, <1>8, <1>9 DEF Next, Caller, Peer

\* The caller ends the request, at most once, and well only if it was served;
\* the peer serves it at most once; nobody else touches it.
LEMMA StepIsRequest ==
    CallInv /\ [Next]_vars =>
        Sent!Serve \/ Sent!Succeed \/ Sent!GiveUp \/ UNCHANGED vs
<1> SUFFICES ASSUME CallInv, [Next]_vars
             PROVE  Sent!Serve \/ Sent!Succeed \/ Sent!GiveUp \/ UNCHANGED vs
  OBVIOUS
<1> USE DEF vs
<1>1. CASE DialFails \/ WriteFails \/ ReadFails
  <2>1. result = "none" /\ result' \in {"none", "error"} /\ UNCHANGED served
    BY <1>1 DEF DialFails, WriteFails, ReadFails, Fail, Herdr, CallInv, Deciding
  <2> QED  BY <2>1 DEF Sent!GiveUp
<1>2. CASE Decode
  <2>1. result = "none" /\ UNCHANGED served
    BY <1>2 DEF Decode, DecodeTo, Herdr, CallInv, Deciding
  <2>2. result' = "error" \/ (result' = "ok" /\ served)
    BY <1>2 DEF Decode, DecodeTo, CallInv
  <2> QED  BY <2>1, <2>2 DEF Sent!GiveUp, Sent!Succeed
<1>3. CASE Serve
  BY <1>3 DEF Serve, Sent!Serve, CallInv
<1>4. CASE Dial \/ SetDeadline \/ StartWatcher \/ Write \/ Read \/ CloseDone \/ CloseConn
  BY <1>4 DEF Dial, SetDeadline, StartWatcher, Write, Read, CloseDone, CloseConn, Herdr
<1>5. CASE WatcherSeesCtx \/ WatcherSeesDone \/ WatcherFires \/ CtxEnds \/ DeadlinePasses
  BY <1>5 DEF WatcherSeesCtx, WatcherSeesDone, WatcherFires, Watcher, CtxEnds,
              DeadlinePasses, Herdr
<1>6. CASE Refuse \/ Send \/ PeerCloses \/ UNCHANGED vars
  BY <1>6 DEF Refuse, Send, PeerCloses, vars
<1> QED  BY <1>1, <1>2, <1>3, <1>4, <1>5, <1>6 DEF Next, Caller, Peer

\* A call is one Request (client.go:34-103): Herdr serves it at most once, and
\* no answer is believed that was not given.
THEOREM CallsAreRequests == Spec => ActsAsRequest
<1>1. Init => Sent!Init
  BY DEF Init, Sent!Init
<1>2. CallInv /\ [Next]_vars =>
        [Sent!Serve \/ Sent!Succeed \/ Sent!GiveUp]_<<served,
            IF result = "none" THEN "waiting" ELSE result>>
  BY StepIsRequest DEF vs
<1> QED  BY <1>1, <1>2, InitCallInv, StepCallInv, PTL DEF Spec, ActsAsRequest, Sent!Spec
=============================================================================
