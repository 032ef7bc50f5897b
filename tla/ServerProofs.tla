---------------------------- MODULE ServerProofs ----------------------------
(* Proofs about the lifecycle of a node, for any set of requests. *)
EXTENDS Server, TLAPS

LEMMA InitInv == Init => ServerInv
BY ServerAssumption, Zenon DEF Init, RunnerInit, ServerInv, RunnerTypeOK, ServerTypeOK, StopJoins, StopsInOrder

\* One step per action of the main goroutine, the listener, the handlers and
\* the worker.
LEMMA NextInv == ServerInv /\ [Next]_vars => ServerInv'
<1> SUFFICES ASSUME ServerInv, [Next]_vars PROVE ServerInv'
  BY SMTT(30)
<1> USE ServerAssumption DEF ServerInv, RunnerTypeOK, ServerTypeOK, StopJoins, StopsInOrder, runnerVars, stopVars
<1>1. CASE PingFails \/ Interrupt \/ Spawn \/ MarkStarted \/ Exit
  <2>1. CASE PingFails
    BY <2>1 DEF PingFails
  <2>2. CASE Interrupt
    BY <2>2 DEF Interrupt
  <2>3. CASE Spawn
    BY <2>3 DEF Spawn
  <2>4. CASE MarkStarted
    BY <2>4 DEF MarkStarted
  <2>5. CASE Exit
    BY <2>5 DEF Exit
  <2> QED
    BY <1>1, <2>1, <2>2, <2>3, <2>4, <2>5
<1>2. CASE StartService
  BY <1>2 DEF StartService, StartAssign, StartGo
<1>3. CASE ListenAndServe
  <2>1. CASE shutdown
    BY <1>3, <2>1 DEF ListenAndServe
  <2>2. CASE ~shutdown
    BY <1>3, <2>2 DEF ListenAndServe
  <2> QED
    BY <2>1, <2>2
<1>4. CASE Stop
  BY <1>4, ZenonT(30) DEF Stop
<1>5. CASE Shutdown
  BY <1>5 DEF Shutdown
<1>6. CASE Drained
  BY <1>6, ZenonT(30) DEF Drained, CallStop
<1>7. CASE DrainTimeout
  BY <1>7 DEF DrainTimeout
<1>8. CASE StopService
  BY <1>8, Zenon DEF StopService
<1>9. CASE StopStep(Main) /\ UNCHANGED serverVars
  <2>1. CASE OnceDo(Main)
    BY <1>9, <2>1 DEF OnceDo, serverVars
  <2>2. CASE Cancel(Main)
    BY <1>9, <2>2 DEF Cancel, serverVars
  <2>3. CASE Wait(Main)
    BY <1>9, <2>3 DEF Wait, serverVars
  <2> QED
    BY <1>9, <2>1, <2>2, <2>3, Zenon DEF StopStep
<1>10. CASE LoopReturns /\ UNCHANGED serverVars
  BY <1>10 DEF LoopReturns, serverVars
<1>11. ASSUME NEW r \in Requests, Accept(r)
       PROVE  ServerInv'
  BY <1>11 DEF Accept
<1>12. ASSUME NEW r \in Requests, Respond(r)
       PROVE  ServerInv'
  BY <1>12 DEF Respond
<1>13. CASE UNCHANGED vars
  BY <1>13 DEF vars, serverVars
<1> QED
  BY <1>1, <1>2, <1>3, <1>4, <1>5, <1>6, <1>7, <1>8, <1>9, <1>10, <1>11, <1>12, <1>13, Zenon DEF Next, MainStep

\* The inductive invariant of a node holds throughout.
THEOREM ServerInvHolds == Spec => []ServerInv
BY InitInv, NextInv, PTL DEF Spec

\* For any set of requests, the worker is stopped only when no handler runs
\* and none can start (server.go Stop).
THEOREM StopsInOrderHolds == Spec => []StopsInOrder
<1>1. ServerInv => StopsInOrder
  BY DEF ServerInv
<1> QED
  BY <1>1, ServerInvHolds, PTL

\* The publisher is closed only after the relay's loop has returned (relay.go
\* Stop).
THEOREM ClosedAfterLoopHolds == Spec => []ClosedAfterLoop
<1>1. ServerInv => ClosedAfterLoop
  BY ServerAssumption DEF ServerInv, StopJoins, ClosedAfterLoop
<1> QED
  BY <1>1, ServerInvHolds, PTL

=============================================================================
