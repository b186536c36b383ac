--------------------------- MODULE WorkerIpcProofs ---------------------------
(***************************************************************************)
(* Proofs about WorkerIpc, for any set of tracks and whether or not job    *)
(* objects reap.                                                           *)
(***************************************************************************)
EXTENDS WorkerIpc, TLAPS

LEMMA InitIpc == Init => IpcInv
BY DEF Init, IpcInv, TypeOK, Op, ReqState, ClientPC, ClientOrder, Owned, Cleared

LEMMA ClientKeepsInv ==
    ASSUME IpcInv, NEW t \in Track, Client(t)
    PROVE  IpcInv'
<1> USE DEF IpcInv, TypeOK, Op, ReqState, ClientPC, ClientOrder, Owned, Cleared, ClientGoto,
            WorkerSame
<1>1. CASE BeginSpawn(t)
  BY <1>1 DEF BeginSpawn
<1>2. CASE OpenSpawn(t)
  BY <1>2 DEF OpenSpawn, Open, OpenFails
<1>3. CASE SendSpawn(t)
  BY <1>3 DEF SendSpawn, Send
<1>4. CASE RecvSpawn(t)
  BY <1>4 DEF RecvSpawn
<1>5. CASE Attach(t)
  BY <1>5 DEF Attach
<1>6. CASE BeginKill(t)
  BY <1>6 DEF BeginKill
<1>7. CASE OpenKill(t)
  BY <1>7 DEF OpenKill, Open, OpenFails
<1>8. CASE SendKill(t)
  BY <1>8 DEF SendKill, Send
<1>9. CASE CloseKill(t)
  BY <1>9 DEF CloseKill
<1> QED
  BY <1>1, <1>2, <1>3, <1>4, <1>5, <1>6, <1>7, <1>8, <1>9 DEF Client

LEMMA AcceptKeepsInv ==
    ASSUME IpcInv, Accept
    PROVE  IpcInv'
<1> USE DEF IpcInv, TypeOK, Op, ReqState, ClientOrder, Owned, Cleared, AcceptSame
<1>1. CASE AcceptCreate
  BY <1>1 DEF AcceptCreate
<1>2. CASE AcceptCall
  BY <1>2 DEF AcceptCall, HandOver
<1>3. CASE AcceptWake
  BY <1>3 DEF AcceptWake, HandOver
<1> QED
  BY <1>1, <1>2, <1>3 DEF Accept

LEMMA ServeKeepsInv ==
    ASSUME IpcInv, NEW t \in Track, Serve(t)
    PROVE  IpcInv'
<1> USE DEF IpcInv, TypeOK, Op, ReqState, ClientOrder, Owned, Cleared, Handle, Running, MutexFree
<1>1. ASSUME NEW op \in Op, Receive(op, t) PROVE IpcInv'
  BY <1>1 DEF Receive
<1>2. ASSUME NEW op \in Op, Finish(op, t) PROVE IpcInv'
  <2>1. UNCHANGED <<lpc, door, cpc, procs, registered, worker, answered>>
    BY <1>2 DEF Finish
  <2>2. CASE op = "spawn"
    <3>1. /\ req' = [req EXCEPT !["spawn"][t] = "done"]
          /\ req["spawn"][t] \in {"answered", "refused"}
      BY <1>2, <2>2 DEF Finish
    <3> QED
      BY <2>1, <3>1
  <2>3. CASE op = "kill"
    <3>1. /\ req' = [req EXCEPT !["kill"][t] = "done"]
          /\ req["kill"][t] = "answered"
      BY <1>2, <2>3 DEF Finish
    <3> QED
      BY <2>1, <3>1
  <2> QED
    BY <2>2, <2>3
<1>3. CASE SpawnChildren(t)
  BY <1>3 DEF SpawnChildren
<1>4. CASE SpawnFails(t)
  BY <1>4 DEF SpawnFails
<1>5. CASE Register(t)
  BY <1>5 DEF Register
<1>6. CASE KillTake(t)
  BY <1>6 DEF KillTake
<1>7. CASE KillDestroy(t)
  BY <1>7 DEF KillDestroy
<1> QED
  BY <1>1, <1>2, <1>3, <1>4, <1>5, <1>6, <1>7 DEF Serve

LEMMA ShutdownKeepsInv ==
    ASSUME IpcInv, ShutdownBegin \/ Shutdown \/ StopTimesOut
    PROVE  IpcInv'
<1> USE DEF IpcInv, TypeOK, ClientOrder, Owned, Cleared, ShutdownSame, JobsClose
<1>1. CASE ShutdownBegin
  BY <1>1 DEF ShutdownBegin
<1>2. ASSUME NEW t \in Track, ShutdownReap(t) PROVE IpcInv'
  BY <1>2 DEF ShutdownReap
<1>3. CASE ShutdownUnlock
  BY <1>3 DEF ShutdownUnlock
<1>4. CASE ShutdownExit
  BY <1>4 DEF ShutdownExit
<1>5. CASE StopTimesOut
  BY <1>5 DEF StopTimesOut
<1> QED
  BY <1>1, <1>2, <1>3, <1>4, <1>5 DEF Shutdown

LEMMA StepKeepsInv == IpcInv /\ [Next]_vars => IpcInv'
<1> SUFFICES ASSUME IpcInv, [Next]_vars PROVE IpcInv'
  OBVIOUS
<1>1. CASE UNCHANGED vars
  BY <1>1 DEF vars, IpcInv, TypeOK, ClientOrder, Owned, Cleared
<1> QED
  BY <1>1, ClientKeepsInv, AcceptKeepsInv, ServeKeepsInv, ShutdownKeepsInv DEF Next

\* The invariant the theorems below follow from.
THEOREM IpcInvariant == Spec => []IpcInv
<1>1. Init => IpcInv
  BY InitIpc
<1>2. IpcInv /\ [Next]_vars => IpcInv'
  BY StepKeepsInv
<1> QED
  BY <1>1, <1>2, PTL DEF Spec

\* handle_kill: whatever the other connections do meanwhile, a kill that was
\* served leaves no process of its track, then or later.
THEOREM ServedKillLeavesNothing == Spec => []ServedKillReaps
<1>1. IpcInv => ServedKillReaps
  BY DEF IpcInv, ClientOrder, Owned, Cleared, ServedKillReaps
<1> QED
  BY <1>1, IpcInvariant, PTL

\* shutdown_and_exit: an orderly exit reaps every track whose spawn had been
\* answered when it took g_mu, with no help from job objects, although spawns
\* and kills go on between its unlock and ExitProcess.
THEOREM OrderlyExit == Spec => []ExitReapsAnswered
<1>1. IpcInv => ExitReapsAnswered
  BY DEF IpcInv, TypeOK, Owned, Cleared, ExitReapsAnswered
<1> QED
  BY <1>1, IpcInvariant, PTL
=============================================================================
