----------------------- MODULE PipelineTeardownProofs -----------------------
(***************************************************************************)
(* Proofs about PipelineTeardown, for any set of proxies.  Nothing below   *)
(* uses fairness, so the theorems are about Init and Next alone.           *)
(***************************************************************************)
EXTENDS PipelineTeardown, TLAPS

LEMMA InitTeardown == Init => TeardownInv
BY DEF Init, TeardownInv, TypeOK, DestState, ProxyPC, KillPC, StopsGiven, Joined,
       ClosedLast, OnlyConnectedHoldsBytes, Flushed

\* A step of proxy_thread_fn.
LEMMA ProxyKeepsInv ==
    ASSUME TeardownInv, NEW p \in Proxy, ProxyStep(p)
    PROVE  TeardownInv'
<1> USE DEF TeardownInv, ProxyOnly, Goto
<1>t. TypeOK'
  <2> USE DEF TypeOK, DestState, ProxyPC
  <2>1. CASE ProxyStart(p)
    BY <2>1 DEF ProxyStart
  <2>2. CASE ProxyConnect(p)
    BY <2>2 DEF ProxyConnect
  <2>3. CASE ProxyWake(p)
    BY <2>3 DEF ProxyWake
  <2>4. CASE ProxyLoop(p)
    BY <2>4 DEF ProxyLoop
  <2>5. CASE ProxyRead(p)
    BY <2>5 DEF ProxyRead
  <2>6. CASE ProxyWrite(p)
    BY <2>6 DEF ProxyWrite
  <2>7. CASE ProxyTail(p)
    BY <2>7 DEF ProxyTail
  <2>8. CASE ProxyFlush(p)
    BY <2>8 DEF ProxyFlush
  <2>9. CASE ProxyDisconnect(p)
    BY <2>9 DEF ProxyDisconnect, Disconnected
  <2> QED
    BY <2>1, <2>2, <2>3, <2>4, <2>5, <2>6, <2>7, <2>8, <2>9 DEF ProxyStep
<1>a. ppc[p] # "exited"
  BY DEF ProxyStep, ProxyStart, ProxyConnect, ProxyWake, ProxyLoop, ProxyRead,
         ProxyWrite, ProxyTail, ProxyFlush, ProxyDisconnect
<1>b. /\ UNCHANGED <<stop, kpc, todo>>
      /\ \A q \in Proxy : q # p => /\ ppc'[q] = ppc[q]
                                   /\ dest'[q] = dest[q]
                                   /\ unread'[q] = unread[q]
  BY DEF TypeOK, ProxyStep, ProxyStart, ProxyConnect, ProxyWake, ProxyLoop, ProxyRead,
         ProxyWrite, ProxyTail, ProxyFlush, ProxyDisconnect, Disconnected
<1>c. dest'[p] # "closed" /\ (dest'[p] \notin {"connected", "dropped"} => ~unread'[p])
  <2>1. dest[p] # "closed"
    BY <1>a DEF Joined, ClosedLast
  <2> QED
    BY <2>1 DEF TypeOK, OnlyConnectedHoldsBytes, ProxyStep, ProxyStart, ProxyConnect,
       ProxyWake, ProxyLoop, ProxyRead, ProxyWrite, ProxyTail, ProxyFlush,
       ProxyDisconnect, Disconnected
<1>1. StopsGiven'
  BY <1>b DEF StopsGiven
<1>2. Joined'
  BY <1>a, <1>b DEF Joined
<1>3. ClosedLast'
  BY <1>b, <1>c DEF ClosedLast
<1>4. OnlyConnectedHoldsBytes'
  BY <1>b, <1>c DEF OnlyConnectedHoldsBytes
<1>5. Flushed'
  <2>1. ppc'[p] = "disconnect" /\ dest'[p] = "connected" => ~unread'[p]
    BY DEF TypeOK, ProxyStep, ProxyStart, ProxyConnect, ProxyWake, ProxyLoop, ProxyRead,
       ProxyWrite, ProxyTail, ProxyFlush, ProxyDisconnect, Disconnected
  <2> QED
    BY <1>b, <2>1 DEF Flushed
<1> QED
  BY <1>t, <1>1, <1>2, <1>3, <1>4, <1>5

\* A step of kill().
LEMMA KillKeepsInv ==
    ASSUME TeardownInv, KillBegin \/ KillStep
    PROVE  TeardownInv'
<1> USE DEF TeardownInv, TypeOK, DestState, ProxyPC, KillPC, StopsGiven, Joined,
            ClosedLast, OnlyConnectedHoldsBytes, Flushed
<1>1. CASE KillBegin
  BY <1>1 DEF KillBegin
<1>2. CASE KillReap
  BY <1>2 DEF KillReap
<1>3. ASSUME NEW p \in Proxy, KillStop(p) PROVE TeardownInv'
  BY <1>3 DEF KillStop, Visit
<1>4. ASSUME NEW p \in Proxy, KillDisconnect(p) PROVE TeardownInv'
  <2>1. UNCHANGED <<child, buffered, client, stop, ppc, kpc, todo>> /\ broken' = {p}
    BY <1>4 DEF KillDisconnect
  <2>2. CASE Disconnected(p)
    <3>1. /\ dest' \in [Proxy -> DestState] /\ unread' \in [Proxy -> BOOLEAN]
          /\ dest'[p] = "disconnected" /\ unread'[p] = FALSE
          /\ \A q \in Proxy : q # p => dest'[q] = dest[q] /\ unread'[q] = unread[q]
      BY <2>2 DEF Disconnected
    <3>2. TypeOK'
      BY <2>1, <3>1
    <3>3. StopsGiven' /\ Joined'
      BY <2>1
    <3>4. ClosedLast' /\ OnlyConnectedHoldsBytes' /\ Flushed'
      BY <2>1, <3>1
    <3> QED
      BY <3>2, <3>3, <3>4
  <2>3. CASE UNCHANGED <<dest, unread>>
    BY <2>1, <2>3
  <2> QED
    BY <1>4, <2>2, <2>3 DEF KillDisconnect
<1>5. ASSUME NEW p \in Proxy, KillSelfConnect(p) PROVE TeardownInv'
  BY <1>5 DEF KillSelfConnect, Visit
<1>6. ASSUME NEW p \in Proxy, KillJoin(p) PROVE TeardownInv'
  BY <1>6 DEF KillJoin, Visit
<1>7. ASSUME NEW p \in Proxy, KillClose(p) PROVE TeardownInv'
  BY <1>7 DEF KillClose, Visit
<1> QED
  BY <1>1, <1>2, <1>3, <1>4, <1>5, <1>6, <1>7 DEF KillStep

\* A step of the child or of the DLL.
LEMMA EnvironmentKeepsInv ==
    ASSUME TeardownInv, Environment
    PROVE  TeardownInv'
<1> USE DEF TeardownInv, TypeOK, DestState, ProxyPC, KillPC, StopsGiven, Joined,
            ClosedLast, OnlyConnectedHoldsBytes, Flushed, ClientOnly
<1>1. CASE ChildExit
  BY <1>1 DEF ChildExit
<1>2. ASSUME NEW p \in Proxy, ChildOutput(p) PROVE TeardownInv'
  BY <1>2 DEF ChildOutput
<1>3. ASSUME NEW p \in Proxy, ClientConnect(p) PROVE TeardownInv'
  BY <1>3 DEF ClientConnect
<1>4. ASSUME NEW p \in Proxy, ClientRead(p) PROVE TeardownInv'
  BY <1>4 DEF ClientRead
<1>5. ASSUME NEW p \in Proxy, ClientClose(p) PROVE TeardownInv'
  BY <1>5 DEF ClientClose
<1> QED
  BY <1>1, <1>2, <1>3, <1>4, <1>5 DEF Environment

LEMMA StepKeepsInv == TeardownInv /\ [Next]_vars => TeardownInv'
<1> SUFFICES ASSUME TeardownInv, [Next]_vars PROVE TeardownInv'
  OBVIOUS
<1>1. ASSUME NEW p \in Proxy, ProxyStep(p) PROVE TeardownInv'
  BY <1>1, ProxyKeepsInv
<1>2. CASE KillBegin \/ KillStep
  BY <1>2, KillKeepsInv
<1>3. CASE Environment
  BY <1>3, EnvironmentKeepsInv
<1>4. CASE UNCHANGED vars
  BY <1>4 DEF vars, TeardownInv, TypeOK, StopsGiven, Joined, ClosedLast,
              OnlyConnectedHoldsBytes, Flushed
<1> QED
  BY <1>1, <1>2, <1>3, <1>4 DEF Next

\* The invariant the rest follows from, whenever kill() begins.
THEOREM TeardownInvariant == Spec => []TeardownInv
<1>1. Init => TeardownInv
  BY InitTeardown
<1>2. TeardownInv /\ [Next]_vars => TeardownInv'
  BY StepKeepsInv
<1> QED
  BY <1>1, <1>2, PTL DEF Spec

\* Pipeline::kill closes no handle a proxy thread may still use.
THEOREM HandlesClosedAfterJoin == Spec => []NoUseAfterClose
<1>1. TeardownInv => NoUseAfterClose
  BY DEF TeardownInv, NoUseAfterClose, ClosedLast, Joined
<1> QED
  BY <1>1, TeardownInvariant, PTL

\* proxy_thread_fn never disconnects a pipeline nobody is killing over bytes
\* the DLL has still to read.
THEOREM TailReachesReader == Spec => NoTailLost
<1> DEFINE Kept == \A p \in Proxy :
                       dest[p] = "connected" /\ dest'[p] = "disconnected" /\ ~stop[p]
                           => ~unread[p]
<1>1. TeardownInv /\ Next => Kept
  <2> SUFFICES ASSUME TeardownInv, Next, NEW p \in Proxy,
                      dest[p] = "connected", dest'[p] = "disconnected", ~stop[p]
               PROVE  ~unread[p]
    OBVIOUS
  <2> USE DEF TeardownInv, TypeOK
  <2>1. ASSUME NEW q \in Proxy, ProxyStep(q) PROVE ~unread[p]
    BY <2>1 DEF Flushed, ProxyOnly, Goto, ProxyStep, ProxyStart, ProxyConnect, ProxyWake,
       ProxyLoop, ProxyRead, ProxyWrite, ProxyTail, ProxyFlush, ProxyDisconnect,
       Disconnected
  <2>2. CASE KillBegin
    BY <2>2 DEF KillBegin
  <2>3. CASE KillStep
    BY <2>3 DEF KillStep, KillReap, KillStop, KillDisconnect, KillSelfConnect, KillJoin,
       KillClose, Disconnected, Visit, StopsGiven
  <2>4. CASE Environment
    BY <2>4 DEF Environment, ChildOutput, ChildExit, ClientConnect, ClientRead,
       ClientClose, ClientOnly
  <2> QED
    BY <2>1, <2>2, <2>3, <2>4 DEF Next
<1>2. TeardownInv /\ [Next]_vars => [Kept]_vars
  BY <1>1
<1> QED
  BY <1>2, TeardownInvariant, PTL DEF Spec, NoTailLost
=============================================================================
