-------------------------- MODULE PipelineTeardown --------------------------
(***************************************************************************)
(* src/src/worker/worker_main.cpp: one Pipeline of the worker process, the *)
(* proxy thread behind each of its named pipes (proxy_thread_fn) and the   *)
(* thread that tears it down (Pipeline::kill, from handle_kill or from     *)
(* shutdown_and_exit).  Every call on a shared handle is a step.           *)
(*                                                                         *)
(* The named pipe is Windows': an instance is born listening; a client     *)
(* connects only to a listening instance; ConnectNamedPipe returns at once *)
(* on a connected one and otherwise (re)opens it for listening and waits;  *)
(* DisconnectNamedPipe throws unread bytes away and fails the calls parked *)
(* on the instance.  On an instance still listening it either fails (and   *)
(* leaves it listening, what kill()'s throwaway client counts on) or       *)
(* cancels the wait: both are allowed.                                     *)
(***************************************************************************)
EXTENDS Naturals, FiniteSets

CONSTANT Proxy       \* the pipeline's proxies: its PCM stream and its stderr stream
ASSUME ProxyAssumption == IsFiniteSet(Proxy) /\ Proxy # {}

VARIABLES
    child,     \* the child process tree: "running" or "gone"
    buffered,  \* [Proxy -> BOOLEAN] bytes waiting in the anonymous pipe (source)
    dest,      \* [Proxy -> server end of the named pipe]
    unread,    \* [Proxy -> BOOLEAN] bytes written and not yet read by the DLL
    client,    \* [Proxy -> the DLL's end]: "away", "attached", "detached"
    stop,      \* [Proxy -> BOOLEAN] ProxyData::stop
    ppc,       \* [Proxy -> program counter of proxy_thread_fn]
    kpc,       \* program counter of kill()
    todo,      \* proxies the current loop of kill() has still to visit
    broken     \* the proxy kill() has disconnected and not yet self-connected

vars == <<child, buffered, dest, unread, client, stop, ppc, kpc, todo, broken>>

DestState == {"listening", "connected", "dropped", "disconnected", "closed"}
ProxyPC == {"start", "connect", "parked", "loop", "read", "write", "tail",
            "flush", "disconnect", "exited"}
KillPC == {"idle", "stop", "reap", "unblock", "join", "close", "done"}

Init == /\ child = "running"
        /\ buffered = [p \in Proxy |-> FALSE]
        /\ dest = [p \in Proxy |-> "listening"]
        /\ unread = [p \in Proxy |-> FALSE]
        /\ client = [p \in Proxy |-> "away"]
        /\ stop = [p \in Proxy |-> FALSE]
        /\ ppc = [p \in Proxy |-> "start"]
        /\ kpc = "idle"
        /\ todo = {}
        /\ broken = {}

-----------------------------------------------------------------------------
(* proxy_thread_fn                                                         *)

Goto(p, pc) == ppc' = [ppc EXCEPT ![p] = pc]
ProxyOnly == UNCHANGED <<child, client, stop, kpc, todo, broken>>

\* if (!d->stop) ...
ProxyStart(p) ==
    /\ ppc[p] = "start"
    /\ Goto(p, IF stop[p] THEN "loop" ELSE "connect")
    /\ ProxyOnly /\ UNCHANGED <<buffered, dest, unread>>

\* ... ConnectNamedPipe: at once on a connected instance, else wait.
ProxyConnect(p) ==
    /\ ppc[p] = "connect"
    /\ IF dest[p] \in {"connected", "dropped"}
       THEN Goto(p, "loop") /\ UNCHANGED dest
       ELSE Goto(p, "parked") /\ dest' = [dest EXCEPT ![p] = "listening"]
    /\ ProxyOnly /\ UNCHANGED <<buffered, unread>>

ProxyWake(p) ==
    /\ ppc[p] = "parked"
    /\ dest[p] # "listening"
    /\ Goto(p, "loop")
    /\ ProxyOnly /\ UNCHANGED <<buffered, dest, unread>>

\* while (!d->stop)
ProxyLoop(p) ==
    /\ ppc[p] = "loop"
    /\ Goto(p, IF stop[p] THEN "tail" ELSE "read")
    /\ ProxyOnly /\ UNCHANGED <<buffered, dest, unread>>

\* ReadFile(source): bytes, or end of file once the child is gone.
ProxyRead(p) ==
    /\ ppc[p] = "read"
    /\ \/ buffered[p] /\ Goto(p, "write")
       \/ ~buffered[p] /\ child = "gone" /\ Goto(p, "tail")
    /\ buffered' = [buffered EXCEPT ![p] = FALSE]
    /\ ProxyOnly /\ UNCHANGED <<dest, unread>>

\* WriteFile(dest): parks while the DLL has bytes to read, fails when the
\* instance is not connected.
ProxyWrite(p) ==
    /\ ppc[p] = "write"
    /\ \/ /\ dest[p] = "connected" /\ ~unread[p]
          /\ unread' = [unread EXCEPT ![p] = TRUE]
          /\ Goto(p, "loop")
       \/ dest[p] # "connected" /\ Goto(p, "tail") /\ UNCHANGED unread
    /\ ProxyOnly /\ UNCHANGED <<buffered, dest>>

\* Flush and disconnect only when nobody is killing the pipeline.
SkipFlush(p) ==
    /\ ppc[p] = "tail"
    /\ Goto(p, IF stop[p] THEN "exited" ELSE "disconnect")
    /\ ProxyOnly /\ UNCHANGED <<buffered, dest, unread>>
ProxyTail(p) ==
    /\ ppc[p] = "tail"
    /\ Goto(p, IF stop[p] THEN "exited" ELSE "flush")
    /\ ProxyOnly /\ UNCHANGED <<buffered, dest, unread>>

\* FlushFileBuffers: parks until the DLL has read everything.
ProxyFlush(p) ==
    /\ ppc[p] = "flush"
    /\ dest[p] = "connected" => ~unread[p]
    /\ Goto(p, "disconnect")
    /\ ProxyOnly /\ UNCHANGED <<buffered, dest, unread>>

\* A disconnect ends a connection and discards what the DLL has not read.
Disconnected(p) ==
    /\ dest' = [dest EXCEPT ![p] = "disconnected"]
    /\ unread' = [unread EXCEPT ![p] = FALSE]

LeaveConnected(p) ==
    /\ ppc[p] = "disconnect"
    /\ Goto(p, "exited")
    /\ ProxyOnly /\ UNCHANGED <<buffered, dest, unread>>
ProxyDisconnect(p) ==
    /\ ppc[p] = "disconnect"
    /\ Disconnected(p)
    /\ Goto(p, "exited")
    /\ ProxyOnly /\ UNCHANGED buffered

ProxyStep(p) == \/ ProxyStart(p) \/ ProxyConnect(p) \/ ProxyWake(p) \/ ProxyLoop(p)
                \/ ProxyRead(p) \/ ProxyWrite(p) \/ ProxyTail(p) \/ ProxyFlush(p)
                \/ ProxyDisconnect(p)

-----------------------------------------------------------------------------
(* Pipeline::kill                                                          *)

\* A loop over the proxies: visit one, and when none is left go on.
Visit(p, from, to, again) ==
    /\ kpc = from
    /\ p \in todo
    /\ todo' = IF todo = {p} THEN again ELSE todo \ {p}
    /\ kpc' = IF todo = {p} THEN to ELSE from

KillBegin ==
    /\ kpc = "idle"
    /\ kpc' = "stop"
    /\ todo' = Proxy
    /\ UNCHANGED <<child, buffered, dest, unread, client, stop, ppc, broken>>

\* 1. tell the proxies
KillStop(p) ==
    /\ Visit(p, "stop", "reap", {})
    /\ stop' = [stop EXCEPT ![p] = TRUE]
    /\ UNCHANGED <<child, buffered, dest, unread, client, ppc, broken>>

\* 2. reap the children: a proxy parked in ReadFile sees the end of the pipe
ReapNothing ==
    /\ kpc = "reap"
    /\ kpc' = "unblock"
    /\ todo' = Proxy
    /\ UNCHANGED <<child, buffered, dest, unread, client, stop, ppc, broken>>
KillReap ==
    /\ kpc = "reap"
    /\ child' = "gone"
    /\ kpc' = "unblock"
    /\ todo' = Proxy
    /\ UNCHANGED <<buffered, dest, unread, client, stop, ppc, broken>>

\* 3. for each proxy: DisconnectNamedPipe ...
KillDisconnect(p) ==
    /\ kpc = "unblock" /\ p \in todo /\ broken = {}
    /\ broken' = {p}
    /\ \/ Disconnected(p)
       \/ dest[p] = "listening" /\ UNCHANGED <<dest, unread>>
    /\ UNCHANGED <<child, buffered, client, stop, ppc, kpc, todo>>

\* ... and a client that opens the pipe, if it listens, and closes at once.
KillSelfConnect(p) ==
    /\ p \in broken
    /\ broken' = {}
    /\ Visit(p, "unblock", "join", Proxy)
    /\ dest' = IF dest[p] = "listening" THEN [dest EXCEPT ![p] = "dropped"] ELSE dest
    /\ UNCHANGED <<child, buffered, unread, client, stop, ppc>>

\* 4. join
JoinNothing(p) ==
    /\ Visit(p, "join", "close", Proxy)
    /\ UNCHANGED <<child, buffered, dest, unread, client, stop, ppc, broken>>
KillJoin(p) ==
    /\ ppc[p] = "exited"
    /\ Visit(p, "join", "close", Proxy)
    /\ UNCHANGED <<child, buffered, dest, unread, client, stop, ppc, broken>>

\* 5. close
KillClose(p) ==
    /\ Visit(p, "close", "done", {})
    /\ dest' = [dest EXCEPT ![p] = "closed"]
    /\ unread' = [unread EXCEPT ![p] = FALSE]
    /\ UNCHANGED <<child, buffered, client, stop, ppc, broken>>

KillStep == \/ KillReap
            \/ \E p \in Proxy : \/ KillStop(p) \/ KillDisconnect(p) \/ KillSelfConnect(p)
                                \/ KillJoin(p) \/ KillClose(p)

-----------------------------------------------------------------------------
(* The child and the DLL                                                   *)

ChildOutput(p) ==
    /\ child = "running"
    /\ buffered' = [buffered EXCEPT ![p] = TRUE]
    /\ UNCHANGED <<child, dest, unread, client, stop, ppc, kpc, todo, broken>>

ChildExit ==
    /\ child = "running"
    /\ child' = "gone"
    /\ UNCHANGED <<buffered, dest, unread, client, stop, ppc, kpc, todo, broken>>

ClientOnly == UNCHANGED <<child, buffered, stop, ppc, kpc, todo, broken>>

ClientConnect(p) ==
    /\ client[p] = "away" /\ dest[p] = "listening"
    /\ client' = [client EXCEPT ![p] = "attached"]
    /\ dest' = [dest EXCEPT ![p] = "connected"]
    /\ ClientOnly /\ UNCHANGED unread

ClientRead(p) ==
    /\ client[p] = "attached" /\ unread[p]
    /\ unread' = [unread EXCEPT ![p] = FALSE]
    /\ ClientOnly /\ UNCHANGED <<client, dest>>

\* ~Pipe closes the data pipes before it sends the kill.
ClientClose(p) ==
    /\ client[p] = "attached"
    /\ client' = [client EXCEPT ![p] = "detached"]
    /\ dest' = IF dest[p] = "connected" THEN [dest EXCEPT ![p] = "dropped"] ELSE dest
    /\ ClientOnly /\ UNCHANGED unread

Environment == \/ ChildExit
               \/ \E p \in Proxy : \/ ChildOutput(p) \/ ClientConnect(p)
                                   \/ ClientRead(p) \/ ClientClose(p)

-----------------------------------------------------------------------------
Next == \/ \E p \in Proxy : ProxyStep(p)
        \/ KillBegin
        \/ KillStep
        \/ Environment

\* Threads get the processor; nothing is assumed of the child or the DLL.
Fairness == WF_vars(KillStep) /\ \A p \in Proxy : WF_vars(ProxyStep(p))
Spec == Init /\ [][Next]_vars /\ Fairness

\* The situation kill()'s comment describes: when it begins, each proxy is
\* past its ConnectNamedPipe, in it, or in a later call.
Settled == \A p \in Proxy : ppc[p] \notin {"start", "connect"}
SettledNext == Next /\ (kpc = "idle" => kpc' = "idle" \/ Settled)

\* The DLL also reads what it is sent.
SettledSpec == Init /\ [][SettledNext]_vars /\ Fairness
                    /\ \A p \in Proxy : WF_vars(ClientRead(p))

-----------------------------------------------------------------------------
(* Properties                                                              *)

TypeOK ==
    /\ child \in {"running", "gone"}
    /\ buffered \in [Proxy -> BOOLEAN]
    /\ dest \in [Proxy -> DestState]
    /\ unread \in [Proxy -> BOOLEAN]
    /\ client \in [Proxy -> {"away", "attached", "detached"}]
    /\ stop \in [Proxy -> BOOLEAN]
    /\ ppc \in [Proxy -> ProxyPC]
    /\ kpc \in KillPC
    /\ todo \in SUBSET Proxy
    /\ broken \in SUBSET Proxy

\* "no use-after-close": once kill() has closed a proxy's handles that proxy
\* thread has ended, whatever call it was parked in.
NoUseAfterClose == \A p \in Proxy : dest[p] = "closed" => ppc[p] = "exited"

\* "flush so Wine doesn't drop undrained bytes": the connection of a pipeline
\* nobody is killing is never broken over bytes the DLL has yet to read.
NoTailLost ==
    [][\A p \in Proxy : dest[p] = "connected" /\ dest'[p] = "disconnected" /\ ~stop[p]
                           => ~unread[p]]_vars

\* "join -- after this we are the sole owner": kill() always gets to its end,
\* so the handler that runs it, or the shutdown, does too.
KillCompletes == (kpc = "stop") ~> (kpc = "done")

\* "disconnect so the DLL's reader sees end-of-track": when the child has
\* ended, a DLL that is connected is told so (or has gone by itself).
EndOfTrackSeen ==
    \A p \in Proxy : (child = "gone" /\ dest[p] = "connected") ~> (dest[p] # "connected")

\* Why these hold: what kill() has done by each of its steps, and what the
\* proxy's last steps rest on.
StopsGiven ==
    /\ kpc = "stop" => \A p \in Proxy \ todo : stop[p]
    /\ kpc \in {"reap", "unblock", "join", "close", "done"} => \A p \in Proxy : stop[p]
Joined ==
    /\ kpc = "join" => \A p \in Proxy \ todo : ppc[p] = "exited"
    /\ kpc \in {"close", "done"} => \A p \in Proxy : ppc[p] = "exited"
ClosedLast == \A p \in Proxy : dest[p] = "closed" => kpc \in {"close", "done"}
OnlyConnectedHoldsBytes ==
    \A p \in Proxy : dest[p] \notin {"connected", "dropped"} => ~unread[p]
Flushed == \A p \in Proxy :
               ppc[p] = "disconnect" /\ ~stop[p] /\ dest[p] = "connected" => ~unread[p]

TeardownInv == /\ TypeOK
               /\ StopsGiven
               /\ Joined
               /\ ClosedLast
               /\ OnlyConnectedHoldsBytes
               /\ Flushed
=============================================================================
