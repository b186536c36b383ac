------------------------------ MODULE WorkerIpc ------------------------------
(***************************************************************************)
(* The control protocol between the DLL and fh6-radio-worker.exe           *)
(* (src/src/worker/worker_client.cpp and worker_main.cpp): a request is one *)
(* connection to the control pipe, served by a thread of its own.  For     *)
(* each track the DLL spawns a pipeline, attaches to its streams, and at   *)
(* some point sends a kill it does not wait for.  The worker ends on a     *)
(* shutdown request, when the game dies, or when stop() loses patience.    *)
(*                                                                         *)
(* Destroying a Pipeline is one step here: PipelineTeardown has its inside. *)
(* The requests "run" and "download" touch no pipeline and are left out.   *)
(* A client that finds every instance busy waits for one; that it gives up *)
(* after 50 waits is left out too.  So is a second thread in               *)
(* shutdown_and_exit (a request and the game's death): it finds a map the  *)
(* first has cleared, and could only reap what registered since.           *)
(***************************************************************************)
EXTENDS Naturals, FiniteSets

CONSTANTS
    Track,       \* pipeline ids (next_id_ never hands one out twice)
    JobsReap     \* whether closing a job object kills its processes
ASSUME JobsReapAssumption == JobsReap \in BOOLEAN

VARIABLES
    lpc,         \* main()'s accept loop: "create", "call" or "parked" in ConnectNamedPipe
    door,        \* the instance that loop holds: "none", "listening" or "taken"
    req,         \* [Op -> [Track -> where that request is]]
    cpc,         \* [Track -> program counter of the DLL thread that owns the track]
    procs,       \* tracks whose child processes run
    registered,  \* g_pipelines
    worker,      \* "up"; in shutdown_and_exit: "closing" (holds g_mu), then "unlocked"
                 \* (has released it, is about to exit); "exited"; "terminated"
    answered     \* history: tracks whose spawn was answered when shutdown took g_mu

vars == <<lpc, door, req, cpc, procs, registered, worker, answered>>

Op == {"spawn", "kill"}
ReqState == {"none", "door", "lost", "recv", "work", "started", "reaping",
             "answered", "refused", "done"}
ClientPC == {"idle", "spawnOpen", "spawnSend", "spawnRecv", "attach", "live",
             "killOpen", "killSend", "killClose", "over"}

Init == /\ lpc = "create"
        /\ door = "none"
        /\ req = [op \in Op |-> [t \in Track |-> "none"]]
        /\ cpc = [t \in Track |-> "idle"]
        /\ procs = {}
        /\ registered = {}
        /\ worker = "up"
        /\ answered = {}

Running == worker \in {"up", "closing", "unlocked"}

\* g_mu is free: a pending spawn or kill gets it as soon as shutdown lets go.
MutexFree == worker \in {"up", "unlocked"}

\* Instances of the control pipe that exist.
Instances == door # "none" \/ \E op \in Op, t \in Track :
                 req[op][t] \in {"recv", "work", "started", "reaping", "answered", "refused"}

\* What the client of a request has done with its end.
Sent(op, t) == IF op = "spawn" THEN cpc[t] \notin {"idle", "spawnOpen", "spawnSend"}
                               ELSE cpc[t] \in {"killClose", "over"}
Left(op, t) == IF op = "spawn" THEN cpc[t] \notin {"spawnOpen", "spawnSend", "spawnRecv"}
                               ELSE cpc[t] = "over"

-----------------------------------------------------------------------------
(* WorkerClient                                                            *)

ClientGoto(t, pc) == cpc' = [cpc EXCEPT ![t] = pc]
WorkerSame == UNCHANGED <<lpc, procs, registered, worker, answered>>

\* spawn_pipeline takes an id and builds the request.
BeginSpawn(t) ==
    /\ cpc[t] = "idle"
    /\ ClientGoto(t, "spawnOpen")
    /\ WorkerSame /\ UNCHANGED <<door, req>>

\* request(): CreateFile on the control pipe ...
Open(op, t, from, to) ==
    /\ cpc[t] = from
    /\ Running /\ door = "listening"
    /\ door' = "taken"
    /\ req' = [req EXCEPT ![op][t] = "door"]
    /\ ClientGoto(t, to)
    /\ WorkerSame

\* ... gives up at once when the error is not PIPE_BUSY: there is no instance.
OpenFails(t, from) ==
    /\ cpc[t] = from
    /\ ~Running \/ ~Instances
    /\ ClientGoto(t, "over")
    /\ WorkerSame /\ UNCHANGED <<door, req>>

OpenSpawn(t) == Open("spawn", t, "spawnOpen", "spawnSend") \/ OpenFails(t, "spawnOpen")
OpenKill(t) == Open("kill", t, "killOpen", "killSend") \/ OpenFails(t, "killOpen")

\* ipc_send
Send(t, from, to) ==
    /\ cpc[t] = from
    /\ ClientGoto(t, to)
    /\ WorkerSame /\ UNCHANGED <<door, req>>
SendSpawn(t) == Send(t, "spawnSend", "spawnRecv")
SendKill(t) == Send(t, "killSend", "killClose")

\* ipc_recv: a reply, good or bad, or a broken pipe; only a good one goes on.
RecvSpawn(t) ==
    /\ cpc[t] = "spawnRecv"
    /\ \/ req["spawn"][t] = "answered" /\ ClientGoto(t, "attach")
       \/ (req["spawn"][t] = "refused" \/ ~Running) /\ ClientGoto(t, "over")
    /\ WorkerSame /\ UNCHANGED <<door, req>>

\* connect_to_stream(pcm_pipe) works, or spawn_pipeline kills what it spawned.
Attach(t) ==
    /\ cpc[t] = "attach"
    /\ ClientGoto(t, "live") \/ ClientGoto(t, "killOpen")
    /\ WorkerSame /\ UNCHANGED <<door, req>>

\* ~Pipe: the track ends, is skipped or stopped.
BeginKill(t) ==
    /\ cpc[t] = "live"
    /\ ClientGoto(t, "killOpen")
    /\ WorkerSame /\ UNCHANGED <<door, req>>

\* kill_pipeline wants no response: it closes at once.
CloseKill(t) ==
    /\ cpc[t] = "killClose"
    /\ ClientGoto(t, "over")
    /\ WorkerSame /\ UNCHANGED <<door, req>>

Client(t) == \/ BeginSpawn(t) \/ OpenSpawn(t) \/ SendSpawn(t) \/ RecvSpawn(t)
             \/ Attach(t) \/ BeginKill(t) \/ OpenKill(t) \/ SendKill(t) \/ CloseKill(t)

-----------------------------------------------------------------------------
(* main(): the accept loop                                                 *)

AcceptSame == UNCHANGED <<cpc, procs, registered, worker, answered>>

\* CreateNamedPipe
AcceptCreate ==
    /\ Running /\ lpc = "create"
    /\ door' = "listening"
    /\ lpc' = "call"
    /\ AcceptSame /\ UNCHANGED req

\* The connected instance goes to a thread; the loop makes the next one.
HandOver(op, t, where) ==
    /\ req[op][t] = "door"
    /\ req' = [req EXCEPT ![op][t] = where]
    /\ door' = "none"
    /\ lpc' = "create"

\* ConnectNamedPipe waits for a client, finds one (ERROR_PIPE_CONNECTED), or
\* finds that one has come and gone (ERROR_NO_DATA: CloseHandle, continue).
AcceptCall ==
    /\ Running /\ lpc = "call"
    /\ \/ door = "listening" /\ lpc' = "parked" /\ UNCHANGED <<door, req>>
       \/ \E op \in Op, t \in Track :
              HandOver(op, t, IF Left(op, t) THEN "lost" ELSE "recv")
    /\ AcceptSame

NeverWakes == FALSE
AcceptWake ==
    /\ Running /\ lpc = "parked"
    /\ \E op \in Op, t \in Track : HandOver(op, t, "recv")
    /\ AcceptSame

Accept == AcceptCreate \/ AcceptCall \/ AcceptWake

-----------------------------------------------------------------------------
(* serve_connection                                                        *)

Handle(op, t, from, to) ==
    /\ Running
    /\ req[op][t] = from
    /\ req' = [req EXCEPT ![op][t] = to]
    /\ UNCHANGED <<lpc, door, cpc, worker, answered>>

\* ipc_recv
Receive(op, t) ==
    /\ Handle(op, t, "recv", "work")
    /\ Sent(op, t)
    /\ UNCHANGED <<procs, registered>>

\* handle_spawn: children, pipes and proxies, owned by a local unique_ptr ...
SpawnChildren(t) ==
    /\ Handle("spawn", t, "work", "started")
    /\ procs' = procs \cup {t}
    /\ UNCHANGED registered

\* ... any step of which may fail, a pipe after the children are up for one,
\* and then the unique_ptr destroys what there is.
SpawnFails(t) ==
    /\ \/ Handle("spawn", t, "work", "refused")
       \/ Handle("spawn", t, "started", "refused")
    /\ procs' = procs \ {t}
    /\ UNCHANGED registered

\* ... and only then, under g_mu, made known; the reply follows.
ForgetToRegister(t) ==
    /\ Handle("spawn", t, "started", "answered")
    /\ MutexFree
    /\ UNCHANGED <<registered, procs>>
Register(t) ==
    /\ Handle("spawn", t, "started", "answered")
    /\ MutexFree
    /\ registered' = registered \cup {t}
    /\ UNCHANGED procs

\* handle_kill: take the pipeline out of the map under g_mu ...
KillTake(t) ==
    /\ Handle("kill", t, "work", IF t \in registered THEN "reaping" ELSE "answered")
    /\ MutexFree
    /\ registered' = registered \ {t}
    /\ UNCHANGED procs

\* ... and destroy it outside the lock.
KillDestroy(t) ==
    /\ Handle("kill", t, "reaping", "answered")
    /\ procs' = procs \ {t}
    /\ UNCHANGED registered

\* FlushFileBuffers waits for the client to read the reply; then close.
Finish(op, t) ==
    /\ Handle(op, t, "answered", "done") \/ Handle(op, t, "refused", "done")
    /\ Left(op, t)
    /\ UNCHANGED <<procs, registered>>

Serve(t) == \/ \E op \in Op : Receive(op, t) \/ Finish(op, t)
            \/ SpawnChildren(t) \/ SpawnFails(t) \/ Register(t)
            \/ KillTake(t) \/ KillDestroy(t)

-----------------------------------------------------------------------------
(* shutdown_and_exit, and WorkerClient::stop's TerminateProcess            *)

ShutdownSame == UNCHANGED <<lpc, door, req, cpc>>

ShutdownBegin ==
    /\ worker = "up"
    /\ worker' = "closing"
    /\ answered' = {t \in Track : req["spawn"][t] \in {"answered", "done"}}
    /\ ShutdownSame /\ UNCHANGED <<procs, registered>>

\* g_pipelines.clear() destroys the pipelines one after the other
SkipReap(t) ==
    /\ worker = "closing" /\ t \in registered
    /\ registered' = registered \ {t}
    /\ ShutdownSame /\ UNCHANGED <<procs, worker, answered>>
ShutdownReap(t) ==
    /\ worker = "closing" /\ t \in registered
    /\ registered' = registered \ {t}
    /\ procs' = procs \ {t}
    /\ ShutdownSame /\ UNCHANGED <<worker, answered>>

\* The scope of the lock ends before ExitProcess is called.
ShutdownUnlock ==
    /\ worker = "closing" /\ registered = {}
    /\ worker' = "unlocked"
    /\ ShutdownSame /\ UNCHANGED <<procs, registered, answered>>

\* The end of the process closes the job handles it still has.
JobsClose == procs' = IF JobsReap THEN {} ELSE procs

ShutdownExit ==
    /\ worker = "unlocked"
    /\ worker' = "exited"
    /\ JobsClose
    /\ ShutdownSame /\ UNCHANGED <<registered, answered>>

\* stop() waits 3 s for the worker to end and then terminates it.
StopTimesOut ==
    /\ worker \in {"closing", "unlocked"}
    /\ worker' = "terminated"
    /\ JobsClose
    /\ ShutdownSame /\ UNCHANGED <<registered, answered>>

Shutdown == (\E t \in Track : ShutdownReap(t)) \/ ShutdownUnlock \/ ShutdownExit

-----------------------------------------------------------------------------
Next == \/ \E t \in Track : Client(t) \/ Serve(t)
        \/ Accept
        \/ ShutdownBegin \/ Shutdown \/ StopTimesOut

\* The worker's threads get the processor; the DLL may stop anywhere.
Spec == /\ Init /\ [][Next]_vars
        /\ WF_vars(Accept)
        /\ WF_vars(Shutdown)
        /\ \A t \in Track : WF_vars(Serve(t))

-----------------------------------------------------------------------------
(* Properties                                                              *)

TypeOK ==
    /\ lpc \in {"create", "call", "parked"}
    /\ door \in {"none", "listening", "taken"}
    /\ req \in [Op -> [Track -> ReqState]]
    /\ cpc \in [Track -> ClientPC]
    /\ procs \in SUBSET Track
    /\ registered \in SUBSET Track
    /\ worker \in {"up", "closing", "unlocked", "exited", "terminated"}
    /\ answered \in SUBSET Track

\* "terminates children": a kill that was served leaves no process of its
\* track behind, and none appears later.  The spawn had to be in the map
\* before the DLL could know of it.
ServedKillReaps ==
    \A t \in Track : req["kill"][t] \in {"answered", "done"} => t \notin procs

\* "Kill every child tree, then terminate": no track whose spawn was answered
\* before shutdown took g_mu has processes after an orderly exit, even where
\* job objects do not reap, unless a kill was destroying it at that moment.
\* A spawn that was still being served may register after the map is cleared
\* (g_mu is released before ExitProcess) and is not covered: NoOrphans.
ExitReapsAnswered ==
    worker = "exited" =>
        \A t \in procs \cap answered : req["kill"][t] = "reaping"

\* A spawn gets its answer or finds the worker gone: the source thread that
\* holds its audio lock for it does not wait for ever.
SpawnAnswered ==
    \A t \in Track : cpc[t] = "spawnRecv" /\ worker = "up" ~>
        req["spawn"][t] \in {"answered", "refused", "done"} \/ worker # "up"

\* A kill the worker accepted ends its track's processes, or the worker ends.
DeliveredKillReaps ==
    \A t \in Track : cpc[t] = "over" /\ req["kill"][t] \notin {"none", "door", "lost"} ~>
        t \notin procs \/ worker # "up"

\* "the worker reaps on its own": once the DLL is done with a track its
\* processes end.
KilledIsReaped == \A t \in Track : cpc[t] = "over" ~> t \notin procs

\* "so a crash never leaves yt-dlp/ffmpeg orphaned"
NoOrphans == worker = "exited" => procs = {}

\* Why the safety properties hold.
ClientOrder == \A t \in Track :
    /\ cpc[t] \in {"idle", "spawnOpen"} => req["spawn"][t] = "none"
    /\ cpc[t] \in {"attach", "live", "killOpen", "killSend", "killClose"} =>
           req["spawn"][t] \in {"answered", "done"}
    /\ req["kill"][t] # "none" => /\ cpc[t] \in {"killSend", "killClose", "over"}
                                  /\ req["spawn"][t] \in {"answered", "done"}
Owned == \A t \in Track :
    /\ t \in procs => \/ req["spawn"][t] = "started"
                      \/ t \in registered
                      \/ req["kill"][t] = "reaping"
    /\ t \in procs => req["spawn"][t] \in {"started", "answered", "done"}
    /\ t \in registered => req["kill"][t] \notin {"reaping", "answered", "done"}
    /\ req["kill"][t] # "refused"
\* The map loses what was answered before the shutdown, and never gets it back.
Cleared ==
    /\ \A t \in answered : req["spawn"][t] \in {"answered", "done"}
    /\ worker \in {"unlocked", "exited"} => answered \cap registered = {}
IpcInv == TypeOK /\ ClientOrder /\ Owned /\ Cleared
=============================================================================
