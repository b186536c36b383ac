----------------------------- MODULE ArtworkJobs -----------------------------
(***************************************************************************)
(* src/src/fmod/texture_injector.cpp: the artwork jobs.  The control loop   *)
(* starts one detached thread per new artwork; a thread downloads, waits   *)
(* for the size of the texture, converts, and leaves the pixels for the    *)
(* render thread.  There is no lock around the ticket and the flag: a job  *)
(* checks that it is the newest, and acts on it a moment later.  Image     *)
(* contents are the number of the job that made them.                      *)
(***************************************************************************)
EXTENDS Naturals

CONSTANT MaxJob       \* bound on the jobs started
ASSUME MaxJobAssumption == MaxJob \in Nat \ {0}

VARIABLES
    upc,        \* the control loop in update_artwork_url: "idle" or "ticket"
    flag,       \* is_processing_
    latest,     \* latest_job_id_
    pc,         \* [1 .. MaxJob -> program counter of that job's thread]
    height,     \* target_height_: "unknown", "supported" or "unsupported"
    pending,    \* pending_pixels_
    hasNew,     \* has_new_image_
    raced       \* history: the newest ticket was taken while a job stood between
                \* its check and what the check guards

vars == <<upc, flag, latest, pc, height, pending, hasNew, raced>>

Job == 1 .. MaxJob
JobPC == {"none", "born", "download", "source", "load", "height", "convert",
          "check", "publish", "guard", "clear", "ended"}

Init == /\ upc = "idle"
        /\ flag = FALSE
        /\ latest = 0
        /\ pc = [j \in Job |-> "none"]
        /\ height = "unknown"
        /\ pending = 0
        /\ hasNew = FALSE
        /\ raced = FALSE

-----------------------------------------------------------------------------
(* update_artwork_url, on the control thread                               *)

UpdateFlag ==
    /\ upc = "idle" /\ latest < MaxJob
    /\ flag' = TRUE
    /\ upc' = "ticket"
    /\ UNCHANGED <<latest, pc, height, pending, hasNew, raced>>

\* ++latest_job_id_, and the thread starts.  A job that has passed its check is
\* about to act on it, or has taken the flag down that was raised for this one.
UpdateTicket ==
    /\ upc = "ticket"
    /\ latest' = latest + 1
    /\ pc' = [pc EXCEPT ![latest + 1] = "born"]
    /\ upc' = "idle"
    /\ raced' = (~flag \/ \E j \in Job : pc[j] \in {"publish", "clear"})
    /\ UNCHANGED <<flag, height, pending, hasNew>>

-----------------------------------------------------------------------------
(* The job's thread                                                        *)

Goto(j, to) == pc' = [pc EXCEPT ![j] = to]
OnlyPC == UNCHANGED <<upc, flag, latest, height, pending, hasNew, raced>>

\* A step that may fail: every return goes through the guard's destructor.
Try(j, from, to) ==
    /\ pc[j] = from
    /\ Goto(j, to) \/ Goto(j, "guard")
    /\ OnlyPC

\* The same after "if (latest_job_id_ != my_job_id) return".
Unchecked(j, from, to) == Try(j, from, to)
TryIfNewest(j, from, to) ==
    /\ pc[j] = from
    /\ latest = j => Goto(j, to) \/ Goto(j, "guard")
    /\ latest # j => Goto(j, "guard")
    /\ OnlyPC

\* No url or no worker: straight to the default artwork.
Begin(j) == TryIfNewest(j, "born", "download") \/ TryIfNewest(j, "born", "source")

\* A download that fails falls back to the default artwork.
Download(j) == pc[j] = "download" /\ Goto(j, "source") /\ OnlyPC

FindSource(j) == TryIfNewest(j, "source", "load")
Load(j) == TryIfNewest(j, "load", "height")

\* Polls until the render hook has seen the texture, at most 5 s.
AwaitHeight(j) ==
    /\ pc[j] = "height"
    /\ Goto(j, IF height = "supported" THEN "convert" ELSE "guard")
    /\ OnlyPC

Convert(j) == Try(j, "convert", "check")
LastCheck(j) == TryIfNewest(j, "check", "publish")

Publish(j) ==
    /\ pc[j] = "publish"
    /\ Goto(j, "guard")
    /\ \/ pending' = j /\ hasNew' = TRUE
       \/ UNCHANGED <<pending, hasNew>>          \* unreadable DDS file
    /\ UNCHANGED <<upc, flag, latest, height, raced>>

\* ~ProcessingGuard: if (latest == mine) ...
ClearsAnyway(j) == pc[j] = "guard" /\ Goto(j, "clear") /\ OnlyPC
GuardCheck(j) ==
    /\ pc[j] = "guard"
    /\ Goto(j, IF latest = j THEN "clear" ELSE "ended")
    /\ OnlyPC

\* ... flag.store(false)
GuardClear(j) ==
    /\ pc[j] = "clear"
    /\ flag' = FALSE
    /\ Goto(j, "ended")
    /\ UNCHANGED <<upc, latest, height, pending, hasNew, raced>>

JobStep(j) == \/ Begin(j) \/ Download(j) \/ FindSource(j) \/ Load(j) \/ AwaitHeight(j)
              \/ Convert(j) \/ LastCheck(j) \/ Publish(j) \/ GuardCheck(j) \/ GuardClear(j)

-----------------------------------------------------------------------------
(* The render thread                                                       *)

\* set_target_height, from the hook that sees the textures being made
SetTargetHeight ==
    /\ height' \in {"supported", "unsupported"}
    /\ UNCHANGED <<upc, flag, latest, pc, pending, hasNew, raced>>

PopPendingPixels ==
    /\ hasNew
    /\ hasNew' = FALSE
    /\ UNCHANGED <<upc, flag, latest, pc, height, pending, raced>>

-----------------------------------------------------------------------------
Next == \/ UpdateFlag \/ UpdateTicket
        \/ \E j \in Job : JobStep(j)
        \/ SetTargetHeight \/ PopPendingPixels

\* Every wait of a job has a limit, and the control loop does not stop inside
\* update_artwork_url.
Spec == /\ Init /\ [][Next]_vars
        /\ WF_vars(UpdateTicket)
        /\ \A j \in Job : WF_vars(JobStep(j))

-----------------------------------------------------------------------------
(* Properties                                                              *)

TypeOK ==
    /\ upc \in {"idle", "ticket"}
    /\ flag \in BOOLEAN
    /\ latest \in 0 .. MaxJob
    /\ pc \in [Job -> JobPC]
    /\ height \in {"unknown", "supported", "unsupported"}
    /\ pending \in 0 .. MaxJob
    /\ {hasNew, raced} \subseteq BOOLEAN

\* "lets the control loop know if currently building a new texture": while the
\* newest job runs the flag is up, so the new title waits for its artwork.
FlagNeverEarly == upc = "idle" /\ latest > 0 => flag \/ pc[latest] = "ended"

\* "don't push pixels if stale": an older artwork never replaces a newer one.
NeverStale == [][pending' >= pending]_vars

\* The code keeps neither (ArtworkJobs_early_clear.cfg, ArtworkJobs_stale.cfg): a
\* job's check and its act are two steps.  What it keeps is that a race harms the
\* artwork whose ticket was taken in it, and no later one: jobs that are overtaken
\* anywhere else, in any number and at any speed, leave the newest one's flag alone ...
FlagCoversNewest == raced \/ FlagNeverEarly

\* ... and never put an older artwork in a newer one's place.
NewestWins == [][pending' < pending => raced]_vars

\* Why the two hold (proved in NowPlayingHudProofs).
JobsInv ==
    /\ TypeOK
    /\ pending <= latest
    /\ \A j \in Job : j > latest => pc[j] = "none"
    /\ \A j \in Job : pc[j] \in {"publish", "clear"} => j = latest \/ raced
    /\ FlagCoversNewest
    /\ upc = "ticket" => latest < MaxJob
=============================================================================
