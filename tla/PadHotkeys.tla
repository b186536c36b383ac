------------------------------ MODULE PadHotkeys ------------------------------
(***************************************************************************)
(* The hotkeys of ControlLoop::run_playback_state_machines                  *)
(* (src/src/fmod/dsp_control_loop.cpp): which command a tick triggers from  *)
(* the controller buttons and the keys it samples.  A command may be bound *)
(* to several buttons; such a combo is to win over its parts, so a single  *)
(* button waits for HoldTicks ticks.  A key triggers at once.              *)
(***************************************************************************)
EXTENDS Naturals, FiniteSets, Sequences, SequencesExt

CONSTANTS
    Pad,         \* controller buttons
    Order,       \* the commands, in the order of the else-if chain
    Bind,        \* [command -> SUBSET Pad], {} when unbound
    HoldTicks    \* ticks a single button has to be held (3)

Command == ToSet(Order)
ASSUME BindAssumption == Bind \in [Command -> SUBSET Pad]
ASSUME HoldAssumption == HoldTicks \in Nat \ {0}
ASSUME OrderAssumption == Order \in Seq(Command) /\ IsFiniteSet(Pad)

VARIABLES
    prev,        \* prev_*_hotkey_: the commands pressed at the last tick
    pending,     \* pending_*_
    wait,        \* combo_wait_ticks_, Spent for its negative value
    byPad,       \* the commands this tick triggers from the controller
    byKey,       \* ... and from the keyboard
    pads,        \* history: the buttons at this tick
    held,        \* history: ticks these same buttons are down, no key with them
    fired        \* history: pad commands of this hold, 2 for any more than one

vars == <<prev, pending, wait, byPad, byKey, pads, held, fired>>

Spent == HoldTicks + 1
Waits == 0 .. Spent

Init == /\ prev = {} /\ pending = {} /\ wait = 0
        /\ byPad = {} /\ byKey = {}
        /\ pads = {} /\ held = 0 /\ fired = 0

-----------------------------------------------------------------------------
\* check_pad: all the buttons of the binding are down.
Matching(p) == {c \in Command : Bind[c] # {} /\ Bind[c] \subseteq p}
MaxBits(p) == CHOOSE n \in 0 .. Cardinality(Pad) :
                  /\ \A c \in Matching(p) : Cardinality(Bind[c]) <= n
                  /\ n = 0 \/ \E c \in Matching(p) : Cardinality(Bind[c]) = n

\* Only the most complex of the matching bindings count as pressed.
PadPressed(p) == {c \in Matching(p) : Cardinality(Bind[c]) = MaxBits(p)}

\* combo_wait_ticks_ before it is looked at.
Rearms(p) == IF PadPressed(p) = {} \/ wait = Spent THEN 0 ELSE wait + 1
Waited(p) == IF PadPressed(p) = {} THEN 0 ELSE IF wait = Spent THEN Spent ELSE wait + 1

\* A single button was held long enough, or a combo has formed.
OneLate(p) == Waited(p) = HoldTicks + 1
Due(p) == \/ Waited(p) = HoldTicks
          \/ MaxBits(p) > 1 /\ Waited(p) \in 1 .. HoldTicks

\* The buffered commands: new edges of the controller join them, and the
\* release of everything clears them.
Queued(p, k) == IF PadPressed(p) = {} THEN {}
                ELSE pending \cup ((PadPressed(p) \cup k) \ (prev \cup k))

\* The first buffered command, in order, of the complexity that is pressed.
AnyQueued(p, k) ==
    {Order[i] : i \in {j \in DOMAIN Order :
        /\ Order[j] \in Queued(p, k)
        /\ \A l \in 1 .. (j - 1) : Order[l] \notin Queued(p, k)}}
Winner(p, k) ==
    LET ready == {i \in DOMAIN Order : /\ Order[i] \in Queued(p, k)
                                       /\ Cardinality(Bind[Order[i]]) = MaxBits(p)}
    IN {Order[i] : i \in {j \in ready : \A l \in ready : j <= l}}

\* One tick that finds the buttons p down and the keys of the commands k.
Tick(p, k) ==
    /\ byPad' = IF Due(p) THEN Winner(p, k) ELSE {}
    /\ byKey' = k \ prev
    /\ pending' = IF Due(p) THEN {} ELSE Queued(p, k)
    /\ wait' = IF Due(p) THEN Spent ELSE Waited(p)
    /\ prev' = PadPressed(p) \cup k
    /\ pads' = p
    /\ held' = IF k # {} \/ (p # pads /\ PadPressed(pads) # {}) THEN Spent
               ELSE IF PadPressed(p) = {} THEN 0
               ELSE IF held = Spent THEN Spent ELSE held + 1
    /\ LET before == IF PadPressed(p) = {} THEN 0 ELSE fired
           now == before + Cardinality(byPad') IN
       fired' = IF now > 2 THEN 2 ELSE now

Next == \E p \in SUBSET Pad, k \in SUBSET Command : Tick(p, k)
Spec == Init /\ [][Next]_vars

-----------------------------------------------------------------------------
(* Properties                                                              *)

TypeOK ==
    /\ prev \in SUBSET Command /\ pending \in SUBSET Command
    /\ wait \in Waits /\ held \in Waits
    /\ byPad \in SUBSET Command /\ byKey \in SUBSET Command
    /\ pads \in SUBSET Pad
    /\ fired \in 0 .. 2

\* "to prevent firing again until buttons are released": until no command's
\* buttons are down any more, the controller triggers one command at most,
\* however buttons are added, swapped and let go.
OneCommandPerHold == fired <= 1

\* "delay single buttons by 3 ticks": buttons that go down together and stay
\* down, no key with them, have triggered by the third tick, and one of the
\* commands they are bound to.
HoldFires ==
    held = HoldTicks => fired = 1

\* A combo never lets one of its parts through: what the controller triggers
\* is bound to as many buttons as the most complex command they make.
ComboBeatsParts ==
    \A c \in byPad, d \in Command :
        Bind[c] \subseteq Bind[d] /\ Bind[d] \subseteq pads => Bind[d] = Bind[c]

\* Why (proved in PlaybackProofs): a command that was triggered leaves the wait
\* spent until the release ...
OnceSpent == fired > 0 => wait = Spent

\* ... and while the same buttons are down and no key has been, all that was
\* pressed at their first tick is buffered, until one of it is triggered.
Buffered ==
    /\ held = 0 => /\ PadPressed(pads) = {} /\ prev = {} /\ pending = {}
                   /\ wait = 0 /\ fired = 0
    /\ held \in 1 .. HoldTicks =>
           /\ PadPressed(pads) # {} /\ prev = PadPressed(pads)
           /\ \/ fired = 1 /\ wait = Spent
              \/ /\ fired = 0 /\ wait = held /\ held < HoldTicks
                 /\ pending = prev /\ MaxBits(pads) <= 1

PadInv == TypeOK /\ OneCommandPerHold /\ ComboBeatsParts /\ OnceSpent /\ Buffered
=============================================================================
