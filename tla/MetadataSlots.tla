---------------------------- MODULE MetadataSlots ----------------------------
(***************************************************************************)
(* src/src/fmod/metadata_injector.cpp, write_string_slot: the injector       *)
(* overwrites a std::string of the game (16 bytes that are characters or a   *)
(* pointer, a size, a capacity) while the game's HUD may be reading it.     *)
(* Each store of the exchange is a step, and so is each load of the reader,  *)
(* whose order is the game's business.  Only lengths matter here.           *)
(***************************************************************************)
EXTENDS Naturals, Sequences

CONSTANTS
    SsoCap,       \* kSsoCap: a capacity up to it means the characters are inside
    MaxLen,       \* longest text, longer than SsoCap
    Headroom      \* what an allocation adds to the text's length

VARIABLES
    slot,         \* [ptr, size, cap] in the game's memory
    room,         \* capacity of each heap buffer, the newest last
    wpc,          \* the injector: "idle", "size only", "ptr", "size", "cap"
    new,          \* size of the text it is writing
    seen          \* what the reader has loaded so far

svars == <<slot, room, wpc, new, seen>>

Inside == 0       \* no heap buffer: the characters are in the slot
Field == {"ptr", "size", "cap"}
Unread == [f \in {} |-> 0]

Init == /\ \/ \E n \in 0 .. SsoCap :                       \* the game's own text
                /\ slot = [ptr |-> Inside, size |-> n, cap |-> SsoCap] /\ room = <<>>
           \/ \E n \in SsoCap + 1 .. MaxLen :
                /\ slot = [ptr |-> 1, size |-> n, cap |-> n] /\ room = <<n>>
        /\ wpc = "idle" /\ new = 0
        /\ seen = Unread

-----------------------------------------------------------------------------
(* The injector: the control loop is its only writer, so the header it has    *)
(* snapshotted stays true until its own first store.                         *)

OnHeap == slot.cap > SsoCap
Fits(n) == n <= slot.cap

OverwriteInPlace(n) == /\ wpc = "idle" /\ Fits(n)
                       /\ wpc' = "size only" /\ new' = n
                       /\ UNCHANGED <<slot, room, seen>>

\* VirtualAlloc may fail: then nothing has been touched, and update() tries again.
Allocate(n) == /\ wpc = "idle" /\ ~Fits(n)
               /\ room' = Append(room, n + Headroom)
               /\ wpc' = "ptr" /\ new' = n
               /\ UNCHANGED <<slot, seen>>

Store(at, field, value, to) == /\ wpc = at /\ wpc' = to
                               /\ slot' = [slot EXCEPT ![field] = value]
                               /\ UNCHANGED <<room, new, seen>>
StoreSizeOnly == Store("size only", "size", new, "idle")
StorePtr  == Store("ptr", "ptr", Len(room), "size")
StoreSize == Store("size", "size", new, "cap")
StoreCap  == Store("cap", "cap", room[Len(room)], "idle")

Writer == \/ \E n \in 0 .. MaxLen : OverwriteInPlace(n) \/ Allocate(n)
          \/ StoreSizeOnly \/ StorePtr \/ StoreSize \/ StoreCap

-----------------------------------------------------------------------------
(* The HUD                                                                  *)

Load(f) == /\ f \notin DOMAIN seen
           /\ seen' = [g \in DOMAIN seen \cup {f} |-> IF g = f THEN slot[f] ELSE seen[g]]
           /\ UNCHANGED <<slot, room, wpc, new>>
Draw == DOMAIN seen = Field /\ seen' = Unread /\ UNCHANGED <<slot, room, wpc, new>>

Next == Writer \/ (\E f \in Field : Load(f)) \/ Draw
Spec == Init /\ [][Next]_svars

\* A reader that takes the size first, of a slot that is on the heap already
HeapSpec == /\ Init /\ OnHeap
            /\ [][Next /\ (DOMAIN seen = {} => DOMAIN seen' \subseteq {"size"})]_svars

-----------------------------------------------------------------------------
(* Properties                                                              *)

TypeOK == /\ slot.ptr \in 0 .. Len(room)
          /\ wpc \in {"idle", "size only", "ptr", "size", "cap"}
          /\ DOMAIN seen \subseteq Field

\* "A racing reader picks up either the old (still-valid) buffer or the new one;
\* never a mismatched (ptr, size, cap) trio that points past the end."
ReaderInBounds ==
    DOMAIN seen = Field =>
        IF seen.cap > SsoCap THEN seen.ptr # Inside /\ seen.size <= room[seen.ptr]
                             ELSE seen.size <= SsoCap
=============================================================================
