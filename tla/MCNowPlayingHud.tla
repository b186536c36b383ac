--------------------------- MODULE MCNowPlayingHud ---------------------------
(* A small instance of NowPlayingHud.  An album: nothing known (0) and two    *)
(* tracks with one picture.                                                   *)
EXTENDS NowPlayingHud

Album == [t \in 0 .. 2 |-> IF t = 0 THEN "no_url" ELSE "album"]
=============================================================================
