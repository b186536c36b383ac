---------------------------- MODULE MCPadHotkeys ----------------------------
(* Three commands on two buttons: one each, and one on both together.       *)
EXTENDS PadHotkeys

CONSTANTS playpause, skip, previous, a, b

MCOrder == <<playpause, skip, previous>>
MCBind == (playpause :> {a}) @@ (skip :> {b}) @@ (previous :> {a, b})
=============================================================================
