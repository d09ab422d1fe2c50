------------------------------- MODULE TopsFreeze -------------------------------
(* What the TOPS state machine promises the thread that writes the tunnel table: *)
(* it is let in only while the cores are in service, and as long as it is inside *)
(* the machine neither stops nor starts the network.                             *)
VARIABLE phase   \* "down", "up" or "frozen"

Init == phase = "down"

From(old, new) == phase = old /\ phase' = new

ComeUp == From("down", "up")
GoDown == From("up", "down")
Freeze == From("up", "frozen")
Thaw == From("frozen", "up")

Next == ComeUp \/ GoDown \/ Freeze \/ Thaw

Spec == Init /\ [][Next]_phase
=================================================================================
