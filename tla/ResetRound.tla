------------------------------- MODULE ResetRound -------------------------------
(* What a reset of the frame engine (SER, "system error recovery") promises to  *)
(* the rest of the system: traffic is announced to stop, the engine is reset    *)
(* once, traffic is announced to resume, and the next round starts only then.   *)
(* A Wi-Fi chip that is present at the announcement is held until the round     *)
(* ends; chips come and go, but not while the engine is being reset.            *)
EXTENDS FiniteSets

CONSTANT Chips

VARIABLES phase,    \* "traffic", "announced" or "reset"
          present,  \* the chips that are on line
          held      \* the chips that were told to stop and not yet to go on

vars == <<phase, present, held>>

Init == phase = "traffic" /\ present \subseteq Chips /\ held = {}

Announce ==
  /\ phase \in {"traffic", "announced"}
  /\ phase' = "announced" /\ held' = present /\ UNCHANGED present

Reset == phase = "announced" /\ phase' = "reset" /\ UNCHANGED <<present, held>>

Resume == phase = "reset" /\ phase' = "traffic" /\ held' = {} /\ UNCHANGED present

Arrive(c) ==
  /\ phase # "reset" /\ c \notin present
  /\ present' = present \cup {c} /\ UNCHANGED <<phase, held>>

Depart(c) ==
  /\ phase # "reset" /\ c \in present
  /\ present' = present \ {c} /\ held' = held \ {c} /\ UNCHANGED phase

Next == Announce \/ Reset \/ Resume \/ \E c \in Chips : Arrive(c) \/ Depart(c)

Safe == Init /\ [][Next]_vars

(* A round that was announced ends: see EthReset for the fairness behind it.    *)
Spec == Safe /\ WF_vars(Reset) /\ WF_vars(Resume)
=================================================================================
