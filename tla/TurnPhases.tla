----------------------------- MODULE TurnPhases -----------------------------
(***************************************************************************)
(* A turn as module TurnSlot sees it: it goes from the top of a hop to a   *)
(* request and back until it leaves the loop, and it leaves it.  TurnLoop, *)
(* which counts what a turn may spend, is shown to implement this, the     *)
(* strong fairness of HopLast included.                                    *)
(***************************************************************************)
VARIABLE phase

Init == phase = "idle"

Begin == phase = "idle" /\ phase' = "top"
HopTop == phase = "top" /\ phase' \in {"calling", "ending"}
HopAgain == phase = "calling" /\ phase' = "top"
HopLast == phase = "calling" /\ phase' = "ending"
Decide == phase = "ending" /\ phase' \in {"idle", "top"}

Next == Begin \/ HopTop \/ HopAgain \/ HopLast \/ Decide

Spec ==
    /\ Init
    /\ [][Next]_phase
    /\ WF_phase(HopTop)
    /\ WF_phase(HopAgain \/ HopLast)
    /\ SF_phase(HopLast)
    /\ WF_phase(Decide)
=============================================================================
