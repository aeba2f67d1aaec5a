------------------------------ MODULE Delivery ------------------------------
(***************************************************************************)
(* What the backend promises about a text a user hands it: it is accepted  *)
(* once, then it either enters the conversation or is dropped, and both    *)
(* are final.  TurnSlot is shown to implement this.                        *)
(***************************************************************************)
CONSTANT Msgs
VARIABLE life

MayBecome ==
    {<<"unsent", "waiting">>, <<"waiting", "ran">>, <<"waiting", "dropped">>}

Init == life = [m \in Msgs |-> "unsent"]

(* One step of the hub may settle several texts: a drain takes them all. *)
Next ==
    \E f \in [Msgs -> {"unsent", "waiting", "ran", "dropped"}] :
        /\ \A m \in Msgs : f[m] = life[m] \/ <<life[m], f[m]>> \in MayBecome
        /\ life' = f

Spec == Init /\ [][Next]_life
=============================================================================
