----------------------------- MODULE MCLifetimes -----------------------------
(***************************************************************************)
(* The parts whose promise is that something ends.                         *)
(* The modules share no state: each behaviour is one of one part, chosen   *)
(* at the start, with the others at rest in their initial state.           *)
(***************************************************************************)
EXTENDS Keeper, Supervisor, Program

VARIABLE part

allVars == <<keeperVars, supVars, programVars>>

Init ==
    /\ part \in {"keeper", "supervisor", "program"}
    /\ KeeperInit /\ SupervisorInit /\ ProgramInit

KeeperPart ==
    /\ part = "keeper" /\ KeeperNext
    /\ UNCHANGED <<part, supVars, programVars>>

SupervisorPart ==
    /\ part = "supervisor" /\ SupervisorNext
    /\ UNCHANGED <<part, keeperVars, programVars>>

ProgramPart ==
    /\ part = "program" /\ ProgramNext
    /\ UNCHANGED <<part, keeperVars, supVars>>

Next ==
    \/ KeeperPart \/ SupervisorPart \/ ProgramPart

Spec == Init /\ [][Next]_<<part, allVars>>

(* Each part's fairness. The keeper and the supervisor owe no step while   *)
(* they rest in their initial state; the script's thread does, and owes it *)
(* only in its own behaviours.                                             *)
FairSpec ==
    /\ Spec
    /\ KeeperFairness /\ SupervisorFairness
    /\ WF_programVars(part = "program" /\ ThreadSteps)

(* Nothing outlives what it belongs to: a memory pass does not go on next  *)
(* to a turn it could see; a window whose client was not killed talks to   *)
(* the backend it started; a script makes no more host calls than its cap, *)
(* none once its turn was stopped, and its output passes twice the cap by  *)
(* less than one line.                                                     *)
LifetimesKept == TurnStopsPass /\ OwnBackend /\ CapsHold

(* A script's thread ends, also when the script loops, catches its errors  *)
(* or is dropped by the turn that started it.                              *)
ScriptsEnd == part = "program" => ThreadEnds
=============================================================================
