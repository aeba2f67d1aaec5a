----------------------------- MODULE HubProofs ------------------------------
(***************************************************************************)
(* Proofs about the parts of the hub that MCHub collects, each for every   *)
(* value of its constants: a goal, the settings, the schedules, the        *)
(* connection, the investigator and the long-term memory.                  *)
(***************************************************************************)
EXTENDS MCHub, FiniteSetTheorems, WellFoundedInduction, SequenceTheorems, TLAPS

-----------------------------------------------------------------------------
(* Goals. *)

(* What a goal and the places that hold a copy of it range over. *)
GoalPhases == {"none", "active", "paused", "completed", "blocked"}
GoalSet == [id : Nat, rev : Nat, text : Texts \cup {"none"}, phase : GoalPhases, rounds : Nat]
GoalSteps == {"idle", "log", "emit", "mem", "resumed", "spawn"}
InsidePut == {"log", "emit", "mem"}

(* Types. *)
GoalTyped ==
    /\ goal \in GoalSet /\ goalRow \in GoalSet /\ goalShown \in GoalSet
    /\ armed \in BOOLEAN /\ cancelled \in BOOLEAN /\ overlap \in BOOLEAN /\ wanted \in BOOLEAN /\ overruled \in BOOLEAN
    /\ busy \in {"none", "human", "machine", "nextHuman", "nextMachine"}
    /\ writer \in [GoalActors -> [at : GoalSteps, goal : GoalSet, then : {"idle", "resumed", "spawn"}]]
    /\ opened \in Nat

(* An actor holds a goal exactly inside put_goal; the turn task acts only  *)
(* while it is in the slot; a round the command opens finds it free until  *)
(* it is spawned.                                                          *)
GoalActorsFit ==
    /\ \A a \in GoalActors : writer[a].at \in InsidePut <=> writer[a].goal # NoGoal
    /\ \A a \in GoalActors : writer[a].at \notin InsidePut => writer[a].then = "idle"
    /\ busy = "none" => writer["turn"].at = "idle"
    /\ writer["user"].at = "spawn" \/ writer["user"].then = "spawn" => busy = "none"

(* The goal as it will stand once the actor inside put_goal is through. *)
GoalToBe ==
    IF writer["user"].at \in InsidePut THEN writer["user"].goal
    ELSE IF writer["turn"].at \in InsidePut THEN writer["turn"].goal ELSE goal

(* With at most one actor inside put_goal, the copies it has passed hold   *)
(* the new goal and the others the old one.                                *)
GoalCopiesInStep ==
    /\ ~(writer["user"].at \in InsidePut /\ writer["turn"].at \in InsidePut)
    /\ \A a \in GoalActors : writer[a].at = "log" => goalRow = goal /\ goalShown = goal
    /\ \A a \in GoalActors : writer[a].at = "emit" => goalRow = writer[a].goal /\ goalShown = goal
    /\ \A a \in GoalActors : writer[a].at = "mem" => goalRow = writer[a].goal /\ goalShown = writer[a].goal
    /\ (\A a \in GoalActors : writer[a].at \notin InsidePut) => goalRow = goal /\ goalShown = goal

(* A round that is still to be spawned is already counted: in the goal, or *)
(* in the goal about to be stored.                                         *)
GoalRoundsCounted ==
    /\ opened <= goal.rounds
    /\ \A a \in GoalActors : writer[a].at = "spawn" => opened + 1 <= goal.rounds
    /\ \A a \in GoalActors : writer[a].at \in InsidePut /\ writer[a].goal.id = goal.id =>
          writer[a].goal.rounds >= goal.rounds + (IF writer[a].then = "spawn" THEN 1 ELSE 0)
    /\ \A a \in GoalActors : writer[a].at \in InsidePut /\ writer[a].goal.id # goal.id =>
          a = "turn" /\ writer[a].then = "idle"

(* What the person asked for is armed or used up, or the end of a turn     *)
(* stopped before they asked has disarmed it.                              *)
GoalWantedArmed ==
    wanted => GoalToBe.phase = "active" /\ (armed \/ overruled \/ GoalToBe.rounds >= GoalRounds)

(* The inductive invariant. *)
GoalInv ==
    /\ GoalTyped /\ GoalActorsFit
    /\ ~overlap => GoalCopiesInStep /\ GoalRoundsCounted /\ GoalWantedArmed

(* A session starts with no goal. *)
LEMMA GoalInitially == GoalInit => GoalInv
<1> SUFFICES ASSUME GoalInit PROVE GoalInv
  OBVIOUS
<1> USE GoalAssumption DEF GoalInit, NoGoal, NoWriter, InsidePut, GoalActors
<1>1. GoalTyped
  BY DEF GoalTyped, GoalSet, GoalSteps, GoalPhases
<1>2. GoalActorsFit /\ GoalCopiesInStep /\ GoalRoundsCounted
  BY DEF GoalActorsFit, GoalCopiesInStep, GoalRoundsCounted
<1>3. GoalWantedArmed
  BY DEF GoalWantedArmed
<1>4. QED
  BY <1>1, <1>2, <1>3 DEF GoalInv

(* put_goal, step by step: the row, the event, the copy in memory. *)
LEMMA GoalPutLog == ASSUME GoalInv, NEW a \in GoalActors, PutLog(a) PROVE GoalInv'
<1> USE GoalAssumption DEF GoalInv, InsidePut, GoalActors, GoalSteps, GoalTyped, PutLog, slotOf, wish
<1>1. GoalTyped'
  OBVIOUS
<1>2. GoalActorsFit'
  BY DEF GoalActorsFit
<1>3. ~overlap' => GoalCopiesInStep' /\ GoalRoundsCounted' /\ GoalWantedArmed'
  BY DEF GoalActorsFit, GoalCopiesInStep, GoalRoundsCounted, GoalWantedArmed, GoalToBe
<1>4. QED
  BY <1>1, <1>2, <1>3

LEMMA GoalPutEmit == ASSUME GoalInv, NEW a \in GoalActors, PutEmit(a) PROVE GoalInv'
<1> USE GoalAssumption DEF GoalInv, InsidePut, GoalActors, GoalSteps, GoalTyped, PutEmit, slotOf, wish
<1>1. GoalTyped'
  OBVIOUS
<1>2. GoalActorsFit'
  BY DEF GoalActorsFit
<1>3. ~overlap' => GoalCopiesInStep' /\ GoalRoundsCounted' /\ GoalWantedArmed'
  BY DEF GoalActorsFit, GoalCopiesInStep, GoalRoundsCounted, GoalWantedArmed, GoalToBe, RoundsLeft, GoalSet
<1>4. QED
  BY <1>1, <1>2, <1>3

LEMMA GoalPutMem == ASSUME GoalInv, NEW a \in GoalActors, PutMem(a) PROVE GoalInv'
<1> USE GoalAssumption DEF GoalInv, InsidePut, GoalActors, GoalSteps, GoalTyped, PutMem, slotOf, wish
<1>0. NoGoal \in GoalSet
  BY DEF NoGoal, GoalSet, GoalPhases
<1> DEFINE left == [at |-> writer[a].then, goal |-> NoGoal, then |-> "idle"]
<1>e. left = [NoWriter EXCEPT !.at = writer[a].then]
  BY DEF NoWriter
<1>w. writer' = [writer EXCEPT ![a] = left]
  BY <1>e
<1>1. GoalTyped'
  BY <1>0, <1>w
<1>2. GoalActorsFit'
  BY <1>w DEF GoalActorsFit
<1>3. ~overlap' => GoalCopiesInStep' /\ GoalWantedArmed'
  BY <1>w DEF GoalActorsFit, GoalCopiesInStep, GoalWantedArmed, GoalToBe
<1>4. ~overlap' => GoalRoundsCounted'
  BY <1>w DEF GoalActorsFit, GoalCopiesInStep, GoalRoundsCounted, GoalSet
<1>5. QED
  BY <1>1, <1>2, <1>3, <1>4

(* A round that was counted starts its turn. *)
LEMMA GoalSpawn == ASSUME GoalInv, NEW a \in GoalActors, SpawnRound(a) PROVE GoalInv'
<1> USE GoalAssumption DEF GoalInv, InsidePut, GoalActors, GoalSteps, GoalTyped, SpawnRound, copies, wish
<1>0. NoGoal \in GoalSet
  BY DEF NoGoal, GoalSet, GoalPhases
<1>w. writer' = [writer EXCEPT ![a] = [at |-> "idle", goal |-> NoGoal, then |-> "idle"]]
  BY DEF NoWriter
<1>1. GoalTyped'
  <2> DEFINE W == [at : GoalSteps, goal : GoalSet, then : {"idle", "resumed", "spawn"}]
  <2>1. [at |-> "idle", goal |-> NoGoal, then |-> "idle"] \in W
    BY <1>0
  <2>2. writer' \in [GoalActors -> W]
    BY <1>w, <2>1
  <2>3. opened' \in Nat
    OBVIOUS
  <2>4. QED
    BY <2>2, <2>3
<1>2. GoalActorsFit'
  BY <1>w DEF GoalActorsFit
<1>3. ~overlap' => GoalCopiesInStep' /\ GoalWantedArmed'
  BY <1>w DEF GoalActorsFit, GoalCopiesInStep, GoalWantedArmed, GoalToBe
<1>4. ~overlap' => GoalRoundsCounted'
  BY <1>w DEF GoalActorsFit, GoalCopiesInStep, GoalRoundsCounted, GoalSet
<1>5. QED
  BY <1>1, <1>2, <1>3, <1>4

(* What every way into put_goal has to bring along. *)
LEMMA GoalPuts ==
    ASSUME GoalInv, NEW a \in GoalActors, NEW g \in GoalSet, NEW then \in {"idle", "resumed", "spawn"},
           Put(a, g, then), UNCHANGED <<copies, slotOf, opened>>,
           g.rev > 0, writer[a].at \notin InsidePut, armed' \in BOOLEAN, wanted' \in BOOLEAN, overruled' \in BOOLEAN,
           a = "turn" => busy # "none",
           a = "user" /\ then = "spawn" => busy = "none",
           g.id = goal.id => g.rounds >= goal.rounds + (IF then = "spawn" THEN 1 ELSE 0),
           g.id # goal.id => a = "turn" /\ then = "idle",
           wanted' /\ ~overlap /\ GoalToBe = goal =>
              g.phase = "active" /\ (armed' \/ overruled' \/ g.rounds >= GoalRounds)
    PROVE  GoalInv'
<1> USE GoalAssumption DEF GoalInv, InsidePut, GoalActors, GoalSteps, GoalTyped, copies, slotOf
<1>0. g # NoGoal
  BY DEF NoGoal
<1>w. writer' = [writer EXCEPT ![a] = [at |-> "log", goal |-> g, then |-> then]]
  BY DEF Put
<1>o. overlap' = (overlap \/ writer[Other(a)].at \in InsidePut)
  BY DEF Put, Other, GoalActorsFit
<1>1. GoalTyped'
  BY <1>0, <1>w, <1>o
<1>2. GoalActorsFit'
  BY <1>0, <1>w DEF GoalActorsFit
<1>3. ~overlap' => GoalToBe = goal /\ writer[Other(a)].at \notin InsidePut
  BY <1>o DEF GoalToBe, Other
<1>4. ~overlap' => GoalCopiesInStep'
  BY <1>w, <1>o, <1>3 DEF GoalActorsFit, GoalCopiesInStep, Other
<1>5. ~overlap' => GoalWantedArmed'
  BY <1>w, <1>o, <1>3 DEF GoalWantedArmed, GoalToBe, Other
<1>6. ~overlap' => GoalRoundsCounted'
  BY <1>w, <1>o, <1>3 DEF GoalRoundsCounted, Other
<1>7. QED
  BY <1>1, <1>2, <1>4, <1>5, <1>6

(* What the actions of goal.rs make of a goal. *)
LEMMA GoalFields ==
    ASSUME NEW g \in GoalSet
    PROVE  /\ g.id \in Nat /\ g.rev \in Nat /\ g.rounds \in Nat /\ g.phase \in GoalPhases
           /\ \A act \in GoalActions : /\ Applied(g, act) \in GoalSet
                                       /\ Applied(g, act).id = g.id /\ Applied(g, act).rounds = g.rounds
                                       /\ Applied(g, act).rev = g.rev + 1 /\ Applied(g, act).phase = PhaseOf(act)
           /\ \A t \in Texts : /\ Edited(g, t) \in GoalSet /\ Edited(g, t).id = g.id
                               /\ Edited(g, t).rounds = g.rounds /\ Edited(g, t).rev = g.rev + 1
                               /\ Edited(g, t).phase = g.phase
           /\ StartRound(g) \in GoalSet /\ StartRound(g).id = g.id /\ StartRound(g).rounds = g.rounds + 1
           /\ StartRound(g).rev = g.rev + 1 /\ StartRound(g).phase = g.phase
           /\ \A t \in Texts : NewGoal(g.id + 1, t) \in GoalSet
<1>1. \A act \in GoalActions : PhaseOf(act) \in GoalPhases
  BY DEF GoalActions, PhaseOf, GoalPhases
<1> USE DEF GoalSet
<1>a. g.id \in Nat /\ g.rev \in Nat /\ g.rounds \in Nat /\ g.phase \in GoalPhases
  OBVIOUS
<1>b. g.rev + 1 \in Nat /\ g.rounds + 1 \in Nat /\ g.id + 1 \in Nat
  BY <1>a
<1>2. ASSUME NEW act \in GoalActions
      PROVE  /\ Applied(g, act) \in GoalSet
             /\ Applied(g, act).id = g.id /\ Applied(g, act).rounds = g.rounds
             /\ Applied(g, act).rev = g.rev + 1 /\ Applied(g, act).phase = PhaseOf(act)
  BY <1>1, <1>2, <1>a, <1>b DEF Applied
<1>3. ASSUME NEW t \in Texts
      PROVE  /\ Edited(g, t) \in GoalSet /\ Edited(g, t).id = g.id
             /\ Edited(g, t).rounds = g.rounds /\ Edited(g, t).rev = g.rev + 1
             /\ Edited(g, t).phase = g.phase
  BY <1>3, <1>a, <1>b DEF Edited
<1>4. /\ StartRound(g) \in GoalSet /\ StartRound(g).id = g.id /\ StartRound(g).rounds = g.rounds + 1
      /\ StartRound(g).rev = g.rev + 1 /\ StartRound(g).phase = g.phase
  BY <1>a, <1>b DEF StartRound
<1>5. ASSUME NEW t \in Texts PROVE NewGoal(g.id + 1, t) \in GoalSet
  BY <1>a, <1>b DEF NewGoal, GoalPhases
<1>6. QED
  BY <1>a, <1>2, <1>3, <1>4, <1>5

(* Edits, new goals, the tool's updates and the round an ending turn       *)
(* starts.                                                                 *)
LEMMA GoalCommands ==
    ASSUME GoalInv,
           \/ \E t \in Texts : CommandEdit(t) \/ CreateGoal(t)
           \/ \E act \in GoalActions : CommandGoal(act)
           \/ \E rev \in 1 .. RevBound, act \in GoalActions : UpdateGoal(rev, act)
           \/ EndWithRound
    PROVE  GoalInv'
<1> USE GoalAssumption DEF Idle, InsidePut, GoalActors, TurnMayAct, Turns, wish
<1>t. GoalTyped /\ goal \in GoalSet /\ (~overlap => GoalWantedArmed)
  BY DEF GoalInv, GoalTyped
<1>g. /\ goal.id \in Nat /\ goal.rounds \in Nat /\ goal.rev \in Nat
      /\ armed \in BOOLEAN /\ wanted \in BOOLEAN /\ overruled \in BOOLEAN /\ cancelled \in BOOLEAN
  BY <1>t, GoalFields DEF GoalTyped
<1>1. ASSUME NEW t \in Texts, CommandEdit(t) PROVE GoalInv'
  BY <1>1, <1>t, <1>g, GoalFields, GoalPuts DEF CommandEdit, GoalWantedArmed
<1>2. ASSUME NEW t \in Texts, CreateGoal(t) PROVE GoalInv'
  <2> DEFINE new == NewGoal(goal.id + 1, t)
  <2>1. new \in GoalSet /\ new.id = goal.id + 1 /\ new.rev = 1 /\ new.phase = "active"
    BY <1>t, GoalFields DEF NewGoal
  <2>2. /\ Put("turn", new, "idle") /\ writer["turn"].at = "idle" /\ busy # "none" /\ UNCHANGED <<copies, slotOf, opened>>
        /\ armed' = TRUE /\ wanted' = ~cancelled /\ overruled' = FALSE
    BY <1>2 DEF CreateGoal
  <2>3. armed' \in BOOLEAN /\ wanted' \in BOOLEAN /\ overruled' \in BOOLEAN
    BY <2>2
  <2> HIDE DEF new
  <2>4. QED
    BY <1>g, <2>1, <2>2, <2>3, GoalPuts
<1>3. ASSUME NEW act \in GoalActions, CommandGoal(act) PROVE GoalInv'
  <2> DEFINE next == Applied(goal, act)
             then == IF RoundsLeft(next) THEN "resumed" ELSE "idle"
  <2>1. /\ next \in GoalSet /\ next.id = goal.id /\ next.rounds = goal.rounds /\ next.rev > 0
    BY <1>t, <1>g, GoalFields
  <2>2. /\ Put("user", next, then) /\ writer["user"].at = "idle" /\ UNCHANGED <<copies, slotOf, opened>>
        /\ armed' = RoundsLeft(next) /\ wanted' = RoundsLeft(next) /\ overruled' = FALSE
    BY <1>3 DEF CommandGoal
  <2>3. RoundsLeft(next) \in BOOLEAN /\ then \in {"idle", "resumed"} /\ (RoundsLeft(next) => next.phase = "active")
    BY DEF RoundsLeft
  <2>4. armed' \in BOOLEAN /\ wanted' \in BOOLEAN /\ overruled' \in BOOLEAN
    BY <2>2, <2>3
  <2>5. wanted' => next.phase = "active" /\ armed'
    BY <2>2, <2>3
  <2> HIDE DEF next, then
  <2>6. QED
    BY <1>g, <2>1, <2>2, <2>3, <2>4, <2>5, GoalPuts
<1>4. ASSUME NEW rev \in 1 .. RevBound, NEW act \in GoalActions, UpdateGoal(rev, act) PROVE GoalInv'
  <2> DEFINE next == Applied(goal, act)
  <2>1. next \in GoalSet /\ next.id = goal.id /\ next.rounds = goal.rounds /\ next.rev > 0 /\ next.phase = PhaseOf(act)
    BY <1>t, <1>g, GoalFields
  <2>2. /\ Put("turn", next, "idle") /\ writer["turn"].at = "idle" /\ busy # "none" /\ UNCHANGED <<copies, slotOf, opened>>
        /\ armed' = (armed /\ PhaseOf(act) = "active") /\ wanted' = (wanted /\ PhaseOf(act) = "active")
        /\ overruled' = overruled
    BY <1>4 DEF UpdateGoal
  <2>3. armed' \in BOOLEAN /\ wanted' \in BOOLEAN /\ overruled' \in BOOLEAN
    BY <1>g, <2>2
  <2>4. wanted' => wanted /\ next.phase = "active" /\ armed' = armed
    BY <1>g, <2>1, <2>2
  <2>5. wanted' /\ ~overlap /\ GoalToBe = goal =>
           next.phase = "active" /\ (armed' \/ overruled' \/ next.rounds >= GoalRounds)
    BY <1>t, <2>1, <2>2, <2>4 DEF GoalWantedArmed
  <2> HIDE DEF next
  <2>6. QED
    BY <1>g, <2>1, <2>2, <2>3, <2>4, <2>5, GoalPuts
<1>5. CASE EndWithRound
  BY <1>5, <1>t, <1>g, GoalFields, GoalPuts DEF EndWithRound, GoalWantedArmed
<1>6. QED
  BY <1>1, <1>2, <1>3, <1>4, <1>5

(* /goal continue, which may find the stopped turn in the slot. *)
LEMMA GoalContinues == ASSUME GoalInv, CommandContinue PROVE GoalInv'
<1> USE GoalAssumption DEF InsidePut, GoalActors, wish
<1>t. GoalTyped /\ goal \in GoalSet /\ (~overlap => GoalWantedArmed)
  BY DEF GoalInv, GoalTyped
<1>1. CASE busy = "none"
  BY <1>1, <1>t, GoalFields, GoalPuts DEF CommandContinue, GoalWantedArmed, GoalTyped
<1>2. CASE busy # "none"
  <2>0. NoGoal \in GoalSet
    BY DEF NoGoal, GoalSet, GoalPhases
  <2>w. /\ writer' = [writer EXCEPT !["user"] = [at |-> "idle", goal |-> NoGoal, then |-> "idle"]]
        /\ writer["user"].at = "resumed" /\ UNCHANGED <<copies, armed, slotOf, opened, wish, overlap>>
    BY <1>2 DEF CommandContinue, NoWriter
  <2>1. GoalTyped'
    BY <1>t, <2>0, <2>w DEF GoalTyped, GoalSteps, copies, slotOf
  <2>2. GoalActorsFit'
    BY <2>w DEF GoalInv, GoalTyped, GoalActorsFit, slotOf
  <2>3. ~overlap' => GoalCopiesInStep' /\ GoalWantedArmed' /\ GoalRoundsCounted'
    BY <2>w DEF GoalInv, GoalTyped, GoalActorsFit, GoalCopiesInStep, GoalWantedArmed, GoalToBe, GoalRoundsCounted, copies, slotOf
  <2>4. QED
    BY <2>1, <2>2, <2>3 DEF GoalInv
<1>3. QED
  BY <1>1, <1>2

(* Turns start, end and are stopped. *)
LEMMA GoalTurns ==
    ASSUME GoalInv,
           \/ HumanTurn \/ StopTurn \/ EndWithFollowup \/ EndWithContinuation \/ StartNext
           \/ EndCancelled \/ EndIdle \/ GoalRestart
    PROVE  GoalInv'
<1> USE GoalAssumption DEF GoalInv, InsidePut, GoalActors, Idle, TurnMayAct, Turns, GoalTyped, GoalActorsFit,
                           copies, slotOf, wish
<1>1. CASE HumanTurn
  BY <1>1 DEF HumanTurn, GoalCopiesInStep, GoalRoundsCounted, GoalWantedArmed, GoalToBe
<1>2. CASE StopTurn
  BY <1>2 DEF StopTurn, GoalCopiesInStep, GoalRoundsCounted, GoalWantedArmed, GoalToBe
<1>3. CASE EndCancelled
  BY <1>3 DEF EndCancelled, GoalCopiesInStep, GoalRoundsCounted, GoalWantedArmed, GoalToBe
<1>4. CASE EndIdle
  BY <1>4 DEF EndIdle, GoalCopiesInStep, GoalRoundsCounted, GoalWantedArmed, GoalToBe
<1>5. CASE GoalRestart
  <2>0. NoGoal \in GoalSet
    BY DEF NoGoal, GoalSet, GoalPhases
  <2>1. GoalTyped'
    BY <1>5, <2>0 DEF GoalRestart, NoWriter, GoalSteps, GoalSet
  <2>2. GoalActorsFit'
    BY <1>5 DEF GoalRestart, NoWriter
  <2>3. GoalCopiesInStep' /\ GoalWantedArmed' /\ GoalRoundsCounted'
    BY <1>5 DEF GoalRestart, NoWriter, GoalCopiesInStep, GoalWantedArmed, GoalToBe, GoalRoundsCounted, GoalSet
  <2>4. QED
    BY <2>1, <2>2, <2>3
<1>6. CASE EndWithFollowup
  BY <1>6 DEF EndWithFollowup, GoalCopiesInStep, GoalRoundsCounted, GoalWantedArmed, GoalToBe
<1>7. CASE EndWithContinuation
  BY <1>7 DEF EndWithContinuation, GoalCopiesInStep, GoalRoundsCounted, GoalWantedArmed, GoalToBe
<1>8. CASE StartNext
  BY <1>8 DEF StartNext, GoalCopiesInStep, GoalRoundsCounted, GoalWantedArmed, GoalToBe
<1>9. QED
  BY <1>1, <1>2, <1>3, <1>4, <1>5, <1>6, <1>7, <1>8

(* Every step keeps the invariant. *)
LEMMA GoalStep == GoalInv /\ [GoalNext]_goalVars => GoalInv'
<1> SUFFICES ASSUME GoalInv, [GoalNext]_goalVars PROVE GoalInv'
  OBVIOUS
<1>1. CASE UNCHANGED goalVars
  BY <1>1 DEF GoalInv, GoalTyped, GoalActorsFit, GoalCopiesInStep, GoalRoundsCounted, GoalWantedArmed, GoalToBe,
     goalVars, copies, slotOf, wish
<1>2. CASE GoalNext
  BY <1>2, GoalPutLog, GoalPutEmit, GoalPutMem, GoalSpawn, GoalCommands, GoalContinues, GoalTurns DEF GoalNext
<1>3. QED
  BY <1>1, <1>2

(* As long as no two writers met inside put_goal, the copies of a goal     *)
(* (log row, event, memory) agree when no write is under way, a goal opens *)
(* no round past its budget, and what the person armed stays armed until   *)
(* it is used up or taken back, or until a turn that was stopped before    *)
(* they said continue ends after it (chat.rs put_goal, command_goal and    *)
(* the end of a turn; goal.rs start_round).                                *)
THEOREM GoalsKept == GoalSpec => [](GoalCopiesAgree /\ RoundsWithinBudget /\ ContinueKept)
<1>1. GoalInv => GoalCopiesAgree
  BY DEF GoalInv, GoalCopiesInStep, GoalCopiesAgree, NobodyWrites, Idle, InsidePut
<1>2. GoalInv => RoundsWithinBudget
  BY DEF GoalInv, GoalRoundsCounted, RoundsWithinBudget
<1>3. GoalInv => ContinueKept
  BY GoalAssumption DEF GoalInv, GoalTyped, GoalSet, GoalWantedArmed, GoalToBe, ContinueKept, NobodyWrites, Idle, InsidePut, GoalActors, RoundsLeft
<1>4. QED
  BY GoalInitially, GoalStep, <1>1, <1>2, <1>3, PTL DEF GoalSpec

-----------------------------------------------------------------------------
(* Settings and titles. *)

(* Every setting has two values. *)
SettingValues == [SettingKeys -> {0, 1}]

(* Types. *)
SettingsTyped ==
    /\ setting \in SettingValues /\ settingRow \in SettingValues /\ cutRow \in SettingValues
    /\ change \in [SettingActors -> [key : SettingKeys \cup {"none"}, value : {0, 1}]]
    /\ \A a \in SettingActors : change[a].key = "none" => change[a] = NoChange
    /\ change["turn"].key \in {"none", "plan", "preset"}
    /\ doubtful \subseteq SettingKeys

(* A setting that is not in doubt is the one on record, or the one the row *)
(* still owed will record.                                                 *)
SettingsFollow ==
    \A k \in SettingKeys \ doubtful :
        /\ \A a \in SettingActors : change[a].key = k => change[a].value = setting[k]
        /\ (\A a \in SettingActors : change[a].key # k) => settingRow[k] = setting[k]

(* The titler asks once, after the first turn; when the title it would     *)
(* replace is a name the person gave before that turn, it is not pinned.   *)
TitleFits ==
    /\ sends \in Nat
    /\ pinned => title = "mine"
    /\ titler = "asking" => sends >= 1 /\ (inTurn => sends # 1)
    /\ titler = "asking" /\ titledBy = "mine" => title = "mine" /\ ~pinned
    /\ inTurn /\ sends = 1 /\ provisional = "mine" => title = "mine" /\ ~pinned

(* The inductive invariant. *)
SettingsInv == SettingsTyped /\ SettingsFollow /\ TitleFits

(* A fresh session has its defaults everywhere. *)
LEMMA SettingsInitially == SettingsInit => SettingsInv
  BY DEF SettingsInit, SettingsInv, SettingsTyped, SettingsFollow, TitleFits, SettingValues, SettingKeys, SettingActors,
         NoChange, Zero

(* The map entry and the row owed: of a setting the other actor owes a row *)
(* for too, the outcome is in doubt.                                       *)
LEMMA ChangesKept ==
    ASSUME SettingsInv, NEW a \in SettingActors, NEW k \in SettingKeys, NEW v \in {0, 1}, Changes(a, k, v),
           a = "turn" => k \in {"plan", "preset"}
    PROVE  SettingsInv'
<1> USE DEF SettingsInv
<1> DEFINE owes == [key |-> k, value |-> v]
<1>1. change' = [change EXCEPT ![a] = owes] /\ setting' = [setting EXCEPT ![k] = v] /\ UNCHANGED <<settingRow, cutRow>>
  BY DEF Changes
<1>2. SettingsTyped'
  <2>1. owes \in [key : SettingKeys \cup {"none"}, value : {0, 1}] /\ owes.key = k /\ k # "none"
    BY DEF SettingKeys
  <2>2. doubtful' \subseteq SettingKeys
    BY DEF Changes, SettingsTyped
  <2> HIDE DEF owes
  <2>3. QED
    BY <1>1, <2>1, <2>2 DEF SettingsTyped, SettingValues
<1>3. SettingsFollow'
  <2> SUFFICES ASSUME NEW q \in SettingKeys \ doubtful'
               PROVE  /\ \A b \in SettingActors : change'[b].key = q => change'[b].value = setting'[q]
                      /\ (\A b \in SettingActors : change'[b].key # q) => settingRow'[q] = setting'[q]
    BY DEF SettingsFollow
  <2>1. CASE q = k
    <3>1. \A b \in SettingActors \ {a} : change[b].key # k
      BY <2>1 DEF Changes
    <3>2. QED
      BY <1>1, <2>1, <3>1 DEF SettingsTyped, SettingValues
  <2>2. CASE q # k
    <3>1. q \notin doubtful /\ change[a].key = "none"
      BY <2>2 DEF Changes, NoChange
    <3>2. QED
      BY <1>1, <2>2, <3>1 DEF SettingsTyped, SettingsFollow, SettingValues, SettingKeys
  <2>3. QED
    BY <2>1, <2>2
<1>4. TitleFits'
  BY DEF Changes, TitleFits, titleVars
<1>5. QED
  BY <1>2, <1>3, <1>4

(* The commands that set a mode, plan mode left with approval, and the     *)
(* agent a message names.                                                  *)
LEMMA ModesKept ==
    ASSUME SettingsInv,
           \/ \E v \in {0, 1} : SetPermissionMode(v) \/ SetPlanMode(v) \/ SetSessionAgent(v) \/ CommandApproval(v)
           \/ ExitPlanApproved \/ TypedAgent
    PROVE  SettingsInv'
<1>1. CASE TypedAgent /\ typed' = "none" /\ UNCHANGED <<setting, settingRow, cutRow, change, doubtful, titleVars, inTurn>>
  BY <1>1 DEF SettingsInv, SettingsTyped, SettingsFollow, TitleFits, titleVars
<1>2. CASE SelectAgent("turn", 1)
  BY <1>2, ChangesKept DEF SettingActors, SettingKeys, SelectAgent
<1>3. CASE \E v \in {0, 1} : SetPermissionMode(v) \/ SetPlanMode(v) \/ SetSessionAgent(v) \/ CommandApproval(v)
  BY <1>3, ChangesKept DEF SettingActors, SettingKeys, SetPermissionMode, SetPlanMode, SetSessionAgent, SelectAgent, CommandApproval
<1>4. CASE ExitPlanApproved
  BY <1>4, ChangesKept DEF SettingActors, SettingKeys, ExitPlanApproved
<1>5. QED
  BY <1>1, <1>2, <1>3, <1>4 DEF TypedAgent

(* A query reads; it writes nothing that is restored. *)
LEMMA QueryKept == ASSUME SettingsInv, QueryApproval PROVE SettingsInv'
<1> USE DEF SettingsInv
<1>1. change' = [change EXCEPT !["user"] = [key |-> "approval", value |-> 0]] /\ UNCHANGED <<setting, settingRow, cutRow>>
  BY DEF QueryApproval
<1>2. SettingsTyped'
  BY <1>1 DEF QueryApproval, SettingsTyped, SettingKeys, SettingActors
<1>3. SettingsFollow'
  <2> SUFFICES ASSUME NEW k \in SettingKeys \ doubtful'
               PROVE  /\ \A b \in SettingActors : change'[b].key = k => change'[b].value = setting'[k]
                      /\ (\A b \in SettingActors : change'[b].key # k) => settingRow'[k] = setting'[k]
    BY DEF SettingsFollow
  <2>1. /\ change'["user"] = [key |-> "approval", value |-> 0] /\ change'["turn"] = change["turn"]
        /\ change["user"].key = "none" /\ change["turn"].key # "approval" /\ k \notin doubtful
    BY <1>1 DEF QueryApproval, DispatcherFree, NoChange, SettingsTyped, SettingActors
  <2>2. CASE k = "approval"
    <3>1. setting["approval"] = 0
      BY <2>2 DEF QueryApproval, SettingsTyped, SettingValues, SettingKeys
    <3>2. QED
      BY <1>1, <2>1, <2>2, <3>1 DEF SettingActors
  <2>3. CASE k # "approval"
    BY <1>1, <2>1, <2>3 DEF SettingsFollow, SettingActors, SettingKeys
  <2>4. QED
    BY <2>2, <2>3
<1>4. TitleFits'
  BY DEF QueryApproval, TitleFits, titleVars
<1>5. QED
  BY <1>2, <1>3, <1>4

(* The row of a changed setting reaches the log. *)
LEMMA RowKept == ASSUME SettingsInv, NEW a \in SettingActors, LogSetting(a) PROVE SettingsInv'
<1> USE DEF SettingsInv
<1>1. /\ change' = [change EXCEPT ![a] = [key |-> "none", value |-> 0]]
      /\ settingRow' = [settingRow EXCEPT ![change[a].key] = change[a].value] /\ UNCHANGED <<setting, cutRow, doubtful>>
      /\ change[a].key \in SettingKeys
  BY DEF LogSetting, SettingsTyped, NoChange
<1>2. SettingsTyped'
  BY <1>1 DEF SettingsTyped, SettingActors, SettingValues, NoChange
<1>3. SettingsFollow'
  BY <1>1 DEF SettingsTyped, SettingsFollow, SettingValues, SettingKeys, SettingActors
<1>4. TitleFits'
  BY DEF LogSetting, TitleFits, titleVars
<1>5. QED
  BY <1>2, <1>3, <1>4

(* Asking to leave plan mode, sending, a turn's end, the titler and a      *)
(* rename.                                                                 *)
LEMMA TitlesKept ==
    ASSUME SettingsInv,
           \/ ExitPlanAsk \/ ExitPlanRefused \/ EndReplied \/ EndStopped
           \/ TitlerLands \/ TitlerFails \/ RenameSession
           \/ \E by \in SettingActors \cup {"none"} : Send(by)
    PROVE  SettingsInv'
<1> USE DEF SettingsInv, titleVars, modeVars
<1>1. SettingsTyped'
  BY DEF SettingsTyped, ExitPlanAsk, ExitPlanRefused, Send, EndReplied, EndStopped, TitlerLands, TitlerFails, RenameSession
<1>2. SettingsFollow'
  BY DEF SettingsFollow, ExitPlanAsk, ExitPlanRefused, Send, EndReplied, EndStopped, TitlerLands, TitlerFails, RenameSession
<1>3. TitleFits'
  <2> USE DEF TitleFits
  <2>1. CASE ExitPlanAsk \/ ExitPlanRefused \/ EndStopped \/ TitlerFails
    BY <2>1 DEF ExitPlanAsk, ExitPlanRefused, EndStopped, TitlerFails
  <2>2. CASE \E by \in SettingActors \cup {"none"} : Send(by)
    BY <2>2 DEF Send
  <2>3. CASE EndReplied
    BY <2>3 DEF EndReplied
  <2>4. CASE TitlerLands
    BY <2>4 DEF TitlerLands
  <2>5. CASE RenameSession
    BY <2>5 DEF RenameSession
  <2>6. QED
    BY <2>1, <2>2, <2>3, <2>4, <2>5
<1>4. QED
  BY <1>1, <1>2, <1>3

(* A restart reads the settings from the rows; a fork copies them. *)
LEMMA ReloadsKept == ASSUME SettingsInv, SettingsRestart \/ ForkSession PROVE SettingsInv'
<1> USE DEF SettingsInv
<1>0. \A a \in SettingActors : change'[a] = NoChange
  BY DEF SettingsRestart, ForkSession
<1>1. SettingsTyped'
  <2>1. change' \in [SettingActors -> [key : SettingKeys \cup {"none"}, value : {0, 1}]]
    BY DEF SettingsRestart, ForkSession, NoChange
  <2>2. setting' \in SettingValues /\ settingRow' \in SettingValues /\ cutRow' \in SettingValues /\ doubtful' \subseteq SettingKeys
    BY DEF SettingsRestart, ForkSession, SettingsTyped, Zero, SettingValues
  <2>3. QED
    BY <1>0, <2>1, <2>2 DEF SettingsTyped, SettingActors, NoChange
<1>2. SettingsFollow'
  <2>1. \A k \in SettingKeys \ doubtful' : settingRow'[k] = setting'[k]
    BY DEF SettingsRestart, ForkSession, Zero
  <2>2. \A a \in SettingActors, k \in SettingKeys : change'[a].key # k
    BY <1>0 DEF NoChange, SettingKeys
  <2>3. QED
    BY <2>1, <2>2 DEF SettingsFollow
<1>3. TitleFits'
  <2>1. CASE SettingsRestart
    BY <2>1 DEF SettingsRestart, TitleFits
  <2>2. CASE ForkSession
    BY <2>2 DEF ForkSession, TitleFits
  <2>3. QED
    BY <2>1, <2>2
<1>4. QED
  BY <1>1, <1>2, <1>3

(* Every step keeps the invariant. *)
LEMMA SettingsStep == SettingsInv /\ [SettingsNext]_settingsVars => SettingsInv'
<1> SUFFICES ASSUME SettingsInv, [SettingsNext]_settingsVars PROVE SettingsInv'
  OBVIOUS
<1>1. CASE UNCHANGED settingsVars
  BY <1>1 DEF SettingsInv, SettingsTyped, SettingsFollow, TitleFits, settingsVars, modeVars, titleVars
<1>2. CASE SettingsNext
  BY <1>2, ModesKept, QueryKept, RowKept, TitlesKept, ReloadsKept DEF SettingsNext
<1>3. QED
  BY <1>1, <1>2

(* What a session was set to is what a restart restores, and a name given  *)
(* after a message was sent is not written over by the titler (chat.rs     *)
(* set_permission_mode and its like, start_turn's typed agent,             *)
(* control_state, rename_session and the titler of a turn), but for the    *)
(* settings the code itself lets differ (doubtful).                        *)
THEOREM SettingsAreKept == SettingsSpec => [](SettingsSurviveRestart /\ RenameAfterSendSticks)
<1>1. SettingsInv => SettingsSurviveRestart /\ RenameAfterSendSticks
  BY DEF SettingsInv, SettingsFollow, TitleFits, SettingsSurviveRestart, RenameAfterSendSticks, Settled, NoChange, SettingKeys
<1>2. QED
  BY SettingsInitially, SettingsStep, <1>1, PTL DEF SettingsSpec

-----------------------------------------------------------------------------
(* Schedules and reminders. *)

(* A reminder, those the log or the hub hold, but for the hub's records    *)
(* whose dispatch row is written and not yet folded in, and what was       *)
(* delivered or claimed.                                                   *)
Reminder == [id : Nat, every : Nat, fire : Int, anchor : Int]
Known == logged \cup {r \in active : slotOwner = "rows" => \A c \in claimed : c[1] # r.id}
Told == told \cup claimed

(* Types. *)
ScheduleTyped ==
    /\ now \in Nat /\ pass \in Int /\ created \in Nat
    /\ logged \subseteq Reminder /\ active \subseteq Reminder
    /\ told \subseteq Nat \X Int /\ claimed \subseteq Nat \X Int
    /\ tool \in {"idle", "checkpoint"} /\ (tool # "idle" => slotOwner = "turn")
    /\ \A r \in Known : r.id <= created
    /\ \A o \in Told : o[1] <= created

(* x is a whole number of periods from the anchor. *)
OnGrid(x, a, e) == (x - a) % e = 0

(* An id has one record, in the log and in the hub, and a repeating record *)
(* stays on its grid.                                                      *)
RecordsFit ==
    /\ \A r, q \in Known : r.id = q.id => r = q
    /\ \A r \in Known : r.every > 0 => r.anchor <= r.fire /\ OnGrid(r.fire, r.anchor, r.every)

(* What was told, or is about to be, lies before the next target of its    *)
(* record; a one-shot told is no record any more.                          *)
ToldBefore ==
    /\ \A r \in Known, o \in Told : o[1] = r.id =>
          r.every > 0 /\ o[2] < r.fire /\ OnGrid(o[2], r.anchor, r.every)
    /\ \A c \in claimed, o \in told : c[1] = o[1] => o[2] < c[2]

(* The rows still to be written are of due records nothing was written for *)
(* in this pass, and outside rows and start nothing is claimed.            *)
RowsFit ==
    /\ slotOwner # "rows" => rowsDue = {}
    /\ slotOwner \notin {"rows", "ready"} => claimed = {}
    /\ \A r \in rowsDue : r \in active /\ r.fire <= pass /\ \A c \in claimed : c[1] # r.id

(* The inductive invariant. *)
ScheduleInv == ScheduleTyped /\ RecordsFit /\ ToldBefore /\ RowsFit /\ ~twice /\ ActiveIsLogged

(* Arithmetic of the grid a recurring reminder fires on. *)
LEMMA MultipleOnGrid == ASSUME NEW k \in Int, NEW e \in Nat \ {0} PROVE (k * e) % e = 0
  BY Z3

LEMMA OnGridIsMultiple == ASSUME NEW x \in Int, NEW e \in Nat \ {0}, x % e = 0 PROVE \E k \in Int : x = k * e
  BY Z3

LEMMA GridShift ==
    ASSUME NEW x \in Int, NEW m \in Int, NEW e \in Nat \ {0}, x % e = 0 PROVE (x + m * e) % e = 0
<1>1. PICK k \in Int : x = k * e
  BY OnGridIsMultiple
<1>2. k * e + m * e = (k + m) * e
  BY Z3
<1>3. k + m \in Int
  OBVIOUS
<1>4. ((k + m) * e) % e = 0
  BY <1>3, MultipleOnGrid
<1>5. QED
  BY <1>1, <1>2, <1>4

LEMMA DivBounds ==
    ASSUME NEW x \in Nat, NEW e \in Nat \ {0}
    PROVE  x \div e \in Nat /\ (x \div e) * e <= x /\ x < (x \div e + 1) * e
  BY Z3

(* A number on a grid stays on it when whole periods are added. *)
LEMMA GridMoves ==
    ASSUME NEW f \in Int, NEW a \in Int, NEW n \in Int, NEW e \in Nat \ {0}, OnGrid(f, a, e)
    PROVE  f + n * e \in Int /\ OnGrid(f + n * e, a, e)
<1>1. f - a \in Int /\ n * e \in Int
  OBVIOUS
<1>2. (f - a) % e = 0
  BY DEF OnGrid
<1>3. (f - a + n * e) % e = 0
  BY <1>1, <1>2, GridShift
<1>4. f + n * e - a = f - a + n * e
  BY <1>1
<1>5. (f + n * e - a) % e = 0
  BY <1>3, <1>4, Zenon
<1>6. f + n * e \in Int
  BY <1>1
<1>7. QED
  <2>1. OnGrid(f + n * e, a, e)
    BY <1>5 DEF OnGrid
  <2>2. QED
    BY <1>6, <2>1, Zenon

LEMMA AnchorOnGrid == ASSUME NEW a \in Int, NEW e \in Nat \ {0} PROVE OnGrid(a, a, e)
<1>1. a - a = 0 /\ 0 % e = 0
  OBVIOUS
<1>2. QED
  BY <1>1 DEF OnGrid

(* The first target after t, and the last one not after it. *)
LEMMA NextIsLater ==
    ASSUME NEW r \in Reminder, r.every > 0, NEW t \in Int, r.anchor <= t
    PROVE  /\ NextAfter(r, t) \in Int /\ t < NextAfter(r, t)
           /\ OnGrid(NextAfter(r, t), r.anchor, r.every)
<1>1. r.every \in Nat \ {0} /\ r.anchor \in Int /\ t - r.anchor \in Nat
  BY DEF Reminder
<1>2. PICK e \in Nat \ {0}, a \in Int : e = r.every /\ a = r.anchor
  BY <1>1
<1>3. PICK n \in Int : n = (t - a) \div e + 1
  BY <1>1, <1>2, DivBounds
<1>4. NextAfter(r, t) = a + n * e
  BY <1>1, <1>2, <1>3 DEF NextAfter
<1>5. t - a < n * e /\ n * e \in Int
  BY <1>1, <1>2, <1>3, DivBounds, SMTT(30)
<1>6. a + n * e \in Int /\ OnGrid(a + n * e, a, e)
  BY AnchorOnGrid, GridMoves
<1>7. t < a + n * e
  BY <1>5
<1>8. QED
  BY <1>2, <1>4, <1>6, <1>7

LEMMA OccurrenceOnGrid ==
    ASSUME NEW r \in Reminder, r.every > 0, pass \in Int, r.fire <= pass, OnGrid(r.fire, r.anchor, r.every)
    PROVE  /\ Occurrence(r) \in Int /\ r.fire <= Occurrence(r) /\ Occurrence(r) <= pass
           /\ OnGrid(Occurrence(r), r.anchor, r.every)
<1>1. r.every \in Nat \ {0} /\ r.fire \in Int /\ r.anchor \in Int /\ pass - r.fire \in Nat
  BY DEF Reminder
<1>2. PICK e \in Nat \ {0}, f \in Int, a \in Int : e = r.every /\ f = r.fire /\ a = r.anchor
  BY <1>1
<1>3. PICK n \in Nat : n = (pass - f) \div e
  BY <1>1, <1>2, DivBounds
<1>4. Occurrence(r) = f + n * e
  BY <1>1, <1>2, <1>3 DEF Occurrence
<1>n. n * e \in Nat /\ n \in Int
  BY <1>2, <1>3
<1>5. n * e <= pass - f
  BY <1>1, <1>2, <1>3, DivBounds
<1>g. OnGrid(f, a, e)
  BY <1>2
<1>6. f + n * e \in Int /\ OnGrid(f + n * e, a, e)
  BY <1>n, <1>g, GridMoves
<1>7. f <= f + n * e /\ f + n * e <= pass
  BY <1>5, <1>n
<1>8. QED
  BY <1>2, <1>4, <1>6, <1>7

(* No schedule, nothing told. *)
LEMMA ScheduleInitially == ScheduleInit => ScheduleInv
<1> SUFFICES ASSUME ScheduleInit PROVE ScheduleInv
  OBVIOUS
<1>1. NoPass \in Int
  BY DEF NoPass
<1>2. QED
  BY <1>1 DEF ScheduleInit, ScheduleInv, ScheduleTyped, RecordsFit, ToldBefore, RowsFit, ActiveIsLogged, Known, Told

(* A reminder is created. *)
LEMMA ScheduleCreates == ASSUME ScheduleInv, NEW r \in NewRecords, ScheduleCreate(r) PROVE ScheduleInv'
<1> USE DEF ScheduleInv
<1>1. /\ r \in Reminder /\ r.id = created + 1
      /\ r.every > 0 => r.anchor <= r.fire /\ OnGrid(r.fire, r.anchor, r.every)
  <2>1. CASE \E t \in now + 1 .. TimeBound : r = [id |-> created + 1, every |-> 0, fire |-> t, anchor |-> t]
    BY <2>1 DEF ScheduleTyped, Reminder
  <2>2. CASE \E p \in Periods : r = [id |-> created + 1, every |-> p, fire |-> now + p, anchor |-> now + p]
    <3>1. PICK p \in Periods : r = [id |-> created + 1, every |-> p, fire |-> now + p, anchor |-> now + p]
      BY <2>2
    <3>2. p \in Nat \ {0} /\ now + p \in Int /\ created + 1 \in Nat
      BY ScheduleAssumption DEF ScheduleTyped
    <3>3. OnGrid(now + p, now + p, p)
      BY <3>2, AnchorOnGrid
    <3>4. r \in Reminder /\ r.id = created + 1 /\ r.anchor = now + p /\ r.fire = now + p /\ r.every = p
      BY <3>1, <3>2 DEF Reminder
    <3>5. QED
      BY <3>2, <3>3, <3>4
  <2>3. QED
    BY <2>1, <2>2 DEF NewRecords
<1>2. logged' = logged \cup {r} /\ created' = created + 1 /\ UNCHANGED <<now, pass, active, told, rowsDue, claimed, slotOwner, twice>>
      /\ tool' = "checkpoint" /\ slotOwner = "turn"
  BY DEF ScheduleCreate
<1>3. Known' = Known \cup {r} /\ Told' = Told
  BY <1>2 DEF Known, Told
<1>4. \A q \in Known : q.id # r.id
  BY <1>1 DEF ScheduleTyped, Reminder, Known
<1>5. \A o \in Told : o[1] # r.id
  BY <1>1 DEF ScheduleTyped, Told
<1>6. ScheduleTyped'
  BY <1>1, <1>2, <1>3 DEF ScheduleTyped, Reminder, Known, Told
<1>7. RecordsFit'
  BY <1>1, <1>3, <1>4 DEF RecordsFit
<1>8. ToldBefore'
  BY <1>2, <1>3, <1>5 DEF ToldBefore
<1>9. RowsFit'
  BY <1>2 DEF RowsFit
<1>10. QED
  BY <1>2, <1>6, <1>7, <1>8, <1>9 DEF ActiveIsLogged

(* Steps that take records away, or move what is claimed or told. *)
LEMMA ScheduleShrinks ==
    ASSUME ScheduleInv, now' \in Nat, pass' \in Int, created' = created, Known' \subseteq Known, Told' \subseteq Told,
           logged' \cup active' \subseteq logged \cup active,
           tool' \in {"idle", "checkpoint"}, tool' # "idle" => slotOwner' = "turn",
           \A c \in claimed', o \in told' : c \in claimed /\ o \in told,
           ~twice', ActiveIsLogged', RowsFit'
    PROVE  ScheduleInv'
<1> USE DEF ScheduleInv
<1>1. ScheduleTyped'
  BY DEF ScheduleTyped, Known, Told
<1>2. RecordsFit'
  BY DEF RecordsFit
<1>3. ToldBefore'
  BY DEF ToldBefore
<1>4. QED
  BY <1>1, <1>2, <1>3

(* Every other step but a dispatch row. *)
LEMMA ScheduleOthers ==
    ASSUME ScheduleInv,
           \/ TurnBegins \/ TurnEnds \/ Tick \/ ScheduleRestart
           \/ \E r \in active : ScheduleDelete(r)
           \/ \E ok \in BOOLEAN : Checkpoint(ok)
           \/ DeliverScan \/ DeliverClaim \/ DeliverNothing \/ DeliverStart \/ DeliverRefused
           \/ \E B \in Batch : DeliverPick(B)
           \/ DeliverRefold
    PROVE  ScheduleInv'
<1> USE DEF ScheduleInv
<1>t. /\ now \in Nat /\ now + 1 \in Nat /\ pass \in Int /\ NoPass \in Int
      /\ tool \in {"idle", "checkpoint"} /\ (tool # "idle" => slotOwner = "turn")
  BY DEF ScheduleTyped, NoPass
<1> DEFINE Shrinks == /\ now' \in Nat /\ pass' \in Int /\ created' = created
                      /\ Known' \subseteq Known /\ Told' \subseteq Told
                      /\ logged' \cup active' \subseteq logged \cup active
                      /\ tool' \in {"idle", "checkpoint"} /\ (tool' # "idle" => slotOwner' = "turn")
                      /\ \A c \in claimed', o \in told' : c \in claimed /\ o \in told
                      /\ ~twice' /\ ActiveIsLogged' /\ RowsFit'
<1>s. SUFFICES Shrinks
  BY ScheduleShrinks
<1>1. CASE TurnBegins
  BY <1>1, <1>t DEF TurnBegins, Known, Told, ActiveIsLogged, RowsFit
<1>2. CASE TurnEnds
  BY <1>2, <1>t DEF TurnEnds, Known, Told, ActiveIsLogged, RowsFit
<1>3. CASE Tick
  BY <1>3, <1>t DEF Tick, Known, Told, ActiveIsLogged, RowsFit
<1>4. CASE ScheduleRestart
  BY <1>4, <1>t DEF ScheduleRestart, Known, Told, ActiveIsLogged, RowsFit
<1>5. ASSUME NEW r \in active, ScheduleDelete(r) PROVE Shrinks
  BY <1>5, <1>t DEF ScheduleDelete, Known, Told, ActiveIsLogged, RowsFit
<1>6. ASSUME NEW ok \in BOOLEAN, Checkpoint(ok) PROVE Shrinks
  <2>1. slotOwner = "turn" /\ slotOwner' = "turn" /\ rowsDue' = {} /\ claimed' = {} /\ claimed = {}
    BY <1>6, <1>t DEF Checkpoint, RowsFit
  <2>2. /\ logged' = logged /\ active' \in {active, logged} /\ tool' = "idle" /\ (uncertain' \/ active' = logged)
        /\ UNCHANGED <<now, pass, created, told, twice>>
    BY <1>6 DEF Checkpoint
  <2>3. Known' \subseteq Known
    BY <2>1, <2>2 DEF Known
  <2>4. RowsFit'
    BY <2>1 DEF RowsFit
  <2>5. ActiveIsLogged'
    <3>1. CASE ok
      BY <1>6, <3>1 DEF Checkpoint, ActiveIsLogged
    <3>2. CASE ~ok
      BY <1>6, <3>2 DEF Checkpoint, ActiveIsLogged
    <3>3. QED
      BY <3>1, <3>2
  <2>6. /\ Told' \subseteq Told /\ ~twice' /\ now' \in Nat /\ pass' \in Int /\ created' = created
        /\ \A c \in claimed', o \in told' : c \in claimed /\ o \in told
    BY <1>t, <2>1, <2>2 DEF Told
  <2>7. logged' \cup active' \subseteq logged \cup active
    BY <2>2
  <2>8. tool' \in {"idle", "checkpoint"} /\ (tool' # "idle" => slotOwner' = "turn")
    BY <2>2
  <2>9. QED
    BY <2>3, <2>4, <2>5, <2>6, <2>7, <2>8
<1>7. CASE DeliverScan
  <2>1. \A q \in rowsDue : q.fire <= pass => q.fire <= now
    BY <1>7, <1>t DEF DeliverScan, RowsFit, ScheduleTyped, Reminder, NoPass
  <2>2. RowsFit'
    BY <1>7, <2>1 DEF DeliverScan, RowsFit
  <2>3. QED
    BY <1>7, <1>t, <2>2 DEF DeliverScan, Known, Told, ActiveIsLogged
<1>8. CASE DeliverClaim
  BY <1>8, <1>t DEF DeliverClaim, Known, Told, ActiveIsLogged, RowsFit
<1>9. CASE DeliverNothing
  BY <1>9, <1>t DEF DeliverNothing, Known, Told, ActiveIsLogged, RowsFit
<1>10. CASE DeliverStart
  <2>1. ~(\E c \in claimed, d \in told : c[1] = d[1] /\ c[2] <= d[2])
    <3> SUFFICES ASSUME NEW c \in claimed, NEW d \in told, c[1] = d[1], c[2] <= d[2] PROVE FALSE
      OBVIOUS
    <3>1. d[2] < c[2] /\ c[2] \in Int /\ d[2] \in Int
      BY DEF ToldBefore, ScheduleTyped
    <3>2. QED
      BY <3>1
  <2>2. ~twice'
    BY <1>10, <2>1 DEF DeliverStart
  <2>3. QED
    BY <1>10, <1>t, <2>2 DEF DeliverStart, Known, Told, ActiveIsLogged, RowsFit
<1>11. CASE DeliverRefused
  BY <1>11, <1>t DEF DeliverRefused, Known, Told, ActiveIsLogged, RowsFit
<1>12. ASSUME NEW B \in Batch, DeliverPick(B) PROVE Shrinks
  <2>1. /\ slotOwner = "timer" /\ slotOwner' = "rows" /\ rowsDue' = B
        /\ UNCHANGED <<now, logged, active, created, tool, pass, claimed, told, twice, uncertain>>
    BY <1>12 DEF DeliverPick
  <2>2. \A r \in B : r \in active /\ r.fire <= pass
    BY DEF Batch, DueOneShots, DueRepeats
  <2>3. claimed = {} /\ claimed' = {}
    BY <2>1 DEF RowsFit
  <2>4. RowsFit'
    BY <2>1, <2>2, <2>3 DEF RowsFit
  <2>5. QED
    BY <1>t, <2>1, <2>3, <2>4 DEF Known, Told, ActiveIsLogged
<1>13. CASE DeliverRefold
  BY <1>13, <1>t DEF DeliverRefold, Known, Told, ActiveIsLogged, RowsFit
<1>14. QED
  BY <1>1, <1>2, <1>3, <1>4, <1>5, <1>6, <1>7, <1>8, <1>9, <1>10, <1>11, <1>12, <1>13

(* A dispatch row: the one-shot is gone, the repeating record moves on.    *)
LEMMA ScheduleDispatches == ASSUME ScheduleInv, NEW r \in rowsDue, DeliverDispatch(r) PROVE ScheduleInv'
<1> USE DEF ScheduleInv
<1> DEFINE shifted == [r EXCEPT !.fire = NextAfter(r, pass)]
           row == <<r.id, Occurrence(r)>>
<1>1. /\ logged' = {q \in logged : q.id \notin {r.id}}
                      \cup {[q EXCEPT !.fire = NextAfter(q, pass)] : q \in {p \in logged : p.id \in {r.id} /\ p.every > 0}}
      /\ claimed' = claimed \cup {row} /\ rowsDue' = rowsDue \ {r}
      /\ slotOwner = "rows" /\ UNCHANGED <<now, active, pass, created, told, twice, tool, slotOwner>>
  BY DEF DeliverDispatch, Dispatched
<1>2. /\ r \in active /\ r \in Known /\ r \in Reminder /\ pass \in Int /\ r.fire <= pass /\ r.id <= created
      /\ \A c \in claimed : c[1] # r.id
  BY DEF RowsFit, Known, ScheduleTyped
<1>3. /\ Occurrence(r) \in Int /\ r.fire <= Occurrence(r) /\ Occurrence(r) <= pass
      /\ r.every > 0 => OnGrid(Occurrence(r), r.anchor, r.every)
  <2>1. CASE r.every = 0
    BY <1>2, <2>1 DEF Occurrence, Reminder
  <2>2. CASE r.every > 0
    BY <1>2, <2>2, OccurrenceOnGrid DEF RecordsFit
  <2>3. QED
    BY <1>2, <2>1, <2>2 DEF Reminder
<1>4. ASSUME r.every > 0
      PROVE  /\ shifted \in Reminder /\ shifted.id = r.id /\ shifted.every = r.every /\ shifted.anchor = r.anchor
             /\ pass < shifted.fire /\ OnGrid(shifted.fire, r.anchor, r.every) /\ r.anchor <= shifted.fire
  <2>1. r.anchor <= r.fire /\ r.anchor <= pass
    BY <1>2, <1>4 DEF RecordsFit, Reminder
  <2>2. NextAfter(r, pass) \in Int /\ pass < NextAfter(r, pass) /\ OnGrid(NextAfter(r, pass), r.anchor, r.every)
    BY <1>2, <1>4, <2>1, NextIsLater
  <2>3. shifted \in Reminder /\ shifted.id = r.id /\ shifted.every = r.every /\ shifted.anchor = r.anchor
        /\ shifted.fire = NextAfter(r, pass)
    <3> DEFINE w == NextAfter(r, pass)
    <3>1. w \in Int /\ shifted = [r EXCEPT !.fire = w]
      BY <2>2
    <3> HIDE DEF w, shifted
    <3>2. shifted \in Reminder /\ shifted.id = r.id /\ shifted.every = r.every /\ shifted.anchor = r.anchor /\ shifted.fire = w
      BY <1>2, <3>1 DEF Reminder
    <3>3. QED
      BY <3>2 DEF w
  <2>4. pass < shifted.fire /\ OnGrid(shifted.fire, r.anchor, r.every)
    BY <2>2, <2>3, Zenon
  <2> HIDE DEF shifted
  <2>5. r.anchor <= shifted.fire
    BY <1>2, <2>1, <2>3, <2>4 DEF Reminder
  <2>6. QED
    BY <2>3, <2>4, <2>5
<1>5. \A q \in logged' : (q = shifted /\ r.every > 0) \/ (q \in logged /\ q.id # r.id)
  <2>1. \A p \in logged : p.id = r.id => p = r
    BY <1>2 DEF RecordsFit, Known
  <2>2. QED
    BY <1>1, <2>1
<1>r. row[1] = r.id /\ row[2] = Occurrence(r) /\ row \in Nat \X Int
  BY <1>2, <1>3 DEF Reminder
<1> HIDE DEF shifted, row
<1>k. ASSUME NEW q \in Known' PROVE (q = shifted /\ r.every > 0) \/ (q \in Known /\ q.id # r.id)
  <2>1. CASE q \in logged'
    BY <1>5, <2>1 DEF Known
  <2>2. CASE q \in active /\ \A c \in claimed' : c[1] # q.id
    BY <1>1, <1>r, <2>2 DEF Known
  <2>3. QED
    BY <1>1, <2>1, <2>2 DEF Known
<1>o. Told' = Told \cup {row} /\ row[1] = r.id /\ row[2] = Occurrence(r) /\ row \in Nat \X Int
  BY <1>1, <1>r DEF Told
<1>6. ScheduleTyped'
  <2>1. \A q \in logged' : q \in Reminder
    BY <1>4, <1>5 DEF ScheduleTyped
  <2>2. \A q \in Known' : q.id <= created
    BY <1>2, <1>4, <1>k DEF ScheduleTyped
  <2>3. \A o \in Told' : o[1] <= created
    BY <1>2, <1>o DEF ScheduleTyped
  <2>4. QED
    BY <1>1, <1>o, <2>1, <2>2, <2>3 DEF ScheduleTyped
<1>7. RecordsFit'
  <2>1. ASSUME NEW p \in Known', NEW q \in Known', p.id = q.id PROVE p = q
    BY <1>4, <1>k, <2>1 DEF RecordsFit
  <2>2. \A q \in Known' : q.every > 0 => q.anchor <= q.fire /\ OnGrid(q.fire, q.anchor, q.every)
    BY <1>4, <1>k DEF RecordsFit
  <2>3. QED
    BY <2>1, <2>2 DEF RecordsFit
<1>8. ToldBefore'
  <2>1. ASSUME NEW q \in Known', NEW o \in Told', o[1] = q.id
        PROVE  q.every > 0 /\ o[2] < q.fire /\ OnGrid(o[2], q.anchor, q.every)
    <3>1. CASE q \in Known /\ q.id # r.id
      BY <1>o, <2>1, <3>1 DEF ToldBefore
    <3>2. CASE q = shifted /\ r.every > 0 /\ o \in Told
      <4>1. o[1] = r.id
        BY <1>4, <2>1, <3>2
      <4>2. o[2] < r.fire /\ OnGrid(o[2], r.anchor, r.every)
        BY <1>2, <3>2, <4>1 DEF ToldBefore
      <4>3. o[2] \in Int /\ r.fire \in Int /\ shifted.fire \in Int
        BY <1>2, <1>4, <3>2 DEF ScheduleTyped, Told, Reminder
      <4>4. o[2] < q.fire
        BY <1>2, <1>4, <3>2, <4>2, <4>3
      <4>5. QED
        BY <1>4, <3>2, <4>2, <4>4
    <3>3. CASE q = shifted /\ r.every > 0 /\ o = row
      <4>1. shifted.fire \in Int
        BY <1>4, <3>3 DEF Reminder
      <4>2. Occurrence(r) < shifted.fire
        BY <1>2, <1>3, <1>4, <3>3, <4>1
      <4>3. QED
        BY <1>3, <1>4, <1>o, <3>3, <4>2
    <3>4. QED
      BY <1>k, <1>o, <3>1, <3>2, <3>3
  <2>2. ASSUME NEW c \in claimed', NEW o \in told, c[1] = o[1] PROVE o[2] < c[2]
    <3>1. CASE c \in claimed
      BY <2>2, <3>1 DEF ToldBefore
    <3>2. CASE c = row
      <4>1. o[2] < r.fire
        BY <1>2, <1>o, <2>2, <3>2 DEF ToldBefore, Told
      <4>2. o[2] \in Int /\ r.fire \in Int
        BY <1>2 DEF ScheduleTyped, Reminder
      <4>3. QED
        BY <1>3, <1>o, <3>2, <4>1, <4>2
    <3>3. QED
      BY <1>1, <3>1, <3>2
  <2>3. QED
    BY <1>1, <2>1, <2>2 DEF ToldBefore
<1>9. RowsFit'
  <2>1. ASSUME NEW q \in rowsDue \ {r} PROVE q.id # r.id
    BY <1>1, <1>2 DEF RowsFit, RecordsFit, Known
  <2>2. QED
    BY <1>1, <1>o, <2>1 DEF RowsFit
<1>10. QED
  BY <1>1, <1>6, <1>7, <1>8, <1>9 DEF ActiveIsLogged

(* Every step keeps the invariant. *)
LEMMA ScheduleStep == ScheduleInv /\ [ScheduleNext]_schedVars => ScheduleInv'
<1> SUFFICES ASSUME ScheduleInv, [ScheduleNext]_schedVars PROVE ScheduleInv'
  OBVIOUS
<1>1. CASE UNCHANGED schedVars
  BY <1>1 DEF ScheduleInv, ScheduleTyped, RecordsFit, ToldBefore, RowsFit, ActiveIsLogged, Known, Told, schedVars
<1>2. CASE ScheduleNext
  BY <1>2, ScheduleCreates, ScheduleOthers, ScheduleDispatches DEF ScheduleNext
<1>3. QED
  BY <1>1, <1>2

(* No due time is told twice, and the hub's schedules are those of the log *)
(* (chat.rs deliver_due_schedules, refold_schedules; project.rs            *)
(* next_after).                                                            *)
THEOREM RemindersKept == ScheduleSpec => [](RemindersOnce /\ ActiveIsLogged)
<1>1. ScheduleInv => RemindersOnce /\ ActiveIsLogged
  BY DEF ScheduleInv, ToldBefore, Known, Told, RemindersOnce, OnGrid
<1>2. QED
  BY ScheduleInitially, ScheduleStep, <1>1, PTL DEF ScheduleSpec

-----------------------------------------------------------------------------
(* The model connection. *)

(* What an attempt, a request and the hub's fields range over. *)
Sources == Providers \cup {NoProvider}
ConnSteps == {"unused", "spawned", "probe", "options", "client", "meters", "announce", "over"}
Attempted == [at : ConnSteps, of : Sources]
Requested == [at : {"none", "opening", "sizing", "running"}, client : Sources, options : Sources, window : Sources]

(* Types. *)
ConnTyped ==
    /\ client \in Sources /\ options \in Sources /\ window \in Sources /\ anchor \in Sources
    /\ shown \in [is : {"disconnected", "connecting", "error", "ready"}, of : Sources]
    /\ attempt \in [Attempts -> Attempted]
    /\ request \in Requested
    /\ mixed \in BOOLEAN

(* A turn that took a client has one. *)
RequestHasClient == request.at # "none" => request.client # NoProvider

(* No attempt is under way; an attempt at one of some steps. *)
Quiet == ~(\E k \in Attempts : InFlight(k))
Stands(k, steps) == attempt[k].at \in steps

(* The cells belong to one provider. *)
OfOne == client # NoProvider => options = client /\ window = client /\ anchor \in {client, NoProvider}

(* How far the attempt in flight has come, and what it has stored by then. *)
StoredSoFar(k) ==
    /\ Stands(k, {"spawned", "probe"}) => OfOne
    /\ Stands(k, {"options", "client", "meters", "announce"}) /\ attempt[k].of # NoProvider => window = attempt[k].of
    /\ Stands(k, {"client", "meters", "announce"}) /\ attempt[k].of # NoProvider => options = attempt[k].of
    /\ Stands(k, {"meters", "announce"}) => client = attempt[k].of
    /\ Stands(k, {"announce"}) => anchor \in {client, NoProvider}

(* A connection attempt is one at a time: a new one is started after the   *)
(* old one is aborted.                                                     *)
OneAttempt == \A j, k \in Attempts : InFlight(j) /\ InFlight(k) => j = k

(* The inductive invariant. *)
ConnInv ==
    /\ ConnTyped /\ RequestHasClient
    /\ ~mixed => /\ OneAttempt
                 /\ \A k \in Attempts : InFlight(k) => StoredSoFar(k)
                 /\ Quiet => OfOne /\ (shown.is = "ready" => client = shown.of /\ client # NoProvider)

(* What the frontend shows as ready is installed. *)
ShownInstalled == shown.is = "ready" => client = shown.of /\ client # NoProvider

(* Nothing is connected yet. *)
LEMMA ConnInitially == ConnInit => ConnInv
<1> SUFFICES ASSUME ConnInit PROVE ConnInv
  OBVIOUS
<1>1. ConnTyped
  BY DEF ConnInit, ConnTyped, Sources, NoAttempt, NoRequest, Attempted, Requested, ConnSteps
<1>2. \A k \in Attempts : ~InFlight(k)
  BY DEF ConnInit, InFlight, NoAttempt
<1>3. QED
  BY <1>1, <1>2 DEF ConnInit, ConnInv, RequestHasClient, NoRequest, OneAttempt, OfOne

(* An attempt that goes on to its next step: only it changes. *)
LEMMA AttemptGoes ==
    ASSUME ConnTyped, NEW k \in Attempts, NEW s \in ConnSteps, Goes(k, s)
    PROVE  /\ attempt' \in [Attempts -> Attempted]
           /\ attempt'[k].at = s /\ attempt'[k].of = attempt[k].of
           /\ \A j \in Attempts \ {k} : attempt'[j] = attempt[j]
  BY DEF ConnTyped, Goes, Attempted

(* One attempt moves; the others stay. *)
LEMMA AttemptMoves ==
    ASSUME ConnInv, NEW k \in Attempts, NEW s \in ConnSteps, Goes(k, s), InFlight(k), s # "unused",
           UNCHANGED <<request, mixed>>, ConnTyped',
           ~mixed /\ StoredSoFar(k) /\ s # "over" => StoredSoFar(k)',
           ~mixed /\ StoredSoFar(k) /\ s = "over" => OfOne' /\ ShownInstalled'
    PROVE  ConnInv'
<1>1. /\ attempt'[k].at = s /\ attempt'[k].of = attempt[k].of
      /\ \A j \in Attempts \ {k} : attempt'[j] = attempt[j]
  BY AttemptGoes DEF ConnInv
<1>2. RequestHasClient'
  BY DEF ConnInv, RequestHasClient
<1>3. ASSUME ~mixed
      PROVE  /\ OneAttempt'
             /\ \A j \in Attempts : InFlight(j)' => StoredSoFar(j)'
             /\ Quiet' => OfOne' /\ ShownInstalled'
  <2>1. \A j \in Attempts \ {k} : ~InFlight(j)
    BY <1>3 DEF ConnInv, OneAttempt
  <2>2. \A j \in Attempts \ {k} : ~InFlight(j)'
    BY <1>1, <2>1 DEF InFlight
  <2>3. InFlight(k)' <=> s # "over"
    BY <1>1 DEF InFlight
  <2>4. StoredSoFar(k)
    BY <1>3 DEF ConnInv
  <2>5. QED
    BY <1>3, <2>2, <2>3, <2>4 DEF OneAttempt, Quiet
<1>4. QED
  BY <1>2, <1>3 DEF ConnInv, ShownInstalled

(* The steps of an attempt. *)
LEMMA AttemptsKeep ==
    ASSUME ConnInv, NEW k \in Attempts,
           ConnectBegins(k) \/ ProbeFails(k) \/ ProbeAnswers(k) \/ StoreOptions(k)
             \/ StoreClient(k) \/ ClearMeters(k) \/ Announce(k)
    PROVE  ConnInv'
<1> DEFINE p == attempt[k].of
<1>t. p \in Sources /\ ConnTyped
  BY DEF ConnInv, ConnTyped, Attempted
<1>c. {"probe", "options", "client", "meters", "announce", "over"} \subseteq ConnSteps
  BY DEF ConnSteps
<1>1. CASE ConnectBegins(k)
  <2>1. InFlight(k) /\ Goes(k, "probe") /\ UNCHANGED <<request, mixed, client, options, window, anchor>>
        /\ attempt[k].at = "spawned"
    BY <1>1 DEF ConnectBegins, InFlight
  <2>2. ConnTyped'
    BY <1>1, <1>t, <1>c, <2>1, AttemptGoes DEF ConnectBegins, ConnTyped
  <2>3. StoredSoFar(k) => StoredSoFar(k)'
    BY <1>t, <1>c, <2>1, AttemptGoes DEF StoredSoFar, Stands, OfOne
  <2>4. QED
    BY <1>c, <2>1, <2>2, <2>3, AttemptMoves
<1>2. CASE ProbeFails(k)
  <2>1. InFlight(k) /\ Goes(k, "over") /\ UNCHANGED <<request, mixed, client, options, window, anchor>>
        /\ attempt[k].at = "probe"
    BY <1>2 DEF ProbeFails, InFlight
  <2>2. ConnTyped'
    BY <1>2, <1>t, <1>c, <2>1, AttemptGoes DEF ProbeFails, ConnTyped
  <2>3. StoredSoFar(k) => OfOne' /\ ShownInstalled'
    BY <1>2, <2>1 DEF ProbeFails, StoredSoFar, Stands, OfOne, ShownInstalled
  <2>4. QED
    BY <1>c, <2>1, <2>2, <2>3, AttemptMoves
<1>3. CASE ProbeAnswers(k)
  <2>1. InFlight(k) /\ Goes(k, "options") /\ UNCHANGED <<request, mixed>> /\ window' = p
    BY <1>3 DEF ProbeAnswers, InFlight
  <2>2. ConnTyped'
    BY <1>3, <1>t, <1>c, <2>1, AttemptGoes DEF ProbeAnswers, ConnTyped
  <2>3. StoredSoFar(k)'
    BY <1>t, <1>c, <2>1, AttemptGoes DEF StoredSoFar, Stands
  <2>4. QED
    BY <1>c, <2>1, <2>2, <2>3, AttemptMoves
<1>4. CASE StoreOptions(k)
  <2>1. InFlight(k) /\ Goes(k, "client") /\ UNCHANGED <<request, mixed, window>> /\ options' = p
        /\ attempt[k].at = "options"
    BY <1>4 DEF StoreOptions, InFlight
  <2>2. ConnTyped'
    BY <1>4, <1>t, <1>c, <2>1, AttemptGoes DEF StoreOptions, ConnTyped
  <2>3. StoredSoFar(k) => StoredSoFar(k)'
    BY <1>t, <1>c, <2>1, AttemptGoes DEF StoredSoFar, Stands
  <2>4. QED
    BY <1>c, <2>1, <2>2, <2>3, AttemptMoves
<1>5. CASE StoreClient(k)
  <2>1. InFlight(k) /\ Goes(k, "meters") /\ UNCHANGED <<request, mixed, window, options>> /\ client' = p
        /\ attempt[k].at = "client"
    BY <1>5 DEF StoreClient, InFlight
  <2>2. ConnTyped'
    BY <1>5, <1>t, <1>c, <2>1, AttemptGoes DEF StoreClient, ConnTyped
  <2>3. StoredSoFar(k) => StoredSoFar(k)'
    BY <1>t, <1>c, <2>1, AttemptGoes DEF StoredSoFar, Stands
  <2>4. QED
    BY <1>c, <2>1, <2>2, <2>3, AttemptMoves
<1>6. CASE ClearMeters(k)
  <2>1. InFlight(k) /\ Goes(k, "announce") /\ UNCHANGED <<request, mixed, window, options, client>> /\ anchor' = NoProvider
        /\ attempt[k].at = "meters"
    BY <1>6 DEF ClearMeters, InFlight
  <2>2. ConnTyped'
    BY <1>6, <1>t, <1>c, <2>1, AttemptGoes DEF ClearMeters, ConnTyped, Sources
  <2>3. StoredSoFar(k) => StoredSoFar(k)'
    BY <1>t, <1>c, <2>1, AttemptGoes DEF StoredSoFar, Stands
  <2>4. QED
    BY <1>c, <2>1, <2>2, <2>3, AttemptMoves
<1>7. CASE Announce(k)
  <2>1. InFlight(k) /\ Goes(k, "over") /\ UNCHANGED <<request, mixed, window, options, client, anchor>>
        /\ attempt[k].at = "announce"
        /\ shown' = IF p = NoProvider THEN [is |-> "disconnected", of |-> NoProvider] ELSE [is |-> "ready", of |-> p]
    BY <1>7 DEF Announce, InFlight
  <2>2. ConnTyped'
    BY <1>t, <1>c, <2>1, AttemptGoes DEF ConnTyped, Sources
  <2>3. StoredSoFar(k) => OfOne' /\ ShownInstalled'
    BY <2>1 DEF StoredSoFar, Stands, OfOne, ShownInstalled
  <2>4. QED
    BY <1>c, <2>1, <2>2, <2>3, AttemptMoves
<1>8. QED
  BY <1>1, <1>2, <1>3, <1>4, <1>5, <1>6, <1>7

(* A new attempt, or a disconnect, replaces the last. *)
LEMMA AttemptStarts ==
    ASSUME ConnInv, NEW s \in {"spawned", "client"}, NEW p \in Sources, NewAttempt(s, p),
           s = "client" => p = NoProvider, UNCHANGED <<cells, request, requests>>
    PROVE  ConnInv'
<1>1. PICK k \in Attempts : /\ attempt[k] = NoAttempt
                            /\ attempt' = [attempt EXCEPT ![k] = [at |-> s, of |-> p]]
                            /\ mixed' = (mixed \/ \E j \in Attempts : InFlight(j))
  BY DEF NewAttempt
<1>2. ConnTyped'
  BY <1>1 DEF ConnInv, ConnTyped, cells, Attempted, ConnSteps
<1>3. RequestHasClient'
  BY DEF ConnInv, RequestHasClient
<1>4. ASSUME ~mixed'
      PROVE  /\ OneAttempt'
             /\ \A j \in Attempts : InFlight(j)' => StoredSoFar(j)'
             /\ ~Quiet'
  <2>1. ~mixed /\ \A j \in Attempts : ~InFlight(j)
    BY <1>1, <1>4
  <2>2. attempt'[k].at = s /\ attempt'[k].of = p /\ \A j \in Attempts \ {k} : attempt'[j] = attempt[j]
    BY <1>1 DEF ConnInv, ConnTyped
  <2>3. InFlight(k)' /\ \A j \in Attempts \ {k} : ~InFlight(j)'
    BY <2>1, <2>2 DEF InFlight
  <2>4. OfOne'
    BY <2>1 DEF ConnInv, Quiet, OfOne, cells
  <2>5. StoredSoFar(k)'
    BY <2>2, <2>4 DEF StoredSoFar, Stands
  <2>6. QED
    BY <2>3, <2>5 DEF OneAttempt, Quiet
<1>5. QED
  BY <1>2, <1>3, <1>4 DEF ConnInv

(* What a turn takes from the connection. *)
LEMMA TurnsKeep ==
    ASSUME ConnInv, TakeClient \/ TakeOptions \/ TakeWindow \/ RecordAnchor \/ LearnWindow \/ RequestEnds
    PROVE  ConnInv'
<1> USE DEF ConnInv
<1>1. CASE TakeClient \/ TakeOptions \/ TakeWindow \/ RequestEnds
  <2>1. UNCHANGED <<cells, attempt, mixed>>
    BY <1>1 DEF TakeClient, TakeOptions, TakeWindow, RequestEnds
  <2>2. request' \in Requested /\ RequestHasClient'
    <3>1. CASE TakeClient
      <4>1. request' = [at |-> "opening", client |-> client, options |-> NoProvider, window |-> NoProvider] /\ client # NoProvider
        BY <3>1 DEF TakeClient, NoRequest
      <4>2. QED
        BY <4>1 DEF ConnTyped, RequestHasClient, Sources, Requested
    <3>2. CASE TakeOptions
      BY <3>2 DEF TakeOptions, ConnTyped, RequestHasClient, Requested
    <3>3. CASE TakeWindow
      BY <3>3 DEF TakeWindow, ConnTyped, RequestHasClient, Requested
    <3>4. CASE RequestEnds
      BY <3>4 DEF RequestEnds, RequestHasClient, NoRequest, Sources, Requested
    <3>5. QED
      BY <1>1, <3>1, <3>2, <3>3, <3>4
  <2>3. ConnTyped'
    BY <2>1, <2>2 DEF ConnTyped, cells
  <2>4. QED
    BY <2>1, <2>2, <2>3 DEF cells, OneAttempt, StoredSoFar, Stands, Quiet, OfOne, InFlight
<1>2. CASE RecordAnchor
  <2>1. UNCHANGED <<client, options, window, shown, attempt, request>> /\ anchor' = request.client
    BY <1>2 DEF RecordAnchor
  <2>2. mixed' \in BOOLEAN /\ (~mixed' => ~mixed /\ request.client = client)
    BY <1>2 DEF RecordAnchor, ConnTyped
  <2>3. ConnTyped' /\ RequestHasClient'
    BY <2>1, <2>2 DEF ConnTyped, RequestHasClient, Requested
  <2>4. QED
    BY <2>1, <2>2, <2>3 DEF OneAttempt, StoredSoFar, Stands, Quiet, OfOne, InFlight
<1>3. CASE LearnWindow
  <2>1. /\ UNCHANGED <<client, options, anchor, attempt>> /\ window' = request.client
        /\ request' = [request EXCEPT !.window = request.client] /\ shown' = [is |-> "ready", of |-> request.client]
    BY <1>3 DEF LearnWindow
  <2>2. mixed' \in BOOLEAN /\ (~mixed' => ~mixed /\ request.client = client /\ Quiet)
    BY <1>3 DEF LearnWindow, ConnTyped, Quiet
  <2>3. ConnTyped' /\ RequestHasClient'
    BY <2>1, <2>2 DEF ConnTyped, RequestHasClient, Requested
  <2>4. request.client # NoProvider
    BY <1>3 DEF LearnWindow, RequestHasClient
  <2>5. ~mixed' => Quiet' /\ OneAttempt' /\ \A k \in Attempts : ~InFlight(k)'
    BY <2>1, <2>2 DEF Quiet, OneAttempt, InFlight
  <2>6. ~mixed' => OfOne' /\ client' = shown'.of /\ client' # NoProvider
    BY <2>1, <2>2, <2>4 DEF OfOne
  <2>7. QED
    BY <2>3, <2>5, <2>6
<1>4. QED
  BY <1>1, <1>2, <1>3

(* Every step keeps the invariant. *)
LEMMA ConnStep == ConnInv /\ [ConnNext]_connVars => ConnInv'
<1> SUFFICES ASSUME ConnInv, [ConnNext]_connVars PROVE ConnInv'
  OBVIOUS
<1>1. CASE UNCHANGED connVars
  BY <1>1 DEF ConnInv, ConnTyped, RequestHasClient, OneAttempt, StoredSoFar, Stands, Quiet, OfOne, InFlight, connVars, cells
<1>2. ASSUME NEW p \in Providers, ConnectLlm(p) PROVE ConnInv'
  <2>1. p \in Sources /\ NewAttempt("spawned", p) /\ UNCHANGED <<cells, request, requests>>
    BY <1>2 DEF ConnectLlm, Sources
  <2>2. QED
    BY <2>1, AttemptStarts
<1>3. CASE DisconnectLlm
  <2>1. NoProvider \in Sources /\ NewAttempt("client", NoProvider) /\ UNCHANGED <<cells, request, requests>>
    BY <1>3 DEF DisconnectLlm, Sources
  <2>2. QED
    BY <2>1, AttemptStarts
<1>4. QED
  BY <1>1, <1>2, <1>3, AttemptsKeep, TurnsKeep DEF ConnNext

(* What is shown as ready is installed. *)
THEOREM ReadyKept == ConnSpec => []ReadyIsInstalled
<1>1. ConnInv => ReadyIsInstalled
  BY DEF ConnInv, ReadyIsInstalled, Quiet, OfOne
<1>2. QED
  BY ConnInitially, ConnStep, <1>1, PTL DEF ConnSpec

-----------------------------------------------------------------------------
(* The investigator. *)

(* Entries of the failure ledger, tickets and the worker. *)
Entry == [is : {"none", "pending", "done"}, recovered : BOOLEAN]
TicketStates == {"absent", "open", "investigating", "diagnosed", "failed", "resolved", "wontfix"}
Worker == [at : {"idle", "waiting", "publishing", "looking", "next", "examining", "marking"},
           todo : Seq(Kinds), cancelled : BOOLEAN, raced : SUBSET Kinds]

(* Types. *)
InvestTyped ==
    /\ ledger \in [Kinds -> Entry]
    /\ ticket \in [Kinds -> TicketStates]
    /\ bus \in Seq(Kinds)
    /\ lessons \subseteq Kinds
    /\ inv \in Worker
    /\ owed \subseteq Kinds

(* What the worker has picked is on file, in the ledger and as a ticket,   *)
(* and the ticket it examines is the first of them.                        *)
PickedOnFile ==
    /\ \A i \in DOMAIN inv.todo : ticket[inv.todo[i]] # "absent" /\ ledger[inv.todo[i]].is # "none"
    /\ inv.at = "examining" => inv.todo # <<>>

(* The inductive invariant. *)
InvestInv == InvestTyped /\ PickedOnFile /\ InvestigatingInHand /\ FailureStaysPending

(* Nothing failed yet. *)
LEMMA InvestInitially == InvestInit => InvestInv
<1> SUFFICES ASSUME InvestInit PROVE InvestInv
  OBVIOUS
<1>1. AtRest \in Worker /\ NoEntry \in Entry
  BY DEF AtRest, NoEntry, Worker, Entry
<1>2. InvestTyped
  BY <1>1 DEF InvestInit, InvestTyped, TicketStates
<1>3. AtRest.todo = <<>> /\ AtRest.at = "idle"
  BY DEF AtRest
<1>4. QED
  BY <1>2, <1>3 DEF InvestInit, InvestInv, PickedOnFile, InvestigatingInHand, FailureStaysPending

(* A finite set is listed by a sequence of its elements. *)
LEMMA PickedListed ==
    ASSUME NEW S \in SUBSET Kinds
    PROVE  /\ SetToSeq(S) \in Seq(Kinds)
           /\ \A i \in DOMAIN SetToSeq(S) : SetToSeq(S)[i] \in S
           /\ S # {} => SetToSeq(S) # <<>>
<1>1. IsFiniteSet(S)
  BY InvestAssumption, FS_Subset
<1>2. PICK n \in Nat : n = Cardinality(S)
  BY <1>1, FS_CardinalityType
<1>3. \E f \in [1 .. n -> S] : IsInjective(f)
  BY <1>1, <1>2, FS_CardinalityType DEF ExistsBijection, Bijection, Injection
<1>4. SetToSeq(S) \in [1 .. n -> S]
  BY <1>2, <1>3 DEF SetToSeq
<1>5. S # {} => n # 0
  BY <1>1, <1>2, FS_EmptySet
<1>6. QED
  BY <1>4, <1>5

(* The worker moves on with what it picked; tickets and ledger stay. *)
LEMMA WorkerMoves ==
    ASSUME InvestInv, UNCHANGED <<ledger, ticket, bus, lessons, owed, excused>>, inv' \in Worker,
           inv'.at # "examining" \/ inv'.todo = inv.todo,
           inv.at = "examining" <=> inv'.at = "examining",
           inv'.todo \in {inv.todo, <<>>}
    PROVE  InvestInv'
<1> USE DEF InvestInv
<1>1. InvestTyped'
  BY DEF InvestTyped
<1>2. PickedOnFile'
  <2>1. CASE inv'.todo = inv.todo
    BY <2>1 DEF PickedOnFile
  <2>2. CASE inv'.todo = <<>> /\ inv'.at # "examining"
    BY <2>2 DEF PickedOnFile
  <2>3. QED
    BY <2>1, <2>2
<1>3. InvestigatingInHand'
  BY DEF InvestigatingInHand
<1>4. FailureStaysPending'
  BY DEF FailureStaysPending
<1>5. QED
  BY <1>1, <1>2, <1>3, <1>4

(* Turns announced, sessions ended, and what the worker does with its      *)
(* queue.                                                                  *)
LEMMA WorkersKeep ==
    ASSUME InvestInv,
           \/ TurnAnnounces \/ TurnRegisters \/ \E why \in {"idle", "archived", "requested"} : SessionEnds(why)
           \/ WorkTaken \/ WorkPublishes \/ WorkLooks \/ WorkDone
    PROVE  InvestInv'
<1>t. inv \in Worker
  BY DEF InvestInv, InvestTyped
<1>1. UNCHANGED <<ledger, ticket, bus, lessons, owed, excused>>
  BY DEF TurnAnnounces, TurnRegisters, SessionEnds, WorkTaken, WorkPublishes, WorkLooks, WorkDone, ledgerVars
<1> DEFINE Moves == /\ inv' \in Worker /\ (inv'.at # "examining" \/ inv'.todo = inv.todo)
                    /\ (inv.at = "examining" <=> inv'.at = "examining") /\ inv'.todo \in {inv.todo, <<>>}
<1>s. SUFFICES Moves
  BY <1>1, WorkerMoves
<1>2. CASE TurnAnnounces
  BY <1>2, <1>t DEF TurnAnnounces, Worker
<1>3. CASE TurnRegisters \/ \E why \in {"idle", "archived", "requested"} : SessionEnds(why)
  BY <1>3, <1>t DEF TurnRegisters, SessionEnds
<1>4. CASE WorkTaken
  <2>1. PICK a \in {"idle", "waiting"} : inv' = [at |-> a, todo |-> <<>>, cancelled |-> FALSE, raced |-> {}]
    BY <1>4 DEF WorkTaken, AtRest
  <2>2. inv' \in Worker
    BY <2>1 DEF Worker
  <2>3. inv'.at # "examining" /\ inv'.todo = <<>> /\ inv.at = "idle"
    BY <1>4, <2>1 DEF WorkTaken
  <2>4. QED
    BY <2>2, <2>3
<1>5. CASE WorkPublishes
  BY <1>5, <1>t DEF WorkPublishes, Worker
<1>6. CASE WorkLooks
  BY <1>6, <1>t DEF WorkLooks, Worker
<1>7. CASE WorkDone
  BY <1>7, <1>t DEF WorkDone, Worker
<1>8. QED
  BY <1>2, <1>3, <1>4, <1>5, <1>6, <1>7

(* A failure is recorded. *)
LEMMA FailuresKeep == ASSUME InvestInv, NEW k \in Kinds, FileFailure(k) PROVE InvestInv'
<1> USE DEF InvestInv
<1>1. /\ ledger' = [ledger EXCEPT ![k] = [is |-> "pending", recovered |-> @.recovered]]
      /\ bus' = Append(bus, k) /\ owed' = owed \cup {k} /\ excused' = excused \ {k}
      /\ inv' = [inv EXCEPT !.raced = @ \cup {k}] /\ UNCHANGED <<ticket, lessons>>
  BY DEF FileFailure, RecordInLedger
<1>2. ledger' \in [Kinds -> Entry] /\ ledger'[k].is = "pending" /\ \A j \in Kinds \ {k} : ledger'[j] = ledger[j]
  BY <1>1 DEF InvestTyped, Entry
<1>3. inv' \in Worker /\ inv'.at = inv.at /\ inv'.todo = inv.todo
  BY <1>1 DEF InvestTyped, Worker
<1>4. InvestTyped'
  BY <1>1, <1>2, <1>3 DEF InvestTyped
<1>5. \A j \in Kinds : ledger[j].is # "none" => ledger'[j].is # "none"
  BY <1>2
<1>6. inv.todo \in Seq(Kinds)
  BY DEF InvestTyped, Worker
<1>7. PickedOnFile'
  BY <1>1, <1>3, <1>5, <1>6 DEF PickedOnFile
<1>8. InvestigatingInHand'
  BY <1>1, <1>3, <1>5 DEF InvestigatingInHand, InvestTyped
<1>9. FailureStaysPending'
  BY <1>1, <1>2 DEF FailureStaysPending, InvestTyped
<1>10. QED
  BY <1>4, <1>7, <1>8, <1>9

(* A step that gives a ticket another status than absent and investigating. *)
LEMMA TicketMoves ==
    ASSUME InvestInv, NEW k \in Kinds, NEW s \in TicketStates \ {"absent", "investigating"},
           ticket' = [ticket EXCEPT ![k] = s], UNCHANGED <<ledger, lessons, inv, owed, excused>>, bus' \in Seq(Kinds)
    PROVE  InvestInv'
<1> USE DEF InvestInv
<1>1. ticket' \in [Kinds -> TicketStates] /\ ticket'[k] = s /\ \A j \in Kinds \ {k} : ticket'[j] = ticket[j]
  BY DEF InvestTyped
<1>2. InvestTyped'
  BY <1>1 DEF InvestTyped
<1>3. \A j \in Kinds : ticket[j] # "absent" => ticket'[j] # "absent"
  BY <1>1
<1>4. inv.todo \in Seq(Kinds)
  BY DEF InvestTyped, Worker
<1>5. PickedOnFile'
  BY <1>3, <1>4 DEF PickedOnFile
<1>6. InvestigatingInHand'
  BY <1>1, <1>3 DEF InvestigatingInHand, InvestTyped
<1>7. FailureStaysPending'
  BY DEF FailureStaysPending
<1>8. QED
  BY <1>2, <1>5, <1>6, <1>7

(* The daemon files on its own. *)
LEMMA DaemonKeeps == ASSUME InvestInv, DaemonFiles PROVE InvestInv'
<1> DEFINE k == Head(bus)
<1>1. bus \in Seq(Kinds) /\ bus # <<>> /\ k \in Kinds /\ Tail(bus) \in Seq(Kinds)
  BY DEF InvestInv, InvestTyped, DaemonFiles
<1>2. UNCHANGED <<ledger, lessons, inv, owed, excused>> /\ bus' \in Seq(Kinds)
  BY <1>1 DEF DaemonFiles
<1>3. CASE ticket[k] \in {"absent", "resolved"}
  <2>1. ticket' = [ticket EXCEPT ![k] = "open"]
    BY <1>3 DEF DaemonFiles
  <2>2. "open" \in TicketStates \ {"absent", "investigating"}
    BY DEF TicketStates
  <2>3. QED
    BY <1>1, <1>2, <2>1, <2>2, TicketMoves
<1>4. CASE ticket[k] \notin {"absent", "resolved"}
  <2>1. ticket' = ticket
    BY <1>1, <1>4 DEF DaemonFiles, InvestInv, InvestTyped
  <2>2. QED
    BY <1>2, <2>1 DEF InvestInv, InvestTyped, PickedOnFile, InvestigatingInHand, FailureStaysPending
<1>5. QED
  BY <1>3, <1>4

(* A ticket is closed. *)
LEMMA ClosingKeeps ==
    ASSUME InvestInv, NEW k \in Kinds, NEW s \in {"resolved", "wontfix"}, CloseTicket(k, s) PROVE InvestInv'
<1>1. ticket' = [ticket EXCEPT ![k] = s] /\ UNCHANGED <<ledger, lessons, inv, owed, excused>> /\ bus' = bus
  BY DEF CloseTicket
<1>2. s \in TicketStates \ {"absent", "investigating"} /\ bus \in Seq(Kinds)
  BY DEF TicketStates, InvestInv, InvestTyped
<1>3. QED
  BY <1>1, <1>2, TicketMoves

(* A turn goes idle; the failures in R recovered. *)
LEMMA IdlingKeeps == ASSUME InvestInv, NEW R \in SUBSET Kinds, TurnGoesIdle(R) PROVE InvestInv'
<1> USE DEF InvestInv
<1>1. UNCHANGED <<ticket, bus, lessons, inv, owed, excused>>
  BY DEF TurnGoesIdle
<1>2. ledger' \in [Kinds -> Entry] /\ \A k \in Kinds : ledger'[k].is = ledger[k].is
  <2>1. ledger' = [k \in Kinds |-> IF ledger[k].is = "pending" THEN [ledger[k] EXCEPT !.recovered = k \in R] ELSE ledger[k]]
    BY DEF TurnGoesIdle
  <2>2. ASSUME NEW k \in Kinds PROVE ledger'[k] \in Entry /\ ledger'[k].is = ledger[k].is
    <3>1. ledger[k] \in Entry
      BY DEF InvestTyped
    <3>2. PICK b \in BOOLEAN : k \in R <=> b
      <4>1. CASE k \in R
        BY <4>1
      <4>2. CASE k \notin R
        BY <4>2
      <4>3. QED
        BY <4>1, <4>2
    <3>3. ledger'[k] = IF ledger[k].is = "pending" THEN [ledger[k] EXCEPT !.recovered = b] ELSE ledger[k]
      <4>1. (k \in R) = b
        BY <3>2
      <4>2. QED
        BY <2>1, <4>1, Zenon
    <3>4. QED
      BY <3>1, <3>3 DEF Entry
  <2>3. QED
    BY <2>1, <2>2
<1>3. InvestTyped'
  BY <1>1, <1>2 DEF InvestTyped
<1>4. inv.todo \in Seq(Kinds) /\ lessons \subseteq Kinds /\ owed \subseteq Kinds
  BY DEF InvestTyped, Worker
<1>5. PickedOnFile'
  BY <1>1, <1>2, <1>4 DEF PickedOnFile
<1>6. InvestigatingInHand'
  BY <1>1, <1>2, <1>4 DEF InvestigatingInHand
<1>7. FailureStaysPending'
  BY <1>1, <1>2, <1>4 DEF FailureStaysPending
<1>8. QED
  BY <1>3, <1>5, <1>6, <1>7

(* The worker picks what is pending; the failures in R recovered. *)
LEMMA PickingKeeps == ASSUME InvestInv, NEW R \in SUBSET Kinds, WorkPicks(R) PROVE InvestInv'
<1> USE DEF InvestInv
<1>1. UNCHANGED <<ledger, ticket, bus, lessons, owed, excused>> /\ R \subseteq Pickable /\ inv.at = "waiting"
  BY DEF WorkPicks, ledgerVars
<1> DEFINE t == SetToSeq(R)
<1>2. inv' = [at |-> IF R = {} THEN "marking" ELSE "publishing", todo |-> t, cancelled |-> FALSE, raced |-> {}]
  BY DEF WorkPicks
<1>3. t \in Seq(Kinds) /\ \A i \in DOMAIN t : t[i] \in R
  BY PickedListed
<1> HIDE DEF t
<1>4. inv' \in Worker /\ inv'.todo = t /\ inv'.at # "examining"
  BY <1>2, <1>3 DEF Worker
<1>5. InvestTyped'
  BY <1>1, <1>4 DEF InvestTyped
<1>6. PickedOnFile'
  BY <1>1, <1>3, <1>4 DEF PickedOnFile, Pickable
<1>7. InvestigatingInHand'
  BY <1>1 DEF InvestigatingInHand
<1>8. FailureStaysPending'
  BY <1>1 DEF FailureStaysPending
<1>9. QED
  BY <1>5, <1>6, <1>7, <1>8

(* A ticket goes under investigation. *)
LEMMA ExamineBeginKeeps == ASSUME InvestInv, ExamineBegins PROVE InvestInv'
<1> USE DEF InvestInv
<1> DEFINE h == Head(inv.todo)
<1>1. /\ inv \in Worker /\ inv.todo \in Seq(Kinds) /\ inv.todo # <<>> /\ h \in Kinds /\ inv.at = "next"
      /\ h = inv.todo[1] /\ 1 \in DOMAIN inv.todo
  BY DEF ExamineBegins, InvestTyped, Worker
<1>2. UNCHANGED <<ledger, bus, lessons, owed, excused>> /\ ticket' = [ticket EXCEPT ![h] = "investigating"]
      /\ inv' = [inv EXCEPT !.at = "examining"]
  BY DEF ExamineBegins
<1>3. inv' \in Worker /\ inv'.at = "examining" /\ inv'.todo = inv.todo
  BY <1>1, <1>2 DEF Worker
<1> HIDE DEF h
<1>4. ticket' \in [Kinds -> TicketStates] /\ ticket'[h] = "investigating" /\ \A j \in Kinds \ {h} : ticket'[j] = ticket[j]
  BY <1>1, <1>2 DEF InvestTyped, TicketStates
<1>5. InvestTyped'
  BY <1>2, <1>3, <1>4 DEF InvestTyped
<1>6. PickedOnFile'
  BY <1>1, <1>2, <1>3, <1>4 DEF PickedOnFile
<1>7. InvestigatingInHand'
  <2>1. \A j \in Kinds \ {h} : ticket'[j] # "investigating"
    BY <1>1, <1>4 DEF InvestigatingInHand
  <2>2. Head(inv'.todo) = h
    BY <1>3 DEF h
  <2>3. QED
    BY <1>2, <1>3, <1>4, <2>1, <2>2 DEF InvestigatingInHand, InvestTyped
<1>8. FailureStaysPending'
  BY <1>2 DEF FailureStaysPending
<1>9. QED
  BY <1>5, <1>6, <1>7, <1>8

(* The worker is interrupted. *)
LEMMA InterruptKeeps == ASSUME InvestInv, WorkInterrupted PROVE InvestInv'
<1> USE DEF InvestInv
<1>1. UNCHANGED <<ledger, bus, lessons, owed, excused>> /\ inv' = AtRest /\ inv.at \in {"next", "examining"}
  BY DEF WorkInterrupted
<1>2. inv' \in Worker /\ inv'.at # "examining" /\ inv'.todo = <<>>
  BY <1>1 DEF AtRest, Worker
<1>3. /\ ticket' \in [Kinds -> TicketStates]
      /\ \A j \in Kinds : ticket'[j] # "investigating" /\ (ticket[j] # "absent" => ticket'[j] # "absent")
  <2>1. CASE inv.at = "examining"
    <3>1. ticket' = [ticket EXCEPT ![Head(inv.todo)] = "open"]
      BY <2>1 DEF WorkInterrupted
    <3>2. QED
      BY <2>1, <3>1 DEF InvestTyped, InvestigatingInHand, TicketStates
  <2>2. CASE inv.at = "next"
    BY <2>2 DEF WorkInterrupted, InvestTyped, InvestigatingInHand
  <2>3. QED
    BY <1>1, <2>1, <2>2
<1>4. InvestTyped'
  BY <1>1, <1>2, <1>3 DEF InvestTyped
<1>5. PickedOnFile'
  BY <1>2 DEF PickedOnFile
<1>6. InvestigatingInHand'
  BY <1>1, <1>3 DEF InvestigatingInHand, InvestTyped
<1>7. FailureStaysPending'
  BY <1>1 DEF FailureStaysPending
<1>8. QED
  BY <1>4, <1>5, <1>6, <1>7

(* An examination ends with a verdict or without. *)
LEMMA ExamineEndKeeps ==
    ASSUME InvestInv, NEW found \in BOOLEAN, NEW teaches \in BOOLEAN, ExamineEnds(found, teaches) PROVE InvestInv'
<1> USE DEF InvestInv
<1> DEFINE h == Head(inv.todo)
<1>1. /\ inv \in Worker /\ inv.todo \in Seq(Kinds) /\ inv.todo # <<>> /\ h \in Kinds /\ inv.at = "examining"
      /\ h = inv.todo[1] /\ 1 \in DOMAIN inv.todo
  BY DEF ExamineEnds, InvestTyped, Worker, PickedOnFile
<1>2. /\ UNCHANGED <<ledger, bus, excused>> /\ owed' \subseteq owed /\ lessons' \subseteq lessons \cup {h}
      /\ inv' = [inv EXCEPT !.at = "next", !.todo = Tail(@)]
      /\ ticket' = IF ticket[h] \in Closed THEN ticket ELSE [ticket EXCEPT ![h] = IF found THEN "diagnosed" ELSE "failed"]
  BY DEF ExamineEnds
<1>3. Tail(inv.todo) \in Seq(Kinds) /\ \A i \in DOMAIN Tail(inv.todo) : i + 1 \in DOMAIN inv.todo /\ Tail(inv.todo)[i] = inv.todo[i + 1]
  BY <1>1
<1>4. inv' \in Worker /\ inv'.at = "next" /\ inv'.todo = Tail(inv.todo)
  BY <1>1, <1>2, <1>3 DEF Worker
<1> HIDE DEF h
<1>5. /\ ticket' \in [Kinds -> TicketStates] /\ ticket'[h] \notin {"investigating", "absent"}
      /\ \A j \in Kinds \ {h} : ticket'[j] = ticket[j]
  BY <1>1, <1>2 DEF InvestTyped, TicketStates, Closed
<1>6. \A j \in Kinds \ {h} : ticket[j] # "investigating"
  BY DEF InvestigatingInHand, h
<1>7. ticket[h] # "absent" /\ ledger[h].is # "none"
  BY <1>1 DEF PickedOnFile
<1>8. InvestTyped'
  BY <1>1, <1>2, <1>4, <1>5 DEF InvestTyped
<1>9. PickedOnFile'
  <2> SUFFICES ASSUME NEW i \in DOMAIN Tail(inv.todo)
               PROVE  ticket'[Tail(inv.todo)[i]] # "absent" /\ ledger[Tail(inv.todo)[i]].is # "none"
    BY <1>2, <1>4 DEF PickedOnFile
  <2>1. PICK j \in Kinds : j = Tail(inv.todo)[i] /\ ticket[j] # "absent" /\ ledger[j].is # "none"
    BY <1>1, <1>3 DEF PickedOnFile
  <2>2. QED
    BY <1>5, <2>1
<1>10. InvestigatingInHand'
  BY <1>1, <1>2, <1>5, <1>6, <1>7 DEF InvestigatingInHand, InvestTyped
<1>11. FailureStaysPending'
  BY <1>2 DEF FailureStaysPending
<1>12. QED
  BY <1>8, <1>9, <1>10, <1>11

(* What was examined is marked in the ledger. *)
LEMMA MarkingKeeps == ASSUME InvestInv, WorkMarks PROVE InvestInv'
<1> USE DEF InvestInv
<1>1. /\ UNCHANGED <<ticket, bus, lessons, owed>> /\ excused' = owed /\ inv' = AtRest /\ inv.at = "marking"
      /\ ledger' = [k \in Kinds |-> IF ledger[k].is = "none" THEN NoEntry ELSE [ledger[k] EXCEPT !.is = "done"]]
  BY DEF WorkMarks
<1>2. inv' \in Worker /\ inv'.at # "examining" /\ inv'.todo = <<>>
  BY <1>1 DEF AtRest, Worker
<1>3. ledger' \in [Kinds -> Entry] /\ \A k \in Kinds : ledger[k].is # "none" => ledger'[k].is # "none"
  BY <1>1 DEF InvestTyped, Entry, NoEntry
<1>4. InvestTyped'
  BY <1>1, <1>2, <1>3 DEF InvestTyped
<1>5. PickedOnFile'
  BY <1>2 DEF PickedOnFile
<1>6. InvestigatingInHand'
  BY <1>1, <1>3 DEF InvestigatingInHand, InvestTyped
<1>7. FailureStaysPending'
  BY <1>1 DEF FailureStaysPending
<1>8. QED
  BY <1>4, <1>5, <1>6, <1>7

(* The program restarts. *)
LEMMA RestartKeeps == ASSUME InvestInv, InvestRestart PROVE InvestInv'
<1> USE DEF InvestInv
<1>1. /\ UNCHANGED <<ledger, lessons, owed, excused>> /\ bus' = <<>> /\ inv' = AtRest
      /\ ticket' = [k \in Kinds |-> IF ticket[k] = "investigating" THEN "open" ELSE ticket[k]]
  BY DEF InvestRestart
<1>2. inv' \in Worker /\ inv'.at # "examining" /\ inv'.todo = <<>>
  BY <1>1 DEF AtRest, Worker
<1>3. /\ ticket' \in [Kinds -> TicketStates]
      /\ \A j \in Kinds : ticket'[j] # "investigating" /\ (ticket[j] # "absent" => ticket'[j] # "absent")
  BY <1>1 DEF InvestTyped, TicketStates
<1>4. InvestTyped'
  BY <1>1, <1>2, <1>3 DEF InvestTyped
<1>5. PickedOnFile'
  BY <1>2 DEF PickedOnFile
<1>6. InvestigatingInHand'
  BY <1>1, <1>3 DEF InvestigatingInHand, InvestTyped
<1>7. FailureStaysPending'
  BY <1>1 DEF FailureStaysPending
<1>8. QED
  BY <1>4, <1>5, <1>6, <1>7

(* Every step keeps the invariant. *)
LEMMA InvestStep == InvestInv /\ [InvestNext]_investVars => InvestInv'
<1> SUFFICES ASSUME InvestInv, [InvestNext]_investVars PROVE InvestInv'
  OBVIOUS
<1>1. CASE UNCHANGED investVars
  BY <1>1 DEF InvestInv, InvestTyped, PickedOnFile, InvestigatingInHand, FailureStaysPending, investVars, ledgerVars
<1>2. ASSUME NEW k \in Kinds, FileFailure(k) \/ CloseTicket(k, "resolved") \/ CloseTicket(k, "wontfix") PROVE InvestInv'
  BY <1>2, FailuresKeep, ClosingKeeps
<1>3. ASSUME NEW R \in SUBSET Kinds, TurnGoesIdle(R) \/ WorkPicks(R) PROVE InvestInv'
  BY <1>3, IdlingKeeps, PickingKeeps
<1>4. QED
  BY <1>1, <1>2, <1>3, WorkersKeep, DaemonKeeps, ExamineBeginKeeps, InterruptKeeps, ExamineEndKeeps, MarkingKeeps, RestartKeeps
     DEF InvestNext

(* A failure recorded during an investigation stays pending, and a ticket  *)
(* shown as under investigation is in the worker's hands (ledger.rs        *)
(* mark_investigated, ticket.rs reset_stale, investigate.rs).              *)
THEOREM FailuresLookedAt == InvestSpec => [](FailureStaysPending /\ InvestigatingInHand)
<1>1. InvestInv => FailureStaysPending /\ InvestigatingInHand
  BY DEF InvestInv
<1>2. QED
  BY InvestInitially, InvestStep, <1>1, PTL DEF InvestSpec

-----------------------------------------------------------------------------
(* Long-term memory. *)

(* A stored fact. *)
Memory == [id : Nat, text : Facts, scope : Scopes \cup {Here}, source : {"model", "user", "auto"}, at : Nat]

(* Types. *)
LongTermTyped ==
    /\ document \in Seq(Memory) /\ saves \in Nat
    /\ health \in {"good", "newer", "garbled", "unreadable"}

(* Ids count the writes: a new one was never used. *)
IdsUsed ==
    /\ \A i \in DOMAIN document : document[i].id <= saves
    /\ \A d \in authored : d \in Nat /\ d <= saves

(* An entry with the keeper's mark was written by the keeper: the only     *)
(* entries eviction may take hold nothing a person or the model wrote.     *)
AutoIsKeepers == \A i \in DOMAIN document : document[i].source = "auto" => document[i].id \notin authored

(* The inductive invariant. *)
LongTermInv == LongTermTyped /\ IdsUsed /\ AutoIsKeepers /\ DeliberateKept

(* The store is empty. *)
LEMMA LongTermInitially == LongTermInit => LongTermInv
  BY DEF LongTermInit, LongTermInv, LongTermTyped, IdsUsed, AutoIsKeepers, DeliberateKept

(* What is left of a sequence without its i-th element. *)
LEMMA Removed ==
    ASSUME NEW S, NEW s \in Seq(S), NEW i \in DOMAIN s
    PROVE  /\ RemoveAt(s, i) \in Seq(S)
           /\ \A k \in DOMAIN RemoveAt(s, i) : \E j \in DOMAIN s : RemoveAt(s, i)[k] = s[j]
           /\ \A j \in DOMAIN s \ {i} : \E k \in DOMAIN RemoveAt(s, i) : RemoveAt(s, i)[k] = s[j]
<1> DEFINE n == Len(s)
           a == SubSeq(s, 1, i - 1)
           b == SubSeq(s, i + 1, n)
           r == a \o b
<1>1. n \in Nat /\ i \in 1 .. n /\ DOMAIN s = 1 .. n /\ \A k \in 1 .. n : s[k] \in S
  OBVIOUS
<1>2. a \in Seq(S) /\ Len(a) = i - 1 /\ \A k \in 1 .. i - 1 : a[k] = s[k]
  BY <1>1, SubSeqProperties
<1>3. b \in Seq(S) /\ Len(b) = n - i /\ \A k \in 1 .. n - i : b[k] = s[i + k]
  BY <1>1, SubSeqProperties, SMTT(30)
<1>4. RemoveAt(s, i) = r
  BY DEF RemoveAt
<1> HIDE DEF n, a, b
<1>5. r \in Seq(S) /\ Len(r) = n - 1 /\ DOMAIN r = 1 .. n - 1
  <2>1. r \in Seq(S) /\ Len(r) = Len(a) + Len(b)
    BY <1>2, <1>3, ConcatProperties
  <2>2. Len(a) + Len(b) = n - 1
    BY <1>1, <1>2, <1>3
  <2> HIDE DEF r
  <2>3. QED
    BY <2>1, <2>2
<1>6. \A k \in 1 .. n - 1 : r[k] = IF k <= i - 1 THEN a[k] ELSE b[k - (i - 1)]
  <2>1. \A k \in 1 .. Len(a) + Len(b) : r[k] = IF k <= Len(a) THEN a[k] ELSE b[k - Len(a)]
    BY <1>2, <1>3, ConcatProperties
  <2>2. Len(a) + Len(b) = n - 1
    BY <1>1, <1>2, <1>3
  <2>3. QED
    BY <1>2, <2>1, <2>2
<1> HIDE DEF r
<1>7. ASSUME NEW k \in 1 .. n - 1 PROVE r[k] = s[IF k <= i - 1 THEN k ELSE k + 1] /\ (IF k <= i - 1 THEN k ELSE k + 1) \in 1 .. n
  <2>1. CASE k <= i - 1
    BY <1>1, <1>2, <1>6, <2>1
  <2>2. CASE k > i - 1
    <3>1. k - (i - 1) \in 1 .. n - i /\ i + (k - (i - 1)) = k + 1
      BY <1>1, <2>2
    <3>2. r[k] = b[k - (i - 1)]
      BY <1>1, <1>6, <2>2
    <3>3. r[k] = s[k + 1]
      BY <1>3, <3>1, <3>2
    <3>4. QED
      BY <1>1, <2>2, <3>3
  <2>3. QED
    BY <1>1, <2>1, <2>2
<1>8. ASSUME NEW j \in DOMAIN s \ {i} PROVE \E k \in 1 .. n - 1 : r[k] = s[j]
  <2>1. CASE j < i
    <3>1. j \in 1 .. n - 1 /\ j <= i - 1
      BY <1>1, <2>1
    <3>2. QED
      BY <1>7, <3>1
  <2>2. CASE j > i
    <3>1. j - 1 \in 1 .. n - 1 /\ ~(j - 1 <= i - 1) /\ j - 1 + 1 = j
      BY <1>1, <2>2
    <3>2. QED
      BY <1>7, <3>1
  <2>3. QED
    BY <1>1, <2>1, <2>2
<1>9. QED
  BY <1>1, <1>4, <1>5, <1>7, <1>8

(* There is an oldest among finitely many, or any, entries. *)
LEMMA OldestExists ==
    ASSUME NEW ms \in Seq(Memory), NEW A \in SUBSET DOMAIN ms, A # {}
    PROVE  \E i \in A : \A j \in A : ms[i].at <= ms[j].at
<1> DEFINE T == {ms[i].at : i \in A}
<1>1. T \subseteq Nat /\ T # {}
  <2>1. \A i \in A : ms[i] \in Memory
    OBVIOUS
  <2>2. QED
    BY <2>1 DEF Memory
<1>2. PICK x \in T : \A y \in T : ~(<<y, x>> \in OpToRel(<, Nat))
  BY <1>1, NatLessThanWellFounded, WFMin
<1>3. ASSUME NEW y \in T PROVE x <= y
  <2>1. x \in Nat /\ y \in Nat
    BY <1>1
  <2>2. ~(y < x)
    BY <1>2, <2>1 DEF OpToRel
  <2>3. QED
    BY <2>1, <2>2
<1>4. QED
  BY <1>3

(* evict takes at most one entry, and that one has the keeper's mark. *)
LEMMA Evicted ==
    ASSUME NEW ms \in Seq(Memory)
    PROVE  /\ Evict(ms) \in Seq(Memory)
           /\ \A k \in DOMAIN Evict(ms) : \E j \in DOMAIN ms : Evict(ms)[k] = ms[j]
           /\ \A j \in DOMAIN ms : ms[j].source # "auto" => \E k \in DOMAIN Evict(ms) : Evict(ms)[k] = ms[j]
<1> DEFINE autos == {i \in DOMAIN ms : ms[i].source = "auto"}
           c == CHOOSE i \in autos : \A j \in autos : ms[i].at <= ms[j].at
<1>1. CASE Len(ms) <= StoreCap \/ autos = {}
  BY <1>1 DEF Evict
<1>2. CASE ~(Len(ms) <= StoreCap \/ autos = {})
  <2>1. c \in autos
    BY <1>2, OldestExists
  <2>2. Evict(ms) = RemoveAt(ms, c)
    BY <1>2 DEF Evict
  <2>3. c \in DOMAIN ms /\ ms[c].source = "auto"
    BY <2>1
  <2> HIDE DEF c
  <2>4. /\ RemoveAt(ms, c) \in Seq(Memory)
        /\ \A k \in DOMAIN RemoveAt(ms, c) : \E j \in DOMAIN ms : RemoveAt(ms, c)[k] = ms[j]
        /\ \A j \in DOMAIN ms \ {c} : \E k \in DOMAIN RemoveAt(ms, c) : RemoveAt(ms, c)[k] = ms[j]
    BY <2>3, Removed
  <2>5. QED
    BY <2>2, <2>3, <2>4
<1>3. QED
  BY <1>1, <1>2

(* A document that is written, and one that is only read. *)
LEMMA ReplaceKeeps ==
    ASSUME LongTermInv, NEW ms \in Seq(Memory), Replaces(ms), MovesAside,
           \A i \in DOMAIN ms : ms[i].id <= saves + 1,
           authored' \subseteq authored \cup {saves + 1}, forgotten \subseteq forgotten',
           \A i \in DOMAIN ms : ms[i].source = "auto" => ms[i].id \notin authored',
           \A d \in authored' : d \in IdsOf(ms) \cup forgotten' \/ (d \in authored /\ d \notin IdsOf(Read))
    PROVE  LongTermInv'
<1> USE DEF LongTermInv
<1>1. document' = ms /\ health' = "good" /\ saves' = saves + 1
      /\ overwritten' = IF health = "unreadable" THEN overwritten \cup IdsOf(document) ELSE overwritten
  BY DEF Replaces
<1>2. saves \in Nat /\ saves + 1 \in Nat
  BY DEF LongTermTyped
<1>3. LongTermTyped'
  BY <1>1, <1>2 DEF LongTermTyped
<1>4. IdsUsed'
  BY <1>1, <1>2 DEF IdsUsed
<1>5. AutoIsKeepers'
  BY <1>1 DEF AutoIsKeepers
<1>6. DeliberateKept'
  <2> SUFFICES ASSUME NEW d \in authored', d \notin IdsOf(ms), d \notin forgotten'
               PROVE  d \in moved' \cup overwritten'
    BY <1>1 DEF DeliberateKept
  <2>1. d \in authored /\ d \notin IdsOf(Read) /\ d \notin forgotten
    OBVIOUS
  <2>2. d \in IdsOf(document) \cup moved \cup overwritten
    BY <2>1 DEF DeliberateKept
  <2>3. CASE d \in moved \cup overwritten
    BY <1>1, <2>3 DEF MovesAside
  <2>4. CASE d \in IdsOf(document)
    <3>1. health \in {"garbled", "unreadable"}
      BY <2>1, <2>4 DEF Read, LongTermTyped
    <3>2. QED
      BY <1>1, <2>4, <3>1 DEF MovesAside
  <2>5. QED
    BY <2>2, <2>3, <2>4
<1>7. QED
  BY <1>3, <1>4, <1>5, <1>6

(* What a step leaves in the store it leaves as it was. *)
LEMMA LeaveKeeps ==
    ASSUME LongTermInv, Leaves, MovesAside, UNCHANGED <<authored, forgotten>>
    PROVE  LongTermInv'
<1> USE DEF LongTermInv
<1>1. CASE health = "garbled"
  <2>1. document' = <<>> /\ health' = "good" /\ moved' = moved \cup IdsOf(document) /\ UNCHANGED <<overwritten, saves>>
    BY <1>1 DEF Leaves, MovesAside
  <2>2. QED
    BY <2>1 DEF LongTermTyped, IdsUsed, AutoIsKeepers, DeliberateKept
<1>2. CASE health # "garbled"
  <2>1. UNCHANGED <<document, health, moved, overwritten, saves>>
    BY <1>2 DEF Leaves, MovesAside
  <2>2. QED
    BY <2>1 DEF LongTermTyped, IdsUsed, AutoIsKeepers, DeliberateKept
<1>3. QED
  BY <1>1, <1>2

(* Reading the document gives facts of the store. *)
LEMMA ReadKnown ==
    ASSUME LongTermInv
    PROVE  /\ Read \in Seq(Memory) /\ \A i \in DOMAIN Read : Read[i].id <= saves /\ Read[i].id \in Nat
           /\ \A i \in DOMAIN Read : Read[i].source = "auto" => Read[i].id \notin authored
<1>1. CASE Read = <<>>
  BY <1>1
<1>2. CASE Read = document
  <2>1. document \in Seq(Memory) /\ \A i \in DOMAIN document : document[i] \in Memory
    BY DEF LongTermInv, LongTermTyped
  <2>2. \A i \in DOMAIN document : document[i].id \in Nat
    BY <2>1 DEF Memory
  <2>3. QED
    BY <1>2, <2>1, <2>2 DEF LongTermInv, IdsUsed, AutoIsKeepers
<1>3. QED
  BY <1>1, <1>2 DEF Read

(* A fact is added. *)
LEMMA AddKeeps ==
    ASSUME LongTermInv, NEW f \in Facts, NEW sc \in Scopes \cup {Here}, NEW so \in {"model", "user", "auto"}, NEW ok \in BOOLEAN,
           AddMemory(f, sc, so, ok)
    PROVE  LongTermInv'
<1> DEFINE m == [id |-> saves + 1, text |-> f, scope |-> sc, source |-> so, at |-> saves + 1]
           rs == Append(Read, m)
           ms == Evict(rs)
<1>1. MovesAside /\ UNCHANGED forgotten
  BY DEF AddMemory
<1>2. \/ Leaves /\ UNCHANGED authored
      \/ Replaces(ms) /\ authored' = IF so = "auto" THEN authored ELSE authored \cup {m.id}
  BY DEF AddMemory
<1>3. CASE Leaves /\ UNCHANGED authored
  BY <1>1, <1>3, LeaveKeeps
<1>4. CASE Replaces(ms) /\ authored' = IF so = "auto" THEN authored ELSE authored \cup {m.id}
  <2>1. saves \in Nat /\ saves + 1 \in Nat
    BY DEF LongTermInv, LongTermTyped
  <2>2. m \in Memory /\ m.id = saves + 1 /\ m.source = so
    BY <2>1 DEF Memory
  <2> HIDE DEF m
  <2>3. /\ rs \in Seq(Memory) /\ Len(rs) = Len(Read) + 1 /\ rs[Len(Read) + 1] = m
        /\ \A i \in 1 .. Len(Read) : rs[i] = Read[i]
    BY <2>2, ReadKnown
  <2>4. DOMAIN Read = 1 .. Len(Read) /\ DOMAIN rs = 1 .. Len(Read) + 1 /\ Len(Read) \in Nat
    BY <2>3, ReadKnown
  <2> HIDE DEF rs
  <2>5. ASSUME NEW j \in DOMAIN rs
        PROVE  rs[j].id <= saves + 1 /\ (rs[j].source = "auto" => rs[j].id \notin authored')
    <3>1. CASE j = Len(Read) + 1
      <4>1. rs[j].id = saves + 1 /\ rs[j].source = so
        BY <2>2, <2>3, <3>1
      <4>2. saves + 1 \notin authored
        BY <2>1 DEF LongTermInv, IdsUsed
      <4>3. QED
        BY <1>4, <2>1, <4>1, <4>2
    <3>2. CASE j \in 1 .. Len(Read)
      <4>1. rs[j] = Read[j] /\ Read[j].id <= saves /\ Read[j].id \in Nat
        BY <2>3, <2>4, <3>2, ReadKnown
      <4>2. rs[j].source = "auto" => Read[j].id \notin authored
        BY <2>4, <3>2, <4>1, ReadKnown
      <4>3. Read[j].id # saves + 1 /\ rs[j].id <= saves + 1
        BY <2>1, <4>1
      <4>4. QED
        BY <1>4, <2>2, <4>1, <4>2, <4>3
    <3>3. QED
      BY <2>4, <3>1, <3>2
  <2>6. /\ ms \in Seq(Memory) /\ \A i \in DOMAIN ms : \E j \in DOMAIN rs : ms[i] = rs[j]
        /\ \A j \in DOMAIN rs : rs[j].source # "auto" => \E k \in DOMAIN ms : ms[k] = rs[j]
    BY <2>3, Evicted
  <2> HIDE DEF ms
  <2>7. ASSUME NEW d \in authored' PROVE d \in IdsOf(ms) \/ (d \in authored /\ d \notin IdsOf(Read))
    <3>1. CASE d \in authored /\ d \in IdsOf(Read)
      <4>1. PICK i \in DOMAIN Read : Read[i].id = d
        BY <3>1 DEF IdsOf
      <4>2. Read[i].source # "auto" /\ i \in DOMAIN rs /\ rs[i] = Read[i]
        BY <2>3, <2>4, <3>1, <4>1, ReadKnown
      <4>3. QED
        BY <2>6, <4>1, <4>2 DEF IdsOf
    <3>2. CASE d \notin authored
      <4>1. d = m.id /\ so # "auto"
        BY <1>4, <3>2
      <4>2. Len(Read) + 1 \in DOMAIN rs /\ rs[Len(Read) + 1] = m /\ m.source # "auto"
        BY <2>2, <2>3, <2>4, <4>1
      <4>3. QED
        BY <2>6, <4>1, <4>2 DEF IdsOf
    <3>3. QED
      BY <3>1, <3>2
  <2>8. authored' \subseteq authored \cup {saves + 1}
    BY <1>4, <2>2
  <2>9. \A i \in DOMAIN ms : ms[i].id <= saves + 1 /\ (ms[i].source = "auto" => ms[i].id \notin authored')
    BY <2>5, <2>6
  <2>10. QED
    BY <1>1, <1>4, <2>6, <2>7, <2>8, <2>9, ReplaceKeeps
<1>5. QED
  BY <1>2, <1>3, <1>4

(* A fact is updated. *)
LEMMA UpdateKeeps ==
    ASSUME LongTermInv, NEW f \in Facts, NEW sc \in Scopes \cup {Here}, NEW i \in DOMAIN document, UpdateMemory(i, f, sc)
    PROVE  LongTermInv'
<1> DEFINE ms == [Read EXCEPT ![i].text = f, ![i].scope = sc, ![i].at = saves + 1]
<1>1. MovesAside /\ Replaces(ms) /\ i \in DOMAIN Read /\ UNCHANGED <<authored, forgotten>>
  BY DEF UpdateMemory
<1>2. saves \in Nat /\ saves + 1 \in Nat
  BY DEF LongTermInv, LongTermTyped
<1>3. /\ ms \in Seq(Memory) /\ DOMAIN ms = DOMAIN Read
      /\ \A j \in DOMAIN Read : ms[j].id = Read[j].id /\ ms[j].source = Read[j].source
  <2>1. Read \in Seq(Memory) /\ DOMAIN Read = 1 .. Len(Read) /\ Len(Read) \in Nat
    BY ReadKnown
  <2>2. ms = [Read EXCEPT ![i] = [Read[i] EXCEPT !.text = f, !.scope = sc, !.at = saves + 1]]
    BY <1>1, <2>1
  <2>3. Read[i] \in Memory
    BY <1>1, <2>1
  <2> DEFINE u == [Read[i] EXCEPT !.text = f, !.scope = sc, !.at = saves + 1]
  <2>4. u \in Memory /\ u.id = Read[i].id /\ u.source = Read[i].source
    BY <1>2, <2>3 DEF Memory
  <2> HIDE DEF u
  <2>5. ms = [Read EXCEPT ![i] = u]
    BY <2>2 DEF u
  <2> HIDE DEF ms
  <2>6. QED
    BY <1>1, <2>1, <2>4, <2>5
<1> HIDE DEF ms
<1>4. IdsOf(ms) = IdsOf(Read)
  BY <1>3 DEF IdsOf
<1>5. \A j \in DOMAIN ms : ms[j].id <= saves + 1 /\ (ms[j].source = "auto" => ms[j].id \notin authored')
  BY <1>1, <1>2, <1>3, ReadKnown
<1>6. QED
  BY <1>1, <1>3, <1>4, <1>5, ReplaceKeeps

(* A fact is deleted. *)
LEMMA DeleteKeeps == ASSUME LongTermInv, NEW i, DeleteMemory(i) PROVE LongTermInv'
<1> DEFINE ms == RemoveAt(Read, i)
<1>1. /\ MovesAside /\ Replaces(ms) /\ i \in DOMAIN Read /\ UNCHANGED authored
      /\ forgotten' = forgotten \cup {Read[i].id}
  BY DEF DeleteMemory
<1>2. /\ ms \in Seq(Memory) /\ \A k \in DOMAIN ms : \E j \in DOMAIN Read : ms[k] = Read[j]
      /\ \A j \in DOMAIN Read \ {i} : \E k \in DOMAIN ms : ms[k] = Read[j]
  BY <1>1, ReadKnown, Removed
<1> HIDE DEF ms
<1>3. saves \in Nat
  BY DEF LongTermInv, LongTermTyped
<1>4. \A j \in DOMAIN Read : Read[j].id <= saves + 1
  BY <1>3, ReadKnown
<1>5. \A k \in DOMAIN ms : ms[k].id <= saves + 1 /\ (ms[k].source = "auto" => ms[k].id \notin authored')
  BY <1>1, <1>2, <1>4, ReadKnown
<1>6. IdsOf(Read) \subseteq IdsOf(ms) \cup {Read[i].id}
  BY <1>1, <1>2 DEF IdsOf
<1>7. QED
  BY <1>1, <1>2, <1>5, <1>6, ReplaceKeeps

(* Every step keeps the invariant. *)
LEMMA LongTermStep == LongTermInv /\ [LongTermNext]_longVars => LongTermInv'
<1> SUFFICES ASSUME LongTermInv, [LongTermNext]_longVars PROVE LongTermInv'
  OBVIOUS
<1>1. CASE UNCHANGED longVars
  BY <1>1 DEF LongTermInv, LongTermTyped, IdsUsed, AutoIsKeepers, DeliberateKept, longVars
<1>2. CASE MemoryControl
  <2>1. ASSUME NEW f \in Facts, NEW s \in {Global, Here}, NEW ok \in BOOLEAN, AddMemory(f, s, "model", ok) PROVE LongTermInv'
    BY <2>1, AddKeeps DEF Scopes
  <2>2. ASSUME NEW f \in Facts, Forget(f) PROVE LongTermInv'
    BY <2>2, DeleteKeeps DEF Forget
  <2>3. QED
    BY <1>2, <2>1, <2>2 DEF MemoryControl
<1>3. CASE SaveMemory
  <2>1. ASSUME NEW f \in Facts, NEW s \in Scopes, NEW ok \in BOOLEAN, AddMemory(f, s, "user", ok) PROVE LongTermInv'
    BY <2>1, AddKeeps
  <2>2. ASSUME NEW i \in DOMAIN document, DeleteMemory(i) PROVE LongTermInv'
    BY <2>2, DeleteKeeps
  <2>3. ASSUME NEW i \in DOMAIN document, NEW f \in Facts, NEW s \in Scopes, UpdateMemory(i, f, s) PROVE LongTermInv'
    BY <2>3, UpdateKeeps
  <2>4. QED
    BY <1>3, <2>1, <2>2, <2>3 DEF SaveMemory
<1>4. CASE Promotes
  <2>1. ASSUME NEW f \in Facts, NEW s \in {Global, Here}, NEW ok \in BOOLEAN, AddMemory(f, s, "auto", ok) PROVE LongTermInv'
    BY <2>1, AddKeeps DEF Scopes
  <2>2. QED
    BY <1>4, <2>1 DEF Promotes
<1>5. CASE TurnReads \/ CompactReattaches
  BY <1>5, LeaveKeeps DEF TurnReads, CompactReattaches
<1>6. ASSUME NEW how \in {"newer", "garbled", "unreadable"}, DocumentDamaged(how) PROVE LongTermInv'
  BY <1>6 DEF DocumentDamaged, pastVars, LongTermInv, LongTermTyped, IdsUsed, AutoIsKeepers, DeliberateKept
<1>7. QED
  BY <1>1, <1>2, <1>3, <1>4, <1>5, <1>6 DEF LongTermNext

(* No automatic write drops or rewrites a fact a person or the model       *)
(* stored deliberately (long_term.rs, memory_keeper.rs Keeper::apply).     *)
THEOREM DeliberateIsKept == LongTermSpec => []DeliberateKept
<1>1. LongTermInv => DeliberateKept
  BY DEF LongTermInv
<1>2. QED
  BY LongTermInitially, LongTermStep, <1>1, PTL DEF LongTermSpec

-----------------------------------------------------------------------------
(* Each step of the collected specification is a step or a stutter of each *)
(* of its parts.                                                           *)
LEMMA PartsStep ==
    [Next]_<<part, allVars>> => /\ [GoalNext]_goalVars
                                /\ [SettingsNext]_settingsVars
                                /\ [ScheduleNext]_schedVars
                                /\ [ConnNext]_connVars
                                /\ [InvestNext]_investVars
                                /\ [LongTermNext]_longVars
<1> USE DEF allVars
<1>1. [Next]_<<part, allVars>> => [GoalNext]_goalVars
  BY DEF Next, GoalPart, SettingsPart, SchedulePart, ConnectionPart, StreamPart, InvestigatorPart, LongtermPart
<1>2. [Next]_<<part, allVars>> => [SettingsNext]_settingsVars
  BY DEF Next, GoalPart, SettingsPart, SchedulePart, ConnectionPart, StreamPart, InvestigatorPart, LongtermPart
<1>3. [Next]_<<part, allVars>> => [ScheduleNext]_schedVars
  BY DEF Next, GoalPart, SettingsPart, SchedulePart, ConnectionPart, StreamPart, InvestigatorPart, LongtermPart
<1>4. [Next]_<<part, allVars>> => [ConnNext]_connVars
  BY DEF Next, GoalPart, SettingsPart, SchedulePart, ConnectionPart, StreamPart, InvestigatorPart, LongtermPart
<1>5. [Next]_<<part, allVars>> => [InvestNext]_investVars
  BY DEF Next, GoalPart, SettingsPart, SchedulePart, ConnectionPart, StreamPart, InvestigatorPart, LongtermPart
<1>6. [Next]_<<part, allVars>> => [LongTermNext]_longVars
  BY DEF Next, GoalPart, SettingsPart, SchedulePart, ConnectionPart, StreamPart, InvestigatorPart, LongtermPart
<1>7. QED
  BY <1>1, <1>2, <1>3, <1>4, <1>5, <1>6

LEMMA SpecOfParts ==
    Spec => GoalSpec /\ SettingsSpec /\ ScheduleSpec /\ ConnSpec /\ InvestSpec /\ LongTermSpec
<1>1. Init => GoalInit /\ SettingsInit /\ ScheduleInit /\ ConnInit /\ InvestInit /\ LongTermInit
  BY DEF Init
<1>2. QED
  BY PartsStep, <1>1, PTL DEF Spec, GoalSpec, SettingsSpec, ScheduleSpec, ConnSpec, InvestSpec, LongTermSpec

(* A session's goal and settings are the ones last set, wherever a restart *)
(* falls: a goal's copies, budget and armed flag as long as no two writers *)
(* met inside put_goal, the flag until a turn that was stopped before      *)
(* `continue` ends after it (chat.rs:3981-3986); a setting unless the code *)
(* let map and rows differ; a name given after a send always (chat.rs      *)
(* put_goal, control_state and the titler).                                *)
THEOREM SessionStateIsKept == Spec => []SessionStateKept
<1>1. GoalCopiesAgree /\ RoundsWithinBudget /\ ContinueKept /\ SettingsSurviveRestart /\ RenameAfterSendSticks
        => SessionStateKept
  BY DEF SessionStateKept
<1>2. QED
  BY SpecOfParts, GoalsKept, SettingsAreKept, <1>1, PTL

(* One due time starts one turn at most, and outside a tool call and the   *)
(* timer's rows what the hub holds of the schedules is what the log's rows *)
(* say, unless a checkpoint failed (chat.rs deliver_due_schedules).        *)
THEOREM RemindersAreSound == Spec => []RemindersSound
<1>1. RemindersOnce /\ ActiveIsLogged => RemindersSound
  BY DEF RemindersSound
<1>2. QED
  BY SpecOfParts, RemindersKept, <1>1, PTL

(* What the hub announces as connected is installed (connect_llm).  That a *)
(* reply is the same however it is cut into pieces is an induction over    *)
(* the text, and stays with TLC.                                           *)
THEOREM ReadyIsKept == Spec => []ReadyIsInstalled
  BY SpecOfParts, ReadyKept, PTL

(* A failure recorded while an investigation runs stays to be looked at,   *)
(* and a ticket shown as under investigation is in someone's hands         *)
(* (investigate.rs, ledger.rs, ticket.rs).                                 *)
THEOREM InvestigatorIsSound == Spec => []InvestigatorSound
<1>1. FailureStaysPending /\ InvestigatingInHand => InvestigatorSound
  BY DEF InvestigatorSound
<1>2. QED
  BY SpecOfParts, FailuresLookedAt, <1>1, PTL

(* What was stored deliberately stays in the collected behaviours too      *)
(* (long_term.rs evict, Store::add).                                       *)
THEOREM DeliberateStays == Spec => []DeliberateKept
  BY SpecOfParts, DeliberateIsKept, PTL
=============================================================================
