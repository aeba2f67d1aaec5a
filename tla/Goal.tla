-------------------------------- MODULE Goal --------------------------------
(***************************************************************************)
(* The goal of one session: rules in crates/agents/src/goal.rs, commands,  *)
(* tools, put_goal and the round driver in crates/backend/src/chat.rs.     *)
(* put_goal keeps three copies (log row, frontend, memory) and the armed   *)
(* flag, one await after the other.  Two actors go through it: "user" is   *)
(* the dispatcher, inside one request at a time, "turn" is the turn task,  *)
(* whose control tools run one after the other and whose last act is the   *)
(* round driver.  A row is durable here once appended (module SessionStore *)
(* has the disk); the race for the slot is module TurnSlot's.              *)
(***************************************************************************)
EXTENDS Integers

CONSTANTS
    Texts,      \* objectives a person may word
    GoalRounds, \* max_rounds of every goal
    BlockAfter, \* BLOCKED_AFTER_CONSECUTIVE_ROUNDS
    GoalBound,  \* bound: goals created
    RevBound,   \* bound: revision of a goal
    RestartBound \* bound: restarts

(* max_rounds is a u32. *)
ASSUME GoalAssumption == GoalRounds \in Nat

GoalActors == {"user", "turn"}
GoalActions == {"pause", "resume", "complete", "block"}

VARIABLES
    goal,      \* ChatHub.goals: the memory copy
    goalRow,   \* the last GoalChange row of the log
    goalShown, \* the last GoalChanged event
    armed,     \* goal_armed
    busy,      \* the turn in the slot: "none", "human" (the person's words)
               \* or "machine" (a goal round, a continuation), or one that
               \* is yet to start: "nextHuman", "nextMachine"
    cancelled, \* that turn's token has fired
    writer,    \* where each actor is inside put_goal, and with what
    restarts,
    (* history, read by the properties only *)
    overlap,   \* two actors have been inside put_goal at the same time
    opened,    \* rounds opened for the present goal
    wanted,    \* the person asked for rounds and has not taken it back
    overruled  \* a turn stopped before they asked has ended since

copies == <<goal, goalRow, goalShown>>
slotOf == <<busy, cancelled>>
wish == <<wanted, overruled>>
goalVars == <<copies, armed, slotOf, writer, restarts, overlap, opened, wish>>

NoGoal == [id |-> 0, rev |-> 0, text |-> "none", phase |-> "none", rounds |-> 0]
NoWriter == [at |-> "idle", goal |-> NoGoal, then |-> "idle"]

GoalInit ==
    /\ goal = NoGoal /\ goalRow = NoGoal /\ goalShown = NoGoal
    /\ armed = FALSE
    /\ busy = "none" /\ cancelled = FALSE
    /\ writer = [a \in GoalActors |-> NoWriter]
    /\ restarts = 0
    /\ overlap = FALSE /\ opened = 0 /\ wanted = FALSE /\ overruled = FALSE

-----------------------------------------------------------------------------
(* The rules of goal.rs *)

Terminal(g) == g.phase \in {"none", "completed", "blocked"}
RoundsLeft(g) == g.phase = "active" /\ g.rounds < GoalRounds
PhaseOf(act) ==
    [pause |-> "paused", resume |-> "active", complete |-> "completed",
     block |-> "blocked"][act]
NewGoal(id, t) == [id |-> id, rev |-> 1, text |-> t, phase |-> "active", rounds |-> 0]

(* authorize: what a turn without a person behind it may not do. *)
Authorized(act, g, human) ==
    /\ act \in {"pause", "resume"} => human
    /\ act = "block" => human \/ g.rounds >= BlockAfter

(* apply: compare-and-set on the revision; only resume leaves a final phase. *)
Applicable(g, rev, act) ==
    /\ rev = g.rev
    /\ ~Terminal(g) \/ (act = "resume" /\ g # NoGoal)
Applied(g, act) == [g EXCEPT !.rev = @ + 1, !.phase = PhaseOf(act)]
Edited(g, t) == [g EXCEPT !.rev = @ + 1, !.text = t]
RoundNotCounted(g) == [g EXCEPT !.rev = @ + 1]
StartRound(g) == [g EXCEPT !.rev = @ + 1, !.rounds = @ + 1]

-----------------------------------------------------------------------------
(* put_goal *)

Idle(a) == writer[a].at = "idle"
Other(a) == IF a = "user" THEN "turn" ELSE "user"

(* An actor enters put_goal(g), a value made from the goal it read just    *)
(* before, and goes to step `then` after it.                               *)
Put(a, g, then) ==
    /\ g.rev <= RevBound
    /\ writer' = [writer EXCEPT ![a] = [at |-> "log", goal |-> g, then |-> then]]
    /\ overlap' = (overlap \/ writer[Other(a)].goal # NoGoal)

NotLogged(a) ==
    /\ writer[a].at = "log"
    /\ goalRow' = IF writer[a].then = "spawn" THEN goalRow ELSE writer[a].goal
    /\ writer' = [writer EXCEPT ![a].at = "emit"]
    /\ UNCHANGED <<goal, goalShown, armed, slotOf, restarts, overlap, opened, wish>>

PutLog(a) ==
    /\ writer[a].at = "log"
    /\ goalRow' = writer[a].goal
    /\ writer' = [writer EXCEPT ![a].at = "emit"]
    /\ UNCHANGED <<goal, goalShown, armed, slotOf, restarts, overlap, opened, wish>>

(* A goal that cannot run rounds is disarmed, then the frontend is told. *)
PutEmit(a) ==
    /\ writer[a].at = "emit"
    /\ armed' = (armed /\ RoundsLeft(writer[a].goal))
    /\ goalShown' = writer[a].goal
    /\ writer' = [writer EXCEPT ![a].at = "mem"]
    /\ UNCHANGED <<goal, goalRow, slotOf, restarts, overlap, opened, wish>>

PutMem(a) ==
    /\ writer[a].at = "mem"
    /\ goal' = writer[a].goal
    /\ opened' = IF writer[a].goal.id = goal.id THEN opened ELSE 0
    /\ writer' = [writer EXCEPT ![a] = [NoWriter EXCEPT !.at = writer[a].then]]
    /\ UNCHANGED <<goalRow, goalShown, armed, slotOf, restarts, overlap, wish>>

-----------------------------------------------------------------------------
(* /goal *)

(* /goal edit <text> *)
CommandEdit(t) ==
    /\ Idle("user")
    /\ ~Terminal(goal)
    /\ Put("user", Edited(goal, t), "idle")
    /\ UNCHANGED <<copies, armed, slotOf, restarts, opened, wish>>

(* /goal pause | resume | complete | block: arm or disarm, then put_goal. *)
CommandGoal(act) ==
    LET next == Applied(goal, act) IN
    /\ Idle("user")
    /\ Applicable(goal, goal.rev, act)
    /\ armed' = RoundsLeft(next)
    /\ wanted' = RoundsLeft(next) /\ overruled' = FALSE
    /\ Put("user", next, IF RoundsLeft(next) THEN "resumed" ELSE "idle")
    /\ UNCHANGED <<copies, slotOf, restarts, opened>>

(* After a resume: with the slot free the next round is opened right away. *)
CommandContinue ==
    /\ writer["user"].at = "resumed"
    /\ \/ /\ busy = "none"
          /\ Put("user", StartRound(goal), "spawn")
       \/ /\ busy # "none"
          /\ writer' = [writer EXCEPT !["user"] = NoWriter]
          /\ UNCHANGED overlap
    /\ UNCHANGED <<copies, armed, slotOf, restarts, opened, wish>>

(* start_boxed with TurnSource::GoalRound, from the command or the driver; *)
(* the newest start owns the slot.                                         *)
SpawnRound(a) ==
    /\ writer[a].at = "spawn"
    /\ busy' = "machine"
    /\ cancelled' = FALSE
    /\ opened' = opened + 1
    /\ writer' = [writer EXCEPT ![a] = NoWriter]
    /\ UNCHANGED <<copies, armed, restarts, overlap, wish>>

-----------------------------------------------------------------------------
(* The goal tools of a turn *)

Turns == {"human", "machine"}
TurnMayAct == busy \in Turns /\ Idle("turn")

(* create-goal: only a person's turn, only without an open goal. *)
CreateGoal(t) ==
    /\ TurnMayAct
    /\ busy = "human"
    /\ Terminal(goal)
    /\ goal.id < GoalBound
    /\ armed' = TRUE
    /\ wanted' = ~cancelled /\ overruled' = FALSE
    /\ Put("turn", NewGoal(goal.id + 1, t), "idle")
    /\ UNCHANGED <<copies, slotOf, restarts, opened>>

(* update-goal with the revision the model last saw. *)
UpdateGoal(rev, act) ==
    /\ TurnMayAct
    /\ goal # NoGoal
    /\ Authorized(act, goal, busy = "human")
    /\ Applicable(goal, rev, act)
    /\ armed' = (armed /\ PhaseOf(act) = "active")
    /\ wanted' = (wanted /\ PhaseOf(act) = "active")
    /\ Put("turn", Applied(goal, act), "idle")
    /\ UNCHANGED <<copies, slotOf, restarts, opened, overruled>>

-----------------------------------------------------------------------------
(* Turns, Stop, restart *)

HumanTurn ==
    /\ Idle("user")
    /\ busy = "none"
    /\ busy' = "human"
    /\ cancelled' = FALSE
    /\ UNCHANGED <<copies, armed, writer, restarts, overlap, opened, wish>>

(* interrupt_session: the token in the slot, then the armed flag. *)
StopTurn ==
    /\ Idle("user")
    /\ cancelled' = (busy # "none")
    /\ armed' = FALSE
    /\ wanted' = FALSE
    /\ UNCHANGED <<copies, busy, writer, restarts, overlap, opened, overruled>>

(* The last decision of a turn.  Reading goal and flag in two awaits gives *)
(* what one look gives: a writer sets the flag before it touches the goal. *)
(* A queued message comes first, before the look at the token, and keeps   *)
(* the slot's entry, token and all, until its start replaces it; so does   *)
(* the completion check's continuation, after that look.                   *)
EndWithFollowup ==
    /\ TurnMayAct
    /\ busy' = "nextHuman"
    /\ UNCHANGED <<copies, armed, cancelled, writer, restarts, overlap, opened, wish>>

EndWithContinuation ==
    /\ TurnMayAct
    /\ ~cancelled
    /\ busy' = "nextMachine"
    /\ UNCHANGED <<copies, armed, cancelled, writer, restarts, overlap, opened, wish>>

(* start_turn of that message or continuation puts its own token in.       *)
StartNext ==
    /\ busy \in {"nextHuman", "nextMachine"}
    /\ busy' = IF busy = "nextHuman" THEN "human" ELSE "machine"
    /\ cancelled' = FALSE
    /\ UNCHANGED <<copies, armed, writer, restarts, overlap, opened, wish>>

(* The token goes with the slot's entry. *)

EndCancelled ==
    /\ TurnMayAct
    /\ cancelled
    /\ armed' = FALSE
    /\ busy' = "none" /\ cancelled' = FALSE
    /\ overruled' = wanted
    /\ UNCHANGED <<copies, writer, restarts, overlap, opened, wanted>>

IdleDisarms ==
    /\ TurnMayAct
    /\ ~cancelled
    /\ ~(RoundsLeft(goal) /\ armed) \/ writer["user"].at = "resumed"
    /\ armed' = FALSE
    /\ busy' = "none"
    /\ UNCHANGED <<copies, cancelled, writer, restarts, overlap, opened, wish>>

EndIdle ==
    /\ TurnMayAct
    /\ ~cancelled
    /\ ~(RoundsLeft(goal) /\ armed)
    /\ busy' = "none"
    /\ UNCHANGED <<copies, cancelled, armed, writer, restarts, overlap, opened, wish>>

(* The round is recorded before it runs; the slot stays reserved. *)
EndWithRound ==
    /\ TurnMayAct
    /\ ~cancelled
    /\ RoundsLeft(goal) /\ armed
    /\ Put("turn", StartRound(goal), "spawn")
    /\ UNCHANGED <<copies, armed, slotOf, restarts, opened, wish>>

(* The process ends anywhere; new_loaded folds the log and arms nothing. *)
GoalRestart ==
    /\ restarts < RestartBound
    /\ restarts' = restarts + 1
    /\ goal' = goalRow /\ goalShown' = goalRow
    /\ armed' = FALSE
    /\ busy' = "none" /\ cancelled' = FALSE
    /\ writer' = [a \in GoalActors |-> NoWriter]
    /\ overlap' = FALSE
    /\ opened' = goalRow.rounds
    /\ wanted' = FALSE /\ overruled' = FALSE
    /\ UNCHANGED goalRow

GoalNext ==
    \/ \E a \in GoalActors : PutLog(a) \/ PutEmit(a) \/ PutMem(a) \/ SpawnRound(a)
    \/ \E t \in Texts : CommandEdit(t) \/ CreateGoal(t)
    \/ \E act \in GoalActions : CommandGoal(act)
    \/ \E rev \in 1 .. RevBound, act \in GoalActions : UpdateGoal(rev, act)
    \/ CommandContinue
    \/ HumanTurn \/ StopTurn
    \/ EndWithFollowup \/ EndWithContinuation \/ StartNext \/ EndCancelled \/ EndIdle \/ EndWithRound
    \/ GoalRestart

GoalSpec == GoalInit /\ [][GoalNext]_goalVars

-----------------------------------------------------------------------------
(* Properties *)

NobodyWrites == \A a \in GoalActors : Idle(a)

(* The three copies put_goal keeps (log, frontend, memory) agree whenever  *)
(* no one is inside it and no two writers have been in it together, so a   *)
(* restart then brings back the goal the session had.                      *)
GoalCopiesAgree ==
    NobodyWrites /\ ~overlap => goal = goalRow /\ goal = goalShown

(* A goal opens at most max_rounds rounds, counting those the driver and   *)
(* /goal continue open in any mixture of pauses, edits and restarts, as    *)
(* long as no two writers met inside put_goal: the row of a round is       *)
(* written before the round runs.                                          *)
RoundsWithinBudget == ~overlap => opened <= goal.rounds \/ goal.id = 0

(* What the person asked for, with create-goal or with /goal continue on   *)
(* whatever turn, stays armed until it is used up or taken back by Stop,   *)
(* pause or an end of the goal.  One path in the code drops it all the     *)
(* same, and only that one: a turn that had been stopped before they said  *)
(* continue ends after it, and its end disarms (`overruled`).              *)
ContinueKept ==
    NobodyWrites /\ wanted /\ ~overlap /\ RoundsLeft(goal) => armed \/ overruled

(* The end of a stopped turn: "Disarming makes that explicit and durable   *)
(* until they say continue".  Refuted: they said continue while it was     *)
(* ending, were told the goal is active, and are disarmed afterwards.      *)
ContinueHeard == ~overruled

(* put_goal: "the three copies - log, memory, frontend - cannot drift".    *)
(* Refuted: a /goal command and the round driver can be inside it at once. *)
CopiesNeverDrift == NobodyWrites => goal = goalRow /\ goal = goalShown
=============================================================================
