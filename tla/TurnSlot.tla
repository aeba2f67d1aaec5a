----------------------------- MODULE TurnSlot -----------------------------
(***************************************************************************)
(* The life of the turns of one chat session (ChatHub in                   *)
(* crates/backend/src/chat.rs): who holds the session's entry in           *)
(* `active_turns`, what its inbox holds, and what follows a turn.          *)
(*                                                                         *)
(* Every map of the hub is keyed by session and no step here reads the     *)
(* entry of another session, so one session is modelled.  Four kinds of    *)
(* actors interleave:                                                      *)
(*   - the dispatcher, which handles one frontend request at a time and    *)
(*     awaits it to the end (`disp` is the request it is inside of);       *)
(*   - calls of start_turn, either awaited by the dispatcher or spawned    *)
(*     by start_boxed (pc "opening" and "logged");                         *)
(*   - turn tasks, from their registration to their last step (pc "top",   *)
(*     "calling", "ending");                                               *)
(*   - the schedule timer, which claims an idle slot (pc "claim").         *)
(* An id names a start_turn call, the turn it becomes and that turn's      *)
(* marker and token; a schedule claim has a marker, so an id, of its own.  *)
(***************************************************************************)
EXTENDS Integers, TLC

CONSTANTS
    Msgs,       \* the texts a user may send
    NoMsg,      \* the prompt of a turn no user text started
    MaxIds,     \* bound: ids, at least one per start the other bounds allow
    MaxInjects, \* bound: positions the runtime may use up with injects
    Rounds,     \* rounds the goal has left at the start
    AutoBound,  \* bound: continuations the completion check may open
    DueBound    \* bound: schedule deliveries

ASSUME TurnSlotAssumption ==
    /\ NoMsg \notin Msgs
    /\ MaxIds \in Nat \ {0}
    /\ {MaxInjects, Rounds, AutoBound, DueBound} \subseteq Nat

Ids == 1 .. MaxIds
None == 0

Human == {"human", "followup"}
Sources == Human \cup {"auto", "goal", "schedule", "none"}
PCs == {"none", "opening", "logged", "top", "calling", "ending", "over",
        "gone", "claim"}

-----------------------------------------------------------------------------
(* The per-session inbox (crates/backend/src/inbox.rs): what waits to      *)
(* enter the turn loop.  The code keeps a VecDeque per session and never   *)
(* reorders it, so the queue is a set of items here and `pos`, minted      *)
(* under the queue lock, is the place of an item in it.  A position also   *)
(* stands for the item's id: an id is unique and names the item until it   *)
(* leaves the queue.                                                       *)

Kinds == {"followup", "steer", "inject"}

(* What a queue of messages drawn from M may hold. *)
Items(M) == [pos : Nat, kind : Kinds, msg : M]

(* Inbound::Followup items, the ones that run as turns of their own. *)
Followups(q) == {i \in q : i.kind = "followup"}

(* Inbox::push at position p. *)
Push(q, p, k, m) == q \cup {[pos |-> p, kind |-> k, msg |-> m]}

(* The items Inbox::drain_mid_turn hands over, and the queue it leaves. *)
MidTurn(q) == {i \in q : i.kind # "followup"}
DrainMidTurn(q) == {i \in q : i.kind = "followup"}

(* Mutant of OldestFollowup: any followup. *)
AnyFollowup(q) == Followups(q)

(* Inbox::take_followup: the oldest followup, as a set of at most one item. *)
OldestFollowup(q) ==
    {i \in Followups(q) : \A j \in Followups(q) : i.pos <= j.pos}

(* Inbox::edit and Inbox::remove answer `false` / `None` unless the id     *)
(* still names a waiting followup.                                         *)
Waiting(q, p) == {i \in Followups(q) : i.pos = p}
Edit(q, p, m) ==
    {i \in q : i \notin Waiting(q, p)}
        \cup {[i EXCEPT !.msg = m] : i \in Waiting(q, p)}

(* Mutant of Remove: the item is handed out and stays. *)
RemoveCopies(q, p) == q

Remove(q, p) == q \ Waiting(q, p)

-----------------------------------------------------------------------------
VARIABLES
    exists,    \* the session's log is in ChatHub.sessions
    slot,      \* active_turns[session]: the marker in it, or None
    cancelled, \* ids whose cancellation token has fired
    pc,        \* where each start_turn call or turn is
    src,       \* TurnSource of each
    prompt,    \* the user text each was started with
    inbox,     \* the session's queue
    nextPos,   \* the next position to mint in it
    disp,      \* the request the dispatcher is inside of
    armed,     \* goal_armed
    goalLeft,  \* rounds the goal may still open; 0 when it is not active
    autoLeft, dueLeft,  \* what is left of AutoBound and DueBound
    (* history, read by the properties only *)
    sent,      \* user texts the hub has accepted or refused
    ran,       \* how often the log holds each user text
    evicted,   \* live turns whose slot another actor released
    stranded,  \* a release left followups waiting and no turn began since
    stopped    \* Stop was pressed and nothing human has arrived since

taskVars == <<slot, cancelled, pc, src, prompt>>
goalVars == <<armed, goalLeft>>
bounds == <<autoLeft, dueLeft>>
history == <<sent, ran, evicted, stranded, stopped>>
vars == <<exists, taskVars, inbox, nextPos, disp, goalVars, bounds, history>>

NotBusy == [pc |-> "idle", id |-> None, msg |-> NoMsg, pos |-> 0]

Init ==
    /\ exists = TRUE
    /\ slot = None
    /\ cancelled = {}
    /\ pc = [t \in Ids |-> "none"]
    /\ src = [t \in Ids |-> "none"]
    /\ prompt = [t \in Ids |-> NoMsg]
    /\ inbox = {}
    /\ nextPos = 1
    /\ disp = NotBusy
    /\ armed = FALSE
    /\ goalLeft = Rounds
    /\ autoLeft = AutoBound
    /\ dueLeft = DueBound
    /\ sent = {}
    /\ ran = [m \in Msgs |-> 0]
    /\ evicted = {}
    /\ stranded = FALSE
    /\ stopped = FALSE

(* A turn task that has not taken its last decision and may still work. *)
Running(t) == pc[t] \in {"top", "calling", "ending"}
Live(t) == Running(t) /\ t \notin cancelled

(* Ids are handed out in order: fetch_add on next_marker. *)
Fresh(t) == pc[t] = "none" /\ \A u \in Ids : u < t => pc[u] # "none"

(* A start_turn call begins, on the dispatcher or as a spawned task. *)
Open(t, s, m) ==
    /\ Fresh(t)
    /\ pc' = [pc EXCEPT ![t] = "opening"]
    /\ src' = [src EXCEPT ![t] = s]
    /\ prompt' = [prompt EXCEPT ![t] = m]

(* active_turns.remove(session), whoever holds the entry. *)
Release ==
    /\ slot' = None
    /\ evicted' = evicted \cup {t \in Ids : t = slot /\ Live(t)}
    /\ stranded' = (stranded \/ Followups(inbox) # {})

(* The texts in S join the log. *)
Logged(S) == [m \in Msgs |-> IF m \in S THEN ran[m] + 1 ELSE ran[m]]

(* The dispatcher returns from the request that awaited t. *)
Return(t) == disp' = IF disp.id = t THEN NotBusy ELSE disp

-----------------------------------------------------------------------------
(* start_turn *)

(* Mutant of StartRefused: it forgets to give a reserved slot back. *)
StartRefusedKeepsSlot(t) ==
    /\ pc[t] = "opening"
    /\ pc' = [pc EXCEPT ![t] = "over"]
    /\ Return(t)
    /\ UNCHANGED <<exists, slot, cancelled, src, prompt, inbox, nextPos,
                   goalVars, bounds, history>>

(* No model is connected, or a UserPromptSubmit hook denies the prompt:    *)
(* the entry is removed unconditionally and nothing is written.            *)
StartRefused(t) ==
    /\ pc[t] = "opening"
    /\ Release
    /\ pc' = [pc EXCEPT ![t] = "over"]
    /\ Return(t)
    /\ UNCHANGED <<exists, cancelled, src, prompt, inbox, nextPos, goalVars,
                   bounds, sent, ran, stopped>>

(* The log block: the session is created when it is not there, and the     *)
(* prompt is in its log.                                                   *)
StartLog(t) ==
    /\ pc[t] = "opening"
    /\ exists' = TRUE
    /\ ran' = Logged({prompt[t]})
    /\ pc' = [pc EXCEPT ![t] = "logged"]
    /\ UNCHANGED <<slot, cancelled, src, prompt, inbox, nextPos, disp,
                   goalVars, bounds, sent, evicted, stranded,
                   stopped>>

(* Mutant of StartRegister: the token it finds is not cancelled. *)
StartRegisterSpares(t) ==
    /\ pc[t] = "logged"
    /\ slot' = t
    /\ pc' = [pc EXCEPT ![t] = "top"]
    /\ Return(t)
    /\ stranded' = FALSE
    /\ UNCHANGED <<exists, cancelled, src, prompt, inbox, nextPos, goalVars,
                   bounds, sent, ran, evicted, stopped>>

(* The entry is replaced and the token found in it cancelled; then the     *)
(* turn task is spawned.                                                   *)
StartRegister(t) ==
    /\ pc[t] = "logged"
    /\ slot' = t
    /\ cancelled' = cancelled \cup ({slot} \ {None})
    /\ pc' = [pc EXCEPT ![t] = "top"]
    /\ Return(t)
    /\ stranded' = FALSE
    /\ UNCHANGED <<exists, src, prompt, inbox, nextPos, goalVars, bounds,
                   sent, ran, evicted, stopped>>

-----------------------------------------------------------------------------
(* The turn task *)

(* The top of a hop finds the token cancelled. *)
HopCancelled(t) ==
    /\ pc[t] = "top"
    /\ t \in cancelled
    /\ pc' = [pc EXCEPT ![t] = "ending"]
    /\ UNCHANGED <<exists, slot, cancelled, src, prompt, inbox, nextPos, disp,
                   goalVars, bounds, history>>

(* Otherwise the steers and injects are drained into the log, and a        *)
(* request goes out, unless the flush or the prompt assembly fails or the  *)
(* session is gone, which end the turn.                                    *)
HopTop(t) ==
    /\ pc[t] = "top"
    /\ t \notin cancelled
    /\ inbox' = DrainMidTurn(inbox)
    /\ ran' = IF exists THEN Logged({i.msg : i \in MidTurn(inbox)}) ELSE ran
    /\ \/ exists /\ pc' = [pc EXCEPT ![t] = "calling"]
       \/ pc' = [pc EXCEPT ![t] = "ending"]
    /\ UNCHANGED <<exists, slot, cancelled, src, prompt, nextPos, disp,
                   goalVars, bounds, sent, evicted, stranded,
                   stopped>>

(* The request ended in a tool call, a nudge or a retry: another hop. *)
HopAgain(t) ==
    /\ pc[t] = "calling"
    /\ pc' = [pc EXCEPT ![t] = "top"]
    /\ UNCHANGED <<exists, slot, cancelled, src, prompt, inbox, nextPos, disp,
                   goalVars, bounds, history>>

(* The loop is left, and TurnEnd appended. *)
HopLast(t) ==
    /\ pc[t] = "calling"
    /\ pc' = [pc EXCEPT ![t] = "ending"]
    /\ UNCHANGED <<exists, slot, cancelled, src, prompt, inbox, nextPos, disp,
                   goalVars, bounds, history>>

(* The reply is there but the session is not: the task returns at once. *)
HopVanished(t) ==
    /\ pc[t] = "calling"
    /\ ~exists
    /\ pc' = [pc EXCEPT ![t] = "gone"]
    /\ UNCHANGED <<exists, slot, cancelled, src, prompt, inbox, nextPos, disp,
                   goalVars, bounds, history>>

(* create-goal in a turn with human authority arms the goal. *)
ArmGoal(t) ==
    /\ pc[t] = "calling"
    /\ src[t] \in Human
    /\ goalLeft > 0
    /\ armed' = TRUE
    /\ UNCHANGED <<exists, taskVars, inbox, nextPos, disp, goalLeft, bounds,
                   history>>

(***************************************************************************)
(* What follows the turn, decided under the active_turns lock.  The        *)
(* completion check ran before it, outside the lock; its answer is the     *)
(* choice between DecideContinue and the steps below it.                   *)
(***************************************************************************)
Deciding(t) == pc[t] = "ending" /\ slot = t

(* A newer registration owns the slot, or it was released. *)
DecideStale(t) ==
    /\ pc[t] = "ending"
    /\ slot # t
    /\ pc' = [pc EXCEPT ![t] = "over"]
    /\ UNCHANGED <<exists, slot, cancelled, src, prompt, inbox, nextPos, disp,
                   goalVars, bounds, history>>

(* Mutant of HandOff: the slot stays reserved and nothing is spawned. *)
HandOffDropped(t, n, s, m) ==
    /\ Fresh(n)
    /\ pc' = [pc EXCEPT ![t] = "over", ![n] = "over"]
    /\ UNCHANGED <<src, prompt>>

(* Hand the slot, still reserved, to a start_turn call n. *)
HandOff(t, n, s, m) ==
    /\ Fresh(n)
    /\ pc' = [pc EXCEPT ![t] = "over", ![n] = "opening"]
    /\ src' = [src EXCEPT ![n] = s]
    /\ prompt' = [prompt EXCEPT ![n] = m]

(* Mutant of DecideFollowup: the followup is read and left in the queue. *)
DecideFollowupPeeks(t) ==
    /\ Deciding(t)
    /\ \E i \in OldestFollowup(inbox), n \in Ids :
          HandOff(t, n, "followup", i.msg)
    /\ UNCHANGED <<exists, slot, cancelled, inbox, nextPos, disp, goalVars,
                   bounds, history>>

DecideFollowup(t) ==
    /\ Deciding(t)
    /\ \E i \in OldestFollowup(inbox), n \in Ids :
          /\ inbox' = inbox \ {i}
          /\ HandOff(t, n, "followup", i.msg)
    /\ UNCHANGED <<exists, slot, cancelled, nextPos, disp, goalVars, bounds,
                   history>>

DecideStopped(t) ==
    /\ Deciding(t)
    /\ Followups(inbox) = {}
    /\ t \in cancelled
    /\ armed' = FALSE
    /\ slot' = None
    /\ pc' = [pc EXCEPT ![t] = "over"]
    /\ UNCHANGED <<exists, cancelled, src, prompt, inbox, nextPos, disp,
                   goalLeft, bounds, history>>

DecideContinue(t) ==
    /\ Deciding(t)
    /\ Followups(inbox) = {}
    /\ t \notin cancelled
    /\ autoLeft > 0
    /\ autoLeft' = autoLeft - 1
    /\ \E n \in Ids : HandOff(t, n, "auto", NoMsg)
    /\ UNCHANGED <<exists, slot, cancelled, inbox, nextPos, disp, goalVars,
                   dueLeft, history>>

(* Mutant of StartRound: a goal with no round left opens one more. *)
StartRoundUnchecked ==
    goalLeft' = goalLeft - 1

(* goal::start_round, and put_goal disarms a goal with no rounds left. *)
StartRound ==
    /\ goalLeft > 0
    /\ goalLeft' = goalLeft - 1

DecideRound(t) ==
    /\ Deciding(t)
    /\ Followups(inbox) = {}
    /\ t \notin cancelled
    /\ armed
    /\ StartRound
    /\ armed' = (goalLeft' > 0)
    /\ \E n \in Ids : HandOff(t, n, "goal", NoMsg)
    /\ UNCHANGED <<exists, slot, cancelled, inbox, nextPos, disp, bounds,
                   history>>

(* Mutant of DecideIdle: the queue is not looked at under the lock. *)
DecideIdleUnchecked(t) ==
    /\ Deciding(t)
    /\ t \notin cancelled
    /\ ~(armed /\ goalLeft > 0)
    /\ slot' = None
    /\ pc' = [pc EXCEPT ![t] = "over"]
    /\ UNCHANGED <<exists, cancelled, src, prompt, inbox, nextPos, disp,
                   goalVars, bounds, history>>

DecideIdle(t) ==
    /\ Deciding(t)
    /\ Followups(inbox) = {}
    /\ t \notin cancelled
    /\ ~(armed /\ goalLeft > 0)
    /\ slot' = None
    /\ pc' = [pc EXCEPT ![t] = "over"]
    /\ UNCHANGED <<exists, cancelled, src, prompt, inbox, nextPos, disp,
                   goalVars, bounds, history>>

-----------------------------------------------------------------------------
(* Requests of the frontend, one at a time *)

DispIdle == disp.pc = "idle"

(* The dispatcher calls start_turn and awaits it. *)
DispStart(m) ==
    /\ \E t \in Ids :
          /\ Open(t, "human", m)
          /\ disp' = [NotBusy EXCEPT !.pc = "await", !.id = t]
    /\ sent' = sent \cup {m}
    /\ stopped' = FALSE
    /\ UNCHANGED <<exists, slot, cancelled, inbox, nextPos, goalVars, bounds,
                   ran, evicted, stranded>>

(* send_user_message checks the slot and queues under one lock; when the   *)
(* slot is free it drops the lock before it calls start_turn.              *)
SendQueued(m) ==
    /\ DispIdle
    /\ m \notin sent
    /\ slot # None
    /\ inbox' = Push(inbox, nextPos, "followup", m)
    /\ nextPos' = nextPos + 1
    /\ sent' = sent \cup {m}
    /\ stopped' = FALSE
    /\ UNCHANGED <<exists, taskVars, disp, goalVars, bounds, ran, evicted, stranded>>

SendStart(m) ==
    /\ DispIdle
    /\ m \notin sent
    /\ slot = None
    /\ DispStart(m)

(* edit_user_message re-runs a logged prompt in an idle session. *)
EditUserMessage(m) ==
    /\ DispIdle
    /\ m \notin sent
    /\ slot = None
    /\ exists
    /\ \E old \in Msgs : ran[old] > 0
    /\ DispStart(m)

(* steer_turn reads the slot, lets go of the lock, and then enqueues. *)
SteerTurn(m) ==
    /\ DispIdle
    /\ m \notin sent
    /\ slot # None
    /\ disp' = [NotBusy EXCEPT !.pc = "steer", !.msg = m]
    /\ sent' = sent \cup {m}
    /\ stopped' = FALSE
    /\ UNCHANGED <<exists, taskVars, inbox, nextPos, goalVars, bounds, ran,
                   evicted, stranded>>

SteerPush ==
    /\ disp.pc = "steer"
    /\ inbox' = Push(inbox, nextPos, "steer", disp.msg)
    /\ nextPos' = nextPos + 1
    /\ disp' = NotBusy
    /\ UNCHANGED <<exists, taskVars, goalVars, bounds, history>>

(* steer_queued: the slot check, then the row is removed, then pushed.     *)
SteerQueued(i) ==
    /\ DispIdle
    /\ slot # None
    /\ disp' = [NotBusy EXCEPT !.pc = "promote", !.pos = i.pos]
    /\ UNCHANGED <<exists, taskVars, inbox, nextPos, goalVars, bounds,
                   history>>

PromoteTake ==
    /\ disp.pc = "promote"
    /\ disp' = IF Waiting(inbox, disp.pos) = {}
               THEN NotBusy
               ELSE [NotBusy EXCEPT
                        !.pc = "steer",
                        !.msg = (CHOOSE i \in Waiting(inbox, disp.pos) : TRUE).msg]
    /\ inbox' = Remove(inbox, disp.pos)
    /\ UNCHANGED <<exists, taskVars, nextPos, goalVars, bounds, history>>

(* edit_queued and remove_queued on a row that is still waiting. *)
EditQueued(i, m) ==
    /\ DispIdle
    /\ m \notin sent
    /\ inbox' = Edit(inbox, i.pos, m)
    /\ sent' = sent \cup {m}
    /\ UNCHANGED <<exists, taskVars, nextPos, disp, goalVars, bounds, ran,
                   evicted, stranded, stopped>>

RemoveQueued(i) ==
    /\ DispIdle
    /\ inbox' = Remove(inbox, i.pos)
    /\ UNCHANGED <<exists, taskVars, nextPos, disp, goalVars, bounds,
                   history>>

(* interrupt_session: cancel the token in the slot, disarm the goal, drop  *)
(* the steers and injects.                                                 *)
Interrupt ==
    /\ DispIdle
    /\ cancelled' = cancelled \cup ({slot} \ {None})
    /\ armed' = FALSE
    /\ inbox' = DrainMidTurn(inbox)
    /\ stopped' = TRUE
    /\ UNCHANGED <<exists, slot, pc, src, prompt, nextPos, disp, goalLeft,
                   bounds, sent, ran, evicted, stranded>>

(* command_goal "continue": arm, and open a round when the slot is free.   *)
(* The slot is read without being reserved; the round is a spawned call.   *)
GoalContinueBusy ==
    /\ DispIdle
    /\ goalLeft > 0
    /\ slot # None
    /\ armed' = TRUE
    /\ stopped' = FALSE
    /\ UNCHANGED <<exists, taskVars, inbox, nextPos, disp, goalLeft, bounds,
                   sent, ran, evicted, stranded>>

GoalContinueIdle ==
    /\ DispIdle
    /\ slot = None
    /\ StartRound
    /\ armed' = (goalLeft' > 0)
    /\ \E n \in Ids : Open(n, "goal", NoMsg)
    /\ stopped' = FALSE
    /\ UNCHANGED <<exists, slot, cancelled, inbox, nextPos, disp, bounds, sent,
                   ran, evicted, stranded>>

(* delete_session leaves active_turns as it is. *)
DeleteSession ==
    /\ DispIdle
    /\ exists
    /\ exists' = FALSE
    /\ inbox' = {}
    /\ armed' = FALSE
    /\ goalLeft' = 0
    /\ UNCHANGED <<taskVars, nextPos, disp, bounds, history>>

-----------------------------------------------------------------------------
(* Background actors *)

(* inject_context, and the notice of a finished job (jobs_bridge). *)
Inject ==
    /\ nextPos <= MaxInjects
    /\ inbox' = Push(inbox, nextPos, "inject", NoMsg)
    /\ nextPos' = nextPos + 1
    /\ UNCHANGED <<exists, taskVars, disp, goalVars, bounds, history>>

(* deliver_due_schedules claims an idle slot under the lock ...            *)
ScheduleClaim ==
    /\ dueLeft > 0
    /\ slot = None
    /\ \A t \in Ids : pc[t] # "claim"
    /\ dueLeft' = dueLeft - 1
    /\ \E c \in Ids :
          /\ Fresh(c)
          /\ slot' = c
          /\ pc' = [pc EXCEPT ![c] = "claim"]
    /\ UNCHANGED <<exists, cancelled, src, prompt, inbox, nextPos, disp,
                   goalVars, autoLeft, history>>

(* ... dispatches what is due and spawns the turn ...                      *)
ScheduleSpawn(c) ==
    /\ pc[c] = "claim"
    /\ \E n \in Ids : HandOff(c, n, "schedule", NoMsg)
    /\ UNCHANGED <<exists, slot, cancelled, inbox, nextPos, disp, goalVars,
                   bounds, history>>

(* ... or finds nothing due any more and removes the entry.                *)
ScheduleRelease(c) ==
    /\ pc[c] = "claim"
    /\ Release
    /\ pc' = [pc EXCEPT ![c] = "over"]
    /\ UNCHANGED <<exists, cancelled, src, prompt, inbox, nextPos, disp,
                   goalVars, bounds, sent, ran, stopped>>

-----------------------------------------------------------------------------
Start(t) == StartRefused(t) \/ StartLog(t) \/ StartRegister(t)
Hop(t) == HopCancelled(t) \/ HopTop(t) \/ HopAgain(t) \/ HopLast(t)
            \/ HopVanished(t) \/ ArmGoal(t)
Decide(t) == DecideStale(t) \/ DecideFollowup(t) \/ DecideStopped(t)
               \/ DecideContinue(t) \/ DecideRound(t) \/ DecideIdle(t)
Schedule(t) == ScheduleSpawn(t) \/ ScheduleRelease(t)

Request ==
    \/ \E m \in Msgs : SendQueued(m) \/ SendStart(m) \/ EditUserMessage(m)
                         \/ SteerTurn(m)
    \/ \E i \in Followups(inbox) :
          \/ SteerQueued(i)
          \/ RemoveQueued(i)
          \/ \E m \in Msgs : EditQueued(i, m)
    \/ SteerPush \/ PromoteTake
    \/ Interrupt \/ GoalContinueBusy \/ GoalContinueIdle \/ DeleteSession

Next ==
    \/ \E t \in Ids : Start(t) \/ Hop(t) \/ Decide(t) \/ Schedule(t)
    \/ Request
    \/ Inject
    \/ ScheduleClaim

Spec == Init /\ [][Next]_vars

(***************************************************************************)
(* Fairness.  Every step of a start_turn call, of a turn task and of the   *)
(* timer is taken by a tokio task that is never parked for good: the       *)
(* request has an idle timeout, hooks and the completion check have theirs *)
(* and the locks are held across no wait but each other's.  A turn cannot  *)
(* keep hopping either (the budgets of module TurnLoop), which is strong   *)
(* fairness of leaving the loop.  Nothing is assumed of the user.          *)
(***************************************************************************)
Fairness ==
    /\ \A t \in Ids :
          /\ WF_vars(Start(t))
          /\ WF_vars(HopCancelled(t) \/ HopTop(t) \/ HopAgain(t))
          /\ SF_vars(HopLast(t))
          /\ WF_vars(Decide(t))
          /\ WF_vars(Schedule(t))
    /\ WF_vars(SteerPush \/ PromoteTake)

FairSpec == Spec /\ Fairness

-----------------------------------------------------------------------------
(* Properties *)

DispStates ==
    [pc : {"idle", "await", "steer", "promote"}, id : Ids \cup {None},
     msg : Msgs \cup {NoMsg}, pos : Nat]

(* Types; goalLeft in Nat says that no round is opened past the goal's.    *)
TypeOK ==
    /\ exists \in BOOLEAN
    /\ slot \in Ids \cup {None}
    /\ cancelled \in SUBSET Ids
    /\ pc \in [Ids -> PCs]
    /\ src \in [Ids -> Sources]
    /\ prompt \in [Ids -> Msgs \cup {NoMsg}]
    /\ inbox \in SUBSET Items(Msgs \cup {NoMsg})
    /\ nextPos \in Nat
    /\ disp \in DispStates
    /\ armed \in BOOLEAN
    /\ {goalLeft, autoLeft, dueLeft} \subseteq Nat
    /\ sent \in SUBSET Msgs
    /\ ran \in [Msgs -> Nat]
    /\ evicted \in SUBSET Ids
    /\ stranded \in BOOLEAN
    /\ stopped \in BOOLEAN

(* A live turn is the one the slot names, so that Stop reaches it and a    *)
(* send queues behind it, unless somebody else's refused start released    *)
(* its slot.  In particular two live turns never share a session.          *)
LiveTurnOwnsSlot ==
    \A t \in Ids : Live(t) /\ t \notin evicted => slot = t

(* The promise of send_user_message's comment: a turn ending right now     *)
(* either sees the followup or leaves its slot standing.  A followup waits *)
(* in an idle session only after a refused start gave the slot away.       *)
FollowupHasTurn == Followups(inbox) # {} => slot # None \/ stranded

(* The places a user's text can be in before the log. *)
Held(m) ==
    \/ \E i \in inbox : i.msg = m
    \/ \E t \in Ids : pc[t] = "opening" /\ prompt[t] = m
    \/ disp.msg = m

life == [m \in Msgs |->
            IF ran[m] > 0 THEN (IF ran[m] = 1 THEN "ran" ELSE "ran again")
            ELSE IF Held(m) THEN "waiting"
            ELSE IF m \in sent THEN "dropped"
            ELSE "unsent"]

Life == INSTANCE Delivery WITH life <- life
(* Every text is accepted once and is then, for good, in the log or        *)
(* dropped: TurnSlot implements Delivery.                                  *)
DeliveredOnce == Life!Spec

(* A text is in one place at a time, so no message can enter the           *)
(* conversation twice through two of them (a promotion racing a claim).    *)
HeldOnce ==
    \A m \in Msgs :
        /\ \A i, j \in inbox : i.msg = m /\ j.msg = m => i = j
        /\ \A t, u \in Ids :
              pc[t] = "opening" /\ pc[u] = "opening" /\ prompt[t] = m
                /\ prompt[u] = m => t = u
        /\ (\E i \in inbox : i.msg = m)
              => disp.msg # m /\ \A t \in Ids : prompt[t] # m
        /\ ran[m] > 0 => \A i \in inbox : i.msg # m

(* Followups run in the order they were queued: a claim never passes over  *)
(* an older row.                                                           *)
ClaimsInOrder ==
    [][\A i \in Followups(inbox) :
          (i \notin inbox' /\ \E t \in Ids : pc[t] = "none" /\ pc'[t] = "opening"
                                              /\ prompt'[t] = i.msg)
             => \A j \in Followups(inbox) : i.pos <= j.pos]_vars

(* A slot left behind by a task that returned because its session was gone. *)
Leaked == slot \in Ids /\ pc[slot] = "gone"

(* A taken slot is given back: no handoff, claim or refused start keeps a  *)
(* session busy for ever.                                                  *)
SlotComesBack == slot # None ~> slot = None \/ Leaked

(* A queued followup is eventually claimed or withdrawn. *)
FollowupServed ==
    Followups(inbox) # {} ~> Followups(inbox) = {} \/ stranded \/ Leaked

-----------------------------------------------------------------------------
(* Properties the sources state and the code does not keep (see README).   *)

(* A start that is refused releases a reserved slot and is "a no-op on the *)
(* ordinary path" (chat.rs, start_turn): it never takes the slot from a    *)
(* turn that is running.                                                   *)
RefusalIsNoOp == evicted = {}

(* "Delivery never interrupts a turn": the turn of a due schedule finds no *)
(* live turn in the slot when it registers, and so cancels none.           *)
DeliveryNeverInterrupts ==
    [][\A t, u \in Ids :
          StartRegister(t) /\ src[t] = "schedule" /\ u = slot => ~Live(u)]_vars

(* "Stop also stops the goal loop": after Stop, and until the user does    *)
(* something else, no goal round is live.                                  *)
StopStopsGoal == stopped => \A t \in Ids : src[t] = "goal" => ~Live(t)

(* A message sent while a turn runs "runs as the next turn, with no second *)
(* send needed": a slot is not given back while followups wait.            *)
QueuedRunsUnaided == ~stranded

(* "A steer or inject is spent at the running turn's next hop": a steer    *)
(* waits only where a turn runs or is about to.                            *)
SteerHasTurn ==
    (\E i \in inbox : i.kind = "steer")
        => slot # None \/ \E t \in Ids : pc[t] \in {"opening", "logged"}

(* A session does not read as busy "behind a turn that does not exist": a  *)
(* taken slot has a turn, a claim or a start in flight behind it.          *)
SlotHasOwner ==
    slot # None =>
        \/ \E t \in Ids : pc[t] \in {"opening", "logged", "claim"}
        \/ Running(slot)

(* The texts are interchangeable: the safety run takes them up to a        *)
(* permutation.                                                            *)
Symmetry == Permutations(Msgs)
=============================================================================
