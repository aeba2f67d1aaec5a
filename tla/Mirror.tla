------------------------------- MODULE Mirror -------------------------------
(***************************************************************************)
(* What the desktop shows of the backend's sessions                        *)
(* (crates/frontend/src/app.rs, ui/chat/composer.rs): the open session, its *)
(* transcript, queue dock, goal bar and busy marks, kept in step by         *)
(* requests one way and events the other, each a FIFO of its own.  The      *)
(* backend is reduced to what it emits and in which order (chat.rs).        *)
(***************************************************************************)
EXTENDS Integers, Sequences, SequencesExt, Picked

CONSTANTS
    Tabs,          \* the sessions
    GoalTabs,      \* those with a goal
    PromptBound,   \* bound: prompts the user sends
    TabBound,      \* bound: clicks on another session
    HopBound       \* bound: hops of all turns

VARIABLES
    active,      \* chat.session_id
    screen,      \* chat.turns, as rows
    dock,        \* chat.queued: prompts; 0 is a local echo
    goalBar,     \* the session whose goal is shown, or none
    busyTabs,    \* chat.running_sessions
    wire,        \* events on their way to the interface
    orders,      \* requests on their way to the backend
    llmUp,       \* an LLM is connected
    turnOf,      \* per session: "idle", "begun", or in a "hop" or a "gap"
    waiting,     \* per session: its queued prompts
    stored,      \* per session: its stored prompts
    prompts,     \* history: per prompt, the session it was sent to
    tabClicks, hops

mirrorVars == <<active, screen, dock, goalBar, busyTabs, wire, orders, llmUp,
                turnOf, waiting, stored, prompts, tabClicks, hops>>
screenVars == <<active, screen, dock, goalBar, busyTabs>>
hubVars == <<llmUp, turnOf, waiting, stored>>

NoTab == 0
Echo == 0

ASSUME MirrorAssumption == NoTab \notin Tabs

(* A row of the transcript: whose it is, the prompt it shows, the prompt   *)
(* whose seq it was given, the sessions whose deltas it took.              *)
Row(s, p) == [of |-> s, prompt |-> p, handle |-> 0, heard |-> {}, finished |-> FALSE]

MirrorInit ==
    /\ active \in Tabs /\ screen = <<>> /\ dock = <<>> /\ goalBar = NoTab
    /\ busyTabs = {} /\ wire = <<>> /\ orders = <<[req |-> "load", tab |-> active]>>
    /\ llmUp = FALSE
    /\ turnOf = [s \in Tabs |-> "idle"]
    /\ waiting = [s \in Tabs |-> <<>>] /\ stored = [s \in Tabs |-> <<>>]
    /\ prompts = <<>> /\ tabClicks = 0 /\ hops = 0

Emit(evs) == wire' = wire \o evs
Ev(kind, s, arg) == [ev |-> kind, tab |-> s, arg |-> arg]

-----------------------------------------------------------------------------
(* The user. *)

(* Mutant: the dock is not cleared. *)
SwitchKeepsDock(s) ==
    /\ s # active /\ tabClicks < TabBound /\ tabClicks' = tabClicks + 1
    /\ active' = s /\ screen' = <<>>
    /\ orders' = Append(orders, [req |-> "load", tab |-> s])
    /\ UNCHANGED <<dock, goalBar, busyTabs, wire, hubVars, prompts, hops>>

(* switch_session: the transcript and the dock are dropped, the goal and   *)
(* the other session fields stay until the answer.                         *)
SwitchSession(s) ==
    /\ s # active /\ tabClicks < TabBound /\ tabClicks' = tabClicks + 1
    /\ active' = s /\ screen' = <<>> /\ dock' = <<>>
    /\ orders' = Append(orders, [req |-> "load", tab |-> s])
    /\ UNCHANGED <<goalBar, busyTabs, wire, hubVars, prompts, hops>>

LastInFlight ==
    \/ active \in busyTabs
    \/ screen # <<>> /\ ~Last(screen).finished

(* send_message: an optimistic bubble, and an echo in the dock when the    *)
(* agent seems to be working.                                              *)
SendsPrompt ==
    LET p == Len(prompts) + 1
    IN  /\ p <= PromptBound
        /\ prompts' = Append(prompts, active)
        /\ dock' = IF LastInFlight THEN Append(dock, Echo) ELSE dock
        /\ screen' = Append(screen, Row(active, p))
        /\ orders' = Append(orders, [req |-> "send", tab |-> active, prompt |-> p])
        /\ UNCHANGED <<active, goalBar, busyTabs, wire, hubVars, tabClicks, hops>>

(* The dock's Remove, offered on rows the backend has named.  Bound: one    *)
(* click per row is under way.                                             *)
RemoveFromDock(i) ==
    LET click == [req |-> "remove", tab |-> active, prompt |-> dock[i]]
    IN  /\ dock[i] # Echo /\ ~Contains(orders, click)
        /\ orders' = Append(orders, click)
        /\ UNCHANGED <<screenVars, wire, hubVars, prompts, tabClicks, hops>>

-----------------------------------------------------------------------------
(* The backend. *)

(* dump_session pushes the queue, the jobs and the goal, then answers. *)
BeLoads(s) ==
    /\ Emit(<<Ev("queue", s, waiting[s]), Ev("goal", s, s \in GoalTabs), Ev("loaded", s, stored[s])>>)
    /\ UNCHANGED <<turnOf, waiting, stored>>

(* start_turn: without an LLM the prompt is dropped, else stored. *)
BeBegins(s, p) ==
    IF llmUp
    THEN /\ stored' = [stored EXCEPT ![s] = Append(@, p)]
         /\ turnOf' = [turnOf EXCEPT ![s] = "begun"]
         /\ Emit(<<Ev("stored", s, p)>>)
    ELSE UNCHANGED <<stored, turnOf, wire>>

(* send_user_message queues behind a running turn. *)
BeSends(s, p) ==
    IF turnOf[s] # "idle"
    THEN /\ waiting' = [waiting EXCEPT ![s] = Append(@, p)]
         /\ Emit(<<Ev("queue", s, waiting'[s])>>)
         /\ UNCHANGED <<turnOf, stored>>
    ELSE BeBegins(s, p) /\ UNCHANGED waiting

BeRemoves(s, p) ==
    /\ IF Contains(waiting[s], p)
       THEN /\ waiting' = [waiting EXCEPT ![s] = Picked(@, {i \in DOMAIN @ : @[i] # p})]
            /\ Emit(<<Ev("queue", s, waiting'[s])>>)
       ELSE UNCHANGED <<waiting, wire>>
    /\ UNCHANGED <<turnOf, stored>>

BeDispatches ==
    /\ orders # <<>> /\ orders' = Tail(orders)
    /\ LET o == Head(orders)
       IN  \/ o.req = "load" /\ BeLoads(o.tab)
           \/ o.req = "send" /\ BeSends(o.tab, o.prompt)
           \/ o.req = "remove" /\ BeRemoves(o.tab, o.prompt)
    /\ UNCHANGED <<screenVars, llmUp, prompts, tabClicks, hops>>

BeConnects ==
    /\ ~llmUp /\ llmUp' = TRUE
    /\ UNCHANGED <<screenVars, wire, orders, turnOf, waiting, stored, prompts, tabClicks, hops>>

(* One TurnStarted, deltas and one TurnFinished per hop. *)
BeHopStarts(s) ==
    /\ turnOf[s] \in {"begun", "gap"} /\ hops < HopBound /\ hops' = hops + 1
    /\ turnOf' = [turnOf EXCEPT ![s] = "hop"]
    /\ Emit(<<Ev("started", s, 0), Ev("delta", s, 0)>>)
    /\ UNCHANGED <<screenVars, orders, llmUp, waiting, stored, prompts, tabClicks>>

BeHopEnds(s) ==
    /\ turnOf[s] = "hop" /\ turnOf' = [turnOf EXCEPT ![s] = "gap"]
    /\ Emit(<<Ev("finished", s, 0)>>)
    /\ UNCHANGED <<screenVars, orders, llmUp, waiting, stored, prompts, tabClicks, hops>>

(* The end of the request: TurnUsage, then a queued prompt or idle. *)
BeTurnEnds(s) ==
    /\ turnOf[s] \in {"begun", "gap"}
    /\ IF waiting[s] = <<>>
       THEN /\ turnOf' = [turnOf EXCEPT ![s] = "idle"]
            /\ Emit(<<Ev("usage", s, 0)>>)
            /\ UNCHANGED <<waiting, stored>>
       ELSE /\ turnOf' = [turnOf EXCEPT ![s] = "begun"]
            /\ waiting' = [waiting EXCEPT ![s] = Tail(@)]
            /\ stored' = [stored EXCEPT ![s] = Append(@, Head(waiting[s]))]
            /\ Emit(<<Ev("usage", s, 0), Ev("queue", s, Tail(waiting[s])), Ev("stored", s, Head(waiting[s]))>>)
    /\ UNCHANGED <<screenVars, orders, llmUp, prompts, tabClicks, hops>>

-----------------------------------------------------------------------------
(* handle_event. *)

(* TurnStarted: the first hop of a request takes over the bubble the       *)
(* composer pushed, every other one opens a row, whichever session is open. *)
OnTurnStarted(s) ==
    LET adopts == s \notin busyTabs /\ screen # <<>> /\ ~Last(screen).finished
                  /\ Last(screen).of = s /\ Last(screen).heard = {}
    IN  /\ busyTabs' = busyTabs \cup {s}
        /\ screen' = IF adopts THEN screen ELSE Append(screen, Row(s, 0))
        /\ UNCHANGED <<active, dock, goalBar>>

(* AssistantDelta and TurnFinished go to the last row. *)
OnDelta(s) ==
    /\ screen' = IF screen = <<>> THEN screen ELSE [screen EXCEPT ![Len(screen)].heard = @ \cup {s}]
    /\ UNCHANGED <<active, dock, goalBar, busyTabs>>

OnTurnFinished(s) ==
    /\ screen' = IF screen = <<>> THEN screen ELSE [screen EXCEPT ![Len(screen)].finished = TRUE]
    /\ UNCHANGED <<active, dock, goalBar, busyTabs>>

OnTurnUsage(s) ==
    /\ busyTabs' = busyTabs \ {s}
    /\ UNCHANGED <<active, screen, dock, goalBar>>

(* UserMessageStored: the oldest bubble without a handle gets it. *)
OnStored(s, p) ==
    LET bare == {i \in DOMAIN screen : screen[i].prompt # 0 /\ screen[i].handle = 0}
    IN  /\ screen' = IF s = active /\ bare # {}
                     THEN [screen EXCEPT ![CHOOSE i \in bare : \A j \in bare : i <= j].handle = p]
                     ELSE screen
        /\ UNCHANGED <<active, dock, goalBar, busyTabs>>

(* QueueChanged supersedes every local echo. *)
OnQueue(s, q) ==
    /\ dock' = IF s = active THEN q ELSE dock
    /\ UNCHANGED <<active, screen, goalBar, busyTabs>>

OnGoal(s, has) ==
    /\ goalBar' = IF s # active THEN goalBar ELSE IF has THEN s ELSE NoTab
    /\ UNCHANGED <<active, screen, dock, busyTabs>>

(* SessionLoaded, unless the user has left: rebuild_turns, and the goal    *)
(* and the jobs are blanked.                                               *)
OnLoaded(s, log) ==
    /\ IF s = active
       THEN /\ screen' = [i \in DOMAIN log |-> [Row(s, log[i]) EXCEPT !.handle = log[i], !.finished = TRUE]]
            /\ goalBar' = NoTab
       ELSE UNCHANGED <<screen, goalBar>>
    /\ UNCHANGED <<active, dock, busyTabs>>

UiHandles ==
    /\ wire # <<>> /\ wire' = Tail(wire)
    /\ LET e == Head(wire)
       IN  \/ e.ev = "started" /\ OnTurnStarted(e.tab)
           \/ e.ev = "delta" /\ OnDelta(e.tab)
           \/ e.ev = "finished" /\ OnTurnFinished(e.tab)
           \/ e.ev = "usage" /\ OnTurnUsage(e.tab)
           \/ e.ev = "stored" /\ OnStored(e.tab, e.arg)
           \/ e.ev = "queue" /\ OnQueue(e.tab, e.arg)
           \/ e.ev = "goal" /\ OnGoal(e.tab, e.arg)
           \/ e.ev = "loaded" /\ OnLoaded(e.tab, e.arg)
    /\ UNCHANGED <<orders, hubVars, prompts, tabClicks, hops>>

MirrorNext ==
    \/ \E s \in Tabs : SwitchSession(s) \/ BeHopStarts(s) \/ BeHopEnds(s) \/ BeTurnEnds(s)
    \/ SendsPrompt \/ (\E i \in DOMAIN dock : RemoveFromDock(i))
    \/ BeDispatches \/ BeConnects \/ UiHandles

-----------------------------------------------------------------------------
Drained == wire = <<>> /\ orders = <<>>

(* The dock never names another session's prompt; and once nothing is on   *)
(* its way either direction it offers exactly the prompts the backend      *)
(* holds for the open session, and a session is marked busy exactly while  *)
(* a turn of it has started and not ended, whatever was clicked, sent,     *)
(* removed and finished meanwhile (handle_event, switch_session).          *)
ScreenSettles ==
    /\ \A i \in DOMAIN dock : dock[i] # Echo => prompts[dock[i]] = active
    /\ Drained => /\ Picked(dock, {i \in DOMAIN dock : dock[i] # Echo}) = waiting[active]
                  /\ busyTabs = {s \in Tabs : turnOf[s] \in {"hop", "gap"}}

(* app.rs:2288-2289 "Messages are stored in the order they were sent, so   *)
(* the oldest prompt still missing its handle is this one."  Refuted: a    *)
(* prompt that was dropped or removed keeps its bubble.                    *)
HandleIsOwn == \A i \in DOMAIN screen : screen[i].handle \in {0, screen[i].prompt}

(* app.rs:2397-2398 "Only the active session's transcript is on screen".   *)
(* Refuted: hops and deltas of another session land in it.                 *)
TranscriptIsOwn == \A i \in DOMAIN screen : screen[i].of = active /\ screen[i].heard \subseteq {active}

(* chat.rs:1373-1376 "push its goal, the jobs it owns and its queue".      *)
(* Refuted: they are sent ahead of the answer that blanks them.            *)
GoalOnScreen == Drained => goalBar = IF active \in GoalTabs THEN active ELSE NoTab

=============================================================================
