---------------------------- MODULE Projections ----------------------------
(***************************************************************************)
(* What is folded out of a session's log for its reader                    *)
(* (crates/sica-core/src/project.rs): the counters under the title, one    *)
(* row per turn, the trees of the orchestrated runs, the ratings.          *)
(*                                                                         *)
(* The rows of a run are written by tasks of their own, one per edge       *)
(* (WorkflowBridge, backend/chat.rs): each appends its row, folds the log  *)
(* and pushes the whole tree, in three steps that no lock joins.  Turn and *)
(* run ids come from counters every process starts at 1.  A restart loads  *)
(* the log as it was (what a crash costs it is module SessionStore's).     *)
(* Time stamps and the text of rows are left out; a prompt is named by the *)
(* seq of its row, which is its place in the log.                          *)
(***************************************************************************)
EXTENDS Integers, Sequences, SequencesExt, FiniteSetsExt

CONSTANTS
    Members,    \* of an orchestrated run: numbers above 0
    LabelOf,    \* what each is called
    PhaseOf,    \* the phase each belongs to
    TurnCap,    \* bound: turn ids one process hands out
    Rooms,      \* bounds: rows that are no edges, runs of one process, and restarts
    TaskCap     \* bound: tasks of the bridge at one time

ASSUME ProjectionsAssumption == Members \subseteq Nat \ {0}

VARIABLES
    entries,    \* SessionLog.events
    ids,        \* next_turn and NEXT_RUN_ID
    nowTurn,    \* the turn of this session that runs, or 0
    made,       \* the runs of this session
    edges,      \* tasks of WorkflowBridge
    shownTree,  \* App.runs: per call, the tree on screen
    reopened,
    room,       \* which of the bounds this behaviour has
    (* history *)
    turnsMade,  \* per turn: the prompt that opened it, its calls, its end
    rated       \* per reply: what the person last said of it

projVars == <<entries, ids, nowTurn, made, edges, shownTree, reopened, room,
              turnsMade, rated>>
turnVars == <<ids, nowTurn, turnsMade>>

(* The run itself, where a member is asked for. *)
ItSelf == 0
NoTree == [id |-> 0]
Ended == {"done", "failed"}

Prompt(n) == [kind |-> "prompt", text |-> n]
TurnStart(id) == [kind |-> "turnStart", id |-> id]
TurnEnd(id, why) == [kind |-> "turnEnd", id |-> id, why |-> why]
CallRow == [kind |-> "toolCall"]
ResultRow(ok) == [kind |-> "toolResult", ok |-> ok]
RetryRow == [kind |-> "retry"]
ReplyRow == [kind |-> "reply"]
RatingRow(n, v) == [kind |-> "rating", of |-> n, value |-> v]

(* EventKind::WorkflowRun, as run_edge fills it. *)
EdgeRow(run, m, state) ==
    [kind |-> "edge", run |-> run.id, call |-> run.call, member |-> m, state |-> state,
     label |-> IF m = ItSelf THEN "" ELSE LabelOf[m], phase |-> IF m = ItSelf THEN "" ELSE PhaseOf[m]]

ProjInit ==
    /\ entries = <<>> /\ ids = [turn |-> 1, run |-> 1] /\ nowTurn = 0
    /\ made = <<>> /\ edges = {} /\ shownTree = <<>> /\ reopened = 0 /\ room \in Rooms
    /\ turnsMade = <<>> /\ rated = <<>>

-----------------------------------------------------------------------------
(* The folds. *)

(* Projection::fold, lines 42-48 of project.rs: every row in turn, from an empty view on. *)
FoldedLog(Apply(_, _), empty, log_) ==
    LET view[n \in 0 .. Len(log_)] == IF n = 0 THEN empty ELSE Apply(view[n - 1], log_[n])
    IN  view[Len(log_)]

First(S) == IF S = {} THEN 0 ELSE Min(S)
Newest(S) == IF S = {} THEN 0 ELSE Max(S)

(* SessionStats: rows counted by kind, of the results those that failed. *)
StatKinds == {"prompt", "reply", "toolCall", "toolResult", "retry", "turnStart"}

StatsApply(s, row) ==
    IF row.kind \in StatKinds /\ (row.kind = "toolResult" => ~row.ok)
    THEN [s EXCEPT ![row.kind] = @ + 1]
    ELSE s

SessionStats(log_) == FoldedLog(StatsApply, [k \in StatKinds |-> 0], log_)

(* Mutant: the oldest turn under the id. *)
FirstUnderId(o, id) == First({k \in DOMAIN o : o[k].id = id})

(* iter_mut().rev().find: the newest turn under the id, or 0. *)
RowOfTurn(o, id) == Newest({k \in DOMAIN o : o[k].id = id})

(* TurnOutline: a start opens a row, an end finds its row by id, prompts   *)
(* and calls go to the last row; the first prompt names it.                *)
OutlineApply(o, row) ==
    LET n == Len(o)
    IN  CASE row.kind = "turnStart" ->
                Append(o, [id |-> row.id, line |-> 0, calls |-> 0, why |-> ""])
          [] row.kind = "turnEnd" /\ RowOfTurn(o, row.id) # 0 ->
                [o EXCEPT ![RowOfTurn(o, row.id)].why = row.why]
          [] row.kind = "prompt" /\ n > 0 ->
                [o EXCEPT ![n].line = IF @ = 0 THEN row.text ELSE @]
          [] row.kind = "toolCall" /\ n > 0 -> [o EXCEPT ![n].calls = @ + 1]
          [] OTHER -> o

TurnOutline(log_) == FoldedLog(OutlineApply, <<>>, log_)

(* Mutant: the newest running member of the label, whatever its id. *)
EndsByLabel(ms, row) == Newest({i \in DOMAIN ms : ms[i].label = row.label /\ ms[i].state = "running"})

(* An end finds its own start by id, or else the newest member of the      *)
(* label that still runs.                                                  *)
EndsMember(ms, row) ==
    LET own == First({i \in DOMAIN ms : ms[i].id = row.member})
    IN  IF own # 0 THEN own
        ELSE Newest({i \in DOMAIN ms : ms[i].label = row.label /\ ms[i].state = "running"})

MembersApply(ms, row) ==
    IF row.state = "running"
    THEN Append(ms, [id |-> row.member, label |-> row.label, state |-> "running"])
    ELSE LET at == EndsMember(ms, row)
         IN  IF at = 0 THEN ms ELSE [ms EXCEPT ![at].state = row.state]

PhasesApply(ps, row) ==
    LET k == First({i \in DOMAIN ps : ps[i].title = row.phase})
        qs == IF k = 0 THEN Append(ps, [title |-> row.phase, members |-> <<>>]) ELSE ps
    IN  [qs EXCEPT ![IF k = 0 THEN Len(qs) ELSE k].members = MembersApply(@, row)]

(* workflow_runs: a run-level row opens a run no row named yet, and sets   *)
(* its state; a member's row of such a run is skipped.                     *)
RunsApply(rs, row) ==
    LET k == First({i \in DOMAIN rs : rs[i].id = row.run})
        fresh == [id |-> row.run, call |-> row.call, state |-> "running", open |-> TRUE, phases |-> <<>>]
        qs == IF k = 0 THEN Append(rs, fresh) ELSE rs
        at == IF k = 0 THEN Len(qs) ELSE k
    IN  IF row.kind # "edge" \/ (k = 0 /\ row.member # ItSelf) THEN rs
        ELSE IF row.member = ItSelf
        THEN [qs EXCEPT ![at].state = row.state, ![at].open = row.state = "running"]
        ELSE [qs EXCEPT ![at].phases = PhasesApply(@, row)]

WorkflowRuns(log_) == FoldedLog(RunsApply, <<>>, log_)

(* feedback: the latest rating per reply, 0 clears it. *)
FeedbackApply(f, row) ==
    IF row.kind # "rating" THEN f
    ELSE [n \in (DOMAIN f \cup {row.of}) \ (IF row.value = 0 THEN {row.of} ELSE {}) |->
             IF n = row.of THEN row.value ELSE f[n]]

Feedback(log_) == FoldedLog(FeedbackApply, <<>>, log_)

(* run_tree's headline. *)
Headline(tree) ==
    LET running == \E i \in DOMAIN tree.phases : \E j \in DOMAIN tree.phases[i].members :
                       tree.phases[i].members[j].state = "running"
    IN  IF tree.open /\ tree.state = "running" /\ ~running THEN "interrupted" ELSE tree.state

-----------------------------------------------------------------------------
(* Turns. *)

Held == {r \in DOMAIN made : made[r].held}
Grows(n) == Len(SelectSeq(entries, LAMBDA row : row.kind # "edge")) + n <= room.rows
CountsCall == turnsMade' = [turnsMade EXCEPT ![Len(turnsMade)].calls = @ + 1]

(* start_turn: the prompt's row goes ahead of the turn's. *)
TurnOpens ==
    LET n == Len(entries) + 1
    IN  /\ nowTurn = 0 /\ ids.turn <= TurnCap /\ Grows(2)
        /\ nowTurn' = ids.turn /\ ids' = [ids EXCEPT !.turn = @ + 1]
        /\ entries' = entries \o <<Prompt(n), TurnStart(ids.turn)>>
        /\ turnsMade' = Append(turnsMade, [prompt |-> n, calls |-> 0, why |-> ""])
        /\ UNCHANGED <<made, edges, shownTree, reopened, room, rated>>

(* A hop: its request takes an id of the same counter and is replied to.   *)
HopReplies ==
    /\ nowTurn # 0 /\ Held = {} /\ ids.turn <= TurnCap /\ Grows(1)
    /\ ids' = [ids EXCEPT !.turn = @ + 1]
    /\ entries' = Append(entries, ReplyRow)
    /\ UNCHANGED <<nowTurn, turnsMade, made, edges, shownTree, reopened, room, rated>>

(* Rows of a running turn that change nothing else: a retry, a steer. *)
TurnNotes ==
    /\ nowTurn # 0 /\ Held = {} /\ Grows(1)
    /\ \E row \in {RetryRow, Prompt(Len(entries) + 1)} : entries' = Append(entries, row)
    /\ UNCHANGED <<turnVars, made, edges, shownTree, reopened, room, rated>>

(* A call that is no run. *)
PlainCall(ok) ==
    /\ nowTurn # 0 /\ Held = {} /\ Grows(2)
    /\ entries' = entries \o <<CallRow, ResultRow(ok)>>
    /\ CountsCall
    /\ UNCHANGED <<ids, nowTurn, made, edges, shownTree, reopened, room, rated>>

TurnEnds(why) ==
    /\ nowTurn # 0 /\ Held = {} /\ Grows(1)
    /\ entries' = Append(entries, TurnEnd(nowTurn, why)) /\ nowTurn' = 0
    /\ turnsMade' = [turnsMade EXCEPT ![Len(turnsMade)].why = why]
    /\ UNCHANGED <<ids, made, edges, shownTree, reopened, room, rated>>

(* rate_message, of any reply at any time. *)
RatesReply(n, v) ==
    /\ entries[n].kind = "reply" /\ Grows(1)
    /\ entries' = Append(entries, RatingRow(n, v))
    /\ rated' = [k \in DOMAIN rated \cup {n} |-> IF k = n THEN v ELSE rated[k]]
    /\ UNCHANGED <<turnVars, made, edges, shownTree, reopened, room>>

-----------------------------------------------------------------------------
(* Runs: what the skills report, in the order they report it. *)

(* WorkflowBridge::edge spawns a task. *)
Reports(r, m, state) ==
    /\ Cardinality(edges) < TaskCap
    /\ edges' = edges \cup {[run |-> r, member |-> m, state |-> state, at |-> "append", tree |-> NoTree]}

(* next_run_id, and the run's first edge, inside its call. *)
RunOpens ==
    /\ nowTurn # 0 /\ Held = {} /\ ids.run <= room.runs /\ Grows(2)
    /\ ids' = [ids EXCEPT !.run = @ + 1]
    /\ entries' = Append(entries, CallRow)
    /\ made' = Append(made, [id |-> ids.run, call |-> Len(entries) + 1, held |-> TRUE, live |-> TRUE,
                             orderly |-> TRUE,
                             is |-> [m \in Members \cup {ItSelf} |-> IF m = ItSelf THEN "running" ELSE "none"],
                             logged |-> [m \in Members \cup {ItSelf} |-> "none"]])
    /\ Reports(Len(made) + 1, ItSelf, "running")
    /\ CountsCall
    /\ UNCHANGED <<nowTurn, shownTree, reopened, room, rated>>

(* Members start in their order, also those that run at the same time. *)
MemberStarts(r, m) ==
    /\ made[r].live /\ made[r].held /\ made[r].is[m] = "none"
    /\ \A k \in Members : k < m => made[r].is[k] # "none"
    /\ made' = [made EXCEPT ![r].is[m] = "running"]
    /\ Reports(r, m, "running")
    /\ UNCHANGED <<turnVars, entries, shownTree, reopened, room, rated>>

(* Also of a script whose call was dropped: its thread goes on. *)
MemberEnds(r, m, how) ==
    /\ made[r].live /\ made[r].is[m] = "running"
    /\ made' = [made EXCEPT ![r].is[m] = how]
    /\ Reports(r, m, how)
    /\ UNCHANGED <<turnVars, entries, shownTree, reopened, room, rated>>

(* The skill returns: its members are over, it reports its end. *)
RunCloses(r, how) ==
    /\ made[r].held /\ \A m \in Members : made[r].is[m] # "running"
    /\ made' = [made EXCEPT ![r].held = FALSE, ![r].is[ItSelf] = how]
    /\ Reports(r, ItSelf, how)
    /\ entries' = Append(entries, ResultRow(how = "done"))
    /\ UNCHANGED <<turnVars, shownTree, reopened, room, rated>>

(* Stop, or the call's timeout: the run is left open. *)
RunDropped(r) ==
    /\ made[r].held
    /\ made' = [made EXCEPT ![r].held = FALSE]
    /\ entries' = Append(entries, ResultRow(FALSE))
    /\ UNCHANGED <<turnVars, edges, shownTree, reopened, room, rated>>

-----------------------------------------------------------------------------
(* The tasks of the bridge. *)

(* The row an edge's row should follow is in the log. *)
InOrder(run, e) ==
    IF e.state = "running"
    THEN run.logged[e.member] = "none" /\ (e.member # ItSelf => run.logged[ItSelf] # "none")
    ELSE run.logged[e.member] = "running"

(* append_event *)
EdgeLands(e) ==
    /\ e.at = "append"
    /\ entries' = Append(entries, EdgeRow(made[e.run], e.member, e.state))
    /\ made' = [made EXCEPT ![e.run].orderly = @ /\ InOrder(made[e.run], e),
                            ![e.run].logged[e.member] = e.state]
    /\ edges' = (edges \ {e}) \cup {[e EXCEPT !.at = "fold"]}
    /\ UNCHANGED <<turnVars, shownTree, reopened, room, rated>>

(* The lock again, and workflow_runs; no tree, no event. *)
EdgeFolds(e) ==
    LET rs == WorkflowRuns(entries)
        k == First({i \in DOMAIN rs : rs[i].id = made[e.run].id})
    IN  /\ e.at = "fold"
        /\ edges' = (edges \ {e}) \cup (IF k = 0 THEN {} ELSE {[e EXCEPT !.at = "emit", !.tree = rs[k]]})
        /\ UNCHANGED <<turnVars, entries, made, shownTree, reopened, room, rated>>

(* WorkflowRunChanged, kept under the call's seq. *)
EdgeEmits(e) ==
    /\ e.at = "emit"
    /\ shownTree' = [c \in DOMAIN shownTree \cup {e.tree.call} |-> IF c = e.tree.call THEN e.tree ELSE shownTree[c]]
    /\ edges' = edges \ {e}
    /\ UNCHANGED <<turnVars, entries, made, reopened, room, rated>>

(* SessionLoaded: the trees are replaced by a fold of the log. *)
Reload ==
    LET rs == WorkflowRuns(entries)
    IN  /\ shownTree' = [c \in {rs[i].call : i \in DOMAIN rs} |-> rs[Newest({i \in DOMAIN rs : rs[i].call = c})]]
        /\ UNCHANGED <<turnVars, entries, made, edges, reopened, room, rated>>

(* The process dies, with its turn, its runs and the tasks under way. *)
BackendRestarts ==
    /\ reopened < room.restarts /\ reopened' = reopened + 1
    /\ nowTurn' = 0 /\ ids' = [turn |-> 1, run |-> 1] /\ edges' = {}
    /\ made' = [r \in DOMAIN made |-> [made[r] EXCEPT !.live = FALSE, !.held = FALSE]]
    /\ UNCHANGED <<entries, shownTree, room, turnsMade, rated>>

ProjNext ==
    \/ TurnOpens \/ HopReplies \/ TurnNotes \/ RunOpens \/ Reload \/ BackendRestarts
    \/ \E ok \in BOOLEAN : PlainCall(ok)
    \/ \E why \in {"stop", "error"} : TurnEnds(why)
    \/ \E n \in DOMAIN entries, v \in {-1, 0} : RatesReply(n, v)
    \/ \E r \in DOMAIN made :
          \/ RunDropped(r)
          \/ \E how \in Ended : RunCloses(r, how) \/ \E m \in Members : MemberEnds(r, m, how)
          \/ \E m \in Members : MemberStarts(r, m)
    \/ \E e \in edges : EdgeLands(e) \/ EdgeFolds(e) \/ EdgeEmits(e)

ProjSpec == ProjInit /\ [][ProjNext]_projVars

-----------------------------------------------------------------------------
(* Properties *)

AddCalls(n, row) == n + row.calls
CallsIn(o) == FoldedLog(AddCalls, 0, o)

(* Every turn has its row, in order, with its own calls and its own end,   *)
(* although ids are used again after a restart and a turn the process died *)
(* in has no end; and the counters agree with the rows.                    *)
OutlineIsTurns ==
    LET o == TurnOutline(entries)
        s == SessionStats(entries)
    IN  /\ Len(o) = Len(turnsMade)
        /\ \A k \in DOMAIN o : o[k].calls = turnsMade[k].calls /\ o[k].why = turnsMade[k].why
        /\ s["turnStart"] = Len(o)
        /\ s["toolCall"] = CallsIn(o)
        /\ s["toolCall"] >= s["toolResult"]

Alone(r) == \A q \in DOMAIN made : made[q].id = made[r].id => q = r
Trees(id) == LET rs == WorkflowRuns(entries) IN {rs[i] : i \in {j \in DOMAIN rs : rs[j].id = id}}

(* Where a tree shows a member: the phase, and the place in it. *)
Places(tree) == UNION {{i} \X DOMAIN tree.phases[i].members : i \in DOMAIN tree.phases}
Drawn(tree, m) == {at \in Places(tree) : tree.phases[at[1]].members[at[2]].id = m}

DrawsAs(tree, m, state) ==
    IF state = "none" THEN Drawn(tree, m) = {}
    ELSE \E d \in Drawn(tree, m) :
            /\ Drawn(tree, m) = {d}
            /\ tree.phases[d[1]].title = PhaseOf[m]
            /\ tree.phases[d[1]].members[d[2]].state = state

(* While no edge is overtaken by the one that follows it, the tree of a    *)
(* run is the run, whatever else its members' tasks overtake: each member  *)
(* that was logged is drawn once, in its phase, with its own outcome,      *)
(* though members share a label; the run is open exactly until its end is  *)
(* logged; and once the tasks are through nothing is missing.              *)
TreeIsRun ==
    \A r \in DOMAIN made : LET run == made[r] trees == Trees(run.id) IN run.orderly /\ Alone(r) =>
        /\ \A t \in trees :
              /\ t.call = run.call /\ t.state = run.logged[ItSelf]
              /\ t.open <=> run.logged[ItSelf] = "running"
              /\ \A m \in Members : DrawsAs(t, m, run.logged[m])
        /\ Cardinality(trees) = IF run.logged[ItSelf] = "none" THEN 0 ELSE 1
        /\ run.live /\ ~(\E e \in edges : e.run = r /\ e.at = "append") => run.logged = run.is

(* Of such a run the live tree, however late its event, says nothing that  *)
(* has not happened: who it shows as ended has ended that way, and so has  *)
(* the run.                                                                *)
LiveHasHappened ==
    \A r \in DOMAIN made :
        made[r].orderly /\ Alone(r) /\ made[r].call \in DOMAIN shownTree =>
            LET t == shownTree[made[r].call]
            IN  /\ t.state \in {"running", made[r].is[ItSelf]}
                /\ \A i \in DOMAIN t.phases : \A j \in DOMAIN t.phases[i].members :
                      LET mb == t.phases[i].members[j] IN mb.state \in {"running", made[r].is[mb.id]}

(* The ratings folded from the log are the last ones given. *)
RatingsKept == Feedback(entries) = [n \in {k \in DOMAIN rated : rated[k] # 0} |-> rated[n]]

(* What the reader is shown of a log is what happened: see the parts. *)
ProjectionsSound == OutlineIsTurns /\ TreeIsRun /\ LiveHasHappened /\ RatingsKept

-----------------------------------------------------------------------------
(* Properties the sources state and the code does not keep (see README).   *)

(* project.rs:112 "First line of the user message that opened the turn".   *)
(* Refuted: the prompt is logged ahead of the turn's start, so it names    *)
(* the turn before, and a turn is named by the prompt after it.            *)
LineIsOpening == \A k \in DOMAIN turnsMade : TurnOutline(entries)[k].line \in {0, turnsMade[k].prompt}

(* chat.rs:4260-4261 "so the live tree and the one a reload draws cannot   *)
(* disagree".  Refuted: a task emits the tree it folded before another's   *)
(* row, after the other's event.                                           *)
LiveIsReload ==
    edges = {} /\ reopened = 0 => \A c \in DOMAIN shownTree : \E i \in DOMAIN WorkflowRuns(entries) :
        WorkflowRuns(entries)[i] = shownTree[c]

(* subagent.rs:116-117, two runs "must not be able to mint the same id, or *)
(* their rows would fold into one tree".  Refuted: after a restart.        *)
RunsApart ==
    \A r \in DOMAIN made : made[r].logged[ItSelf] # "none" =>
        \E i \in DOMAIN WorkflowRuns(entries) : WorkflowRuns(entries)[i].call = made[r].call

(* workflow.rs:180-181 "an id so its *end* finds its own start even when   *)
(* two members share a label".  Refuted: logged ahead of its start it      *)
(* finds another's or none, and its own member stays running.              *)
EndFindsStart ==
    edges = {} => \A r \in DOMAIN made : made[r].live /\ Alone(r) =>
        \A t \in Trees(made[r].id), m \in Members : DrawsAs(t, m, made[r].is[m])

(* tool_row.rs:181 "A run that started and never ended is *interrupted*    *)
(* once nothing is running any more".  Refuted: a run is also headed so    *)
(* between two of its members.                                             *)
InterruptedIsOver ==
    \A r \in DOMAIN made : made[r].held /\ made[r].call \in DOMAIN shownTree =>
        Headline(shownTree[made[r].call]) # "interrupted"
=============================================================================
