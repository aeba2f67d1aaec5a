------------------------------- MODULE Calls -------------------------------
(***************************************************************************)
(* One tool call on its way through the guarded pipeline                   *)
(* (crates/agents/src/subagent.rs run_report, pipeline.rs) and the human   *)
(* it may have to ask (broker.rs).  Calls of one batch run in parallel; a  *)
(* body may dispatch a call of its own, one level deeper.  The file is one *)
(* the session's tools and its user both edit; a version stands for its    *)
(* content.                                                                *)
(***************************************************************************)
EXTENDS Integers, FiniteSets

CONSTANTS
    CallIds,   \* the calls, which are also the ids a broker hands out
    Modes,     \* permission modes
    MaxDepth,  \* max_depth
    EditBound  \* bound: edits of the file

(* PermissionMode has three values. *)
ASSUME CallsAssumption == Modes \subseteq {"full", "workspace", "read-only"}

VARIABLES
    policy,     \* the session's settings when its calls are dispatched
    call,       \* per call: its kind, depth, parent and stage
    asked,      \* BrokerSet: entries in the maps of approvals and questions
    answer,     \* per id: what went into its one-shot channel
    stopped,    \* the turn's cancellation token
    disk,       \* version of the file
    observed,   \* ReadBeforeEdit.seen, 0 for a file never observed
    (* history, read by the properties only *)
    chips,      \* per call: ToolCallStarted and ToolCallFinished events
    sunk,       \* calls reported to the failure sink
    shown,      \* version the model has been shown or has written
    clicks,     \* answers of the human: id, what it was, what they were told
    blind,      \* writes over a version the model was not shown
    ran         \* calls whose body ran

brokerVars == <<asked, answer>>
fileVars == <<disk, observed, shown, blind>>
callVars == <<policy, call, brokerVars, stopped, fileVars, chips, sunk, clicks, ran>>

CallKinds == {"read", "write", "outside", "wipe", "ask", "nest"}
Writes == {"write", "outside"}
Unused == [stage |-> "unused", kind |-> "read", depth |-> 0, parent |-> 0, ok |-> FALSE, veto |-> FALSE]

CallsInit ==
    /\ policy \in [mode : Modes, plan : BOOLEAN, never : BOOLEAN]
    /\ call = [c \in CallIds |-> Unused]
    /\ asked = {} /\ answer = [c \in CallIds |-> "none"]
    /\ stopped = FALSE
    /\ disk = 1 /\ observed = 0 /\ shown = 0
    /\ chips = [c \in CallIds |-> [started |-> 0, finished |-> 0]]
    /\ sunk = {} /\ clicks = {} /\ blind = {} /\ ran = {}

At(c, stage) == call[c].stage = stage
Goes(c, stage) == call' = [call EXCEPT ![c].stage = stage]
Inside(c) == {d \in CallIds : call[d].parent = c /\ call[d].stage \notin {"unused", "done", "dropped"}}

-----------------------------------------------------------------------------
(* Policies *)

(* PermissionPolicy::pre_execute *)
Permission(c) ==
    LET k == call[c].kind IN
    CASE policy.mode = "full" -> "allow"
      [] policy.mode = "read-only" -> IF k \in Writes \cup {"wipe"} THEN "deny" ELSE "allow"
      [] OTHER -> IF k = "outside" THEN "deny" ELSE IF k = "wipe" THEN "ask" ELSE "allow"

(* PlanModePolicy::pre_execute *)
PlanGate(c) == IF policy.plan /\ call[c].kind \in Writes \cup {"wipe"} THEN "deny" ELSE "allow"

(* ReadBeforeEdit::pre_execute: the file exists; was this version seen?    *)
SeenGate(c) == IF call[c].kind \in Writes /\ observed # disk THEN "deny" ELSE "allow"

(* pre_decision: the first policy that does not allow decides, so a call   *)
(* that must be asked about is not looked at any further.                  *)
PreDecision(c) ==
    IF Permission(c) # "allow" THEN Permission(c)
    ELSE IF PlanGate(c) # "allow" THEN PlanGate(c)
    ELSE SeenGate(c)

-----------------------------------------------------------------------------
(* A call *)

(* run_report: the depth limit and an interrupt end it before it shows. *)
Dispatch(c, kind, parent) ==
    LET depth == IF parent = 0 THEN 0 ELSE call[parent].depth + 1
        refused == depth >= MaxDepth \/ stopped
    IN  /\ At(c, "unused")
        /\ \A d \in CallIds : d < c => ~At(d, "unused")
        /\ parent # 0 => At(parent, "body") /\ call[parent].kind = "nest"
        /\ call' = [call EXCEPT ![c] = [Unused EXCEPT !.stage = IF refused THEN "done" ELSE "pre", !.kind = kind,
                                                      !.depth = depth, !.parent = parent]]
        /\ chips' = IF refused THEN chips ELSE [chips EXCEPT ![c].started = @ + 1]
        /\ UNCHANGED <<policy, brokerVars, stopped, fileVars, sunk, clicks, ran>>

(* A denial skips the body and still goes through post_chain. *)
Denied(c) == call' = [call EXCEPT ![c].stage = "post", ![c].veto = TRUE, ![c].ok = FALSE]

Decide(c) ==
    /\ At(c, "pre")
    /\ CASE PreDecision(c) = "allow" -> Goes(c, "start") /\ UNCHANGED asked
         [] PreDecision(c) = "deny" -> Denied(c) /\ UNCHANGED asked
         [] policy.never -> Denied(c) /\ UNCHANGED asked
         [] OTHER -> Goes(c, "asking") /\ asked' = asked \cup {c}
    /\ UNCHANGED <<policy, answer, stopped, fileVars, chips, sunk, clicks, ran>>

EntryStays(c) == UNCHANGED asked

(* ask_approval and ask_question take their entry out when they are done. *)
Forget(c) == asked' = asked \ {c}

AskFailsOpen(c) ==
    /\ At(c, "asking")
    /\ \/ stopped /\ Goes(c, "deny")
       \/ ~stopped /\ Goes(c, IF answer[c] # "refuse" THEN "allow" ELSE "deny")
    /\ UNCHANGED <<policy, brokerVars, stopped, fileVars, chips, sunk, clicks, ran>>

(* wait: the interrupt first, then an answer, then the timeout. *)
AskEnds(c) ==
    /\ At(c, "asking")
    /\ \/ stopped /\ Goes(c, "deny")
       \/ ~stopped /\ Goes(c, IF answer[c] = "allow" THEN "allow" ELSE "deny")
    /\ UNCHANGED <<policy, brokerVars, stopped, fileVars, chips, sunk, clicks, ran>>

AskLeaves(c) ==
    /\ call[c].stage \in {"allow", "deny"}
    /\ Forget(c)
    /\ IF At(c, "allow") THEN Goes(c, "start") ELSE Denied(c)
    /\ UNCHANGED <<policy, answer, stopped, fileVars, chips, sunk, clicks, ran>>

(* The body.  ask-user puts its question. *)
BodyStarts(c) ==
    /\ At(c, "start") /\ ~stopped
    /\ Goes(c, "body")
    /\ ran' = ran \cup {c}
    /\ asked' = IF call[c].kind = "ask" THEN asked \cup {c} ELSE asked
    /\ UNCHANGED <<policy, answer, stopped, fileVars, chips, sunk, clicks>>

BodyEnds(c, ok) ==
    /\ At(c, "body") /\ ~stopped
    /\ Inside(c) = {}
    /\ call[c].kind = "ask" => ok = (answer[c] # "none")
    /\ call' = [call EXCEPT ![c].stage = "post", ![c].ok = ok]
    /\ IF call[c].kind = "ask" THEN Forget(c) ELSE UNCHANGED asked
    /\ IF ok /\ call[c].kind \in Writes
       THEN /\ disk' = disk + 1
            /\ disk < EditBound
            /\ blind' = IF shown # disk THEN blind \cup {c} ELSE blind
            /\ shown' = disk + 1
       ELSE /\ UNCHANGED <<disk, blind>>
            /\ shown' = IF ok /\ call[c].kind = "read" THEN disk ELSE shown
    /\ UNCHANGED <<policy, answer, stopped, observed, chips, sunk, clicks, ran>>

(* Interrupt, or the skill's own time limit: its future is dropped, with   *)
(* the calls inside it and the entry of a question it was asking.          *)
BodyDropped(c, why) ==
    /\ \/ why = "stop" /\ stopped /\ call[c].stage \in {"start", "body"}
       \/ why = "timeout" /\ ~stopped /\ At(c, "body")
    /\ call' = [d \in CallIds |->
                  IF d = c THEN [call[d] EXCEPT !.stage = "post", !.ok = FALSE]
                  ELSE IF d \in Inside(c) THEN [call[d] EXCEPT !.stage = "dropped"]
                  ELSE call[d]]
    /\ UNCHANGED <<policy, brokerVars, stopped, fileVars, chips, sunk, clicks, ran>>

(* post_chain and finish_call: what was read or written counts as observed *)
(* at the version on disk now; a veto or an interrupt is no failure.       *)
Finish(c) ==
    /\ At(c, "post")
    /\ Goes(c, "done")
    /\ observed' = IF call[c].ok /\ call[c].kind \in Writes \cup {"read"} THEN disk ELSE observed
    /\ chips' = [chips EXCEPT ![c].finished = @ + 1]
    /\ sunk' = IF call[c].ok \/ call[c].veto \/ stopped THEN sunk ELSE sunk \cup {c}
    /\ UNCHANGED <<policy, brokerVars, stopped, disk, shown, blind, clicks, ran>>

-----------------------------------------------------------------------------
(* The others *)

(* resolve_approval, answer_question: true when the id was pending. *)
Answer(c, what) ==
    /\ chips[c].started > 0
    /\ \A click \in clicks : click.id # c
    /\ IF c \in asked
       THEN /\ asked' = asked \ {c}
            /\ answer' = IF call[c].stage \in {"asking", "body"} THEN [answer EXCEPT ![c] = what] ELSE answer
            /\ clicks' = clicks \cup {[id |-> c, what |-> what, told |-> "applied",
                                       late |-> call[c].stage \notin {"asking", "body"}]}
       ELSE /\ clicks' = clicks \cup {[id |-> c, what |-> what, told |-> "gone", late |-> FALSE]}
            /\ UNCHANGED brokerVars
    /\ UNCHANGED <<policy, call, stopped, fileVars, chips, sunk, ran>>

UserStops ==
    /\ ~stopped /\ stopped' = TRUE
    /\ UNCHANGED <<policy, call, brokerVars, fileVars, chips, sunk, clicks, ran>>

UserEdits ==
    /\ disk < EditBound /\ disk' = disk + 1
    /\ UNCHANGED <<policy, call, brokerVars, stopped, observed, shown, blind, chips, sunk, clicks, ran>>

CallSteps(c) ==
    \/ Decide(c) \/ AskEnds(c) \/ AskLeaves(c) \/ BodyStarts(c) \/ Finish(c)
    \/ \E ok \in BOOLEAN : BodyEnds(c, ok)
    \/ \E why \in {"stop", "timeout"} : BodyDropped(c, why)

CallsNext ==
    \/ \E c \in CallIds, k \in CallKinds, p \in CallIds \cup {0} : Dispatch(c, k, p)
    \/ \E c \in CallIds : CallSteps(c) \/ Answer(c, "allow") \/ Answer(c, "refuse")
    \/ UserStops \/ UserEdits

CallsSpec == CallsInit /\ [][CallsNext]_callVars

(* A dispatched future is polled, and its timeouts fire. *)
CallsFairness == \A c \in CallIds : WF_callVars(CallSteps(c))

-----------------------------------------------------------------------------
(* Properties *)

(* A shell command that looks destructive runs in a writing session only   *)
(* when a person allowed this very call, nothing that changes files runs   *)
(* in a reading one or in plan mode, and what policies refused is reported *)
(* to nobody as a failure - through timeouts, late answers and interrupts. *)
NothingUnapproved ==
    /\ \A c \in ran : call[c].kind = "wipe" =>
          \/ policy.mode = "full" /\ ~policy.plan
          \/ policy.mode = "workspace" /\ ~policy.never
             /\ \E click \in clicks : click.id = c /\ click.what = "allow" /\ click.told = "applied"
    /\ \A c \in ran : call[c].kind \in Writes => policy.mode # "read-only" /\ ~policy.plan
    /\ \A c \in sunk : c \in ran /\ ~call[c].veto

(* Every call of the turn closes the row it opened, once, and leaves no    *)
(* approval behind that a click could still find.                          *)
RowsClose ==
    \A c \in CallIds : call[c].stage = "done" /\ call[c].depth = 0 =>
        /\ chips[c].finished = chips[c].started
        /\ call[c].kind = "wipe" => c \notin asked

(* No call hangs on a human who never answers. *)
CallsEnd == \A c \in CallIds : At(c, "pre") ~> call[c].stage \in {"done", "dropped"}

(* PlanModePolicy: "While active, only non-mutating tools run".  Refuted:  *)
(* under workspace-write a destructive command is asked about before plan  *)
(* mode is looked at, and the first policy that does not allow decides.    *)
PlanOnlyReads == \A c \in ran : policy.plan => call[c].kind \notin Writes \cup {"wipe"}

(* resolve_approval, answer_question: "a late answer (after timeout)       *)
(* reports `false` so the dispatcher can say so instead of pretending it   *)
(* applied".  Refuted between the timeout and the removal, and for every   *)
(* question whose skill was dropped.                                       *)
LateAnswerSaysSo == \A click \in clicks : click.late => click.told = "gone"

(* ReadBeforeEdit: "a read file may only be written at the version last    *)
(* seen".  Refuted: the version recorded is the one on disk after the      *)
(* read, and the write comes some time after the check.                    *)
WritesWhatItSaw == blind = {}
=============================================================================
