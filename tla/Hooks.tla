------------------------------- MODULE Hooks --------------------------------
(***************************************************************************)
(* The operator's hooks (backend/hooks.rs): loaded from hooks.json, run    *)
(* one after the other at fixed points of a session's life (chat.rs,       *)
(* investigate.rs) and of a tool call (HooksPolicy), their answers merged  *)
(* by the strictest, one audit row each in the session's log.  A hook is a *)
(* process: it may not start, not read, write anything, or never end.      *)
(***************************************************************************)
EXTENDS Integers, Sequences, SequencesExt

CONSTANTS
    HookFile,     \* hooks.json: entries [id, on, matcher, kind, empty] in order
    Tools,        \* the tools a call may name
    HookTimeout,  \* a hook's timeout, in ticks
    EventBound    \* bound: hookEvents

VARIABLES
    hookRun,      \* the event in hand: [on, todo, done, at, spent, waited]
    written,      \* history: what each hook of the event in hand really did
    logThere,     \* the session has a log
    auditRows,    \* EventKind::Hook rows of the log: <<event, hook, outcome>>
    hooksRan,     \* history: <<event, hook, outcome>> of every hook that ran
    toolCall,     \* "none", "pre", "ask", "allowed", "body", "post", "over", "refused", "blocked"
    ctxTold,         \* contexts that reached the model: <<event, hook>>
    offered,      \* history: contexts hooks gave for a call that was let through
    hookEvents    \* events so far

hookVars == <<hookRun, written, logThere, auditRows, hooksRan, toolCall, ctxTold, offered, hookEvents>>
hookFate == <<logThere, auditRows, hooksRan, ctxTold, offered>>

(* load_from: what is kept of the file.  Unknown hookEvents, matchers that do  *)
(* not compile, other kinds and empty commands are skipped with a warning. *)
Loaded == SelectSeq(HookFile, LAMBDA h :
    h.on # "unknown" /\ h.matcher # "bad" /\ h.kind = "command" /\ ~h.empty)

(* for_event and matching. *)
ForEvent(on) == SelectSeq(Loaded, LAMBDA h : h.on = on)
Matching(on, t) == SelectSeq(Loaded, LAMBDA h : h.on = on /\ h.matcher \in {"*", t})

(* What a hook process can do: not start, outlive its timeout, fail the    *)
(* read, exit 2, be silent, write prose, or write JSON.  "long" is a block *)
(* whose JSON passes MAX_OUTPUT and is cut; "blockAllow" sets the flat     *)
(* decision to block and permissionDecision to allow.                      *)
Failures == {"unborn", "late", "io"}
Outputs == {"exit2", "silent", "silentFails", "prose", "long", "block",
            "blockAllow", "ask", "allow", "deny", "stop", "context"}
Deliberate == {"exit2", "block", "deny", "stop"}

(* Mutant: a hook that fails refuses what it was asked about. *)
ErrorDenies(id, o) ==
    LET bad == o \in Failures \cup {"silentFails", "prose", "long"} IN
    [id |-> id, rank |-> IF o \in Deliberate \/ bad THEN 2 ELSE IF o = "ask" THEN 1 ELSE 0,
     outcome |-> IF bad THEN "error" ELSE IF o \in Deliberate THEN "deny"
                 ELSE IF o = "ask" THEN "ask" ELSE "allow",
     context |-> o \in {"context", "deny", "ask"}]

(* parse_answer and the error answers of run_one: rank 0 allow, 1 ask,     *)
(* 2 deny.                                                                 *)
ParseAnswer(id, o) ==
    LET bad == o \in Failures \cup {"silentFails", "prose", "long"} IN
    [id |-> id, rank |-> IF o \in Deliberate THEN 2 ELSE IF o = "ask" THEN 1 ELSE 0,
     outcome |-> IF bad THEN "error" ELSE IF o \in Deliberate THEN "deny"
                 ELSE IF o = "ask" THEN "ask" ELSE "allow",
     context |-> o \in {"context", "deny", "ask"}]

(* Mutant: the first hook with an opinion wins. *)
FirstWins(done) ==
    LET said == SelectSeq(done, LAMBDA a : a.rank > 0) IN
    [rank |-> IF said = <<>> THEN 0 ELSE said[1].rank,
     context |-> SelectSeq(done, LAMBDA a : a.context)]

(* merge: the strictest rank, every context in order. *)
Merge(done) ==
    [rank |-> Max({0} \cup {done[i].rank : i \in DOMAIN done}),
     context |-> SelectSeq(done, LAMBDA a : a.context)]

NoRun == [on |-> "none", todo |-> <<>>, done |-> <<>>, at |-> "idle", spent |-> 0, waited |-> 0]
Begins(on, hs) == [on |-> on, todo |-> hs, done |-> <<>>, at |-> "spawn",
                   spent |-> 0, waited |-> 0]

HooksInit ==
    /\ hookRun = NoRun /\ written = <<>> /\ logThere = FALSE /\ auditRows = <<>>
    /\ hooksRan = <<>> /\ toolCall = "none" /\ ctxTold = <<>> /\ offered = <<>> /\ hookEvents = 0

-----------------------------------------------------------------------------
(* The points a hook runs at. *)
Free == hookRun = NoRun /\ hookEvents < EventBound /\ toolCall \in {"none", "over", "refused", "blocked"}

(* create_session_in: the log is inserted, then SessionStart hooks run. *)
CreateSession ==
    /\ Free /\ ~logThere /\ logThere' = TRUE /\ toolCall' = "none"
    /\ hookRun' = Begins("SessionStart", ForEvent("SessionStart"))
    /\ written' = <<>> /\ hookEvents' = hookEvents + 1
    /\ UNCHANGED <<auditRows, hooksRan, ctxTold, offered>>

(* start_turn: UserPromptSubmit hooks, before the log may exist. *)
SubmitPrompt ==
    /\ Free /\ toolCall' = "none"
    /\ hookRun' = Begins("UserPromptSubmit", ForEvent("UserPromptSubmit"))
    /\ written' = <<>> /\ hookEvents' = hookEvents + 1 /\ UNCHANGED hookFate

(* pre_execute of a call in the session's turn. *)
CallTool(t) ==
    /\ Free /\ logThere /\ toolCall' = "pre"
    /\ hookRun' = Begins("PreToolUse", Matching("PreToolUse", t))
    /\ written' = <<>> /\ hookEvents' = hookEvents + 1 /\ UNCHANGED hookFate

(* The broker answers the question a hook raised. *)
HumanAnswers(yes) ==
    /\ toolCall = "ask" /\ toolCall' = IF yes THEN "allowed" ELSE "refused"
    /\ UNCHANGED <<hookRun, written, hookFate, hookEvents>>

(* post_execute, once the body has run. *)
ToolReturns(t) ==
    /\ toolCall \in {"body", "allowed"} /\ hookRun = NoRun /\ toolCall' = "post"
    /\ hookRun' = Begins("PostToolUse", Matching("PostToolUse", t))
    /\ written' = <<>> /\ UNCHANGED <<hookFate, hookEvents>>

(* Investigator::end. *)
EndSession ==
    /\ Free /\ logThere /\ toolCall' = "none"
    /\ hookRun' = Begins("SessionEnd", ForEvent("SessionEnd"))
    /\ written' = <<>> /\ hookEvents' = hookEvents + 1 /\ UNCHANGED hookFate

-----------------------------------------------------------------------------
(* run_one: the hook at the head of the list. *)
Answered(o) ==
    /\ hookRun' = [hookRun EXCEPT !.todo = Tail(@), !.at = "spawn", !.spent = 0, !.waited = 0,
                     !.done = Append(@, ParseAnswer(Head(hookRun.todo).id, o))]
    /\ written' = Append(written, o)
    /\ UNCHANGED <<hookFate, toolCall, hookEvents>>

HookUnborn == hookRun.at = "spawn" /\ hookRun.todo # <<>> /\ Answered("unborn")

(* spawn, then stdin.write_all: a payload larger than the pipe waits for   *)
(* the hook to read.                                                       *)
HookStarts ==
    /\ hookRun.at = "spawn" /\ hookRun.todo # <<>> /\ hookRun' = [hookRun EXCEPT !.at = "stdin"]
    /\ UNCHANGED <<written, hookFate, toolCall, hookEvents>>

(* The payload is taken, or the hook closed its end. *)
StdinTaken ==
    /\ hookRun.at = "stdin" /\ hookRun' = [hookRun EXCEPT !.at = "wait"]
    /\ UNCHANGED <<written, hookFate, toolCall, hookEvents>>

(* timeout(hook.timeout, wait_with_output): the clock starts here. *)
HookLate == hookRun.at = "wait" /\ hookRun.waited >= HookTimeout /\ Answered("late")
HookEnds(o) == hookRun.at = "wait" /\ hookRun.waited < HookTimeout /\ Answered(o)

HookClock ==
    /\ \/ /\ hookRun.at = "stdin" /\ hookRun.spent <= HookTimeout
          /\ hookRun' = [hookRun EXCEPT !.spent = @ + 1]
       \/ /\ hookRun.at = "wait" /\ hookRun.waited < HookTimeout
          /\ hookRun' = [hookRun EXCEPT !.spent = @ + 1, !.waited = @ + 1]
    /\ UNCHANGED <<written, hookFate, toolCall, hookEvents>>

-----------------------------------------------------------------------------
(* The merged answer. *)
RunOver(on) == hookRun.on = on /\ hookRun.at = "spawn" /\ hookRun.todo = <<>>

Rows(done) == [i \in DOMAIN done |-> <<hookRun.on, done[i].id, done[i].outcome>>]
Contexts(done) == LET c == Merge(done).context IN [i \in DOMAIN c |-> <<hookRun.on, c[i].id>>]

(* Mutant: only failures and refusals are recorded. *)
RecordNews ==
    /\ auditRows' = IF logThere THEN auditRows \o SelectSeq(Rows(hookRun.done), LAMBDA r : r[3] # "allow")
                    ELSE auditRows
    /\ hooksRan' = hooksRan \o Rows(hookRun.done)

(* record and run_and_record through append_event, a no-op without a log. *)
Record ==
    /\ auditRows' = IF logThere THEN auditRows \o Rows(hookRun.done) ELSE auditRows
    /\ hooksRan' = hooksRan \o Rows(hookRun.done)

(* run_session_start_hooks: the rank is ignored, the context injected. *)
SessionStarted ==
    /\ RunOver("SessionStart") /\ Record /\ hookRun' = NoRun
    /\ ctxTold' = ctxTold \o Contexts(hookRun.done)
    /\ UNCHANGED <<written, logThere, toolCall, offered, hookEvents>>

(* start_turn: only a deny refuses; else the log is made if need be and    *)
(* the contexts precede the message.                                       *)
PromptDecided ==
    /\ RunOver("UserPromptSubmit") /\ Record /\ hookRun' = NoRun
    /\ IF Merge(hookRun.done).rank = 2
       THEN toolCall' = "refused" /\ UNCHANGED <<logThere, ctxTold>>
       ELSE /\ logThere' = TRUE /\ ctxTold' = ctxTold \o Contexts(hookRun.done)
            /\ UNCHANGED toolCall
    /\ UNCHANGED <<written, offered, hookEvents>>

(* pre_execute's last match: Allow or AllowWith, Ask, Deny. *)
CallDecided ==
    /\ RunOver("PreToolUse") /\ Record /\ hookRun' = NoRun
    /\ LET rank == Merge(hookRun.done).rank IN
       /\ toolCall' = <<"body", "ask", "refused">>[rank + 1]
       /\ ctxTold' = IF rank = 0 THEN ctxTold \o Contexts(hookRun.done) ELSE ctxTold
       /\ offered' = IF rank < 2 THEN offered \o Contexts(hookRun.done) ELSE offered
    /\ UNCHANGED <<written, logThere, hookEvents>>

(* post_execute: a deny replaces the result, contexts go through. *)
ResultJudged ==
    /\ RunOver("PostToolUse") /\ Record /\ hookRun' = NoRun
    /\ toolCall' = IF Merge(hookRun.done).rank = 2 THEN "blocked" ELSE "over"
    /\ ctxTold' = ctxTold \o Contexts(hookRun.done)
    /\ UNCHANGED <<written, logThere, offered, hookEvents>>

(* run_session_end: audit only. *)
SessionEnded ==
    /\ RunOver("SessionEnd") /\ Record /\ hookRun' = NoRun
    /\ UNCHANGED <<written, logThere, toolCall, ctxTold, offered, hookEvents>>

HooksNext ==
    \/ CreateSession \/ SubmitPrompt \/ EndSession
    \/ \E t \in Tools : CallTool(t) \/ ToolReturns(t)
    \/ \E yes \in BOOLEAN : HumanAnswers(yes)
    \/ HookUnborn \/ HookStarts \/ StdinTaken \/ HookLate \/ HookClock
    \/ \E o \in Outputs \cup {"io"} : HookEnds(o)
    \/ SessionStarted \/ PromptDecided \/ CallDecided \/ ResultJudged \/ SessionEnded

-----------------------------------------------------------------------------
(* A broken hook abstains, and the strictest wins: what was refused with   *)
(* no human asked was refused by a hook that meant it, and a hook that     *)
(* meant to refuse a call kept its body from running.  (hooks.rs:28-34)    *)
BrokenAbstains ==
    /\ hookRun = NoRun /\ toolCall \in {"refused", "blocked"} =>
          \E i \in DOMAIN written : written[i] \in Deliberate \cup {"ask"}
    /\ hookRun = NoRun /\ toolCall \in {"body", "ask", "allowed"} =>
          \A i \in DOMAIN written : written[i] \notin Deliberate
    /\ toolCall = "body" => \A i \in DOMAIN written : written[i] # "ask"

(* A hook is an authority, and its decisions are in the log: every hook    *)
(* that ran is there, in order, but those of the prompts that were         *)
(* submitted before the session had a log.                                 *)
HooksAudited ==
    hookRun = NoRun /\ logThere =>
        \E n \in 0 .. Len(hooksRan) :
            /\ \A i \in 1 .. n : hooksRan[i][1] = "UserPromptSubmit"
            /\ auditRows = SubSeq(hooksRan, n + 1, Len(hooksRan))

(* Hooks decide only what they mean to, and leave a trace of it.           *)
HooksSound == BrokenAbstains /\ HooksAudited

(* A hook's wall clock (hooks.rs:59): no hook is waited for longer than    *)
(* its timeout.  Does not hold: the payload is written before the clock    *)
(* starts.                                                                 *)
HookInTime == hookRun.spent <= HookTimeout

(* "the hook's own rows and any injected context land once it does, below" *)
(* (chat.rs:2649).  Does not hold: the rows were dropped.                  *)
PromptRowsLand == logThere /\ hookRun = NoRun => hooksRan = auditRows

(* "every hook's context regardless of rank" (hooks.rs:341).  Does not     *)
(* hold for a call a human let through.                                    *)
ContextReachesModel ==
    \A i \in DOMAIN offered : toolCall = "over" => \E j \in DOMAIN ctxTold : ctxTold[j] = offered[i]
=============================================================================
