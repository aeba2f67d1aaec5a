------------------------------ MODULE TurnLoop ------------------------------
(***************************************************************************)
(* The loop of a turn task (the body start_turn spawns in                  *)
(* crates/backend/src/chat.rs) and the completion check that follows it    *)
(* (crates/backend/src/verdict.rs): what a turn may spend, when its rows   *)
(* reach the disk, which tool calls it leaves unanswered and how it ends.  *)
(* Who may run a turn is module TurnSlot's subject.                        *)
(*                                                                         *)
(* A reply is abstracted to what the loop does with it:                    *)
(*   "plain"  text with no call in it         "empty"   only reasoning     *)
(*   "calls"  a batch of native tool calls    "miscall" an unreadable call *)
(*   "call"   a tool call of the text protocol                             *)
(*   "cut"    stopped at max_tokens, whatever it holds                     *)
(* Rows are abstracted to whether all of them are on disk, and native      *)
(* calls to how many of those the model can see have no result.            *)
(***************************************************************************)
EXTENDS Naturals

CONSTANTS
    MaxHops,     \* MAX_TOOL_HOPS, 12
    RetryMax,    \* llm::retry::RETRY_MAX, 5
    MaxOverflow, \* MAX_OVERFLOW_RETRIES, 3
    MaxNudges,   \* MAX_EMPTY_NUDGES, 2
    MaxStalled,  \* MAX_STALLED_CONTINUES, 2
    MaxAuto,     \* MAX_AUTO_CONTINUES, 12
    MaxCalls,    \* bound: native calls in one reply
    MaxTurns     \* bound: turns started from outside

ASSUME TurnLoopAssumption ==
    /\ {MaxHops, RetryMax, MaxOverflow, MaxNudges, MaxStalled, MaxAuto,
        MaxTurns} \subseteq Nat
    /\ MaxCalls \in Nat \ {0}

VARIABLES
    pc,        \* where the task is
    source,    \* TurnSource: "human", "goal" or "auto"
    cancelled, \* the turn's token
    hops, retries, overflows, nudges, \* what the turn has spent
    nudged,    \* syntax_nudged
    reply,     \* the reply being acted on
    left,      \* calls of the batch not looked at yet
    running,   \* calls logged whose bodies run
    over,      \* over_limit of the batch
    finish,    \* the finish reason
    dirty,     \* a row the turn wrote is not on disk
    owed,      \* visible native calls without a result
    ticket,    \* incident::turn_error has filed this turn
    progress,  \* a tool call of this turn succeeded
    spent,     \* verdict::Spent of the session
    continue,  \* auto_continue
    turnsLeft, \* what is left of MaxTurns
    (* history *)
    spoiled    \* a turn was stopped, or a batch cut off, at some time

task == <<pc, source, cancelled>>
budget == <<hops, retries, overflows, nudges, nudged>>
batch == <<left, running, over>>
log == <<dirty, owed, progress>>
chain == <<spent, continue, turnsLeft, spoiled>>
vars == <<task, budget, reply, batch, finish, log, ticket, chain>>

Fresh == [opened |-> 0, stalled |-> 0]

(* A turn of source s opens over an empty budget, with a token of its own. *)
Open(s) ==
    /\ pc' = "top"
    /\ source' = s
    /\ cancelled' = FALSE
    /\ hops' = 0 /\ retries' = 0 /\ overflows' = 0 /\ nudges' = 0
    /\ nudged' = FALSE
    /\ reply' = "none"
    /\ left' = 0 /\ running' = 0 /\ over' = FALSE
    /\ finish' = "done"
    /\ ticket' = FALSE
    /\ progress' = FALSE
    /\ continue' = FALSE

Init ==
    /\ pc = "idle"
    /\ source = "human"
    /\ cancelled = FALSE
    /\ hops = 0 /\ retries = 0 /\ overflows = 0 /\ nudges = 0
    /\ nudged = FALSE
    /\ reply = "none"
    /\ left = 0 /\ running = 0 /\ over = FALSE
    /\ finish = "done"
    /\ dirty = FALSE
    /\ owed = 0
    /\ ticket = FALSE
    /\ progress = FALSE
    /\ spent = Fresh
    /\ continue = FALSE
    /\ turnsLeft = MaxTurns
    /\ spoiled = FALSE

(* append_event flushes; a flush that fails is only logged. *)
Appends == dirty' \in BOOLEAN

(* Leave the loop for this reason. *)
Leave(why) == pc' = "ending" /\ finish' = why

(* Leave it in error, filed with the idealist. *)
LeaveInError(why) == Leave(why) /\ ticket' = TRUE

-----------------------------------------------------------------------------
(* From outside: a turn that is not a continuation, and Stop.              *)

StartTurn(s) ==
    /\ pc = "idle"
    /\ turnsLeft > 0
    /\ turnsLeft' = turnsLeft - 1
    /\ Open(s)
    /\ spent' = IF s = "human" THEN Fresh ELSE spent
    /\ Appends
    /\ UNCHANGED <<owed, spoiled>>

Stop ==
    /\ pc # "idle"
    /\ ~cancelled
    /\ cancelled' = TRUE
    /\ spoiled' = TRUE
    /\ UNCHANGED <<pc, source, budget, reply, batch, finish, log, ticket, spent,
                   continue, turnsLeft>>

-----------------------------------------------------------------------------
(* The loop *)

TopCancelled ==
    /\ pc = "top"
    /\ cancelled
    /\ Leave(finish)
    /\ UNCHANGED <<source, cancelled, budget, reply, batch, log, ticket, chain>>

(* The flush of the checkpoint, or the assembly of the prompt, fails. *)
TopFails ==
    /\ pc = "top"
    /\ ~cancelled
    /\ LeaveInError("error")
    /\ Appends
    /\ UNCHANGED <<source, cancelled, budget, reply, batch, owed, progress, chain>>

(* Everything is on disk and the request goes out; a compaction, when the  *)
(* prompt is too long, and a new envelope come between the two, and their  *)
(* rows are only flushed as any row is.                                    *)
Request ==
    /\ pc = "top"
    /\ ~cancelled
    /\ pc' = "calling"
    /\ \E more \in BOOLEAN : IF more THEN Appends ELSE dirty' = FALSE
    /\ UNCHANGED <<source, cancelled, budget, reply, batch, finish, owed,
                   progress, ticket, chain>>

(* The server refused the prompt as too long: prune, compact, try again.   *)
Overflow ==
    /\ pc = "calling"
    /\ \/ /\ overflows < MaxOverflow
          /\ overflows' = overflows + 1
          /\ pc' = "top"
          /\ UNCHANGED <<finish, ticket>>
       \/ /\ overflows >= MaxOverflow
          /\ LeaveInError("error")
          /\ UNCHANGED overflows
    /\ Appends
    /\ UNCHANGED <<source, cancelled, hops, retries, nudges, nudged, reply,
                   batch, owed, progress, chain>>

(* Mutant of Retry: the step's allowance is not looked at. *)
RetryUnbounded ==
    /\ pc = "calling"
    /\ retries' = retries + 1
    /\ IF cancelled THEN Leave(finish) ELSE pc' = "top" /\ UNCHANGED finish
    /\ Appends
    /\ UNCHANGED <<source, cancelled, hops, overflows, nudges, nudged, reply,
                   batch, owed, progress, ticket, chain>>

(* Any other failure, or a reply with nothing in it: retried after a wait  *)
(* that Stop cuts short, until the step's allowance is spent; a fatal one  *)
(* is not retried.                                                         *)
Retry ==
    /\ pc = "calling"
    /\ retries < RetryMax
    /\ retries' = retries + 1
    /\ IF cancelled THEN Leave(finish) ELSE pc' = "top" /\ UNCHANGED finish
    /\ Appends
    /\ UNCHANGED <<source, cancelled, hops, overflows, nudges, nudged, reply,
                   batch, owed, progress, ticket, chain>>

(* Mutant of GiveUp: the turn ends in error and nobody is told. *)
GiveUpUnfiled ==
    /\ pc = "calling"
    /\ Leave("error")
    /\ Appends
    /\ UNCHANGED <<source, cancelled, budget, reply, batch, owed, progress,
                   ticket, chain>>

GiveUp ==
    /\ pc = "calling"
    /\ LeaveInError("error")
    /\ Appends
    /\ UNCHANGED <<source, cancelled, budget, reply, batch, owed, progress, chain>>

(* The reply is persisted; a native batch with it, unless Stop was pressed. *)
Reply(r, n) ==
    /\ pc = "calling"
    /\ reply' = r
    /\ pc' = "replied"
    /\ retries' = 0
    /\ overflows' = 0
    /\ left' = n
    /\ owed' = IF cancelled THEN owed ELSE owed + n
    /\ Appends
    /\ UNCHANGED <<source, cancelled, hops, nudges, nudged, running, over,
                   finish, progress, ticket, chain>>

ReplyCancelled ==
    /\ pc = "replied"
    /\ cancelled
    /\ Leave(finish)
    /\ UNCHANGED <<source, cancelled, budget, reply, batch, log, ticket, chain>>

Acting(r) == pc = "replied" /\ ~cancelled /\ reply = r

(* max_tokens: a long reply is shadowed by a stub that carries no calls. *)
CutOff ==
    /\ Acting("cut")
    /\ Leave("max_tokens")
    /\ \/ spoiled' = (spoiled \/ left > 0) /\ UNCHANGED <<dirty, owed>>
       \/ owed' = owed - left /\ Appends /\ UNCHANGED spoiled
    /\ UNCHANGED <<source, cancelled, budget, reply, batch, progress, ticket,
                   spent, continue, turnsLeft>>

EmptyReply ==
    /\ Acting("empty")
    /\ \/ /\ nudges < MaxNudges
          /\ nudges' = nudges + 1
          /\ pc' = "top"
          /\ UNCHANGED <<finish, ticket>>
       \/ /\ nudges >= MaxNudges
          /\ LeaveInError("empty")
          /\ UNCHANGED nudges
    /\ Appends
    /\ UNCHANGED <<source, cancelled, hops, retries, overflows, nudged, reply,
                   batch, owed, progress, chain>>

Miscall ==
    /\ Acting("miscall")
    /\ \/ /\ ~nudged /\ hops < MaxHops
          /\ nudged' = TRUE
          /\ pc' = "top"
          /\ UNCHANGED <<finish, ticket>>
       \/ /\ nudged \/ hops >= MaxHops
          /\ LeaveInError("bad-call")
          /\ UNCHANGED nudged
    /\ Appends
    /\ UNCHANGED <<source, cancelled, hops, retries, overflows, nudges, reply,
                   batch, owed, progress, chain>>

PlainReply ==
    /\ Acting("plain")
    /\ Leave(finish)
    /\ UNCHANGED <<source, cancelled, budget, reply, batch, log, ticket, chain>>

(* A call of the text protocol is logged and flushed before its body runs; *)
(* past the hop limit it is answered instead.                              *)
TextCall ==
    /\ Acting("call")
    /\ \/ LeaveInError("error") /\ Appends /\ UNCHANGED <<hops, running>>
       \/ /\ hops >= MaxHops
          /\ Leave("hop-limit")
          /\ Appends
          /\ UNCHANGED <<hops, running, ticket>>
       \/ /\ hops < MaxHops
          /\ hops' = hops + 1
          /\ pc' = "running"
          /\ running' = 1
          /\ dirty' = FALSE
          /\ UNCHANGED <<finish, ticket>>
    /\ UNCHANGED <<source, cancelled, retries, overflows, nudges, nudged, reply,
                   left, over, owed, progress, chain>>

TextResult ==
    /\ pc = "running" /\ reply = "call"
    /\ running' = 0
    /\ \E ok \in BOOLEAN : progress' = (progress \/ ok)
    /\ \/ pc' = "top" /\ UNCHANGED finish
       \/ Leave("done")
    /\ Appends
    /\ UNCHANGED <<source, cancelled, budget, reply, left, over, owed, ticket, chain>>

-----------------------------------------------------------------------------
(* run_native_batch *)

(* Mutant of BatchOpens: a batch of native calls is not counted as a hop. *)
BatchOpensUncounted ==
    /\ Acting("calls")
    /\ over' = (hops >= MaxHops)
    /\ pc' = "batch"
    /\ UNCHANGED <<source, cancelled, budget, reply, left, running, finish, log,
                   ticket, chain>>

BatchOpens ==
    /\ Acting("calls")
    /\ over' = (hops >= MaxHops)
    /\ hops' = IF hops >= MaxHops THEN hops ELSE hops + 1
    /\ pc' = "batch"
    /\ UNCHANGED <<source, cancelled, retries, overflows, nudges, nudged, reply,
                   left, running, finish, log, ticket, chain>>

(* Nothing is left, or Stop was pressed: the rest stays as it is. *)
BatchEnds ==
    /\ pc = "batch"
    /\ left = 0 \/ cancelled
    /\ left' = 0
    /\ IF over THEN Leave("hop-limit") ELSE pc' = "top" /\ UNCHANGED finish
    /\ UNCHANGED <<source, cancelled, budget, reply, running, over, log, ticket, chain>>

(* Mutant of BatchRun: the body starts whether or not the flush succeeded. *)
BatchRunUnflushed(k) ==
    /\ pc = "batch"
    /\ ~cancelled
    /\ ~over
    /\ left' = left - k
    /\ running' = k
    /\ pc' = "running"
    /\ Appends
    /\ UNCHANGED <<source, cancelled, budget, reply, over, finish, owed,
                   progress, ticket, chain>>

(* The next call, or a chunk of read-only ones, is logged and flushed, and *)
(* its body starts.                                                        *)
BatchRun(k) ==
    /\ pc = "batch"
    /\ ~cancelled
    /\ ~over
    /\ left' = left - k
    /\ running' = k
    /\ pc' = "running"
    /\ dirty' = FALSE
    /\ UNCHANGED <<source, cancelled, budget, reply, over, finish, owed,
                   progress, ticket, chain>>

(* The call is answered without a body: past the hop limit, unknown,       *)
(* refused, or with arguments that cannot be read.                         *)
BatchAnswer ==
    /\ pc = "batch"
    /\ ~cancelled
    /\ left > 0
    /\ left' = left - 1
    /\ owed' = owed - 1
    /\ Appends
    /\ UNCHANGED <<task, budget, reply, running, over, finish, progress, ticket,
                   chain>>

(* Mutant of BatchAborted: only the call whose flush failed is answered. *)
BatchAbortedAlone ==
    /\ pc = "batch"
    /\ ~cancelled
    /\ left > 0
    /\ left' = 0
    /\ owed' = owed - 1
    /\ LeaveInError("error")
    /\ Appends
    /\ UNCHANGED <<source, cancelled, budget, reply, running, over, progress, chain>>

(* The flush fails: this call and all that follow are answered as not run. *)
BatchAborted ==
    /\ pc = "batch"
    /\ ~cancelled
    /\ left > 0
    /\ left' = 0
    /\ owed' = owed - left
    /\ LeaveInError("error")
    /\ Appends
    /\ UNCHANGED <<source, cancelled, budget, reply, running, over, progress, chain>>

(* The bodies are done and their results land, whatever the token says; an *)
(* approved plan answers the rest and ends the turn.                       *)
BatchResults ==
    /\ pc = "running" /\ reply = "calls"
    /\ running' = 0
    /\ \E ok \in BOOLEAN : progress' = (progress \/ ok)
    /\ \/ /\ pc' = "batch"
          /\ owed' = owed - running
          /\ UNCHANGED <<left, finish>>
       \/ /\ running = 1
          /\ owed' = owed - running - left
          /\ left' = 0
          /\ Leave("done")
    /\ Appends
    /\ UNCHANGED <<source, cancelled, budget, reply, over, ticket, chain>>

-----------------------------------------------------------------------------
(* After the loop *)

(* TurnEnd is appended under the reason the token may overrule. *)
EndTurn ==
    /\ pc = "ending"
    /\ finish' = IF cancelled THEN "interrupted" ELSE finish
    /\ pc' = "judging"
    /\ Appends
    /\ UNCHANGED <<source, cancelled, budget, reply, batch, owed, progress,
                   ticket, spent, continue, turnsLeft, spoiled>>

Abnormal == {"hop-limit", "max_tokens", "error", "empty", "bad-call"}
NeedsCheck == finish \in Abnormal \/ (source = "auto" /\ finish = "done")

BudgetLeft(s) == s.stalled < MaxStalled /\ s.opened < MaxAuto
Refund(s) == [s EXCEPT !.stalled = IF @ > 0 THEN @ - 1 ELSE 0]
(* Mutant of OpenOne: only the stalled allowance is charged. *)
OpenOneUncounted(s) == [s EXCEPT !.stalled = @ + 1]
OpenOne(s) == [opened |-> s.opened + 1, stalled |-> s.stalled + 1]

(* The completion check: a verdict, or none when the request failed. *)
Judge(verdict) ==
    /\ pc = "judging"
    /\ NeedsCheck
    /\ LET s == IF source = "auto" /\ progress THEN Refund(spent) ELSE spent
           more == verdict = "unmet" /\ BudgetLeft(s)
       IN  /\ continue' = more
           /\ spent' = IF more THEN OpenOne(s) ELSE s
    /\ IF verdict = "none" THEN UNCHANGED dirty ELSE Appends
    /\ pc' = "deciding"
    /\ UNCHANGED <<source, cancelled, budget, reply, batch, finish, owed,
                   progress, ticket, turnsLeft, spoiled>>

NoCheck ==
    /\ pc = "judging"
    /\ ~NeedsCheck
    /\ pc' = "deciding"
    /\ UNCHANGED <<source, cancelled, budget, reply, batch, finish, log, ticket,
                   chain>>

(* Mutant of Continue: a Stop during the check is not looked at. *)
ContinueUnstopped ==
    /\ pc = "deciding"
    /\ continue
    /\ Open("auto")
    /\ Appends
    /\ UNCHANGED <<owed, spent, turnsLeft, spoiled>>

(* The slot goes to the continuation, or to none (DecideContinue and its   *)
(* neighbours in TurnSlot).                                                *)
Continue ==
    /\ pc = "deciding"
    /\ continue
    /\ ~cancelled
    /\ Open("auto")
    /\ Appends
    /\ UNCHANGED <<owed, spent, turnsLeft, spoiled>>

GoIdle ==
    /\ pc = "deciding"
    /\ ~continue \/ cancelled
    /\ pc' = "idle"
    /\ UNCHANGED <<source, cancelled, budget, reply, batch, finish, log, ticket,
                   chain>>

-----------------------------------------------------------------------------
Replies ==
    {<<"plain", 0>>, <<"empty", 0>>, <<"call", 0>>, <<"miscall", 0>>}
        \cup {<<"calls", n>> : n \in 1 .. MaxCalls}
        \cup {<<"cut", n>> : n \in 0 .. MaxCalls}

Step ==
    \/ TopCancelled \/ TopFails \/ Request
    \/ Overflow \/ Retry \/ GiveUp
    \/ \E r \in Replies : Reply(r[1], r[2])
    \/ ReplyCancelled \/ CutOff \/ EmptyReply \/ Miscall \/ PlainReply
    \/ TextCall \/ TextResult
    \/ BatchOpens \/ BatchEnds \/ BatchAnswer \/ BatchAborted \/ BatchResults
    \/ \E k \in 1 .. left : BatchRun(k)
    \/ EndTurn
    \/ \E v \in {"none", "reached", "unmet"} : Judge(v)
    \/ NoCheck \/ Continue \/ GoIdle

Next ==
    \/ Step
    \/ Stop
    \/ \E s \in {"human", "goal"} : StartTurn(s)

Spec == Init /\ [][Next]_vars

(* A turn task is never parked for good: requests have an idle timeout,    *)
(* tool bodies and the check a limit of their own, so it takes its next    *)
(* step.  Which step, the model and the disk decide.                       *)
FairSpec == Spec /\ WF_vars(Step)

-----------------------------------------------------------------------------
(* Properties *)

(* Types, and every counter within its budget: a retry, a nudge or a       *)
(* continuation past its constant is a type error.                         *)
TypeOK ==
    /\ pc \in {"idle", "top", "calling", "replied", "batch", "running", "ending",
               "judging", "deciding"}
    /\ source \in {"human", "goal", "auto"}
    /\ cancelled \in BOOLEAN
    /\ hops \in 0 .. MaxHops
    /\ retries \in 0 .. RetryMax
    /\ overflows \in 0 .. MaxOverflow
    /\ nudges \in 0 .. MaxNudges
    /\ nudged \in BOOLEAN
    /\ reply \in {"none", "plain", "empty", "calls", "call", "miscall", "cut"}
    /\ left \in 0 .. MaxCalls
    /\ running \in 0 .. MaxCalls
    /\ over \in BOOLEAN
    /\ finish \in Abnormal \cup {"done", "interrupted"}
    /\ dirty \in BOOLEAN
    /\ owed \in Nat
    /\ ticket \in BOOLEAN
    /\ progress \in BOOLEAN
    /\ spent \in [opened : 0 .. MaxAuto, stalled : 0 .. MaxStalled]
    /\ continue \in BOOLEAN
    /\ turnsLeft \in 0 .. MaxTurns
    /\ spoiled \in BOOLEAN

(* "The recorded call is durable before its body can have an external      *)
(* effect": while a body runs every row of the log is on disk.             *)
EffectIsDurable == pc = "running" => ~dirty

(* error-turn-ticketed (invariants.rs): a turn that the log says ended in  *)
(* error, or that a model's silence or miscalls ended, has a ticket.       *)
ErrorIsTicketed ==
    pc \in {"judging", "deciding"} /\ finish \in {"error", "empty", "bad-call"}
        => ticket

(* "An assistant message that carries tool_calls needs exactly one tool    *)
(* result per id": as long as no turn was stopped and no batch cut off,    *)
(* what is owed is what the batch in hand still holds, however its calls   *)
(* fail, are refused, run past the hop limit or are cut short by a plan    *)
(* review or a failing disk.                                               *)
CallsAnswered ==
    ~spoiled => owed = IF reply = "calls" \/ pc = "replied" THEN left + running ELSE 0

(* A continuation is opened only under the allowance of the human message  *)
(* it descends from, and never by a turn that was stopped.                 *)
ContinuesInBudget ==
    [][pc = "deciding" /\ pc' = "top" =>
          ~cancelled /\ finish # "interrupted" /\ spent.opened \in 1 .. MaxAuto]_vars

(* The hop machine TurnSlot is written over. *)
phase ==
    CASE pc = "idle" -> "idle"
      [] pc = "top" -> "top"
      [] pc \in {"calling", "replied", "batch", "running"} -> "calling"
      [] OTHER -> "ending"
Phases == INSTANCE TurnPhases
(* The loop takes no step the hop machine does not have, whatever the model*)
(* answers and wherever Stop falls: TurnLoop implements TurnPhases.        *)
LoopImplementsPhases == Phases!Spec

(* With nobody sending, a session comes to rest: every budget runs out.    *)
ComesToRest == <>[](pc = "idle")

-----------------------------------------------------------------------------
(* Properties the sources state and the code does not keep (see README).   *)

(* "A dangling tool_calls with no tool responses would poison the next     *)
(* request's template": no request goes out with a call unanswered.        *)
NoDanglingCalls == pc = "calling" => owed = 0

(* "A flush that cannot be confirmed ends the turn rather than sending a   *)
(* request the log would not remember."                                    *)
RequestIsDurable == pc = "calling" => ~dirty
=============================================================================
