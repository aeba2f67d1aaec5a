------------------------------- MODULE Replay -------------------------------
(***************************************************************************)
(* Recorded-session evals: a session is held once with a real provider,    *)
(* its log becomes the script of later runs (llm/replay.rs), the driver    *)
(* (frontend/bin/replay.rs) sends the recorded prompts to a backend that   *)
(* answers from the script, and the log this produces is compared with     *)
(* the recording after the volatile parts of both are masked               *)
(* (sica-core/snapshot.rs).                                                *)
(*                                                                         *)
(* Three runs follow each other: 1 the live session, 2 the replay with     *)
(* --bless that writes the recording, 3 the replay that checks it.  The    *)
(* harness between script and log is reduced to what takes a completion    *)
(* and what it writes.  A word of a row is a record: what it is, and the   *)
(* run it belongs to; 0 where it is the same in every run or masked.       *)
(*                                                                         *)
(* Time passes in settle windows, and only while the harness sleeps: a     *)
(* step that is ready takes far less than a window.                        *)
(***************************************************************************)
EXTENDS Integers, Sequences, SequencesExt, FiniteSetsExt

CONSTANTS
    PromptCount,     \* bound: prompts of the live session
    LiveReplies,     \* what the provider may say: text and the tool it calls
    OverrideFiles,   \* what replay.override.json may hold: before, kind
    Pads,            \* values of the scenario's pad
    CompactAt,       \* the turn whose prompt crosses the threshold
    Retries,         \* retries of a request, and of an unusable summary
    Backoff, SlowTool, Hold,   \* in settle windows: a retry's delay, a slow tool, a hang
    TurnTimeout,     \* TURN_TIMEOUT, in settle windows
    ToolBound        \* bound: tool calls of the live session

VARIABLES
    repStage,        \* "live", "bless", "check" or "done"
    overrides, pad,  \* the scenario's files
    drift,           \* what changed in the harness before run 3
    script,          \* ReplayScript.queue
    produced,        \* the rows of this run's session log
    recording,       \* session.jsonl of the scenario
    toSend,          \* prompts the driver has still to send
    heldBack,        \* prompts that arrived during a turn (Inbox)
    harness,         \* what the turn is doing, and for how much longer
    turnNo, titling,
    driver,          \* the settle loop of run_scenario
    backendErrors,   \* an ERROR line reached the driver
    outcome,         \* what run_scenario returned
    servedCalls,     \* history: the script's entries, as they were taken
    upset            \* history: what disturbed a replay

replayVars == <<repStage, overrides, pad, drift, script, produced, recording, toSend, heldBack, harness,
                turnNo, titling, driver, backendErrors, outcome, servedCalls, upset>>
scenarioVars == <<overrides, pad, drift>>
runVars == <<repStage, recording, outcome>>

RunOf == CASE repStage = "live" -> 1 [] repStage = "bless" -> 2 [] OTHER -> 3
Word(w, run) == [w |-> w, run |-> run]
LogRow(kind, text) == [kind |-> kind, text |-> text]
Resting == [at |-> "idle", left |-> 0, tries |-> 0]
(* quiet_until - now, once the last frame arrived. *)
Listening(saw, allow, spent) == [on |-> TRUE, saw |-> saw, silence |-> 0, allow |-> allow, spent |-> spent]
NotListening == [Listening(FALSE, 0, 0) EXCEPT !.on = FALSE]
CreatedRow(run) == LogRow("created", <<Word("id", run), Word("clock", run)>>)

ReplayInit ==
    /\ repStage = "live" /\ overrides \in OverrideFiles /\ pad \in Pads
    /\ drift \in {"none", "date", "noRetryRow"}
    /\ script = <<>> /\ recording = <<>> /\ produced = <<CreatedRow(1)>>
    /\ toSend \in {[i \in 1 .. n |-> Word("p", 0)] : n \in 1 .. PromptCount}
    /\ heldBack = <<>> /\ harness = Resting /\ turnNo = 0 /\ titling = "none"
    /\ driver = NotListening /\ backendErrors = FALSE /\ outcome = "none"
    /\ servedCalls = <<>> /\ upset = {}

----------------------------------------------------------------------------
(* The script: from_log, with_overrides, pad. *)
EmptyCall == [kind |-> "empty", text |-> "", tool |-> "none"]
Message(text, tool) == [kind |-> "message", text |-> text, tool |-> tool]
Exhausted == [EmptyCall EXCEPT !.kind = "exhausted"]

FromLog(rows) ==
    LET said == SelectSeq(rows, LAMBDA r : r.kind \in {"assistant", "summary"})
    IN  [i \in DOMAIN said |-> [Message(said[i].text[1].w, "none") EXCEPT
                                   !.tool = IF said[i].kind = "assistant" THEN said[i].text[2].w ELSE "none"]]

InsertCall(queue, o) ==
    InsertAt(queue, 1 + (IF o.before > Len(queue) THEN Len(queue) ELSE o.before),
             [EmptyCall EXCEPT !.kind = o.kind])

(* The sort is stable and descending: of two entries for one call the      *)
(* later in the file ends up first.                                        *)
WithOverridesInFileOrder(queue, file) ==
    LET ordered == SortSeq(file, LAMBDA a, b : a.before < b.before)
    IN  FoldLeft(InsertCall, queue, ordered)

WithOverrides(queue, file) ==
    LET ordered == SortSeq(file, LAMBDA a, b : a.before > b.before)
    IN  FoldLeft(InsertCall, queue, ordered)

Padded(queue, n) ==
    LET said == SelectSeq(queue, LAMBDA c : c.kind = "message")
    IN  IF said = <<>> THEN queue ELSE queue \o [i \in 1 .. n |-> Last(said)]

LoadReplay(rows) == Padded(WithOverrides(FromLog(rows), overrides), pad)

----------------------------------------------------------------------------
(* The log: normalize_paths and mask_paths. *)
Masked(row, words) ==
    [row EXCEPT !.text = [i \in DOMAIN row.text |->
                            IF row.text[i].w \in words THEN Word(row.text[i].w, 0) ELSE row.text[i]]]

(* normalize_event: by the name of the field. *)
VolatileEverywhere(kind) == {"clock", "id", "delay", "date"}

Volatile(kind) ==
    CASE kind = "created" -> {"id", "clock"}
      [] kind = "context" -> {"clock", "date"}
      [] kind = "retry" -> {"delay"}
      [] OTHER -> {}

(* The recording is normalised with no path of its own: it was blessed. *)
NormalizeWithout(rows, paths) == [i \in DOMAIN rows |-> Masked(rows[i], Volatile(rows[i].kind) \cup paths)]

Normalize(rows, paths) ==
    [i \in DOMAIN rows |-> Masked(rows[i], Volatile(rows[i].kind) \cup {"spill"} \cup paths)]

RunPaths == {"cwd", "root"}
MaskPaths(rows) == [i \in DOMAIN rows |-> Masked(rows[i], RunPaths)]
SameLog == Normalize(recording, {}) = Normalize(produced, RunPaths)

----------------------------------------------------------------------------
(* The harness.  A frame of any kind restarts the driver's settle window;  *)
(* a retry lengthens it by the delay it announces.                         *)
Frame(finished, delay) ==
    driver' = IF driver.on THEN Listening(driver.saw \/ finished, 1 + delay, driver.spent) ELSE driver

Appends(rows) == produced' = produced \o rows

(* chat_stream: the live provider, or serve_replay. *)
ToolsUsed == Len(SelectSeq(produced, LAMBDA r : r.kind = "result"))

Provider ==
    IF repStage = "live" THEN {r \in LiveReplies : r.tool # "none" => ToolsUsed < ToolBound}
    ELSE IF script = <<>> THEN {Exhausted} ELSE {Head(script)}

Takes(call) ==
    /\ call \in Provider
    /\ IF repStage = "live" \/ script = <<>> THEN UNCHANGED <<script, servedCalls>>
       ELSE script' = Tail(script) /\ servedCalls' = Append(servedCalls, call)

TurnBeginsWith(p, rest) ==
    LET envelope == IF turnNo = 0 THEN <<LogRow("envelope", <<>>)>> ELSE <<>> IN
    /\ Appends(<<LogRow("context", <<Word("clock", RunOf), Word("cwd", RunOf)>>),
                 LogRow("user", <<p>>)>> \o envelope)
    /\ turnNo' = turnNo + 1 /\ heldBack' = rest
    /\ harness' = [Resting EXCEPT !.at = IF turnNo + 1 = CompactAt THEN "compacting" ELSE "calling"]

(* send_user_message: a busy session keeps the prompt for later. *)
PromptArrives ==
    /\ toSend # <<>> /\ ~driver.on /\ repStage \in {"live", "bless", "check"}
    /\ repStage = "live" => harness = Resting /\ titling # "due"
    /\ toSend' = Tail(toSend)
    /\ driver' = IF repStage = "live" THEN driver ELSE Listening(FALSE, 1, 0)
    /\ IF harness = Resting
       THEN TurnBeginsWith(Head(toSend), heldBack)
       ELSE heldBack' = Append(heldBack, Head(toSend)) /\ UNCHANGED <<produced, turnNo, harness>>
    /\ UNCHANGED <<runVars, scenarioVars, script, titling, backendErrors, servedCalls, upset>>

FollowupStarts ==
    /\ harness = Resting /\ heldBack # <<>>
    /\ TurnBeginsWith(Head(heldBack), Tail(heldBack)) /\ Frame(FALSE, 0)
    /\ UNCHANGED <<runVars, scenarioVars, script, toSend, titling, backendErrors, servedCalls, upset>>

(* compact_session: an unusable summary is asked for again, and no row     *)
(* says that a completion went into it.                                    *)
Summarises(call) ==
    /\ harness.at = "compacting" /\ call.kind # "hang"
    /\ IF repStage = "live" /\ call = EmptyCall THEN UNCHANGED <<script, servedCalls>> ELSE Takes(call)
    /\ IF call.kind = "message"
       THEN Appends(<<LogRow("summary", <<Word(call.text, 0)>>)>>) /\ harness' = [Resting EXCEPT !.at = "calling"]
       ELSE /\ UNCHANGED produced
            /\ harness' = IF harness.tries < Retries THEN [harness EXCEPT !.tries = @ + 1]
                          ELSE [Resting EXCEPT !.at = "calling"]
    /\ upset' = upset \cup (IF call.kind = "message" THEN {} ELSE {"summary"})
    /\ Frame(TRUE, 0)
    /\ UNCHANGED <<runVars, scenarioVars, toSend, heldBack, turnNo, titling, backendErrors>>

TurnOver(said) ==
    /\ harness' = Resting
    /\ titling' = IF turnNo = 1 /\ said THEN "due" ELSE titling

(* A reply: written, and either a tool runs or the turn is over. *)
ReplyLands(call) ==
    /\ harness.at = "calling" /\ call.kind = "message" /\ Takes(call)
    /\ Frame(TRUE, 0)
    /\ \/ /\ call.tool = "none" /\ TurnOver(TRUE)
          /\ Appends(<<LogRow("assistant", <<Word(call.text, 0), Word(call.tool, 0)>>), LogRow("end", <<>>)>>)
       \/ /\ call.tool # "none" /\ UNCHANGED titling
          /\ \E slow \in {0, SlowTool} : harness' = [at |-> call.tool, left |-> slow, tries |-> 0]
          /\ Appends(<<LogRow("assistant", <<Word(call.text, 0), Word(call.tool, 0)>>)>>)
    /\ UNCHANGED <<runVars, scenarioVars, toSend, heldBack, turnNo, backendErrors, upset>>

(* What a tool puts into its result: a date that is part of the answer, or *)
(* the file a long output was spilled to.                                  *)
Drifts(what) == repStage = "check" /\ drift = what

ToolReturns ==
    /\ harness.at \in {"date", "big"} /\ harness.left = 0
    /\ harness' = [Resting EXCEPT !.at = "calling"]
    /\ Appends(<<LogRow("result", IF harness.at = "big" THEN <<Word("root", RunOf), Word("spill", RunOf)>>
                                  ELSE <<Word("date", IF Drifts("date") THEN 1 ELSE 0)>>)>>)
    /\ upset' = upset \cup (IF harness.at = "date" /\ Drifts("date") THEN {"drift"} ELSE {})
    /\ Frame(FALSE, 0)
    /\ UNCHANGED <<runVars, scenarioVars, script, toSend, heldBack, turnNo, titling, backendErrors, servedCalls>>

(* A retryable failure and an empty stream are retried after a delay;      *)
(* the rest, and the failure after the last retry, ends the turn with an   *)
(* ERROR line.  A hang ends as an empty stream.                            *)
Fails(failure) ==
    LET again == failure \in {"error", "empty"} /\ harness.tries < Retries
        row == IF again THEN LogRow("retry", <<Word("delay", RunOf)>>) ELSE LogRow("error", <<>>)
    IN  /\ Frame(TRUE, IF again THEN Backoff ELSE 0)
        /\ IF again /\ Drifts("noRetryRow") THEN UNCHANGED produced
           ELSE Appends(<<row>> \o (IF again THEN <<>> ELSE <<LogRow("end", <<>>)>>))
        /\ upset' = upset \cup (IF again THEN IF Drifts("noRetryRow") THEN {"drift"} ELSE {} ELSE {"error"})
        /\ IF again
           THEN /\ harness' = [at |-> "backoff", left |-> Backoff, tries |-> harness.tries + 1]
                /\ UNCHANGED <<titling, backendErrors>>
           ELSE TurnOver(FALSE) /\ backendErrors' = TRUE

RequestFails(call) ==
    /\ harness.at = "calling" /\ call.kind \in {"error", "empty", "fatal", "exhausted"}
    /\ Takes(call) /\ Fails(call.kind)
    /\ UNCHANGED <<runVars, scenarioVars, toSend, heldBack, turnNo>>

RequestHangs(call) ==
    /\ harness.at \in {"calling", "compacting"} /\ call.kind = "hang" /\ Takes(call)
    /\ harness' = [harness EXCEPT !.at = "hang", !.left = Hold]
    /\ upset' = upset \cup {"hang"}
    /\ UNCHANGED <<runVars, scenarioVars, produced, toSend, heldBack, turnNo, titling, driver, backendErrors>>

HangEnds ==
    /\ harness.at = "hang" /\ harness.left = 0 /\ Fails("empty")
    /\ UNCHANGED <<runVars, scenarioVars, script, toSend, heldBack, turnNo, servedCalls>>

BackoffEnds ==
    /\ harness.at = "backoff" /\ harness.left = 0 /\ harness' = [harness EXCEPT !.at = "calling"]
    /\ Frame(FALSE, 0)
    /\ UNCHANGED <<runVars, scenarioVars, script, produced, toSend, heldBack, turnNo, titling, backendErrors,
                   servedCalls, upset>>

(* The titler, spawned after the first answered turn: one completion that  *)
(* no row records as one.                                                  *)
TitlerAsks(call) ==
    /\ titling = "due" /\ titling' = "done" /\ Takes(call)
    /\ IF call.kind = "message"
       THEN Appends(<<LogRow("title", <<Word(call.text, 0)>>)>>) /\ Frame(FALSE, 0)
       ELSE UNCHANGED <<produced, driver>>
    /\ upset' = upset \cup (IF repStage # "live" /\ script # <<>> THEN {"title"} ELSE {})
    /\ UNCHANGED <<runVars, scenarioVars, toSend, heldBack, harness, turnNo, backendErrors>>

----------------------------------------------------------------------------
(* The driver. *)
Sleeping == harness.left > 0
HarnessReady == (harness # Resting /\ ~Sleeping) \/ titling = "due" \/ (harness = Resting /\ heldBack # <<>>)

WindowPasses ==
    /\ ~HarnessReady
    /\ IF driver.on THEN driver.silence < driver.allow /\ driver.spent < TurnTimeout
       ELSE Sleeping /\ repStage = "live"
    /\ harness' = IF Sleeping THEN [harness EXCEPT !.left = @ - 1] ELSE harness
    /\ driver' = IF driver.on THEN [driver EXCEPT !.silence = @ + 1, !.spent = @ + 1] ELSE driver
    /\ UNCHANGED <<runVars, scenarioVars, script, produced, toSend, heldBack, turnNo, titling, backendErrors,
                   servedCalls, upset>>

Quiet == driver.on /\ driver.silence >= driver.allow

(* Quiet with a hop finished: the next prompt, or Shutdown. *)
Settles == Quiet /\ driver.saw /\ driver.spent < TurnTimeout

DriverMovesOn ==
    /\ Settles /\ driver' = NotListening
    /\ upset' = upset \cup (IF harness # Resting THEN {"cut"} ELSE {})
    /\ UNCHANGED <<runVars, scenarioVars, script, produced, toSend, heldBack, harness, turnNo, titling, backendErrors,
                   servedCalls>>

(* The next run of the scenario: a backend of its own in a fresh tree. *)
NextRun(stage, rows) ==
    /\ repStage' = stage /\ recording' = rows
    /\ script' = LoadReplay(rows) /\ servedCalls' = <<>>
    /\ produced' = <<CreatedRow(IF stage = "bless" THEN 2 ELSE 3)>>
    /\ toSend' = [i \in 1 .. Len(SelectSeq(rows, LAMBDA r : r.kind = "user")) |->
                     SelectSeq(rows, LAMBDA r : r.kind = "user")[i].text[1]]
    /\ heldBack' = <<>> /\ harness' = Resting /\ turnNo' = 0 /\ titling' = "none"
    /\ driver' = NotListening /\ backendErrors' = FALSE
    /\ upset' = upset \ {"cut", "error", "title", "summary", "hang"}
    /\ UNCHANGED scenarioVars

LiveSessionEnds ==
    /\ repStage = "live" /\ toSend = <<>> /\ harness = Resting /\ titling # "due"
    /\ NextRun("bless", produced) /\ UNCHANGED outcome

Returns(result) ==
    /\ repStage' = "done" /\ outcome' = result
    /\ UNCHANGED <<scenarioVars, script, produced, recording, toSend, heldBack, harness, turnNo, titling, driver,
                   backendErrors, servedCalls, upset>>

DriverBails ==
    /\ \/ Quiet /\ ~driver.saw
       \/ driver.on /\ driver.spent >= TurnTimeout
    /\ Returns("failed")

(* Shutdown ends the backend where it stands. *)
Blesses ==
    /\ repStage = "bless" /\ toSend = <<>> /\ ~driver.on
    /\ NextRun("check", MaskPaths(produced)) /\ UNCHANGED outcome

Compares ==
    /\ repStage = "check" /\ toSend = <<>> /\ ~driver.on
    /\ Returns(IF SameLog /\ ~backendErrors THEN "ok" ELSE "failed")

ReplayNext ==
    \/ PromptArrives \/ FollowupStarts \/ ToolReturns \/ BackoffEnds \/ HangEnds
    \/ \E c \in Provider \cup {EmptyCall} : Summarises(c)
    \/ \E c \in Provider : ReplyLands(c) \/ RequestFails(c) \/ RequestHangs(c) \/ TitlerAsks(c)
    \/ WindowPasses \/ DriverMovesOn \/ LiveSessionEnds \/ DriverBails \/ Blesses \/ Compares
----------------------------------------------------------------------------
(* An injected failure is served after exactly the recorded completions    *)
(* its before_call names, whatever else the file injects.                  *)
InjectedInPlace ==
    LET injected == {i \in DOMAIN servedCalls : servedCalls[i].kind # "message"}
        before(i) == Cardinality({j \in 1 .. i : servedCalls[j].kind = "message"})
        recorded == Len(FromLog(recording))
    IN  \A i \in injected :
            \E k \in DOMAIN overrides :
                /\ overrides[k].kind = servedCalls[i].kind
                /\ before(i) = (IF overrides[k].before > recorded THEN recorded ELSE overrides[k].before)

(* A blessed recording whose check ran undisturbed (no turn was cut,       *)
(* failed or hung) passes: what differs between two runs of one program is *)
(* masked.  A completion that went to another request than it was recorded *)
(* for is no excuse where all of them say the same, call no tool and the   *)
(* padding covers the extra requests.                                      *)
Interchangeable ==
    LET said == SelectSeq(recording, LAMBDA r : r.kind \in {"assistant", "summary", "title"})
    IN  /\ Cardinality({said[i].text[1] : i \in DOMAIN said}) = 1
        /\ \A c \in ToSet(FromLog(recording)) : c.tool = "none"
        /\ pad >= 2 /\ overrides = <<>>

UnchangedPasses ==
    repStage = "done" /\ outcome = "failed" =>
        upset \ (IF Interchangeable THEN {"title", "summary"} ELSE {}) # {}

(* A run whose harness behaved differently from the recorded one fails:    *)
(* the masks hide nothing a scenario is about.                             *)
DriftIsCaught == outcome = "ok" => "drift" \notin upset

(* What a replayed scenario is good for: failures come where the file says,*)
(* an unchanged harness passes, and a changed one does not.                *)
ReplaySound == InjectedInPlace /\ UnchangedPasses /\ DriftIsCaught

(* "Quiet for a whole settle window with at least one hop finished: the    *)
(* turn is over" (bin/replay.rs).                                          *)
QuietIsOver == repStage \in {"bless", "check"} => "cut" \notin upset

(* "a recorded session.jsonl *is* the script - nothing extra has to be     *)
(* captured, and a scenario is recorded by having a real session once"     *)
(* (llm/replay.rs): a recording is not refuted by its own program because  *)
(* the titler took a reply that was recorded for a turn.                   *)
RecordingIsScript == outcome = "failed" => upset \ {"title"} # {} \/ overrides # <<>>
=============================================================================
