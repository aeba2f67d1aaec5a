------------------------------ MODULE Program -------------------------------
(***************************************************************************)
(* A script in the sandbox (agents/script.rs), as run-code (ptc.rs) and    *)
(* workflow (workflow.rs) run it: on a blocking thread of its own that     *)
(* nothing outside can stop, polled between operations, while the pipeline *)
(* that called the skill waits, times out or is cancelled.                 *)
(***************************************************************************)
EXTENDS Integers

CONSTANTS
    OpCap,        \* MAX_OPERATIONS
    SampleOps,    \* the clock is read when ops % SampleOps = 0
    HostCap,      \* MAX_SUB_CALLS, MAX_AGENTS
    OutputMax,    \* output_max
    LineSizes,    \* bytes of the lines a script prints, newline included
    LineMax,      \* the longest: max_string_size, newline and debug prefix
    ResultSizes,  \* bytes of `Result: ...`; 0 when the script returns unit
    Notice,       \* bytes of window's notice and the newlines around it
    Budget,       \* PROGRAM_BUDGET
    CallTimeout,  \* Skill::timeout, longer
    ClockBound    \* bound: time

ASSUME ProgramAssumption ==
    /\ HostCap \in Nat /\ OutputMax \in Nat /\ Notice \in Nat
    /\ LineMax \in Nat \ {0} /\ LineSizes \subseteq 1 .. LineMax /\ ResultSizes \subseteq Nat

VARIABLES
    thread,       \* "script", "host" in a host function, "over"
    ops, hostCalls, wall,
    printedBytes, \* length of the output buffer
    resultBytes,  \* length of the `Result: ...` run() adds to it
    answer,       \* length of the output the model reads
    verdict,      \* how the script ended
    waiter,       \* the pipeline: "waits", "answered", "timedOut", "dropped"
    token,        \* the turn's cancellation token fired
    (* history, read by the properties only *)
    said,         \* bytes the script printed, counted until they pass the cap
    afterwards    \* host calls begun once nobody waited

outputVars == <<printedBytes, resultBytes, answer, said>>
programVars == <<thread, ops, hostCalls, outputVars, wall, verdict, waiter, token, afterwards>>
loopVars == <<wall, waiter, token>>

ProgramInit ==
    /\ thread = "script" /\ ops = 0 /\ hostCalls = 0 /\ wall = 0
    /\ printedBytes = 0 /\ resultBytes = 0 /\ answer = 0 /\ said = 0
    /\ verdict = "none" /\ waiter = "waits" /\ token = FALSE /\ afterwards = 0

(* Mutant: no cap on operations. *)
NeverAborts == "none"

(* on_progress and the operation cap, before each operation. *)
Aborts ==
    IF token THEN "interrupted"
    ELSE IF ops % SampleOps = 0 /\ wall >= Budget THEN "deadline"
    ELSE IF ops >= OpCap THEN "operations"
    ELSE "none"

(* An operation the script gets to do.  Past the cap, where it never is,   *)
(* the count would alternate.                                              *)
Operates ==
    /\ thread = "script" /\ Aborts = "none"
    /\ ops' = IF ops > OpCap THEN OpCap ELSE ops + 1

ScriptAborts ==
    /\ thread = "script" /\ Aborts # "none" /\ thread' = "over" /\ verdict' = Aborts
    /\ UNCHANGED <<ops, hostCalls, outputVars, loopVars, afterwards>>

Computes ==
    /\ Operates /\ UNCHANGED <<thread, hostCalls, outputVars, verdict, loopVars, afterwards>>

(* append: a line of any length goes in whole while the buffer is below    *)
(* twice the cap; later ones are dropped.                                  *)
Prints(n) ==
    /\ Operates
    /\ printedBytes' = IF printedBytes < 2 * OutputMax THEN printedBytes + n ELSE printedBytes
    /\ said' = IF said > OutputMax THEN said ELSE said + n
    /\ UNCHANGED <<thread, hostCalls, resultBytes, answer, verdict, loopVars, afterwards>>

(* Mutant: the cap is checked one call late. *)
CallsOnceMore ==
    /\ Operates /\ hostCalls <= HostCap
    /\ hostCalls' = hostCalls + 1 /\ thread' = "host"
    /\ afterwards' = IF waiter = "waits" THEN afterwards ELSE 1
    /\ UNCHANGED <<outputVars, verdict, loopVars>>

(* Dispatcher::call and claim: within the cap the host function blocks on  *)
(* the guarded pipeline.                                                   *)
CallsHost ==
    /\ Operates /\ hostCalls < HostCap
    /\ hostCalls' = hostCalls + 1 /\ thread' = "host"
    /\ afterwards' = IF waiter = "waits" THEN afterwards ELSE 1
    /\ UNCHANGED <<outputVars, verdict, loopVars>>

(* Past the cap the call throws, like a failed one. *)
HostRefuses(caught) ==
    /\ Operates /\ hostCalls >= HostCap
    /\ thread' = (IF caught THEN "script" ELSE "over")
    /\ verdict' = (IF caught THEN verdict ELSE "threw")
    /\ UNCHANGED <<hostCalls, outputVars, loopVars, afterwards>>

HostReturns == thread = "host" /\ thread' = "script" /\ UNCHANGED <<ops, hostCalls, outputVars, verdict, loopVars, afterwards>>

HostFails ==
    /\ thread = "host" /\ thread' = "over" /\ verdict' = "threw"
    /\ UNCHANGED <<ops, hostCalls, outputVars, loopVars, afterwards>>

(* run: a value that is not unit follows the output, uncapped. *)
ScriptReturns(n) ==
    /\ Operates /\ thread' = "over" /\ verdict' = "returned"
    /\ resultBytes' = n
    /\ UNCHANGED <<hostCalls, printedBytes, answer, said, loopVars, afterwards>>

(* Mutant: the output as it is. *)
Unwindowed(n) == n

(* window: past the cap the first three quarters of it, a notice, and the  *)
(* last quarter.  A cut inside a character keeps a few bytes less.         *)
Windowed(n) ==
    IF n <= OutputMax THEN n ELSE (3 * OutputMax) \div 4 + OutputMax \div 4 + Notice

(* finish: the joined thread's output, windowed, is the outcome; the error *)
(* of a failed script follows it.                                          *)
Answers ==
    /\ waiter = "waits" /\ thread = "over" /\ waiter' = "answered"
    /\ answer' = Windowed(printedBytes + resultBytes)
    /\ UNCHANGED <<thread, ops, hostCalls, printedBytes, resultBytes, said, wall, verdict, token, afterwards>>

(* The pipeline drops the skill's future; the thread is not its to stop. *)
TimesOut ==
    /\ waiter = "waits" /\ thread # "over" /\ wall >= CallTimeout /\ waiter' = "timedOut"
    /\ UNCHANGED <<thread, ops, hostCalls, outputVars, wall, verdict, token, afterwards>>
StopPressed ==
    /\ waiter = "waits" /\ token' = TRUE /\ waiter' = "dropped"
    /\ UNCHANGED <<thread, ops, hostCalls, outputVars, wall, verdict, afterwards>>

TimePasses ==
    /\ wall < ClockBound /\ wall' = wall + 1
    /\ UNCHANGED <<thread, ops, hostCalls, outputVars, verdict, waiter, token, afterwards>>

ThreadSteps ==
    \/ ScriptAborts \/ Computes \/ CallsHost \/ HostReturns \/ HostFails
    \/ \E n \in LineSizes : Prints(n)
    \/ \E n \in ResultSizes : ScriptReturns(n)
    \/ \E caught \in BOOLEAN : HostRefuses(caught)

ProgramNext == ThreadSteps \/ Answers \/ TimesOut \/ StopPressed \/ TimePasses

ProgramSpec == ProgramInit /\ [][ProgramNext]_programVars

(* The thread is scheduled, and host functions return: each has a timeout. *)
ProgramFairness == WF_programVars(ThreadSteps)

-----------------------------------------------------------------------------
(* Whatever the script does - loops, catches its errors, prints lines of   *)
(* any size - it makes at most the capped number of host calls, its buffer *)
(* stays below twice the output cap but for the one line that passed it,   *)
(* also when nobody waits for it any more, and once the turn was stopped   *)
(* it begins no host call.  Of its output the model reads at most the cap  *)
(* and a notice, and all of it if it is no longer than the cap.            *)
CapsHold ==
    /\ hostCalls <= HostCap
    /\ printedBytes < 2 * OutputMax + LineMax
    /\ waiter = "answered" => answer <= OutputMax + Notice
    /\ waiter = "answered" /\ said + resultBytes <= OutputMax => answer = said + resultBytes
    /\ waiter = "dropped" => afterwards = 0

(* script.rs:45-47: "The sandbox stops appending at twice this, so a       *)
(* runaway `print` cannot exhaust memory".  Refuted: the length is looked  *)
(* at before a line of up to 4 MB goes in.                                 *)
StopsAtTwice == printedBytes <= 2 * OutputMax

(* The thread ends: no script keeps its blocking thread for good.          *)
ThreadEnds == <>(thread = "over")

(* script.rs:33-37 and ptc.rs:70-72: the budget is shorter than the        *)
(* timeout "so the script aborts itself - keeping whatever it printed -    *)
(* before the pipeline abandons the call".  Refuted: the clock is sampled  *)
(* every 4096 operations, which a script of long calls does not reach.     *)
AbortsItself == waiter # "timedOut"

(* Nor does the abandoned script stop: it goes on calling tools.           *)
AbandonedIsQuiet == afterwards = 0

=============================================================================
