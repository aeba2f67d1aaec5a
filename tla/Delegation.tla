----------------------------- MODULE Delegation -----------------------------
(***************************************************************************)
(* Delegated conversations: the driver of one child (agents/runner.rs) and *)
(* the skills built on it - subagent and subagent-fork (delegate.rs),      *)
(* ralph rounds (ralph.rs), agent-team (team.rs) and the agents a workflow *)
(* script asks for (workflow.rs).  The model that plays the child is the   *)
(* environment; the rows are the run edges reported to the parent session  *)
(* (how they come into its log is module Projections').                    *)
(***************************************************************************)
EXTENDS Integers, Sequences, SequencesExt, FiniteSets

CONSTANTS
    Mates,       \* teammates, or the width of a workflow's parallel
    MaxHops,     \* tool calls of one conversation
    MaxRounds,   \* rounds of ralph and of a team
    AgentCap     \* MAX_AGENTS a workflow may spend

(* A team or a fan-out is a list, and no skill runs without a child. *)
ASSUME DelegAssumption == IsFiniteSet(Mates) /\ Mates # {} /\ MaxHops \in Nat

VARIABLES
    skill,       \* which skill was called
    round,       \* the round, or the workflow's batch
    crew,        \* members of this round
    conv,        \* their conversations
    trails,      \* their evidence: calls of the rounds that reported
    reports,     \* their last reports
    runRows,     \* run edges, in the order the skill reports them
    spent,       \* children a workflow claimed
    halted,      \* the turn's cancellation token fired
    delegated    \* of the skill: "running", "ok" or "failed"

delegVars == <<skill, round, crew, conv, trails, reports, runRows, spent, halted, delegated>>

Skills == {"subagent", "fork", "ralph", "team", "workflow", "typed"}
(* "typed": a workflow whose agents were given a schema. *)
Scripted == skill \in {"workflow", "typed"}

(* RunSpec.schema: what a run owes besides prose. *)
WantsSchema == skill \in {"ralph", "team", "typed"}
Logged == skill \notin {"subagent", "fork"}
(* A skill with one child uses the first place. *)
Lone == CHOOSE i \in Mates : TRUE
(* The row of the run itself; a member's is its round and its place. *)
RunRow == <<0, 0>>
NoReport == [kind |-> "none", cites |-> {}]

(* seed_transcript: a fresh conversation, its ids starting after `from`. *)
SeededWith(from) ==
    [at |-> "off", hops |-> 0, nudged |-> FALSE, reminded |-> FALSE, asks |-> 0,
     from |-> from, calls |-> <<>>, shown |-> <<>>, report |-> NoReport]

DelegInit ==
    /\ skill \in Skills
    /\ round = 0 /\ crew = {}
    /\ conv = [i \in Mates |-> SeededWith(0)]
    /\ trails = [i \in Mates |-> <<>>]
    /\ reports = [i \in Mates |-> NoReport]
    /\ runRows = IF skill \in {"subagent", "fork"} THEN <<>> ELSE <<<<RunRow, "started">>>>
    /\ spent = 0 /\ halted = FALSE /\ delegated = "running"

Edges(S, state) == SetToSeq({<<<<round', i>>, state>> : i \in S})

-----------------------------------------------------------------------------
(* run_conversation, one reply at a time. *)

Talking(i) == delegated = "running" /\ i \in crew /\ conv[i].at \in {"asks", "final"}
Below(i) == conv[i].hops < MaxHops

Heard(i, c) ==
    /\ conv' = [conv EXCEPT ![i] = [c EXCEPT !.asks = @ + 1]]
    /\ UNCHANGED <<skill, round, crew, trails, reports, runRows, spent, halted, delegated>>

(* The conversation's own counters go with it. *)
Ends(i, report) ==
    /\ conv' = [conv EXCEPT ![i] = [conv[i] EXCEPT !.at = "over", !.report = report, !.hops = 0, !.nudged = FALSE,
                                            !.reminded = FALSE, !.asks = 0,
                                            !.calls = IF report = NoReport THEN <<>> ELSE @]]
    /\ UNCHANGED <<skill, round, crew, trails, reports, runRows, spent, halted, delegated>>

(* llm_call: a failed, an empty and a cancelled request are all None. *)
LlmFails(i) == Talking(i) /\ Ends(i, NoReport)

(* Prose: a run that owes structured output is reminded once. *)
RepliesProse(i) ==
    /\ Talking(i) /\ ~halted
    /\ IF conv[i].at = "asks" /\ WantsSchema /\ ~conv[i].reminded /\ Below(i)
       THEN Heard(i, [conv[i] EXCEPT !.reminded = TRUE])
       ELSE Ends(i, [kind |-> "prose", cites |-> {}])

(* Mutant: the correction is not remembered. *)
NudgesAgain(i) ==
    /\ Talking(i) /\ ~halted /\ conv[i].at = "asks" /\ Below(i) /\ Heard(i, conv[i])

(* What looks like a call and does not parse is corrected once, then it is *)
(* prose.                                                                  *)
RepliesBotched(i) ==
    /\ Talking(i) /\ ~halted /\ conv[i].at = "asks"
    /\ ~conv[i].nudged /\ Below(i)
    /\ Heard(i, [conv[i] EXCEPT !.nudged = TRUE])

(* A valid structured-output call settles the run. *)
RepliesReport(i, cites) ==
    /\ Talking(i) /\ ~halted /\ WantsSchema
    /\ Ends(i, [kind |-> "structured", cites |-> cites])

(* parse_structured refuses: a hop is spent, or at the limit the run ends. *)
RepliesBadReport(i) ==
    /\ Talking(i) /\ ~halted /\ WantsSchema
    /\ IF conv[i].at = "asks" /\ Below(i)
       THEN Heard(i, [conv[i] EXCEPT !.hops = @ + 1])
       ELSE Ends(i, [kind |-> "prose", cites |-> {}])

(* A tool call, through the parent's pipeline; past the budget the child   *)
(* is told to answer with what it has.                                     *)
RepliesCall(i, ok) ==
    /\ Talking(i) /\ ~halted /\ conv[i].at = "asks"
    /\ LET c == conv[i]
           made == [id |-> c.from + Len(c.calls) + 1, ok |-> ok]
       IN  IF Below(i)
           THEN Heard(i, [c EXCEPT !.hops = @ + 1, !.calls = Append(@, made), !.shown = Append(@, made)])
           ELSE Heard(i, [c EXCEPT !.at = "final"])

-----------------------------------------------------------------------------
(* The rounds. *)

(* A round opens with its members' rows.  A teammate keeps its transcript  *)
(* and its trail of evidence; every other child starts fresh.              *)
OpensRun(S) ==
    /\ round' = round + 1 /\ crew' = S
    /\ conv' = [i \in Mates |->
          IF i \notin S THEN conv[i]
          ELSE [SeededWith(Len(trails[i])) EXCEPT !.at = "asks", !.shown = IF skill = "team" THEN conv[i].shown ELSE <<>>]]
    /\ runRows' = IF Logged THEN runRows \o Edges(S, "started") ELSE runRows
    /\ UNCHANGED <<skill, trails, reports, halted, delegated>>

Between == delegated = "running" /\ crew = {}

RoundOpens ==
    /\ Between /\ ~halted
    /\ \/ skill \in {"subagent", "fork"} /\ round = 0 /\ OpensRun({Lone})
       \/ skill = "ralph" /\ round < MaxRounds /\ OpensRun({Lone})
       \/ skill = "team" /\ round < MaxRounds /\ OpensRun(Mates)
    /\ UNCHANGED spent

(* workflow's plan and claim: the whole fan-out is budgeted, or throws. *)
ScriptAsks(S) ==
    /\ Between /\ Scripted /\ S # {} /\ spent + Cardinality(S) <= AgentCap
    /\ spent' = spent + Cardinality(S) /\ OpensRun(S)

Closes(rows, outcome) ==
    /\ runRows' = runRows \o rows /\ delegated' = outcome /\ crew' = {}
    /\ UNCHANGED <<skill, round, conv, spent, halted>>

RoundOver == delegated = "running" /\ crew # {} /\ \A i \in crew : conv[i].at = "over"
ReportOf(i) == conv[i].report

(* subagent: nothing is a failure, prose is the report. *)
ChildReports ==
    /\ RoundOver /\ skill \in {"subagent", "fork"}
    /\ \E i \in crew :
          /\ reports' = [reports EXCEPT ![i] = ReportOf(i)]
          /\ Closes(<<>>, IF ReportOf(i).kind = "none" THEN "failed" ELSE "ok")
    /\ UNCHANGED trails

(* Mutant: a round that failed leaves its own row open. *)
RoundFailsOpen ==
    /\ RoundOver /\ skill = "ralph"
    /\ Closes(<<<<RunRow, "failed">>>>, "failed") /\ UNCHANGED <<trails, reports>>

(* ralph: no report, prose, or one check_report finds contradictory. *)
RoundFails ==
    /\ RoundOver /\ skill = "ralph"
    /\ \E i \in crew :
          Closes(<<<<<<round, i>>, "failed">>, <<RunRow, "failed">>>>, "failed")
    /\ UNCHANGED <<trails, reports>>

(* ralph: a checked status; only `continue` goes on, while rounds last. *)
RoundReports(status) ==
    /\ RoundOver /\ skill = "ralph"
    /\ \E i \in crew :
          /\ ReportOf(i).kind = "structured"
          /\ reports' = [reports EXCEPT ![i] = ReportOf(i)]
          /\ IF status = "continue" /\ round < MaxRounds
             THEN /\ runRows' = Append(runRows, <<<<round, i>>, "done">>) /\ crew' = {}
                  /\ UNCHANGED <<skill, round, conv, spent, halted, delegated>>
             ELSE LET good == status # "blocked"
                  IN  Closes(<<<<<<round, i>>, "done">>, <<RunRow, IF good THEN "done" ELSE "failed">>>>,
                             IF good THEN "ok" ELSE "failed")
    /\ UNCHANGED trails

(* agent-team: every member's row closes; a member without a report keeps  *)
(* its last one, and its calls of this round are on no trail.              *)
TeamRoundEnds ==
    /\ RoundOver /\ skill = "team"
    /\ reports' = [i \in Mates |-> IF i \in crew /\ ReportOf(i).kind # "none" THEN ReportOf(i) ELSE reports[i]]
    /\ trails' = [i \in Mates |-> IF i \in crew /\ ReportOf(i).kind # "none" THEN trails[i] \o conv[i].calls ELSE trails[i]]
    /\ runRows' = runRows \o SetToSeq({<<<<round, i>>, IF ReportOf(i).kind = "none" THEN "failed" ELSE "done">> : i \in crew})
    /\ crew' = {}
    /\ UNCHANGED <<skill, round, conv, spent, halted, delegated>>

(* drive: a workflow's agent closes its own row as it ends. *)
AgentEnds(i) ==
    /\ delegated = "running" /\ Scripted /\ i \in crew /\ conv[i].at = "over"
    /\ LET good == ReportOf(i).kind # "none" /\ (WantsSchema => ReportOf(i).kind = "structured")
       IN  runRows' = Append(runRows, <<<<round, i>>, IF good THEN "done" ELSE "failed">>)
    /\ crew' = crew \ {i}
    /\ UNCHANGED <<skill, round, conv, trails, reports, spent, halted, delegated>>

(* The team after its last round: interrupted it leaves the run open. *)
TeamEnds ==
    /\ Between /\ skill = "team" /\ (halted \/ round = MaxRounds)
    /\ \/ halted /\ Closes(<<>>, "failed")
       \/ ~halted /\ (\A i \in Mates : reports[i].kind = "none") /\ Closes(<<<<RunRow, "failed">>>>, "failed")
       \/ ~halted /\ (\E i \in Mates : reports[i].kind # "none") /\ Closes(<<<<RunRow, "done">>>>, "ok")
    /\ UNCHANGED <<trails, reports>>

(* ralph interrupted between rounds closes the run. *)
RalphInterrupted ==
    /\ Between /\ skill = "ralph" /\ halted
    /\ Closes(<<<<RunRow, "failed">>>>, "failed") /\ UNCHANGED <<trails, reports>>

(* The script ends by itself, with an error, or is stopped by the sandbox. *)
ScriptEnds(good) ==
    /\ Between /\ Scripted
    /\ Closes(<<<<RunRow, IF good THEN "done" ELSE "failed">>>>, IF good THEN "ok" ELSE "failed")
    /\ UNCHANGED <<trails, reports>>

(* Stop fires the token.  The pipeline may drop the whole call, on Stop or *)
(* at the skill's timeout, wherever it is: a behaviour that goes no        *)
(* further.                                                                *)
Halt ==
    /\ delegated = "running" /\ ~halted /\ halted' = TRUE
    /\ UNCHANGED <<skill, round, crew, conv, trails, reports, runRows, spent, delegated>>

(* Ids a report may cite: those of a first round are enough to be wrong. *)
Ids == 1..MaxHops

(* What a report may claim and check_report lets through. *)
Statuses == {"continue", "complete", "blocked"}

DelegNext ==
    \/ \E i \in Mates :
          \/ LlmFails(i) \/ RepliesProse(i) \/ RepliesBotched(i) \/ RepliesBadReport(i)
          \/ \E ok \in BOOLEAN : RepliesCall(i, ok)
          \/ \E cites \in {{id} : id \in Ids} : RepliesReport(i, cites)
          \/ AgentEnds(i)
    \/ RoundOpens \/ \E S \in SUBSET Mates : ScriptAsks(S)
    \/ ChildReports \/ RoundFails \/ TeamRoundEnds \/ TeamEnds \/ RalphInterrupted
    \/ \E status \in Statuses : RoundReports(status)
    \/ \E good \in BOOLEAN : ScriptEnds(good)
    \/ Halt

DelegSpec == DelegInit /\ [][DelegNext]_delegVars

-----------------------------------------------------------------------------
(* Mutant: any id the child names counts as evidence. *)
AnyCited(i) == reports[i].cites

(* render_claims: a citation counts when it names a successful call on the *)
(* teammate's trail.                                                       *)
Cited(i) == {id \in reports[i].cites : \E k \in DOMAIN trails[i] : trails[i][k].id = id /\ trails[i][k].ok}

(* The run edges of a call: a member's row closes once, after it opened,   *)
(* and nothing opens or closes after the run closed; a run that closed has *)
(* no member left open.  A run left open was interrupted.                  *)
RowsNest ==
    LET at(what, states) == {k \in DOMAIN runRows : runRows[k][1] = what /\ runRows[k][2] \in states}
        closed == {"done", "failed"}
    IN  /\ \A k \in DOMAIN runRows : runRows[k][2] \in closed =>
              /\ Cardinality(at(runRows[k][1], closed)) = 1
              /\ \E j \in 1..(k - 1) : runRows[j] = <<runRows[k][1], "started">>
        /\ \A k \in at(RunRow, closed) :
              /\ k = Len(runRows)
              /\ \A j \in 1..k : at(runRows[j][1], closed) # {}
        /\ delegated \in {"ok", "failed"} /\ Logged /\ ~halted => at(RunRow, closed) # {}

(* One delegated conversation asks the model a bounded number of times     *)
(* whatever it answers: its hops, one correction, one reminder, the reply  *)
(* past the budget and the last one.                                       *)
RepliesBounded == \A i \in Mates : conv[i].asks < MaxHops + 4

(* A claim shown as cited is backed by a successful call the child itself  *)
(* was shown under that id.                                                *)
CitedWasRun == \A i \in Mates : \A id \in Cited(i) :
    \E k \in DOMAIN conv[i].shown : conv[i].shown[k].id = id /\ conv[i].shown[k].ok

(* Delegated runs are accounted for: see the three parts. *)
DelegationSound == RowsNest /\ RepliesBounded /\ CitedWasRun

(* team.rs "Evidence trail per teammate, accumulated across rounds so call *)
(* ids stay unique and stay resolvable"; runner.rs:130-136 "never shows    *)
(* `call-1` twice for two different calls".  Refuted: a round that ends in *)
(* a failed request leaves its calls in the transcript and off the trail,  *)
(* so the next round numbers from the same id.                             *)
CallIdsUnique == \A i \in Mates : \A j, k \in DOMAIN conv[i].shown :
    conv[i].shown[j].id = conv[i].shown[k].id => j = k

=============================================================================
