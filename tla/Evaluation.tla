----------------------------- MODULE Evaluation -----------------------------
(***************************************************************************)
(* model-eval (agents/model_eval.rs): a suite of prompts is sent to the    *)
(* connected model, every reply is scored against its case's checks, and   *)
(* the score is written as a report and as the baseline the next run is    *)
(* compared with.  A user may interrupt anywhere; the LLM calls of a run   *)
(* are capped.                                                             *)
(*                                                                         *)
(* A file name is a sequence of numbers: the words of the suite's name,    *)
(* each above every timestamp (letters sort after digits), and then the    *)
(* timestamp.                                                              *)
(***************************************************************************)
EXTENDS Integers, Sequences, SequencesExt, FiniteSets

CONSTANTS
    Suites,       \* what the suite files say: name, repeats and cases
    Replies,      \* what the model may say
    MaxCases, MaxRepeats, MaxCalls,   \* MAX_CASES, MAX_REPEATS, MAX_CALLS
    SummaryCap,   \* SUMMARY_CAP, in lines
    RunBound      \* bound: evaluations

ASSUME EvaluationAssumption == MaxCalls \in Nat

VARIABLES
    evalAt,       \* "idle", "repeat", "calling", "judging", "report"
    plan,         \* the suite being run, filtered
    evalCalls, tally, scored, notice,
    interrupted,
    cutShort,     \* history: runs of a case that ended because of the interrupt
    baselines,    \* the .json files in evals/reports
    evaluation,   \* what the last run answered
    stamp         \* the clock, in runs

evalVars == <<evalAt, plan, evalCalls, tally, scored, notice, interrupted, cutShort,
              baselines, evaluation, stamp>>

NoPlan == [name |-> <<>>, repeats |-> 0, cases |-> <<>>]
NoTally == [runs |-> 0, passes |-> 0, fails |-> {}]
(* What a report says of a run. *)
BlankReport == [ok |-> FALSE, suite |-> <<>>, against |-> <<>>, path |-> FALSE, notice |-> "none",
             scored |-> <<>>, planned |-> NoPlan]
NoReply == [call |-> "empty"]

EvalInit ==
    /\ evalAt = "idle" /\ plan = NoPlan /\ evalCalls = 0 /\ tally = NoTally /\ scored = <<>>
    /\ notice = "none" /\ interrupted = FALSE /\ cutShort = 0
    /\ baselines = {} /\ evaluation = BlankReport /\ stamp = 0

(* parse_suite: what makes a suite unusable, and the caps on a usable one. *)
Usable(s) ==
    /\ s.cases # <<>>
    /\ \A i, j \in DOMAIN s.cases : s.cases[i].id = s.cases[j].id => i = j

Clamp(n) == IF n < 1 THEN 1 ELSE IF n > MaxRepeats THEN MaxRepeats ELSE n

Planned(s, repeats, filter) ==
    [name |-> s.name, repeats |-> Clamp(IF repeats = 0 THEN s.repeats ELSE repeats),
     cases |-> SelectSeq(SubSeq(s.cases, 1, IF Len(s.cases) > MaxCases THEN MaxCases ELSE Len(s.cases)),
                         LAMBDA c : filter = "" \/ filter \in {c.id, c.category})]

(* The skill is called.  Without a client, a readable suite or a case left *)
(* after the filter it answers an error.                                   *)
EvaluationBegins(s, repeats, filter) ==
    LET p == Planned(s, repeats, filter) IN
    /\ evalAt = "idle" /\ stamp < RunBound
    /\ stamp' = stamp + 1 /\ interrupted' = FALSE /\ cutShort' = 0
    /\ evalCalls' = 0 /\ tally' = NoTally /\ scored' = <<>>
    /\ IF Usable(s) /\ p.cases # <<>>
       THEN /\ evalAt' = "repeat" /\ plan' = p /\ evaluation' = evaluation
            /\ notice' = IF Len(p.cases) * p.repeats > MaxCalls THEN "planned" ELSE "none"
       ELSE evalAt' = "idle" /\ plan' = NoPlan /\ evaluation' = BlankReport /\ notice' = "none"
    /\ UNCHANGED baselines

UserInterrupts ==
    /\ evalAt # "idle" /\ ~interrupted /\ interrupted' = TRUE
    /\ UNCHANGED <<evalAt, plan, evalCalls, tally, scored, notice, cutShort, baselines, evaluation, stamp>>

CaseNow == plan.cases[Len(scored) + 1]

FailKinds == {"noCall", "malformedCall", "wrongTool", "missingExpectation", "badArgs",
              "unexpectedCall", "extraCalls", "content", "length", "judge"}

(* evaluate: the failure buckets a reply falls into.  Content, regex and   *)
(* JSON checks are one needle the reply has or has not.                    *)
Evaluate(c, r) ==
    LET called == r.call # "none"
        right == r.call \in c.tools
        buckets ==
          {<<"noCall", c.tools # {} /\ ~called /\ ~r.shaped>>,
           <<"malformedCall", (c.tools # {} \/ c.noTool) /\ ~called /\ r.shaped>>,
           <<"wrongTool", c.tools # {} /\ called /\ ~right>>,
           <<"missingExpectation", right /\ c.requires /\ ~r.json /\ ~r.expects>>,
           <<"badArgs", right /\ r.args < c.minArgs>>,
           <<"unexpectedCall", c.noTool /\ called>>,
           <<"extraCalls", c.single /\ r.calls > 1>>,
           <<"content", c.needle /\ ~r.needle>>,
           <<"length", r.words > c.maxWords>>}
    IN  IF r = NoReply THEN {"content"} ELSE {k \in FailKinds : <<k, TRUE>> \in buckets}

(* The head of the repeat loop: an interrupt or a spent budget leaves the  *)
(* whole suite, and the case in hand with it.                              *)
RepeatBegins ==
    /\ evalAt = "repeat"
    /\ evalAt' = IF interrupted \/ evalCalls >= MaxCalls THEN "report" ELSE "calling"
    /\ UNCHANGED <<plan, evalCalls, tally, scored, notice, interrupted, cutShort, baselines, evaluation, stamp>>

(* One run of the case has ended: push_unique, and after the last repeat   *)
(* the case's result.                                                      *)
Tallied(kinds) ==
    LET t == [runs |-> tally.runs + 1, passes |-> tally.passes + (IF kinds = {} THEN 1 ELSE 0),
              fails |-> tally.fails \cup kinds]
        last == t.runs = plan.repeats
        done == IF last THEN Append(scored, [id |-> CaseNow.id, of |-> t]) ELSE scored
    IN  /\ scored' = done /\ tally' = IF last THEN NoTally ELSE t
        /\ evalAt' = IF Len(done) = Len(plan.cases) THEN "report" ELSE "repeat"

(* Mutant: the judge is asked whatever the budget. *)
JudgeUncapped(c, kinds) == kinds = {} /\ c.judge

AsksJudge(c, kinds) == kinds = {} /\ c.judge /\ evalCalls + 1 < MaxCalls

(* llm_call: the token wins over an answer that is there as well. *)
ModelReplies(r) ==
    LET kinds == Evaluate(CaseNow, r) IN
    /\ evalAt = "calling" /\ (interrupted => r = NoReply)
    /\ IF AsksJudge(CaseNow, kinds)
       THEN evalAt' = "judging" /\ evalCalls' = evalCalls + 2 /\ UNCHANGED <<scored, tally>>
       ELSE evalCalls' = evalCalls + 1 /\ Tallied(kinds)
    /\ cutShort' = IF interrupted THEN cutShort + 1 ELSE cutShort
    /\ UNCHANGED <<plan, notice, interrupted, baselines, evaluation, stamp>>

(* judge: only a verdict that says FAIL fails the run; no answer and one   *)
(* that says neither count as a pass.                                      *)
JudgeAnswers(v) ==
    /\ evalAt = "judging" /\ (interrupted => v = "none")
    /\ Tallied(IF v = "fail" THEN {"judge"} ELSE {})
    /\ cutShort' = IF interrupted THEN cutShort + 1 ELSE cutShort
    /\ UNCHANGED <<plan, evalCalls, notice, interrupted, baselines, evaluation, stamp>>

(* latest_baseline: the last name, in order, that starts with the suite's. *)
Before(a, b) ==
    \/ IsStrictPrefix(a, b)
    \/ \E i \in 1..Len(a) : /\ i <= Len(b) /\ a[i] < b[i]
                            /\ SubSeq(a, 1, i - 1) = SubSeq(b, 1, i - 1)

LatestBaseline(name) ==
    LET mine == {b \in baselines : IsStrictPrefix(name, b.file)} IN
    IF mine = {} THEN <<>>
    ELSE (CHOOSE b \in mine : \A o \in mine : o = b \/ Before(o.file, b.file)).suite

(* Mutant: an interrupted run that got somewhere says nothing of it. *)
NoticeLate(n) == IF Len(scored) < Len(plan.cases) /\ n = "none" /\ ~interrupted THEN "budget" ELSE n

NoticeOf(n) ==
    IF Len(scored) = Len(plan.cases) THEN n
    ELSE IF interrupted THEN "interrupted" ELSE IF n = "none" THEN "budget" ELSE n

Passed(c) == c.of.passes = c.of.runs

(* render_summary: a line for the score, one for each notice, one for each *)
(* failing case, up to three fixes, and last the path of the report; then  *)
(* the cap.                                                                *)
SummaryLines(rows, n) ==
    LET failing == SelectSeq(rows, LAMBDA c : ~Passed(c))
        kinds == UNION {failing[i].of.fails : i \in DOMAIN failing}
    IN  1 + (IF n = "none" THEN 0 ELSE 1) + Len(failing)
          + (IF Cardinality(kinds) > 3 THEN 3 ELSE Cardinality(kinds)) + 1

(* The report: the previous baseline is read before this one is written;   *)
(* a write that fails is noted or logged and nothing else.                 *)
Reports(written) ==
    /\ evalAt = "report" /\ evalAt' = "idle"
    /\ IF scored = <<>>
       THEN evaluation' = BlankReport /\ UNCHANGED <<notice, baselines>>
       ELSE /\ notice' = NoticeOf(notice)
            /\ evaluation' = [ok |-> TRUE, suite |-> plan.name, against |-> LatestBaseline(plan.name),
                              path |-> SummaryLines(scored, NoticeOf(notice)) <= SummaryCap,
                              notice |-> NoticeOf(notice), scored |-> scored, planned |-> plan]
            /\ baselines' = IF written THEN baselines \cup {[file |-> Append(plan.name, stamp), suite |-> plan.name]}
                            ELSE baselines
    /\ UNCHANGED <<plan, evalCalls, tally, scored, interrupted, cutShort, stamp>>

EvalNext ==
    \/ \E s \in Suites, repeats \in {0, 1}, filter \in {"", "c1"} : EvaluationBegins(s, repeats, filter)
    \/ UserInterrupts \/ RepeatBegins
    \/ \E r \in Replies \cup {NoReply} : ModelReplies(r)
    \/ \E v \in {"pass", "fail", "unclear", "none"} : JudgeAnswers(v)
    \/ \E written \in BOOLEAN : Reports(written)

-----------------------------------------------------------------------------
(* The run keeps to its budget of LLM calls, the judge's included.         *)
WithinBudget == evalCalls <= MaxCalls

(* A score that carries no notice is of every case of the plan, each run   *)
(* as often as planned; and no score is of a case broken off half way,     *)
(* whatever ended the run.                                                 *)
ScoreIsWhole ==
    evaluation.ok =>
        /\ \A i \in DOMAIN evaluation.scored :
              /\ evaluation.scored[i].id = evaluation.planned.cases[i].id
              /\ evaluation.scored[i].of.runs = evaluation.planned.repeats
        /\ evaluation.notice = "none" => Len(evaluation.scored) = Len(evaluation.planned.cases)

(* A case passed exactly when it has no failure to show: the run's verdict *)
(* and what the report explains it with never part.                        *)
FailuresExplain ==
    \A i \in DOMAIN scored :
        scored[i].of.passes <= scored[i].of.runs /\ (Passed(scored[i]) <=> scored[i].of.fails = {})

(* What model-eval owes its caller: the budget kept, whole cases scored,   *)
(* every lost point explained.                                             *)
EvaluationSound == WithinBudget /\ ScoreIsWhole /\ FailuresExplain

(* What the module's header says: the run is compared with the previous    *)
(* baseline for the same suite.                                            *)
BaselineOfSuite == evaluation.against \in {<<>>, evaluation.suite}

(* What the notice of an interrupted run says: the score covers only the   *)
(* cases before the interrupt.                                             *)
InterruptNotScored == evalAt = "idle" /\ evaluation.ok => cutShort = 0

(* What SUMMARY_CAP is for: the summary points at the report file for what *)
(* it leaves out.                                                          *)
SummaryHasPath == evaluation.ok => evaluation.path
=============================================================================
