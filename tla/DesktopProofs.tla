---------------------------- MODULE DesktopProofs ----------------------------
(***************************************************************************)
(* Theorems about the window and about model evaluation: what an           *)
(* evaluation scores, what the composer sends, and that the trajectory     *)
(* view, the session in front and the sidebar show what the backend holds. *)
(***************************************************************************)
EXTENDS MCDesktop, SequenceFacts

-----------------------------------------------------------------------------
EvalSpec == EvalInit /\ [][EvalNext]_evalVars

(* The budget at each point of a run. *)
BudgetFits ==
    /\ evalCalls \in Nat /\ evalCalls <= MaxCalls
    /\ evalAt = "calling" => evalCalls < MaxCalls

(* The runs of the case in hand, or of a scored one: each was passed or    *)
(* left a failure.                                                         *)
Explained(t) ==
    /\ DOMAIN t = {"runs", "passes", "fails"}
    /\ t.runs \in Nat /\ t.passes \in Nat /\ t.passes <= t.runs
    /\ t.passes = t.runs <=> t.fails = {}

(* What is scored is the head of the plan. *)
ScoredFits ==
    /\ IsSequence(scored)
    /\ \A i \in 1 .. Len(scored) :
          /\ scored[i].id = plan.cases[i].id /\ scored[i].of.runs = plan.repeats
          /\ Explained(scored[i].of)

(* The inductive invariant. *)
EvalInv == BudgetFits /\ Explained(tally) /\ ScoredFits /\ ScoreIsWhole

LEMMA EmptyTally == Explained(NoTally)
  BY DEF Explained, NoTally

LEMMA EmptyScore == IsSequence(<<>>) /\ Len(<<>>) = 0
  BY EmptyIsSequence

LEMMA EvalInitially == EvalInit => EvalInv
<1> SUFFICES ASSUME EvalInit PROVE EvalInv
  OBVIOUS
<1>1. BudgetFits
  BY EvaluationAssumption DEF EvalInit, BudgetFits
<1>2. Explained(tally)
  BY EmptyTally DEF EvalInit
<1>3. ScoredFits
  BY EmptyScore DEF EvalInit, ScoredFits
<1>4. ScoreIsWhole
  BY DEF EvalInit, ScoreIsWhole, BlankReport
<1>5. QED
  BY <1>1, <1>2, <1>3, <1>4 DEF EvalInv

(* A run of the case has ended. *)
LEMMA TalliedKeeps ==
    ASSUME EvalInv, NEW kinds, Tallied(kinds), plan' = plan
    PROVE  Explained(tally)' /\ ScoredFits' /\ evalAt' \in {"repeat", "report"}
<1> DEFINE t == [runs |-> tally.runs + 1, passes |-> tally.passes + (IF kinds = {} THEN 1 ELSE 0),
                 fails |-> tally.fails \cup kinds]
           row == [id |-> CaseNow.id, of |-> t]
<1>1. Explained(t)
  <2>1. /\ tally.runs \in Nat /\ tally.passes \in Nat /\ tally.passes <= tally.runs
        /\ tally.passes = tally.runs <=> tally.fails = {}
    BY DEF EvalInv, Explained
  <2>2. /\ t.runs = tally.runs + 1 /\ t.fails = tally.fails \cup kinds
        /\ t.passes = tally.passes + (IF kinds = {} THEN 1 ELSE 0)
        /\ DOMAIN t = {"runs", "passes", "fails"}
    OBVIOUS
  <2> HIDE DEF t
  <2>3. t.fails = {} <=> tally.fails = {} /\ kinds = {}
    BY <2>2
  <2>4. CASE kinds = {}
    <3>1. t.passes = tally.passes + 1
      BY <2>2, <2>4
    <3>2. t.runs \in Nat /\ t.passes \in Nat /\ t.passes <= t.runs
          /\ (t.passes = t.runs <=> tally.passes = tally.runs)
      BY <2>1, <2>2, <3>1
    <3>3. QED
      BY <2>1, <2>2, <2>3, <2>4, <3>2 DEF Explained
  <2>5. CASE kinds # {}
    <3>1. t.passes = tally.passes
      BY <2>1, <2>2, <2>5
    <3>2. t.runs \in Nat /\ t.passes \in Nat /\ t.passes <= t.runs /\ t.passes # t.runs
      BY <2>1, <2>2, <3>1
    <3>3. QED
      BY <2>2, <2>3, <2>5, <3>2 DEF Explained
  <2>6. QED
    BY <2>4, <2>5
<1>2. /\ scored' = IF t.runs = plan.repeats THEN Append(scored, row) ELSE scored
      /\ tally' = IF t.runs = plan.repeats THEN NoTally ELSE t
      /\ evalAt' \in {"repeat", "report"}
  BY DEF Tallied
<1>3. row.id = plan.cases[Len(scored) + 1].id /\ row.of = t
  BY DEF CaseNow
<1> HIDE DEF t, row
<1>4. Explained(tally')
  BY <1>1, <1>2, EmptyTally
<1>5. ScoredFits'
  <2>1. CASE t.runs # plan.repeats
    <3>1. scored' = scored
      BY <1>2, <2>1
    <3>2. QED
      BY <3>1 DEF EvalInv, ScoredFits
  <2>2. CASE t.runs = plan.repeats
    <3>1. scored' = Append(scored, row)
      BY <1>2, <2>2
    <3>2. /\ IsSequence(scored') /\ Len(scored) \in Nat /\ Len(scored') = Len(scored) + 1
          /\ \A i \in 1 .. Len(scored) : scored'[i] = scored[i]
          /\ scored'[Len(scored) + 1] = row
      BY <3>1, LongerSequence DEF EvalInv, ScoredFits
    <3>3. ASSUME NEW i \in 1 .. Len(scored')
          PROVE  /\ scored'[i].id = plan.cases[i].id /\ scored'[i].of.runs = plan.repeats
                 /\ Explained(scored'[i].of)
      <4>1. CASE i = Len(scored) + 1
        BY <1>1, <1>3, <2>2, <3>2, <4>1
      <4>2. CASE i # Len(scored) + 1
        <5>1. i \in 1 .. Len(scored)
          BY <3>2, <4>2
        <5>2. QED
          BY <3>2, <5>1 DEF EvalInv, ScoredFits
      <4>3. QED
        BY <4>1, <4>2
    <3>4. QED
      BY <3>2, <3>3 DEF ScoredFits
  <2>3. QED
    BY <2>1, <2>2
<1>6. QED
  BY <1>2, <1>4, <1>5

LEMMA EvalStep == EvalInv /\ [EvalNext]_evalVars => EvalInv'
<1> SUFFICES ASSUME EvalInv, [EvalNext]_evalVars PROVE EvalInv'
  OBVIOUS
<1> USE EvaluationAssumption
<1>1. ASSUME NEW s, NEW repeats, NEW filter, EvaluationBegins(s, repeats, filter) PROVE EvalInv'
  <2>1. /\ evalCalls' = 0 /\ tally' = NoTally /\ scored' = <<>> /\ evaluation' \in {evaluation, BlankReport}
        /\ evalAt' \in {"repeat", "idle"}
    BY <1>1 DEF EvaluationBegins
  <2>2. BudgetFits'
    BY <2>1 DEF BudgetFits
  <2>3. Explained(tally)'
    BY <2>1, EmptyTally
  <2>4. ScoredFits'
    BY <2>1, EmptyScore DEF ScoredFits
  <2>5. ScoreIsWhole'
    BY <2>1 DEF ScoreIsWhole, BlankReport, EvalInv
  <2>6. QED
    BY <2>2, <2>3, <2>4, <2>5 DEF EvalInv
<1>2. CASE UserInterrupts \/ UNCHANGED evalVars
  <2>1. UNCHANGED <<evalAt, plan, evalCalls, tally, scored, evaluation>>
    BY <1>2 DEF UserInterrupts, evalVars
  <2>2. QED
    BY <2>1 DEF EvalInv, BudgetFits, Explained, ScoredFits, ScoreIsWhole
<1>3. CASE RepeatBegins
  <2>1. /\ UNCHANGED <<plan, evalCalls, tally, scored, evaluation>>
        /\ evalAt' = "calling" => ~(evalCalls >= MaxCalls)
    BY <1>3 DEF RepeatBegins
  <2>2. BudgetFits'
    BY <2>1 DEF EvalInv, BudgetFits
  <2>3. Explained(tally)' /\ ScoredFits' /\ ScoreIsWhole'
    BY <2>1 DEF EvalInv, Explained, ScoredFits, ScoreIsWhole
  <2>4. QED
    BY <2>2, <2>3 DEF EvalInv
<1>4. ASSUME NEW r, ModelReplies(r) PROVE EvalInv'
  <2> DEFINE kinds == Evaluate(CaseNow, r)
  <2>0. /\ evalAt = "calling" /\ UNCHANGED <<plan, evaluation>>
        /\ \/ /\ AsksJudge(CaseNow, kinds)
              /\ evalAt' = "judging" /\ evalCalls' = evalCalls + 2 /\ UNCHANGED <<scored, tally>>
           \/ evalCalls' = evalCalls + 1 /\ Tallied(kinds)
    BY <1>4 DEF ModelReplies
  <2> HIDE DEF kinds
  <2>1. evalCalls \in Nat /\ evalCalls < MaxCalls
    BY <2>0 DEF EvalInv, BudgetFits
  <2>2. ScoreIsWhole'
    BY <2>0 DEF EvalInv, ScoreIsWhole
  <2>3. CASE AsksJudge(CaseNow, kinds) /\ evalAt' = "judging" /\ evalCalls' = evalCalls + 2
             /\ UNCHANGED <<scored, tally>>
    <3>1. evalCalls + 1 < MaxCalls
      BY <2>3 DEF AsksJudge
    <3>2. BudgetFits'
      BY <2>1, <2>3, <3>1 DEF BudgetFits
    <3>3. Explained(tally)' /\ ScoredFits'
      BY <2>0, <2>3 DEF EvalInv, Explained, ScoredFits
    <3>4. QED
      BY <2>2, <3>2, <3>3 DEF EvalInv
  <2>4. CASE evalCalls' = evalCalls + 1 /\ Tallied(kinds)
    <3>1. Explained(tally)' /\ ScoredFits' /\ evalAt' \in {"repeat", "report"}
      BY <2>0, <2>4, TalliedKeeps
    <3>2. BudgetFits'
      BY <2>1, <2>4, <3>1 DEF BudgetFits
    <3>3. QED
      BY <2>2, <3>1, <3>2 DEF EvalInv
  <2>5. QED
    BY <2>0, <2>3, <2>4
<1>5. ASSUME NEW v, JudgeAnswers(v) PROVE EvalInv'
  <2> DEFINE kinds == IF v = "fail" THEN {"judge"} ELSE {}
  <2>0. Tallied(kinds) /\ UNCHANGED <<plan, evalCalls, evaluation>>
    BY <1>5 DEF JudgeAnswers
  <2> HIDE DEF kinds
  <2>1. Explained(tally)' /\ ScoredFits' /\ evalAt' \in {"repeat", "report"}
    BY <2>0, TalliedKeeps
  <2>2. BudgetFits'
    BY <2>0, <2>1 DEF EvalInv, BudgetFits
  <2>3. ScoreIsWhole'
    BY <2>0 DEF EvalInv, ScoreIsWhole
  <2>4. QED
    BY <2>1, <2>2, <2>3 DEF EvalInv
<1>6. ASSUME NEW w, Reports(w) PROVE EvalInv'
  <2>0. evalAt' = "idle" /\ UNCHANGED <<plan, evalCalls, tally, scored>>
    BY <1>6 DEF Reports
  <2>1. BudgetFits' /\ Explained(tally)' /\ ScoredFits'
    BY <2>0 DEF EvalInv, BudgetFits, Explained, ScoredFits
  <2>2. CASE evaluation' = BlankReport
    BY <2>1, <2>2 DEF EvalInv, ScoreIsWhole, BlankReport
  <2>3. CASE evaluation' # BlankReport
    <3>1. /\ evaluation'.scored = scored /\ evaluation'.planned = plan
          /\ evaluation'.notice = NoticeOf(notice)
      BY <1>6, <2>3 DEF Reports
    <3>2. NoticeOf(notice) = "none" => Len(scored) = Len(plan.cases)
      BY DEF NoticeOf
    <3>3. DOMAIN scored = 1 .. Len(scored)
      BY SequenceLength DEF EvalInv, ScoredFits
    <3>4. ScoreIsWhole'
      BY <3>1, <3>2, <3>3 DEF EvalInv, ScoredFits, ScoreIsWhole
    <3>5. QED
      BY <2>1, <3>4 DEF EvalInv
  <2>4. QED
    BY <2>2, <2>3
<1>7. QED
  BY <1>1, <1>2, <1>3, <1>4, <1>5, <1>6 DEF EvalNext

LEMMA EvalSafe == EvalInv => EvaluationSound
<1> SUFFICES ASSUME EvalInv PROVE EvaluationSound
  OBVIOUS
<1>1. DOMAIN scored = 1 .. Len(scored)
  BY SequenceLength DEF EvalInv, ScoredFits
<1>2. FailuresExplain
  BY <1>1 DEF EvalInv, ScoredFits, Explained, FailuresExplain, Passed
<1>3. QED
  BY <1>2 DEF EvalInv, BudgetFits, WithinBudget, EvaluationSound

(* What a report scores and how often a run calls the model (runner.rs,    *)
(* scoring.rs).                                                            *)
THEOREM EvaluationKept == EvalSpec => []EvaluationSound
  BY EvalInitially, EvalStep, EvalSafe, PTL DEF EvalSpec


-----------------------------------------------------------------------------
(* The composer. *)

ComposerSpec == ComposerInit /\ [][ComposerNext]_composerVars

(* What a draft may hold. *)
Text == Words \cup Marks \cup MenuNames

(* An item stands in one place of s at most. *)
Unique(s) == \A i, j \in DOMAIN s : s[i] = s[j] /\ s[i] \in Items => i = j

(* What is in the draft or on the rail. *)
HeldNow == {x \in Items : x \in Range(draft.body) \cup Range(rail)}
Balance ==
    \A x \in Items :
        (IF x \in HeldNow THEN 1 ELSE 0) + (IF x \in erasedItems THEN 1 ELSE 0) + deliveries[x]
        = (IF x \in madeItems THEN 1 ELSE 0)

(* The draft and the rail, and where the items are. *)
ItemsTyped == madeItems \subseteq Items /\ erasedItems \subseteq Items /\ deliveries \in [Items -> Nat]
TextFits ==
    /\ draft \in [slash : BOOLEAN, body : Seq(Text), glued : BOOLEAN]
    /\ rail \in Seq(Images \cup Cards)
    /\ Unique(draft.body) /\ Unique(rail)
    /\ Range(draft.body) \cap Range(rail) \cap Items = {}
    /\ ItemsTyped /\ Balance

(* The file picker has a row selected. *)
MenuFits == DOMAIN picker = {"sel", "gone", "last"} /\ picker.sel \in Nat

(* What was done last, what is asked and what was answered. *)
DeedsFit == inputDeeds \cap {"dismiss", "accept"} = {} \/ inputDeeds \in {{"dismiss"}, {"accept"}}
AskFits == ask \in [kind : {"none", "approval", "single", "multi", "plan"}, picked : SUBSET Options, typed : BOOLEAN]
TalkFits == DeedsFit /\ AskFits /\ AnswerIsWhole

(* The inductive invariant. *)
ComposerInv == TextFits /\ MenuFits /\ TalkFits

-----------------------------------------------------------------------------
(* Sequences of items. *)

LEMMA RangeAppend ==
    ASSUME NEW T, NEW s \in Seq(T), NEW x \in T
    PROVE  /\ Append(s, x) \in Seq(T) /\ Range(Append(s, x)) = Range(s) \cup {x}
           /\ Unique(s) /\ x \notin Range(s) \cap Items => Unique(Append(s, x))
<1> DEFINE q == Append(s, x)
           n == Len(s)
<1>1. /\ n \in Nat /\ DOMAIN s = 1 .. n /\ q \in Seq(T) /\ DOMAIN q = 1 .. n + 1
      /\ q[n + 1] = x /\ \A i \in 1 .. n : q[i] = s[i]
  OBVIOUS
<1> HIDE DEF q, n
<1>2. \A i \in 1 .. n + 1 : i = n + 1 \/ i \in 1 .. n
  BY <1>1
<1>3. Range(q) = Range(s) \cup {x}
  BY <1>1, <1>2 DEF Range
<1>4. ASSUME Unique(s), x \notin Range(s) \cap Items PROVE Unique(q)
  <2> SUFFICES ASSUME NEW i \in 1 .. n + 1, NEW j \in 1 .. n + 1, q[i] = q[j], q[i] \in Items PROVE i = j
    BY <1>1 DEF Unique
  <2>1. CASE i \in 1 .. n /\ j \in 1 .. n
    BY <1>1, <1>4, <2>1 DEF Unique
  <2>2. CASE i \in 1 .. n /\ j = n + 1
    BY <1>1, <1>4, <2>2 DEF Range
  <2>3. CASE i = n + 1 /\ j \in 1 .. n
    BY <1>1, <1>4, <2>3 DEF Range
  <2>4. QED
    BY <1>2, <2>1, <2>2, <2>3
<1>5. QED
  BY <1>1, <1>3, <1>4 DEF q

(* The sequence without the element at i. *)
LEMMA RangeRemoved ==
    ASSUME NEW T, NEW s \in Seq(T), NEW i \in 1 .. Len(s), NEW q \in Seq(T), Len(q) = Len(s) - 1,
           \A k \in 1 .. Len(s) - 1 : q[k] = IF k < i THEN s[k] ELSE s[k + 1]
    PROVE  /\ Range(s) = Range(q) \cup {s[i]}
           /\ Unique(s) => Unique(q) /\ (s[i] \in Items => s[i] \notin Range(q))
<1> DEFINE n == Len(s)
           at(k) == IF k < i THEN k ELSE k + 1
<1>1. n \in Nat /\ n >= 1 /\ i \in Nat /\ DOMAIN s = 1 .. n /\ DOMAIN q = 1 .. n - 1
  OBVIOUS
<1>2. \A k \in 1 .. n - 1 : at(k) \in 1 .. n /\ at(k) # i /\ q[k] = s[at(k)]
  BY <1>1
<1>3. \A k, l \in 1 .. n - 1 : at(k) = at(l) => k = l
  BY <1>1
<1>4. ASSUME NEW j \in 1 .. n, j # i PROVE \E k \in 1 .. n - 1 : at(k) = j
  <2>1. CASE j < i
    <3>1. j \in 1 .. n - 1 /\ at(j) = j
      BY <1>1, <2>1
    <3>2. QED
      BY <3>1
  <2>2. CASE j > i
    <3>1. j - 1 \in 1 .. n - 1 /\ at(j - 1) = j
      BY <1>1, <2>2
    <3>2. QED
      BY <3>1
  <2>3. QED
    BY <1>1, <1>4, <2>1, <2>2
<1> HIDE DEF n, at
<1>5. Range(s) = Range(q) \cup {s[i]}
  <2>1. i \in 1 .. n
    BY DEF n
  <2>2. ASSUME NEW j \in 1 .. n PROVE s[j] \in Range(q) \cup {s[i]}
    <3>1. CASE j # i
      <4>1. PICK k \in 1 .. n - 1 : at(k) = j
        BY <1>4, <3>1
      <4>2. q[k] = s[j]
        BY <1>2, <4>1
      <4>3. QED
        BY <1>1, <4>2 DEF Range
    <3>2. QED
      BY <3>1
  <2>3. \A k \in 1 .. n - 1 : q[k] \in Range(s)
    BY <1>1, <1>2 DEF Range
  <2>4. QED
    BY <1>1, <2>1, <2>2, <2>3 DEF Range
<1>6. ASSUME Unique(s) PROVE Unique(q) /\ (s[i] \in Items => s[i] \notin Range(q))
  <2>0. i \in 1 .. n
    BY DEF n
  <2>1. Unique(q)
    <3> SUFFICES ASSUME NEW k \in 1 .. n - 1, NEW l \in 1 .. n - 1, q[k] = q[l], q[k] \in Items PROVE k = l
      BY <1>1 DEF Unique
    <3>1. at(k) = at(l)
      BY <1>1, <1>2, <1>6 DEF Unique
    <3>2. QED
      BY <1>3, <3>1
  <2>2. s[i] \in Items => s[i] \notin Range(q)
    <3> SUFFICES ASSUME s[i] \in Items, s[i] \in Range(q) PROVE FALSE
      OBVIOUS
    <3>1. PICK k \in 1 .. n - 1 : q[k] = s[i]
      BY <1>1 DEF Range
    <3>2. at(k) \in 1 .. n /\ at(k) # i /\ s[at(k)] = s[i]
      BY <1>2, <3>1
    <3>3. QED
      BY <1>1, <1>6, <2>0, <3>2 DEF Unique
  <2>3. QED
    BY <2>1, <2>2
<1>7. QED
  BY <1>5, <1>6

LEMMA RangeFront ==
    ASSUME NEW T, NEW s \in Seq(T), s # <<>>
    PROVE  /\ Front(s) \in Seq(T) /\ Last(s) \in T /\ Range(s) = Range(Front(s)) \cup {Last(s)}
           /\ Unique(s) => Unique(Front(s)) /\ (Last(s) \in Items => Last(s) \notin Range(Front(s)))
<1> DEFINE n == Len(s)
           q == SubSeq(s, 1, n - 1)
<1>1. n \in Nat /\ n >= 1 /\ s[n] \in T
  OBVIOUS
<1>2. q \in Seq(T) /\ Len(q) = n - 1 /\ \A k \in 1 .. n - 1 : q[k] = s[k]
  <2> DEFINE m == n - 1
  <2>1. 1 \in Int /\ m \in Int /\ m \in Nat /\ \A k \in 1 .. m : s[k] \in T
    BY <1>1
  <2> HIDE DEF m
  <2>2. /\ SubSeq(s, 1, m) \in Seq(T) /\ Len(SubSeq(s, 1, m)) = (IF 1 <= m THEN m - 1 + 1 ELSE 0)
        /\ \A k \in 1 .. m - 1 + 1 : SubSeq(s, 1, m)[k] = s[1 + k - 1]
    BY <2>1, SubSeqProperties
  <2>3. m - 1 + 1 = m /\ (1 <= m \/ m = 0) /\ \A k \in 1 .. m : 1 + k - 1 = k
    BY <2>1
  <2>4. SubSeq(s, 1, m) \in Seq(T) /\ Len(SubSeq(s, 1, m)) = m /\ \A k \in 1 .. m : SubSeq(s, 1, m)[k] = s[k]
    BY <2>2, <2>3
  <2>5. QED
    BY <2>4 DEF m
<1>3. \A k \in 1 .. n - 1 : k < n
  BY <1>1
<1> HIDE DEF q
<1>4. n \in 1 .. Len(s) /\ \A k \in 1 .. Len(s) - 1 : q[k] = IF k < n THEN s[k] ELSE s[k + 1]
  BY <1>1, <1>2, <1>3
<1>5. /\ Range(s) = Range(q) \cup {s[n]}
      /\ Unique(s) => Unique(q) /\ (s[n] \in Items => s[n] \notin Range(q))
  BY <1>2, <1>4, RangeRemoved
<1>6. QED
  BY <1>1, <1>2, <1>5 DEF Front, Last, q

LEMMA RangeRemoveAt ==
    ASSUME NEW T, NEW s \in Seq(T), NEW i \in 1 .. Len(s)
    PROVE  /\ RemoveAt(s, i) \in Seq(T) /\ Range(s) = Range(RemoveAt(s, i)) \cup {s[i]}
           /\ Unique(s) => Unique(RemoveAt(s, i)) /\ (s[i] \in Items => s[i] \notin Range(RemoveAt(s, i)))
<1> DEFINE n == Len(s)
           a == SubSeq(s, 1, i - 1)
           b == SubSeq(s, i + 1, n)
           q == a \o b
<1>1. n \in Nat /\ i \in Nat /\ i >= 1 /\ i <= n
  OBVIOUS
<1>2. a \in Seq(T) /\ Len(a) = i - 1 /\ \A k \in 1 .. i - 1 : a[k] = s[k]
  BY <1>1
<1>3. b \in Seq(T) /\ Len(b) = n - i /\ \A k \in 1 .. n - i : b[k] = s[i + k]
  <2>1. i + 1 \in Int /\ n \in Int /\ \A k \in i + 1 .. n : s[k] \in T
    BY <1>1
  <2>2. /\ b \in Seq(T) /\ Len(b) = (IF i + 1 <= n THEN n - (i + 1) + 1 ELSE 0)
        /\ \A k \in 1 .. n - (i + 1) + 1 : b[k] = s[(i + 1) + k - 1]
    BY <2>1, SubSeqProperties
  <2>3. QED
    BY <1>1, <2>2
<1> HIDE DEF a, b
<1>4. /\ q \in Seq(T) /\ Len(q) = n - 1
      /\ \A k \in 1 .. n - 1 : q[k] = IF k <= i - 1 THEN a[k] ELSE b[k - (i - 1)]
  <2>1. /\ q \in Seq(T) /\ Len(q) = Len(a) + Len(b)
        /\ \A k \in 1 .. Len(a) + Len(b) : q[k] = IF k <= Len(a) THEN a[k] ELSE b[k - Len(a)]
    BY <1>2, <1>3, ConcatProperties
  <2>2. Len(a) + Len(b) = n - 1
    BY <1>1, <1>2, <1>3
  <2> HIDE DEF q
  <2>3. QED
    BY <1>2, <2>1, <2>2
<1> HIDE DEF q
<1>5. \A k \in 1 .. n - 1 : q[k] = IF k < i THEN s[k] ELSE s[k + 1]
  <2> TAKE k \in 1 .. n - 1
  <2>1. CASE k < i
    BY <1>1, <1>2, <1>4, <2>1
  <2>2. CASE ~(k < i)
    <3>1. k - (i - 1) \in 1 .. n - i /\ i + (k - (i - 1)) = k + 1 /\ ~(k <= i - 1)
      BY <1>1, <2>2
    <3>2. QED
      BY <1>3, <1>4, <2>2, <3>1
  <2>3. QED
    BY <2>1, <2>2
<1>6. /\ Range(s) = Range(q) \cup {s[i]}
      /\ Unique(s) => Unique(q) /\ (s[i] \in Items => s[i] \notin Range(q))
  BY <1>4, <1>5, RangeRemoved
<1>7. QED
  BY <1>4, <1>6 DEF RemoveAt, a, b, q

LEMMA EmptyRange == Range(<<>>) = {} /\ Unique(<<>>) /\ \A T : <<>> \in Seq(T)
  BY DEF Range, Unique

LEMMA SingleRange ==
    ASSUME NEW T, NEW x \in T
    PROVE  <<x>> \in Seq(T) /\ Range(<<x>>) = {x} /\ Unique(<<x>>)
  BY DEF Range, Unique

-----------------------------------------------------------------------------
(* Where the items go. *)

LEMMA BalanceIs == TextFits => NothingTypedLost
  BY DEF TextFits, Balance, HeldNow, NothingTypedLost

(* The draft changes and holds the items it held. *)
LEMMA DraftMoves ==
    ASSUME TextFits, draft' \in [slash : BOOLEAN, body : Seq(Text), glued : BOOLEAN], UNCHANGED <<rail, itemVars>>,
           Unique(draft'.body), Range(draft'.body) \cap Items = Range(draft.body) \cap Items
    PROVE  TextFits'
<1>1. HeldNow' = HeldNow
  BY DEF HeldNow
<1>2. UNCHANGED <<rail, madeItems, erasedItems, deliveries>>
  BY DEF itemVars
<1>3. Balance'
  BY <1>1, <1>2 DEF TextFits, Balance
<1>4. Range(draft'.body) \cap Range(rail') \cap Items = {}
  BY <1>2 DEF TextFits
<1>5. QED
  BY <1>2, <1>3, <1>4 DEF TextFits, ItemsTyped, Unique

LEMMA TextSame == ASSUME TextFits, UNCHANGED <<draft, rail, itemVars>> PROVE TextFits'
<1>1. HeldNow' = HeldNow
  BY DEF HeldNow
<1>2. QED
  BY <1>1 DEF TextFits, Balance, ItemsTyped, Unique, itemVars

(* An item nobody made yet is nowhere. *)
LEMMA NewIsNowhere ==
    ASSUME TextFits, NEW x \in Items, x \notin madeItems
    PROVE  /\ x \notin Range(draft.body) /\ x \notin Range(rail)
           /\ x \notin HeldNow /\ x \notin erasedItems /\ deliveries[x] = 0
<1>1. deliveries[x] \in Nat
  BY DEF TextFits, ItemsTyped
<1>2. (IF x \in HeldNow THEN 1 ELSE 0) + (IF x \in erasedItems THEN 1 ELSE 0) + deliveries[x] = 0
  BY DEF TextFits, Balance
<1>3. x \notin HeldNow /\ x \notin erasedItems /\ deliveries[x] = 0
  BY <1>1, <1>2
<1>4. QED
  BY <1>3 DEF HeldNow

LEMMA BalanceMade ==
    ASSUME TextFits, NEW x \in Items, x \notin madeItems, madeItems' = madeItems \cup {x},
           HeldNow' = HeldNow \cup {x}, UNCHANGED <<erasedItems, deliveries>>
    PROVE  Balance'
<1> SUFFICES ASSUME NEW y \in Items
             PROVE  (IF y \in HeldNow' THEN 1 ELSE 0) + (IF y \in erasedItems' THEN 1 ELSE 0) + deliveries'[y]
                    = (IF y \in madeItems' THEN 1 ELSE 0)
  BY DEF Balance
<1>1. CASE y = x
  <2>1. y \in HeldNow' /\ y \in madeItems' /\ y \notin erasedItems' /\ deliveries'[y] = 0
    BY <1>1, NewIsNowhere
  <2>2. QED
    BY <2>1
<1>2. CASE y # x
  <2>1. (y \in HeldNow' <=> y \in HeldNow) /\ (y \in madeItems' <=> y \in madeItems)
    BY <1>2
  <2>2. QED
    BY <2>1 DEF TextFits, Balance
<1>3. QED
  BY <1>1, <1>2

(* Some of what is held is erased. *)
LEMMA BalanceErased ==
    ASSUME TextFits, NEW E, E \subseteq HeldNow, HeldNow' = HeldNow \ E, erasedItems' = erasedItems \cup E,
           UNCHANGED <<madeItems, deliveries>>
    PROVE  Balance' /\ ItemsTyped'
<1>1. ItemsTyped'
  BY DEF TextFits, ItemsTyped, HeldNow
<1>2. ASSUME NEW y \in Items
      PROVE  (IF y \in HeldNow' THEN 1 ELSE 0) + (IF y \in erasedItems' THEN 1 ELSE 0) + deliveries'[y]
             = (IF y \in madeItems' THEN 1 ELSE 0)
  <2>0. /\ (IF y \in HeldNow THEN 1 ELSE 0) + (IF y \in erasedItems THEN 1 ELSE 0) + deliveries[y]
            = (IF y \in madeItems THEN 1 ELSE 0)
        /\ deliveries[y] \in Nat
    BY DEF TextFits, Balance, ItemsTyped
  <2>1. CASE y \in E
    <3>1. y \in HeldNow /\ y \notin HeldNow' /\ y \in erasedItems'
      BY <2>1
    <3>2. y \notin erasedItems
      BY <2>0, <3>1
    <3>3. QED
      BY <2>0, <3>1, <3>2
  <2>2. CASE y \notin E
    <3>1. (y \in HeldNow' <=> y \in HeldNow) /\ (y \in erasedItems' <=> y \in erasedItems)
      BY <2>2
    <3>2. QED
      BY <2>0, <3>1
  <2>3. QED
    BY <2>1, <2>2
<1>3. QED
  BY <1>1, <1>2 DEF Balance

(* All that is held is delivered. *)
LEMMA BalanceSent ==
    ASSUME TextFits, HeldNow' = {}, UNCHANGED <<madeItems, erasedItems>>,
           deliveries' = [x \in Items |-> deliveries[x] + IF x \in HeldNow THEN 1 ELSE 0]
    PROVE  Balance' /\ ItemsTyped'
<1>0. \A y \in Items : deliveries[y] \in Nat
  BY DEF TextFits, ItemsTyped
<1>1. ItemsTyped'
  <2>1. \A y \in Items : (deliveries[y] + IF y \in HeldNow THEN 1 ELSE 0) \in Nat
    BY <1>0
  <2>2. QED
    BY <2>1 DEF TextFits, ItemsTyped
<1>2. ASSUME NEW y \in Items
      PROVE  (IF y \in HeldNow' THEN 1 ELSE 0) + (IF y \in erasedItems' THEN 1 ELSE 0) + deliveries'[y]
             = (IF y \in madeItems' THEN 1 ELSE 0)
  <2>0. (IF y \in HeldNow THEN 1 ELSE 0) + (IF y \in erasedItems THEN 1 ELSE 0) + deliveries[y]
        = (IF y \in madeItems THEN 1 ELSE 0)
    BY DEF TextFits, Balance
  <2>1. deliveries'[y] = deliveries[y] + IF y \in HeldNow THEN 1 ELSE 0
    OBVIOUS
  <2>2. QED
    BY <1>0, <2>0, <2>1
<1>3. QED
  BY <1>1, <1>2 DEF Balance

-----------------------------------------------------------------------------
(* The steps that write the draft or the rail. *)

(* Typed drafts. *)
DraftType == [slash : BOOLEAN, body : Seq(Text), glued : BOOLEAN]

LEMMA NoDraftFits == NoDraft \in DraftType /\ NoDraft.body = <<>>
  BY EmptyRange DEF NoDraft, DraftType

LEMMA PickerSees ==
    ASSUME MenuFits, NEW open, NEW query, picker' = MenuSees(open, query, picker)
    PROVE  MenuFits'
<1>1. picker' \in {FreshMenu, [FreshMenu EXCEPT !.last = query], picker}
  BY DEF MenuSees
<1>2. QED
  BY <1>1 DEF MenuFits, FreshMenu

LEMMA WritesMenu == ASSUME MenuFits, NEW d, Writes(d) PROVE MenuFits' /\ draft' = d
<1>1. draft' = d /\ picker' = MenuSees(IsToken(d), IF IsToken(d) THEN Last(d.body) ELSE "", picker)
  BY DEF Writes
<1>2. QED
  BY <1>1, PickerSees

LEMMA TypesWordKeeps ==
    ASSUME ComposerInv, NEW w \in Words \cup Marks, TypesWord(w) PROVE TextFits' /\ MenuFits'
<1> DEFINE b == Append(draft.body, w)
           d == [draft EXCEPT !.body = b, !.glued = TRUE]
<1>1. /\ Writes(d) /\ w \notin madeItems /\ UNCHANGED <<rail, erasedItems, deliveries>>
      /\ madeItems' = (IF w \in Words THEN madeItems \cup {w} ELSE madeItems)
  BY DEF TypesWord, editRest
<1>2. draft \in DraftType /\ draft.body \in Seq(Text) /\ TextFits /\ MenuFits
  BY DEF ComposerInv, TextFits, DraftType
<1>3. w \in Text
  BY DEF Text
<1>4. b \in Seq(Text) /\ Range(b) = Range(draft.body) \cup {w}
  BY <1>2, <1>3, RangeAppend
<1>5. w \in Words => w \in Items
  BY DEF Items
<1>6. w \notin Words => w \notin Items
  BY ComposerAssumption
<1>7. w \in Items => w \notin Range(draft.body) /\ w \notin Range(rail)
  BY <1>1, <1>2, NewIsNowhere
<1>8. Unique(b)
  BY <1>2, <1>3, <1>7, RangeAppend DEF TextFits
<1> HIDE DEF b
<1>9. d \in DraftType /\ d.body = b
  BY <1>2, <1>4 DEF DraftType
<1> HIDE DEF d
<1>10. draft' = d /\ MenuFits'
  BY <1>1, <1>2, WritesMenu
<1>11. CASE w \notin Words
  <2>1. Range(draft'.body) \cap Items = Range(draft.body) \cap Items
    BY <1>4, <1>6, <1>9, <1>10, <1>11
  <2>2. UNCHANGED <<rail, itemVars>>
    BY <1>1, <1>11 DEF itemVars
  <2>3. TextFits'
    BY <1>2, <1>8, <1>9, <1>10, <2>1, <2>2, DraftMoves DEF DraftType
  <2>4. QED
    BY <1>10, <2>3
<1>12. CASE w \in Words
  <2>1. HeldNow' = HeldNow \cup {w} /\ madeItems' = madeItems \cup {w}
    BY <1>1, <1>4, <1>5, <1>9, <1>10, <1>12 DEF HeldNow
  <2>2. Balance'
    BY <1>1, <1>2, <1>5, <1>12, <2>1, BalanceMade
  <2>3. ItemsTyped'
    BY <1>1, <1>2, <1>5, <1>12, <2>1 DEF TextFits, ItemsTyped
  <2>4. Range(draft'.body) \cap Range(rail') \cap Items = {}
    BY <1>1, <1>2, <1>4, <1>7, <1>9, <1>10 DEF TextFits
  <2>5. rail' = rail /\ Unique(rail) /\ rail \in Seq(Images \cup Cards)
    BY <1>1, <1>2 DEF TextFits
  <2>6. QED
    BY <1>8, <1>9, <1>10, <2>2, <2>3, <2>4, <2>5 DEF TextFits, DraftType
<1>13. QED
  BY <1>11, <1>12

(* Steps that write the draft's slash or its spaces only. *)
LEMMA BodyStays ==
    ASSUME ComposerInv, draft' \in DraftType, draft'.body = draft.body, UNCHANGED <<rail, itemVars>>
    PROVE  TextFits'
<1>1. TextFits /\ Unique(draft'.body)
  BY DEF ComposerInv, TextFits
<1>2. QED
  BY <1>1, DraftMoves DEF DraftType

LEMMA SpacingKeeps == ASSUME ComposerInv, TypesSlash \/ TypesSpace \/ ClicksPlus PROVE TextFits' /\ MenuFits'
<1>0. draft \in DraftType /\ TextFits /\ MenuFits
  BY DEF ComposerInv, TextFits, DraftType
<1>1. CASE TypesSlash
  <2>1. draft = NoDraft /\ Writes([NoDraft EXCEPT !.slash = TRUE]) /\ UNCHANGED <<rail, itemVars>>
    BY <1>1 DEF TypesSlash, editRest
  <2>2. draft' = [NoDraft EXCEPT !.slash = TRUE] /\ MenuFits'
    BY <1>0, <2>1, WritesMenu
  <2>3. draft' \in DraftType /\ draft'.body = draft.body
    BY <1>0, <2>1, <2>2 DEF DraftType
  <2>4. QED
    BY <2>1, <2>2, <2>3, BodyStays
<1>2. CASE TypesSpace
  <2>1. Writes([draft EXCEPT !.glued = FALSE]) /\ UNCHANGED <<rail, itemVars>>
    BY <1>2 DEF TypesSpace, editRest
  <2>2. draft' = [draft EXCEPT !.glued = FALSE] /\ MenuFits'
    BY <1>0, <2>1, WritesMenu
  <2>3. draft' \in DraftType /\ draft'.body = draft.body
    BY <1>0, <2>2 DEF DraftType
  <2>4. QED
    BY <2>1, <2>2, <2>3, BodyStays
<1>3. CASE ClicksPlus
  <2> DEFINE d == [draft EXCEPT !.slash = TRUE]
  <2>1. /\ draft' = d /\ UNCHANGED <<rail, itemVars>>
        /\ picker' = MenuSees(IsToken(d), IF IsToken(d) THEN Last(d.body) ELSE "", picker)
    BY <1>3 DEF ClicksPlus
  <2>2. d \in DraftType /\ d.body = draft.body
    BY <1>0 DEF DraftType
  <2> HIDE DEF d
  <2>3. MenuFits'
    BY <1>0, <2>1, PickerSees
  <2>4. QED
    BY <2>1, <2>2, <2>3, BodyStays
<1>4. QED
  BY <1>1, <1>2, <1>3

LEMMA ErasesWordKeeps == ASSUME ComposerInv, ErasesWord PROVE TextFits' /\ MenuFits'
<1> DEFINE b == draft.body
           d == IF b = <<>> THEN NoDraft ELSE [draft EXCEPT !.body = Front(b), !.glued = FALSE]
           E == IF b = <<>> THEN {} ELSE {Last(b)} \cap Items
<1>1. Writes(d) /\ erasedItems' = erasedItems \cup E /\ UNCHANGED <<rail, madeItems, deliveries>>
  BY DEF ErasesWord, editRest
<1>2. draft \in DraftType /\ b \in Seq(Text) /\ TextFits /\ MenuFits /\ Unique(b)
  BY DEF ComposerInv, TextFits, DraftType
<1>3. d \in DraftType /\ Unique(d.body) /\ Range(b) \cap Items = (Range(d.body) \cap Items) \cup E
      /\ E \cap Range(d.body) = {}
  <2>1. CASE b = <<>>
    BY <2>1, NoDraftFits, EmptyRange
  <2>2. CASE b # <<>>
    <3>1. /\ Front(b) \in Seq(Text) /\ Range(b) = Range(Front(b)) \cup {Last(b)} /\ Unique(Front(b))
          /\ (Last(b) \in Items => Last(b) \notin Range(Front(b)))
      BY <1>2, <2>2, RangeFront
    <3>2. d = [draft EXCEPT !.body = Front(b), !.glued = FALSE] /\ E = {Last(b)} \cap Items
      BY <2>2
    <3>3. d \in DraftType /\ d.body = Front(b)
      BY <1>2, <3>1, <3>2 DEF DraftType
    <3> HIDE DEF d, E
    <3>4. QED
      BY <3>1, <3>2, <3>3
  <2>3. QED
    BY <2>1, <2>2
<1> HIDE DEF d, E
<1>4. draft' = d /\ MenuFits'
  BY <1>1, <1>2, WritesMenu
<1>5. E \subseteq Items /\ E \cap Range(rail) = {}
  <2>1. E \subseteq Items /\ E \subseteq Range(b)
    BY <1>3 DEF E
  <2>2. QED
    BY <1>2, <2>1 DEF TextFits
<1>6. E \subseteq HeldNow /\ HeldNow' = HeldNow \ E
  BY <1>1, <1>3, <1>4, <1>5 DEF HeldNow
<1>7. Balance' /\ ItemsTyped'
  BY <1>1, <1>2, <1>6, BalanceErased
<1>8. Range(draft'.body) \cap Range(rail') \cap Items = {}
  BY <1>1, <1>2, <1>3, <1>4 DEF TextFits
<1>9. rail' = rail /\ Unique(rail) /\ rail \in Seq(Images \cup Cards)
  BY <1>1, <1>2 DEF TextFits
<1>10. TextFits'
  BY <1>3, <1>4, <1>7, <1>8, <1>9 DEF TextFits, DraftType
<1>11. QED
  BY <1>4, <1>10

LEMMA RailsKeeps ==
    ASSUME ComposerInv, NEW x \in Images \cup Cards, Rails(x) PROVE TextFits' /\ MenuFits'
<1>1. /\ x \notin madeItems /\ rail' = Append(rail, x) /\ madeItems' = madeItems \cup {x}
      /\ UNCHANGED <<draft, picker, erasedItems, deliveries>>
  BY DEF Rails
<1>2. TextFits /\ MenuFits /\ x \in Items
  BY DEF ComposerInv, Items
<1>3. x \notin Range(draft.body) /\ x \notin Range(rail)
  BY <1>1, <1>2, NewIsNowhere
<1>4. rail' \in Seq(Images \cup Cards) /\ Range(rail') = Range(rail) \cup {x} /\ Unique(rail')
  BY <1>1, <1>2, <1>3, RangeAppend DEF TextFits
<1>5. HeldNow' = HeldNow \cup {x}
  BY <1>1, <1>2, <1>4 DEF HeldNow
<1>6. Balance'
  BY <1>1, <1>2, <1>5, BalanceMade
<1>7. ItemsTyped'
  BY <1>1, <1>2 DEF TextFits, ItemsTyped
<1>8. Range(draft'.body) \cap Range(rail') \cap Items = {}
  BY <1>1, <1>2, <1>3, <1>4 DEF TextFits
<1>9. TextFits'
  BY <1>1, <1>2, <1>4, <1>6, <1>7, <1>8 DEF TextFits, Unique
<1>10. QED
  BY <1>1, <1>2, <1>9 DEF MenuFits

LEMMA RemovesCardKeeps ==
    ASSUME ComposerInv, NEW i \in DOMAIN rail, RemovesCard(i) PROVE TextFits' /\ MenuFits'
<1>1. /\ rail' = RemoveAt(rail, i) /\ erasedItems' = erasedItems \cup {rail[i]}
      /\ UNCHANGED <<draft, picker, madeItems, deliveries>>
  BY DEF RemovesCard
<1>2. TextFits /\ MenuFits /\ rail \in Seq(Images \cup Cards) /\ Unique(rail)
  BY DEF ComposerInv, TextFits
<1>3. i \in 1 .. Len(rail) /\ rail[i] \in Images \cup Cards
  BY <1>2
<1>4. rail[i] \in Items
  BY <1>3 DEF Items
<1>5. /\ rail' \in Seq(Images \cup Cards) /\ Range(rail) = Range(rail') \cup {rail[i]}
      /\ Unique(rail') /\ rail[i] \notin Range(rail')
  BY <1>1, <1>2, <1>3, <1>4, RangeRemoveAt
<1> DEFINE E == {rail[i]}
<1>6. rail[i] \notin Range(draft.body)
  BY <1>2, <1>4, <1>5 DEF TextFits
<1>7. E \subseteq HeldNow /\ HeldNow' = HeldNow \ E
  BY <1>1, <1>4, <1>5, <1>6 DEF HeldNow
<1> HIDE DEF E
<1>8. erasedItems' = erasedItems \cup E
  BY <1>1 DEF E
<1>9. Balance' /\ ItemsTyped'
  BY <1>1, <1>2, <1>7, <1>8, BalanceErased
<1>10. Range(draft'.body) \cap Range(rail') \cap Items = {}
  BY <1>1, <1>2, <1>5 DEF TextFits
<1>11. TextFits'
  BY <1>1, <1>2, <1>5, <1>9, <1>10 DEF TextFits, Unique
<1>12. QED
  BY <1>1, <1>2, <1>11 DEF MenuFits

(* What send_message takes. *)
LEMMA SendKeeps ==
    ASSUME ComposerInv, NEW steer, SendMessage(steer) PROVE TextFits' /\ MenuFits'
<1> DEFINE refs == Picked(rail, {i \in DOMAIN rail : rail[i] \in Cards})
           images == Picked(rail, {i \in DOMAIN rail : rail[i] \in Images})
           text == draft.body \o refs
           route == Route(steer, text, images)
<1>1. /\ Writes(NoDraft) /\ rail' = <<>> /\ UNCHANGED <<madeItems, erasedItems>>
      /\ Delivered(text, IF route = "send" THEN images ELSE <<>>)
  BY DEF SendMessage
<1>2. /\ TextFits /\ MenuFits /\ rail \in Seq(Images \cup Cards)
      /\ draft.body \in Seq(Text)
  BY DEF ComposerInv, TextFits
<1>4. refs \in Seq(Images \cup Cards) /\ Range(refs) = Range(rail) \cap Cards
  BY <1>2, PickedOf
<1>5. images \in Seq(Images \cup Cards) /\ Range(images) = Range(rail) \cap Images
  BY <1>2, PickedOf
<1> HIDE DEF refs, images
<1>8. Range(text) = Range(draft.body) \cup Range(refs)
  <2>1. IsSequence(draft.body) /\ IsSequence(refs)
    BY <1>2, <1>4 DEF IsSequence
  <2>2. QED
    BY <2>1, RangeConcat
<1>9. images # <<>> => route = "send"
  BY DEF Route
<1>10. images = <<>> => Range(images) = {}
  BY EmptyRange
<1> DEFINE sent == IF route = "send" THEN images ELSE <<>>
<1>11. Range(sent) = Range(images)
  BY <1>9, <1>10, EmptyRange
<1>12. deliveries' = [x \in Items |-> deliveries[x] + IF x \in Range(text) \cup Range(sent) THEN 1 ELSE 0]
  BY <1>1 DEF Delivered
<1> HIDE DEF text, route, sent
<1>13. Range(rail) \subseteq Images \cup Cards
  BY <1>2 DEF Range
<1>14. Range(text) \cup Range(sent) = Range(draft.body) \cup Range(rail)
  BY <1>4, <1>5, <1>8, <1>11, <1>13
<1>15. \A x \in Items : x \in Range(text) \cup Range(sent) <=> x \in HeldNow
  BY <1>14 DEF HeldNow
<1>16. deliveries' = [x \in Items |-> deliveries[x] + IF x \in HeldNow THEN 1 ELSE 0]
  BY <1>12, <1>15
<1>17. draft' = NoDraft /\ MenuFits'
  BY <1>1, <1>2, WritesMenu
<1>18. Range(draft'.body) = {} /\ Range(rail') = {} /\ Unique(draft'.body) /\ Unique(rail')
  BY <1>1, <1>17, NoDraftFits, EmptyRange
<1>19. HeldNow' = {}
  BY <1>18 DEF HeldNow
<1>20. Balance' /\ ItemsTyped'
  BY <1>1, <1>2, <1>16, <1>19, BalanceSent
<1>21. draft' \in [slash : BOOLEAN, body : Seq(Text), glued : BOOLEAN] /\ rail' \in Seq(Images \cup Cards)
  BY <1>1, <1>17, NoDraftFits DEF DraftType
<1>22. TextFits'
  BY <1>18, <1>20, <1>21 DEF TextFits
<1>23. QED
  BY <1>17, <1>22

(* A query that finds a row of the palette is no item. *)
LEMMA QueryIsNoItem ==
    ASSUME ComposerInv, IsQuery(draft), SlashRows(draft) # <<>>
    PROVE  Range(draft.body) \cap Items = {}
<1> DEFINE S == Range(SlashAll)
           at == {i \in DOMAIN SlashAll : QueryOf(draft) \in {"", SlashAll[i]}}
           rows == Picked(SlashAll, at)
<1>1. SlashAll \in Seq(S)
  <2>1. SlashAll \in Seq({"plan", "stop", "goal", "clear", "lint", "coder"})
    BY DEF SlashAll
  <2>2. DOMAIN SlashAll = 1 .. Len(SlashAll) /\ Len(SlashAll) \in Nat /\ \A i \in DOMAIN SlashAll : SlashAll[i] \in S
    BY <2>1 DEF Range
  <2>3. QED
    BY <2>1, <2>2
<1>2. at \subseteq DOMAIN SlashAll
  OBVIOUS
<1>3. rows # <<>> /\ \A i \in at : QueryOf(draft) \in {"", SlashAll[i]}
  BY DEF SlashRows
<1> HIDE DEF at, S
<1>4. rows \in Seq(S) /\ \A k \in 1 .. Len(rows) : \E i \in at : rows[k] = SlashAll[i]
  <2>1. Picked(SlashAll, at) \in Seq(S)
    BY <1>1, <1>2, PickedIsListed
  <2>2. \A k \in 1 .. Len(Picked(SlashAll, at)) : \E i \in at : Picked(SlashAll, at)[k] = SlashAll[i]
    BY <1>1, <1>2, PickedRange
  <2>3. QED
    BY <2>1, <2>2
<1> HIDE DEF rows
<1>5. 1 \in 1 .. Len(rows)
  <2>1. rows \in Seq(S)
    BY <1>4
  <2>2. rows # <<>>
    BY <1>3 DEF rows
  <2>3. QED
    BY <2>1, <2>2
<1>6. PICK i \in at : rows[1] = SlashAll[i]
  BY <1>4, <1>5
<1>7. QueryOf(draft) \in MenuNames
  BY <1>2, <1>3, <1>6 DEF MenuNames, Range
<1>8. draft.body \in Seq(Text) /\ (draft.body = <<>> \/ Len(draft.body) = 1)
  BY DEF ComposerInv, TextFits, IsQuery
<1>9. CASE draft.body = <<>>
  BY <1>9, EmptyRange
<1>10. CASE draft.body # <<>>
  <2>1. draft.body[1] \in MenuNames
    BY <1>7, <1>10 DEF QueryOf
  <2>2. DOMAIN draft.body = {1}
    BY <1>8, <1>10
  <2>3. QED
    BY <2>1, <2>2, ComposerAssumption DEF Range
<1>11. QED
  BY <1>9, <1>10

LEMMA AcceptSlashKeeps ==
    ASSUME ComposerInv, NEW row, AcceptSlash(row), IsQuery(draft), SlashRows(draft) # <<>>
    PROVE  TextFits' /\ MenuFits'
<1> DEFINE d == IF row \in {"goal", "lint"} THEN [slash |-> TRUE, body |-> <<row>>, glued |-> FALSE] ELSE NoDraft
<1>1. /\ Writes(d) /\ UNCHANGED <<madeItems, deliveries>>
      /\ rail' = IF row = "clear" THEN <<>> ELSE rail
      /\ erasedItems' = IF row = "clear" THEN erasedItems \cup Range(rail) ELSE erasedItems
  BY DEF AcceptSlash
<1>2. TextFits /\ MenuFits /\ Range(draft.body) \cap Items = {}
  BY QueryIsNoItem DEF ComposerInv
<1>3. d \in DraftType /\ Unique(d.body) /\ Range(d.body) \cap Items = {}
  <2>1. CASE row \in {"goal", "lint"}
    <3>1. {"goal", "lint"} \subseteq MenuNames
      <4>1. DOMAIN SlashAll = 1 .. 6 /\ SlashAll[3] = "goal" /\ SlashAll[5] = "lint"
        BY DEF SlashAll
      <4>2. QED
        BY <4>1 DEF MenuNames, Range
    <3>2. row \in Text /\ row \notin Items
      BY <2>1, <3>1, ComposerAssumption DEF Text
    <3>3. <<row>> \in Seq(Text) /\ Range(<<row>>) = {row} /\ Unique(<<row>>)
      BY <3>2, SingleRange
    <3>4. d \in DraftType /\ d.body = <<row>>
      BY <2>1, <3>3 DEF DraftType
    <3>5. QED
      BY <3>2, <3>3, <3>4
  <2>2. CASE row \notin {"goal", "lint"}
    BY <2>2, NoDraftFits, EmptyRange
  <2>3. QED
    BY <2>1, <2>2
<1> HIDE DEF d
<1>4. draft' = d /\ MenuFits'
  BY <1>1, <1>2, WritesMenu
<1>5. CASE row # "clear"
  <2>1. UNCHANGED <<rail, itemVars>>
    BY <1>1, <1>5 DEF itemVars
  <2>2. Range(draft'.body) \cap Items = Range(draft.body) \cap Items
    BY <1>2, <1>3, <1>4
  <2>3. TextFits'
    BY <1>2, <1>3, <1>4, <2>1, <2>2, DraftMoves DEF DraftType
  <2>4. QED
    BY <1>4, <2>3
<1>6. CASE row = "clear"
  <2>1. rail' = <<>> /\ erasedItems' = erasedItems \cup Range(rail)
    BY <1>1, <1>6
  <2>2. Range(rail) \subseteq Items
    BY <1>2 DEF TextFits, Range, Items
  <2>3. Range(rail) \subseteq HeldNow /\ HeldNow' = HeldNow \ Range(rail)
    BY <1>2, <1>3, <1>4, <2>1, <2>2, EmptyRange DEF HeldNow
  <2>4. Balance' /\ ItemsTyped'
    BY <1>1, <1>2, <2>1, <2>3, BalanceErased
  <2>5. rail' \in Seq(Images \cup Cards) /\ Unique(rail') /\ Range(rail') = {}
    BY <2>1, EmptyRange
  <2>6. TextFits'
    BY <1>3, <1>4, <2>4, <2>5 DEF TextFits, DraftType
  <2>7. QED
    BY <1>4, <2>6
<1>7. QED
  BY <1>5, <1>6

LEMMA AtRowsAre ==
    ASSUME NEW d
    PROVE  AtRows(d) \in Seq({"@a.rs", "@src/", "@src/b.rs", "session:2"})
<1> DEFINE N == {"@a.rs", "@src/", "@src/b.rs", "session:2"}
<1>1. <<>> \in Seq(N) /\ <<"@a.rs", "@src/">> \in Seq(N) /\ <<"@src/b.rs">> \in Seq(N) /\ <<"session:2">> \in Seq(N)
  OBVIOUS
<1>2. \A s, t \in Seq(N) : s \o t \in Seq(N)
  OBVIOUS
<1> HIDE DEF N
<1>3. AtRows(d) \in Seq(N)
  BY <1>1, <1>2 DEF AtRows
<1>4. QED
  BY <1>3 DEF N

LEMMA AcceptAtKeeps ==
    ASSUME ComposerInv, IsToken(draft), AtRows(draft) # <<>>, AcceptAt(Chosen(picker, AtRows(draft)))
    PROVE  TextFits' /\ MenuFits'
<1> DEFINE rows == AtRows(draft)
           row == Chosen(picker, rows)
           b == Append(Front(draft.body), row)
           d == [draft EXCEPT !.body = b, !.glued = (row = "@src/")]
           N == {"@a.rs", "@src/", "@src/b.rs", "session:2"}
<1>1. Writes(d) /\ UNCHANGED <<rail, itemVars>>
  BY DEF AcceptAt, editRest
<1>2. draft \in DraftType /\ draft.body \in Seq(Text) /\ TextFits /\ MenuFits /\ Unique(draft.body)
  BY DEF ComposerInv, TextFits, DraftType
<1>3. rows \in Seq(N) /\ rows # <<>>
  BY AtRowsAre
<1> HIDE DEF rows
<1>4. row \in N
  <2>1. Len(rows) \in Nat /\ Len(rows) >= 1 /\ \A i \in 1 .. Len(rows) : rows[i] \in N
    BY <1>3
  <2>2. picker.sel \in Nat
    BY <1>2 DEF MenuFits
  <2>3. (IF picker.sel < Len(rows) THEN picker.sel + 1 ELSE Len(rows)) \in 1 .. Len(rows)
    BY <2>1, <2>2
  <2>4. QED
    BY <2>1, <2>3 DEF Chosen
<1>5. N \subseteq MenuNames
  BY DEF MenuNames, AtMarks
<1> HIDE DEF row, N
<1>6. row \in Text /\ row \notin Items
  BY <1>4, <1>5, ComposerAssumption DEF Text
<1>7. draft.body # <<>> /\ Last(draft.body) \notin Items
  BY ComposerAssumption DEF IsToken, MenuNames
<1>8. Front(draft.body) \in Seq(Text) /\ Range(draft.body) = Range(Front(draft.body)) \cup {Last(draft.body)}
      /\ Unique(Front(draft.body))
  BY <1>2, <1>7, RangeFront
<1>9. b \in Seq(Text) /\ Range(b) = Range(Front(draft.body)) \cup {row} /\ Unique(b)
  BY <1>6, <1>8, RangeAppend
<1> HIDE DEF b
<1>10. d \in DraftType /\ d.body = b
  BY <1>2, <1>9 DEF DraftType
<1> HIDE DEF d
<1>11. draft' = d /\ MenuFits'
  BY <1>1, <1>2, WritesMenu
<1>12. Range(draft'.body) \cap Items = Range(draft.body) \cap Items
  BY <1>6, <1>7, <1>8, <1>9, <1>10, <1>11
<1>13. TextFits'
  BY <1>1, <1>2, <1>9, <1>10, <1>11, <1>12, DraftMoves DEF DraftType
<1>14. QED
  BY <1>11, <1>13

LEMMA PickerMoves ==
    ASSUME MenuFits, NEW n \in Nat \ {0}, NEW key, picker' = MoveIn(picker, n, key)
    PROVE  MenuFits'
<1> DEFINE at == IF picker.sel < n THEN picker.sel ELSE n - 1
           to == IF key = "down" THEN (at + 1) % n ELSE (at + n - 1) % n
<1>1. at \in Nat
  BY DEF MenuFits
<1> HIDE DEF at
<1>2. (at + 1) % n \in Nat /\ (at + n - 1) % n \in Nat
  <2>1. at + 1 \in Int /\ at + n - 1 \in Int /\ n \in Int /\ n > 0
    BY <1>1
  <2>2. QED
    BY <2>1
<1>3. to \in Nat
  BY <1>2
<1>4. picker' = [picker EXCEPT !.sel = to]
  BY DEF MoveIn, at
<1> HIDE DEF to
<1>5. QED
  BY <1>3, <1>4 DEF MenuFits

LEMMA PickerKeyKeeps == ASSUME ComposerInv, NEW key, PickerKey(key) PROVE TextFits' /\ MenuFits'
<1> DEFINE rows == AtRows(draft)
<1>1. IsToken(draft)
  BY DEF PickerKey, PickerOpen
<1>2. TextFits /\ MenuFits
  BY DEF ComposerInv
<1>3. CASE picker' = [picker EXCEPT !.gone = TRUE] /\ UNCHANGED menuRest
  <2>1. UNCHANGED <<draft, rail, itemVars>>
    BY <1>3 DEF menuRest
  <2>2. MenuFits'
    BY <1>2, <1>3 DEF MenuFits
  <2>3. QED
    BY <1>2, <2>1, <2>2, TextSame
<1>4. CASE rows # <<>> /\ picker' = MoveIn(picker, Len(rows), key) /\ UNCHANGED menuRest
  <2>1. UNCHANGED <<draft, rail, itemVars>>
    BY <1>4 DEF menuRest
  <2>2. rows \in Seq({"@a.rs", "@src/", "@src/b.rs", "session:2"})
    BY AtRowsAre
  <2> HIDE DEF rows
  <2>3. Len(rows) \in Nat \ {0}
    BY <1>4, <2>2
  <2>4. MenuFits'
    BY <1>2, <1>4, <2>3, PickerMoves
  <2>5. QED
    BY <1>2, <2>1, <2>4, TextSame
<1>5. CASE rows # <<>> /\ AcceptAt(Chosen(picker, rows))
  BY <1>1, <1>5, AcceptAtKeeps
<1>6. QED
  BY <1>3, <1>4, <1>5 DEF PickerKey

LEMMA PaletteKeyKeeps == ASSUME ComposerInv, NEW key, PaletteKey(key) PROVE TextFits' /\ MenuFits'
<1> DEFINE rows == SlashRows(draft)
<1>1. IsQuery(draft) /\ TextFits /\ MenuFits
  BY DEF PaletteKey, PaletteOpen, ComposerInv
<1>2. CASE UNCHANGED <<picker, menuRest>>
  <2>1. UNCHANGED <<draft, rail, itemVars, picker>>
    BY <1>2 DEF menuRest
  <2>2. QED
    BY <1>1, <2>1, TextSame DEF MenuFits
<1>3. CASE rows # <<>> /\ AcceptSlash(Chosen(palette, rows))
  BY <1>1, <1>3, AcceptSlashKeeps
<1>4. QED
  BY <1>2, <1>3 DEF PaletteKey

-----------------------------------------------------------------------------
(* The steps that leave the draft and the rail. *)

LEMMA ItemsStay ==
    ASSUME ComposerInv, UNCHANGED <<draft, rail, picker, itemVars>> PROVE TextFits' /\ MenuFits'
BY TextSame DEF ComposerInv, MenuFits

LEMMA TextOfOthers ==
    ASSUME ComposerInv,
           \/ EnterSteersQueue \/ PollsIndex \/ EscapeInterrupts \/ OpensGoal \/ FocusesInput
           \/ \E act \in {"edit", "remove", "steer"} : RowButton(act)
           \/ \E key \in {"enter", "esc", "click"} : LeavesRow(key) \/ LeavesGoal(key)
           \/ \E kind \in {"approval", "single", "multi", "plan"} : AskArrives(kind)
           \/ \E o \in Options : TicksOption(o)
           \/ TypesAnswer \/ ApprovalAnswered \/ QuestionAnswered
           \/ HopBegins \/ HopFinishes \/ RunFinishes
           \/ \E rows \in {<<>>, <<"plain">>} : QueueArrives(rows)
           \/ ModelChanges
    PROVE  TextFits' /\ MenuFits'
<1>1. CASE EnterSteersQueue \/ PollsIndex \/ EscapeInterrupts \/ OpensGoal \/ FocusesInput
  <2>1. UNCHANGED <<draft, rail, picker, itemVars>>
    BY <1>1 DEF EnterSteersQueue, PollsIndex, EscapeInterrupts, OpensGoal, FocusesInput
  <2>2. QED
    BY <2>1, ItemsStay
<1>2. CASE \E act \in {"edit", "remove", "steer"} : RowButton(act)
  <2>1. UNCHANGED <<draft, rail, picker, itemVars>>
    BY <1>2 DEF RowButton
  <2>2. QED
    BY <2>1, ItemsStay
<1>3. CASE \E key \in {"enter", "esc", "click"} : LeavesRow(key) \/ LeavesGoal(key)
  <2>1. UNCHANGED <<draft, rail, picker, itemVars>>
    BY <1>3 DEF LeavesRow, LeavesGoal, LeavesField
  <2>2. QED
    BY <2>1, ItemsStay
<1>4. CASE \/ \E kind \in {"approval", "single", "multi", "plan"} : AskArrives(kind)
           \/ \E o \in Options : TicksOption(o)
           \/ TypesAnswer \/ ApprovalAnswered \/ QuestionAnswered
  <2>1. UNCHANGED askRest
    BY <1>4 DEF AskArrives, TicksOption, TypesAnswer, ApprovalAnswered, QuestionAnswered, Answers
  <2>2. UNCHANGED <<draft, rail, picker, itemVars>>
    BY <2>1 DEF askRest
  <2>3. QED
    BY <2>2, ItemsStay
<1>5. CASE \/ HopBegins \/ HopFinishes \/ RunFinishes \/ ModelChanges
           \/ \E rows \in {<<>>, <<"plain">>} : QueueArrives(rows)
  <2>1. UNCHANGED eventRest
    BY <1>5 DEF HopBegins, HopFinishes, RunFinishes, ModelChanges, QueueArrives
  <2>2. UNCHANGED <<draft, rail, picker, itemVars>>
    BY <2>1 DEF eventRest
  <2>3. QED
    BY <2>2, ItemsStay
<1>6. QED
  BY <1>1, <1>2, <1>3, <1>4, <1>5

LEMMA PressesKeep == ASSUME ComposerInv, PressesOutside PROVE TextFits' /\ MenuFits'
<1>1. picker' = [picker EXCEPT !.gone = @ \/ PickerOpen] /\ UNCHANGED <<draft, rail, itemVars>>
  BY DEF PressesOutside, editRest
<1>2. TextFits /\ MenuFits
  BY DEF ComposerInv
<1>3. QED
  BY <1>1, <1>2, TextSame DEF MenuFits

LEMMA ClicksSendKeeps == ASSUME ComposerInv, ClicksSend PROVE TextFits' /\ MenuFits'
<1>1. CASE SendMessage(InFlight /\ busyEnter = "steer")
  BY <1>1, SendKeeps
<1>2. CASE UNCHANGED <<draft, rail, picker, itemVars>>
  BY <1>2, ItemsStay
<1>3. QED
  BY <1>1, <1>2 DEF ClicksSend

-----------------------------------------------------------------------------
(* What is done and answered. *)

LEMMA TalkGoesOn ==
    ASSUME ComposerInv, ask' = ask, request' = request \/ request'.kind # "answer",
           inputDeeds' \cap {"dismiss", "accept"} = {} \/ inputDeeds' \in {{"dismiss"}, {"accept"}}
    PROVE  TalkFits'
<1>1. DeedsFit'
  BY DEF DeedsFit
<1>2. AskFits'
  BY DEF ComposerInv, TalkFits, AskFits
<1>3. AnswerIsWhole'
  BY DEF ComposerInv, TalkFits, AnswerIsWhole
<1>4. QED
  BY <1>1, <1>2, <1>3 DEF TalkFits

LEMMA QuietTalk == ASSUME ComposerInv, Quietly, ask' = ask PROVE TalkFits'
<1>1. request'.kind # "answer" /\ inputDeeds' \cap {"dismiss", "accept"} = {}
  BY DEF Quietly, NoRequest
<1>2. QED
  BY <1>1, TalkGoesOn

LEMMA QuietSteps ==
    ASSUME ComposerInv,
           \/ \E w \in Words \cup Marks : TypesWord(w)
           \/ TypesSlash \/ TypesSpace \/ ErasesWord
           \/ \E x \in Images \cup Cards : Attaches(x) \/ Pastes(x)
           \/ \E i \in DOMAIN rail : RemovesCard(i)
           \/ PressesOutside \/ PollsIndex \/ OpensGoal \/ FocusesInput
           \/ HopBegins \/ HopFinishes \/ RunFinishes
           \/ \E rows \in {<<>>, <<"plain">>} : QueueArrives(rows)
           \/ ModelChanges
    PROVE  TalkFits'
<1>1. CASE \/ \E w \in Words \cup Marks : TypesWord(w)
           \/ TypesSlash \/ TypesSpace \/ ErasesWord
  <2>1. Quietly /\ ask' = ask
    BY <1>1 DEF TypesWord, TypesSlash, TypesSpace, ErasesWord, editRest
  <2>2. QED
    BY <2>1, QuietTalk
<1>2. CASE \/ \E x \in Images \cup Cards : Attaches(x) \/ Pastes(x)
           \/ \E i \in DOMAIN rail : RemovesCard(i)
  <2>1. Quietly /\ ask' = ask
    BY <1>2 DEF Attaches, Pastes, Rails, RemovesCard
  <2>2. QED
    BY <2>1, QuietTalk
<1>3. CASE PressesOutside \/ PollsIndex \/ OpensGoal \/ FocusesInput
  <2>1. Quietly /\ ask' = ask
    BY <1>3 DEF PressesOutside, PollsIndex, OpensGoal, FocusesInput, editRest
  <2>2. QED
    BY <2>1, QuietTalk
<1>4. CASE \/ HopBegins \/ HopFinishes \/ RunFinishes \/ ModelChanges
           \/ \E rows \in {<<>>, <<"plain">>} : QueueArrives(rows)
  <2>1. Quietly /\ ask' = ask
    BY <1>4 DEF HopBegins, HopFinishes, RunFinishes, ModelChanges, QueueArrives
  <2>2. QED
    BY <2>1, QuietTalk
<1>5. QED
  BY <1>1, <1>2, <1>3, <1>4

LEMMA SendTalk == ASSUME ComposerInv, NEW steer, SendMessage(steer), inputDeeds' = {"send"} PROVE TalkFits'
<1>1. ask' = ask
  BY DEF SendMessage
<1>2. request'.kind # "answer"
  <2>1. \E text, images : request'.kind = Route(steer, text, images)
    BY DEF SendMessage
  <2>2. QED
    BY <2>1 DEF Route
<1>3. QED
  BY <1>1, <1>2, TalkGoesOn

LEMMA BusySteps ==
    ASSUME ComposerInv,
           \/ ClicksPlus \/ EnterSteersQueue \/ ClicksSend \/ EscapeInterrupts
           \/ \E accelerated \in BOOLEAN : EnterSends(accelerated)
           \/ \E act \in {"edit", "remove", "steer"} : RowButton(act)
           \/ \E key \in {"enter", "esc", "click"} : LeavesRow(key) \/ LeavesGoal(key)
    PROVE  TalkFits'
<1>1. CASE ClicksPlus \/ EnterSteersQueue \/ EscapeInterrupts
  <2>1. ask' = ask /\ request' = request /\ inputDeeds' \in {{}, {"plus"}, {"steerQueue"}, {"interrupt"}}
    BY <1>1 DEF ClicksPlus, EnterSteersQueue, EscapeInterrupts
  <2>2. QED
    BY <2>1, TalkGoesOn
<1>2. CASE \E act \in {"edit", "remove", "steer"} : RowButton(act)
  <2>1. ask' = ask /\ request'.kind # "answer" /\ inputDeeds' \in {{"edit"}, {"remove"}, {"steer"}}
    BY <1>2 DEF RowButton, NoRequest
  <2>2. QED
    BY <2>1, TalkGoesOn
<1>3. CASE \E key \in {"enter", "esc", "click"} : LeavesRow(key) \/ LeavesGoal(key)
  <2>1. ask' = ask /\ request' = request /\ inputDeeds' \subseteq {"save", "abandon", "interrupt"}
    BY <1>3 DEF LeavesRow, LeavesGoal, LeavesField
  <2>2. QED
    BY <2>1, TalkGoesOn
<1>4. CASE \E accelerated \in BOOLEAN : EnterSends(accelerated)
  BY <1>4, SendTalk DEF EnterSends
<1>5. CASE ClicksSend
  <2>1. CASE draft = NoDraft /\ rail = <<>>
    <3>1. ask' = ask /\ request' = request /\ inputDeeds' = {"interrupt"}
      BY <1>5, <2>1 DEF ClicksSend
    <3>2. QED
      BY <3>1, TalkGoesOn
  <2>2. CASE ~(draft = NoDraft /\ rail = <<>>)
    BY <1>5, <2>2, SendTalk DEF ClicksSend
  <2>3. QED
    BY <2>1, <2>2
<1>6. QED
  BY <1>1, <1>2, <1>3, <1>4, <1>5

LEMMA KeyTalk == ASSUME ComposerInv, NEW key, PaletteKey(key) \/ PickerKey(key) PROVE TalkFits'
<1>1. CASE UNCHANGED menuRest /\ inputDeeds' \in {{}, {"dismiss"}}
  <2>1. ask' = ask /\ request' = request
    BY <1>1 DEF menuRest
  <2>2. QED
    BY <1>1, <2>1, TalkGoesOn
<1>2. ASSUME NEW row, AcceptSlash(row) PROVE TalkFits'
  <2>1. ask' = ask /\ inputDeeds' = {"accept"}
    BY <1>2 DEF AcceptSlash
  <2>2. request' = request \/ request'.kind \in {"plan", "coder", "interrupt", "nothing"}
    <3>1. CASE row \in {"stop", "plan", "coder"}
      <4>1. request'.kind = IF row # "stop" THEN row ELSE IF lastRow = "open" THEN "interrupt" ELSE "nothing"
        BY <1>2, <3>1 DEF AcceptSlash
      <4>2. QED
        BY <3>1, <4>1
    <3>2. CASE row \notin {"stop", "plan", "coder"}
      BY <1>2, <3>2 DEF AcceptSlash
    <3>3. QED
      BY <3>1, <3>2
  <2>3. QED
    BY <2>1, <2>2, TalkGoesOn
<1>3. ASSUME NEW row, AcceptAt(row) PROVE TalkFits'
  <2>1. ask' = ask /\ inputDeeds' = {"accept"} /\ request' = request
    BY <1>3 DEF AcceptAt, editRest
  <2>2. QED
    BY <2>1, TalkGoesOn
<1>4. QED
  BY <1>1, <1>2, <1>3 DEF PaletteKey, PickerKey, EscapeTaken

LEMMA AskSteps ==
    ASSUME ComposerInv,
           \/ \E kind \in {"approval", "single", "multi", "plan"} : AskArrives(kind)
           \/ \E o \in Options : TicksOption(o)
           \/ TypesAnswer
    PROVE  TalkFits'
<1>1. AskFits
  BY DEF ComposerInv, TalkFits
<1>2. Quietly /\ AskFits'
  <2>1. ASSUME NEW kind \in {"approval", "single", "multi", "plan"}, AskArrives(kind) PROVE Quietly /\ AskFits'
    BY <2>1 DEF AskArrives, AskFits, NoAsk
  <2>2. ASSUME NEW o \in Options, TicksOption(o) PROVE Quietly /\ AskFits'
    <3>1. Quietly /\ ask' = [ask EXCEPT !.picked = IF o \in ask.picked THEN ask.picked \ {o} ELSE ask.picked \cup {o}]
      BY <2>2 DEF TicksOption
    <3>2. (IF o \in ask.picked THEN ask.picked \ {o} ELSE ask.picked \cup {o}) \in SUBSET Options
      BY <1>1 DEF AskFits
    <3>3. QED
      BY <1>1, <3>1, <3>2 DEF AskFits
  <2>3. CASE TypesAnswer
    BY <1>1, <2>3 DEF TypesAnswer, AskFits
  <2>4. QED
    BY <2>1, <2>2, <2>3
<1>3. DeedsFit' /\ AnswerIsWhole'
  BY <1>2 DEF Quietly, NoRequest, DeedsFit, AnswerIsWhole
<1>4. QED
  BY <1>2, <1>3 DEF TalkFits

LEMMA AnswersTalk ==
    ASSUME ComposerInv, NEW body, Answers(body),
           ask.kind = "multi" => Range(body) = ask.picked \cup (IF ask.typed THEN {"text"} ELSE {})
    PROVE  TalkFits'
<1>1. /\ request' = [kind |-> "answer", of |-> ask, body |-> body, images |-> 0]
      /\ ask' = NoAsk /\ inputDeeds' = {"answer"}
  BY DEF Answers
<1>2. request'.of = ask /\ request'.body = body
  BY <1>1
<1>3. AnswerIsWhole'
  BY <1>2 DEF AnswerIsWhole
<1>4. DeedsFit' /\ AskFits'
  BY <1>1 DEF DeedsFit, AskFits, NoAsk
<1>5. QED
  BY <1>3, <1>4 DEF TalkFits

LEMMA JoinedIsWhole ==
    ASSUME AskFits
    PROVE  Range(JoinedAnswer(ask.picked, ask.typed)) = ask.picked \cup (IF ask.typed THEN {"text"} ELSE {})
<1>1. IsFiniteSet(ask.picked)
  BY ComposerAssumption, FS_Subset DEF AskFits
<1>2. IsSequence(SetToSeq(ask.picked)) /\ Range(SetToSeq(ask.picked)) = ask.picked
  BY <1>1, RangeListed
<1> DEFINE t == IF ask.typed THEN <<"text">> ELSE <<>>
<1>3. IsSequence(t) /\ Range(t) = (IF ask.typed THEN {"text"} ELSE {})
  <2>1. <<"text">> \in Seq({"text"}) /\ Range(<<"text">>) = {"text"}
    BY SingleRange
  <2>2. IsSequence(<<"text">>)
    BY <2>1 DEF IsSequence
  <2>3. QED
    BY <2>1, <2>2, EmptyIsSequence, EmptyRange
<1> HIDE DEF t
<1>4. Range(SetToSeq(ask.picked) \o t) = Range(SetToSeq(ask.picked)) \cup Range(t)
  BY <1>2, <1>3, RangeConcat
<1>5. QED
  BY <1>2, <1>3, <1>4 DEF JoinedAnswer, t

LEMMA AnswerSteps == ASSUME ComposerInv, ApprovalAnswered \/ QuestionAnswered PROVE TalkFits'
<1>1. AskFits
  BY DEF ComposerInv, TalkFits
<1>2. ASSUME ask.kind # "multi", NEW body, Answers(body) PROVE TalkFits'
  BY <1>2, AnswersTalk
<1>3. CASE ask.kind = "multi" /\ Answers(JoinedAnswer(ask.picked, ask.typed))
  BY <1>1, <1>3, JoinedIsWhole, AnswersTalk
<1>4. QED
  BY <1>2, <1>3 DEF ApprovalAnswered, QuestionAnswered

-----------------------------------------------------------------------------
LEMMA ComposerInitially == ComposerInit => ComposerInv
<1> SUFFICES ASSUME ComposerInit PROVE ComposerInv
  OBVIOUS
<1> USE DEF ComposerInit
<1>1. draft \in DraftType /\ Range(draft.body) = {} /\ Range(rail) = {} /\ Unique(draft.body) /\ Unique(rail)
  BY NoDraftFits, EmptyRange
<1>2. rail \in Seq(Images \cup Cards)
  BY EmptyRange
<1>3. HeldNow = {}
  BY <1>1 DEF HeldNow
<1>4. Balance /\ ItemsTyped
  BY <1>3 DEF Balance, ItemsTyped
<1>5. TextFits
  BY <1>1, <1>2, <1>4 DEF TextFits, DraftType
<1>6. MenuFits
  BY DEF MenuFits, FreshMenu
<1>7. TalkFits
  BY DEF TalkFits, DeedsFit, AskFits, AnswerIsWhole, NoAsk, NoRequest
<1>8. QED
  BY <1>5, <1>6, <1>7 DEF ComposerInv

LEMMA ComposerStepKeeps == ComposerInv /\ [ComposerNext]_composerVars => ComposerInv'
<1> SUFFICES ASSUME ComposerInv, [ComposerNext]_composerVars PROVE ComposerInv'
  OBVIOUS
<1>1. CASE UNCHANGED composerVars
  <2>1. UNCHANGED <<draft, rail, picker, itemVars>> /\ UNCHANGED <<ask, request, inputDeeds>>
    BY <1>1 DEF composerVars, itemVars
  <2>2. TextFits' /\ MenuFits'
    BY <2>1, ItemsStay
  <2>3. TalkFits'
    BY <2>1 DEF ComposerInv, TalkFits, DeedsFit, AskFits, AnswerIsWhole
  <2>4. QED
    BY <2>2, <2>3 DEF ComposerInv
<1>2. CASE ComposerStep
  <2>1. CASE \/ \E w \in Words \cup Marks : TypesWord(w)
             \/ TypesSlash \/ TypesSpace \/ ErasesWord
             \/ \E x \in Images \cup Cards : Attaches(x) \/ Pastes(x)
             \/ \E i \in DOMAIN rail : RemovesCard(i)
             \/ PressesOutside
    <3>1. TextFits' /\ MenuFits'
      BY <2>1, TypesWordKeeps, SpacingKeeps, ErasesWordKeeps, RailsKeeps, RemovesCardKeeps, PressesKeep
         DEF Attaches, Pastes
    <3>2. TalkFits'
      BY <2>1, QuietSteps
    <3>3. QED
      BY <3>1, <3>2 DEF ComposerInv
  <2>2. CASE ClicksPlus \/ ClicksSend \/ \E accelerated \in BOOLEAN : EnterSends(accelerated)
    <3>1. TextFits' /\ MenuFits'
      BY <2>2, SpacingKeeps, SendKeeps, ClicksSendKeeps DEF EnterSends
    <3>2. TalkFits'
      BY <2>2, BusySteps
    <3>3. QED
      BY <3>1, <3>2 DEF ComposerInv
  <2>3. ASSUME NEW key, PaletteKey(key) \/ PickerKey(key) PROVE ComposerInv'
    BY <2>3, PaletteKeyKeeps, PickerKeyKeeps, KeyTalk DEF ComposerInv
  <2>4. CASE \/ EnterSteersQueue \/ EscapeInterrupts
             \/ \E act \in {"edit", "remove", "steer"} : RowButton(act)
             \/ \E key \in {"enter", "esc", "click"} : LeavesRow(key) \/ LeavesGoal(key)
    <3>1. TextFits' /\ MenuFits'
      BY <2>4, TextOfOthers
    <3>2. TalkFits'
      BY <2>4, BusySteps
    <3>3. QED
      BY <3>1, <3>2 DEF ComposerInv
  <2>5. CASE \/ PollsIndex \/ OpensGoal \/ FocusesInput
             \/ HopBegins \/ HopFinishes \/ RunFinishes
             \/ \E rows \in {<<>>, <<"plain">>} : QueueArrives(rows)
             \/ ModelChanges
    <3>1. TextFits' /\ MenuFits'
      BY <2>5, TextOfOthers
    <3>2. TalkFits'
      BY <2>5, QuietSteps
    <3>3. QED
      BY <3>1, <3>2 DEF ComposerInv
  <2>6. CASE \/ \E kind \in {"approval", "single", "multi", "plan"} : AskArrives(kind)
             \/ \E o \in Options : TicksOption(o)
             \/ TypesAnswer \/ ApprovalAnswered \/ QuestionAnswered
    <3>1. TextFits' /\ MenuFits'
      BY <2>6, TextOfOthers
    <3>2. TalkFits'
      BY <2>6, AskSteps, AnswerSteps
    <3>3. QED
      BY <3>1, <3>2 DEF ComposerInv
  <2>7. QED
    BY <1>2, <2>1, <2>2, <2>3, <2>4, <2>5, <2>6 DEF ComposerStep
<1>3. QED
  BY <1>1, <1>2 DEF ComposerNext

LEMMA ComposerSafe == ComposerInv => ComposerSound
<1> SUFFICES ASSUME ComposerInv PROVE ComposerSound
  OBVIOUS
<1>1. NothingTypedLost
  BY BalanceIs DEF ComposerInv
<1>2. PickerKeepsKeys
  <2>1. Cardinality({"dismiss"}) = 1 /\ Cardinality({"accept"}) = 1
    BY FS_Singleton
  <2>2. QED
    BY <2>1 DEF ComposerInv, TalkFits, DeedsFit, PickerKeepsKeys
<1>3. QED
  BY <1>1, <1>2 DEF ComposerInv, TalkFits, ComposerSound

(* What is typed or attached is sent once or stays until it is erased, a   *)
(* key belongs to one reader, and an answer is the one on the screen       *)
(* (composer.rs, slash_menu.rs, at_menu.rs, control.rs).                   *)
THEOREM ComposerKept == ComposerSpec => []ComposerSound
  BY ComposerInitially, ComposerStepKeeps, ComposerSafe, PTL DEF ComposerSpec


-----------------------------------------------------------------------------
(* The trajectory view. *)

LedgerSpec == LedgerInit /\ [][LedgerNext]_ledgerVars

(* A log is a sequence of rows. *)
Logs == Seq(RowKinds)

(* The starts of turns that row i may be under. *)
OpenAt(log, i) == {s \in 1 .. i : log[s] = "start" /\ \A e \in s .. i - 1 : log[e] # "end"}
SeenAt(log, i) == {e \in 1 .. i : log[e] = "envelope"}

LEMMA LargestOf ==
    ASSUME NEW n \in Nat, NEW S, S \subseteq 1 .. n, S # {}
    PROVE  /\ Max(S) \in S /\ \A y \in S : y <= Max(S)
           /\ \A x \in S : (\A y \in S : y <= x) => Max(S) = x
<1>1. S \subseteq Nat
  OBVIOUS
<1>2. \E x \in S : \A y \in S : x >= y
  BY LastOf
<1>3. Max(S) \in S /\ \A y \in S : Max(S) >= y
  BY <1>2 DEF Max
<1>4. ASSUME NEW x \in S, \A y \in S : y <= x PROVE Max(S) = x
  <2>1. Max(S) <= x /\ x <= Max(S) /\ x \in Nat /\ Max(S) \in Nat
    BY <1>1, <1>3, <1>4
  <2>2. QED
    BY <2>1
<1>5. QED
  BY <1>1, <1>3, <1>4

LEMMA TurnIs == ASSUME NEW log, NEW i PROVE TurnAt(log, i) = IF OpenAt(log, i) = {} THEN None ELSE Max(OpenAt(log, i))
<1>1. OpenAt(log, i) = {s \in {t \in 1 .. i : log[t] = "start"} : \A e \in s .. i - 1 : log[e] # "end"}
  BY DEF OpenAt
<1>2. QED
  BY <1>1 DEF TurnAt

(* The turn a row is under follows from the one before it. *)
LEMMA TurnSteps ==
    ASSUME NEW log \in Logs, NEW i \in 1 .. Len(log)
    PROVE  TurnAt(log, i) = IF log[i] = "start" THEN i
                            ELSE IF i > 1 /\ log[i - 1] = "end" THEN None
                            ELSE TurnAt(log, i - 1)
<1> DEFINE now == OpenAt(log, i)
           was == OpenAt(log, i - 1)
<1>1. Len(log) \in Nat /\ i \in Nat /\ i >= 1 /\ i - 1 \in Nat
  BY LenProperties
<1>2. now \subseteq 1 .. i /\ was \subseteq 1 .. i - 1
  BY DEF OpenAt
<1>3. CASE log[i] = "start"
  <2>1. i \in now /\ \A y \in now : y <= i
    BY <1>1, <1>3 DEF OpenAt
  <2> HIDE DEF now
  <2>2. Max(now) = i
    BY <1>1, <1>2, <2>1, LargestOf
  <2>3. QED
    BY <1>3, <2>1, <2>2, TurnIs DEF now
<1>4. CASE log[i] # "start" /\ i > 1 /\ log[i - 1] = "end"
  <2>1. \A s \in now : s <= i - 1
    BY <1>1, <1>4 DEF OpenAt
  <2>2. \A s \in now : i - 1 \in s .. i - 1
    BY <1>1, <2>1, <1>2
  <2>3. now = {}
    BY <1>4, <2>2 DEF OpenAt
  <2>4. QED
    BY <1>4, <2>3, TurnIs
<1>5. CASE log[i] # "start" /\ ~(i > 1 /\ log[i - 1] = "end")
  <2>1. ASSUME NEW s \in now PROVE s \in was
    <3>1. s \in 1 .. i /\ log[s] = "start" /\ \A e \in s .. i - 1 : log[e] # "end"
      BY DEF OpenAt
    <3>2. s \in 1 .. i - 1 /\ \A e \in s .. (i - 1) - 1 : e \in s .. i - 1
      BY <1>1, <1>5, <3>1
    <3>3. QED
      BY <3>1, <3>2 DEF OpenAt
  <2>2. ASSUME NEW s \in was PROVE s \in now
    <3>1. s \in 1 .. i - 1 /\ log[s] = "start" /\ \A e \in s .. (i - 1) - 1 : log[e] # "end"
      BY DEF OpenAt
    <3>2. s \in 1 .. i /\ i > 1 /\ \A e \in s .. i - 1 : e = i - 1 \/ e \in s .. (i - 1) - 1
      BY <1>1, <3>1
    <3>3. QED
      BY <1>5, <3>1, <3>2 DEF OpenAt
  <2>3. now = was
    BY <2>1, <2>2
  <2>4. QED
    BY <1>5, <2>3, TurnIs
<1>6. QED
  BY <1>3, <1>4, <1>5

LEMMA TurnAtNothing == ASSUME NEW log PROVE TurnAt(log, 0) = None
<1>1. OpenAt(log, 0) = {}
  BY DEF OpenAt
<1>2. QED
  BY <1>1, TurnIs

(* What is carried down a log is what holds at each row. *)
LEMMA TurnIsCarried ==
    ASSUME NEW log \in Logs
    PROVE  \A i \in 1 .. Len(log) : CarryTurn(log)[i] = TurnAt(log, i)
<1> DEFINE n == Len(log)
           step(f, j) == IF j = 0 THEN None
                         ELSE IF log[j] = "start" THEN j
                         ELSE IF j > 1 /\ log[j - 1] = "end" THEN None
                         ELSE f[j - 1]
           turn == CHOOSE f : f = [j \in 0 .. n |-> step(f, j)]
           known == [j \in 0 .. n |-> TurnAt(log, j)]
<1>1. n \in Nat
  BY LenProperties
<1>2. CarryTurn(log) = turn
  BY DEF CarryTurn
<1>3. ASSUME NEW j \in 0 .. n, j # 0 PROVE j \in 1 .. n /\ j - 1 \in 0 .. n
  BY <1>1, <1>3
<1>4. ASSUME NEW j \in 0 .. n PROVE known[j] = step(known, j)
  <2>1. CASE j = 0
    BY <2>1, TurnAtNothing
  <2>2. CASE j # 0
    <3>1. j \in 1 .. n /\ j - 1 \in 0 .. n
      BY <1>3, <2>2
    <3>2. known[j - 1] = TurnAt(log, j - 1) /\ known[j] = TurnAt(log, j)
      BY <3>1
    <3>3. QED
      BY <2>2, <3>1, <3>2, TurnSteps
  <2>3. QED
    BY <2>1, <2>2
<1>5. known = [j \in 0 .. n |-> step(known, j)]
  BY <1>4
<1>6. turn = [j \in 0 .. n |-> step(turn, j)]
  <2> HIDE DEF known, n
  <2>1. \E f : f = [j \in 0 .. n |-> step(f, j)]
    BY <1>5
  <2>2. QED
    BY <2>1
<1> HIDE DEF turn
<1> DEFINE S == {j \in 0 .. n : turn[j] = TurnAt(log, j)}
<1>7. 0 \in S
  <2>1. 0 \in 0 .. n
    BY <1>1
  <2>2. QED
    BY <1>6, <2>1, TurnAtNothing
<1>8. ASSUME NEW m \in 1 .. n, m - 1 \in S PROVE m \in S
  <2>1. m \in 0 .. n /\ m # 0
    BY <1>1
  <2>2. turn[m] = step(turn, m) /\ turn[m - 1] = TurnAt(log, m - 1)
    BY <1>6, <1>8, <2>1
  <2>3. QED
    BY <2>1, <2>2, TurnSteps
<1>9. 0 .. n \subseteq S
  <2> HIDE DEF S, n
  <2>1. QED
    BY <1>1, <1>7, <1>8, UpTo
<1>10. QED
  BY <1>1, <1>2, <1>9

LEMMA EnvelopeIs ==
    ASSUME NEW log, NEW i
    PROVE  EnvelopeAt(log, i) = IF SeenAt(log, i) = {} THEN None ELSE Max(SeenAt(log, i))
  BY DEF EnvelopeAt, SeenAt

LEMMA EnvelopeSteps ==
    ASSUME NEW log \in Logs, NEW i \in 1 .. Len(log)
    PROVE  EnvelopeAt(log, i) = IF log[i] = "envelope" THEN i ELSE EnvelopeAt(log, i - 1)
<1> DEFINE now == SeenAt(log, i)
           was == SeenAt(log, i - 1)
<1>1. Len(log) \in Nat /\ i \in Nat /\ i >= 1 /\ i - 1 \in Nat
  BY LenProperties
<1>2. now \subseteq 1 .. i /\ was \subseteq 1 .. i - 1
  BY DEF SeenAt
<1>3. CASE log[i] = "envelope"
  <2>1. i \in now /\ \A y \in now : y <= i
    BY <1>1, <1>3 DEF SeenAt
  <2> HIDE DEF now
  <2>2. Max(now) = i
    BY <1>1, <1>2, <2>1, LargestOf
  <2>3. QED
    BY <1>3, <2>1, <2>2, EnvelopeIs DEF now
<1>4. CASE log[i] # "envelope"
  <2>1. \A s \in 1 .. i : s = i \/ s \in 1 .. i - 1
    BY <1>1
  <2>2. now = was
    BY <1>1, <1>4, <2>1 DEF SeenAt
  <2>3. QED
    BY <1>4, <2>2, EnvelopeIs
<1>5. QED
  BY <1>3, <1>4

LEMMA EnvelopeAtNothing == ASSUME NEW log PROVE EnvelopeAt(log, 0) = None
<1>1. SeenAt(log, 0) = {}
  BY DEF SeenAt
<1>2. QED
  BY <1>1, EnvelopeIs

LEMMA EnvelopeIsCarried ==
    ASSUME NEW log \in Logs
    PROVE  \A i \in 1 .. Len(log) : CarryEnvelope(log)[i] = EnvelopeAt(log, i)
<1> DEFINE n == Len(log)
           step(f, j) == IF j = 0 THEN None ELSE IF log[j] = "envelope" THEN j ELSE f[j - 1]
           carried == CHOOSE f : f = [j \in 0 .. n |-> step(f, j)]
           known == [j \in 0 .. n |-> EnvelopeAt(log, j)]
<1>1. n \in Nat
  BY LenProperties
<1>2. CarryEnvelope(log) = carried
  BY DEF CarryEnvelope
<1>3. ASSUME NEW j \in 0 .. n, j # 0 PROVE j \in 1 .. n /\ j - 1 \in 0 .. n
  BY <1>1, <1>3
<1>4. ASSUME NEW j \in 0 .. n PROVE known[j] = step(known, j)
  <2>1. CASE j = 0
    BY <2>1, EnvelopeAtNothing
  <2>2. CASE j # 0
    <3>1. j \in 1 .. n /\ j - 1 \in 0 .. n
      BY <1>3, <2>2
    <3>2. known[j - 1] = EnvelopeAt(log, j - 1) /\ known[j] = EnvelopeAt(log, j)
      BY <3>1
    <3>3. QED
      BY <2>2, <3>1, <3>2, EnvelopeSteps
  <2>3. QED
    BY <2>1, <2>2
<1>5. known = [j \in 0 .. n |-> step(known, j)]
  BY <1>4
<1>6. carried = [j \in 0 .. n |-> step(carried, j)]
  <2> HIDE DEF known, n
  <2>1. \E f : f = [j \in 0 .. n |-> step(f, j)]
    BY <1>5
  <2>2. QED
    BY <2>1
<1> HIDE DEF carried
<1> DEFINE S == {j \in 0 .. n : carried[j] = EnvelopeAt(log, j)}
<1>7. 0 \in S
  <2>1. 0 \in 0 .. n
    BY <1>1
  <2>2. QED
    BY <1>6, <2>1, EnvelopeAtNothing
<1>8. ASSUME NEW m \in 1 .. n, m - 1 \in S PROVE m \in S
  <2>1. m \in 0 .. n /\ m # 0
    BY <1>1
  <2>2. carried[m] = step(carried, m) /\ carried[m - 1] = EnvelopeAt(log, m - 1)
    BY <1>6, <1>8, <2>1
  <2>3. QED
    BY <2>1, <2>2, EnvelopeSteps
<1>9. 0 .. n \subseteq S
  <2> HIDE DEF S, n
  <2>1. QED
    BY <1>1, <1>7, <1>8, UpTo
<1>10. QED
  BY <1>1, <1>2, <1>9

(* Both stay when the log grows. *)
LEMMA OldRowsStay ==
    ASSUME NEW log \in Logs, NEW k \in RowKinds, NEW i \in 1 .. Len(log)
    PROVE  /\ TurnAt(Append(log, k), i) = TurnAt(log, i)
           /\ EnvelopeAt(Append(log, k), i) = EnvelopeAt(log, i)
           /\ i \in 1 .. Len(Append(log, k))
<1> DEFINE l == Append(log, k)
<1>1. /\ Len(log) \in Nat /\ Len(l) = Len(log) + 1 /\ \A j \in 1 .. Len(log) : l[j] = log[j]
  BY LenProperties, AppendProperties
<1> HIDE DEF l
<1>2. \A j \in 1 .. i : l[j] = log[j]
  BY <1>1
<1>3. ASSUME NEW s \in 1 .. i PROVE \A e \in s .. i - 1 : l[e] = log[e]
  BY <1>1, <1>2
<1>4. OpenAt(l, i) = OpenAt(log, i)
  BY <1>2, <1>3 DEF OpenAt
<1>5. SeenAt(l, i) = SeenAt(log, i)
  BY <1>2 DEF SeenAt
<1>6. i \in 1 .. Len(l)
  BY <1>1
<1>7. QED
  BY <1>4, <1>5, <1>6, TurnIs, EnvelopeIs DEF l
-----------------------------------------------------------------------------
(* A row that is under the turn and the envelope its log puts it in. *)
RowTrue(r, log, E) ==
    /\ r.seq \in 1 .. Len(log)
    /\ r.turn = TurnAt(log, r.seq) /\ r.env = EnvelopeAt(log, r.seq)
    /\ r.env # None => r.env \in E
RowsTrue(rs, log, E) ==
    /\ IsSequence(rs)
    /\ \A i, j \in 1 .. Len(rs) : i < j => rs[i].seq < rs[j].seq
    /\ \A i \in 1 .. Len(rs) : RowTrue(rs[i], log, E)

AsksFit ==
    /\ IsSequence(pageAsks) /\ more \in Nat
    /\ \A k \in 1 .. Len(pageAsks) : pageAsks[k].of \in Books /\ pageAsks[k].from \in Nat \ {0}
PageTrue(p, bs) ==
    /\ p.of \in Books /\ p.page.next \in Nat
    /\ RowsTrue(p.page.rows, bs[p.of], p.page.envs)
PagesTrue == IsSequence(pages) /\ \A k \in 1 .. Len(pages) : PageTrue(pages[k], books)
BooksFit == books \in [Books -> Logs] /\ openBook \in Books

(* The inductive invariant. *)
LedgerInv == BooksFit /\ AsksFit /\ PagesTrue /\ RowsTrue(lines, books[openBook], envs)

LEMMA NoRows == ASSUME NEW log, NEW E PROVE RowsTrue(<<>>, log, E)
<1>1. IsSequence(<<>>) /\ Len(<<>>) = 0
  BY EmptyIsSequence
<1>2. QED
  BY <1>1 DEF RowsTrue

(* What a page holds. *)
LEMMA PageFacts ==
    ASSUME NEW log \in Logs, NEW from \in Nat \ {0}
    PROVE  RowsTrue(Page(log, from).rows, log, Page(log, from).envs) /\ Page(log, from).next \in Nat
<1> DEFINE upto == Min({Len(log), from + PageSize - 1})
           m == upto - from + 1
           rows == [k \in 1 .. m |-> LineOf(log, from + k - 1)]
           held == {rows[k].env : k \in DOMAIN rows} \ {None}
<1>1. Len(log) \in Nat /\ PageSize \in Nat
  BY LenProperties, LedgerAssumption
<1>2. upto \in Int /\ upto <= Len(log) /\ (upto = Len(log) \/ upto = from + PageSize - 1)
  <2> DEFINE a == Len(log)
             b == from + PageSize - 1
  <2>1. a \in Int /\ b \in Int
    BY <1>1
  <2> HIDE DEF a, b
  <2>2. \E x \in {a, b} : \A y \in {a, b} : x <= y
    <3>1. CASE a <= b
      BY <2>1, <3>1
    <3>2. CASE b <= a
      BY <2>1, <3>2
    <3>3. QED
      BY <2>1, <3>1, <3>2
  <2>3. Min({a, b}) \in {a, b} /\ \A y \in {a, b} : Min({a, b}) <= y
    BY <2>2 DEF Min
  <2>4. QED
    BY <2>1, <2>3 DEF a, b
<1>3. upto \in Nat \/ m <= 0
  BY <1>1, <1>2
<1> HIDE DEF upto
<1>4. /\ Page(log, from).rows = rows /\ Page(log, from).envs = held
      /\ Page(log, from).next = IF upto < Len(log) THEN upto + 1 ELSE None
  BY DEF Page, upto
<1>5. Page(log, from).next \in Nat
  <2>1. ASSUME upto < Len(log) PROVE upto + 1 \in Nat
    BY <1>1, <1>2, <2>1
  <2>2. QED
    BY <1>4, <2>1 DEF None
<1>6. m \in Int /\ \A k \in 1 .. m : from + k - 1 \in 1 .. Len(log)
  BY <1>1, <1>2
<1> HIDE DEF m
<1>7. /\ DOMAIN rows = 1 .. m
      /\ \A k \in 1 .. m : /\ rows[k].seq = from + k - 1
                           /\ rows[k].turn = TurnAt(log, from + k - 1)
                           /\ rows[k].env = EnvelopeAt(log, from + k - 1)
  BY <1>6, TurnIsCarried, EnvelopeIsCarried DEF LineOf
<1>8. IsSequence(rows) /\ Len(rows) = IF m \in Nat THEN m ELSE 0
  <2>1. CASE m \in Nat
    <3> DEFINE T == {rows[k] : k \in 1 .. m}
    <3>1. rows \in [1 .. m -> T]
      BY <1>7
    <3> HIDE DEF rows, T
    <3>2. rows \in Seq(T) /\ Len(rows) = m
      BY <2>1, <3>1, FunctionIsSeq
    <3>3. QED
      BY <2>1, <3>2 DEF IsSequence
  <2>2. CASE m \notin Nat
    <3>1. 1 .. m = {} /\ 1 .. 0 = {}
      BY <1>6, <2>2
    <3>2. rows = <<>>
      BY <3>1
    <3>3. QED
      BY <2>2, <3>2, EmptyIsSequence
  <2>3. QED
    BY <2>1, <2>2
<1>9. \A k \in 1 .. m : rows[k].env # None => rows[k].env \in held
  BY <1>7
<1> HIDE DEF rows, held
<1>10. ASSUME NEW i \in 1 .. Len(rows) PROVE i \in 1 .. m
  BY <1>6, <1>8
<1>11. ASSUME NEW i \in 1 .. Len(rows) PROVE RowTrue(rows[i], log, held)
  <2>1. i \in 1 .. m
    BY <1>10
  <2>2. QED
    BY <1>6, <1>7, <1>9, <2>1 DEF RowTrue
<1>12. ASSUME NEW i \in 1 .. Len(rows), NEW j \in 1 .. Len(rows), i < j PROVE rows[i].seq < rows[j].seq
  <2>1. i \in 1 .. m /\ j \in 1 .. m /\ i \in Nat /\ j \in Nat
    BY <1>10, <1>6
  <2>2. from + i - 1 < from + j - 1
    BY <1>12, <2>1
  <2>3. QED
    BY <1>7, <2>1, <2>2
<1>13. RowsTrue(rows, log, held)
  BY <1>8, <1>11, <1>12 DEF RowsTrue
<1>14. QED
  BY <1>4, <1>5, <1>13

(* Rows stay true while their log grows. *)
LEMMA GrowthKeeps ==
    ASSUME NEW log \in Logs, NEW k \in RowKinds, NEW rs, NEW E, RowsTrue(rs, log, E)
    PROVE  RowsTrue(rs, Append(log, k), E)
<1>1. ASSUME NEW i \in 1 .. Len(rs) PROVE RowTrue(rs[i], Append(log, k), E)
  <2>1. RowTrue(rs[i], log, E)
    BY DEF RowsTrue
  <2>2. QED
    BY <2>1, OldRowsStay DEF RowTrue
<1>2. QED
  BY <1>1 DEF RowsTrue

(* A page takes the place of what it overlaps. *)
LEMMA LandingKeeps ==
    ASSUME NEW log, NEW E, NEW rs, NEW E2, RowsTrue(lines, log, E), RowsTrue(rs, log, E2)
    PROVE  RowsTrue((IF rs = <<>> THEN lines
                     ELSE Picked(lines, {i \in DOMAIN lines : lines[i].seq < rs[1].seq})) \o rs, log, E \cup E2)
<1> DEFINE at == {i \in DOMAIN lines : lines[i].seq < rs[1].seq}
           kept == IF rs = <<>> THEN lines ELSE Picked(lines, at)
           out == kept \o rs
<1>1. IsSequence(rs) /\ IsSequence(lines) /\ Len(rs) \in Nat
  BY SequenceLength DEF RowsTrue
<1>2. /\ IsSequence(kept)
      /\ \A i \in 1 .. Len(kept) : RowTrue(kept[i], log, E)
      /\ \A i, j \in 1 .. Len(kept) : i < j => kept[i].seq < kept[j].seq
      /\ rs # <<>> => \A i \in 1 .. Len(kept) : kept[i].seq < rs[1].seq
  <2>1. CASE rs = <<>>
    BY <1>1, <2>1 DEF RowsTrue
  <2>2. CASE rs # <<>>
    <3>1. PICK S : lines \in Seq(S)
      BY <1>1 DEF IsSequence
    <3>2. at \subseteq DOMAIN lines /\ DOMAIN lines = 1 .. Len(lines)
      BY <3>1
    <3>3. /\ Picked(lines, at) \in Seq(S)
          /\ \E f : /\ Lists(f, at, Len(Picked(lines, at)))
                    /\ \A k \in 1 .. Len(Picked(lines, at)) : Picked(lines, at)[k] = lines[f[k]]
      <4> HIDE DEF at
      <4>1. QED
        BY <3>1, <3>2, PickedIsListed
    <3>4. kept = Picked(lines, at)
      BY <2>2
    <3> HIDE DEF kept
    <3>5. PICK f : /\ Lists(f, at, Len(kept)) /\ \A k \in 1 .. Len(kept) : kept[k] = lines[f[k]]
      BY <3>3, <3>4
    <3>6. \A k \in 1 .. Len(kept) : f[k] \in at /\ f[k] \in 1 .. Len(lines) /\ lines[f[k]].seq < rs[1].seq
      BY <3>2, <3>5 DEF Lists
    <3>7. \A a, b \in 1 .. Len(kept) : a < b => f[a] < f[b]
      BY <3>5 DEF Lists
    <3>8. IsSequence(kept)
      BY <3>3, <3>4 DEF IsSequence
    <3>9. QED
      BY <3>5, <3>6, <3>7, <3>8 DEF RowsTrue
  <2>3. QED
    BY <2>1, <2>2
<1> HIDE DEF kept
<1> DEFINE n == Len(kept)
<1>3. JoinOf(out, kept, rs)
  BY <1>1, <1>2, ConcatAre
<1> HIDE DEF out
<1>4. ASSUME NEW i \in 1 .. Len(out)
      PROVE  \/ i \in 1 .. n /\ out[i] = kept[i]
             \/ i - n \in 1 .. Len(rs) /\ i > n /\ out[i] = rs[i - n]
  <2>1. n \in Nat /\ Len(out) = n + Len(rs) /\ Len(rs) \in Nat
    BY <1>3 DEF JoinOf
  <2>2. i \in 1 .. n \/ (i - n \in 1 .. Len(rs) /\ i > n /\ n + (i - n) = i)
    BY <2>1
  <2>3. QED
    BY <1>3, <2>2 DEF JoinOf
<1>5. ASSUME NEW r, RowTrue(r, log, E) \/ RowTrue(r, log, E2) PROVE RowTrue(r, log, E \cup E2)
  BY <1>5 DEF RowTrue
<1>6. ASSUME NEW i \in 1 .. Len(out) PROVE RowTrue(out[i], log, E \cup E2)
  BY <1>2, <1>4, <1>5 DEF RowsTrue
<1>7. n \in Nat
  BY <1>3 DEF JoinOf
<1>8. ASSUME NEW k \in 1 .. Len(rs) PROVE rs[k].seq \in Nat /\ rs[1].seq \in Nat /\ rs[1].seq <= rs[k].seq
  <2>1. 1 \in 1 .. Len(rs) /\ k \in Nat /\ (k = 1 \/ 1 < k)
    BY <1>1
  <2>2. rs[k].seq \in 1 .. Len(log) /\ rs[1].seq \in 1 .. Len(log)
    BY <2>1 DEF RowsTrue, RowTrue
  <2>3. k = 1 \/ rs[1].seq < rs[k].seq
    BY <2>1 DEF RowsTrue
  <2>4. rs[k].seq \in Nat /\ rs[1].seq \in Nat
    BY <2>2
  <2>5. QED
    BY <2>3, <2>4
<1>9. ASSUME NEW i \in 1 .. Len(out), NEW j \in 1 .. Len(out), i < j PROVE out[i].seq < out[j].seq
  <2>1. CASE j \in 1 .. n /\ out[j] = kept[j]
    <3>1. i \in 1 .. n
      BY <1>7, <1>9, <2>1
    <3>2. out[i] = kept[i]
      BY <1>4, <1>7, <3>1
    <3>3. QED
      BY <1>2, <1>9, <2>1, <3>1, <3>2
  <2>2. CASE j - n \in 1 .. Len(rs) /\ j > n /\ out[j] = rs[j - n]
    <3>1. CASE i \in 1 .. n /\ out[i] = kept[i]
      <4>1. rs # <<>>
        BY <1>1, <2>2
      <4>2. kept[i].seq < rs[1].seq /\ rs[1].seq <= rs[j - n].seq /\ rs[1].seq \in Nat /\ rs[j - n].seq \in Nat
        BY <1>2, <1>8, <2>2, <3>1, <4>1
      <4>3. kept[i].seq \in Nat
        <5>1. kept[i].seq \in 1 .. Len(log)
          BY <1>2, <3>1 DEF RowTrue
        <5>2. QED
          BY <5>1
      <4>4. QED
        BY <2>2, <3>1, <4>2, <4>3
    <3>2. CASE i - n \in 1 .. Len(rs) /\ i > n /\ out[i] = rs[i - n]
      <4>1. i - n < j - n
        BY <1>7, <1>9, <2>2, <3>2
      <4>2. QED
        BY <2>2, <3>2, <4>1 DEF RowsTrue
    <3>3. QED
      BY <1>4, <3>1, <3>2
  <2>3. QED
    BY <1>4, <2>1, <2>2
<1>10. IsSequence(out)
  BY <1>3 DEF JoinOf
<1>11. RowsTrue(out, log, E \cup E2)
  BY <1>6, <1>9, <1>10 DEF RowsTrue
<1>12. QED
  BY <1>11 DEF out, kept
LEMMA LedgerInitially == LedgerInit => LedgerInv
<1> SUFFICES ASSUME LedgerInit PROVE LedgerInv
  OBVIOUS
<1>1. IsSequence(<<>>) /\ Len(<<>>) = 0
  BY EmptyIsSequence
<1>2. <<>> \in Logs
  BY DEF Logs
<1>3. BooksFit
  BY <1>2 DEF LedgerInit, BooksFit
<1>4. AsksFit /\ PagesTrue
  BY <1>1 DEF LedgerInit, AsksFit, PagesTrue, None
<1>5. RowsTrue(lines, books[openBook], envs)
  BY NoRows DEF LedgerInit
<1>6. QED
  BY <1>3, <1>4, <1>5 DEF LedgerInv

LEMMA LogGrowsKeeps == ASSUME LedgerInv, NEW b \in Books, NEW k \in RowKinds, LogGrows(b, k) PROVE LedgerInv'
<1>1. /\ books' = [books EXCEPT ![b] = Append(@, k)]
      /\ UNCHANGED <<openBook, lines, envs, more, pageAsks, pages>>
  BY DEF LogGrows
<1>2. BooksFit /\ \A c \in Books : books[c] \in Logs
  BY DEF LedgerInv, BooksFit
<1>3. BooksFit'
  <2>1. Append(books[b], k) \in Logs
    BY <1>2, AppendProperties DEF Logs
  <2>2. QED
    BY <1>1, <1>2, <2>1 DEF BooksFit
<1>4. ASSUME NEW c \in Books, NEW rs, NEW E, RowsTrue(rs, books[c], E) PROVE RowsTrue(rs, books'[c], E)
  <2>1. books'[c] = IF c = b THEN Append(books[b], k) ELSE books[c]
    BY <1>1, <1>2 DEF BooksFit
  <2>2. QED
    BY <1>2, <1>4, <2>1, GrowthKeeps
<1>5. AsksFit'
  BY <1>1 DEF LedgerInv, AsksFit
<1>6. PagesTrue'
  BY <1>1, <1>4 DEF LedgerInv, PagesTrue, PageTrue
<1>7. RowsTrue(lines, books[openBook], envs)'
  <2>1. RowsTrue(lines, books[openBook], envs)
    BY DEF LedgerInv
  <2>2. RowsTrue(lines, books'[openBook], envs)
    BY <1>2, <1>4, <2>1 DEF BooksFit
  <2>3. QED
    BY <1>1, <2>2
<1>8. QED
  BY <1>3, <1>5, <1>6, <1>7 DEF LedgerInv

LEMMA BackendPagesKeeps == ASSUME LedgerInv, BackendPages PROVE LedgerInv'
<1> DEFINE a == Head(pageAsks)
           p == [of |-> a.of, page |-> Page(books[a.of], a.from)]
<1>1. /\ pageAsks # <<>> /\ pageAsks' = Tail(pageAsks) /\ pages' = Append(pages, p)
      /\ UNCHANGED <<books, openBook, lines, envs, more>>
  BY DEF BackendPages
<1>2. IsSequence(pageAsks) /\ IsSequence(pages)
  BY DEF LedgerInv, AsksFit, PagesTrue
<1>3. PICK S : pageAsks \in Seq(S)
  BY <1>2 DEF IsSequence
<1>4. /\ 1 \in 1 .. Len(pageAsks) /\ a = pageAsks[1] /\ pageAsks' \in Seq(S)
      /\ \A k \in 1 .. Len(pageAsks') : k + 1 \in 1 .. Len(pageAsks) /\ pageAsks'[k] = pageAsks[k + 1]
  BY <1>1, <1>3
<1> HIDE DEF a
<1>5. a.of \in Books /\ a.from \in Nat \ {0} /\ AsksFit'
  BY <1>1, <1>4 DEF LedgerInv, AsksFit, IsSequence
<1>6. p.of = a.of /\ p.page = Page(books[a.of], a.from)
  OBVIOUS
<1>7. PageTrue(p, books)
  <2>1. books[a.of] \in Logs
    BY <1>5 DEF LedgerInv, BooksFit
  <2>2. QED
    BY <1>5, <1>6, <2>1, PageFacts DEF PageTrue
<1> HIDE DEF p
<1>8. PagesTrue'
  <2>1. /\ IsSequence(pages') /\ Len(pages') = Len(pages) + 1 /\ Len(pages) \in Nat
        /\ \A k \in 1 .. Len(pages) : pages'[k] = pages[k]
        /\ pages'[Len(pages) + 1] = p
    BY <1>1, <1>2, LongerSequence
  <2>2. ASSUME NEW k \in 1 .. Len(pages') PROVE PageTrue(pages'[k], books)
    <3>1. k \in 1 .. Len(pages) \/ k = Len(pages) + 1
      BY <2>1
    <3>2. QED
      BY <1>7, <2>1, <3>1 DEF LedgerInv, PagesTrue
  <2>3. QED
    BY <1>1, <2>1, <2>2 DEF PagesTrue
<1>9. QED
  BY <1>1, <1>5, <1>8 DEF LedgerInv, BooksFit

LEMMA MoveToKeeps == ASSUME LedgerInv, NEW b \in Books, MoveTo(b) PROVE LedgerInv'
<1>1. /\ openBook' = b /\ lines' = <<>> /\ envs' = {} /\ more' = None
      /\ UNCHANGED <<books, pageAsks, pages>>
  BY DEF MoveTo
<1>2. BooksFit' /\ AsksFit' /\ PagesTrue'
  BY <1>1 DEF LedgerInv, BooksFit, AsksFit, PagesTrue, None
<1>3. RowsTrue(lines, books[openBook], envs)'
  BY <1>1, NoRows
<1>4. QED
  BY <1>2, <1>3 DEF LedgerInv

LEMMA AskKeeps ==
    ASSUME LedgerInv, NEW from \in Nat \ {0}, Ask(from), more' \in Nat
    PROVE  AsksFit'
<1> DEFINE q == [of |-> openBook, from |-> from]
<1>1. pageAsks' = Append(pageAsks, q) /\ q.of \in Books /\ q.from \in Nat \ {0}
  BY DEF Ask, LedgerInv, BooksFit
<1> HIDE DEF q
<1>2. /\ IsSequence(pageAsks') /\ Len(pageAsks') = Len(pageAsks) + 1 /\ Len(pageAsks) \in Nat
      /\ \A k \in 1 .. Len(pageAsks) : pageAsks'[k] = pageAsks[k]
      /\ pageAsks'[Len(pageAsks) + 1] = q
  BY <1>1, LongerSequence DEF LedgerInv, AsksFit
<1>3. ASSUME NEW k \in 1 .. Len(pageAsks') PROVE pageAsks'[k].of \in Books /\ pageAsks'[k].from \in Nat \ {0}
  <2>1. k \in 1 .. Len(pageAsks) \/ k = Len(pageAsks) + 1
    BY <1>2
  <2>2. QED
    BY <1>1, <1>2, <2>1 DEF LedgerInv, AsksFit
<1>4. QED
  BY <1>2, <1>3 DEF AsksFit

LEMMA LoadTrajectoryKeeps == ASSUME LedgerInv, NEW reset \in BOOLEAN, LoadTrajectory(reset) PROVE LedgerInv'
<1> DEFINE fresh == reset \/ ledgerOf # openBook
<1>1. UNCHANGED <<books, openBook, pages>>
  BY DEF LoadTrajectory
<1>2. BooksFit' /\ PagesTrue' /\ more \in Nat
  BY <1>1 DEF LedgerInv, BooksFit, PagesTrue, AsksFit
<1>3. CASE fresh
  <2>1. lines' = <<>> /\ envs' = {} /\ more' = None /\ Ask(1)
    BY <1>3 DEF LoadTrajectory
  <2>2. AsksFit'
    BY <2>1, AskKeeps DEF None
  <2>3. RowsTrue(lines, books[openBook], envs)'
    BY <2>1, NoRows
  <2>4. QED
    BY <1>2, <2>2, <2>3 DEF LedgerInv
<1>4. CASE ~fresh
  <2>1. Ask(IF more = None THEN 1 ELSE more) /\ UNCHANGED <<lines, envs, more>>
    BY <1>4 DEF LoadTrajectory
  <2>2. AsksFit'
    <3> DEFINE from == IF more = None THEN 1 ELSE more
    <3>1. from \in Nat \ {0} /\ more' \in Nat /\ Ask(from)
      BY <1>2, <2>1 DEF None
    <3> HIDE DEF from
    <3>2. QED
      BY <3>1, AskKeeps
  <2>3. RowsTrue(lines, books[openBook], envs)'
    BY <1>1, <2>1 DEF LedgerInv
  <2>4. QED
    BY <1>2, <2>2, <2>3 DEF LedgerInv
<1>5. QED
  BY <1>3, <1>4

LEMMA PageArrivesKeeps == ASSUME LedgerInv, PageArrives PROVE LedgerInv'
<1> DEFINE p == Head(pages)
<1>1. pages # <<>> /\ pages' = Tail(pages) /\ UNCHANGED <<books, openBook, pageAsks>>
  BY DEF PageArrives
<1>2. PICK S : pages \in Seq(S)
  BY DEF LedgerInv, PagesTrue, IsSequence
<1>3. /\ 1 \in 1 .. Len(pages) /\ p = pages[1] /\ pages' \in Seq(S)
      /\ \A k \in 1 .. Len(pages') : k + 1 \in 1 .. Len(pages) /\ pages'[k] = pages[k + 1]
  BY <1>1, <1>2
<1>4. /\ IF p.of = openBook THEN PageLands(p.page) ELSE UNCHANGED <<lines, envs, more, ledgerOf>>
  BY DEF PageArrives
<1> HIDE DEF p
<1>5. PagesTrue' /\ PageTrue(p, books)
  BY <1>1, <1>3 DEF LedgerInv, PagesTrue, IsSequence
<1>6. BooksFit'
  BY <1>1 DEF LedgerInv, BooksFit
<1>7. AsksFit'
  <2>1. more' \in Nat
    BY <1>4, <1>5 DEF PageLands, PageTrue, LedgerInv, AsksFit
  <2>2. QED
    BY <1>1, <2>1 DEF LedgerInv, AsksFit
<1>8. RowsTrue(lines, books[openBook], envs)'
  <2>1. CASE p.of = openBook
    <3> DEFINE rs == p.page.rows
    <3>1. /\ lines' = (IF rs = <<>> THEN lines
                       ELSE Picked(lines, {i \in DOMAIN lines : lines[i].seq < rs[1].seq})) \o rs
          /\ envs' = envs \cup p.page.envs
      BY <1>4, <2>1 DEF PageLands
    <3>2. RowsTrue(lines, books[openBook], envs) /\ RowsTrue(rs, books[openBook], p.page.envs)
      BY <1>5, <2>1 DEF LedgerInv, PageTrue
    <3> HIDE DEF rs
    <3>3. RowsTrue(lines', books[openBook], envs')
      BY <3>1, <3>2, LandingKeeps
    <3>4. QED
      BY <1>1, <3>3
  <2>2. CASE p.of # openBook
    <3>1. UNCHANGED <<lines, envs>>
      BY <1>4, <2>2
    <3>2. QED
      BY <1>1, <3>1 DEF LedgerInv
  <2>3. QED
    BY <2>1, <2>2
<1>9. QED
  BY <1>5, <1>6, <1>7, <1>8 DEF LedgerInv

LEMMA LedgerStep == LedgerInv /\ [LedgerNext]_ledgerVars => LedgerInv'
<1> SUFFICES ASSUME LedgerInv, [LedgerNext]_ledgerVars PROVE LedgerInv'
  OBVIOUS
<1>1. CASE LedgerNext
  BY <1>1, MoveToKeeps, LogGrowsKeeps, LoadTrajectoryKeeps, BackendPagesKeeps, PageArrivesKeeps DEF LedgerNext
<1>2. CASE UNCHANGED ledgerVars
  BY <1>2 DEF ledgerVars, LedgerInv, BooksFit, AsksFit, PagesTrue
<1>3. QED
  BY <1>1, <1>2

LEMMA LedgerSafe == LedgerInv => LedgerFaithful
<1> SUFFICES ASSUME LedgerInv PROVE LedgerFaithful
  OBVIOUS
<1>1. RowsTrue(lines, books[openBook], envs)
  BY DEF LedgerInv
<1>2. DOMAIN lines = 1 .. Len(lines) /\ books[openBook] \in Logs
  BY <1>1, SequenceLength DEF RowsTrue, LedgerInv, BooksFit
<1>3. \A i \in 1 .. Len(lines) : lines[i].seq <= Len(books[openBook])
  BY <1>1 DEF RowsTrue, RowTrue
<1>4. QED
  BY <1>1, <1>2, <1>3 DEF RowsTrue, RowTrue, LedgerFaithful

(* The rows on screen are those of the open session's log, whatever pages, *)
(* reloads, moves and appends cross (trajectory.rs, app.rs).               *)
THEOREM LedgerKept == LedgerSpec => []LedgerFaithful
<1>1. LedgerInit => LedgerInv
  BY LedgerInitially
<1>2. LedgerInv => LedgerFaithful
  BY LedgerSafe
<1>3. QED
  BY <1>1, <1>2, LedgerStep, PTL DEF LedgerSpec


-----------------------------------------------------------------------------
(* What the desktop shows of the sessions. *)

MirrorSpec == MirrorInit /\ [][MirrorNext]_mirrorVars

(* Prompts that were sent to s. *)
OwnPrompts(q, s, ps) == q \in Seq(Nat \ {Echo}) /\ \A i \in 1 .. Len(q) : q[i] \in 1 .. Len(ps) /\ ps[q[i]] = s

(* What the queue of a session is drawn as: its prompts, then the echoes. *)
Echoed(d, q) ==
    /\ d \in Seq(Nat) /\ Len(q) <= Len(d)
    /\ \A i \in 1 .. Len(q) : d[i] = q[i]
    /\ \A i \in Len(q) + 1 .. Len(d) : d[i] = Echo

(* A turn of the session runs: one has started and not ended. *)
Runs(t) == t \in {"hop", "gap"}

LoadAsked(os, s) == \E k \in 1 .. Len(os) : os[k].req = "load" /\ os[k].tab = s
QueueSaid(w, d, s, q) ==
    \/ LatestIs(w, {"queue"}, s, Ev("queue", s, q))
    \/ Unsaid(w, {"queue"}, s) /\ Echoed(d, q)
BusySaid(w, s, t, B) ==
    \/ LatestIs(w, {"started", "usage"}, s, Ev("started", s, 0)) /\ Runs(t)
    \/ LatestIs(w, {"started", "usage"}, s, Ev("usage", s, 0)) /\ ~Runs(t)
    \/ Unsaid(w, {"started", "usage"}, s) /\ (s \in B <=> Runs(t))

TabsFit ==
    /\ prompts \in Seq(Tabs) /\ active \in Tabs /\ busyTabs \subseteq Tabs
    /\ turnOf \in [Tabs -> {"idle", "begun", "hop", "gap"}]
    /\ DOMAIN waiting = Tabs /\ \A s \in Tabs : OwnPrompts(waiting[s], s, prompts)
EventTrue(e, ps) == e.tab \in Tabs /\ (e.ev = "queue" => OwnPrompts(e.arg, e.tab, ps))
WireTrue == IsSequence(wire) /\ \A i \in 1 .. Len(wire) : EventTrue(wire[i], prompts)
OrderTrue(o, ps) ==
    /\ o.tab \in Tabs /\ o.req \in {"load", "send", "remove"}
    /\ o.req = "send" => o.prompt \in 1 .. Len(ps) /\ ps[o.prompt] = o.tab
OrdersTrue == IsSequence(orders) /\ \A i \in 1 .. Len(orders) : OrderTrue(orders[i], prompts)
DockOwn == dock \in Seq(Nat) /\ \A i \in 1 .. Len(dock) : dock[i] # Echo => dock[i] \in 1 .. Len(prompts) /\ prompts[dock[i]] = active
DockFollows == LoadAsked(orders, active) \/ QueueSaid(wire, dock, active, waiting[active])
BusyFollows == \A s \in Tabs : BusySaid(wire, s, turnOf[s], busyTabs)

(* The inductive invariant. *)
MirrorInv == TabsFit /\ WireTrue /\ OrdersTrue /\ DockOwn /\ DockFollows /\ BusyFollows

LEMMA EvIs == ASSUME NEW k, NEW s, NEW a PROVE Ev(k, s, a).ev = k /\ Ev(k, s, a).tab = s /\ Ev(k, s, a).arg = a
  BY DEF Ev

(* Which events count for what, of a session t. *)
LEMMA KindsBear ==
    ASSUME NEW k, NEW s \in Tabs, NEW a, NEW t \in Tabs
    PROVE  /\ Bears(Ev(k, s, a), {"queue"}, t) <=> k = "queue" /\ s = t
           /\ Bears(Ev(k, s, a), {"started", "usage"}, t) <=> k \in {"started", "usage"} /\ s = t
<1>1. t # 0
  BY MirrorAssumption DEF NoTab
<1>2. QED
  BY <1>1, EvIs DEF Bears

(* The wire with events sent on it. *)
LEMMA WireGrows ==
    ASSUME WireTrue, NEW es, IsSequence(es), NEW ps, ps = prompts,
           \A i \in 1 .. Len(es) : EventTrue(es[i], ps)
    PROVE  IsSequence(wire \o es) /\ \A i \in 1 .. Len(wire \o es) : EventTrue((wire \o es)[i], ps)
<1> DEFINE r == wire \o es
<1>1. JoinOf(r, wire, es)
  BY ConcatAre DEF WireTrue
<1> HIDE DEF r
<1>2. ASSUME NEW i \in 1 .. Len(r) PROVE EventTrue(r[i], ps)
  <2>1. \/ i \in 1 .. Len(wire) /\ r[i] = wire[i]
        \/ i - Len(wire) \in 1 .. Len(es) /\ r[i] = es[i - Len(wire)]
    <3>1. /\ Len(wire) \in Nat /\ Len(es) \in Nat /\ Len(r) = Len(wire) + Len(es)
      BY <1>1 DEF JoinOf
    <3>2. i \in 1 .. Len(wire) \/ (i - Len(wire) \in 1 .. Len(es) /\ Len(wire) + (i - Len(wire)) = i)
      BY <3>1
    <3>3. QED
      BY <1>1, <3>2 DEF JoinOf
  <2>2. QED
    BY <2>1 DEF WireTrue
<1>3. QED
  BY <1>1, <1>2 DEF JoinOf, r

(* Nothing said of the queue or of the turn leaves both as they were told. *)
LEMMA OthersKeep ==
    ASSUME WireTrue, NEW es, IsSequence(es), NEW s, NEW d, NEW q, NEW t, NEW B
    PROVE  /\ QueueSaid(wire, d, s, q) /\ Unsaid(es, {"queue"}, s) => QueueSaid(wire \o es, d, s, q)
           /\ BusySaid(wire, s, t, B) /\ Unsaid(es, {"started", "usage"}, s) => BusySaid(wire \o es, s, t, B)
<1>1. IsSequence(wire)
  BY DEF WireTrue
<1>2. ASSUME QueueSaid(wire, d, s, q), Unsaid(es, {"queue"}, s) PROVE QueueSaid(wire \o es, d, s, q)
  BY <1>1, <1>2, StreamGrows DEF QueueSaid
<1>3. ASSUME BusySaid(wire, s, t, B), Unsaid(es, {"started", "usage"}, s) PROVE BusySaid(wire \o es, s, t, B)
  BY <1>1, <1>3, StreamGrows DEF BusySaid
<1>4. QED
  BY <1>2, <1>3

(* Prompts stay whose they are as more are sent. *)
LEMMA PromptsStay ==
    ASSUME NEW ps \in Seq(Tabs), NEW x \in Tabs
    PROVE  /\ Append(ps, x) \in Seq(Tabs) /\ Len(Append(ps, x)) = Len(ps) + 1 /\ Len(ps) \in Nat
           /\ Append(ps, x)[Len(ps) + 1] = x
           /\ \A p \in 1 .. Len(ps) : p \in 1 .. Len(Append(ps, x)) /\ Append(ps, x)[p] = ps[p]
           /\ \A q, s : OwnPrompts(q, s, ps) => OwnPrompts(q, s, Append(ps, x))
           /\ \A e : EventTrue(e, ps) => EventTrue(e, Append(ps, x))
           /\ \A o : OrderTrue(o, ps) => OrderTrue(o, Append(ps, x))
<1> DEFINE r == Append(ps, x)
<1>1. /\ r \in Seq(Tabs) /\ Len(r) = Len(ps) + 1 /\ Len(ps) \in Nat /\ r[Len(ps) + 1] = x
      /\ \A p \in 1 .. Len(ps) : r[p] = ps[p]
  BY AppendProperties, LenProperties
<1> HIDE DEF r
<1>2. \A p \in 1 .. Len(ps) : p \in 1 .. Len(r)
  BY <1>1
<1>3. ASSUME NEW q, NEW s, OwnPrompts(q, s, ps) PROVE OwnPrompts(q, s, r)
  BY <1>1, <1>2, <1>3 DEF OwnPrompts
<1>4. ASSUME NEW e, EventTrue(e, ps) PROVE EventTrue(e, r)
  BY <1>3, <1>4 DEF EventTrue
<1>5. ASSUME NEW o, OrderTrue(o, ps) PROVE OrderTrue(o, r)
  BY <1>1, <1>2, <1>5 DEF OrderTrue
<1>6. QED
  BY <1>1, <1>2, <1>3, <1>4, <1>5 DEF r

(* An order more. *)
LEMMA OrdersGrow ==
    ASSUME OrdersTrue, NEW o, NEW ps, OrderTrue(o, ps),
           \A i \in 1 .. Len(orders) : OrderTrue(orders[i], ps)
    PROVE  /\ IsSequence(Append(orders, o))
           /\ \A i \in 1 .. Len(Append(orders, o)) : OrderTrue(Append(orders, o)[i], ps)
           /\ \A s : LoadAsked(orders, s) => LoadAsked(Append(orders, o), s)
           /\ o.req = "load" => LoadAsked(Append(orders, o), o.tab)
<1> DEFINE r == Append(orders, o)
           n == Len(orders)
<1>1. /\ IsSequence(r) /\ n \in Nat /\ Len(r) = n + 1 /\ r[n + 1] = o
      /\ \A i \in 1 .. n : r[i] = orders[i]
  BY LongerSequence DEF OrdersTrue
<1> HIDE DEF r
<1>2. ASSUME NEW i \in 1 .. Len(r) PROVE OrderTrue(r[i], ps)
  <2>1. i \in 1 .. n \/ i = n + 1
    BY <1>1
  <2>2. QED
    BY <1>1, <2>1
<1>3. ASSUME NEW s, LoadAsked(orders, s) PROVE LoadAsked(r, s)
  <2>1. PICK k \in 1 .. n : orders[k].req = "load" /\ orders[k].tab = s
    BY <1>3 DEF LoadAsked
  <2>2. k \in 1 .. Len(r) /\ r[k] = orders[k]
    BY <1>1
  <2>3. QED
    BY <2>1, <2>2 DEF LoadAsked
<1>4. ASSUME o.req = "load" PROVE LoadAsked(r, o.tab)
  <2>1. n + 1 \in 1 .. Len(r)
    BY <1>1
  <2>2. QED
    BY <1>1, <1>4, <2>1 DEF LoadAsked
<1>5. QED
  BY <1>1, <1>2, <1>3, <1>4 DEF r

(* The order at the head taken. *)
LEMMA OrdersShrink ==
    ASSUME OrdersTrue, orders # <<>>
    PROVE  /\ OrderTrue(Head(orders), prompts) /\ IsSequence(Tail(orders))
           /\ \A i \in 1 .. Len(Tail(orders)) : OrderTrue(Tail(orders)[i], prompts)
           /\ \A s : LoadAsked(orders, s) =>
                        LoadAsked(Tail(orders), s) \/ (Head(orders).req = "load" /\ Head(orders).tab = s)
<1> DEFINE r == Tail(orders)
<1>1. PICK S : orders \in Seq(S)
  BY DEF OrdersTrue, IsSequence
<1>2. /\ r \in Seq(S) /\ Len(orders) \in Nat /\ Len(orders) >= 1 /\ Len(r) = Len(orders) - 1
      /\ Head(orders) = orders[1] /\ \A i \in 1 .. Len(r) : r[i] = orders[i + 1]
  BY <1>1
<1> HIDE DEF r
<1>3. \A i \in 1 .. Len(r) : i + 1 \in 1 .. Len(orders)
  BY <1>2
<1>4. 1 \in 1 .. Len(orders)
  BY <1>2
<1>5. ASSUME NEW s, LoadAsked(orders, s), ~(Head(orders).req = "load" /\ Head(orders).tab = s)
      PROVE  LoadAsked(r, s)
  <2>1. PICK k \in 1 .. Len(orders) : orders[k].req = "load" /\ orders[k].tab = s
    BY <1>5 DEF LoadAsked
  <2>2. k # 1
    BY <1>2, <1>5, <2>1
  <2>3. k - 1 \in 1 .. Len(r) /\ (k - 1) + 1 = k
    BY <1>2, <2>2
  <2>4. r[k - 1] = orders[k]
    BY <1>2, <2>3
  <2>5. QED
    BY <2>1, <2>3, <2>4 DEF LoadAsked
<1>6. IsSequence(r)
  BY <1>2 DEF IsSequence
<1>7. QED
  BY <1>2, <1>3, <1>4, <1>5, <1>6 DEF OrdersTrue, r
-----------------------------------------------------------------------------
LEMMA NoEvents ==
    ASSUME WireTrue
    PROVE  /\ IsSequence(<<>>) /\ wire \o <<>> = wire /\ Len(<<>>) = 0
           /\ \A K, s : Unsaid(<<>>, K, s)
<1>1. PICK S : wire \in Seq(S)
  BY DEF WireTrue, IsSequence
<1>2. wire \o <<>> = wire
  BY <1>1
<1>3. Len(<<>>) = 0 /\ IsSequence(<<>>)
  BY EmptyIsSequence
<1>4. \A K, s : Unsaid(<<>>, K, s)
  BY <1>3 DEF Unsaid
<1>5. QED
  BY <1>2, <1>3, <1>4

(* A step of the backend that sends es, as far as the open session's queue *)
(* and the turns go.                                                       *)
QueueTold(es) ==
    \/ LatestIs(es, {"queue"}, active, Ev("queue", active, waiting'[active]))
    \/ /\ Unsaid(es, {"queue"}, active) /\ waiting'[active] = waiting[active]
       /\ LoadAsked(orders, active) => LoadAsked(orders', active)
TurnTold(es, s) ==
    \/ LatestIs(es, {"started", "usage"}, s, Ev("started", s, 0)) /\ Runs(turnOf'[s])
    \/ LatestIs(es, {"started", "usage"}, s, Ev("usage", s, 0)) /\ ~Runs(turnOf'[s])
    \/ Unsaid(es, {"started", "usage"}, s) /\ (Runs(turnOf'[s]) <=> Runs(turnOf[s]))

LEMMA TellingKeeps ==
    ASSUME MirrorInv, NEW es, IsSequence(es), wire' = wire \o es,
           \A i \in 1 .. Len(es) : EventTrue(es[i], prompts),
           UNCHANGED screenVars, UNCHANGED prompts, TabsFit', OrdersTrue',
           QueueTold(es), \A s \in Tabs : TurnTold(es, s)
    PROVE  MirrorInv'
<1>1. WireTrue /\ IsSequence(wire) /\ UNCHANGED <<active, dock, busyTabs>>
  BY DEF MirrorInv, WireTrue, screenVars
<1>2. WireTrue'
  <2>1. IsSequence(wire \o es) /\ \A i \in 1 .. Len(wire \o es) : EventTrue((wire \o es)[i], prompts)
    BY <1>1, WireGrows
  <2>2. QED
    BY <2>1 DEF WireTrue
<1>3. DockOwn'
  BY <1>1 DEF MirrorInv, DockOwn
<1>4. DockFollows'
  <2>1. DockFollows
    BY DEF MirrorInv
  <2>2. CASE LatestIs(es, {"queue"}, active, Ev("queue", active, waiting'[active]))
    <3>1. LatestIs(wire \o es, {"queue"}, active, Ev("queue", active, waiting'[active]))
      BY <1>1, <2>2, StreamGrows
    <3>2. QED
      BY <1>1, <3>1 DEF DockFollows, QueueSaid
  <2>3. CASE /\ Unsaid(es, {"queue"}, active) /\ waiting'[active] = waiting[active]
             /\ LoadAsked(orders, active) => LoadAsked(orders', active)
    <3>1. CASE LoadAsked(orders, active)
      BY <1>1, <2>3, <3>1 DEF DockFollows
    <3>2. CASE QueueSaid(wire, dock, active, waiting[active])
      <4>1. QueueSaid(wire \o es, dock, active, waiting[active])
        BY <1>1, <2>3, <3>2, OthersKeep
      <4>2. QED
        BY <1>1, <2>3, <4>1 DEF DockFollows
    <3>3. QED
      BY <2>1, <3>1, <3>2 DEF DockFollows
  <2>4. QED
    BY <2>2, <2>3 DEF QueueTold
<1>5. BusyFollows'
  <2>1. ASSUME NEW s \in Tabs PROVE BusySaid(wire \o es, s, turnOf'[s], busyTabs)
    <3>1. TurnTold(es, s) /\ BusySaid(wire, s, turnOf[s], busyTabs)
      BY DEF MirrorInv, BusyFollows
    <3>2. CASE LatestIs(es, {"started", "usage"}, s, Ev("started", s, 0)) /\ Runs(turnOf'[s])
      BY <1>1, <3>2, StreamGrows DEF BusySaid
    <3>3. CASE LatestIs(es, {"started", "usage"}, s, Ev("usage", s, 0)) /\ ~Runs(turnOf'[s])
      BY <1>1, <3>3, StreamGrows DEF BusySaid
    <3>4. CASE Unsaid(es, {"started", "usage"}, s) /\ (Runs(turnOf'[s]) <=> Runs(turnOf[s]))
      <4>1. BusySaid(wire, s, turnOf'[s], busyTabs)
        BY <3>1, <3>4 DEF BusySaid
      <4>2. QED
        BY <1>1, <3>4, <4>1, OthersKeep
    <3>5. QED
      BY <3>1, <3>2, <3>3, <3>4 DEF TurnTold
  <2>2. QED
    BY <1>1, <2>1 DEF BusyFollows
<1>6. QED
  BY <1>2, <1>3, <1>4, <1>5 DEF MirrorInv

(* A turn's own step. *)
LEMMA TurnIsTyped ==
    ASSUME TabsFit, NEW s \in Tabs, NEW t \in {"idle", "begun", "hop", "gap"},
           turnOf' = [turnOf EXCEPT ![s] = t], UNCHANGED <<active, busyTabs, prompts, waiting>>
    PROVE  TabsFit' /\ turnOf'[s] = t /\ \A r \in Tabs : r # s => turnOf'[r] = turnOf[r]
  BY DEF TabsFit

LEMMA OrdersSame == ASSUME MirrorInv, UNCHANGED <<orders, prompts>> PROVE OrdersTrue'
  BY DEF MirrorInv, OrdersTrue

LEMMA BeHopStartsKeeps == ASSUME MirrorInv, NEW s \in Tabs, BeHopStarts(s) PROVE MirrorInv'
<1> DEFINE a == Ev("started", s, 0)
           b == Ev("delta", s, 0)
           es == <<a, b>>
<1>1. /\ turnOf' = [turnOf EXCEPT ![s] = "hop"] /\ wire' = wire \o es
      /\ UNCHANGED screenVars /\ UNCHANGED <<orders, waiting, prompts>>
      /\ UNCHANGED <<active, busyTabs>>
  BY DEF BeHopStarts, Emit, screenVars
<1>2. TabsFit' /\ turnOf'[s] = "hop" /\ \A r \in Tabs : r # s => turnOf'[r] = turnOf[r]
  BY <1>1, TurnIsTyped DEF MirrorInv
<1>3. /\ IsSequence(es) /\ Len(es) = 2 /\ es[1] = a /\ es[2] = b
      /\ \A t \in Tabs : ~Bears(a, {"queue"}, t) /\ ~Bears(b, {"queue"}, t)
      /\ \A t \in Tabs : t # s => ~Bears(a, {"started", "usage"}, t)
      /\ \A t \in Tabs : ~Bears(b, {"started", "usage"}, t)
      /\ Bears(a, {"started", "usage"}, s)
  BY TwoEvents, KindsBear
<1>4. EventTrue(a, prompts) /\ EventTrue(b, prompts)
  BY EvIs DEF EventTrue
<1>5. active \in Tabs
  BY DEF MirrorInv, TabsFit
<1> HIDE DEF a, b
<1>6. /\ Unsaid(es, {"queue"}, active) /\ LatestIs(es, {"started", "usage"}, s, a)
      /\ \A t \in Tabs : t # s => Unsaid(es, {"started", "usage"}, t)
  BY <1>3, <1>5, TwoEvents
<1> HIDE DEF es
<1>7. \A i \in 1 .. Len(es) : EventTrue(es[i], prompts)
  <2>1. \A i \in 1 .. Len(es) : i \in {1, 2}
    BY <1>3
  <2>2. QED
    BY <1>3, <1>4, <2>1
<1>8. QueueTold(es)
  BY <1>1, <1>6 DEF QueueTold
<1>9. ASSUME NEW t \in Tabs PROVE TurnTold(es, t)
  BY <1>2, <1>6 DEF TurnTold, a, Runs
<1>10. QED
  BY <1>1, <1>2, <1>3, <1>7, <1>8, <1>9, OrdersSame, TellingKeeps

LEMMA BeHopEndsKeeps == ASSUME MirrorInv, NEW s \in Tabs, BeHopEnds(s) PROVE MirrorInv'
<1> DEFINE a == Ev("finished", s, 0)
           es == <<a>>
<1>1. /\ turnOf' = [turnOf EXCEPT ![s] = "gap"] /\ wire' = wire \o es /\ turnOf[s] = "hop"
      /\ UNCHANGED screenVars /\ UNCHANGED <<orders, waiting, prompts>>
      /\ UNCHANGED <<active, busyTabs>>
  BY DEF BeHopEnds, Emit, screenVars
<1>2. TabsFit' /\ turnOf'[s] = "gap" /\ \A r \in Tabs : r # s => turnOf'[r] = turnOf[r]
  BY <1>1, TurnIsTyped DEF MirrorInv
<1>3. /\ IsSequence(es) /\ Len(es) = 1 /\ es[1] = a
      /\ \A t \in Tabs : ~Bears(a, {"queue"}, t) /\ ~Bears(a, {"started", "usage"}, t)
  BY OneEvent, KindsBear
<1>4. EventTrue(a, prompts)
  BY EvIs DEF EventTrue
<1>5. active \in Tabs
  BY DEF MirrorInv, TabsFit
<1> HIDE DEF a
<1>6. Unsaid(es, {"queue"}, active) /\ \A t \in Tabs : Unsaid(es, {"started", "usage"}, t)
  BY <1>3, <1>5, OneEvent
<1> HIDE DEF es
<1>7. \A i \in 1 .. Len(es) : EventTrue(es[i], prompts)
  <2>1. \A i \in 1 .. Len(es) : i = 1
    BY <1>3
  <2>2. QED
    BY <1>3, <1>4, <2>1
<1>8. QueueTold(es)
  BY <1>1, <1>6 DEF QueueTold
<1>9. ASSUME NEW t \in Tabs PROVE TurnTold(es, t)
  BY <1>1, <1>2, <1>6 DEF TurnTold, Runs
<1>10. QED
  BY <1>1, <1>2, <1>3, <1>7, <1>8, <1>9, OrdersSame, TellingKeeps
LEMMA OwnParts ==
    ASSUME NEW q, NEW s, NEW ps \in Seq(Tabs), OwnPrompts(q, s, ps)
    PROVE  /\ q # <<>> => OwnPrompts(Tail(q), s, ps)
           /\ \A p \in 1 .. Len(ps) : ps[p] = s => OwnPrompts(Append(q, p), s, ps)
           /\ \A p : OwnPrompts(Picked(q, {i \in DOMAIN q : q[i] # p}), s, ps)
<1> DEFINE N == Nat \ {Echo}
<1>1. q \in Seq(N) /\ \A i \in 1 .. Len(q) : q[i] \in 1 .. Len(ps) /\ ps[q[i]] = s
  BY DEF OwnPrompts
<1>2. ASSUME q # <<>> PROVE OwnPrompts(Tail(q), s, ps)
  <2>1. /\ Tail(q) \in Seq(N)
        /\ \A i \in 1 .. Len(Tail(q)) : i + 1 \in 1 .. Len(q) /\ Tail(q)[i] = q[i + 1]
    BY <1>1, <1>2
  <2>2. QED
    BY <1>1, <2>1 DEF OwnPrompts
<1>3. ASSUME NEW p \in 1 .. Len(ps), ps[p] = s PROVE OwnPrompts(Append(q, p), s, ps)
  <2>1. Len(ps) \in Nat
    BY LenProperties
  <2>2. p \in N
    BY <2>1 DEF Echo
  <2> HIDE DEF N
  <2>3. /\ Append(q, p) \in Seq(N) /\ Len(Append(q, p)) = Len(q) + 1 /\ Len(q) \in Nat
        /\ \A i \in 1 .. Len(q) : Append(q, p)[i] = q[i]
        /\ Append(q, p)[Len(q) + 1] = p
    BY <1>1, <2>2, AppendProperties, LenProperties
  <2>4. \A i \in 1 .. Len(Append(q, p)) : i \in 1 .. Len(q) \/ i = Len(q) + 1
    BY <2>3
  <2>5. QED
    BY <1>1, <1>3, <2>3, <2>4 DEF OwnPrompts, N
<1>4. ASSUME NEW p PROVE OwnPrompts(Picked(q, {i \in DOMAIN q : q[i] # p}), s, ps)
  <2> DEFINE at == {i \in DOMAIN q : q[i] # p}
             r == Picked(q, at)
  <2>1. at \subseteq DOMAIN q /\ DOMAIN q = 1 .. Len(q)
    BY <1>1
  <2> HIDE DEF at, N
  <2>2. r \in Seq(N) /\ \A k \in 1 .. Len(r) : \E i \in at : r[k] = q[i]
    BY <1>1, <2>1, PickedIsListed, PickedRange
  <2> HIDE DEF r
  <2>3. \A k \in 1 .. Len(r) : r[k] \in 1 .. Len(ps) /\ ps[r[k]] = s
    BY <1>1, <2>1, <2>2
  <2>4. OwnPrompts(r, s, ps)
    BY <2>2, <2>3 DEF OwnPrompts, N
  <2>5. QED
    BY <2>4 DEF r, at
<1>5. QED
  BY <1>2, <1>3, <1>4

LEMMA QueueIsTyped ==
    ASSUME TabsFit, NEW s \in Tabs, NEW q, OwnPrompts(q, s, prompts),
           waiting' = [waiting EXCEPT ![s] = q], UNCHANGED <<active, busyTabs, prompts>>,
           turnOf' \in [Tabs -> {"idle", "begun", "hop", "gap"}]
    PROVE  TabsFit' /\ waiting'[s] = q /\ \A r \in Tabs : r # s => waiting'[r] = waiting[r]
<1>1. DOMAIN waiting' = Tabs /\ waiting'[s] = q /\ \A r \in Tabs : r # s => waiting'[r] = waiting[r]
  BY DEF TabsFit
<1>2. \A r \in Tabs : OwnPrompts(waiting'[r], r, prompts)
  BY <1>1 DEF TabsFit
<1>3. QED
  BY <1>1, <1>2 DEF TabsFit

LEMMA BeTurnEndsKeeps == ASSUME MirrorInv, NEW s \in Tabs, BeTurnEnds(s) PROVE MirrorInv'
<1> DEFINE a == Ev("usage", s, 0)
<1>1. /\ UNCHANGED screenVars /\ UNCHANGED <<orders, prompts>> /\ UNCHANGED <<active, busyTabs>>
      /\ TabsFit /\ active \in Tabs /\ turnOf[s] \in {"begun", "gap"}
      /\ OwnPrompts(waiting[s], s, prompts) /\ prompts \in Seq(Tabs)
  BY DEF BeTurnEnds, screenVars, MirrorInv, TabsFit
<1>2. /\ \A t \in Tabs : ~Bears(a, {"queue"}, t)
      /\ \A t \in Tabs : t # s => ~Bears(a, {"started", "usage"}, t)
      /\ Bears(a, {"started", "usage"}, s)
  BY KindsBear
<1>3. EventTrue(a, prompts) /\ OrdersTrue'
  BY <1>1, EvIs, OrdersSame DEF EventTrue
<1>4. CASE waiting[s] = <<>>
  <2> DEFINE es == <<a>>
  <2>1. turnOf' = [turnOf EXCEPT ![s] = "idle"] /\ wire' = wire \o es /\ UNCHANGED waiting
    BY <1>4 DEF BeTurnEnds, Emit
  <2>2. TabsFit' /\ turnOf'[s] = "idle" /\ \A r \in Tabs : r # s => turnOf'[r] = turnOf[r]
    BY <1>1, <2>1, TurnIsTyped
  <2> HIDE DEF a
  <2>3. /\ IsSequence(es) /\ Len(es) = 1 /\ es[1] = a /\ Unsaid(es, {"queue"}, active)
        /\ LatestIs(es, {"started", "usage"}, s, a)
        /\ \A t \in Tabs : t # s => Unsaid(es, {"started", "usage"}, t)
    BY <1>1, <1>2, OneEvent
  <2> HIDE DEF es
  <2>4. \A i \in 1 .. Len(es) : EventTrue(es[i], prompts)
    <3>1. \A i \in 1 .. Len(es) : i = 1
      BY <2>3
    <3>2. QED
      BY <1>3, <2>3, <3>1
  <2>5. QueueTold(es)
    BY <1>1, <2>1, <2>3 DEF QueueTold
  <2>6. ASSUME NEW t \in Tabs PROVE TurnTold(es, t)
    BY <2>2, <2>3 DEF TurnTold, Runs, a
  <2>7. QED
    BY <1>1, <1>3, <2>1, <2>2, <2>3, <2>4, <2>5, <2>6, TellingKeeps
<1>5. CASE waiting[s] # <<>>
  <2> DEFINE b == Ev("queue", s, Tail(waiting[s]))
             c == Ev("stored", s, Head(waiting[s]))
             es == <<a, b, c>>
  <2>1. /\ turnOf' = [turnOf EXCEPT ![s] = "begun"] /\ wire' = wire \o es
        /\ waiting' = [waiting EXCEPT ![s] = Tail(waiting[s])]
    BY <1>5 DEF BeTurnEnds, Emit
  <2>2. OwnPrompts(Tail(waiting[s]), s, prompts)
    BY <1>1, <1>5, OwnParts
  <2>3. turnOf' \in [Tabs -> {"idle", "begun", "hop", "gap"}] /\ turnOf'[s] = "begun"
        /\ \A r \in Tabs : r # s => turnOf'[r] = turnOf[r]
    BY <1>1, <2>1 DEF TabsFit
  <2>4. /\ TabsFit' /\ waiting'[s] = Tail(waiting[s])
        /\ \A r \in Tabs : r # s => waiting'[r] = waiting[r]
    BY <1>1, <2>1, <2>2, <2>3, QueueIsTyped
  <2>5. /\ \A t \in Tabs : t # s => ~Bears(b, {"queue"}, t)
        /\ Bears(b, {"queue"}, s) /\ \A t \in Tabs : ~Bears(c, {"queue"}, t)
        /\ \A t \in Tabs : ~Bears(b, {"started", "usage"}, t) /\ ~Bears(c, {"started", "usage"}, t)
    BY KindsBear
  <2>6. EventTrue(b, prompts) /\ EventTrue(c, prompts)
    BY <2>2, EvIs DEF EventTrue
  <2>7. b = Ev("queue", s, waiting'[s])
    BY <2>4
  <2> HIDE DEF a, b, c
  <2>8. /\ IsSequence(es) /\ Len(es) = 3 /\ es[1] = a /\ es[2] = b /\ es[3] = c
        /\ LatestIs(es, {"started", "usage"}, s, a)
        /\ \A t \in Tabs : t # s => Unsaid(es, {"started", "usage"}, t)
        /\ LatestIs(es, {"queue"}, s, b) /\ \A t \in Tabs : t # s => Unsaid(es, {"queue"}, t)
    BY <1>2, <2>5, ThreeEvents
  <2> HIDE DEF es
  <2>9. \A i \in 1 .. Len(es) : EventTrue(es[i], prompts)
    <3>1. \A i \in 1 .. Len(es) : i \in {1, 2, 3}
      BY <2>8
    <3>2. QED
      BY <1>3, <2>6, <2>8, <3>1
  <2>10. QueueTold(es)
    BY <1>1, <2>4, <2>7, <2>8 DEF QueueTold
  <2>11. ASSUME NEW t \in Tabs PROVE TurnTold(es, t)
    BY <2>3, <2>8 DEF TurnTold, Runs, a
  <2>12. QED
    BY <1>1, <1>3, <2>1, <2>4, <2>8, <2>9, <2>10, <2>11, TellingKeeps
<1>6. QED
  BY <1>4, <1>5

LEMMA BeConnectsKeeps == ASSUME MirrorInv, BeConnects PROVE MirrorInv'
  BY DEF BeConnects, screenVars, MirrorInv, TabsFit, WireTrue, OrdersTrue, DockOwn, DockFollows, BusyFollows

-----------------------------------------------------------------------------
(* The backend takes a request. *)
LEMMA TakenIs ==
    ASSUME MirrorInv, BeDispatches
    PROVE  /\ orders # <<>> /\ orders' = Tail(orders) /\ OrderTrue(Head(orders), prompts)
           /\ UNCHANGED screenVars /\ UNCHANGED prompts /\ UNCHANGED <<active, busyTabs>>
           /\ OrdersTrue' /\ TabsFit /\ active \in Tabs /\ WireTrue
           /\ LoadAsked(orders, active) =>
                 LoadAsked(orders', active) \/ (Head(orders).req = "load" /\ Head(orders).tab = active)
<1>1. orders # <<>> /\ orders' = Tail(orders) /\ UNCHANGED screenVars /\ UNCHANGED prompts
  BY DEF BeDispatches
<1>2. OrdersTrue /\ TabsFit /\ active \in Tabs /\ WireTrue
  BY DEF MirrorInv, TabsFit
<1>3. /\ OrderTrue(Head(orders), prompts) /\ IsSequence(Tail(orders))
      /\ \A i \in 1 .. Len(Tail(orders)) : OrderTrue(Tail(orders)[i], prompts)
      /\ \A s : LoadAsked(orders, s) =>
                   LoadAsked(Tail(orders), s) \/ (Head(orders).req = "load" /\ Head(orders).tab = s)
  BY <1>1, <1>2, OrdersShrink
<1>4. OrdersTrue'
  BY <1>1, <1>3 DEF OrdersTrue
<1>5. QED
  BY <1>1, <1>2, <1>3, <1>4 DEF screenVars

LEMMA BeLoadsKeeps ==
    ASSUME MirrorInv, BeDispatches, Head(orders).req = "load", BeLoads(Head(orders).tab)
    PROVE  MirrorInv'
<1> DEFINE s == Head(orders).tab
           a == Ev("queue", s, waiting[s])
           b == Ev("goal", s, s \in GoalTabs)
           c == Ev("loaded", s, stored[s])
           es == <<a, b, c>>
<1>1. /\ OrderTrue(Head(orders), prompts) /\ UNCHANGED screenVars /\ UNCHANGED prompts
      /\ UNCHANGED <<active, busyTabs>> /\ OrdersTrue' /\ TabsFit /\ active \in Tabs
      /\ LoadAsked(orders, active) =>
                 LoadAsked(orders', active) \/ (Head(orders).req = "load" /\ Head(orders).tab = active)
  BY TakenIs
<1>2. s \in Tabs /\ wire' = wire \o es /\ UNCHANGED <<turnOf, waiting>>
  BY <1>1 DEF OrderTrue, BeLoads, Emit
<1>3. TabsFit' /\ OwnPrompts(waiting[s], s, prompts)
  BY <1>1, <1>2 DEF TabsFit
<1>4. LoadAsked(orders, active) => LoadAsked(orders', active) \/ s = active
  BY <1>1
<1> HIDE DEF s
<1>5. /\ \A t \in Tabs : t # s => ~Bears(a, {"queue"}, t)
      /\ Bears(a, {"queue"}, s) /\ \A t \in Tabs : ~Bears(b, {"queue"}, t) /\ ~Bears(c, {"queue"}, t)
      /\ \A t \in Tabs : /\ ~Bears(a, {"started", "usage"}, t)
                         /\ ~Bears(b, {"started", "usage"}, t) /\ ~Bears(c, {"started", "usage"}, t)
  <2> DEFINE g == s \in GoalTabs
             l == stored[s]
             w == waiting[s]
  <2> HIDE DEF g, l, w
  <2>1. /\ \A t \in Tabs : t # s => ~Bears(Ev("queue", s, w), {"queue"}, t)
        /\ Bears(Ev("queue", s, w), {"queue"}, s)
        /\ \A t \in Tabs : ~Bears(Ev("queue", s, w), {"started", "usage"}, t)
    BY <1>2, KindsBear
  <2>2. \A t \in Tabs : ~Bears(Ev("goal", s, g), {"queue"}, t) /\ ~Bears(Ev("goal", s, g), {"started", "usage"}, t)
    BY <1>2, KindsBear
  <2>3. \A t \in Tabs : ~Bears(Ev("loaded", s, l), {"queue"}, t) /\ ~Bears(Ev("loaded", s, l), {"started", "usage"}, t)
    BY <1>2, KindsBear
  <2>4. a = Ev("queue", s, w) /\ b = Ev("goal", s, g) /\ c = Ev("loaded", s, l)
    BY DEF g, l, w
  <2> HIDE DEF a, b, c
  <2>5. QED
    BY <2>1, <2>2, <2>3, <2>4
<1>6. EventTrue(a, prompts) /\ EventTrue(b, prompts) /\ EventTrue(c, prompts)
  BY <1>2, <1>3, EvIs DEF EventTrue
<1>7. a = Ev("queue", s, waiting'[s])
  BY <1>2
<1> HIDE DEF a, b, c
<1>8. /\ IsSequence(es) /\ Len(es) = 3 /\ es[1] = a /\ es[2] = b /\ es[3] = c
      /\ \A t \in Tabs : Unsaid(es, {"started", "usage"}, t)
      /\ LatestIs(es, {"queue"}, s, a) /\ \A t \in Tabs : t # s => Unsaid(es, {"queue"}, t)
  BY <1>2, <1>5, ThreeEvents
<1> HIDE DEF es
<1>9. \A i \in 1 .. Len(es) : EventTrue(es[i], prompts)
  <2>1. \A i \in 1 .. Len(es) : i \in {1, 2, 3}
    BY <1>8
  <2>2. QED
    BY <1>6, <1>8, <2>1
<1>10. QueueTold(es)
  BY <1>1, <1>2, <1>4, <1>7, <1>8 DEF QueueTold
<1>11. ASSUME NEW t \in Tabs PROVE TurnTold(es, t)
  BY <1>2, <1>8 DEF TurnTold
<1>12. QED
  BY <1>1, <1>2, <1>3, <1>8, <1>9, <1>10, <1>11, TellingKeeps

LEMMA BeSendsKeeps ==
    ASSUME MirrorInv, BeDispatches, Head(orders).req = "send",
           BeSends(Head(orders).tab, Head(orders).prompt), UNCHANGED llmUp
    PROVE  MirrorInv'
<1> DEFINE s == Head(orders).tab
           p == Head(orders).prompt
<1>1. /\ OrderTrue(Head(orders), prompts) /\ UNCHANGED screenVars /\ UNCHANGED prompts
      /\ UNCHANGED <<active, busyTabs>> /\ OrdersTrue' /\ TabsFit /\ active \in Tabs /\ WireTrue
      /\ LoadAsked(orders, active) => LoadAsked(orders', active)
  BY TakenIs
<1>2. s \in Tabs /\ p \in 1 .. Len(prompts) /\ prompts[p] = s /\ prompts \in Seq(Tabs)
  BY <1>1 DEF OrderTrue, TabsFit
<1>3. BeSends(s, p)
  OBVIOUS
<1> HIDE DEF s, p
<1>4. CASE turnOf[s] # "idle"
  <2> DEFINE q == Append(waiting[s], p)
             a == Ev("queue", s, waiting'[s])
             es == <<a>>
  <2>1. waiting' = [waiting EXCEPT ![s] = q] /\ wire' = wire \o es /\ UNCHANGED turnOf
    BY <1>3, <1>4 DEF BeSends, Emit
  <2>2. OwnPrompts(q, s, prompts)
    BY <1>1, <1>2, OwnParts DEF TabsFit
  <2> HIDE DEF q
  <2>3. turnOf' \in [Tabs -> {"idle", "begun", "hop", "gap"}]
    BY <1>1, <2>1 DEF TabsFit
  <2>4. TabsFit' /\ waiting'[s] = q /\ \A r \in Tabs : r # s => waiting'[r] = waiting[r]
    BY <1>1, <1>2, <2>1, <2>2, <2>3, QueueIsTyped
  <2>5. /\ \A t \in Tabs : t # s => ~Bears(a, {"queue"}, t)
        /\ Bears(a, {"queue"}, s) /\ \A t \in Tabs : ~Bears(a, {"started", "usage"}, t)
    BY <1>2, KindsBear
  <2>6. EventTrue(a, prompts)
    BY <1>2, <2>2, <2>4, EvIs DEF EventTrue
  <2>7. a = Ev("queue", s, waiting'[s])
    OBVIOUS
  <2> HIDE DEF a
  <2>8. /\ IsSequence(es) /\ Len(es) = 1 /\ es[1] = a
        /\ \A t \in Tabs : Unsaid(es, {"started", "usage"}, t)
        /\ LatestIs(es, {"queue"}, s, a) /\ \A t \in Tabs : t # s => Unsaid(es, {"queue"}, t)
    BY <1>2, <2>5, OneEvent
  <2> HIDE DEF es
  <2>9. \A i \in 1 .. Len(es) : EventTrue(es[i], prompts)
    <3>1. \A i \in 1 .. Len(es) : i = 1
      BY <2>8
    <3>2. QED
      BY <2>6, <2>8, <3>1
  <2>10. QueueTold(es)
    BY <1>1, <2>4, <2>7, <2>8 DEF QueueTold
  <2>11. ASSUME NEW t \in Tabs PROVE TurnTold(es, t)
    BY <2>1, <2>8 DEF TurnTold
  <2>12. QED
    BY <1>1, <2>1, <2>4, <2>8, <2>9, <2>10, <2>11, TellingKeeps
<1>5. CASE turnOf[s] = "idle" /\ llmUp
  <2> DEFINE a == Ev("stored", s, p)
             es == <<a>>
  <2>1. UNCHANGED waiting /\ wire' = wire \o es /\ turnOf' = [turnOf EXCEPT ![s] = "begun"]
    BY <1>3, <1>5 DEF BeSends, BeBegins, Emit
  <2>2. TabsFit' /\ turnOf'[s] = "begun" /\ \A r \in Tabs : r # s => turnOf'[r] = turnOf[r]
    BY <1>1, <1>2, <2>1, TurnIsTyped
  <2>3. \A t \in Tabs : ~Bears(a, {"queue"}, t) /\ ~Bears(a, {"started", "usage"}, t)
    BY <1>2, KindsBear
  <2>4. EventTrue(a, prompts)
    BY <1>2, EvIs DEF EventTrue
  <2> HIDE DEF a
  <2>5. /\ IsSequence(es) /\ Len(es) = 1 /\ es[1] = a
        /\ \A t \in Tabs : Unsaid(es, {"started", "usage"}, t) /\ Unsaid(es, {"queue"}, t)
    BY <1>2, <2>3, OneEvent
  <2> HIDE DEF es
  <2>6. \A i \in 1 .. Len(es) : EventTrue(es[i], prompts)
    <3>1. \A i \in 1 .. Len(es) : i = 1
      BY <2>5
    <3>2. QED
      BY <2>4, <2>5, <3>1
  <2>7. QueueTold(es)
    BY <1>1, <2>1, <2>5 DEF QueueTold
  <2>8. ASSUME NEW t \in Tabs PROVE TurnTold(es, t)
    BY <1>5, <2>2, <2>5 DEF TurnTold, Runs
  <2>9. QED
    BY <1>1, <2>1, <2>2, <2>5, <2>6, <2>7, <2>8, TellingKeeps
<1>6. CASE turnOf[s] = "idle" /\ ~llmUp
  <2>1. UNCHANGED <<waiting, turnOf, wire>>
    BY <1>3, <1>6 DEF BeSends, BeBegins
  <2>2. TabsFit'
    BY <1>1, <2>1 DEF TabsFit
  <2>3. /\ IsSequence(<<>>) /\ wire' = wire \o <<>> /\ Len(<<>>) = 0
        /\ \A K, t : Unsaid(<<>>, K, t)
    BY <1>1, <2>1, NoEvents
  <2>4. QueueTold(<<>>) /\ \A t \in Tabs : TurnTold(<<>>, t)
    BY <1>1, <2>1, <2>3 DEF QueueTold, TurnTold
  <2>5. \A i \in 1 .. Len(<<>>) : EventTrue(<<>>[i], prompts)
    BY <2>3
  <2>6. QED
    BY <1>1, <2>2, <2>3, <2>4, <2>5, TellingKeeps
<1>7. QED
  BY <1>4, <1>5, <1>6

LEMMA BeRemovesKeeps ==
    ASSUME MirrorInv, BeDispatches, Head(orders).req = "remove", BeRemoves(Head(orders).tab, Head(orders).prompt)
    PROVE  MirrorInv'
<1> DEFINE s == Head(orders).tab
           p == Head(orders).prompt
           q == Picked(waiting[s], {i \in DOMAIN waiting[s] : waiting[s][i] # p})
<1>1. /\ OrderTrue(Head(orders), prompts) /\ UNCHANGED screenVars /\ UNCHANGED prompts
      /\ UNCHANGED <<active, busyTabs>> /\ OrdersTrue' /\ TabsFit /\ active \in Tabs /\ WireTrue
      /\ LoadAsked(orders, active) => LoadAsked(orders', active)
  BY TakenIs
<1>2. s \in Tabs /\ prompts \in Seq(Tabs) /\ OwnPrompts(waiting[s], s, prompts)
  BY <1>1 DEF OrderTrue, TabsFit
<1>3. BeRemoves(s, p)
  OBVIOUS
<1>4. OwnPrompts(q, s, prompts)
  BY <1>2, OwnParts
<1> HIDE DEF s, p
<1>5. CASE Contains(waiting[s], p)
  <2> DEFINE a == Ev("queue", s, waiting'[s])
             es == <<a>>
  <2>1. waiting' = [waiting EXCEPT ![s] = q] /\ wire' = wire \o es /\ UNCHANGED turnOf
    BY <1>3, <1>5 DEF BeRemoves, Emit
  <2> HIDE DEF q
  <2>3. turnOf' \in [Tabs -> {"idle", "begun", "hop", "gap"}]
    BY <1>1, <2>1 DEF TabsFit
  <2>4. TabsFit' /\ waiting'[s] = q /\ \A r \in Tabs : r # s => waiting'[r] = waiting[r]
    BY <1>1, <1>2, <1>4, <2>1, <2>3, QueueIsTyped
  <2>5. /\ \A t \in Tabs : t # s => ~Bears(a, {"queue"}, t)
        /\ Bears(a, {"queue"}, s) /\ \A t \in Tabs : ~Bears(a, {"started", "usage"}, t)
    BY <1>2, KindsBear
  <2>6. EventTrue(a, prompts)
    BY <1>2, <1>4, <2>4, EvIs DEF EventTrue
  <2>7. a = Ev("queue", s, waiting'[s])
    OBVIOUS
  <2> HIDE DEF a
  <2>8. /\ IsSequence(es) /\ Len(es) = 1 /\ es[1] = a
        /\ \A t \in Tabs : Unsaid(es, {"started", "usage"}, t)
        /\ LatestIs(es, {"queue"}, s, a) /\ \A t \in Tabs : t # s => Unsaid(es, {"queue"}, t)
    BY <1>2, <2>5, OneEvent
  <2> HIDE DEF es
  <2>9. \A i \in 1 .. Len(es) : EventTrue(es[i], prompts)
    <3>1. \A i \in 1 .. Len(es) : i = 1
      BY <2>8
    <3>2. QED
      BY <2>6, <2>8, <3>1
  <2>10. QueueTold(es)
    BY <1>1, <2>4, <2>7, <2>8 DEF QueueTold
  <2>11. ASSUME NEW t \in Tabs PROVE TurnTold(es, t)
    BY <2>1, <2>8 DEF TurnTold
  <2>12. QED
    BY <1>1, <2>1, <2>4, <2>8, <2>9, <2>10, <2>11, TellingKeeps
<1>6. CASE ~Contains(waiting[s], p)
  <2>1. UNCHANGED <<waiting, turnOf, wire>>
    BY <1>3, <1>6 DEF BeRemoves
  <2>2. TabsFit'
    BY <1>1, <2>1 DEF TabsFit
  <2>3. /\ IsSequence(<<>>) /\ wire' = wire \o <<>> /\ Len(<<>>) = 0
        /\ \A K, t : Unsaid(<<>>, K, t)
    BY <1>1, <2>1, NoEvents
  <2>4. QueueTold(<<>>) /\ \A t \in Tabs : TurnTold(<<>>, t)
    BY <1>1, <2>1, <2>3 DEF QueueTold, TurnTold
  <2>5. \A i \in 1 .. Len(<<>>) : EventTrue(<<>>[i], prompts)
    BY <2>3
  <2>6. QED
    BY <1>1, <2>2, <2>3, <2>4, <2>5, TellingKeeps
<1>7. QED
  BY <1>5, <1>6

LEMMA BeDispatchesKeeps == ASSUME MirrorInv, BeDispatches PROVE MirrorInv'
<1>1. /\ \/ Head(orders).req = "load" /\ BeLoads(Head(orders).tab)
         \/ Head(orders).req = "send" /\ BeSends(Head(orders).tab, Head(orders).prompt)
         \/ Head(orders).req = "remove" /\ BeRemoves(Head(orders).tab, Head(orders).prompt)
      /\ UNCHANGED llmUp
  BY DEF BeDispatches
<1>2. QED
  BY <1>1, BeLoadsKeeps, BeSendsKeeps, BeRemovesKeeps
-----------------------------------------------------------------------------
(* The user. *)

LEMMA SwitchSessionKeeps == ASSUME MirrorInv, NEW s \in Tabs, SwitchSession(s) PROVE MirrorInv'
<1> DEFINE o == [req |-> "load", tab |-> s]
<1>1. /\ active' = s /\ dock' = <<>> /\ orders' = Append(orders, o)
      /\ UNCHANGED <<busyTabs, wire, turnOf, waiting, prompts>>
  BY DEF SwitchSession, hubVars
<1>2. OrderTrue(o, prompts) /\ o.req = "load" /\ o.tab = s
  BY DEF OrderTrue
<1> HIDE DEF o
<1>3. OrdersTrue' /\ LoadAsked(orders', s)
  BY <1>1, <1>2, OrdersGrow DEF MirrorInv, OrdersTrue
<1>4. DockFollows'
  BY <1>1, <1>3 DEF DockFollows
<1>5. DockOwn'
  BY <1>1 DEF DockOwn
<1>6. TabsFit' /\ WireTrue' /\ BusyFollows'
  BY <1>1 DEF MirrorInv, TabsFit, WireTrue, BusyFollows
<1>7. QED
  BY <1>3, <1>4, <1>5, <1>6 DEF MirrorInv

LEMMA RemoveFromDockKeeps == ASSUME MirrorInv, NEW i, RemoveFromDock(i) PROVE MirrorInv'
<1> DEFINE o == [req |-> "remove", tab |-> active, prompt |-> dock[i]]
<1>1. orders' = Append(orders, o) /\ UNCHANGED <<active, dock, busyTabs, wire, turnOf, waiting, prompts>>
  BY DEF RemoveFromDock, screenVars, hubVars
<1>2. OrderTrue(o, prompts)
  BY DEF OrderTrue, MirrorInv, TabsFit
<1> HIDE DEF o
<1>3. OrdersTrue' /\ (LoadAsked(orders, active) => LoadAsked(orders', active))
  BY <1>1, <1>2, OrdersGrow DEF MirrorInv, OrdersTrue
<1>4. DockFollows'
  BY <1>1, <1>3 DEF MirrorInv, DockFollows
<1>5. DockOwn' /\ TabsFit' /\ WireTrue' /\ BusyFollows'
  BY <1>1 DEF MirrorInv, DockOwn, TabsFit, WireTrue, BusyFollows
<1>6. QED
  BY <1>3, <1>4, <1>5 DEF MirrorInv

(* An echo more. *)
LEMMA EchoMore ==
    ASSUME NEW d \in Seq(Nat)
    PROVE  /\ Append(d, Echo) \in Seq(Nat) /\ Len(Append(d, Echo)) = Len(d) + 1 /\ Len(d) \in Nat
           /\ \A i \in 1 .. Len(d) : Append(d, Echo)[i] = d[i]
           /\ Append(d, Echo)[Len(d) + 1] = Echo
           /\ \A q : q \in Seq(Nat) /\ Echoed(d, q) => Echoed(Append(d, Echo), q)
<1> DEFINE r == Append(d, Echo)
<1>1. /\ r \in Seq(Nat) /\ Len(r) = Len(d) + 1 /\ Len(d) \in Nat /\ r[Len(d) + 1] = Echo
      /\ \A i \in 1 .. Len(d) : r[i] = d[i]
  BY AppendProperties, LenProperties DEF Echo
<1> HIDE DEF r
<1>2. ASSUME NEW q, q \in Seq(Nat), Echoed(d, q) PROVE Echoed(r, q)
  <2>1. /\ Len(q) \in Nat /\ Len(q) <= Len(d)
        /\ \A i \in 1 .. Len(q) : d[i] = q[i] /\ \A j \in Len(q) + 1 .. Len(d) : d[j] = Echo
    BY <1>2, LenProperties DEF Echoed
  <2>2. \A i \in 1 .. Len(q) : i \in 1 .. Len(d)
    BY <1>1, <2>1
  <2>3. \A i \in Len(q) + 1 .. Len(r) : i = Len(d) + 1 \/ (i \in 1 .. Len(d) /\ i \in Len(q) + 1 .. Len(d))
    BY <1>1, <2>1
  <2>4. \A j \in Len(q) + 1 .. Len(d) : d[j] = Echo
    BY <1>2 DEF Echoed
  <2>5. ASSUME NEW i \in Len(q) + 1 .. Len(r) PROVE r[i] = Echo
    <3>1. CASE i = Len(d) + 1
      BY <1>1, <3>1
    <3>2. CASE i \in 1 .. Len(d) /\ i \in Len(q) + 1 .. Len(d)
      <4>1. r[i] = d[i] /\ d[i] = Echo
        BY <1>1, <2>4, <3>2
      <4>2. QED
        BY <4>1
    <3>3. QED
      BY <2>3, <3>1, <3>2
  <2>6. Len(q) <= Len(r)
    BY <1>1, <2>1
  <2>7. QED
    BY <1>1, <2>1, <2>2, <2>5, <2>6 DEF Echoed
<1>3. QED
  BY <1>1, <1>2 DEF r

LEMMA SendsPromptKeeps == ASSUME MirrorInv, SendsPrompt PROVE MirrorInv'
<1> DEFINE p == Len(prompts) + 1
           o == [req |-> "send", tab |-> active, prompt |-> p]
<1>1. /\ prompts' = Append(prompts, active) /\ dock' \in {dock, Append(dock, Echo)}
      /\ orders' = Append(orders, o) /\ UNCHANGED <<active, busyTabs, wire, turnOf, waiting>>
  BY DEF SendsPrompt, hubVars
<1>2. /\ prompts \in Seq(Tabs) /\ active \in Tabs /\ dock \in Seq(Nat)
      /\ TabsFit /\ WireTrue /\ OrdersTrue /\ DockOwn /\ DockFollows
  BY DEF MirrorInv, TabsFit, DockOwn
<1>3. /\ prompts' \in Seq(Tabs) /\ Len(prompts') = p /\ Len(prompts) \in Nat /\ prompts'[p] = active
      /\ \A x \in 1 .. Len(prompts) : x \in 1 .. Len(prompts') /\ prompts'[x] = prompts[x]
      /\ \A q, s : OwnPrompts(q, s, prompts) => OwnPrompts(q, s, prompts')
      /\ \A e : EventTrue(e, prompts) => EventTrue(e, prompts')
      /\ \A x : OrderTrue(x, prompts) => OrderTrue(x, prompts')
  BY <1>1, <1>2, PromptsStay
<1>4. TabsFit'
  BY <1>1, <1>2, <1>3 DEF TabsFit
<1>5. WireTrue'
  BY <1>1, <1>2, <1>3 DEF WireTrue
<1>6. OrderTrue(o, prompts')
  <2>1. p \in 1 .. Len(prompts')
    BY <1>3
  <2>2. QED
    BY <1>2, <1>3, <2>1 DEF OrderTrue
<1> HIDE DEF o, p
<1>7. OrdersTrue' /\ (LoadAsked(orders, active) => LoadAsked(orders', active))
  <2>1. \A i \in 1 .. Len(orders) : OrderTrue(orders[i], prompts')
    BY <1>2, <1>3 DEF OrdersTrue
  <2>2. QED
    BY <1>1, <1>2, <1>6, <2>1, OrdersGrow DEF OrdersTrue
<1>8. DockOwn'
  <2>1. \A i \in 1 .. Len(dock) : dock[i] # Echo => dock[i] \in 1 .. Len(prompts') /\ prompts'[dock[i]] = active
    BY <1>2, <1>3 DEF DockOwn
  <2>2. CASE dock' = dock
    BY <1>1, <1>2, <2>1, <2>2 DEF DockOwn
  <2>3. CASE dock' = Append(dock, Echo)
    <3>1. /\ dock' \in Seq(Nat) /\ Len(dock') = Len(dock) + 1 /\ Len(dock) \in Nat
          /\ \A i \in 1 .. Len(dock) : dock'[i] = dock[i]
          /\ dock'[Len(dock) + 1] = Echo
      BY <1>2, <2>3, EchoMore
    <3>2. \A i \in 1 .. Len(dock') : i \in 1 .. Len(dock) \/ i = Len(dock) + 1
      BY <3>1
    <3>3. QED
      BY <1>1, <2>1, <3>1, <3>2 DEF DockOwn
  <2>4. QED
    BY <1>1, <2>2, <2>3
<1>9. DockFollows'
  <2>1. CASE LoadAsked(orders, active)
    BY <1>1, <1>7, <2>1 DEF DockFollows
  <2>2. CASE QueueSaid(wire, dock, active, waiting[active])
    <3>1. waiting[active] \in Seq(Nat)
      <4>1. OwnPrompts(waiting[active], active, prompts)
        BY <1>2 DEF TabsFit
      <4> DEFINE q == waiting[active]
      <4>2. q \in Seq(Nat \ {Echo})
        BY <4>1 DEF OwnPrompts
      <4> HIDE DEF q
      <4>3. q \in Seq(Nat)
        BY <4>2
      <4>4. QED
        BY <4>3 DEF q
    <3>2. QueueSaid(wire, dock', active, waiting[active])
      BY <1>1, <1>2, <2>2, <3>1, EchoMore DEF QueueSaid
    <3>3. QED
      BY <1>1, <3>2 DEF DockFollows
  <2>3. QED
    BY <1>2, <2>1, <2>2 DEF DockFollows
<1>10. BusyFollows'
  BY <1>1 DEF MirrorInv, BusyFollows
<1>11. QED
  BY <1>4, <1>5, <1>7, <1>8, <1>9, <1>10 DEF MirrorInv

-----------------------------------------------------------------------------
(* The interface takes an event. *)
LEMMA HandledIs ==
    ASSUME UiHandles
    PROVE  LET e == Head(wire)
           IN  /\ wire # <<>> /\ wire' = Tail(wire)
               /\ UNCHANGED <<active, orders, turnOf, waiting, prompts>>
               /\ dock' = IF e.ev = "queue" /\ e.tab = active THEN e.arg ELSE dock
               /\ busyTabs' = IF e.ev = "started" THEN busyTabs \cup {e.tab}
                              ELSE IF e.ev = "usage" THEN busyTabs \ {e.tab} ELSE busyTabs
<1> DEFINE e == Head(wire)
<1>1. wire # <<>> /\ wire' = Tail(wire) /\ UNCHANGED <<orders, turnOf, waiting, prompts>>
  BY DEF UiHandles, hubVars
<1>2. \/ e.ev = "started" /\ OnTurnStarted(e.tab)
      \/ e.ev = "delta" /\ OnDelta(e.tab)
      \/ e.ev = "finished" /\ OnTurnFinished(e.tab)
      \/ e.ev = "usage" /\ OnTurnUsage(e.tab)
      \/ e.ev = "stored" /\ OnStored(e.tab, e.arg)
      \/ e.ev = "queue" /\ OnQueue(e.tab, e.arg)
      \/ e.ev = "goal" /\ OnGoal(e.tab, e.arg)
      \/ e.ev = "loaded" /\ OnLoaded(e.tab, e.arg)
  BY DEF UiHandles
<1> HIDE DEF e
<1>3. /\ UNCHANGED active
      /\ dock' = IF e.ev = "queue" /\ e.tab = active THEN e.arg ELSE dock
      /\ busyTabs' = IF e.ev = "started" THEN busyTabs \cup {e.tab}
                     ELSE IF e.ev = "usage" THEN busyTabs \ {e.tab} ELSE busyTabs
  <2>1. CASE e.ev = "started" /\ OnTurnStarted(e.tab)
    BY <2>1 DEF OnTurnStarted
  <2>2. CASE e.ev = "delta" /\ OnDelta(e.tab)
    BY <2>2 DEF OnDelta
  <2>3. CASE e.ev = "finished" /\ OnTurnFinished(e.tab)
    BY <2>3 DEF OnTurnFinished
  <2>4. CASE e.ev = "usage" /\ OnTurnUsage(e.tab)
    BY <2>4 DEF OnTurnUsage
  <2>5. CASE e.ev = "stored" /\ OnStored(e.tab, e.arg)
    BY <2>5 DEF OnStored
  <2>6. CASE e.ev = "queue" /\ OnQueue(e.tab, e.arg)
    BY <2>6 DEF OnQueue
  <2>7. CASE e.ev = "goal" /\ OnGoal(e.tab, e.arg)
    BY <2>7 DEF OnGoal
  <2>8. CASE e.ev = "loaded" /\ OnLoaded(e.tab, e.arg)
    BY <2>8 DEF OnLoaded
  <2>9. QED
    BY <1>2, <2>1, <2>2, <2>3, <2>4, <2>5, <2>6, <2>7, <2>8
<1>4. QED
  BY <1>1, <1>3 DEF e

LEMMA UiHandlesKeeps == ASSUME MirrorInv, UiHandles PROVE MirrorInv'
<1> DEFINE e == Head(wire)
<1>1. /\ wire # <<>> /\ wire' = Tail(wire) /\ UNCHANGED <<active, orders, turnOf, waiting, prompts>>
      /\ dock' = IF e.ev = "queue" /\ e.tab = active THEN e.arg ELSE dock
      /\ busyTabs' = IF e.ev = "started" THEN busyTabs \cup {e.tab}
                     ELSE IF e.ev = "usage" THEN busyTabs \ {e.tab} ELSE busyTabs
  BY HandledIs
<1>2. IsSequence(wire) /\ active \in Tabs /\ TabsFit /\ WireTrue /\ DockOwn
  BY DEF MirrorInv, WireTrue, TabsFit
<1>3. /\ IsSequence(wire') /\ e = wire[1] /\ 1 \in 1 .. Len(wire)
      /\ \A i \in 1 .. Len(wire') : i + 1 \in 1 .. Len(wire) /\ wire'[i] = wire[i + 1]
  BY <1>1, <1>2, StreamMoves
<1>4. EventTrue(e, prompts) /\ WireTrue'
  BY <1>1, <1>2, <1>3 DEF WireTrue
<1>5. \A K, s : Unsaid(wire, K, s) => Unsaid(wire', K, s) /\ ~Bears(e, K, s)
  BY <1>1, <1>2, StreamMoves
<1>6. \A K, s, x : LatestIs(wire, K, s, x) => LatestIs(wire', K, s, x) \/ (e = x /\ Unsaid(wire', K, s))
  BY <1>1, <1>2, StreamMoves
<1> HIDE DEF e
<1>7. TabsFit'
  <2>1. busyTabs' \subseteq Tabs
    BY <1>1, <1>2, <1>4 DEF TabsFit, EventTrue
  <2>2. QED
    BY <1>1, <1>2, <2>1 DEF TabsFit
<1>8. OrdersTrue'
  BY <1>1 DEF MirrorInv, OrdersTrue
<1>9. DockOwn'
  <2>1. CASE e.ev = "queue" /\ e.tab = active
    <3>1. dock' = e.arg /\ OwnPrompts(e.arg, active, prompts)
      BY <1>1, <1>4, <2>1 DEF EventTrue
    <3>2. dock' \in Seq(Nat \ {Echo}) /\ \A i \in 1 .. Len(dock') : dock'[i] \in 1 .. Len(prompts) /\ prompts[dock'[i]] = active
      BY <3>1 DEF OwnPrompts
    <3>3. dock' \in Seq(Nat)
      BY <3>2
    <3>4. QED
      BY <1>1, <3>2, <3>3 DEF DockOwn
  <2>2. CASE ~(e.ev = "queue" /\ e.tab = active)
    BY <1>1, <1>2, <2>2 DEF DockOwn
  <2>3. QED
    BY <2>1, <2>2
<1>10. DockFollows'
  <2> DEFINE q == waiting[active]
  <2>1. LoadAsked(orders, active) \/ QueueSaid(wire, dock, active, q)
    BY DEF MirrorInv, DockFollows
  <2>2. OwnPrompts(q, active, prompts)
    BY <1>2 DEF TabsFit
  <2>3. q' = q /\ q \in Seq(Nat \ {Echo})
    BY <1>1, <2>2 DEF OwnPrompts
  <2> HIDE DEF q
  <2>4. Echoed(q, q)
    <3>1. q \in Seq(Nat) /\ Len(q) \in Nat
      BY <2>3
    <3>2. \A i \in Len(q) + 1 .. Len(q) : FALSE
      BY <3>1
    <3>3. QED
      BY <3>1, <3>2 DEF Echoed
  <2>5. ASSUME QueueSaid(wire, dock, active, q) PROVE QueueSaid(wire', dock', active, q)
    <3>1. CASE LatestIs(wire, {"queue"}, active, Ev("queue", active, q))
      <4>1. CASE LatestIs(wire', {"queue"}, active, Ev("queue", active, q))
        BY <4>1 DEF QueueSaid
      <4>2. CASE e = Ev("queue", active, q) /\ Unsaid(wire', {"queue"}, active)
        <5>1. dock' = q
          BY <1>1, <4>2, EvIs
        <5>2. QED
          BY <2>4, <4>2, <5>1 DEF QueueSaid
      <4>3. QED
        BY <1>6, <3>1, <4>1, <4>2
    <3>2. CASE Unsaid(wire, {"queue"}, active) /\ Echoed(dock, q)
      <4>1. Unsaid(wire', {"queue"}, active) /\ ~Bears(e, {"queue"}, active)
        BY <1>5, <3>2
      <4>2. ~(e.ev = "queue" /\ e.tab = active)
        BY <4>1 DEF Bears
      <4>3. dock' = dock
        BY <1>1, <4>2
      <4>4. QED
        BY <3>2, <4>1, <4>3 DEF QueueSaid
    <3>3. QED
      BY <2>5, <3>1, <3>2 DEF QueueSaid
  <2>6. QED
    BY <1>1, <2>1, <2>5 DEF DockFollows, q
<1>11. BusyFollows'
  <2>1. ASSUME NEW s \in Tabs PROVE BusySaid(wire', s, turnOf[s], busyTabs')
    <3> DEFINE t == turnOf[s]
               K == {"started", "usage"}
               up == Ev("started", s, 0)
               down == Ev("usage", s, 0)
    <3>1. BusySaid(wire, s, t, busyTabs)
      BY DEF MirrorInv, BusyFollows
    <3>2. up.ev = "started" /\ up.tab = s /\ down.ev = "usage" /\ down.tab = s
      BY EvIs
    <3> HIDE DEF up, down
    <3>3. CASE LatestIs(wire, K, s, up) /\ Runs(t)
      <4>1. CASE LatestIs(wire', K, s, up)
        BY <3>3, <4>1 DEF BusySaid, up
      <4>2. CASE e = up /\ Unsaid(wire', K, s)
        <5>1. s \in busyTabs'
          BY <1>1, <3>2, <4>2
        <5>2. QED
          BY <3>3, <4>2, <5>1 DEF BusySaid
      <4>3. QED
        BY <1>6, <3>3, <4>1, <4>2
    <3>4. CASE LatestIs(wire, K, s, down) /\ ~Runs(t)
      <4>1. CASE LatestIs(wire', K, s, down)
        BY <3>4, <4>1 DEF BusySaid, down
      <4>2. CASE e = down /\ Unsaid(wire', K, s)
        <5>1. s \notin busyTabs'
          BY <1>1, <3>2, <4>2
        <5>2. QED
          BY <3>4, <4>2, <5>1 DEF BusySaid
      <4>3. QED
        BY <1>6, <3>4, <4>1, <4>2
    <3>5. CASE Unsaid(wire, K, s) /\ (s \in busyTabs <=> Runs(t))
      <4>1. Unsaid(wire', K, s) /\ ~Bears(e, K, s)
        BY <1>5, <3>5
      <4>2. e.tab = s => e.ev \notin {"started", "usage"}
        BY <4>1 DEF Bears
      <4>3. s \in busyTabs' <=> s \in busyTabs
        BY <1>1, <4>2
      <4>4. QED
        BY <3>5, <4>1, <4>3 DEF BusySaid
    <3>6. BusySaid(wire', s, t, busyTabs')
      BY <3>1, <3>3, <3>4, <3>5 DEF BusySaid, up, down
    <3>7. QED
      BY <3>6 DEF t
  <2>2. QED
    BY <1>1, <2>1 DEF BusyFollows
<1>12. QED
  BY <1>4, <1>7, <1>8, <1>9, <1>10, <1>11 DEF MirrorInv

-----------------------------------------------------------------------------
LEMMA MirrorInitially == MirrorInit => MirrorInv
<1> SUFFICES ASSUME MirrorInit PROVE MirrorInv
  OBVIOUS
<1> DEFINE o == [req |-> "load", tab |-> active]
<1>1. /\ active \in Tabs /\ dock = <<>> /\ busyTabs = {} /\ wire = <<>> /\ orders = <<o>>
      /\ turnOf = [s \in Tabs |-> "idle"] /\ waiting = [s \in Tabs |-> <<>>] /\ prompts = <<>>
  BY DEF MirrorInit
<1>2. IsSequence(<<>>) /\ Len(<<>>) = 0
  BY EmptyIsSequence
<1>3. OwnPrompts(<<>>, active, prompts) /\ \A s : OwnPrompts(<<>>, s, prompts)
  BY <1>2 DEF OwnPrompts
<1>4. TabsFit
  BY <1>1, <1>3 DEF TabsFit
<1>5. WireTrue /\ DockOwn
  BY <1>1, <1>2 DEF WireTrue, DockOwn
<1>6. OrderTrue(o, prompts) /\ o.req = "load" /\ o.tab = active
  BY <1>1 DEF OrderTrue
<1> HIDE DEF o
<1>7. IsSequence(orders) /\ Len(orders) = 1 /\ orders[1] = o
  BY <1>1, OneEvent
<1>8. OrdersTrue /\ LoadAsked(orders, active)
  BY <1>6, <1>7 DEF OrdersTrue, LoadAsked
<1>9. BusyFollows
  <2>1. \A s \in Tabs : Unsaid(wire, {"started", "usage"}, s) /\ s \notin busyTabs /\ ~Runs(turnOf[s])
    BY <1>1, <1>2 DEF Unsaid, Runs
  <2>2. QED
    BY <2>1 DEF BusyFollows, BusySaid
<1>10. QED
  BY <1>4, <1>5, <1>8, <1>9 DEF MirrorInv, DockFollows

LEMMA MirrorStep == MirrorInv /\ [MirrorNext]_mirrorVars => MirrorInv'
<1> SUFFICES ASSUME MirrorInv, [MirrorNext]_mirrorVars PROVE MirrorInv'
  OBVIOUS
<1>1. CASE MirrorNext
  BY <1>1, SwitchSessionKeeps, BeHopStartsKeeps, BeHopEndsKeeps, BeTurnEndsKeeps, SendsPromptKeeps,
     RemoveFromDockKeeps, BeDispatchesKeeps, BeConnectsKeeps, UiHandlesKeeps DEF MirrorNext
<1>2. CASE UNCHANGED mirrorVars
  BY <1>2 DEF mirrorVars, hubVars, screenVars, MirrorInv, TabsFit, WireTrue, OrdersTrue, DockOwn, DockFollows, BusyFollows
<1>3. QED
  BY <1>1, <1>2

(* A queue and echoes, without the echoes, is the queue. *)
LEMMA EchoesOff ==
    ASSUME NEW d, NEW q, q \in Seq(Nat \ {Echo}), Echoed(d, q)
    PROVE  Picked(d, {i \in DOMAIN d : d[i] # Echo}) = q
<1> DEFINE n == Len(q)
<1>1. /\ n \in Nat /\ d \in Seq(Nat) /\ n <= Len(d) /\ Len(d) \in Nat /\ DOMAIN d = 1 .. Len(d)
      /\ \A i \in 1 .. n : q[i] \in Nat \ {Echo} /\ DOMAIN q = 1 .. n
  BY DEF Echoed
<1>2. \A i \in 1 .. n : d[i] = q[i]
  BY DEF Echoed
<1>3. \A i \in n + 1 .. Len(d) : d[i] = Echo
  BY DEF Echoed
<1>4. q \in [1 .. n -> Nat]
  <2>1. q \in Seq(Nat)
    OBVIOUS
  <2>2. QED
    BY <2>1
<1> HIDE DEF n
<1>5. {i \in DOMAIN d : d[i] # Echo} = 1 .. n
  <2>1. ASSUME NEW i \in 1 .. Len(d) PROVE i \in 1 .. n \/ i \in n + 1 .. Len(d)
    BY <1>1
  <2>2. \A i \in 1 .. n : i \in 1 .. Len(d)
    BY <1>1
  <2>3. QED
    BY <1>1, <1>2, <1>3, <2>1, <2>2
<1>6. 1 .. n \subseteq Nat /\ Cardinality(1 .. n) = n /\ \A k \in 1 .. n : Rank(1 .. n, k) = k
  <2>1. Cardinality(1 .. n) = n
    BY <1>1, FS_Interval
  <2>2. ASSUME NEW k \in 1 .. n PROVE Rank(1 .. n, k) = k
    <3>1. {j \in 1 .. n : j <= k} = 1 .. k /\ k \in Nat
      BY <1>1
    <3>2. Cardinality(1 .. k) = k
      BY <3>1, FS_Interval
    <3>3. QED
      BY <3>1, <3>2 DEF Rank
  <2>3. QED
    BY <1>1, <2>1, <2>2
<1>7. \A k \in 1 .. n : (CHOOSE i \in 1 .. n : Rank(1 .. n, i) = k) = k
  BY <1>6
<1>8. Picked(d, 1 .. n) = [k \in 1 .. n |-> d[k]]
  BY <1>6, <1>7 DEF Picked
<1>9. QED
  BY <1>2, <1>4, <1>5, <1>8

LEMMA MirrorSafe == MirrorInv => ScreenSettles
<1> SUFFICES ASSUME MirrorInv PROVE ScreenSettles
  OBVIOUS
<1>1. TabsFit /\ DockOwn /\ DockFollows /\ BusyFollows
  BY DEF MirrorInv
<1>2. \A i \in DOMAIN dock : dock[i] # Echo => prompts[dock[i]] = active
  BY <1>1 DEF DockOwn
<1>3. ASSUME Drained
      PROVE  /\ Picked(dock, {i \in DOMAIN dock : dock[i] # Echo}) = waiting[active]
             /\ busyTabs = {s \in Tabs : turnOf[s] \in {"hop", "gap"}}
  <2>1. wire = <<>> /\ orders = <<>> /\ Len(<<>>) = 0
    BY <1>3, EmptyIsSequence DEF Drained
  <2>2. ~LoadAsked(orders, active) /\ \A K, s, e : ~LatestIs(wire, K, s, e)
    BY <2>1 DEF LoadAsked, LatestIs
  <2>3. Echoed(dock, waiting[active])
    BY <1>1, <2>2 DEF DockFollows, QueueSaid
  <2>4. waiting[active] \in Seq(Nat \ {Echo})
    BY <1>1 DEF TabsFit, OwnPrompts
  <2>5. Picked(dock, {i \in DOMAIN dock : dock[i] # Echo}) = waiting[active]
    BY <2>3, <2>4, EchoesOff
  <2>6. \A s \in Tabs : s \in busyTabs <=> Runs(turnOf[s])
    BY <1>1, <2>2 DEF BusyFollows, BusySaid
  <2>7. busyTabs = {s \in Tabs : turnOf[s] \in {"hop", "gap"}}
    BY <1>1, <2>6 DEF TabsFit, Runs
  <2>8. QED
    BY <2>5, <2>7
<1>4. QED
  BY <1>2, <1>3 DEF ScreenSettles

(* Once everything sent has arrived, the dock offers what the backend      *)
(* holds for the open session and the busy marks are those of the turns    *)
(* that run (app.rs, chat.rs).                                             *)
THEOREM MirrorKept == MirrorSpec => []ScreenSettles
<1>1. MirrorInit => MirrorInv
  BY MirrorInitially
<1>2. MirrorInv => ScreenSettles
  BY MirrorSafe
<1>3. QED
  BY <1>1, <1>2, MirrorStep, PTL DEF MirrorSpec


-----------------------------------------------------------------------------
(* The sidebar. *)

WsSpec == WsInit /\ [][WsNext]_wsVars

Live(ss) == {s \in DOMAIN ss : ~ss[s].archived}

SessFits(ss) ==
    /\ IsFiniteSet(DOMAIN ss) /\ DOMAIN ss \subseteq Nat
    /\ \A s \in DOMAIN ss : DOMAIN ss[s] = {"cwd", "archived"}

RowFits(r) == r \in [path : Folders, sessions : Seq(Nat)]
DocFits(doc) ==
    /\ DOMAIN doc = {"order", "rows"} /\ doc.order \in Seq(DOMAIN doc.rows)
    /\ \A w \in DOMAIN doc.rows : RowFits(doc.rows[w])

(* What a projection draws. *)
Members(ss, there, p) == {s \in Live(ss) : Canonical(ss[s].cwd, there) = p}
DrawnTrue(v, doc, ss, there) ==
    /\ DOMAIN v.rows = DOMAIN doc.order
    /\ \A i \in DOMAIN v.rows :
          /\ v.rows[i].id = doc.order[i] /\ v.rows[i].path \in Folders
          /\ v.rows[i].missing <=> v.rows[i].path \notin there
          /\ ToSet(v.rows[i].members) = Members(ss, there, v.rows[i].path)
    /\ v.ungrouped = Live(ss) \ UNION {ToSet(v.rows[i].members) : i \in DOMAIN v.rows}

(* Sessions, newest first. *)
LEMMA DescendingIs ==
    ASSUME NEW S, S \subseteq Nat, IsFiniteSet(S)
    PROVE  Descending(S) \in Seq(Nat) /\ Range(Descending(S)) = S
<1> DEFINE h == [x \in S |-> x]
           p == Picked(h, S)
           n == Len(p)
           r == Reverse(p)
<1>1. (\A i \in S : h[i] = i) /\ \A i \in S : h[i] \in Nat
  OBVIOUS
<1>0. \A i \in S : h[i] \in Nat
  BY <1>1
<1> HIDE DEF h
<1>2. /\ p \in Seq(Nat)
      /\ \E f : Lists(f, S, Len(p)) /\ \A k \in 1 .. Len(p) : p[k] = h[f[k]]
  <2>1. PickedAs(Picked(h, S), h, S, Nat)
    BY <1>0, PickedFrom
  <2>2. QED
    BY <2>1 DEF PickedAs
<1> HIDE DEF p
<1>3. PICK f : Lists(f, S, n) /\ \A k \in 1 .. n : p[k] = h[f[k]]
  BY <1>2
<1>4. n \in Nat /\ \A k \in 1 .. n : p[k] \in S /\ p[k] \in Nat
  BY <1>1, <1>3 DEF Lists
<1>5. \A i \in S : \E k \in 1 .. n : p[k] = i
  BY <1>1, <1>3 DEF Lists
<1>6. r = [i \in 1 .. n |-> p[(n - i) + 1]]
  BY DEF Reverse
<1> HIDE DEF n, r
<1>7. \A i \in 1 .. n : (n - i) + 1 \in 1 .. n /\ (n - ((n - i) + 1)) + 1 = i
  BY <1>4
<1>8. r \in [1 .. n -> Nat]
  BY <1>4, <1>6, <1>7
<1>9. r \in Seq(Nat)
  BY <1>4, <1>8, FunctionIsSeq
<1>10. \A i \in 1 .. n : r[i] \in S
  BY <1>4, <1>6, <1>7
<1>11. ASSUME NEW x \in S PROVE \E i \in 1 .. n : r[i] = x
  <2>1. PICK k \in 1 .. n : p[k] = x
    BY <1>5
  <2> DEFINE i == (n - k) + 1
  <2>2. i \in 1 .. n /\ (n - i) + 1 = k
    BY <1>7
  <2> HIDE DEF i
  <2>3. r[i] = x
    BY <1>6, <2>1, <2>2
  <2>4. QED
    BY <2>2, <2>3
<1>12. DOMAIN r = 1 .. n
  BY <1>6
<1>13. Range(r) = S
  BY <1>10, <1>11, <1>12 DEF Range
<1>14. Descending(S) = r
  BY DEF Descending, r, p, h
<1>15. QED
  BY <1>9, <1>13, <1>14

(* The sessions of one row: those kept, then the rest. *)
Drawn(kept, S) == ToSet(kept \o Descending(S \ ToSet(kept)))

LEMMA MembersAre ==
    ASSUME NEW q \in Seq(Nat), NEW S, S \subseteq Nat, IsFiniteSet(S), NEW kept,
           kept = Picked(q, {i \in DOMAIN q : q[i] \in S})
    PROVE  Drawn(kept, S) = S
<1> DEFINE rest == S \ ToSet(kept)
           d == Descending(rest)
<1>1. kept \in Seq(Nat) /\ Range(kept) = Range(q) \cap S
  BY PickedOf
<1>2. ToSet(kept) = Range(kept)
  BY DEF ToSet, Range
<1>3. rest \subseteq Nat /\ IsFiniteSet(rest)
  BY FS_Subset
<1>4. d \in Seq(Nat) /\ Range(d) = rest
  <2> HIDE DEF rest
  <2>1. QED
    BY <1>3, DescendingIs
<1> HIDE DEF d
<1>5. Range(kept \o d) = Range(kept) \cup Range(d)
  BY <1>1, <1>4, RangeConcat DEF IsSequence
<1>6. ToSet(kept \o d) = Range(kept \o d)
  BY DEF ToSet, Range
<1>7. ToSet(kept \o d) = S
  BY <1>1, <1>2, <1>4, <1>5, <1>6
<1>8. QED
  BY <1>7 DEF d, Drawn

LEMMA LiveIsFinite == ASSUME NEW ss, SessFits(ss), NEW there, NEW p
                      PROVE  /\ Members(ss, there, p) \subseteq Nat /\ IsFiniteSet(Members(ss, there, p))
<1>1. Members(ss, there, p) \subseteq DOMAIN ss
  BY DEF Members, Live
<1>2. QED
  BY <1>1, FS_Subset DEF SessFits

LEMMA ProjectTrue ==
    ASSUME NEW doc, NEW ss, NEW there, DocFits(doc), SessFits(ss)
    PROVE  DrawnTrue(Project(doc, ss, there), doc, ss, there)
<1> DEFINE live == {s \in DOMAIN ss : ~ss[s].archived}
           Here(s, r) == Canonical(ss[s].cwd, there) = r.path
           Kept(r) == Picked(r.sessions, {i \in DOMAIN r.sessions : LET s == r.sessions[i] IN s \in live /\ Here(s, r)})
           Extra(r) == Descending({s \in live : Here(s, r)} \ ToSet(Kept(r)))
           Group(w) == [id |-> w, path |-> doc.rows[w].path, missing |-> doc.rows[w].path \notin there,
                        members |-> Kept(doc.rows[w]) \o Extra(doc.rows[w])]
           rows == [i \in DOMAIN doc.order |-> Group(doc.order[i])]
           v == [rows |-> rows, ungrouped |-> live \ UNION {ToSet(rows[i].members) : i \in DOMAIN rows}]
<1>1. Project(doc, ss, there) = v
  BY DEF Project
<1>2. live = Live(ss)
  BY DEF Live
<1>3. ASSUME NEW r, RowFits(r) PROVE ToSet(Kept(r) \o Extra(r)) = Members(ss, there, r.path)
  <2> DEFINE S == Members(ss, there, r.path)
             q == r.sessions
             at == {i \in DOMAIN q : q[i] \in S}
  <2>1. q \in Seq(Nat)
    BY <1>3 DEF RowFits
  <2>2. S \subseteq Nat /\ IsFiniteSet(S) /\ S = {s \in live : Here(s, r)}
    <3>1. S \subseteq Nat /\ IsFiniteSet(S)
      BY LiveIsFinite
    <3>2. S = {s \in live : Here(s, r)}
      BY DEF Members, Live
    <3>3. QED
      BY <3>1, <3>2
  <2>3. Kept(r) = Picked(q, at)
    BY DEF Members, Live
  <2>4. Extra(r) = Descending(S \ ToSet(Kept(r)))
    BY <2>2
  <2> DEFINE k == Kept(r)
  <2> HIDE DEF S, q, Kept, Extra
  <2>5. k = Picked(q, {i \in DOMAIN q : q[i] \in S})
    BY <2>3
  <2> HIDE DEF k
  <2>6. Drawn(k, S) = S
    BY <2>1, <2>2, <2>5, MembersAre
  <2>7. QED
    BY <2>4, <2>6 DEF S, k, Drawn
<1>4. doc.order \in Seq(DOMAIN doc.rows) /\ DOMAIN doc.order = 1 .. Len(doc.order)
  BY DEF DocFits
<1>5. ASSUME NEW i \in DOMAIN doc.order
      PROVE  LET w == doc.order[i]
             IN  /\ RowFits(doc.rows[w]) /\ rows[i].id = w /\ rows[i].path = doc.rows[w].path
                 /\ rows[i].missing = (doc.rows[w].path \notin there)
                 /\ rows[i].members = Kept(doc.rows[w]) \o Extra(doc.rows[w])
  <2>1. doc.order[i] \in DOMAIN doc.rows
    BY <1>4
  <2>2. RowFits(doc.rows[doc.order[i]])
    BY <2>1 DEF DocFits
  <2> HIDE DEF Kept, Extra
  <2>3. QED
    BY <2>2
<1>6. DOMAIN rows = DOMAIN doc.order
  OBVIOUS
<1> HIDE DEF Kept, Extra, rows
<1>7. ASSUME NEW i \in DOMAIN rows
      PROVE  /\ rows[i].id = doc.order[i] /\ rows[i].path \in Folders
             /\ rows[i].missing <=> rows[i].path \notin there
             /\ ToSet(rows[i].members) = Members(ss, there, rows[i].path)
  <2> DEFINE w == doc.order[i]
  <2>1. /\ RowFits(doc.rows[w]) /\ rows[i].id = w /\ rows[i].path = doc.rows[w].path
        /\ rows[i].missing = (doc.rows[w].path \notin there)
        /\ rows[i].members = Kept(doc.rows[w]) \o Extra(doc.rows[w])
    BY <1>5, <1>6
  <2>2. ToSet(rows[i].members) = Members(ss, there, rows[i].path)
    BY <1>3, <2>1
  <2>3. doc.rows[w].path \in Folders
    BY <2>1 DEF RowFits
  <2>4. QED
    BY <2>1, <2>2, <2>3
<1>8. v.rows = rows /\ v.ungrouped = Live(ss) \ UNION {ToSet(rows[i].members) : i \in DOMAIN rows}
  BY <1>2
<1> HIDE DEF v
<1>9. DrawnTrue(v, doc, ss, there)
  BY <1>6, <1>7, <1>8 DEF DrawnTrue
<1>10. QED
  BY <1>1, <1>9

-----------------------------------------------------------------------------
(* The document. *)

LEMMA WithoutIs == ASSUME NEW A, NEW s \in Seq(A), NEW x PROVE Without(s, x) \in Seq(A \ {x})
<1> DEFINE at == {i \in DOMAIN s : s[i] # x}
           B == A \ {x}
<1>1. at \subseteq DOMAIN s /\ \A i \in at : s[i] \in B
  <2>1. \A i \in DOMAIN s : s[i] \in A
    OBVIOUS
  <2>2. QED
    BY <2>1
<1> HIDE DEF at, B
<1>2. Picked(s, at) \in Seq(B)
  BY <1>1, PickedWithin
<1>3. QED
  BY <1>2 DEF Without, at, B

LEMMA WithoutStays == ASSUME NEW A, NEW s \in Seq(A), NEW x PROVE Without(s, x) \in Seq(A)
<1> DEFINE r == Without(s, x)
           B == A \ {x}
<1>1. r \in Seq(B)
  BY WithoutIs
<1>2. B \subseteq A
  OBVIOUS
<1> HIDE DEF r, B
<1>3. r \in Seq(A)
  BY <1>1, <1>2
<1>4. QED
  BY <1>3 DEF r

LEMMA InFrontOfIs ==
    ASSUME NEW A, NEW s \in Seq(A), NEW x \in A, NEW b PROVE InFrontOf(s, x, b) \in Seq(A)
<1> DEFINE r == Without(s, x)
<1>1. r \in Seq(A)
  BY WithoutStays
<1>2. CASE \E i \in DOMAIN r : r[i] = b
  <2> DEFINE i == CHOOSE j \in DOMAIN r : r[j] = b
  <2>1. InFrontOf(s, x, b) = InsertAt(r, i, x)
    BY <1>2 DEF InFrontOf
  <2>2. i \in DOMAIN r
    BY <1>2
  <2> HIDE DEF i, r
  <2>3. i \in 1 .. Len(r) /\ Len(r) \in Nat /\ i \in Nat /\ i - 1 \in Nat
    BY <1>1, <2>2
  <2>4. SubSeq(r, 1, i - 1) \in Seq(A) /\ SubSeq(r, i, Len(r)) \in Seq(A)
    <3>1. i - 1 <= Len(r) /\ 1 <= i
      BY <2>3
    <3> DEFINE m == i - 1
    <3>2. m \in Nat /\ m <= Len(r)
      BY <2>3, <3>1
    <3> HIDE DEF m
    <3>3. SubSeq(r, 1, m) \in Seq(A)
      BY <1>1, <2>3, <3>2
    <3>4. SubSeq(r, i, Len(r)) \in Seq(A)
      BY <1>1, <2>3
    <3>5. QED
      BY <3>3, <3>4 DEF m
  <2>5. <<x>> \in Seq(A)
    OBVIOUS
  <2> DEFINE front == SubSeq(r, 1, i - 1)
             back == SubSeq(r, i, Len(r))
  <2>6. InsertAt(r, i, x) = front \o <<x>> \o back
    BY DEF InsertAt
  <2> HIDE DEF front, back
  <2>7. front \o <<x>> \o back \in Seq(A)
    BY <2>4, <2>5 DEF front, back
  <2>8. QED
    BY <2>1, <2>6, <2>7
<1>3. CASE ~\E i \in DOMAIN r : r[i] = b
  <2>1. InFrontOf(s, x, b) = Append(r, x)
    BY <1>3 DEF InFrontOf
  <2> HIDE DEF r
  <2>2. QED
    BY <1>1, <2>1, AppendProperties
<1>4. QED
  BY <1>2, <1>3

LEMMA PruneFits == ASSUME NEW doc, DocFits(doc), NEW ss, NEW there PROVE DocFits(Prune(doc, ss, there))
<1> DEFINE Kept(r) == Picked(r.sessions, {i \in DOMAIN r.sessions :
                      LET s == r.sessions[i] IN Knows(ss, s) /\ Canonical(ss[s].cwd, there) = r.path})
           rows == [w \in DOMAIN doc.rows |-> [doc.rows[w] EXCEPT !.sessions = Kept(doc.rows[w])]]
           d == Prune(doc, ss, there)
<1>1. d = [doc EXCEPT !.rows = rows]
  BY DEF Prune
<1>2. ASSUME NEW w \in DOMAIN doc.rows PROVE RowFits(rows[w])
  <2> DEFINE r == doc.rows[w]
             at == {i \in DOMAIN r.sessions : LET s == r.sessions[i] IN Knows(ss, s) /\ Canonical(ss[s].cwd, there) = r.path}
  <2>1. RowFits(r)
    BY DEF DocFits
  <2>2. r.sessions \in Seq(Nat) /\ at \subseteq DOMAIN r.sessions /\ \A i \in at : r.sessions[i] \in Nat
    BY <2>1 DEF RowFits
  <2>3. Kept(r) = Picked(r.sessions, at)
    OBVIOUS
  <2> HIDE DEF at
  <2>4. Picked(r.sessions, at) \in Seq(Nat)
    BY <2>2, PickedWithin
  <2>5. rows[w] = [r EXCEPT !.sessions = Kept(r)]
    OBVIOUS
  <2> HIDE DEF Kept, rows, r
  <2>6. [r EXCEPT !.sessions = Kept(r)] \in [path : Folders, sessions : Seq(Nat)]
    BY <2>1, <2>3, <2>4 DEF RowFits
  <2>7. QED
    BY <2>5, <2>6 DEF RowFits
<1>3. DOMAIN rows = DOMAIN doc.rows
  OBVIOUS
<1> HIDE DEF rows, d
<1>4. DOMAIN d = {"order", "rows"} /\ d.order = doc.order /\ d.rows = rows
  BY <1>1 DEF DocFits
<1>5. QED
  BY <1>2, <1>3, <1>4 DEF DocFits, d

LEMMA NoDocFits == DocFits(NoDoc)
<1>1. <<>> \in Seq(DOMAIN <<>>) /\ DOMAIN <<>> = {}
  OBVIOUS
<1>2. QED
  BY <1>1 DEF NoDoc, DocFits

LEMMA LargestIsNumber == ASSUME NEW S, S \subseteq Nat, IsFiniteSet(S) PROVE LargestId(S) \in Nat
<1>1. CASE S = {}
  BY <1>1 DEF LargestId
<1>2. CASE S # {}
  <2> DEFINE n == Cardinality(S)
  <2>1. n \in Nat /\ n # 0
    BY <1>2, FS_CardinalityType, FS_EmptySet
  <2> DEFINE d == Descending(S)
  <2>2. \A i \in S : Rank(S, i) \in 1 .. n
    BY RanksGrow
  <2>3. \A i, j \in S : i < j => Rank(S, i) < Rank(S, j)
    BY RanksGrow
  <2> DEFINE ranks == {Rank(S, i) : i \in S}
  <2> HIDE DEF n
  <2>4. ranks \subseteq 1 .. n /\ ranks # {}
    BY <1>2, <2>2
  <2>5. PICK r \in ranks : \A q \in ranks : q <= r
    <3> HIDE DEF ranks
    <3>1. QED
      BY <2>1, <2>4, LastOf
  <2>6. PICK x \in S : r = Rank(S, x)
    OBVIOUS
  <2>7. ASSUME NEW y \in S PROVE y <= x
    <3>1. Rank(S, y) <= Rank(S, x) /\ x \in Nat /\ y \in Nat
      BY <2>5, <2>6
    <3>2. Rank(S, y) \in Nat /\ Rank(S, x) \in Nat
      BY <2>2, <2>1
    <3>3. ~(Rank(S, x) < Rank(S, y))
      BY <3>1, <3>2
    <3>4. ~(x < y)
      BY <2>3, <3>3
    <3>5. QED
      BY <3>1, <3>4
  <2>8. (CHOOSE z \in S : \A y \in S : y <= z) \in S
    BY <2>7
  <2>9. QED
    BY <1>2, <2>8 DEF LargestId
<1>3. QED
  BY <1>1, <1>2

LEMMA BootstrapFits ==
    ASSUME NEW ss, SessFits(ss), NEW there, there \subseteq Folders, NEW next \in Nat
    PROVE  DocFits(Bootstrap(ss, there, next)) /\ Len(Bootstrap(ss, there, next).order) \in Nat
<1> DEFINE firsts == {s \in DOMAIN ss : /\ ss[s].cwd \in there
                                        /\ \A r \in DOMAIN ss : ss[r].cwd = ss[s].cwd => s <= r}
           homes == [s \in DOMAIN ss |-> ss[s].cwd]
           sorted == Picked(homes, firsts)
           IdOf(i) == next + i - 1
           of(p) == {s \in DOMAIN ss : ss[s].cwd = p}
           order == [i \in DOMAIN sorted |-> IdOf(i)]
           rows == [w \in {IdOf(i) : i \in DOMAIN sorted} |->
                      [path |-> sorted[w - next + 1], sessions |-> Descending(of(sorted[w - next + 1]))]]
           doc == [order |-> order, rows |-> rows]
<1>1. Bootstrap(ss, there, next) = doc
  BY DEF Bootstrap
<1>2. firsts \subseteq Nat /\ IsFiniteSet(firsts) /\ \A s \in firsts : homes[s] \in Folders
  <2>1. firsts \subseteq DOMAIN ss /\ \A s \in firsts : homes[s] \in Folders
    OBVIOUS
  <2> HIDE DEF firsts, homes
  <2>2. QED
    BY <2>1, FS_Subset DEF SessFits
<1> HIDE DEF firsts, homes
<1>3. sorted \in Seq(Folders)
  <2>1. PickedAs(Picked(homes, firsts), homes, firsts, Folders)
    BY <1>2, PickedFrom
  <2>2. QED
    BY <2>1 DEF PickedAs
<1> HIDE DEF sorted
<1>4. DOMAIN sorted = 1 .. Len(sorted) /\ Len(sorted) \in Nat /\ \A i \in 1 .. Len(sorted) : sorted[i] \in Folders
  BY <1>3
<1>5. ASSUME NEW p PROVE Descending(of(p)) \in Seq(Nat)
  <2>1. of(p) \subseteq DOMAIN ss
    OBVIOUS
  <2> HIDE DEF of
  <2>2. of(p) \subseteq Nat /\ IsFiniteSet(of(p))
    BY <2>1, FS_Subset DEF SessFits
  <2>3. QED
    BY <2>2, DescendingIs
<1> HIDE DEF of
<1>6. ASSUME NEW w \in DOMAIN rows PROVE RowFits(rows[w])
  <2>1. PICK i \in 1 .. Len(sorted) : w = next + i - 1
    BY <1>4
  <2>2. w - next + 1 = i
    BY <1>4, <2>1
  <2>3. rows[w] = [path |-> sorted[i], sessions |-> Descending(of(sorted[i]))]
    BY <2>2
  <2> HIDE DEF rows
  <2>4. QED
    BY <1>4, <1>5, <2>3 DEF RowFits
<1>7. order \in [1 .. Len(sorted) -> DOMAIN rows]
  BY <1>4
<1>8. doc.order = order /\ doc.rows = rows /\ DOMAIN doc = {"order", "rows"}
  OBVIOUS
<1> DEFINE D == DOMAIN rows
<1>9. order \in [1 .. Len(sorted) -> D]
  BY <1>7
<1> HIDE DEF order, rows, doc, D
<1>10. order \in Seq(D) /\ Len(order) \in Nat
  BY <1>4, <1>9, FunctionIsSeq
<1>11. DocFits(doc)
  BY <1>6, <1>8, <1>10 DEF DocFits, D
<1>12. QED
  BY <1>1, <1>8, <1>10, <1>11

LEMMA LoadsFits ==
    ASSUME NEW disk, DocFits(disk), NEW ss, SessFits(ss), NEW there, there \subseteq Folders
    PROVE  DocFits(Loads(disk, ss, there).doc) /\ Loads(disk, ss, there).next \in Nat
<1> DEFINE next == LargestId(DOMAIN ss) + 1
           doc == IF DOMAIN disk.rows = {} THEN Bootstrap(ss, there, next) ELSE disk
<1>1. next \in Nat
  BY LargestIsNumber DEF SessFits
<1> HIDE DEF next
<1>2. DocFits(doc) /\ Len(doc.order) \in Nat
  <2>1. CASE DOMAIN disk.rows = {}
    BY <1>1, <2>1, BootstrapFits
  <2>2. CASE DOMAIN disk.rows # {}
    <3>1. disk.order \in Seq(DOMAIN disk.rows)
      BY DEF DocFits
    <3>2. Len(disk.order) \in Nat
      BY <3>1, LenProperties
    <3>3. QED
      BY <2>2, <3>2
  <2>3. QED
    BY <2>1, <2>2
<1>3. Loads(disk, ss, there) = [doc |-> doc, next |-> IF doc = disk THEN next ELSE next + Len(doc.order)]
  BY DEF Loads, next
<1> HIDE DEF doc
<1>4. QED
  BY <1>1, <1>2, <1>3

-----------------------------------------------------------------------------
(* The connection. *)

ListAsked(w) == \E k \in 1 .. Len(w) : w[k].ask = "list"
Removes(r, s) == r.ask \in {"delete", "archive"} /\ r.id = s
TakenBack(w, s) == \E k \in 1 .. Len(w) : Removes(w[k], s)
Announced(w) == \E k \in 1 .. Len(w) : w[k].ev = "created"

WsEvent(v) == [ev |-> "workspaces", view |-> v]
ListEvent(l) == [ev |-> "sessions", list |-> l]

(* What the sidebar draws is the projection of what is, or one is coming.  *)
ViewOk(dr, rq, ev, v, doc, ss, there) ==
    \/ dr
    \/ ListAsked(rq)
    \/ \E u : LatestIs(ev, {"workspaces"}, 0, WsEvent(u)) /\ DrawnTrue(u, doc, ss, there)
    \/ Unsaid(ev, {"workspaces"}, 0) /\ DrawnTrue(v, doc, ss, there)

(* Every session has its row, or will, or was just taken away. *)
HasRow(rq, ev, list, s) ==
    \/ ListAsked(rq)
    \/ Announced(ev)
    \/ TakenBack(rq, s)
    \/ \E l : s \in l /\ LatestIs(ev, {"sessions"}, 0, ListEvent(l))
    \/ Unsaid(ev, {"sessions"}, 0) /\ s \in list
ListOk(rq, ev, list, ss) == \A s \in Live(ss) : HasRow(rq, ev, list, s)

LEMMA QueueTaken ==
    ASSUME NEW w, IsSequence(w), w # <<>>
    PROVE  /\ ListAsked(w) => ListAsked(Tail(w)) \/ Head(w).ask = "list"
           /\ \A s : TakenBack(w, s) => TakenBack(Tail(w), s) \/ Removes(Head(w), s)
           /\ Announced(w) => Announced(Tail(w)) \/ Head(w).ev = "created"
<1> DEFINE t == Tail(w)
           n == Len(w)
           m == Len(t)
<1>1. PICK S : w \in Seq(S)
  BY DEF IsSequence
<1>2. /\ n \in Nat /\ n >= 1 /\ m = n - 1 /\ Head(w) = w[1] /\ \A i \in 1 .. m : t[i] = w[i + 1]
  BY <1>1
<1> HIDE DEF t, n, m
<1>3. ASSUME NEW k \in 1 .. n, k # 1 PROVE \E j \in 1 .. m : t[j] = w[k]
  <2>1. k - 1 \in 1 .. m /\ (k - 1) + 1 = k
    BY <1>2, <1>3
  <2>2. QED
    BY <1>2, <2>1
<1>4. ASSUME ListAsked(w) PROVE ListAsked(t) \/ Head(w).ask = "list"
  BY <1>2, <1>3, <1>4 DEF ListAsked, n, m
<1>5. ASSUME NEW s, TakenBack(w, s) PROVE TakenBack(t, s) \/ Removes(Head(w), s)
  BY <1>2, <1>3, <1>5 DEF TakenBack, n, m
<1>6. ASSUME Announced(w) PROVE Announced(t) \/ Head(w).ev = "created"
  BY <1>2, <1>3, <1>6 DEF Announced, n, m
<1>7. QED
  BY <1>4, <1>5, <1>6 DEF t

LEMMA QueueGrown ==
    ASSUME NEW w, IsSequence(w), NEW es, IsSequence(es)
    PROVE  /\ IsSequence(w \o es)
           /\ ListAsked(w) \/ ListAsked(es) => ListAsked(w \o es)
           /\ \A s : TakenBack(w, s) \/ TakenBack(es, s) => TakenBack(w \o es, s)
           /\ Announced(w) \/ Announced(es) => Announced(w \o es)
<1> DEFINE r == w \o es
           n == Len(w)
           m == Len(es)
<1>1. JoinOf(r, w, es)
  BY ConcatAre
<1> HIDE DEF r
<1>2. /\ n \in Nat /\ m \in Nat /\ Len(r) = n + m /\ IsSequence(r)
      /\ \A i \in 1 .. n : r[i] = w[i]
      /\ \A i \in 1 .. m : r[n + i] = es[i]
  BY <1>1 DEF JoinOf
<1> HIDE DEF n, m
<1>3. /\ \A i \in 1 .. n : i \in 1 .. Len(r) /\ r[i] = w[i]
      /\ \A i \in 1 .. m : n + i \in 1 .. Len(r) /\ r[n + i] = es[i]
  BY <1>2
<1>4. ASSUME ListAsked(w) \/ ListAsked(es) PROVE ListAsked(r)
  BY <1>3, <1>4 DEF ListAsked, n, m
<1>5. ASSUME NEW s, TakenBack(w, s) \/ TakenBack(es, s) PROVE TakenBack(r, s)
  BY <1>3, <1>5 DEF TakenBack, n, m
<1>6. ASSUME Announced(w) \/ Announced(es) PROVE Announced(r)
  BY <1>3, <1>6 DEF Announced, n, m
<1>7. QED
  BY <1>2, <1>4, <1>5, <1>6 DEF r

LEMMA OneRequest ==
    ASSUME NEW r
    PROVE  /\ IsSequence(<<r>>) /\ (r.ask = "list" => ListAsked(<<r>>))
           /\ \A s : Removes(r, s) => TakenBack(<<r>>, s)
<1> DEFINE w == <<r>>
<1>1. IsSequence(w) /\ Len(w) = 1 /\ w[1] = r
  BY OneEvent
<1> HIDE DEF w
<1>2. 1 \in 1 .. Len(w)
  BY <1>1
<1>3. QED
  BY <1>1, <1>2 DEF ListAsked, TakenBack, w

(* A request answered without a projection. *)
LEMMA QuietView ==
    ASSUME NEW dr, NEW rq, IsSequence(rq), rq # <<>>, Head(rq).ask # "list",
           NEW ev, IsSequence(ev), NEW es, IsSequence(es), Unsaid(es, {"workspaces"}, 0),
           NEW v, NEW doc, NEW ss, NEW there, ViewOk(dr, rq, ev, v, doc, ss, there)
    PROVE  ViewOk(dr, Tail(rq), ev \o es, v, doc, ss, there)
<1> DEFINE K == {"workspaces"}
           w == ev \o es
<1>1. ListAsked(rq) => ListAsked(Tail(rq))
  BY QueueTaken
<1>2. /\ Unsaid(ev, K, 0) => Unsaid(w, K, 0)
      /\ \A e : LatestIs(ev, K, 0, e) => LatestIs(w, K, 0, e)
  BY StreamGrows
<1> HIDE DEF w
<1>3. ViewOk(dr, Tail(rq), w, v, doc, ss, there)
  BY <1>1, <1>2 DEF ViewOk
<1>4. QED
  BY <1>3 DEF w

(* A request that leaves a session no row announces it. *)
LEMMA QuietList ==
    ASSUME NEW rq, IsSequence(rq), rq # <<>>, Head(rq).ask # "list",
           NEW ev, IsSequence(ev), NEW es, IsSequence(es), Unsaid(es, {"sessions"}, 0),
           NEW list, NEW ss, NEW ss2, ListOk(rq, ev, list, ss),
           \A s \in Live(ss2) : Announced(es) \/ (s \in Live(ss) /\ ~Removes(Head(rq), s))
    PROVE  ListOk(Tail(rq), ev \o es, list, ss2)
<1> DEFINE K == {"sessions"}
           w == ev \o es
<1>1. /\ ListAsked(rq) => ListAsked(Tail(rq))
      /\ \A s : TakenBack(rq, s) => TakenBack(Tail(rq), s) \/ Removes(Head(rq), s)
  BY QueueTaken
<1>2. /\ Unsaid(ev, K, 0) => Unsaid(w, K, 0)
      /\ \A e : LatestIs(ev, K, 0, e) => LatestIs(w, K, 0, e)
  BY StreamGrows
<1>3. Announced(ev) \/ Announced(es) => Announced(w)
  BY QueueGrown
<1> HIDE DEF w
<1>4. ASSUME NEW s \in Live(ss2) PROVE HasRow(Tail(rq), w, list, s)
  <2>1. CASE Announced(es)
    BY <1>3, <2>1 DEF HasRow
  <2>2. CASE s \in Live(ss) /\ ~Removes(Head(rq), s)
    <3>1. HasRow(rq, ev, list, s)
      BY <2>2 DEF ListOk
    <3>2. QED
      BY <1>1, <1>2, <1>3, <2>2, <3>1 DEF HasRow
  <2>3. QED
    BY <2>1, <2>2
<1>5. QED
  BY <1>4 DEF ListOk, w

(* A projection is sent, and a list of the sessions. *)
LEMMA SpokenView ==
    ASSUME NEW dr, NEW rq, NEW ev, IsSequence(ev), NEW es, IsSequence(es), NEW v, NEW doc, NEW ss,
           NEW there, DocFits(doc), SessFits(ss),
           LatestIs(es, {"workspaces"}, 0, WsEvent(Project(doc, ss, there)))
    PROVE  ViewOk(dr, rq, ev \o es, v, doc, ss, there)
<1> DEFINE u == Project(doc, ss, there)
           w == ev \o es
<1>1. DrawnTrue(u, doc, ss, there)
  BY ProjectTrue
<1>2. LatestIs(w, {"workspaces"}, 0, WsEvent(u))
  BY StreamGrows
<1> HIDE DEF u, w
<1>3. ViewOk(dr, rq, w, v, doc, ss, there)
  BY <1>1, <1>2 DEF ViewOk
<1>4. QED
  BY <1>3 DEF w

LEMMA SpokenList ==
    ASSUME NEW rq, NEW ev, IsSequence(ev), NEW es, IsSequence(es), NEW list, NEW ss,
           LatestIs(es, {"sessions"}, 0, ListEvent(Live(ss)))
    PROVE  ListOk(rq, ev \o es, list, ss)
<1>1. LatestIs(ev \o es, {"sessions"}, 0, ListEvent(Live(ss)))
  BY StreamGrows
<1>2. QED
  BY <1>1 DEF ListOk, HasRow

(* The user asks. *)
LEMMA AskedMore ==
    ASSUME NEW dr, NEW rq, IsSequence(rq), NEW added, IsSequence(added), NEW ev,
           NEW v, NEW v2, v2.rows = v.rows, v2.ungrouped = v.ungrouped,
           NEW doc, NEW ss, NEW there, ViewOk(dr, rq, ev, v, doc, ss, there)
    PROVE  ViewOk(dr, rq \o added, ev, v2, doc, ss, there)
<1>1. ListAsked(rq) => ListAsked(rq \o added)
  BY QueueGrown
<1>2. DrawnTrue(v, doc, ss, there) => DrawnTrue(v2, doc, ss, there)
  BY DEF DrawnTrue
<1>3. QED
  BY <1>1, <1>2 DEF ViewOk

LEMMA AskedToo ==
    ASSUME NEW rq, IsSequence(rq), NEW added, IsSequence(added), NEW ev, NEW list, NEW list2, NEW ss,
           \A s \in list : s \in list2 \/ TakenBack(added, s), ListOk(rq, ev, list, ss)
    PROVE  ListOk(rq \o added, ev, list2, ss)
<1>1. /\ ListAsked(rq) => ListAsked(rq \o added)
      /\ \A s : TakenBack(rq, s) \/ TakenBack(added, s) => TakenBack(rq \o added, s)
  BY QueueGrown
<1>2. QED
  BY <1>1 DEF ListOk, HasRow

(* An event arrives. *)
LEMMA ViewMoves ==
    ASSUME NEW dr, NEW rq, IsSequence(rq), NEW added, IsSequence(added), NEW ev, IsSequence(ev), ev # <<>>,
           NEW v, NEW v2, NEW doc, NEW ss, NEW there, ViewOk(dr, rq, ev, v, doc, ss, there),
           IF Head(ev).ev = "workspaces"
           THEN v2.rows = Head(ev).view.rows /\ v2.ungrouped = Head(ev).view.ungrouped
           ELSE v2.rows = v.rows /\ v2.ungrouped = v.ungrouped
    PROVE  ViewOk(dr, rq \o added, Tail(ev), v2, doc, ss, there)
<1> DEFINE K == {"workspaces"}
           t == Tail(ev)
<1>1. ListAsked(rq) => ListAsked(rq \o added)
  BY QueueGrown
<1>2. /\ Unsaid(ev, K, 0) => Unsaid(t, K, 0) /\ ~Bears(Head(ev), K, 0)
      /\ \A e : LatestIs(ev, K, 0, e) =>
                    LatestIs(t, K, 0, e) \/ (Head(ev) = e /\ Bears(e, K, 0) /\ Unsaid(t, K, 0))
  BY StreamMoves
<1> HIDE DEF t
<1>3. CASE dr \/ ListAsked(rq)
  BY <1>1, <1>3 DEF ViewOk
<1>4. CASE \E u : LatestIs(ev, K, 0, WsEvent(u)) /\ DrawnTrue(u, doc, ss, there)
  <2>1. PICK u : LatestIs(ev, K, 0, WsEvent(u)) /\ DrawnTrue(u, doc, ss, there)
    BY <1>4
  <2>2. CASE LatestIs(t, K, 0, WsEvent(u))
    BY <2>1, <2>2 DEF ViewOk, t
  <2>3. CASE Head(ev) = WsEvent(u) /\ Unsaid(t, K, 0)
    <3>1. Head(ev).ev = "workspaces" /\ Head(ev).view = u
      BY <2>3 DEF WsEvent
    <3>2. v2.rows = u.rows /\ v2.ungrouped = u.ungrouped
      BY <3>1
    <3>3. DrawnTrue(v2, doc, ss, there)
      BY <2>1, <3>2 DEF DrawnTrue
    <3>4. QED
      BY <2>3, <3>3 DEF ViewOk, t
  <2>4. QED
    BY <1>2, <2>1, <2>2, <2>3
<1>5. CASE Unsaid(ev, K, 0) /\ DrawnTrue(v, doc, ss, there)
  <2>1. Unsaid(t, K, 0) /\ Head(ev).ev # "workspaces"
    BY <1>2, <1>5 DEF Bears
  <2>2. DrawnTrue(v2, doc, ss, there)
    BY <1>5, <2>1 DEF DrawnTrue
  <2>3. QED
    BY <2>1, <2>2 DEF ViewOk, t
<1>6. QED
  BY <1>3, <1>4, <1>5 DEF ViewOk

LEMMA ListMoves ==
    ASSUME NEW rq, IsSequence(rq), NEW added, IsSequence(added), NEW ev, IsSequence(ev), ev # <<>>,
           NEW list, NEW list2, NEW ss, ListOk(rq, ev, list, ss),
           Head(ev).ev = "created" => ListAsked(added),
           IF Head(ev).ev = "sessions" THEN list2 = Head(ev).list ELSE list \subseteq list2
    PROVE  ListOk(rq \o added, Tail(ev), list2, ss)
<1> DEFINE K == {"sessions"}
           t == Tail(ev)
           q == rq \o added
<1>1. /\ ListAsked(rq) \/ ListAsked(added) => ListAsked(q)
      /\ \A s : TakenBack(rq, s) => TakenBack(q, s)
  BY QueueGrown
<1>2. /\ Unsaid(ev, K, 0) => Unsaid(t, K, 0) /\ ~Bears(Head(ev), K, 0)
      /\ \A e : LatestIs(ev, K, 0, e) =>
                    LatestIs(t, K, 0, e) \/ (Head(ev) = e /\ Bears(e, K, 0) /\ Unsaid(t, K, 0))
  BY StreamMoves
<1>3. Announced(ev) => Announced(t) \/ Head(ev).ev = "created"
  BY QueueTaken
<1> HIDE DEF t, q
<1>4. ASSUME NEW s \in Live(ss) PROVE HasRow(q, t, list2, s)
  <2>1. HasRow(rq, ev, list, s)
    BY DEF ListOk
  <2>2. CASE ListAsked(rq) \/ Announced(ev) \/ TakenBack(rq, s)
    BY <1>1, <1>3, <2>2 DEF HasRow
  <2>3. CASE \E l : s \in l /\ LatestIs(ev, K, 0, ListEvent(l))
    <3>1. PICK l : s \in l /\ LatestIs(ev, K, 0, ListEvent(l))
      BY <2>3
    <3>2. CASE LatestIs(t, K, 0, ListEvent(l))
      BY <3>1, <3>2 DEF HasRow
    <3>3. CASE Head(ev) = ListEvent(l) /\ Unsaid(t, K, 0)
      <4>1. Head(ev).ev = "sessions" /\ Head(ev).list = l
        BY <3>3 DEF ListEvent
      <4>2. s \in list2
        BY <3>1, <4>1
      <4>3. QED
        BY <3>3, <4>2 DEF HasRow
    <3>4. QED
      BY <1>2, <3>1, <3>2, <3>3
  <2>4. CASE Unsaid(ev, K, 0) /\ s \in list
    <3>1. Unsaid(t, K, 0) /\ Head(ev).ev # "sessions"
      BY <1>2, <2>4 DEF Bears
    <3>2. QED
      BY <2>4, <3>1 DEF HasRow
  <2>5. QED
    BY <2>1, <2>2, <2>3, <2>4 DEF HasRow
<1>5. QED
  BY <1>4 DEF ListOk, t, q

-----------------------------------------------------------------------------
(* The invariant of the sidebar and the registry. *)

BackFits ==
    /\ nextId \in Nat /\ DocFits(wsDoc) /\ DocFits(wsDisk) /\ SessFits(sess) /\ mounted \subseteq Folders
WireFits ==
    /\ IsSequence(reqs) /\ IsSequence(evs)
    /\ DOMAIN side = {"rows", "ungrouped", "list", "current", "creating"}
ViewFollows == ViewOk(drifted, reqs, evs, side, wsDoc, sess, mounted)
ListFollows == ListOk(reqs, evs, side.list, sess)
WsInv == BackFits /\ WireFits /\ ViewFollows /\ ListFollows

LEMMA WithoutKeyIs ==
    ASSUME NEW f, NEW k
    PROVE  /\ DOMAIN WithoutKey(f, k) = DOMAIN f \ {k}
           /\ \A x \in DOMAIN f : x # k => WithoutKey(f, k)[x] = f[x]
  BY DEF WithoutKey

LEMMA CreatedFits ==
    ASSUME NEW doc, DocFits(doc), NEW n, NEW p \in Folders
    PROVE  DocFits([order |-> Append(doc.order, n),
                    rows |-> WithKey(doc.rows, n, [path |-> p, sessions |-> <<>>])])
<1> DEFINE row == [path |-> p, sessions |-> <<>>]
           rows == WithKey(doc.rows, n, row)
           order == Append(doc.order, n)
           d == [order |-> order, rows |-> rows]
           D == DOMAIN doc.rows
           E == DOMAIN rows
<1>2. RowFits(row)
  BY DEF RowFits
<1> HIDE DEF row
<1>1. /\ DOMAIN rows = DOMAIN doc.rows \cup {n} /\ rows[n] = row
      /\ \A x \in DOMAIN doc.rows : x # n => rows[x] = doc.rows[x]
  BY DEF WithKey
<1> HIDE DEF rows
<1>3. \A w \in DOMAIN rows : RowFits(rows[w])
  BY <1>1, <1>2 DEF DocFits
<1>4. doc.order \in Seq(D) /\ D \subseteq E /\ n \in E
  BY <1>1 DEF DocFits
<1> HIDE DEF D, E
<1>5. order \in Seq(E)
  BY <1>4, AppendProperties
<1> HIDE DEF order
<1>6. d.order = order /\ d.rows = rows /\ DOMAIN d = {"order", "rows"}
  OBVIOUS
<1> HIDE DEF d
<1>7. DocFits(d)
  BY <1>3, <1>5, <1>6 DEF DocFits, E
<1>8. QED
  BY <1>7 DEF d, order, rows, row

LEMMA RemovedFits ==
    ASSUME NEW doc, DocFits(doc), NEW w
    PROVE  DocFits([order |-> Without(doc.order, w), rows |-> WithoutKey(doc.rows, w)])
<1> DEFINE rows == WithoutKey(doc.rows, w)
           order == Without(doc.order, w)
           d == [order |-> order, rows |-> rows]
           D == DOMAIN doc.rows
           E == DOMAIN rows
<1>1. /\ DOMAIN rows = DOMAIN doc.rows \ {w}
      /\ \A x \in DOMAIN doc.rows : x # w => rows[x] = doc.rows[x]
  BY WithoutKeyIs
<1> HIDE DEF rows
<1>2. \A x \in DOMAIN rows : RowFits(rows[x])
  BY <1>1 DEF DocFits
<1>3. doc.order \in Seq(D) /\ E = D \ {w}
  BY <1>1 DEF DocFits
<1> HIDE DEF D, E
<1>4. order \in Seq(D \ {w})
  BY <1>3, WithoutIs
<1> HIDE DEF order
<1>5. order \in Seq(E)
  BY <1>3, <1>4
<1>6. d.order = order /\ d.rows = rows /\ DOMAIN d = {"order", "rows"}
  OBVIOUS
<1> HIDE DEF d
<1>7. DocFits(d)
  BY <1>2, <1>5, <1>6 DEF DocFits, E
<1>8. QED
  BY <1>7 DEF d, order, rows

LEMMA ReorderedFits ==
    ASSUME NEW doc, DocFits(doc), NEW w \in DOMAIN doc.rows, NEW b
    PROVE  DocFits([doc EXCEPT !.order = InFrontOf(@, w, b)])
<1> DEFINE order == InFrontOf(doc.order, w, b)
           d == [doc EXCEPT !.order = order]
           D == DOMAIN doc.rows
<1>1. doc.order \in Seq(D) /\ w \in D
  BY DEF DocFits
<1> HIDE DEF D
<1>2. order \in Seq(D)
  BY <1>1, InFrontOfIs
<1> HIDE DEF order
<1>3. d.order = order /\ d.rows = doc.rows /\ DOMAIN d = {"order", "rows"}
  BY DEF DocFits
<1> HIDE DEF d
<1>4. DocFits(d)
  BY <1>2, <1>3 DEF DocFits, D
<1>5. QED
  BY <1>4 DEF d, order

LEMMA JoinedFits ==
    ASSUME NEW doc, DocFits(doc), NEW w \in DOMAIN doc.rows, NEW n \in Nat
    PROVE  DocFits([doc EXCEPT !.rows[w].sessions = <<n>> \o Without(@, n)])
<1> DEFINE row == doc.rows[w]
           q == <<n>> \o Without(row.sessions, n)
           next == [row EXCEPT !.sessions = q]
           rows == [doc.rows EXCEPT ![w] = next]
           d == [doc EXCEPT !.rows = rows]
<1>1. row \in [path : Folders, sessions : Seq(Nat)]
  BY DEF DocFits, RowFits
<1>2. q \in Seq(Nat)
  <2> DEFINE r == Without(row.sessions, n)
  <2>3. r \in Seq(Nat)
    BY <1>1, WithoutStays
  <2> HIDE DEF r
  <2> DEFINE one == <<n>>
  <2>6. one \in Seq(Nat)
    OBVIOUS
  <2> HIDE DEF one
  <2>4. one \o r \in Seq(Nat)
    BY <2>3, <2>6
  <2>5. QED
    BY <2>4 DEF r, one
<1> HIDE DEF row, q
<1>3. next \in [path : Folders, sessions : Seq(Nat)]
  BY <1>1, <1>2
<1> HIDE DEF next
<1>4. DOMAIN rows = DOMAIN doc.rows /\ \A x \in DOMAIN rows : rows[x] = IF x = w THEN next ELSE doc.rows[x]
  OBVIOUS
<1> HIDE DEF rows
<1>5. d.rows = rows /\ d.order = doc.order /\ DOMAIN d = {"order", "rows"}
  BY DEF DocFits
<1> HIDE DEF d
<1>6. DocFits(d)
  BY <1>3, <1>4, <1>5 DEF DocFits, RowFits
<1>7. QED
  BY <1>6 DEF d, rows, next, q, row

LEMMA SessGrows ==
    ASSUME NEW ss, SessFits(ss), NEW n \in Nat, NEW c
    PROVE  LET added == WithKey(ss, n, [cwd |-> c, archived |-> FALSE])
           IN  SessFits(added) /\ Live(added) \subseteq Live(ss) \cup {n}
<1> DEFINE h == [cwd |-> c, archived |-> FALSE]
           added == WithKey(ss, n, h)
<1>2. DOMAIN h = {"cwd", "archived"}
  OBVIOUS
<1> HIDE DEF h
<1>1. /\ DOMAIN added = DOMAIN ss \cup {n} /\ added[n] = h
      /\ \A x \in DOMAIN ss : x # n => added[x] = ss[x]
  BY DEF WithKey
<1> HIDE DEF added
<1>3. IsFiniteSet(DOMAIN ss \cup {n})
  BY FS_AddElement DEF SessFits
<1>4. SessFits(added)
  BY <1>1, <1>2, <1>3 DEF SessFits
<1>5. Live(added) \subseteq Live(ss) \cup {n}
  BY <1>1 DEF Live
<1>6. QED
  BY <1>4, <1>5 DEF added, h

LEMMA SessShrinks ==
    ASSUME NEW ss, SessFits(ss), NEW s
    PROVE  SessFits(WithoutKey(ss, s)) /\ Live(WithoutKey(ss, s)) \subseteq Live(ss) \ {s}
<1> DEFINE less == WithoutKey(ss, s)
<1>1. DOMAIN less = DOMAIN ss \ {s} /\ \A x \in DOMAIN ss : x # s => less[x] = ss[x]
  BY WithoutKeyIs
<1> HIDE DEF less
<1>2. IsFiniteSet(DOMAIN ss \ {s})
  BY FS_RemoveElement DEF SessFits
<1>3. SessFits(less)
  BY <1>1, <1>2 DEF SessFits
<1>4. Live(less) \subseteq Live(ss) \ {s}
  BY <1>1 DEF Live
<1>5. QED
  BY <1>3, <1>4 DEF less

LEMMA SessArchives ==
    ASSUME NEW ss, SessFits(ss), NEW s \in DOMAIN ss
    PROVE  LET kept == [ss EXCEPT ![s].archived = TRUE]
           IN  SessFits(kept) /\ Live(kept) \subseteq Live(ss) \ {s}
<1> DEFINE h == [ss[s] EXCEPT !.archived = TRUE]
           kept == [ss EXCEPT ![s] = h]
<1>1. DOMAIN ss[s] = {"cwd", "archived"}
  BY DEF SessFits
<1>2. DOMAIN h = {"cwd", "archived"} /\ h.archived = TRUE
  BY <1>1
<1> HIDE DEF h
<1>3. DOMAIN kept = DOMAIN ss /\ \A x \in DOMAIN ss : kept[x] = IF x = s THEN h ELSE ss[x]
  OBVIOUS
<1> HIDE DEF kept
<1>4. SessFits(kept)
  BY <1>2, <1>3 DEF SessFits
<1>5. Live(kept) \subseteq Live(ss) \ {s}
  BY <1>2, <1>3 DEF Live
<1>6. QED
  BY <1>4, <1>5 DEF kept, h

(* The backend answers: with a projection, or with none where it changed   *)
(* nothing the projection shows.                                           *)
LEMMA HubAnswers ==
    ASSUME WsInv, NEW es, IsSequence(es), reqs # <<>>, Head(reqs).ask # "list", HubReplies(es),
           LatestIs(es, {"workspaces"}, 0, WsEvent(Project(wsDoc', sess', mounted'))),
           Unsaid(es, {"sessions"}, 0), BackFits', UNCHANGED side,
           \A s \in Live(sess') : Announced(es) \/ (s \in Live(sess) /\ ~Removes(Head(reqs), s))
    PROVE  WsInv'
<1>1. reqs' = Tail(reqs) /\ evs' = evs \o es /\ side' = side
  BY DEF HubReplies
<1>2. IsSequence(reqs) /\ IsSequence(evs)
  BY DEF WsInv, WireFits
<1>3. WireFits'
  <2>1. IsSequence(Tail(reqs)) /\ IsSequence(evs \o es)
    BY <1>2, StreamMoves, QueueGrown
  <2>2. QED
    BY <1>1, <2>1 DEF WsInv, WireFits
<1>4. ViewOk(drifted', Tail(reqs), evs \o es, side, wsDoc', sess', mounted')
  <2>1. DocFits(wsDoc') /\ SessFits(sess')
    BY DEF BackFits
  <2>2. QED
    BY <1>2, <2>1, SpokenView
<1>5. ListOk(Tail(reqs), evs \o es, side.list, sess')
  BY <1>2, QuietList DEF WsInv, ListFollows
<1>6. QED
  BY <1>1, <1>3, <1>4, <1>5 DEF WsInv, ViewFollows, ListFollows

LEMMA HubSettles ==
    ASSUME WsInv, NEW es, IsSequence(es), reqs # <<>>, Head(reqs).ask # "list", HubReplies(es),
           Unsaid(es, {"workspaces"}, 0), Unsaid(es, {"sessions"}, 0),
           BackFits', UNCHANGED <<side, wsDoc, sess, mounted, drifted>>,
           \A s \in Live(sess) : ~Removes(Head(reqs), s)
    PROVE  WsInv'
<1>1. reqs' = Tail(reqs) /\ evs' = evs \o es /\ side' = side
  BY DEF HubReplies
<1>2. IsSequence(reqs) /\ IsSequence(evs)
  BY DEF WsInv, WireFits
<1>3. WireFits'
  <2>1. IsSequence(Tail(reqs)) /\ IsSequence(evs \o es)
    BY <1>2, StreamMoves, QueueGrown
  <2>2. QED
    BY <1>1, <2>1 DEF WsInv, WireFits
<1>4. ViewOk(drifted, Tail(reqs), evs \o es, side, wsDoc, sess, mounted)
  BY <1>2, QuietView DEF WsInv, ViewFollows
<1>5. ListOk(Tail(reqs), evs \o es, side.list, sess)
  BY <1>2, QuietList DEF WsInv, ListFollows
<1>6. QED
  BY <1>1, <1>3, <1>4, <1>5 DEF WsInv, ViewFollows, ListFollows

(* A mutation of the registry. *)
LEMMA MutatesKeeps ==
    ASSUME WsInv, NEW doc, DocFits(doc), reqs # <<>>, Head(reqs).ask \notin {"list", "delete", "archive"},
           Mutates(doc, sess), UNCHANGED <<side, sess, mounted>>, nextId' \in Nat
    PROVE  WsInv'
<1> DEFINE d == Prune(doc, sess, mounted)
           e == WsEvent(Project(d, sess, mounted))
<1>1. wsDoc' = d /\ wsDisk' = d /\ HubReplies(<<e>> \o <<e>>)
  BY DEF Mutates, Published, AsEvent, WsEvent
<1>2. DocFits(d)
  BY PruneFits
<1>3. BackFits'
  <2> HIDE DEF d
  <2>1. QED
    BY <1>1, <1>2 DEF BackFits, WsInv
<1>4. Bears(e, {"workspaces"}, 0) /\ ~Bears(e, {"sessions"}, 0)
  BY DEF Bears, WsEvent
<1>5. e = WsEvent(Project(wsDoc', sess', mounted'))
  BY <1>1
<1> HIDE DEF e, d
<1> DEFINE es == <<e>> \o <<e>>
<1>6. IsSequence(es) /\ LatestIs(es, {"workspaces"}, 0, e) /\ Unsaid(es, {"sessions"}, 0)
  <2>1. IsSequence(<<e>>) /\ LatestIs(<<e>>, {"workspaces"}, 0, e) /\ Unsaid(<<e>>, {"sessions"}, 0)
    BY <1>4, OneEvent
  <2> DEFINE w == <<e>>
  <2> HIDE DEF w
  <2>2. IsSequence(w) /\ LatestIs(w, {"workspaces"}, 0, e) /\ Unsaid(w, {"sessions"}, 0)
    BY <2>1 DEF w
  <2>3. IsSequence(w \o w) /\ LatestIs(w \o w, {"workspaces"}, 0, e) /\ Unsaid(w \o w, {"sessions"}, 0)
    BY <2>2, StreamGrows, QueueGrown
  <2>4. QED
    BY <2>3 DEF w
<1>7. HubReplies(es)
  BY <1>1
<1> HIDE DEF es
<1>8. \A s \in Live(sess') : Announced(es) \/ (s \in Live(sess) /\ ~Removes(Head(reqs), s))
  BY DEF Removes
<1>9. LatestIs(es, {"workspaces"}, 0, WsEvent(Project(wsDoc', sess', mounted')))
  BY <1>5, <1>6
<1>10. QED
  BY <1>3, <1>6, <1>7, <1>8, <1>9, HubAnswers

LEMMA RefusalKeeps ==
    ASSUME WsInv, reqs # <<>>, Head(reqs).ask \notin {"list", "delete", "archive"},
           HubReplies(<<[ev |-> "failed"]>>), UNCHANGED <<wsDoc, wsDisk, drifted, side, sess, mounted>>,
           nextId' \in Nat
    PROVE  WsInv'
<1> DEFINE e == [ev |-> "failed"]
           es == <<e>>
<1>1. ~Bears(e, {"workspaces"}, 0) /\ ~Bears(e, {"sessions"}, 0)
  BY DEF Bears
<1> HIDE DEF e
<1>2. IsSequence(es) /\ Unsaid(es, {"workspaces"}, 0) /\ Unsaid(es, {"sessions"}, 0)
  BY <1>1, OneEvent
<1>3. HubReplies(es)
  BY DEF e
<1> HIDE DEF es
<1>4. BackFits'
  BY DEF WsInv, BackFits
<1>5. \A s \in Live(sess) : ~Removes(Head(reqs), s)
  BY DEF Removes
<1>6. QED
  BY <1>2, <1>3, <1>4, <1>5, HubSettles

(* The projection after a change of the sessions, and what follows it. *)
LEMMA PublishedKeeps ==
    ASSUME WsInv, NEW doc, DocFits(doc), NEW ss, SessFits(ss), reqs # <<>>, Head(reqs).ask # "list",
           NEW tail, tail = <<>> \/ \E n : tail = <<[ev |-> "created", id |-> n]>>,
           HubReplies(Published(doc, ss)[2] \o tail), sess' = ss, wsDoc' = Published(doc, ss)[1],
           DocFits(wsDisk'), UNCHANGED <<side, mounted>>, nextId' \in Nat,
           \A s \in Live(ss) : Announced(tail) \/ (s \in Live(sess) /\ ~Removes(Head(reqs), s))
    PROVE  WsInv'
<1> DEFINE d == Prune(doc, ss, mounted)
           e == WsEvent(Project(d, ss, mounted))
           w == <<e>>
           es == w \o tail
<1>1. wsDoc' = d /\ HubReplies(es)
  BY DEF Published, AsEvent, WsEvent
<1>2. DocFits(d)
  BY PruneFits
<1>3. BackFits'
  <2> HIDE DEF d
  <2>1. QED
    BY <1>1, <1>2 DEF BackFits, WsInv
<1>4. Bears(e, {"workspaces"}, 0) /\ ~Bears(e, {"sessions"}, 0)
  BY DEF Bears, WsEvent
<1>5. e = WsEvent(Project(wsDoc', sess', mounted'))
  BY <1>1
<1> HIDE DEF e, d
<1>6. IsSequence(w) /\ LatestIs(w, {"workspaces"}, 0, e) /\ Unsaid(w, {"sessions"}, 0)
  BY <1>4, OneEvent
<1> HIDE DEF w
<1>7. IsSequence(tail) /\ Unsaid(tail, {"workspaces"}, 0) /\ Unsaid(tail, {"sessions"}, 0)
  <2>1. CASE tail = <<>>
    <3>1. <<>> \in Seq({}) /\ Len(<<>>) = 0
      OBVIOUS
    <3>2. QED
      BY <2>1, <3>1 DEF IsSequence, Unsaid
  <2>2. CASE \E n : tail = <<[ev |-> "created", id |-> n]>>
    <3>1. PICK n : tail = <<[ev |-> "created", id |-> n]>>
      BY <2>2
    <3> DEFINE c == [ev |-> "created", id |-> n]
    <3>2. ~Bears(c, {"workspaces"}, 0) /\ ~Bears(c, {"sessions"}, 0)
      BY DEF Bears
    <3>3. tail = <<c>>
      BY <3>1
    <3> HIDE DEF c
    <3>4. QED
      BY <3>2, <3>3, OneEvent
  <2>3. QED
    BY <2>1, <2>2
<1>8. IsSequence(es) /\ LatestIs(es, {"workspaces"}, 0, e) /\ Unsaid(es, {"sessions"}, 0)
  BY <1>6, <1>7, StreamGrows, QueueGrown
<1>9. Announced(tail) => Announced(es)
  BY <1>6, <1>7, QueueGrown
<1> HIDE DEF es
<1>10. \A s \in Live(sess') : Announced(es) \/ (s \in Live(sess) /\ ~Removes(Head(reqs), s))
  BY <1>9
<1>11. LatestIs(es, {"workspaces"}, 0, WsEvent(Project(wsDoc', sess', mounted')))
  BY <1>5, <1>8
<1>12. QED
  BY <1>1, <1>3, <1>8, <1>10, <1>11, HubAnswers

LEMMA CreatedAnnounces == ASSUME NEW n PROVE Announced(<<[ev |-> "created", id |-> n]>>)
<1> DEFINE c == [ev |-> "created", id |-> n]
           w == <<c>>
<1>1. c.ev = "created"
  OBVIOUS
<1> HIDE DEF c
<1>2. Len(w) = 1 /\ w[1] = c
  BY OneEvent
<1> HIDE DEF w
<1>3. 1 \in 1 .. Len(w)
  BY <1>2
<1>4. Announced(w)
  BY <1>1, <1>2, <1>3 DEF Announced
<1>5. QED
  BY <1>4 DEF w, c

LEMMA WsStarts == WsInit => WsInv
<1> SUFFICES ASSUME WsInit PROVE WsInv
  OBVIOUS
<1> DEFINE l == Loads(NoDoc, Restored, Folders)
<1>1. SessFits(Restored)
  <2>1. \A s \in DOMAIN Restored : DOMAIN Restored[s] = {"cwd", "archived"}
    BY WorkspacesAssumption
  <2>2. QED
    BY <2>1, WorkspacesAssumption DEF SessFits
<1>2. DocFits(l.doc) /\ l.next \in Nat
  BY <1>1, NoDocFits, LoadsFits
<1>3. nextId = l.next /\ wsDoc = l.doc /\ wsDisk = l.doc /\ sess = Restored /\ mounted = Folders
  BY DEF WsInit
<1> HIDE DEF l
<1>4. BackFits
  BY <1>1, <1>2, <1>3 DEF BackFits
<1> DEFINE r == [ask |-> "list"]
<1>5. IsSequence(<<r>>) /\ ListAsked(<<r>>)
  <2>1. r.ask = "list"
    OBVIOUS
  <2> HIDE DEF r
  <2>2. QED
    BY <2>1, OneRequest
<1>6. reqs = <<r>> /\ evs = <<>> /\ DOMAIN side = {"rows", "ungrouped", "list", "current", "creating"}
  BY DEF WsInit
<1>7. IsSequence(evs)
  <2>1. <<>> \in Seq({})
    OBVIOUS
  <2>2. QED
    BY <1>6, <2>1 DEF IsSequence
<1>8. ListAsked(reqs) /\ IsSequence(reqs)
  BY <1>5, <1>6
<1>9. QED
  BY <1>4, <1>6, <1>7, <1>8 DEF WsInv, WireFits, ViewFollows, ListFollows, ViewOk, ListOk, HasRow

LEMMA ListWorkspacesKeeps == WsInv /\ ListWorkspaces => WsInv'
<1> SUFFICES ASSUME WsInv, ListWorkspaces PROVE WsInv'
  OBVIOUS
<1> DEFINE e == WsEvent(Project(wsDoc, sess, mounted))
           f == ListEvent(Live(sess))
           es == <<e, f>>
<1>1. /\ reqs # <<>> /\ reqs' = Tail(reqs) /\ evs' = evs \o es /\ side' = side
      /\ wsDoc' = wsDoc /\ wsDisk' = wsDisk /\ sess' = sess /\ mounted' = mounted /\ nextId' = nextId
  BY DEF ListWorkspaces, ReqIs, HubReplies, AsEvent, WsEvent, ListEvent, Live
<1>2. /\ Bears(e, {"workspaces"}, 0) /\ ~Bears(e, {"sessions"}, 0)
      /\ ~Bears(f, {"workspaces"}, 0) /\ Bears(f, {"sessions"}, 0)
  BY DEF Bears, WsEvent, ListEvent
<1> HIDE DEF e, f
<1>3. IsSequence(es) /\ LatestIs(es, {"workspaces"}, 0, e) /\ LatestIs(es, {"sessions"}, 0, f)
  BY <1>2, TwoEvents
<1> HIDE DEF es
<1>4. IsSequence(reqs) /\ IsSequence(evs) /\ DocFits(wsDoc) /\ SessFits(sess)
  BY DEF WsInv, WireFits, BackFits
<1>5. BackFits'
  BY <1>1 DEF WsInv, BackFits
<1>6. WireFits'
  <2>1. IsSequence(Tail(reqs)) /\ IsSequence(evs \o es)
    BY <1>1, <1>3, <1>4, StreamMoves, QueueGrown
  <2>2. QED
    BY <1>1, <2>1 DEF WsInv, WireFits
<1>7. LatestIs(es, {"workspaces"}, 0, WsEvent(Project(wsDoc, sess, mounted)))
  BY <1>3 DEF e
<1>8. ViewOk(drifted', Tail(reqs), evs \o es, side, wsDoc, sess, mounted)
  BY <1>3, <1>4, <1>7, SpokenView
<1>9. LatestIs(es, {"sessions"}, 0, ListEvent(Live(sess)))
  BY <1>3 DEF f
<1>10. ListOk(Tail(reqs), evs \o es, side.list, sess)
  BY <1>3, <1>4, <1>9, SpokenList
<1>11. QED
  BY <1>1, <1>5, <1>6, <1>8, <1>10 DEF WsInv, ViewFollows, ListFollows

LEMMA CreateWorkspaceKeeps == WsInv /\ CreateWorkspace => WsInv'
<1> SUFFICES ASSUME WsInv, CreateWorkspace PROVE WsInv'
  OBVIOUS
<1> DEFINE p == Head(reqs).path
           doc == [order |-> Append(wsDoc.order, nextId),
                   rows |-> WithKey(wsDoc.rows, nextId, [path |-> p, sessions |-> <<>>])]
<1>1. reqs # <<>> /\ Head(reqs).ask \notin {"list", "delete", "archive"} /\ UNCHANGED <<sess, mounted, side>>
  BY DEF CreateWorkspace, ReqIs
<1>2. nextId' \in Nat /\ DocFits(wsDoc) /\ mounted \subseteq Folders
  BY DEF CreateWorkspace, WsInv, BackFits
<1>3. WsRefuses \/ Mutates(wsDoc, sess) \/ (p \in mounted /\ Mutates(doc, sess))
  BY DEF CreateWorkspace
<1>4. CASE WsRefuses
  BY <1>1, <1>2, <1>4, RefusalKeeps DEF WsRefuses
<1>5. CASE Mutates(wsDoc, sess)
  BY <1>1, <1>2, <1>5, MutatesKeeps
<1>6. CASE p \in mounted /\ Mutates(doc, sess)
  <2>1. DocFits(doc)
    BY <1>2, <1>6, CreatedFits
  <2> HIDE DEF doc
  <2>2. QED
    BY <1>1, <1>2, <1>6, <2>1, MutatesKeeps
<1>7. QED
  BY <1>3, <1>4, <1>5, <1>6

LEMMA RegistryKeeps == WsInv /\ (DeleteWorkspace \/ RenameWorkspace \/ MoveWorkspace) => WsInv'
<1> SUFFICES ASSUME WsInv, DeleteWorkspace \/ RenameWorkspace \/ MoveWorkspace PROVE WsInv'
  OBVIOUS
<1>1. reqs # <<>> /\ Head(reqs).ask \notin {"list", "delete", "archive"} /\ UNCHANGED <<sess, mounted, side, nextId>>
  BY DEF DeleteWorkspace, RenameWorkspace, MoveWorkspace, ReqIs
<1>2. nextId' \in Nat /\ DocFits(wsDoc)
  BY <1>1 DEF WsInv, BackFits
<1> DEFINE w == Head(reqs).ws
           b == Head(reqs).before
           less == [order |-> Without(wsDoc.order, w), rows |-> WithoutKey(wsDoc.rows, w)]
           reordered == [wsDoc EXCEPT !.order = InFrontOf(@, w, b)]
<1>3. \/ WsRefuses
      \/ \E doc : DocFits(doc) /\ Mutates(doc, sess)
  <2>1. DocFits(less)
    BY <1>2, RemovedFits
  <2>2. w \in DOMAIN wsDoc.rows => DocFits(reordered)
    BY <1>2, ReorderedFits
  <2>3. CASE DeleteWorkspace
    <3>1. WsRefuses \/ Mutates(less, sess)
      BY <2>3 DEF DeleteWorkspace
    <3> HIDE DEF less
    <3>2. QED
      BY <2>1, <3>1
  <2>4. CASE RenameWorkspace
    <3>1. WsRefuses \/ Mutates(wsDoc, sess)
      BY <2>4 DEF RenameWorkspace
    <3>2. QED
      BY <1>2, <3>1
  <2>5. CASE MoveWorkspace
    <3>1. WsRefuses \/ (w \in DOMAIN wsDoc.rows /\ Mutates(reordered, sess))
      BY <2>5 DEF MoveWorkspace, Knows
    <3> HIDE DEF reordered
    <3>2. QED
      BY <2>2, <3>1
  <2>6. QED
    BY <2>3, <2>4, <2>5
<1>4. CASE WsRefuses
  BY <1>1, <1>2, <1>4, RefusalKeeps DEF WsRefuses
<1>5. CASE \E doc : DocFits(doc) /\ Mutates(doc, sess)
  <2>1. PICK doc : DocFits(doc) /\ Mutates(doc, sess)
    BY <1>5
  <2>2. QED
    BY <1>1, <1>2, <2>1, MutatesKeeps
<1>6. QED
  BY <1>3, <1>4, <1>5

LEMMA NewSessionKeeps == WsInv /\ NewSession => WsInv'
<1> SUFFICES ASSUME WsInv, NewSession PROVE WsInv'
  OBVIOUS
<1> DEFINE w == Head(reqs).ws
           cwd == IF Knows(wsDoc.rows, w) THEN wsDoc.rows[w].path ELSE CHOOSE p \in Folders : TRUE
           ss == WithKey(sess, nextId, [cwd |-> cwd, archived |-> FALSE])
           joined == [wsDoc EXCEPT !.rows[w].sessions = <<nextId>> \o Without(@, nextId)]
           doc == IF ~Knows(wsDoc.rows, w) THEN wsDoc ELSE joined
           tail == <<[ev |-> "created", id |-> nextId]>>
<1>1. /\ reqs # <<>> /\ Head(reqs).ask = "new" /\ nextId' = nextId + 1 /\ UNCHANGED <<mounted, side>>
      /\ HubReplies(Published(doc, ss)[2] \o tail) /\ sess' = ss
      /\ wsDoc' = Published(doc, ss)[1] /\ wsDisk' = Published(doc, ss)[1]
  BY DEF NewSession, ReqIs
<1>2. nextId \in Nat /\ DocFits(wsDoc) /\ SessFits(sess)
  BY DEF WsInv, BackFits
<1> HIDE DEF cwd
<1>3. SessFits(ss) /\ Live(ss) \subseteq Live(sess) \cup {nextId}
  BY <1>2, SessGrows
<1>4. DocFits(doc)
  <2>1. Knows(wsDoc.rows, w) => DocFits(joined)
    BY <1>2, JoinedFits DEF Knows
  <2> HIDE DEF joined
  <2>2. QED
    BY <1>2, <2>1
<1> HIDE DEF ss, doc
<1>5. Announced(tail) /\ \E n : tail = <<[ev |-> "created", id |-> n]>>
  BY CreatedAnnounces
<1>6. wsDisk' = Prune(doc, ss, mounted)
  BY <1>1 DEF Published
<1>7. DocFits(wsDisk')
  BY <1>4, <1>6, PruneFits
<1> HIDE DEF tail
<1>8. nextId' \in Nat /\ Head(reqs).ask # "list"
  BY <1>1, <1>2
<1>9. QED
  BY <1>1, <1>3, <1>4, <1>5, <1>7, <1>8, PublishedKeeps

LEMMA RepublishesKeeps ==
    ASSUME WsInv, NEW ss, SessFits(ss), reqs # <<>>, Head(reqs).ask # "list",
           NEW tail, tail = <<>> \/ \E n : tail = <<[ev |-> "created", id |-> n]>>,
           Republishes(ss, tail), UNCHANGED <<side, mounted>>, nextId' \in Nat,
           \A s \in Live(ss) : Announced(tail) \/ (s \in Live(sess) /\ ~Removes(Head(reqs), s))
    PROVE  WsInv'
<1>1. /\ HubReplies(Published(wsDoc, ss)[2] \o tail) /\ sess' = ss /\ wsDoc' = Published(wsDoc, ss)[1]
      /\ wsDisk' = wsDisk \/ wsDisk' = Published(wsDoc, ss)[1]
  BY DEF Republishes
<1>2. DocFits(wsDoc) /\ DocFits(wsDisk)
  BY DEF WsInv, BackFits
<1>3. DocFits(Prune(wsDoc, ss, mounted)) /\ Published(wsDoc, ss)[1] = Prune(wsDoc, ss, mounted)
  BY <1>2, PruneFits DEF Published
<1>4. DocFits(wsDisk')
  BY <1>1, <1>2, <1>3
<1>5. QED
  BY <1>1, <1>2, <1>4, PublishedKeeps

(* Nothing came of it. *)
LEMMA NothingKeeps ==
    ASSUME WsInv, reqs # <<>>, Head(reqs).ask # "list", HubReplies(<<>>),
           UNCHANGED <<side, wsDoc, wsDisk, sess, mounted, drifted, nextId>>,
           \A s \in Live(sess) : ~Removes(Head(reqs), s)
    PROVE  WsInv'
<1>1. <<>> \in Seq({}) /\ Len(<<>>) = 0
  OBVIOUS
<1> DEFINE es == <<>>
<1>2. IsSequence(es) /\ Unsaid(es, {"workspaces"}, 0) /\ Unsaid(es, {"sessions"}, 0)
  BY <1>1 DEF IsSequence, Unsaid
<1> HIDE DEF es
<1>3. BackFits' /\ HubReplies(es)
  BY DEF WsInv, BackFits, es
<1>4. QED
  BY <1>2, <1>3, HubSettles

LEMMA DeleteSessionKeeps == WsInv /\ DeleteSession => WsInv'
<1> SUFFICES ASSUME WsInv, DeleteSession PROVE WsInv'
  OBVIOUS
<1> DEFINE s == Head(reqs).id
<1>1. reqs # <<>> /\ Head(reqs).ask = "delete" /\ UNCHANGED <<nextId, mounted, side>>
  BY DEF DeleteSession, ReqIs
<1>2. nextId' \in Nat /\ SessFits(sess)
  BY <1>1 DEF WsInv, BackFits
<1>3. Head(reqs).ask # "list" /\ \A x : Removes(Head(reqs), x) => x = s
  BY <1>1 DEF Removes
<1>4. CASE Knows(sess, s)
  <2> DEFINE ss == WithoutKey(sess, s)
             tail == <<>>
  <2>1. Republishes(ss, tail)
    BY <1>4 DEF DeleteSession
  <2>2. SessFits(ss) /\ Live(ss) \subseteq Live(sess) \ {s}
    BY <1>2, SessShrinks
  <2> HIDE DEF ss
  <2>3. tail = <<>>
    OBVIOUS
  <2> HIDE DEF tail, s
  <2>4. \A x \in Live(ss) : x \in Live(sess) /\ ~Removes(Head(reqs), x)
    BY <1>3, <2>2
  <2>5. QED
    BY <1>1, <1>2, <1>3, <2>1, <2>2, <2>3, <2>4, RepublishesKeeps
<1>5. CASE ~Knows(sess, s)
  <2>1. HubReplies(<<>>) /\ UNCHANGED <<sess, wsDoc, wsDisk, drifted>>
    BY <1>5 DEF DeleteSession
  <2>2. \A x \in Live(sess) : ~Removes(Head(reqs), x)
    BY <1>3, <1>5 DEF Knows, Live
  <2>3. QED
    BY <1>1, <1>3, <2>1, <2>2, NothingKeeps
<1>6. QED
  BY <1>4, <1>5

LEMMA ArchiveSessionKeeps == WsInv /\ ArchiveSession => WsInv'
<1> SUFFICES ASSUME WsInv, ArchiveSession PROVE WsInv'
  OBVIOUS
<1> DEFINE s == Head(reqs).id
<1>1. reqs # <<>> /\ Head(reqs).ask = "archive" /\ UNCHANGED <<nextId, mounted, side>>
  BY DEF ArchiveSession, ReqIs
<1>2. nextId' \in Nat /\ SessFits(sess)
  BY <1>1 DEF WsInv, BackFits
<1>3. Head(reqs).ask # "list" /\ \A x : Removes(Head(reqs), x) => x = s
  BY <1>1 DEF Removes
<1>4. CASE Knows(sess, s) /\ ~sess[s].archived
  <2> DEFINE ss == [sess EXCEPT ![s].archived = TRUE]
             tail == <<>>
  <2>1. Republishes(ss, tail)
    BY <1>4 DEF ArchiveSession
  <2>2. SessFits(ss) /\ Live(ss) \subseteq Live(sess) \ {s}
    BY <1>2, <1>4, SessArchives DEF Knows
  <2> HIDE DEF ss
  <2>3. tail = <<>>
    OBVIOUS
  <2> HIDE DEF tail, s
  <2>4. \A x \in Live(ss) : x \in Live(sess) /\ ~Removes(Head(reqs), x)
    BY <1>3, <2>2
  <2>5. QED
    BY <1>1, <1>2, <1>3, <2>1, <2>2, <2>3, <2>4, RepublishesKeeps
<1>5. CASE ~(Knows(sess, s) /\ ~sess[s].archived)
  <2>1. HubReplies(<<>>) /\ UNCHANGED <<sess, wsDoc, wsDisk, drifted>>
    BY <1>5 DEF ArchiveSession
  <2>2. \A x \in Live(sess) : ~Removes(Head(reqs), x)
    BY <1>3, <1>5 DEF Knows, Live
  <2>3. QED
    BY <1>1, <1>3, <2>1, <2>2, NothingKeeps
<1>6. QED
  BY <1>4, <1>5

LEMMA ForkSessionKeeps == WsInv /\ ForkSession => WsInv'
<1> SUFFICES ASSUME WsInv, ForkSession PROVE WsInv'
  OBVIOUS
<1> DEFINE s == Head(reqs).id
<1>1. reqs # <<>> /\ Head(reqs).ask = "fork" /\ UNCHANGED <<mounted, side>> /\ nextId' = nextId + 1
  BY DEF ForkSession, ReqIs
<1>2. nextId' \in Nat /\ nextId \in Nat /\ SessFits(sess)
  BY <1>1 DEF WsInv, BackFits
<1>3. Head(reqs).ask \notin {"list", "delete", "archive"} /\ Head(reqs).ask # "list"
  BY <1>1
<1>4. CASE Knows(sess, s)
  <2> DEFINE c == sess[s].cwd
             ss == WithKey(sess, nextId, [cwd |-> c, archived |-> FALSE])
             tail == <<[ev |-> "created", id |-> nextId]>>
  <2>1. Republishes(ss, tail)
    BY <1>4 DEF ForkSession
  <2> HIDE DEF c
  <2>2. SessFits(ss)
    BY <1>2, SessGrows
  <2>3. Announced(tail) /\ \E n : tail = <<[ev |-> "created", id |-> n]>>
    BY CreatedAnnounces
  <2> HIDE DEF ss, tail
  <2>4. QED
    BY <1>1, <1>2, <1>3, <2>1, <2>2, <2>3, RepublishesKeeps
<1>5. CASE ~Knows(sess, s)
  <2>1. HubReplies(<<[ev |-> "failed"]>>) /\ UNCHANGED <<sess, wsDoc, wsDisk, drifted>>
    BY <1>5 DEF ForkSession
  <2>2. QED
    BY <1>1, <1>2, <1>3, <2>1, RefusalKeeps
<1>6. QED
  BY <1>4, <1>5

LEMMA SearchSessionsKeeps == WsInv /\ SearchSessions => WsInv'
<1> SUFFICES ASSUME WsInv, SearchSessions PROVE WsInv'
  OBVIOUS
<1> DEFINE e == [ev |-> "hits", for |-> Head(reqs).query]
           es == <<e>>
<1>1. /\ reqs # <<>> /\ Head(reqs).ask = "search" /\ HubReplies(es)
      /\ UNCHANGED <<side, wsDoc, wsDisk, sess, mounted, drifted, nextId>>
  BY DEF SearchSessions, ReqIs, backVars
<1>2. ~Bears(e, {"workspaces"}, 0) /\ ~Bears(e, {"sessions"}, 0)
  BY DEF Bears
<1> HIDE DEF e
<1>3. IsSequence(es) /\ Unsaid(es, {"workspaces"}, 0) /\ Unsaid(es, {"sessions"}, 0)
  BY <1>2, OneEvent
<1> HIDE DEF es
<1>4. BackFits'
  BY <1>1 DEF WsInv, BackFits
<1>5. Head(reqs).ask # "list" /\ \A x \in Live(sess) : ~Removes(Head(reqs), x)
  BY <1>1 DEF Removes
<1>6. QED
  BY <1>1, <1>3, <1>4, <1>5, HubSettles

LEMMA FlipKeeps == ASSUME NEW p \in Folders PROVE WsInv /\ Flip(p) => WsInv'
<1> SUFFICES ASSUME WsInv, Flip(p) PROVE WsInv'
  OBVIOUS
<1>1. /\ drifted' = TRUE /\ UNCHANGED <<nextId, wsDoc, wsDisk, sess, reqs, evs, side>>
      /\ mounted' = IF p \in mounted THEN mounted \ {p} ELSE mounted \cup {p}
  BY DEF Flip
<1>2. BackFits' /\ WireFits'
  BY <1>1 DEF WsInv, BackFits, WireFits
<1>3. ViewFollows'
  BY <1>1 DEF ViewFollows, ViewOk
<1>4. ListFollows'
  BY <1>1 DEF WsInv, ListFollows
<1>5. QED
  BY <1>2, <1>3, <1>4 DEF WsInv

LEMMA RebootsKeeps == WsInv /\ Reboots => WsInv'
<1> SUFFICES ASSUME WsInv, Reboots PROVE WsInv'
  OBVIOUS
<1> DEFINE l == Loads(wsDisk, sess, mounted)
           r == [ask |-> "list"]
<1>1. /\ nextId' = l.next /\ wsDoc' = l.doc /\ wsDisk' = l.doc /\ sess' = sess /\ mounted' = mounted
      /\ reqs' = <<r>> /\ evs' = <<>> /\ side' = side
  BY DEF Reboots
<1>2. DocFits(l.doc) /\ l.next \in Nat
  BY LoadsFits DEF WsInv, BackFits
<1> HIDE DEF l
<1>3. BackFits'
  BY <1>1, <1>2 DEF WsInv, BackFits
<1>4. IsSequence(<<r>>) /\ ListAsked(<<r>>)
  <2>1. r.ask = "list"
    OBVIOUS
  <2> HIDE DEF r
  <2>2. QED
    BY <2>1, OneRequest
<1>5. IsSequence(evs')
  <2>1. <<>> \in Seq({})
    OBVIOUS
  <2>2. QED
    BY <1>1, <2>1 DEF IsSequence
<1> HIDE DEF r
<1>6. ListAsked(reqs') /\ IsSequence(reqs')
  BY <1>1, <1>4
<1>7. WireFits'
  BY <1>1, <1>5, <1>6 DEF WsInv, WireFits
<1>8. ViewFollows'
  BY <1>6 DEF ViewFollows, ViewOk
<1>9. ListFollows'
  BY <1>6 DEF ListFollows, ListOk, HasRow
<1>10. QED
  BY <1>3, <1>7, <1>8, <1>9 DEF WsInv

-----------------------------------------------------------------------------
(* The sidebar asks, and hears. *)

LEMMA AsksKeeps ==
    ASSUME WsInv, NEW added, IsSequence(added), reqs' = reqs \o added, evs' = evs, UNCHANGED backVars,
           DOMAIN side' = DOMAIN side, side'.rows = side.rows, side'.ungrouped = side.ungrouped,
           \A s \in side.list : s \in side'.list \/ TakenBack(added, s)
    PROVE  WsInv'
<1>1. UNCHANGED <<nextId, wsDoc, wsDisk, sess, mounted, drifted>>
  BY DEF backVars
<1>2. IsSequence(reqs) /\ IsSequence(reqs \o added)
  BY QueueGrown DEF WsInv, WireFits
<1>3. BackFits'
  BY <1>1 DEF WsInv, BackFits
<1>4. WireFits'
  BY <1>2 DEF WsInv, WireFits
<1>5. ViewOk(drifted, reqs \o added, evs, side', wsDoc, sess, mounted)
  BY <1>2, AskedMore DEF WsInv, ViewFollows
<1>6. ListOk(reqs \o added, evs, side'.list, sess)
  BY <1>2, AskedToo DEF WsInv, ListFollows
<1>7. QED
  BY <1>1, <1>3, <1>4, <1>5, <1>6 DEF WsInv, ViewFollows, ListFollows

LEMMA HearsKeeps ==
    ASSUME WsInv, NEW added, IsSequence(added), reqs' = reqs \o added, evs # <<>>, evs' = Tail(evs),
           UNCHANGED backVars, DOMAIN side' = DOMAIN side,
           IF Head(evs).ev = "workspaces"
           THEN side'.rows = Head(evs).view.rows /\ side'.ungrouped = Head(evs).view.ungrouped
           ELSE side'.rows = side.rows /\ side'.ungrouped = side.ungrouped,
           Head(evs).ev = "created" => ListAsked(added),
           IF Head(evs).ev = "sessions" THEN side'.list = Head(evs).list ELSE side.list \subseteq side'.list
    PROVE  WsInv'
<1>1. UNCHANGED <<nextId, wsDoc, wsDisk, sess, mounted, drifted>>
  BY DEF backVars
<1>2. IsSequence(reqs) /\ IsSequence(reqs \o added) /\ IsSequence(evs) /\ IsSequence(Tail(evs))
  BY QueueGrown, StreamMoves DEF WsInv, WireFits
<1>3. BackFits'
  BY <1>1 DEF WsInv, BackFits
<1>4. WireFits'
  BY <1>2 DEF WsInv, WireFits
<1>5. ViewOk(drifted, reqs \o added, Tail(evs), side', wsDoc, sess, mounted)
  BY <1>2, ViewMoves DEF WsInv, ViewFollows
<1>6. ListOk(reqs \o added, Tail(evs), side'.list, sess)
  BY <1>2, ListMoves DEF WsInv, ListFollows
<1>7. QED
  BY <1>1, <1>3, <1>4, <1>5, <1>6 DEF WsInv, ViewFollows, ListFollows

(* A request, or none, added to those on the way. *)
LEMMA Adds ==
    ASSUME NEW w, IsSequence(w)
    PROVE  /\ IsSequence(<<>>) /\ w = w \o <<>>
           /\ \A r : IsSequence(<<r>>) /\ Append(w, r) = w \o <<r>>
<1>1. PICK S : w \in Seq(S)
  BY DEF IsSequence
<1>2. w = w \o <<>>
  BY <1>1
<1>3. <<>> \in Seq({})
  OBVIOUS
<1>4. ASSUME NEW r PROVE IsSequence(<<r>>) /\ Append(w, r) = w \o <<r>>
  <2>1. IsSequence(<<r>>)
    BY OneEvent
  <2>2. Append(w, r) = w \o <<r>>
    BY <1>1, AppendIsConcat
  <2>3. QED
    BY <2>1, <2>2
<1>5. QED
  BY <1>2, <1>3, <1>4 DEF IsSequence

LEMMA AddsSome ==
    ASSUME NEW w, IsSequence(w), NEW w2, w2 = w \/ \E r : w2 = Append(w, r)
    PROVE  \E added : IsSequence(added) /\ w2 = w \o added
<1>1. CASE w2 = w
  <2> DEFINE added == <<>>
  <2>1. IsSequence(added) /\ w2 = w \o added
    BY <1>1, Adds
  <2> HIDE DEF added
  <2>2. QED
    BY <2>1
<1>2. CASE \E r : w2 = Append(w, r)
  <2>1. PICK r : w2 = Append(w, r)
    BY <1>2
  <2> DEFINE added == <<r>>
  <2>2. IsSequence(added) /\ w2 = w \o added
    BY <2>1, Adds
  <2> HIDE DEF added
  <2>3. QED
    BY <2>2
<1>3. QED
  BY <1>1, <1>2

LEMMA RequestKeeps ==
    ASSUME WsInv, NEW r, reqs' = Append(reqs, r), UNCHANGED <<backVars, evs>>,
           DOMAIN side' = DOMAIN side, side'.rows = side.rows, side'.ungrouped = side.ungrouped,
           \A s \in side.list : s \in side'.list \/ Removes(r, s)
    PROVE  WsInv'
<1>1. IsSequence(reqs)
  BY DEF WsInv, WireFits
<1> DEFINE added == <<r>>
<1>2. IsSequence(added) /\ reqs' = reqs \o added
  BY <1>1, Adds
<1>3. \A s : Removes(r, s) => TakenBack(added, s)
  BY OneRequest
<1> HIDE DEF added
<1>4. QED
  BY <1>2, <1>3, AsksKeeps

LEMMA IdleKeeps ==
    ASSUME WsInv, UNCHANGED <<backVars, reqs, evs, side>>
    PROVE  WsInv'
  BY DEF WsInv, BackFits, WireFits, ViewFollows, ListFollows, backVars

LEMMA SidebarAsksKeeps ==
    ASSUME WsInv, NEW r, UserAsks(r), UNCHANGED side PROVE WsInv'
  BY RequestKeeps DEF UserAsks

LEMMA TakeRowKeeps == ASSUME NEW s, NEW a \in {"delete", "archive"} PROVE WsInv /\ TakeRow(s, a) => WsInv'
<1> SUFFICES ASSUME WsInv, TakeRow(s, a) PROVE WsInv'
  OBVIOUS
<1> DEFINE r == [ask |-> a, id |-> s]
           c == IF side.current # s THEN side.current ELSE CHOOSE t \in side.list \ {s} : TRUE
<1>1. /\ reqs' = Append(reqs, r) /\ UNCHANGED <<backVars, evs>>
      /\ side' = [side EXCEPT !.list = side.list \ {s}, !.current = c]
  BY DEF TakeRow, UserAsks
<1>2. Removes(r, s)
  BY DEF Removes
<1> HIDE DEF r, c
<1>3. DOMAIN side = {"rows", "ungrouped", "list", "current", "creating"}
  BY DEF WsInv, WireFits
<1>4. /\ DOMAIN side' = DOMAIN side /\ side'.rows = side.rows /\ side'.ungrouped = side.ungrouped
      /\ side'.list = side.list \ {s}
  BY <1>1, <1>3
<1>5. \A x \in side.list : x \in side'.list \/ Removes(r, x)
  BY <1>2, <1>4
<1>6. QED
  BY <1>1, <1>4, <1>5, RequestKeeps

LEMMA AddFolderKeeps == ASSUME NEW p PROVE WsInv /\ AddFolder(p) => WsInv'
<1> SUFFICES ASSUME WsInv, AddFolder(p) PROVE WsInv'
  OBVIOUS
<1> DEFINE r == [ask |-> "create", path |-> p]
<1>1. reqs' = Append(reqs, r) /\ UNCHANGED <<backVars, evs>> /\ side' = [side EXCEPT !.creating = p]
  BY DEF AddFolder, UserAsks
<1> HIDE DEF r
<1>2. DOMAIN side = {"rows", "ungrouped", "list", "current", "creating"}
  BY DEF WsInv, WireFits
<1>3. /\ DOMAIN side' = DOMAIN side /\ side'.rows = side.rows /\ side'.ungrouped = side.ungrouped
      /\ side'.list = side.list
  BY <1>1, <1>2
<1>4. QED
  BY <1>1, <1>3, RequestKeeps

LEMMA SearchTickKeeps == WsInv /\ (SearchTick \/ CloseSearch \/ \E q : TypesQuery(q)) => WsInv'
<1> SUFFICES ASSUME WsInv, SearchTick \/ CloseSearch \/ \E q : TypesQuery(q) PROVE WsInv'
  OBVIOUS
<1>1. /\ UNCHANGED <<backVars, evs, side>>
      /\ UNCHANGED reqs \/ \E r : reqs' = Append(reqs, r)
  BY DEF SearchTick, CloseSearch, TypesQuery
<1>2. CASE UNCHANGED reqs
  BY <1>1, <1>2, IdleKeeps
<1>3. CASE \E r : reqs' = Append(reqs, r)
  <2>1. PICK r : reqs' = Append(reqs, r)
    BY <1>3
  <2>2. QED
    BY <1>1, <2>1, RequestKeeps
<1>4. QED
  BY <1>1, <1>2, <1>3

LEMMA WorkspacesChangedKeeps == WsInv /\ WorkspacesChanged => WsInv'
<1> SUFFICES ASSUME WsInv, WorkspacesChanged PROVE WsInv'
  OBVIOUS
<1> DEFINE v == Head(evs).view
<1>1. /\ evs # <<>> /\ Head(evs).ev = "workspaces" /\ evs' = Tail(evs) /\ UNCHANGED backVars
      /\ side' = [side EXCEPT !.rows = v.rows, !.ungrouped = v.ungrouped, !.creating = "none"]
      /\ reqs' = reqs \/ \E r : reqs' = Append(reqs, r)
  BY DEF WorkspacesChanged, Arrives
<1>2. DOMAIN side = {"rows", "ungrouped", "list", "current", "creating"} /\ IsSequence(reqs)
  BY DEF WsInv, WireFits
<1> DEFINE rs == v.rows
           un == v.ungrouped
<1>3. side' = [side EXCEPT !.rows = rs, !.ungrouped = un, !.creating = "none"]
  BY <1>1
<1> HIDE DEF rs, un
<1>4. DOMAIN side' = DOMAIN side /\ side'.rows = rs /\ side'.ungrouped = un /\ side'.list = side.list
  BY <1>2, <1>3
<1>5. PICK added : IsSequence(added) /\ reqs' = reqs \o added
  BY <1>1, <1>2, AddsSome
<1>6. QED
  BY <1>1, <1>4, <1>5, HearsKeeps DEF rs, un

LEMMA SessionListedKeeps == WsInv /\ SessionListed => WsInv'
<1> SUFFICES ASSUME WsInv, SessionListed PROVE WsInv'
  OBVIOUS
<1> DEFINE l == Head(evs).list
           c == IF side.current \in l \/ l = {} THEN side.current ELSE LargestId(l)
<1>1. /\ evs # <<>> /\ Head(evs).ev = "sessions" /\ evs' = Tail(evs) /\ UNCHANGED backVars
      /\ side' = [side EXCEPT !.list = l, !.current = c]
      /\ reqs' = reqs \/ \E r : reqs' = Append(reqs, r)
  BY DEF SessionListed, Arrives
<1>2. DOMAIN side = {"rows", "ungrouped", "list", "current", "creating"} /\ IsSequence(reqs)
  BY DEF WsInv, WireFits
<1> HIDE DEF c, l
<1>4. DOMAIN side' = DOMAIN side /\ side'.rows = side.rows /\ side'.ungrouped = side.ungrouped /\ side'.list = l
  BY <1>1, <1>2
<1>5. PICK added : IsSequence(added) /\ reqs' = reqs \o added
  BY <1>1, <1>2, AddsSome
<1>6. QED
  BY <1>1, <1>4, <1>5, HearsKeeps DEF l

LEMMA SessionCreatedKeeps == WsInv /\ SessionCreated => WsInv'
<1> SUFFICES ASSUME WsInv, SessionCreated PROVE WsInv'
  OBVIOUS
<1> DEFINE n == Head(evs).id
           r == [ask |-> "list"]
           added == <<r>>
<1>1. /\ evs # <<>> /\ Head(evs).ev = "created" /\ evs' = Tail(evs) /\ UNCHANGED backVars
      /\ side' = [side EXCEPT !.list = side.list \cup {n}, !.current = n]
      /\ reqs' = Append(reqs, r)
  BY DEF SessionCreated, Arrives
<1>2. DOMAIN side = {"rows", "ungrouped", "list", "current", "creating"} /\ IsSequence(reqs)
  BY DEF WsInv, WireFits
<1> HIDE DEF n
<1>3. r.ask = "list"
  OBVIOUS
<1> HIDE DEF r
<1>4. /\ DOMAIN side' = DOMAIN side /\ side'.rows = side.rows /\ side'.ungrouped = side.ungrouped
      /\ side'.list = side.list \cup {n}
  BY <1>1, <1>2
<1>5. IsSequence(added) /\ ListAsked(added) /\ reqs' = reqs \o added
  BY <1>1, <1>2, <1>3, Adds, OneRequest
<1> HIDE DEF added
<1>6. QED
  BY <1>1, <1>4, <1>5, HearsKeeps

LEMMA FailsOrFinds == WsInv /\ (RequestFailed \/ SearchHits) => WsInv'
<1> SUFFICES ASSUME WsInv, RequestFailed \/ SearchHits PROVE WsInv'
  OBVIOUS
<1>1. /\ evs # <<>> /\ Head(evs).ev \in {"failed", "hits"} /\ evs' = Tail(evs) /\ UNCHANGED backVars
      /\ side' = side \/ side' = [side EXCEPT !.creating = "none"]
      /\ reqs' = reqs
  BY DEF RequestFailed, SearchHits, Arrives
<1>2. DOMAIN side = {"rows", "ungrouped", "list", "current", "creating"} /\ IsSequence(reqs)
  BY DEF WsInv, WireFits
<1>4. /\ DOMAIN side' = DOMAIN side /\ side'.rows = side.rows /\ side'.ungrouped = side.ungrouped
      /\ side'.list = side.list
  BY <1>1, <1>2
<1> DEFINE added == <<>>
<1>5. IsSequence(added) /\ reqs' = reqs \o added
  BY <1>1, <1>2, Adds
<1> HIDE DEF added
<1>6. QED
  BY <1>1, <1>4, <1>5, HearsKeeps

LEMMA SidebarKeeps == WsInv /\ Sidebar => WsInv'
<1> SUFFICES ASSUME WsInv, Sidebar PROVE WsInv'
  OBVIOUS
<1>1. CASE WorkspacesChanged \/ RequestFailed \/ SessionListed \/ SessionCreated \/ SearchHits
  BY <1>1, WorkspacesChangedKeeps, FailsOrFinds, SessionListedKeeps, SessionCreatedKeeps
<1>2. CASE SearchTick \/ CloseSearch \/ \E q \in {0, 1, 2} : TypesQuery(q)
  BY <1>2, SearchTickKeeps
<1>3. CASE NewRow
  BY <1>3, SidebarAsksKeeps DEF NewRow
<1>4. CASE \E p \in Folders : AddFolder(p)
  BY <1>4, AddFolderKeeps
<1>5. CASE \E i \in DOMAIN side.rows :
             \/ RemoveRow(i) \/ RenameRow(i) \/ NewHere(i)
             \/ \E up \in BOOLEAN : MoveRow(i, up)
  <2>1. PICK i \in DOMAIN side.rows :
             \/ RemoveRow(i) \/ RenameRow(i) \/ NewHere(i)
             \/ \E up \in BOOLEAN : MoveRow(i, up)
    BY <1>5
  <2>2. CASE RemoveRow(i)
    BY <2>2, SidebarAsksKeeps DEF RemoveRow
  <2>3. CASE RenameRow(i)
    BY <2>3, SidebarAsksKeeps DEF RenameRow
  <2>4. CASE NewHere(i)
    BY <2>4, SidebarAsksKeeps DEF NewHere
  <2>5. CASE \E up \in BOOLEAN : MoveRow(i, up)
    <3>1. PICK up \in BOOLEAN : MoveRow(i, up)
      BY <2>5
    <3>2. (\E r : UserAsks(r)) /\ UNCHANGED side
      BY <3>1 DEF MoveRow
    <3>3. QED
      BY <3>2, SidebarAsksKeeps
  <2>6. QED
    BY <2>1, <2>2, <2>3, <2>4, <2>5
<1>6. CASE \E s \in side.list : TakeRow(s, "delete") \/ TakeRow(s, "archive") \/ ForkRow(s)
  <2>1. PICK s \in side.list : TakeRow(s, "delete") \/ TakeRow(s, "archive") \/ ForkRow(s)
    BY <1>6
  <2>2. CASE ForkRow(s)
    BY <2>2, SidebarAsksKeeps DEF ForkRow
  <2>3. QED
    BY <2>1, <2>2, TakeRowKeeps
<1>7. QED
  BY <1>1, <1>2, <1>3, <1>4, <1>5, <1>6 DEF Sidebar

LEMMA WsKeeps == WsInv /\ [WsNext]_wsVars => WsInv'
<1> SUFFICES ASSUME WsInv, [WsNext]_wsVars PROVE WsInv'
  OBVIOUS
<1>1. CASE HubHandles
  BY <1>1, ListWorkspacesKeeps, CreateWorkspaceKeeps, RegistryKeeps, NewSessionKeeps, DeleteSessionKeeps,
     ArchiveSessionKeeps, ForkSessionKeeps, SearchSessionsKeeps DEF HubHandles
<1>2. CASE Sidebar
  BY <1>2, SidebarKeeps
<1>3. CASE Reboots
  BY <1>3, RebootsKeeps
<1>4. CASE \E p \in Folders : Flip(p)
  BY <1>4, FlipKeeps
<1>5. CASE UNCHANGED wsVars
  BY <1>5, IdleKeeps DEF wsVars, backVars
<1>6. QED
  BY <1>1, <1>2, <1>3, <1>4, <1>5 DEF WsNext

LEMMA WsShows == WsInv => SidebarIsTrue
<1> SUFFICES ASSUME WsInv, reqs = <<>>, evs = <<>>, ~drifted
             PROVE  LET live == {s \in DOMAIN sess : ~sess[s].archived}
                        in == UNION {ToSet(side.rows[i].members) : i \in DOMAIN side.rows} IN
                    /\ in \cup side.ungrouped = live /\ in \cap side.ungrouped = {}
                    /\ \A i \in DOMAIN side.rows : \A s \in ToSet(side.rows[i].members) :
                          sess[s].cwd = side.rows[i].path
                    /\ \A i \in DOMAIN side.rows :
                          /\ side.rows[i].missing <=> side.rows[i].path \notin mounted
                          /\ ~side.rows[i].missing => \A s \in side.ungrouped : sess[s].cwd # side.rows[i].path
                    /\ RowIds = wsDoc.order /\ live \subseteq side.list
  BY DEF SidebarIsTrue
<1>1. /\ ~ListAsked(reqs) /\ ~Announced(evs) /\ \A s : ~TakenBack(reqs, s)
      /\ \A K, e : ~LatestIs(evs, K, 0, e)
  <2>1. Len(reqs) = 0 /\ Len(evs) = 0
    OBVIOUS
  <2>2. \A k \in 1 .. Len(reqs) : FALSE
    BY <2>1
  <2>3. \A k \in 1 .. Len(evs) : FALSE
    BY <2>1
  <2>4. QED
    BY <2>2, <2>3 DEF ListAsked, Announced, TakenBack, LatestIs
<1>2. DrawnTrue(side, wsDoc, sess, mounted)
  BY <1>1 DEF WsInv, ViewFollows, ViewOk
<1>3. Live(sess) \subseteq side.list
  BY <1>1 DEF WsInv, ListFollows, ListOk, HasRow
<1> DEFINE in == UNION {ToSet(side.rows[i].members) : i \in DOMAIN side.rows}
<1>4. /\ side.ungrouped = Live(sess) \ in
      /\ \A i \in DOMAIN side.rows :
            /\ side.rows[i].id = wsDoc.order[i] /\ side.rows[i].path \in Folders
            /\ side.rows[i].missing <=> side.rows[i].path \notin mounted
            /\ ToSet(side.rows[i].members) = Members(sess, mounted, side.rows[i].path)
  BY <1>2 DEF DrawnTrue
<1>5. ASSUME NEW i \in DOMAIN side.rows, NEW s \in ToSet(side.rows[i].members)
      PROVE  s \in Live(sess) /\ sess[s].cwd = side.rows[i].path
  <2>1. s \in Live(sess) /\ Canonical(sess[s].cwd, mounted) = side.rows[i].path
    BY <1>4, <1>5 DEF Members
  <2>2. side.rows[i].path # "none"
    BY <1>4, <1>5, WorkspacesAssumption
  <2>3. QED
    BY <2>1, <2>2 DEF Canonical
<1>6. in \subseteq Live(sess)
  BY <1>5
<1>7. ASSUME NEW i \in DOMAIN side.rows, ~side.rows[i].missing, NEW s \in side.ungrouped
      PROVE  sess[s].cwd # side.rows[i].path
  <2>1. SUFFICES ASSUME sess[s].cwd = side.rows[i].path PROVE FALSE
    OBVIOUS
  <2>2. side.rows[i].path \in mounted
    BY <1>4, <1>7
  <2>3. Canonical(sess[s].cwd, mounted) = side.rows[i].path
    BY <2>1, <2>2 DEF Canonical
  <2>4. s \in Live(sess) /\ s \notin in
    BY <1>4, <1>7
  <2>5. s \in ToSet(side.rows[i].members)
    BY <1>4, <1>7, <2>3, <2>4 DEF Members
  <2>6. QED
    BY <1>7, <2>4, <2>5
<1>8. RowIds = wsDoc.order
  <2>1. wsDoc.order \in Seq(DOMAIN wsDoc.rows) /\ DOMAIN side.rows = DOMAIN wsDoc.order
    BY <1>2 DEF WsInv, BackFits, DocFits, DrawnTrue
  <2> DEFINE o == wsDoc.order
             D == DOMAIN wsDoc.rows
  <2>2. o \in Seq(D) /\ RowIds = [i \in DOMAIN o |-> o[i]]
    BY <1>4, <2>1 DEF RowIds
  <2> HIDE DEF o, D
  <2>3. o = [i \in DOMAIN o |-> o[i]]
    BY <2>2
  <2>4. QED
    BY <2>2, <2>3 DEF o
<1>9. Live(sess) = {s \in DOMAIN sess : ~sess[s].archived}
  BY DEF Live
<1>10. in \cup side.ungrouped = Live(sess) /\ in \cap side.ungrouped = {}
  BY <1>4, <1>6
<1> HIDE DEF in
<1>11. QED
  BY <1>3, <1>4, <1>5, <1>7, <1>8, <1>9, <1>10 DEF in

(* What the sidebar draws once the connection is quiet is what is so.      *)
THEOREM WorkspacesKept == WsSpec => []SidebarIsTrue
<1>1. WsInit => WsInv
  BY WsStarts
<1>2. WsInv /\ [WsNext]_wsVars => WsInv'
  BY WsKeeps
<1>3. WsInv => SidebarIsTrue
  BY WsShows
<1>4. QED
  BY <1>1, <1>2, <1>3, PTL DEF WsSpec

-----------------------------------------------------------------------------
(* The behaviours of the collected parts are behaviours of each part.      *)

LEMMA PartsStep ==
    [Next]_<<part, allVars>> =>
       /\ [EvalNext]_evalVars
       /\ [ComposerNext]_composerVars
       /\ [LedgerNext]_ledgerVars
       /\ [MirrorNext]_mirrorVars
       /\ [WsNext]_wsVars
<1> USE DEF allVars, Next, MirrorPart, LedgerPart, WorkspacesPart, ComposerPart, ReplayPart, EvaluationPart
<1>1. [Next]_<<part, allVars>> => [EvalNext]_evalVars
  OBVIOUS
<1>2. [Next]_<<part, allVars>> => [ComposerNext]_composerVars
  OBVIOUS
<1>3. [Next]_<<part, allVars>> => [LedgerNext]_ledgerVars
  OBVIOUS
<1>4. [Next]_<<part, allVars>> => [MirrorNext]_mirrorVars
  OBVIOUS
<1>5. [Next]_<<part, allVars>> => [WsNext]_wsVars
  OBVIOUS
<1>6. QED
  BY <1>1, <1>2, <1>3, <1>4, <1>5

LEMMA SpecOfParts == Spec => EvalSpec /\ ComposerSpec /\ LedgerSpec /\ MirrorSpec /\ WsSpec
<1>1. Init => EvalInit /\ ComposerInit /\ LedgerInit /\ MirrorInit /\ WsInit
  BY DEF Init
<1>2. QED
  BY PartsStep, <1>1, PTL DEF Spec, EvalSpec, ComposerSpec, LedgerSpec, MirrorSpec, WsSpec

(* A report scores each case of the plan, in order, every one for all its  *)
(* repeats, and never calls the model more often than the suite's budget   *)
(* (model-eval's runner.rs and scoring.rs).                                *)
THEOREM EvaluationIsSound == Spec => []EvaluationSound
  BY SpecOfParts, EvaluationKept, PTL

(* What is picked, pasted or attached is delivered once or erased by the   *)
(* user, whatever is done to the draft meanwhile, and a question is        *)
(* answered by what its kind allows (input.rs, app.rs, picker.rs).         *)
THEOREM ComposerIsSound == Spec => []ComposerSound
  BY SpecOfParts, ComposerKept, PTL

(* Once everything sent has arrived, the queue of the session in front,    *)
(* the busy marks and the sidebar are what the backend holds; the rows of  *)
(* the trajectory view are those of the log at every moment (app.rs,       *)
(* trajectory.rs, sidebar.rs, workspaces.rs).                              *)
THEOREM ViewsAreSound == Spec => []ViewsSound
<1>1. ScreenSettles /\ LedgerFaithful /\ SidebarIsTrue => ViewsSound
  BY DEF ViewsSound
<1>2. QED
  BY SpecOfParts, LedgerKept, MirrorKept, WorkspacesKept, <1>1, PTL
=============================================================================
