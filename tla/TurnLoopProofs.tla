--------------------------- MODULE TurnLoopProofs ---------------------------
(***************************************************************************)
(* Proofs about TurnLoop for every value of the budgets.                   *)
(***************************************************************************)
EXTENDS TurnLoop, TLAPS

USE DEF task, budget, batch, log, chain

(* What is between a call and its answer at each place of the loop: bodies *)
(* run at "running" only, and calls are left only while a reply or a batch *)
(* is in hand, unless the turn was stopped or cut off.                     *)
InHand ==
    /\ pc # "running" => running = 0
    /\ pc \in {"top", "calling"} => left = 0
    /\ pc \in {"replied", "running"} /\ reply \notin {"calls", "cut"} => left = 0
    /\ pc = "batch" => reply = "calls"
    /\ pc = "running" => reply \in {"calls", "call"}
    /\ ~spoiled /\ pc \in {"idle", "ending", "judging", "deciding"} /\ reply = "calls"
         => left = 0

(* A batch being worked on is owed at least what it still holds. *)
BatchOwed ==
    pc = "batch" \/ (pc = "replied" /\ ~cancelled) \/ (pc = "running" /\ reply = "calls")
        => owed >= left + running

(* A stopped turn is remembered as one. *)
StopSpoils == cancelled => spoiled

(* The finish reason is set where the loop is left and filed where it is   *)
(* an error.                                                               *)
Filed ==
    /\ pc \in {"top", "calling", "replied", "batch", "running"} => finish = "done"
    /\ finish \in {"error", "empty", "bad-call"} => ticket

(* A continuation is decided under the allowance, and only by a turn that  *)
(* was not stopped when it was judged.                                     *)
Charged ==
    /\ pc \notin {"deciding", "idle"} => ~continue
    /\ pc = "deciding" /\ continue => spent.opened \in 1 .. MaxAuto /\ finish # "interrupted"

IInv ==
    /\ TypeOK
    /\ InHand
    /\ BatchOwed
    /\ StopSpoils
    /\ CallsAnswered
    /\ Filed
    /\ EffectIsDurable
    /\ Charged

(* Every step keeps the types; that owed stays a natural number needs      *)
(* BatchOwed.                                                              *)
LEMMA TypeStep ==
    ASSUME IInv, Next
    PROVE  TypeOK'
<1> USE TurnLoopAssumption DEF IInv, TypeOK, InHand, BatchOwed, Abnormal
<1>1. ASSUME NEW s \in {"human", "goal"}, StartTurn(s) PROVE TypeOK'
  <2>1. spent' \in [opened : 0 .. MaxAuto, stalled : 0 .. MaxStalled]
    BY <1>1 DEF StartTurn, Fresh
  <2>2. dirty' \in BOOLEAN /\ source' \in {"human", "goal", "auto"} /\ turnsLeft' \in 0 .. MaxTurns
    BY <1>1 DEF StartTurn, Open, Appends
  <2>3. hops' \in 0 .. MaxHops /\ retries' \in 0 .. RetryMax /\ overflows' \in 0 .. MaxOverflow /\ nudges' \in 0 .. MaxNudges
    BY <1>1 DEF StartTurn, Open
  <2>4. left' \in 0 .. MaxCalls /\ running' \in 0 .. MaxCalls /\ owed' \in Nat
    BY <1>1 DEF StartTurn, Open
  <2>5. nudged' \in BOOLEAN /\ cancelled' \in BOOLEAN /\ over' \in BOOLEAN /\ ticket' \in BOOLEAN /\ progress' \in BOOLEAN /\ continue' \in BOOLEAN /\ spoiled' \in BOOLEAN
    BY <1>1 DEF StartTurn, Open
  <2>6. pc' = "top" /\ reply' = "none" /\ finish' = "done"
    BY <1>1 DEF StartTurn, Open
  <2>7. QED
    BY <1>1, <2>1, <2>2, <2>3, <2>4, <2>5, <2>6 DEF StartTurn, Open
<1>2. CASE Stop
  BY <1>2 DEF Stop
<1>3. CASE TopCancelled
  BY <1>3 DEF TopCancelled, Leave
<1>4. CASE TopFails
  BY <1>4 DEF TopFails, LeaveInError, Leave, Appends
<1>5. CASE Request
  <2>1. dirty' \in BOOLEAN
    BY <1>5 DEF Request, Appends
  <2>2. pc' = "calling"
    BY <1>5 DEF Request
  <2>3. QED
    BY <1>5, <2>1, <2>2 DEF Request
<1>6. CASE Overflow
  <2>1. overflows' \in 0 .. MaxOverflow
    BY <1>6 DEF Overflow
  <2>2. dirty' \in BOOLEAN
    BY <1>6 DEF Overflow, Appends
  <2>3. ticket' \in BOOLEAN
    BY <1>6 DEF Overflow, LeaveInError, Leave
  <2>4. pc' \in {"top", "ending"} /\ finish' \in {finish, "error"}
    BY <1>6 DEF Overflow, LeaveInError, Leave
  <2>5. QED
    BY <1>6, <2>1, <2>2, <2>3, <2>4 DEF Overflow
<1>7. CASE Retry
  BY <1>7 DEF Retry, Leave, Appends
<1>8. CASE GiveUp
  BY <1>8 DEF GiveUp, LeaveInError, Leave, Appends
<1>9. ASSUME NEW r \in Replies, Reply(r[1], r[2]) PROVE TypeOK'
  BY <1>9 DEF Reply, Replies, Appends
<1>10. CASE ReplyCancelled
  BY <1>10 DEF ReplyCancelled, Leave
<1>11. CASE CutOff
  <2>1. owed' \in Nat
    BY <1>11 DEF CutOff, Acting, BatchOwed, InHand
  <2>2. dirty' \in BOOLEAN
    BY <1>11 DEF CutOff, Appends
  <2>3. spoiled' \in BOOLEAN
    BY <1>11 DEF CutOff
  <2>4. pc' = "ending" /\ finish' = "max_tokens"
    BY <1>11 DEF CutOff, Leave
  <2>5. QED
    BY <1>11, <2>1, <2>2, <2>3, <2>4 DEF CutOff, Acting
<1>12. CASE EmptyReply
  <2>1. nudges' \in 0 .. MaxNudges
    BY <1>12 DEF EmptyReply
  <2>2. dirty' \in BOOLEAN
    BY <1>12 DEF EmptyReply, Appends
  <2>3. ticket' \in BOOLEAN
    BY <1>12 DEF EmptyReply, LeaveInError, Leave
  <2>4. pc' \in {"top", "ending"} /\ finish' \in {finish, "empty"}
    BY <1>12 DEF EmptyReply, LeaveInError, Leave
  <2>5. QED
    BY <1>12, <2>1, <2>2, <2>3, <2>4 DEF EmptyReply, Acting
<1>13. CASE Miscall
  <2>1. nudged' \in BOOLEAN /\ dirty' \in BOOLEAN /\ ticket' \in BOOLEAN
    BY <1>13 DEF Miscall, LeaveInError, Leave, Appends
  <2>2. pc' \in {"top", "ending"} /\ finish' \in {finish, "bad-call"}
    BY <1>13 DEF Miscall, LeaveInError, Leave
  <2>3. QED
    BY <1>13, <2>1, <2>2 DEF Miscall, Acting
<1>14. CASE PlainReply
  BY <1>14 DEF PlainReply, Acting, Leave
<1>15. CASE TextCall
  <2>1. hops' \in 0 .. MaxHops /\ running' \in 0 .. MaxCalls
    BY <1>15 DEF TextCall
  <2>2. dirty' \in BOOLEAN
    BY <1>15 DEF TextCall, Appends
  <2>3. ticket' \in BOOLEAN
    BY <1>15 DEF TextCall, LeaveInError, Leave
  <2>4. pc' \in {"running", "ending"} /\ finish' \in {finish, "error", "hop-limit"}
    BY <1>15 DEF TextCall, LeaveInError, Leave
  <2>5. QED
    BY <1>15, <2>1, <2>2, <2>3, <2>4 DEF TextCall, Acting
<1>16. CASE TextResult
  BY <1>16 DEF TextResult, Leave, Appends
<1>17. CASE BatchOpens
  BY <1>17 DEF BatchOpens, Acting
<1>18. CASE BatchEnds
  BY <1>18 DEF BatchEnds, Leave
<1>19. CASE BatchAnswer
  BY <1>19 DEF BatchAnswer, Appends
<1>20. CASE BatchAborted
  BY <1>20 DEF BatchAborted, LeaveInError, Leave, Appends
<1>21. CASE BatchResults
  BY <1>21 DEF BatchResults, Leave, Appends
<1>22. ASSUME NEW k \in 1 .. left, BatchRun(k) PROVE TypeOK'
  <2>1. left' \in 0 .. MaxCalls /\ running' \in 0 .. MaxCalls
    BY <1>22 DEF BatchRun
  <2>2. pc' = "running" /\ dirty' = FALSE
    BY <1>22 DEF BatchRun
  <2>3. QED
    BY <1>22, <2>1, <2>2 DEF BatchRun
<1>23. CASE EndTurn
  BY <1>23 DEF EndTurn, Appends
<1>24. ASSUME NEW v \in {"none", "reached", "unmet"}, Judge(v) PROVE TypeOK'
  BY <1>24 DEF Judge, NeedsCheck, BudgetLeft, Refund, OpenOne, Appends
<1>25. CASE NoCheck
  BY <1>25 DEF NoCheck, NeedsCheck
<1>26. CASE Continue
  <2>1. dirty' \in BOOLEAN /\ source' \in {"human", "goal", "auto"} /\ turnsLeft' \in 0 .. MaxTurns
    BY <1>26 DEF Continue, Open, Appends
  <2>2. hops' \in 0 .. MaxHops /\ retries' \in 0 .. RetryMax /\ overflows' \in 0 .. MaxOverflow /\ nudges' \in 0 .. MaxNudges
    BY <1>26 DEF Continue, Open
  <2>3. left' \in 0 .. MaxCalls /\ running' \in 0 .. MaxCalls /\ owed' \in Nat
    BY <1>26 DEF Continue, Open
  <2>4. nudged' \in BOOLEAN /\ cancelled' \in BOOLEAN /\ over' \in BOOLEAN /\ ticket' \in BOOLEAN /\ progress' \in BOOLEAN /\ continue' \in BOOLEAN /\ spoiled' \in BOOLEAN
    BY <1>26 DEF Continue, Open
  <2>5. pc' = "top" /\ reply' = "none" /\ finish' = "done" /\ spent' = spent
    BY <1>26 DEF Continue, Open
  <2>6. QED
    BY <1>26, <2>1, <2>2, <2>3, <2>4, <2>5 DEF Continue, Open
<1>27. CASE GoIdle
  BY <1>27 DEF GoIdle
<1>28. QED
  BY <1>1, <1>2, <1>3, <1>4, <1>5, <1>6, <1>7, <1>8, <1>9, <1>10, <1>11, <1>12, <1>13, <1>14, <1>15, <1>16, <1>17, <1>18, <1>19, <1>20, <1>21, <1>22, <1>23, <1>24, <1>25, <1>26, <1>27 DEF Next, Step

(* Every step keeps the account of the calls: what is added to it by a     *)
(* reply is taken off again by the results of its batch.                   *)
LEMMA CallsStep ==
    ASSUME IInv, Next
    PROVE  (InHand /\ BatchOwed /\ StopSpoils /\ CallsAnswered)'
<1> USE TurnLoopAssumption DEF IInv, TypeOK, InHand, BatchOwed, StopSpoils, CallsAnswered
<1>1. ASSUME NEW s \in {"human", "goal"}, StartTurn(s) PROVE (InHand /\ BatchOwed /\ StopSpoils /\ CallsAnswered)'
  BY <1>1 DEF StartTurn, Open, Fresh, Appends
<1>2. CASE Stop
  BY <1>2 DEF Stop
<1>3. CASE TopCancelled
  BY <1>3 DEF TopCancelled, Leave
<1>4. CASE TopFails
  BY <1>4 DEF TopFails, LeaveInError, Leave, Appends
<1>5. CASE Request
  BY <1>5 DEF Request, Appends
<1>6. CASE Overflow
  BY <1>6 DEF Overflow, LeaveInError, Leave, Appends
<1>7. CASE Retry
  BY <1>7 DEF Retry, Leave, Appends
<1>8. CASE GiveUp
  BY <1>8 DEF GiveUp, LeaveInError, Leave, Appends
<1>9. ASSUME NEW r \in Replies, Reply(r[1], r[2]) PROVE (InHand /\ BatchOwed /\ StopSpoils /\ CallsAnswered)'
  BY <1>9 DEF Reply, Replies, Appends
<1>10. CASE ReplyCancelled
  BY <1>10 DEF ReplyCancelled, Leave
<1>11. CASE CutOff
  <2>1. InHand' /\ BatchOwed' /\ StopSpoils'
    BY <1>11 DEF CutOff, Acting, Leave
  <2>2. ASSUME ~spoiled' PROVE owed' = 0
    <3>1. CASE spoiled' = (spoiled \/ left > 0) /\ UNCHANGED <<dirty, owed>>
      <4>1. ~spoiled /\ ~(left > 0)
        BY <2>2, <3>1, Zenon
      <4>2. left = 0
        BY <4>1
      <4>3. owed = left + running /\ running = 0
        BY <4>1, <1>11 DEF CutOff, Acting
      <4>4. QED
        BY <3>1, <4>2, <4>3
    <3>2. CASE owed' = owed - left /\ Appends /\ UNCHANGED spoiled
      BY <1>11, <2>2, <3>2 DEF CutOff, Acting
    <3>3. QED
      BY <1>11, <3>1, <3>2 DEF CutOff
  <2>3. QED
    BY <1>11, <2>1, <2>2 DEF CutOff, Acting, Leave
<1>12. CASE EmptyReply
  BY <1>12 DEF EmptyReply, Acting, LeaveInError, Leave, Appends
<1>13. CASE Miscall
  BY <1>13 DEF Miscall, Acting, LeaveInError, Leave, Appends
<1>14. CASE PlainReply
  BY <1>14 DEF PlainReply, Acting, Leave
<1>15. CASE TextCall
  BY <1>15 DEF TextCall, Acting, LeaveInError, Leave, Appends
<1>16. CASE TextResult
  BY <1>16 DEF TextResult, Leave, Appends
<1>17. CASE BatchOpens
  BY <1>17 DEF BatchOpens, Acting
<1>18. CASE BatchEnds
  BY <1>18 DEF BatchEnds, Leave
<1>19. CASE BatchAnswer
  BY <1>19 DEF BatchAnswer, Appends
<1>20. CASE BatchAborted
  BY <1>20 DEF BatchAborted, LeaveInError, Leave, Appends
<1>21. CASE BatchResults
  BY <1>21 DEF BatchResults, Leave, Appends
<1>22. ASSUME NEW k \in 1 .. left, BatchRun(k) PROVE (InHand /\ BatchOwed /\ StopSpoils /\ CallsAnswered)'
  BY <1>22 DEF BatchRun
<1>23. CASE EndTurn
  BY <1>23 DEF EndTurn, Appends
<1>24. ASSUME NEW v \in {"none", "reached", "unmet"}, Judge(v) PROVE (InHand /\ BatchOwed /\ StopSpoils /\ CallsAnswered)'
  BY <1>24 DEF Judge, NeedsCheck, BudgetLeft, Refund, OpenOne, Appends
<1>25. CASE NoCheck
  BY <1>25 DEF NoCheck, NeedsCheck
<1>26. CASE Continue
  BY <1>26 DEF Continue, Open, Appends
<1>27. CASE GoIdle
  BY <1>27 DEF GoIdle
<1>28. QED
  BY <1>1, <1>2, <1>3, <1>4, <1>5, <1>6, <1>7, <1>8, <1>9, <1>10, <1>11, <1>12, <1>13, <1>14, <1>15, <1>16, <1>17, <1>18, <1>19, <1>20, <1>21, <1>22, <1>23, <1>24, <1>25, <1>26, <1>27 DEF Next, Step

(* Every step keeps what is known of the disk, of the finish reason and of *)
(* the allowance.                                                          *)
LEMMA EndStep ==
    ASSUME IInv, Next
    PROVE  (Filed /\ EffectIsDurable /\ Charged)'
<1> USE TurnLoopAssumption DEF IInv, TypeOK, Filed, EffectIsDurable, Charged, Abnormal
<1>1. ASSUME NEW s \in {"human", "goal"}, StartTurn(s) PROVE (Filed /\ EffectIsDurable /\ Charged)'
  BY <1>1 DEF StartTurn, Open, Fresh, Appends
<1>2. CASE Stop
  BY <1>2 DEF Stop
<1>3. CASE TopCancelled
  BY <1>3 DEF TopCancelled, Leave
<1>4. CASE TopFails
  BY <1>4 DEF TopFails, LeaveInError, Leave, Appends
<1>5. CASE Request
  BY <1>5 DEF Request, Appends
<1>6. CASE Overflow
  BY <1>6 DEF Overflow, LeaveInError, Leave, Appends
<1>7. CASE Retry
  BY <1>7 DEF Retry, Leave, Appends
<1>8. CASE GiveUp
  BY <1>8 DEF GiveUp, LeaveInError, Leave, Appends
<1>9. ASSUME NEW r \in Replies, Reply(r[1], r[2]) PROVE (Filed /\ EffectIsDurable /\ Charged)'
  BY <1>9 DEF Reply, Replies, Appends
<1>10. CASE ReplyCancelled
  BY <1>10 DEF ReplyCancelled, Leave
<1>11. CASE CutOff
  BY <1>11 DEF CutOff, Acting, Leave, Appends
<1>12. CASE EmptyReply
  BY <1>12 DEF EmptyReply, Acting, LeaveInError, Leave, Appends
<1>13. CASE Miscall
  BY <1>13 DEF Miscall, Acting, LeaveInError, Leave, Appends
<1>14. CASE PlainReply
  BY <1>14 DEF PlainReply, Acting, Leave
<1>15. CASE TextCall
  BY <1>15 DEF TextCall, Acting, LeaveInError, Leave, Appends
<1>16. CASE TextResult
  BY <1>16 DEF TextResult, Leave, Appends
<1>17. CASE BatchOpens
  BY <1>17 DEF BatchOpens, Acting
<1>18. CASE BatchEnds
  BY <1>18 DEF BatchEnds, Leave
<1>19. CASE BatchAnswer
  BY <1>19 DEF BatchAnswer, Appends
<1>20. CASE BatchAborted
  BY <1>20 DEF BatchAborted, LeaveInError, Leave, Appends
<1>21. CASE BatchResults
  BY <1>21 DEF BatchResults, Leave, Appends
<1>22. ASSUME NEW k \in 1 .. left, BatchRun(k) PROVE (Filed /\ EffectIsDurable /\ Charged)'
  BY <1>22 DEF BatchRun
<1>23. CASE EndTurn
  BY <1>23 DEF EndTurn, Appends
<1>24. ASSUME NEW v \in {"none", "reached", "unmet"}, Judge(v) PROVE (Filed /\ EffectIsDurable /\ Charged)'
  BY <1>24 DEF Judge, NeedsCheck, BudgetLeft, Refund, OpenOne, Appends
<1>25. CASE NoCheck
  BY <1>25 DEF NoCheck, NeedsCheck
<1>26. CASE Continue
  BY <1>26 DEF Continue, Open, Appends
<1>27. CASE GoIdle
  BY <1>27 DEF GoIdle
<1>28. QED
  BY <1>1, <1>2, <1>3, <1>4, <1>5, <1>6, <1>7, <1>8, <1>9, <1>10, <1>11, <1>12, <1>13, <1>14, <1>15, <1>16, <1>17, <1>18, <1>19, <1>20, <1>21, <1>22, <1>23, <1>24, <1>25, <1>26, <1>27 DEF Next, Step

(* A step that changes nothing keeps everything. *)
LEMMA Stutter ==
    ASSUME IInv, UNCHANGED vars
    PROVE  IInv'
BY DEF IInv, vars, TypeOK, InHand, BatchOwed, StopSpoils, CallsAnswered, Filed,
       EffectIsDurable, Charged

(* A session starts at rest, with nothing owed and nothing unsaved. *)
LEMMA InitInv == Init => IInv
<1> SUFFICES ASSUME Init PROVE IInv
  OBVIOUS
<1> USE TurnLoopAssumption DEF Init
<1>1. TypeOK
  <2>1. spent \in [opened : 0 .. MaxAuto, stalled : 0 .. MaxStalled]
    BY DEF Fresh
  <2>2. /\ hops \in 0 .. MaxHops /\ retries \in 0 .. RetryMax
        /\ overflows \in 0 .. MaxOverflow /\ nudges \in 0 .. MaxNudges
        /\ left \in 0 .. MaxCalls /\ running \in 0 .. MaxCalls
        /\ turnsLeft \in 0 .. MaxTurns /\ owed \in Nat
    OBVIOUS
  <2>3. QED
    BY <2>1, <2>2 DEF TypeOK, Abnormal
<1>2. InHand /\ BatchOwed /\ StopSpoils /\ CallsAnswered
  BY DEF InHand, BatchOwed, StopSpoils, CallsAnswered
<1>3. Filed /\ EffectIsDurable /\ Charged
  BY DEF Filed, EffectIsDurable, Charged
<1>4. QED
  BY <1>1, <1>2, <1>3 DEF IInv

(* IInv is an invariant of the turn loop, whatever the budgets. *)
THEOREM Inductive == Spec => []IInv
<1>1. IInv /\ [Next]_vars => IInv'
  BY TypeStep, CallsStep, EndStep, Stutter DEF IInv
<1>2. QED
  BY InitInv, <1>1, PTL DEF Spec

(* The counters of a turn stay within their budgets and everything else in *)
(* its type, for every value of the budgets.                               *)
THEOREM TypeCorrect == Spec => []TypeOK
<1>1. IInv => TypeOK
  BY DEF IInv
<1>2. QED
  BY Inductive, <1>1, PTL

(* No tool body runs while a row of the log is not on disk (the checkpoint *)
(* before every body in run_native_one and in start_turn's loop).          *)
THEOREM EffectsDurable == Spec => []EffectIsDurable
<1>1. IInv => EffectIsDurable
  BY DEF IInv
<1>2. QED
  BY Inductive, <1>1, PTL

(* Every turn that ends in error was reported to the idealist first.       *)
THEOREM ErrorsTicketed == Spec => []ErrorIsTicketed
<1>1. IInv => ErrorIsTicketed
  BY DEF IInv, Filed, ErrorIsTicketed
<1>2. QED
  BY Inductive, <1>1, PTL

(* Unless a turn was stopped or cut off at max_tokens, every native call   *)
(* the model made has exactly one answer when its batch is over.           *)
THEOREM CallsAccounted == Spec => []CallsAnswered
<1>1. IInv => CallsAnswered
  BY DEF IInv
<1>2. QED
  BY Inductive, <1>1, PTL

(* The completion check opens a continuation only within MAX_AUTO_CONTINUES *)
(* of the human message behind it and never for a turn that was stopped.   *)
THEOREM ContinuesBounded == Spec => ContinuesInBudget
<1> DEFINE Bounded ==
      pc = "deciding" /\ pc' = "top" =>
          ~cancelled /\ finish # "interrupted" /\ spent.opened \in 1 .. MaxAuto
<1>1. IInv /\ Next => Bounded
  <2> SUFFICES ASSUME IInv, Next, pc = "deciding", pc' = "top"
               PROVE  ~cancelled /\ finish # "interrupted" /\ spent.opened \in 1 .. MaxAuto
    OBVIOUS
  <2>1. Continue
    BY DEF Next, Step, Stop, StartTurn, TopCancelled, TopFails, Request, Overflow, Retry,
           GiveUp, Reply, ReplyCancelled, CutOff, EmptyReply, Miscall, PlainReply, TextCall,
           TextResult, BatchOpens, BatchEnds, BatchAnswer, BatchAborted, BatchResults,
           BatchRun, EndTurn, Judge, NoCheck, GoIdle, Acting
  <2>2. QED
    BY <2>1 DEF Continue, IInv, Charged
<1>2. IInv /\ [Next]_vars => [Bounded]_vars
  BY <1>1
<1>3. QED
  BY Inductive, <1>2, PTL DEF Spec, ContinuesInBudget

(* A place of the loop, as the hop machine sees it. *)
LEMMA PhaseOfPlace ==
    /\ pc = "idle" => phase = "idle"
    /\ pc = "top" => phase = "top"
    /\ pc \in {"calling", "replied", "batch", "running"} => phase = "calling"
    /\ pc \in {"ending", "judging", "deciding"} => phase = "ending"
BY DEF phase

(* The same after a step. *)
LEMMA PhaseAfter ==
    /\ pc' = "idle" => phase' = "idle"
    /\ pc' = "top" => phase' = "top"
    /\ pc' \in {"calling", "replied", "batch", "running"} => phase' = "calling"
    /\ pc' \in {"ending", "judging", "deciding"} => phase' = "ending"
BY DEF phase

(* The loop takes no step the hop machine of TurnSlot does not have: each  *)
(* step is one of the machine's, or leaves its phase (start_turn's loop    *)
(* and the end of a turn).                                                 *)
THEOREM PhasesFollowed == Spec => Phases!Init /\ [][Phases!Next]_phase
<1>1. Init => Phases!Init
  BY PhaseOfPlace DEF Init, Phases!Init
<1>2. Next => [Phases!Next]_phase
  <2> SUFFICES ASSUME Next PROVE [Phases!Next]_phase
    OBVIOUS
  <2> USE PhaseOfPlace, PhaseAfter
  <2>1. ASSUME NEW s \in {"human", "goal"}, StartTurn(s) PROVE Phases!Begin
    BY <2>1 DEF StartTurn, Open, Phases!Begin
  <2>2. CASE Stop \/ BatchAnswer \/ NoCheck \/ EndTurn \/ BatchOpens \/ \E v \in {"none", "reached", "unmet"} : Judge(v)
    BY <2>2 DEF Stop, BatchAnswer, NoCheck, EndTurn, BatchOpens, Judge, Acting, phase
  <2>3. CASE TopCancelled \/ TopFails \/ Request
    <3>1. pc = "top" /\ pc' \in {"calling", "ending"}
      BY <2>3 DEF TopCancelled, TopFails, Request, Leave, LeaveInError
    <3>2. QED
      BY <3>1 DEF Phases!Next, Phases!HopTop
  <2>4. CASE Continue \/ GoIdle
    <3>1. pc = "deciding" /\ pc' \in {"idle", "top"}
      BY <2>4 DEF Continue, GoIdle, Open
    <3>2. QED
      BY <3>1 DEF Phases!Next, Phases!Decide
  <2>5. CASE \/ Overflow \/ Retry \/ GiveUp \/ ReplyCancelled \/ CutOff \/ EmptyReply \/ Miscall \/ PlainReply
             \/ TextCall \/ TextResult \/ BatchEnds \/ BatchAborted \/ BatchResults
             \/ (\E r \in Replies : Reply(r[1], r[2])) \/ (\E k \in 1 .. left : BatchRun(k))
    <3>1. /\ pc \in {"calling", "replied", "batch", "running"}
          /\ pc' \in {"top", "calling", "replied", "batch", "running", "ending"}
      BY <2>5 DEF Overflow, Retry, GiveUp, ReplyCancelled, CutOff, EmptyReply, Miscall, PlainReply, TextCall,
             TextResult, BatchEnds, BatchAborted, BatchResults, Reply, BatchRun, Leave, LeaveInError, Acting
    <3>2. QED
      BY <3>1 DEF Phases!Next, Phases!HopAgain, Phases!HopLast
  <2>6. QED
    BY <2>1, <2>2, <2>3, <2>4, <2>5 DEF Next, Step, Phases!Next
<1>3. UNCHANGED vars => UNCHANGED phase
  BY DEF vars, phase
<1>4. [Next]_vars => [Phases!Next]_phase
  BY <1>2, <1>3
<1>5. QED
  BY <1>1, <1>4, PTL DEF Spec
=============================================================================
