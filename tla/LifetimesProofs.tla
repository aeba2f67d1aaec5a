-------------------------- MODULE LifetimesProofs ---------------------------
(***************************************************************************)
(* Proofs about the parts MCLifetimes collects, each for every value of    *)
(* its constants: the memory keeper, a client and its backend, and the     *)
(* program a model writes; and the invariants of the run Lifetimes.        *)
(***************************************************************************)
EXTENDS MCLifetimes, TLAPS

-----------------------------------------------------------------------------
(* The memory keeper: any number of sessions, turns and rows. *)

Job == [chat : Chats, forced : BOOLEAN]
Row == [seq : Nat, through : Nat, by : {"none", "model", "user", "auto"}]
AtWork == {"waiting", "planning", "publishing", "looking", "asking", "landing"}
Planned == {"publishing", "looking", "asking", "landing"}

WorkerType ==
    [at : AtWork \cup {"idle"}, job : Job \cup {NoJob}, plan : [base : Nat, through : Nat],
     cancelled : BOOLEAN, reply : {"none", "ok", "failed"}]

KeeperTyped ==
    /\ phase \in [Chats -> {"none", "opening", "running"}]
    /\ msgs \in [Chats -> Nat]
    /\ starts \in Nat
    /\ mem \in [Chats -> Row]
    /\ timer \in [Chats -> BOOLEAN]
    /\ jobs \in Seq(Job)
    /\ worker \in WorkerType
    /\ worker.at \in AtWork => worker.job \in Job

(* A row has read no more than there is.                                   *)
ReadsWhatIs == \A s \in Chats : mem[s].through <= msgs[s]

(* A pass knows an older row than the newest, or the newest; in that case  *)
(* its reading reaches at least as far.                                    *)
PlanFits ==
    worker.at \in Planned =>
        LET row == mem[worker.job.chat] IN
        /\ worker.plan.base <= row.seq
        /\ worker.plan.through <= msgs[worker.job.chat]
        /\ row.seq = worker.plan.base => row.through <= worker.plan.through

KeeperInv == KeeperTyped /\ ReadsWhatIs /\ PlanFits

LEMMA KeeperInitially == KeeperInit => KeeperInv /\ TurnStopsPass
  BY DEF KeeperInit, KeeperInv, KeeperTyped, ReadsWhatIs, PlanFits, TurnStopsPass, Resting, NoJob,
         NoPlan, NoMemory, WorkerType, Job, Row, AtWork, Planned

(* Enqueueing a job keeps the channel a sequence of jobs. *)
LEMMA EnqueueTyped == ASSUME NEW j \in Job, jobs \in Seq(Job), Enqueue(j) PROVE jobs' \in Seq(Job)
  BY DEF Enqueue

LEMMA TypedTurns ==
    ASSUME KeeperTyped, NEW s \in Chats,
           \/ Announce(s) \/ Register(s) \/ Refuse(s) \/ Remember(s) \/ GoesIdle(s)
           \/ SetSessionMemory(s) \/ TimerFires(s) \/ RefreshRequest(s)
    PROVE  KeeperTyped'
<1> USE DEF KeeperTyped, turnsOf
<1>1. CASE Announce(s)
  <2>1. jobs' \in Seq(Job)
    BY <1>1, EnqueueTyped DEF Announce, Job
  <2> DEFINE told == worker.cancelled \/ worker.at \in {"looking", "asking"}
  <2>2. told \in BOOLEAN
    OBVIOUS
  <2>3. worker' = [worker EXCEPT !.cancelled = told]
    BY <1>1 DEF Announce
  <2>4. worker' \in WorkerType /\ worker'.at = worker.at /\ worker'.job = worker.job
    BY <2>2, <2>3 DEF WorkerType
  <2>5. UNCHANGED <<msgs, mem>> /\ starts' = starts + 1
        /\ phase' = [phase EXCEPT ![s] = "opening"] /\ timer' = [timer EXCEPT ![s] = FALSE]
    BY <1>1 DEF Announce
  <2>6. QED
    BY <2>1, <2>4, <2>5
<1>2. CASE Register(s)
  BY <1>2 DEF Register
<1>3. CASE Refuse(s)
  BY <1>3 DEF Refuse
<1>4. CASE Remember(s)
  <2> DEFINE row == [seq |-> mem[s].seq + 1, through |-> mem[s].through, by |-> "model"]
  <2>a. row \in Row
    BY DEF Row
  <2>b. mem' = [mem EXCEPT ![s] = row]
    BY <1>4 DEF Remember
  <2>1. mem' \in [Chats -> Row]
    BY <2>a, <2>b
  <2>2. QED
    BY <1>4, <2>1 DEF Remember
<1>5. CASE GoesIdle(s)
  BY <1>5 DEF GoesIdle
<1>6. CASE SetSessionMemory(s)
  <2> DEFINE row == [seq |-> mem[s].seq + 1, through |-> msgs[s], by |-> "user"]
  <2>a. row \in Row
    BY DEF Row
  <2>b. mem' = [mem EXCEPT ![s] = row]
    BY <1>6 DEF SetSessionMemory
  <2>1. mem' \in [Chats -> Row]
    BY <2>a, <2>b
  <2>2. QED
    BY <1>6, <2>1 DEF SetSessionMemory
<1>7. CASE TimerFires(s)
  <2>1. jobs' \in Seq(Job)
    BY <1>7, EnqueueTyped DEF TimerFires, Job
  <2>2. QED
    BY <1>7, <2>1 DEF TimerFires
<1>8. CASE RefreshRequest(s)
  <2>1. jobs' \in Seq(Job)
    BY <1>8, EnqueueTyped DEF RefreshRequest, Job
  <2>2. QED
    BY <1>8, <2>1 DEF RefreshRequest
<1>9. QED
  BY <1>1, <1>2, <1>3, <1>4, <1>5, <1>6, <1>7, <1>8

WorkerSteps ==
    \/ WorkerTakes \/ WorkerSeesQuiet \/ WorkerPlans \/ WorkerPublishes \/ WorkerLooks
    \/ \E ok \in BOOLEAN : PassReplies(ok)
    \/ PassCancelled \/ PassFails \/ Land

LEMMA TypedWorker == ASSUME KeeperTyped, WorkerSteps PROVE KeeperTyped'
<1> USE DEF KeeperTyped, turnsOf, AtWork, WorkerType
<1>0. Resting \in WorkerType /\ Resting.at = "idle"
  BY DEF Resting, NoPlan
<1>1. CASE WorkerTakes
  <2>1. Head(jobs) \in Job /\ Tail(jobs) \in Seq(Job)
    BY <1>1 DEF WorkerTakes
  <2>2. CASE Worth(Head(jobs))
    <3>1. worker' = [Resting EXCEPT !.at = "waiting", !.job = Head(jobs)]
      BY <1>1, <2>2 DEF WorkerTakes
    <3>2. QED
      BY <1>0, <1>1, <2>1, <3>1 DEF WorkerTakes
  <2>3. CASE ~Worth(Head(jobs))
    BY <1>0, <1>1, <2>1, <2>3 DEF WorkerTakes
  <2>4. QED
    BY <2>2, <2>3
<1>2. CASE WorkerSeesQuiet
  BY <1>2 DEF WorkerSeesQuiet
<1>3. CASE WorkerPlans
  <2>1. worker.job.chat \in Chats
    BY <1>3 DEF WorkerPlans, Job
  <2>2. mem[worker.job.chat].seq \in Nat /\ msgs[worker.job.chat] \in Nat
    BY <2>1 DEF Row
  <2>3. QED
    BY <1>0, <1>3, <2>2 DEF WorkerPlans
<1>4. CASE WorkerPublishes
  BY <1>4 DEF WorkerPublishes
<1>5. CASE WorkerLooks
  BY <1>5 DEF WorkerLooks
<1>6. ASSUME NEW ok \in BOOLEAN, PassReplies(ok) PROVE KeeperTyped'
  BY <1>6 DEF PassReplies
<1>7. CASE PassCancelled
  <2>1. jobs' \in Seq(Job)
    BY <1>7, EnqueueTyped DEF PassCancelled
  <2>2. QED
    BY <1>0, <1>7, <2>1 DEF PassCancelled
<1>8. CASE PassFails
  BY <1>0, <1>8 DEF PassFails
<1>9. CASE Land
  <2>1. worker.job \in Job /\ worker.job.chat \in Chats
    BY <1>9 DEF Land, Job
  <2>2. jobs' \in Seq(Job)
    BY <1>9, <2>1, EnqueueTyped DEF Land
  <2>3. mem' \in [Chats -> Row]
    <3> DEFINE c == worker.job.chat
               row == [seq |-> mem[c].seq + 1, through |-> worker.plan.through, by |-> "auto"]
    <3>1. row \in Row
      BY <2>1 DEF Row
    <3>2. mem' = [mem EXCEPT ![c] = row] \/ mem' = mem
      BY <1>9 DEF Land
    <3>3. QED
      BY <2>1, <3>1, <3>2
  <2>4. QED
    BY <1>0, <1>9, <2>2, <2>3 DEF Land
<1>10. QED
  BY <1>1, <1>2, <1>3, <1>4, <1>5, <1>6, <1>7, <1>8, <1>9 DEF WorkerSteps

(* TurnStopsPass is not inductive: a turn that only announced itself may   *)
(* register later, so the turns still opening count as well.               *)
NoTurnUnseen ==
    worker.at = "asking" /\ ~worker.cancelled /\ (\E s \in Chats : phase[s] # "none") => slipped

(* What a step does to the memory rows, whoever takes it.                  *)
RowsGrow ==
    \A s \in Chats :
        /\ mem'[s].through >= mem[s].through
        /\ mem'[s].by = "auto" /\ mem'[s].seq # mem[s].seq => worker.plan.base = mem[s].seq

LEMMA RowsTurns ==
    ASSUME KeeperInv, NEW s \in Chats,
           \/ Announce(s) \/ Register(s) \/ Refuse(s) \/ Remember(s) \/ GoesIdle(s)
           \/ SetSessionMemory(s) \/ TimerFires(s) \/ RefreshRequest(s)
    PROVE  ReadsWhatIs' /\ PlanFits' /\ RowsGrow
<1> USE DEF KeeperInv
<1>a. \A c \in Chats : mem[c].seq \in Nat /\ mem[c].through \in Nat /\ msgs[c] \in Nat
  BY DEF KeeperTyped, Row
<1>b. worker.at \in Planned => worker.job.chat \in Chats /\ worker.plan.base \in Nat /\ worker.plan.through \in Nat
  BY DEF KeeperTyped, WorkerType, AtWork, Planned, Job
<1>c. /\ DOMAIN mem = Chats /\ DOMAIN msgs = Chats
      /\ mem = [c \in Chats |-> mem[c]] /\ msgs = [c \in Chats |-> msgs[c]]
  BY DEF KeeperTyped
<1>1. CASE UNCHANGED <<msgs, mem>> /\ worker'.at = worker.at /\ worker'.job = worker.job
           /\ worker'.plan = worker.plan
  BY <1>1, <1>a DEF ReadsWhatIs, PlanFits, RowsGrow
<1>2. CASE Announce(s)
  <2>1. worker'.at = worker.at /\ worker'.job = worker.job /\ worker'.plan = worker.plan
    BY <1>2 DEF Announce, KeeperTyped, WorkerType
  <2>2. UNCHANGED <<msgs, mem>>
    BY <1>2 DEF Announce
  <2>3. QED
    BY <1>1, <2>1, <2>2
<1>3. CASE Register(s)
  <2>1. /\ UNCHANGED <<mem, worker>>
        /\ \A c \in Chats : msgs'[c] = IF c = s THEN msgs[c] + 1 ELSE msgs[c]
    BY <1>3, <1>c DEF Register
  <2>2. \A c \in Chats : msgs'[c] \in Nat /\ msgs[c] <= msgs'[c]
    BY <2>1, <1>a
  <2>3. QED
    BY <2>1, <2>2, <1>a, <1>b DEF ReadsWhatIs, PlanFits, RowsGrow
<1>4. CASE Remember(s)
  <2>1. /\ UNCHANGED <<msgs, worker>> /\ \A c \in Chats : c # s => mem'[c] = mem[c]
        /\ mem'[s] = [seq |-> mem[s].seq + 1, through |-> mem[s].through, by |-> "model"]
    BY <1>4, <1>c DEF Remember, turnsOf
  <2>2. mem'[s].seq = mem[s].seq + 1 /\ mem'[s].through = mem[s].through /\ mem'[s].by = "model"
    BY <2>1
  <2>3. ReadsWhatIs'
    BY <2>1, <2>2, <1>a DEF ReadsWhatIs
  <2>4. RowsGrow
    BY <2>1, <2>2, <1>a DEF RowsGrow, ReadsWhatIs
  <2>5. PlanFits'
    BY <2>1, <2>2, <1>a, <1>b DEF PlanFits
  <2>6. QED
    BY <2>3, <2>4, <2>5
<1>5. CASE SetSessionMemory(s)
  <2>1. /\ UNCHANGED <<msgs, worker>> /\ \A c \in Chats : c # s => mem'[c] = mem[c]
        /\ mem'[s] = [seq |-> mem[s].seq + 1, through |-> msgs[s], by |-> "user"]
    BY <1>5, <1>c DEF SetSessionMemory, turnsOf
  <2>2. mem'[s].seq = mem[s].seq + 1 /\ mem'[s].through = msgs[s] /\ mem'[s].by = "user"
    BY <2>1
  <2>3. ReadsWhatIs'
    BY <2>1, <2>2, <1>a DEF ReadsWhatIs
  <2>4. RowsGrow
    BY <2>1, <2>2, <1>a DEF RowsGrow, ReadsWhatIs
  <2>5. PlanFits'
    BY <2>1, <2>2, <1>a, <1>b DEF PlanFits
  <2>6. QED
    BY <2>3, <2>4, <2>5
<1>6. CASE Refuse(s) \/ GoesIdle(s) \/ TimerFires(s) \/ RefreshRequest(s)
  BY <1>1, <1>6 DEF Refuse, GoesIdle, TimerFires, RefreshRequest, turnsOf
<1>7. QED
  BY <1>2, <1>3, <1>4, <1>5, <1>6

LEMMA RowsWorker == ASSUME KeeperInv, WorkerSteps PROVE ReadsWhatIs' /\ PlanFits' /\ RowsGrow
<1> USE DEF KeeperInv
<1>a. \A c \in Chats : mem[c].seq \in Nat /\ mem[c].through \in Nat /\ msgs[c] \in Nat
  BY DEF KeeperTyped, Row
<1>b. worker.at \in AtWork => worker.job.chat \in Chats /\ worker.plan.base \in Nat /\ worker.plan.through \in Nat
  BY DEF KeeperTyped, WorkerType, Job
<1>c. mem = [c \in Chats |-> mem[c]]
  BY DEF KeeperTyped
<1>1. CASE UNCHANGED <<msgs, mem>> /\ worker'.at \notin Planned
  BY <1>1, <1>a DEF ReadsWhatIs, PlanFits, RowsGrow
<1>2. CASE /\ UNCHANGED <<msgs, mem>>
           /\ worker.at \in Planned /\ worker'.job = worker.job /\ worker'.plan = worker.plan
  BY <1>2, <1>a DEF ReadsWhatIs, PlanFits, RowsGrow
<1>3. Resting.at \notin Planned
  BY DEF Resting, Planned
<1>4. CASE WorkerTakes
  <2>1. worker'.at \in {"idle", "waiting"}
    BY <1>4 DEF WorkerTakes, Resting
  <2>2. QED
    BY <1>1, <1>4, <2>1 DEF WorkerTakes, turnsOf, Planned
<1>5. CASE WorkerSeesQuiet
  <2>1. worker'.at = "planning"
    BY <1>5 DEF WorkerSeesQuiet, KeeperTyped, WorkerType
  <2>2. QED
    BY <1>1, <1>5, <2>1 DEF WorkerSeesQuiet, turnsOf, Planned
<1>6. CASE WorkerPlans
  <2>0. UNCHANGED <<msgs, mem>> /\ worker.job.chat \in Chats
    BY <1>6, <1>b DEF WorkerPlans, turnsOf, AtWork
  <2>1. CASE ~Worth(worker.job)
    BY <1>1, <1>3, <1>6, <2>0, <2>1 DEF WorkerPlans
  <2>2. CASE Worth(worker.job)
    <3>1. /\ worker'.job = worker.job
          /\ worker'.plan = [base |-> mem[worker.job.chat].seq, through |-> msgs[worker.job.chat]]
      BY <1>6, <2>2 DEF WorkerPlans, KeeperTyped, WorkerType
    <3>2. QED
      BY <1>a, <2>0, <3>1 DEF ReadsWhatIs, PlanFits, RowsGrow
  <2>3. QED
    BY <2>1, <2>2
<1>7. CASE WorkerPublishes \/ WorkerLooks \/ \E ok \in BOOLEAN : PassReplies(ok)
  <2>1. worker'.job = worker.job /\ worker'.plan = worker.plan
    BY <1>7 DEF WorkerPublishes, WorkerLooks, PassReplies, KeeperTyped, WorkerType
  <2>2. QED
    BY <1>2, <1>7, <2>1 DEF WorkerPublishes, WorkerLooks, PassReplies, turnsOf, Planned
<1>8. CASE PassCancelled \/ PassFails
  BY <1>1, <1>3, <1>8 DEF PassCancelled, PassFails, turnsOf
<1>9. CASE Land
  <2> DEFINE s == worker.job.chat
  <2>1. /\ s \in Chats /\ worker.at \in Planned /\ worker.plan.through \in Nat
        /\ UNCHANGED msgs /\ worker' = Resting
    BY <1>9, <1>b DEF Land, turnsOf, Planned, AtWork
  <2>2. CASE mem[s].seq # worker.plan.base
    BY <1>1, <1>3, <1>9, <2>1, <2>2 DEF Land
  <2>3. CASE mem[s].seq = worker.plan.base
    <3>1. /\ \A c \in Chats : c # s => mem'[c] = mem[c]
          /\ mem'[s] = [seq |-> mem[s].seq + 1, through |-> worker.plan.through, by |-> "auto"]
      BY <1>9, <1>c, <2>1, <2>3 DEF Land
    <3>a. mem'[s].seq = mem[s].seq + 1 /\ mem'[s].through = worker.plan.through /\ mem'[s].by = "auto"
      BY <3>1
    <3>2. mem[s].through <= worker.plan.through /\ worker.plan.through <= msgs[s]
      BY <2>1, <2>3 DEF PlanFits
    <3>3. ReadsWhatIs' /\ RowsGrow
      <4>1. ReadsWhatIs'
        BY <1>a, <2>1, <3>1, <3>a, <3>2 DEF ReadsWhatIs
      <4>2. RowsGrow
        BY <1>a, <2>1, <2>3, <3>1, <3>a, <3>2 DEF RowsGrow
      <4>3. QED
        BY <4>1, <4>2
    <3>4. PlanFits'
      BY <1>3, <2>1 DEF PlanFits
    <3>5. QED
      BY <3>3, <3>4
  <2>4. QED
    BY <2>2, <2>3
<1>10. QED
  BY <1>4, <1>5, <1>6, <1>7, <1>8, <1>9 DEF WorkerSteps

LEMMA RowsStep == KeeperInv /\ [KeeperNext]_keeperVars => KeeperInv' /\ RowsGrow
<1> SUFFICES ASSUME KeeperInv, [KeeperNext]_keeperVars PROVE KeeperInv' /\ RowsGrow
  OBVIOUS
<1>1. CASE UNCHANGED keeperVars
  <2>1. KeeperInv'
    BY <1>1 DEF KeeperInv, KeeperTyped, ReadsWhatIs, PlanFits, keeperVars, turnsOf
  <2>2. \A s \in Chats : mem[s].through \in Nat
    BY DEF KeeperInv, KeeperTyped, Row
  <2>3. QED
    BY <1>1, <2>1, <2>2 DEF RowsGrow, keeperVars
<1>2. CASE \E s \in Chats : \/ Announce(s) \/ Register(s) \/ Refuse(s) \/ Remember(s) \/ GoesIdle(s)
                            \/ SetSessionMemory(s) \/ TimerFires(s) \/ RefreshRequest(s)
  BY <1>2, TypedTurns, RowsTurns DEF KeeperInv
<1>3. CASE WorkerSteps
  BY <1>3, TypedWorker, RowsWorker DEF KeeperInv
<1>4. QED
  BY <1>1, <1>2, <1>3 DEF KeeperNext, WorkerSteps

LEMMA SeenStep == KeeperTyped /\ NoTurnUnseen /\ [KeeperNext]_keeperVars => NoTurnUnseen'
<1> SUFFICES ASSUME KeeperTyped, NoTurnUnseen, [KeeperNext]_keeperVars PROVE NoTurnUnseen'
  OBVIOUS
<1>a. phase = [c \in Chats |-> phase[c]] /\ \A c \in Chats : phase[c] \in {"none", "opening", "running"}
  BY DEF KeeperTyped
<1>1. CASE UNCHANGED <<phase, worker, slipped>>
  BY <1>1 DEF NoTurnUnseen
<1>2. CASE worker'.at # "asking"
  BY <1>2 DEF NoTurnUnseen
<1>3. ASSUME NEW s \in Chats, Announce(s) PROVE NoTurnUnseen'
  <2>1. worker'.at = "asking" => worker'.cancelled
    BY <1>3 DEF Announce, KeeperTyped, WorkerType
  <2>2. QED
    BY <2>1 DEF NoTurnUnseen
<1>4. ASSUME NEW s \in Chats, Register(s) \/ Refuse(s) \/ GoesIdle(s) PROVE NoTurnUnseen'
  <2>1. UNCHANGED <<worker, slipped>> /\ phase[s] # "none" /\ \A c \in Chats : c # s => phase'[c] = phase[c]
    BY <1>4, <1>a DEF Register, Refuse, GoesIdle, Running
  <2>2. QED
    BY <2>1 DEF NoTurnUnseen
<1>5. ASSUME NEW s \in Chats, Remember(s) \/ SetSessionMemory(s) \/ TimerFires(s) \/ RefreshRequest(s)
      PROVE  NoTurnUnseen'
  BY <1>1, <1>5 DEF Remember, SetSessionMemory, TimerFires, RefreshRequest, turnsOf
<1>6. CASE WorkerLooks
  <2>1. worker'.cancelled = (worker.cancelled \/ ~Quiet) /\ slipped' = (\E c \in Chats : phase[c] = "opening")
        /\ UNCHANGED phase
    BY <1>6 DEF WorkerLooks, KeeperTyped, WorkerType, turnsOf
  <2>2. QED
    BY <1>a, <2>1 DEF NoTurnUnseen, Quiet, Running
<1>7. CASE WorkerTakes \/ WorkerSeesQuiet \/ WorkerPlans \/ WorkerPublishes
           \/ (\E ok \in BOOLEAN : PassReplies(ok)) \/ PassCancelled \/ PassFails \/ Land
  <2>1. worker'.at # "asking"
    <3>0. Resting.at = "idle"
      BY DEF Resting
    <3>1. CASE WorkerTakes
      BY <3>1 DEF WorkerTakes, Resting
    <3>2. CASE WorkerSeesQuiet \/ WorkerPublishes \/ \E ok \in BOOLEAN : PassReplies(ok)
      BY <3>2 DEF WorkerSeesQuiet, WorkerPublishes, PassReplies, KeeperTyped, WorkerType
    <3>3. CASE WorkerPlans
      BY <3>0, <3>3 DEF WorkerPlans, KeeperTyped, WorkerType
    <3>4. CASE PassCancelled \/ PassFails \/ Land
      BY <3>0, <3>4 DEF PassCancelled, PassFails, Land
    <3>5. QED
      BY <1>7, <3>1, <3>2, <3>3, <3>4
  <2>2. QED
    BY <1>2, <2>1
<1>8. CASE UNCHANGED keeperVars
  BY <1>1, <1>8 DEF keeperVars, turnsOf
<1>9. QED
  BY <1>3, <1>4, <1>5, <1>6, <1>7, <1>8 DEF KeeperNext

(* memory_keeper.rs publishes the pass's token before it looks at          *)
(* active_turns: a pass goes on beside a running turn only if that turn    *)
(* had announced itself before the token was there and registered after    *)
(* the look.                                                               *)
THEOREM PassGivesWay == KeeperSpec => []TurnStopsPass
<1>1. KeeperInit => NoTurnUnseen
  BY DEF KeeperInit, NoTurnUnseen, Resting
<1>2. NoTurnUnseen => TurnStopsPass
  BY DEF NoTurnUnseen, TurnStopsPass, Quiet, Running
<1>3. KeeperInv => KeeperTyped
  BY DEF KeeperInv
<1>4. QED
  BY KeeperInitially, RowsStep, SeenStep, <1>1, <1>2, <1>3, PTL DEF KeeperSpec

(* The compare-and-set of apply: a pass never writes over a row it has not *)
(* read, and what the memory has covered of the log neither goes back nor  *)
(* runs ahead of it.                                                       *)
THEOREM RowsNotOverwritten == KeeperSpec => NewsKept
<1> DEFINE Kept == \A s \in Chats :
          /\ mem'[s].through <= msgs'[s]
          /\ mem'[s].through >= mem[s].through
          /\ mem'[s].by = "auto" /\ mem'[s].seq # mem[s].seq => worker.plan.base = mem[s].seq
<1>1. KeeperInv /\ [KeeperNext]_keeperVars => KeeperInv' /\ [Kept]_keeperVars
  BY RowsStep DEF KeeperInv, ReadsWhatIs, RowsGrow
<1>2. KeeperInit => KeeperInv
  BY KeeperInitially
<1>3. KeeperSpec => [][Kept]_keeperVars
  BY <1>1, <1>2, PTL DEF KeeperSpec
<1>4. QED
  BY <1>3 DEF NewsKept

-----------------------------------------------------------------------------
(* A client and its backend: any number of generations, requests and deaths. *)

Client == [at : {"none", "connecting", "open", "ended"}, to : Generations \cup {0}, writing : BOOLEAN]

SupTyped ==
    /\ running \in Generations \cup {0}
    /\ sup \in [at : {"idle", "stopping", "building", "over"}, of : Generations \cup {0},
                next : {"none", "build", "restart", "quit"}]
    /\ sup.at = "stopping" => sup.of \in Generations
    /\ proc \in [Generations -> Alive \cup {"none", "dead"}]
    /\ ipc \in [Generations -> Client]
    /\ outbox \in [Generations -> Seq(Nat)]
    /\ sealed \in [Generations -> BOOLEAN]
    /\ intake \in [Generations -> Seq(Nat)]
    /\ sentBy \in Seq(Generations)
    /\ handledBy \in [Generations -> Seq(Nat)]

(* The generation that may still have a process and an open channel.       *)
Current == IF sup.at = "stopping" THEN sup.of ELSE running

(* Only the current generation lives or is still unsealed, so the backend  *)
(* an unsealed client finds on the pipe is its own.                        *)
OneBackend ==
    /\ running # 0 => sup.at = "idle"
    /\ \A g \in Generations :
          /\ proc[g] \in Alive \/ (proc[g] # "none" /\ ~sealed[g]) => g = Current
          /\ ipc[g].at # "none" => proc[g] # "none"
          /\ ~sealed[g] => ipc[g].to \in {0, g}

(* A backend accepts one client and a client reaches one backend.          *)
OneClient ==
    /\ \A c \in Generations :
          /\ ipc[c].at \in {"none", "connecting"} => ipc[c].to = 0
          /\ ipc[c].writing => ipc[c].to # 0
    /\ \A b, c \in Generations : proc[b] \in {"none", "starting", "listening"} => ipc[c].to # b
    /\ \A c, d \in Generations : ipc[c].to = ipc[d].to /\ ipc[c].to # 0 => c = d

LEMMA SupInitially == SupervisorInit => SupTyped /\ OneBackend /\ OneClient
<1> SUFFICES ASSUME SupervisorInit PROVE SupTyped /\ OneBackend /\ OneClient
  OBVIOUS
<1> USE SupervisorAssumption DEF SupervisorInit, SupIdle, Unborn, Alive
<1>1. SupTyped
  BY DEF SupTyped, Client
<1>2. OneBackend
  BY DEF OneBackend
<1>3. OneClient
  BY DEF OneClient
<1>4. QED
  BY <1>1, <1>2, <1>3

(* Queues of naturals: what Append and Tail do to them. *)
LEMMA QueueTyped ==
    ASSUME NEW q \in [Generations -> Seq(Nat)], NEW g \in Generations, NEW x \in Nat
    PROVE  [q EXCEPT ![g] = Append(@, x)] \in [Generations -> Seq(Nat)]
<1>1. q[g] \in Seq(Nat)
  OBVIOUS
<1>2. Append(q[g], x) \in Seq(Nat)
  BY <1>1
<1>3. QED
  BY <1>2

LEMMA TailTyped ==
    ASSUME NEW q \in [Generations -> Seq(Nat)], NEW g \in Generations, q[g] # <<>>
    PROVE  [q EXCEPT ![g] = Tail(@)] \in [Generations -> Seq(Nat)] /\ Head(q[g]) \in Nat
<1>1. q[g] \in Seq(Nat)
  OBVIOUS
<1>2. Tail(q[g]) \in Seq(Nat) /\ Head(q[g]) \in Nat
  BY <1>1
<1>3. QED
  BY <1>2

LEMMA ClientTyped ==
    ASSUME ipc \in [Generations -> Client], NEW g \in Generations
    PROVE  /\ \A a \in {"connecting", "ended"} : [ipc EXCEPT ![g].at = a] \in [Generations -> Client]
           /\ [ipc EXCEPT ![g].writing = FALSE] \in [Generations -> Client]
<1>1. ipc[g] \in Client
  OBVIOUS
<1>2. [ipc[g] EXCEPT !.writing = FALSE] \in Client
  BY <1>1 DEF Client
<1>3. ASSUME NEW a \in {"connecting", "ended"} PROVE [ipc[g] EXCEPT !.at = a] \in Client
  BY <1>1 DEF Client
<1>4. QED
  BY <1>2, <1>3

LEMMA TypedStarts == ASSUME SupTyped, Starts
    PROVE  /\ running' \in Generations \cup {0}
           /\ proc' \in [Generations -> Alive \cup {"none", "dead"}]
           /\ ipc' \in [Generations -> Client]
<1>1. ASSUME NEW g \in Generations, SpawnsBackend(g), running' = g,
             ipc' = [ipc EXCEPT ![g].at = "connecting"]
      PROVE  /\ running' \in Generations \cup {0}
             /\ proc' \in [Generations -> Alive \cup {"none", "dead"}]
             /\ ipc' \in [Generations -> Client]
  BY <1>1, ClientTyped DEF SupTyped, SpawnsBackend, Alive
<1>2. QED
  BY <1>1 DEF Starts, SupTyped

LEMMA TypedLeaving == ASSUME SupTyped, NEW next \in {"none", "build", "restart", "quit"}, Leaving(next)
    PROVE SupTyped'
<1>1. CASE running # 0
  <2>1. /\ sup' = [at |-> "stopping", of |-> running, next |-> next] /\ running' = 0
        /\ outbox' = [outbox EXCEPT ![running] = Append(@, Shutdown)] /\ running \in Generations
        /\ UNCHANGED <<proc, ipc, sealed, intake, sentBy, handledBy>>
    BY <1>1 DEF Leaving, SupTyped
  <2>2. outbox' \in [Generations -> Seq(Nat)]
    BY <2>1, QueueTyped DEF SupTyped, Shutdown
  <2>3. QED
    BY <2>1, <2>2 DEF SupTyped
<1>2. CASE running = 0
  <2>1. /\ \E at \in {"idle", "building", "over"} : sup' = [at |-> at, of |-> 0, next |-> next]
        /\ UNCHANGED <<outbox, proc, ipc, sealed, intake, sentBy, handledBy>> /\ running' = 0
    BY <1>2 DEF Leaving, SupIdle
  <2>2. QED
    BY <2>1 DEF SupTyped
<1>3. QED
  BY <1>1, <1>2

SupSteps ==
    \/ StartBe \/ StopBe \/ Rebuild \/ RebuildAndRestart \/ Quit \/ FsEvent
    \/ KillChild \/ Reap \/ (\E ok \in BOOLEAN : BuildEnds(ok))
    \/ SendRequest \/ SetAutoWatch \/ SourceChanges

ClientSteps(c) ==
    \/ \E b \in Generations : Connects(c, b)
    \/ ConnectTimesOut(c) \/ Disconnects(c) \/ WritesFrame(c) \/ WriterEnds(c)
    \/ Listens(c) \/ Handles(c) \/ InputEnds(c) \/ Dies(c)

LEMMA TypedSup == ASSUME SupTyped, SupSteps PROVE SupTyped'
<1>1. CASE StartBe
  BY <1>1, TypedStarts DEF StartBe, SupTyped
<1>2. CASE StopBe \/ Rebuild \/ RebuildAndRestart \/ Quit
  BY <1>2, TypedLeaving DEF StopBe, Rebuild, RebuildAndRestart, Quit
<1>3. CASE FsEvent
  BY <1>3, TypedLeaving DEF FsEvent, SupTyped
<1>4. CASE KillChild
  BY <1>4 DEF KillChild, SupTyped
<1>5. CASE Reap
  <2>1. \E at \in {"idle", "building", "over"}, next \in {"none", "build", "restart", "quit"} :
           sup' = [at |-> at, of |-> 0, next |-> next]
    BY <1>5 DEF Reap, SupIdle, SupTyped
  <2>2. QED
    BY <1>5, <2>1 DEF Reap, SupTyped
<1>6. ASSUME NEW ok \in BOOLEAN, BuildEnds(ok) PROVE SupTyped'
  <2>1. /\ running' \in Generations \cup {0}
        /\ proc' \in [Generations -> Alive \cup {"none", "dead"}]
        /\ ipc' \in [Generations -> Client]
    BY <1>6, TypedStarts DEF BuildEnds, SupTyped
  <2>2. QED
    BY <1>6, <2>1 DEF BuildEnds, SupTyped, SupIdle
<1>7. CASE SendRequest
  <2>1. running \in Generations /\ Len(sentBy) + 1 \in Nat /\ sentBy' \in Seq(Generations)
    BY <1>7 DEF SendRequest, SupTyped
  <2>2. outbox' \in [Generations -> Seq(Nat)]
    BY <1>7, <2>1, QueueTyped DEF SendRequest, SupTyped
  <2>3. QED
    BY <1>7, <2>1, <2>2 DEF SendRequest, SupTyped
<1>8. CASE SetAutoWatch \/ SourceChanges
  BY <1>8 DEF SetAutoWatch, SourceChanges, SupTyped
<1>9. QED
  BY <1>1, <1>2, <1>3, <1>4, <1>5, <1>6, <1>7, <1>8 DEF SupSteps

LEMMA TypedClient == ASSUME SupTyped, OneClient, NEW c \in Generations, ClientSteps(c) PROVE SupTyped'
<1>1. ASSUME NEW b \in Generations, Connects(c, b) PROVE SupTyped'
  BY <1>1 DEF Connects, SupTyped, Client, Alive
<1>2. CASE ConnectTimesOut(c) \/ Disconnects(c) \/ WriterEnds(c)
  <2>a. ipc' = [ipc EXCEPT ![c].at = "ended"] \/ ipc' = [ipc EXCEPT ![c].writing = FALSE]
    BY <1>2 DEF ConnectTimesOut, Disconnects, WriterEnds
  <2>b. ipc \in [Generations -> Client]
    BY DEF SupTyped
  <2>1. ipc' \in [Generations -> Client]
    BY <2>a, <2>b, ClientTyped
  <2>2. QED
    BY <1>2, <2>1 DEF ConnectTimesOut, Disconnects, WriterEnds, SupTyped
<1>3. CASE WritesFrame(c)
  <2>1. ipc[c].to \in Generations
    BY <1>3 DEF WritesFrame, OneClient, SupTyped, Client
  <2>2. outbox' \in [Generations -> Seq(Nat)] /\ Head(outbox[c]) \in Nat
    BY <1>3, TailTyped DEF WritesFrame, SupTyped
  <2>3. intake' \in [Generations -> Seq(Nat)]
    <3>1. intake \in [Generations -> Seq(Nat)]
      BY DEF SupTyped
    <3>2. intake' = intake \/ intake' = [intake EXCEPT ![ipc[c].to] = Append(@, Head(outbox[c]))]
      BY <1>3 DEF WritesFrame
    <3>3. [intake EXCEPT ![ipc[c].to] = Append(@, Head(outbox[c]))] \in [Generations -> Seq(Nat)]
      BY <2>1, <2>2, <3>1, QueueTyped
    <3>4. QED
      BY <3>1, <3>2, <3>3
  <2>4. ipc' \in [Generations -> Client]
    <3>1. ipc \in [Generations -> Client]
      BY DEF SupTyped
    <3>2. ipc' = ipc \/ ipc' = [ipc EXCEPT ![c].writing = FALSE]
      BY <1>3 DEF WritesFrame
    <3>3. QED
      BY <3>1, <3>2, ClientTyped
  <2>5. QED
    BY <1>3, <2>2, <2>3, <2>4 DEF WritesFrame, SupTyped
<1>4. CASE Listens(c) \/ InputEnds(c) \/ Dies(c)
  BY <1>4 DEF Listens, InputEnds, Dies, SupTyped, Alive
<1>5. CASE Handles(c)
  <2>1. intake' \in [Generations -> Seq(Nat)] /\ Head(intake[c]) \in Nat
    BY <1>5, TailTyped DEF Handles, SupTyped
  <2>2. handledBy' \in [Generations -> Seq(Nat)]
    <3>1. handledBy \in [Generations -> Seq(Nat)]
      BY DEF SupTyped
    <3>2. handledBy' = handledBy \/ handledBy' = [handledBy EXCEPT ![c] = Append(@, Head(intake[c]))]
      BY <1>5 DEF Handles
    <3>3. [handledBy EXCEPT ![c] = Append(@, Head(intake[c]))] \in [Generations -> Seq(Nat)]
      BY <2>1, <3>1, QueueTyped
    <3>4. QED
      BY <3>1, <3>2, <3>3
  <2>3. QED
    BY <1>5, <2>1, <2>2 DEF Handles, SupTyped
<1>6. QED
  BY <1>1, <1>2, <1>3, <1>4, <1>5 DEF ClientSteps

-----------------------------------------------------------------------------
(* Who is alive and who talks to whom. *)

PairInv == SupTyped /\ OneBackend /\ OneClient

LEMMA PairSame ==
    ASSUME PairInv, UNCHANGED <<proc, ipc, sealed>>, Current' = Current, running' # 0 => sup'.at = "idle"
    PROVE  OneBackend' /\ OneClient'
  BY DEF PairInv, OneBackend, OneClient

(* A process is started only when no other lives and no client is open.    *)
LEMMA PairStarts ==
    ASSUME PairInv, running = 0, sup.at # "stopping", sup'.at = "idle", sealed' = sealed,
           Starts \/ UNCHANGED <<running, proc, ipc>>
    PROVE  OneBackend' /\ OneClient'
<1>1. CASE UNCHANGED <<running, proc, ipc>>
  BY <1>1, PairSame DEF Current
<1>2. ASSUME NEW g \in Generations, SpawnsBackend(g), running' = g,
             ipc' = [ipc EXCEPT ![g].at = "connecting"]
      PROVE  OneBackend' /\ OneClient'
  <2>1. /\ proc[g] = "none" /\ proc'[g] = "starting"
        /\ \A h \in Generations : h # g => proc'[h] = proc[h]
    BY <1>2 DEF SpawnsBackend, PairInv, SupTyped
  <2>2. \A h \in Generations : h # g => ipc'[h] = ipc[h]
    BY <1>2 DEF PairInv, SupTyped
  <2>3. ipc'[g].at = "connecting" /\ ipc'[g].to = ipc[g].to /\ ipc'[g].writing = ipc[g].writing
    BY <1>2 DEF PairInv, SupTyped, Client
  <2>4. ipc[g].to = 0
    BY <2>1 DEF PairInv, OneBackend, OneClient
  <2>5. Current = 0 /\ Current' = g
    BY <1>2 DEF Current
  <2>6. OneBackend'
    <3>1. \A h \in Generations : h # g => ~(proc[h] \in Alive \/ (proc[h] # "none" /\ ~sealed[h]))
      BY <2>5, SupervisorAssumption DEF PairInv, OneBackend
    <3>2. QED
      BY <2>1, <2>2, <2>3, <2>4, <2>5, <3>1 DEF PairInv, OneBackend
  <2>7. OneClient'
    BY <2>1, <2>2, <2>3, <2>4 DEF PairInv, OneClient
  <2>8. QED
    BY <2>6, <2>7
<1>3. QED
  BY <1>1, <1>2 DEF Starts

(* A process moves on, to its end or from starting to listening. *)
LEMMA PairProc ==
    ASSUME PairInv, NEW g \in Generations, NEW p, proc' = [proc EXCEPT ![g] = p],
           UNCHANGED <<running, sup, ipc, sealed>>,
           proc[g] \in Alive, p = "dead" \/ (proc[g] = "starting" /\ p = "listening")
    PROVE  OneBackend' /\ OneClient'
<1>1. proc'[g] = p /\ \A h \in Generations : h # g => proc'[h] = proc[h]
  BY DEF PairInv, SupTyped
<1>2. Current' = Current
  BY DEF Current
<1>3. OneBackend'
  BY <1>1, <1>2 DEF PairInv, OneBackend, Alive
<1>4. OneClient'
  BY <1>1 DEF PairInv, OneClient
<1>5. QED
  BY <1>3, <1>4

(* A client ends, or its writer does. *)
LEMMA PairEnds ==
    ASSUME PairInv, NEW c \in Generations, UNCHANGED <<running, sup, proc, sealed>>,
           \/ ipc' = [ipc EXCEPT ![c].at = "ended"] /\ ipc[c].at # "none"
           \/ ipc' = [ipc EXCEPT ![c].writing = FALSE]
    PROVE  OneBackend' /\ OneClient'
<1>1. \A h \in Generations : h # c => ipc'[h] = ipc[h]
  BY DEF PairInv, SupTyped
<1>2. /\ ipc'[c].to = ipc[c].to /\ (ipc'[c].writing => ipc[c].writing)
      /\ ipc'[c].at = ipc[c].at \/ (ipc'[c].at = "ended" /\ ipc[c].at # "none")
  <2>1. ipc[c] \in Client
    BY DEF PairInv, SupTyped
  <2>2. CASE ipc' = [ipc EXCEPT ![c].at = "ended"] /\ ipc[c].at # "none"
    <3>1. ipc'[c] = [ipc[c] EXCEPT !.at = "ended"]
      BY <2>2 DEF PairInv, SupTyped
    <3>2. QED
      BY <2>1, <2>2, <3>1 DEF Client
  <2>3. CASE ipc' = [ipc EXCEPT ![c].writing = FALSE]
    <3>1. ipc'[c] = [ipc[c] EXCEPT !.writing = FALSE]
      BY <2>3 DEF PairInv, SupTyped
    <3>2. QED
      BY <2>1, <3>1 DEF Client
  <2>4. QED
    BY <2>2, <2>3
<1>3. Current' = Current
  BY DEF Current
<1>4. OneBackend'
  BY <1>1, <1>2, <1>3 DEF PairInv, OneBackend
<1>5. OneClient'
  BY <1>1, <1>2 DEF PairInv, OneClient
<1>6. QED
  BY <1>4, <1>5

LEMMA PairSup == ASSUME PairInv, SupSteps PROVE OneBackend' /\ OneClient'
<1>1. CASE StartBe
  BY <1>1, PairStarts DEF StartBe
<1>2. ASSUME NEW next \in {"none", "build", "restart", "quit"}, Leaving(next) PROVE OneBackend' /\ OneClient'
  <2>1. Current' = Current
    <3>1. CASE running # 0
      BY <1>2, <3>1 DEF Leaving, Current
    <3>2. CASE running = 0
      BY <1>2, <3>2 DEF Leaving, Current, SupIdle
    <3>3. QED
      BY <3>1, <3>2
  <2>2. QED
    BY <1>2, <2>1, PairSame DEF Leaving
<1>3. CASE StopBe \/ Rebuild \/ RebuildAndRestart \/ Quit
  BY <1>2, <1>3 DEF StopBe, Rebuild, RebuildAndRestart, Quit
<1>4. CASE UNCHANGED <<running, sup, proc, ipc, sealed>>
  <2>1. Current' = Current /\ (running' # 0 => sup'.at = "idle")
    BY <1>4 DEF Current, PairInv, OneBackend
  <2>2. QED
    BY <1>4, <2>1, PairSame
<1>5. CASE FsEvent
  BY <1>2, <1>4, <1>5 DEF FsEvent
<1>6. CASE KillChild
  <2>1. /\ sup.of \in Generations /\ proc[sup.of] \in Alive /\ proc' = [proc EXCEPT ![sup.of] = "dead"]
        /\ UNCHANGED <<running, sup, ipc, sealed>>
    BY <1>6 DEF KillChild, PairInv, SupTyped
  <2>2. QED
    BY <2>1, PairProc
<1>7. CASE Reap
  <2>1. sup'.at # "stopping" /\ running = 0 /\ running' = 0
    BY <1>7 DEF Reap, SupIdle, PairInv, OneBackend
  <2>2. Current = sup.of /\ Current' = 0 /\ sup.of \in Generations /\ proc[sup.of] = "dead"
    BY <1>7, <2>1 DEF Reap, Current, PairInv, SupTyped
  <2>3. sealed'[sup.of] /\ \A h \in Generations : h # sup.of => sealed'[h] = sealed[h]
    BY <1>7, <2>2 DEF Reap, PairInv, SupTyped
  <2>4. UNCHANGED <<proc, ipc>>
    BY <1>7 DEF Reap
  <2>5. OneBackend'
    BY <2>1, <2>2, <2>3, <2>4 DEF PairInv, OneBackend, Alive
  <2>6. OneClient'
    BY <2>4 DEF PairInv, OneClient
  <2>7. QED
    BY <2>5, <2>6
<1>8. ASSUME NEW ok \in BOOLEAN, BuildEnds(ok) PROVE OneBackend' /\ OneClient'
  <2>1. running = 0 /\ sup.at # "stopping"
    BY <1>8 DEF BuildEnds, PairInv, OneBackend
  <2>2. sup'.at = "idle" /\ sealed' = sealed /\ (Starts \/ UNCHANGED <<running, proc, ipc>>)
    BY <1>8 DEF BuildEnds, SupIdle
  <2>3. QED
    BY <2>1, <2>2, PairStarts
<1>9. CASE SendRequest \/ SetAutoWatch \/ SourceChanges
  BY <1>4, <1>9 DEF SendRequest, SetAutoWatch, SourceChanges
<1>10. QED
  BY <1>1, <1>3, <1>5, <1>6, <1>7, <1>8, <1>9 DEF SupSteps

LEMMA PairClient == ASSUME PairInv, NEW c \in Generations, ClientSteps(c) PROVE OneBackend' /\ OneClient'
<1>1. ASSUME NEW b \in Generations, Connects(c, b) PROVE OneBackend' /\ OneClient'
  <2>1. /\ ipc'[c] = [at |-> "open", to |-> b, writing |-> TRUE]
        /\ \A h \in Generations : h # c => ipc'[h] = ipc[h]
        /\ proc[b] = "listening" /\ proc'[b] = "serving" /\ \A h \in Generations : h # b => proc'[h] = proc[h]
        /\ UNCHANGED <<running, sup, sealed>> /\ ipc[c].at = "connecting"
    BY <1>1 DEF Connects, PairInv, SupTyped
  <2>2. ipc'[c].at = "open" /\ ipc'[c].to = b /\ ipc'[c].writing
    BY <2>1
  <2>3. Current' = Current /\ b = Current
    BY <2>1 DEF Current, PairInv, OneBackend, Alive
  <2>4. ~sealed[c] => b = c
    BY <2>1, <2>3 DEF PairInv, OneBackend
  <2>5. proc'[c] # "none"
    BY <2>1 DEF PairInv, OneBackend
  <2>6. OneBackend'
    BY <2>1, <2>2, <2>3, <2>4, <2>5 DEF PairInv, OneBackend, Alive
  <2>7. b # 0
    BY SupervisorAssumption
  <2>8. \A h \in Generations : ipc[h].to # b
    BY <2>1 DEF PairInv, OneClient
  <2>9. OneClient'
    BY <2>1, <2>2, <2>7, <2>8 DEF PairInv, OneClient
  <2>10. QED
    BY <2>6, <2>9
<1>2. CASE ConnectTimesOut(c) \/ Disconnects(c) \/ WriterEnds(c)
  BY <1>2, PairEnds DEF ConnectTimesOut, Disconnects, WriterEnds
<1>3. CASE UNCHANGED <<running, sup, proc, ipc, sealed>>
  <2>1. Current' = Current /\ (running' # 0 => sup'.at = "idle")
    BY <1>3 DEF Current, PairInv, OneBackend
  <2>2. QED
    BY <1>3, <2>1, PairSame
<1>4. CASE WritesFrame(c)
  <2>1. ipc' = ipc \/ ipc' = [ipc EXCEPT ![c].writing = FALSE]
    BY <1>4 DEF WritesFrame
  <2>2. QED
    BY <1>3, <1>4, <2>1, PairEnds DEF WritesFrame
<1>5. CASE Listens(c) \/ InputEnds(c) \/ Dies(c)
  BY <1>5, PairProc DEF Listens, InputEnds, Dies, Alive
<1>6. CASE Handles(c)
  <2>1. proc' = proc \/ proc' = [proc EXCEPT ![c] = "dead"]
    BY <1>6 DEF Handles
  <2>2. QED
    BY <1>3, <1>6, <2>1, PairProc DEF Handles, Alive
<1>7. QED
  BY <1>1, <1>2, <1>4, <1>5, <1>6 DEF ClientSteps

-----------------------------------------------------------------------------
(* What is in the queues.  Request 0 is Shutdown; the others are numbered  *)
(* in the order they were sent.                                            *)

Increasing(q) == \A i, k \in DOMAIN q : i < k /\ q[i] # 0 /\ q[k] # 0 => q[i] < q[k]
AllBelow(q, r) == \A i \in DOMAIN q, k \in DOMAIN r : q[i] # 0 /\ r[k] # 0 => q[i] < r[k]
From(q, c, by) == \A i \in DOMAIN q : q[i] # 0 => q[i] \in DOMAIN by /\ by[q[i]] = c

(* Behind a backend's handled requests come those it has received, and     *)
(* behind these those its one client still holds; all were sent for that   *)
(* client.                                                                 *)
Line(b, c) ==
    /\ From(intake[b], c, sentBy) /\ From(handledBy[b], c, sentBy)
    /\ Increasing(intake[b]) /\ Increasing(handledBy[b])
    /\ AllBelow(handledBy[b], intake[b]) /\ AllBelow(handledBy[b], outbox[c])
    /\ AllBelow(intake[b], outbox[c])

InLine ==
    /\ \A c \in Generations : From(outbox[c], c, sentBy) /\ Increasing(outbox[c])
    /\ \A b, c \in Generations : ipc[c].to = b => Line(b, c)
    /\ \A b \in Generations :
          /\ (\A c \in Generations : ipc[c].to # b) => intake[b] = <<>> /\ handledBy[b] = <<>>
          /\ \A i \in DOMAIN handledBy[b] : handledBy[b][i] # 0

(* Tail(q)[i] is q[i + 1]. *)
LEMMA TailAt ==
    ASSUME NEW q \in Seq(Nat), q # <<>>, NEW i \in DOMAIN Tail(q)
    PROVE  i \in Nat /\ i + 1 \in DOMAIN q /\ i + 1 > 1 /\ Tail(q)[i] = q[i + 1]
  OBVIOUS

LEMMA AppendAt ==
    ASSUME NEW q \in Seq(Nat), NEW x \in Nat, NEW i \in DOMAIN Append(q, x)
    PROVE  \/ i \in DOMAIN q /\ Append(q, x)[i] = q[i]
           \/ i = Len(q) + 1 /\ Append(q, x)[i] = x
  OBVIOUS

LEMMA IncreasingTail == ASSUME NEW q \in Seq(Nat), q # <<>>, Increasing(q) PROVE Increasing(Tail(q))
  BY DEF Increasing

LEMMA IncreasingAppend ==
    ASSUME NEW q \in Seq(Nat), NEW x \in Nat, Increasing(q),
           \A i \in DOMAIN q : q[i] # 0 /\ x # 0 => q[i] < x
    PROVE  Increasing(Append(q, x))
  BY DEF Increasing

LEMMA BelowTail ==
    ASSUME NEW q \in Seq(Nat), NEW r, AllBelow(q, r), q # <<>>
    PROVE  AllBelow(Tail(q), r)
<1> SUFFICES ASSUME NEW i \in DOMAIN Tail(q), NEW k \in DOMAIN r, Tail(q)[i] # 0, r[k] # 0
             PROVE  Tail(q)[i] < r[k]
  BY DEF AllBelow
<1>1. i + 1 \in DOMAIN q /\ Tail(q)[i] = q[i + 1]
  BY TailAt
<1>2. QED
  BY <1>1 DEF AllBelow

LEMMA TailAbove ==
    ASSUME NEW q, NEW r \in Seq(Nat), AllBelow(q, r), r # <<>>
    PROVE  AllBelow(q, Tail(r))
<1> SUFFICES ASSUME NEW i \in DOMAIN q, NEW k \in DOMAIN Tail(r), q[i] # 0, Tail(r)[k] # 0
             PROVE  q[i] < Tail(r)[k]
  BY DEF AllBelow
<1>1. k + 1 \in DOMAIN r /\ Tail(r)[k] = r[k + 1]
  BY TailAt
<1>2. QED
  BY <1>1 DEF AllBelow

LEMMA AppendBelow ==
    ASSUME NEW q \in Seq(Nat), NEW r, NEW x \in Nat, AllBelow(q, r),
           \A k \in DOMAIN r : x # 0 /\ r[k] # 0 => x < r[k]
    PROVE  AllBelow(Append(q, x), r)
<1> SUFFICES ASSUME NEW i \in DOMAIN Append(q, x), NEW k \in DOMAIN r, Append(q, x)[i] # 0, r[k] # 0
             PROVE  Append(q, x)[i] < r[k]
  BY DEF AllBelow
<1>1. (i \in DOMAIN q /\ Append(q, x)[i] = q[i]) \/ Append(q, x)[i] = x
  BY AppendAt
<1>2. QED
  BY <1>1 DEF AllBelow

LEMMA BelowAppend ==
    ASSUME NEW q, NEW r \in Seq(Nat), NEW x \in Nat, AllBelow(q, r),
           \A i \in DOMAIN q : q[i] # 0 /\ x # 0 => q[i] < x
    PROVE  AllBelow(q, Append(r, x))
<1> SUFFICES ASSUME NEW i \in DOMAIN q, NEW k \in DOMAIN Append(r, x), q[i] # 0, Append(r, x)[k] # 0
             PROVE  q[i] < Append(r, x)[k]
  BY DEF AllBelow
<1>1. (k \in DOMAIN r /\ Append(r, x)[k] = r[k]) \/ Append(r, x)[k] = x
  BY AppendAt
<1>2. QED
  BY <1>1 DEF AllBelow

(* The head of an increasing queue comes before the rest. *)
LEMMA HeadFirst ==
    ASSUME NEW q \in Seq(Nat), q # <<>>, Increasing(q)
    PROVE  /\ 1 \in DOMAIN q /\ Head(q) = q[1]
           /\ \A k \in DOMAIN Tail(q) : Head(q) # 0 /\ Tail(q)[k] # 0 => Head(q) < Tail(q)[k]
<1>1. 1 \in DOMAIN q /\ Head(q) = q[1]
  OBVIOUS
<1>2. ASSUME NEW k \in DOMAIN Tail(q), Head(q) # 0, Tail(q)[k] # 0 PROVE Head(q) < Tail(q)[k]
  <2>1. k + 1 \in DOMAIN q /\ k + 1 > 1 /\ Tail(q)[k] = q[k + 1]
    BY TailAt
  <2>2. QED
    BY <1>1, <1>2, <2>1 DEF Increasing
<1>3. QED
  BY <1>1, <1>2

LEMMA FromTail ==
    ASSUME NEW q \in Seq(Nat), NEW c, NEW by, q # <<>>, From(q, c, by)
    PROVE  From(Tail(q), c, by) /\ (Head(q) # 0 => Head(q) \in DOMAIN by /\ by[Head(q)] = c)
<1>1. ASSUME NEW i \in DOMAIN Tail(q), Tail(q)[i] # 0
      PROVE  Tail(q)[i] \in DOMAIN by /\ by[Tail(q)[i]] = c
  <2>1. i + 1 \in DOMAIN q /\ Tail(q)[i] = q[i + 1]
    BY TailAt
  <2>2. QED
    BY <1>1, <2>1 DEF From
<1>2. 1 \in DOMAIN q /\ Head(q) = q[1]
  OBVIOUS
<1>3. QED
  BY <1>1, <1>2 DEF From

LEMMA FromAppend ==
    ASSUME NEW q \in Seq(Nat), NEW c, NEW x \in Nat, NEW by, From(q, c, by),
           x # 0 => x \in DOMAIN by /\ by[x] = c
    PROVE  From(Append(q, x), c, by)
<1>1. ASSUME NEW i \in DOMAIN Append(q, x), Append(q, x)[i] # 0
      PROVE  Append(q, x)[i] \in DOMAIN by /\ by[Append(q, x)[i]] = c
  <2>1. (i \in DOMAIN q /\ Append(q, x)[i] = q[i]) \/ Append(q, x)[i] = x
    BY AppendAt
  <2>2. QED
    BY <1>1, <2>1 DEF From
<1>2. QED
  BY <1>1 DEF From

(* One more request sent takes none of the earlier ones away. *)
LEMMA FromGrows ==
    ASSUME NEW q, NEW c, NEW by \in Seq(Generations), NEW g \in Generations, From(q, c, by)
    PROVE  From(q, c, Append(by, g))
<1>1. ASSUME NEW x \in DOMAIN by PROVE x \in DOMAIN Append(by, g) /\ Append(by, g)[x] = by[x]
  OBVIOUS
<1>2. QED
  BY <1>1 DEF From

LEMMA Queues ==
    ASSUME PairInv, NEW g \in Generations
    PROVE  /\ outbox[g] \in Seq(Nat) /\ intake[g] \in Seq(Nat) /\ handledBy[g] \in Seq(Nat)
           /\ ipc[g].to \in Generations \cup {0}
  BY DEF PairInv, SupTyped, Client

LEMMA LineSame ==
    ASSUME InLine, UNCHANGED <<outbox, intake, handledBy, sentBy>>,
           \A c \in Generations : ipc'[c].to = ipc[c].to
    PROVE  InLine'
  BY DEF InLine, Line

(* A request, or Shutdown, enters the channel of client g. *)
LEMMA LineSends ==
    ASSUME PairInv, InLine, NEW g \in Generations, NEW x \in Nat,
           outbox' = [outbox EXCEPT ![g] = Append(@, x)], UNCHANGED <<intake, handledBy, ipc>>,
           \/ x = 0 /\ sentBy' = sentBy
           \/ x = Len(sentBy) + 1 /\ sentBy' = Append(sentBy, g)
    PROVE  InLine'
<1>1. outbox'[g] = Append(outbox[g], x) /\ \A c \in Generations : c # g => outbox'[c] = outbox[c]
  BY DEF PairInv, SupTyped
<1>2. sentBy \in Seq(Generations) /\ (x # 0 => x \in DOMAIN sentBy' /\ sentBy'[x] = g)
  BY DEF PairInv, SupTyped
<1>3. ASSUME NEW q, NEW c, From(q, c, sentBy)
      PROVE  From(q, c, sentBy') /\ \A i \in DOMAIN q : q[i] # 0 /\ x # 0 => q[i] < x
  <2>1. From(q, c, sentBy')
    BY <1>2, <1>3, FromGrows
  <2>2. ASSUME NEW i \in DOMAIN q, q[i] # 0, x # 0 PROVE q[i] < x
    <3>1. q[i] \in DOMAIN sentBy
      BY <1>3, <2>2 DEF From
    <3>2. QED
      BY <1>2, <2>2, <3>1
  <2>3. QED
    BY <2>1, <2>2
<1>4. From(outbox'[g], g, sentBy') /\ Increasing(outbox'[g])
  <2>1. From(outbox[g], g, sentBy) /\ Increasing(outbox[g]) /\ outbox[g] \in Seq(Nat)
    BY Queues DEF InLine
  <2>2. From(outbox[g], g, sentBy') /\ \A i \in DOMAIN outbox[g] : outbox[g][i] # 0 /\ x # 0 => outbox[g][i] < x
    BY <1>3, <2>1
  <2>3. From(Append(outbox[g], x), g, sentBy')
    BY <1>2, <2>1, <2>2, FromAppend
  <2>4. Increasing(Append(outbox[g], x))
    BY <2>1, <2>2, IncreasingAppend
  <2>5. QED
    BY <1>1, <2>3, <2>4
<1>5. ASSUME NEW c \in Generations PROVE From(outbox'[c], c, sentBy') /\ Increasing(outbox'[c])
  <2>1. CASE c = g
    BY <1>4, <2>1
  <2>2. CASE c # g
    BY <1>1, <1>3, <2>2 DEF InLine
  <2>3. QED
    BY <2>1, <2>2
<1>6. ASSUME NEW b \in Generations, NEW c \in Generations, ipc[c].to = b PROVE Line(b, c)'
  <2>1. Line(b, c) /\ outbox[c] \in Seq(Nat)
    BY <1>6, Queues DEF InLine
  <2>2. /\ From(intake[b], c, sentBy') /\ From(handledBy[b], c, sentBy')
        /\ \A i \in DOMAIN intake[b] : intake[b][i] # 0 /\ x # 0 => intake[b][i] < x
        /\ \A i \in DOMAIN handledBy[b] : handledBy[b][i] # 0 /\ x # 0 => handledBy[b][i] < x
    BY <1>3, <2>1 DEF Line
  <2>3. AllBelow(intake[b], outbox'[c]) /\ AllBelow(handledBy[b], outbox'[c])
    <3>1. CASE c = g
      BY <1>1, <2>1, <2>2, <3>1, BelowAppend DEF Line
    <3>2. CASE c # g
      BY <1>1, <2>1, <3>2 DEF Line
    <3>3. QED
      BY <3>1, <3>2
  <2>4. QED
    BY <2>1, <2>2, <2>3 DEF Line
<1>7. QED
  BY <1>5, <1>6 DEF InLine

(* write_loop: the head of the channel joins the end of the intake, or is  *)
(* lost with the backend.                                                  *)
LEMMA LineWrites == ASSUME PairInv, InLine, NEW c \in Generations, WritesFrame(c) PROVE InLine'
<1> DEFINE h == Head(outbox[c])
<1>0. PICK b \in Generations : b = ipc[c].to
  BY Queues DEF WritesFrame, PairInv, OneClient
<1>1. ipc[c].to = b /\ \A d \in Generations : d # c => ipc[d].to # b
  BY <1>0, SupervisorAssumption DEF PairInv, OneClient
<1>2. /\ outbox[c] \in Seq(Nat) /\ outbox[c] # <<>> /\ intake[b] \in Seq(Nat) /\ handledBy[b] \in Seq(Nat)
      /\ From(outbox[c], c, sentBy) /\ Increasing(outbox[c]) /\ Line(b, c)
  BY <1>1, Queues DEF WritesFrame, InLine
<1>3. h \in Nat /\ Tail(outbox[c]) \in Seq(Nat) /\ 1 \in DOMAIN outbox[c] /\ h = outbox[c][1]
  BY <1>2
<1>4. outbox'[c] = Tail(outbox[c]) /\ \A d \in Generations : d # c => outbox'[d] = outbox[d]
  BY DEF WritesFrame, PairInv, SupTyped
<1>5. \A d \in Generations : ipc'[d].to = ipc[d].to
  <2>1. ipc' = ipc \/ ipc' = [ipc EXCEPT ![c].writing = FALSE]
    BY DEF WritesFrame
  <2>2. ASSUME NEW d \in Generations PROVE [ipc EXCEPT ![c].writing = FALSE][d].to = ipc[d].to
    <3>1. ipc[d] \in Client /\ DOMAIN ipc = Generations
      BY DEF PairInv, SupTyped
    <3>2. [ipc EXCEPT ![c].writing = FALSE][d] = IF d = c THEN [ipc[d] EXCEPT !.writing = FALSE] ELSE ipc[d]
      BY <3>1
    <3>3. [ipc[d] EXCEPT !.writing = FALSE].to = ipc[d].to
      BY <3>1 DEF Client
    <3>4. QED
      BY <3>2, <3>3
  <2>3. QED
    BY <2>1, <2>2
<1>6. handledBy' = handledBy /\ sentBy' = sentBy
      /\ (intake'[b] = intake[b] \/ intake'[b] = Append(intake[b], h))
      /\ \A d \in Generations : d # b => intake'[d] = intake[d]
  BY <1>1 DEF WritesFrame, PairInv, SupTyped
<1>7. From(outbox'[c], c, sentBy) /\ Increasing(outbox'[c])
  BY <1>2, <1>4, FromTail, IncreasingTail
<1>8. Line(b, c)'
  <2>1. /\ \A k \in DOMAIN outbox'[c] : h # 0 /\ outbox'[c][k] # 0 => h < outbox'[c][k]
        /\ h # 0 => h \in DOMAIN sentBy /\ sentBy[h] = c
    BY <1>2, <1>4, HeadFirst, FromTail
  <2>2. AllBelow(handledBy[b], outbox'[c]) /\ AllBelow(intake[b], outbox'[c])
    BY <1>2, <1>4, TailAbove DEF Line
  <2>3. /\ \A i \in DOMAIN intake[b] : intake[b][i] # 0 /\ h # 0 => intake[b][i] < h
        /\ \A i \in DOMAIN handledBy[b] : handledBy[b][i] # 0 /\ h # 0 => handledBy[b][i] < h
    BY <1>2, <1>3 DEF Line, AllBelow
  <2>4. CASE intake'[b] = intake[b]
    BY <1>2, <1>6, <2>2, <2>4 DEF Line
  <2>5. CASE intake'[b] = Append(intake[b], h)
    <3>1. From(intake'[b], c, sentBy)
      BY <1>2, <1>3, <2>1, <2>5, FromAppend DEF Line
    <3>2. Increasing(intake'[b])
      BY <1>2, <1>3, <2>3, <2>5, IncreasingAppend DEF Line
    <3>3. AllBelow(handledBy[b], intake'[b])
      BY <1>2, <1>3, <2>3, <2>5, BelowAppend DEF Line
    <3>4. AllBelow(intake'[b], outbox'[c])
      BY <1>2, <1>3, <2>1, <2>2, <2>5, AppendBelow
    <3>5. QED
      BY <1>2, <1>6, <2>2, <3>1, <3>2, <3>3, <3>4 DEF Line
  <2>6. QED
    BY <1>6, <2>4, <2>5
<1>9. ASSUME NEW e \in Generations, NEW d \in Generations, ipc[d].to = e PROVE Line(e, d)'
  <2>1. CASE d = c
    BY <1>1, <1>8, <1>9, <2>1
  <2>2. CASE d # c
    BY <1>1, <1>4, <1>6, <1>9, <2>2 DEF InLine, Line
  <2>3. QED
    BY <2>1, <2>2
<1>10. ASSUME NEW d \in Generations PROVE From(outbox'[d], d, sentBy) /\ Increasing(outbox'[d])
  BY <1>4, <1>7 DEF InLine
<1>11. ASSUME NEW e \in Generations
       PROVE  /\ (\A d \in Generations : ipc'[d].to # e) => intake'[e] = <<>> /\ handledBy'[e] = <<>>
              /\ \A i \in DOMAIN handledBy'[e] : handledBy'[e][i] # 0
  BY <1>1, <1>5, <1>6 DEF InLine
<1>12. QED
  BY <1>5, <1>6, <1>9, <1>10, <1>11 DEF InLine

(* The backend takes the first frame of its intake. *)
LEMMA LineHandles == ASSUME PairInv, InLine, NEW b \in Generations, Handles(b) PROVE InLine'
<1> DEFINE h == Head(intake[b])
<1>1. /\ intake[b] \in Seq(Nat) /\ intake[b] # <<>> /\ handledBy[b] \in Seq(Nat)
      /\ h \in Nat /\ 1 \in DOMAIN intake[b] /\ h = intake[b][1]
  BY Queues DEF Handles
<1>2. /\ intake'[b] = Tail(intake[b]) /\ \A d \in Generations : d # b => intake'[d] = intake[d]
      /\ UNCHANGED <<outbox, sentBy, ipc>>
  BY DEF Handles, PairInv, SupTyped
<1>3. /\ handledBy'[b] = handledBy[b] \/ (h # 0 /\ handledBy'[b] = Append(handledBy[b], h))
      /\ \A d \in Generations : d # b => handledBy'[d] = handledBy[d]
  BY DEF Handles, PairInv, SupTyped, Shutdown
<1>4. ASSUME NEW c \in Generations, ipc[c].to = b PROVE Line(b, c)'
  <2>1. Line(b, c)
    BY <1>4 DEF InLine
  <2>2. /\ From(intake'[b], c, sentBy) /\ Increasing(intake'[b])
        /\ h # 0 => h \in DOMAIN sentBy /\ sentBy[h] = c
        /\ \A k \in DOMAIN intake'[b] : h # 0 /\ intake'[b][k] # 0 => h < intake'[b][k]
    BY <1>1, <1>2, <2>1, FromTail, IncreasingTail, HeadFirst DEF Line
  <2>3. AllBelow(intake'[b], outbox[c]) /\ AllBelow(handledBy[b], intake'[b])
    BY <1>1, <1>2, <2>1, BelowTail, TailAbove DEF Line
  <2>4. /\ \A k \in DOMAIN outbox[c] : h # 0 /\ outbox[c][k] # 0 => h < outbox[c][k]
        /\ \A i \in DOMAIN handledBy[b] : handledBy[b][i] # 0 /\ h # 0 => handledBy[b][i] < h
    BY <1>1, <2>1 DEF Line, AllBelow
  <2>5. CASE handledBy'[b] = handledBy[b]
    BY <1>2, <2>1, <2>2, <2>3, <2>5 DEF Line
  <2>6. CASE handledBy'[b] = Append(handledBy[b], h)
    <3>1. From(handledBy'[b], c, sentBy)
      BY <1>1, <2>1, <2>2, <2>6, FromAppend DEF Line
    <3>2. Increasing(handledBy'[b])
      BY <1>1, <2>1, <2>4, <2>6, IncreasingAppend DEF Line
    <3>3. AllBelow(handledBy'[b], intake'[b])
      BY <1>1, <2>2, <2>3, <2>6, AppendBelow
    <3>4. AllBelow(handledBy'[b], outbox[c])
      BY <1>1, <2>1, <2>4, <2>6, AppendBelow DEF Line
    <3>5. QED
      BY <1>2, <2>2, <2>3, <3>1, <3>2, <3>3, <3>4 DEF Line
  <2>7. QED
    BY <1>3, <2>5, <2>6
<1>5. ASSUME NEW e \in Generations, NEW c \in Generations, ipc[c].to = e PROVE Line(e, c)'
  <2>1. CASE e = b
    BY <1>4, <1>5, <2>1
  <2>2. CASE e # b
    BY <1>2, <1>3, <1>5, <2>2 DEF InLine, Line
  <2>3. QED
    BY <2>1, <2>2
<1>6. ASSUME NEW e \in Generations
      PROVE  /\ (\A d \in Generations : ipc[d].to # e) => intake'[e] = <<>> /\ handledBy'[e] = <<>>
             /\ \A i \in DOMAIN handledBy'[e] : handledBy'[e][i] # 0
  <2>1. CASE e # b
    BY <1>2, <1>3, <2>1 DEF InLine
  <2>2. CASE e = b
    <3>1. ~\A d \in Generations : ipc[d].to # b
      BY <1>1 DEF InLine
    <3>2. \A i \in DOMAIN handledBy[b] : handledBy[b][i] # 0
      BY DEF InLine
    <3>3. ASSUME h # 0, handledBy'[b] = Append(handledBy[b], h), NEW i \in DOMAIN handledBy'[b]
          PROVE  handledBy'[b][i] # 0
      BY <1>1, <3>2, <3>3, AppendAt
    <3>4. QED
      BY <1>3, <2>2, <3>1, <3>2, <3>3
  <2>3. QED
    BY <2>1, <2>2
<1>7. QED
  BY <1>2, <1>5, <1>6 DEF InLine

(* A backend that is listening has heard nothing yet. *)
LEMMA LineConnects ==
    ASSUME PairInv, InLine, NEW c \in Generations, NEW b \in Generations, Connects(c, b) PROVE InLine'
<1>1. /\ ipc'[c] = [at |-> "open", to |-> b, writing |-> TRUE]
      /\ \A d \in Generations : d # c => ipc'[d] = ipc[d]
      /\ UNCHANGED <<outbox, intake, handledBy, sentBy>>
  BY DEF Connects, PairInv, SupTyped
<1>2. ipc[c].to = 0 /\ ipc'[c].to = b /\ \A d \in Generations : ipc[d].to # b
  BY <1>1 DEF Connects, PairInv, OneClient
<1>3. intake[b] = <<>> /\ handledBy[b] = <<>>
  BY <1>2 DEF InLine
<1>4. Line(b, c)'
  BY <1>1, <1>3 DEF Line, From, Increasing, AllBelow
<1>5. ASSUME NEW e \in Generations, NEW d \in Generations, ipc'[d].to = e PROVE Line(e, d)'
  <2>1. CASE d = c
    BY <1>2, <1>4, <1>5, <2>1
  <2>2. CASE d # c
    BY <1>1, <1>5, <2>2 DEF InLine, Line
  <2>3. QED
    BY <2>1, <2>2
<1>6. ASSUME NEW e \in Generations, \A d \in Generations : ipc'[d].to # e
      PROVE  intake[e] = <<>> /\ handledBy[e] = <<>>
  <2>1. \A d \in Generations : ipc[d].to # e
    BY <1>1, <1>2, <1>6, SupervisorAssumption
  <2>2. QED
    BY <2>1 DEF InLine
<1>7. QED
  BY <1>1, <1>5, <1>6 DEF InLine

LEMMA LineStep == ASSUME PairInv, InLine, SupervisorNext PROVE InLine'
<1>1. ASSUME UNCHANGED <<outbox, intake, handledBy, sentBy>>,
             \/ UNCHANGED ipc
             \/ \E c \in Generations : \/ \E a : ipc' = [ipc EXCEPT ![c].at = a]
                                       \/ ipc' = [ipc EXCEPT ![c].writing = FALSE]
      PROVE  InLine'
  <2>1. ipc \in [Generations -> Client]
    BY DEF PairInv, SupTyped
  <2>2. \A d \in Generations : ipc'[d].to = ipc[d].to
    <3>1. ASSUME NEW c \in Generations, NEW d \in Generations, NEW a, ipc' = [ipc EXCEPT ![c].at = a]
          PROVE  ipc'[d].to = ipc[d].to
      <4>1. ipc'[d] = IF d = c THEN [ipc[d] EXCEPT !.at = a] ELSE ipc[d]
        BY <2>1, <3>1
      <4>2. [ipc[d] EXCEPT !.at = a].to = ipc[d].to
        BY <2>1 DEF Client
      <4>3. QED
        BY <4>1, <4>2
    <3>2. ASSUME NEW c \in Generations, NEW d \in Generations, ipc' = [ipc EXCEPT ![c].writing = FALSE]
          PROVE  ipc'[d].to = ipc[d].to
      <4>1. ipc'[d] = IF d = c THEN [ipc[d] EXCEPT !.writing = FALSE] ELSE ipc[d]
        BY <2>1, <3>2
      <4>2. [ipc[d] EXCEPT !.writing = FALSE].to = ipc[d].to
        BY <2>1 DEF Client
      <4>3. QED
        BY <4>1, <4>2
    <3>3. QED
      BY <1>1, <3>1, <3>2
  <2>3. QED
    BY <1>1, <2>2, LineSame
<1>2. CASE StartBe \/ \E ok \in BOOLEAN : BuildEnds(ok)
  BY <1>1, <1>2 DEF StartBe, BuildEnds, Starts
<1>3. ASSUME NEW next \in {"none", "build", "restart", "quit"}, Leaving(next) PROVE InLine'
  <2>1. CASE running # 0
    <3>1. /\ running \in Generations /\ outbox' = [outbox EXCEPT ![running] = Append(@, 0)]
          /\ UNCHANGED <<intake, handledBy, ipc, sentBy>>
      BY <1>3, <2>1 DEF Leaving, Shutdown, PairInv, SupTyped
    <3>2. QED
      BY <3>1, LineSends
  <2>2. CASE running = 0
    BY <1>1, <1>3, <2>2 DEF Leaving
  <2>3. QED
    BY <2>1, <2>2
<1>4. CASE StopBe \/ Rebuild \/ RebuildAndRestart \/ Quit
  BY <1>3, <1>4 DEF StopBe, Rebuild, RebuildAndRestart, Quit
<1>5. CASE FsEvent
  BY <1>1, <1>3, <1>5 DEF FsEvent
<1>6. CASE KillChild \/ Reap \/ SetAutoWatch \/ SourceChanges
  BY <1>1, <1>6 DEF KillChild, Reap, SetAutoWatch, SourceChanges
<1>7. CASE SendRequest
  <2>1. /\ running \in Generations /\ Len(sentBy) + 1 \in Nat
        /\ outbox' = [outbox EXCEPT ![running] = Append(@, Len(sentBy) + 1)]
        /\ UNCHANGED <<intake, handledBy, ipc>> /\ sentBy' = Append(sentBy, running)
    BY <1>7 DEF SendRequest, PairInv, SupTyped
  <2>2. QED
    BY <2>1, LineSends
<1>8. ASSUME NEW c \in Generations, ClientSteps(c) PROVE InLine'
  <2>1. CASE ConnectTimesOut(c) \/ Disconnects(c) \/ WriterEnds(c)
    BY <1>1, <2>1 DEF ConnectTimesOut, Disconnects, WriterEnds
  <2>2. CASE Listens(c) \/ InputEnds(c) \/ Dies(c)
    BY <1>1, <2>2 DEF Listens, InputEnds, Dies
  <2>3. QED
    BY <1>8, <2>1, <2>2, LineConnects, LineWrites, LineHandles DEF ClientSteps
<1>9. QED
  BY <1>2, <1>4, <1>5, <1>6, <1>7, <1>8 DEF SupervisorNext, ClientSteps

SupervisorInv == PairInv /\ InLine

LEMMA SupervisorStep == SupervisorInv /\ [SupervisorNext]_supVars => SupervisorInv'
<1> SUFFICES ASSUME SupervisorInv, [SupervisorNext]_supVars PROVE SupervisorInv'
  OBVIOUS
<1>1. CASE UNCHANGED supVars
  BY <1>1 DEF supVars, SupervisorInv, PairInv, SupTyped, OneBackend, OneClient, InLine, Line, Current
<1>2. CASE SupervisorNext
  <2>1. SupSteps \/ \E c \in Generations : ClientSteps(c)
    BY <1>2 DEF SupervisorNext, SupSteps, ClientSteps
  <2>2. SupTyped' /\ OneBackend' /\ OneClient'
    BY <2>1, TypedSup, TypedClient, PairSup, PairClient DEF SupervisorInv, PairInv
  <2>3. InLine'
    BY <1>2, LineStep DEF SupervisorInv
  <2>4. QED
    BY <2>2, <2>3 DEF SupervisorInv, PairInv
<1>3. QED
  BY <1>1, <1>2

LEMMA SupervisorStarts == SupervisorInit => SupervisorInv
<1> SUFFICES ASSUME SupervisorInit PROVE SupervisorInv
  OBVIOUS
<1>1. InLine
  BY DEF SupervisorInit, InLine, Line, From, Increasing, AllBelow
<1>2. QED
  BY <1>1, SupInitially DEF SupervisorInv, PairInv

LEMMA SupervisorImplies == SupervisorInv => OwnBackend
<1> SUFFICES ASSUME SupervisorInv PROVE OwnBackend
  OBVIOUS
<1>1. \A c \in Generations : ~sealed[c] => ipc[c].to \in {0, c}
  BY DEF SupervisorInv, PairInv, OneBackend
<1>2. ASSUME NEW b \in Generations, NEW i \in DOMAIN handledBy[b], NEW k \in DOMAIN handledBy[b], i < k
      PROVE  /\ handledBy[b][i] < handledBy[b][k]
             /\ sentBy[handledBy[b][i]] = sentBy[handledBy[b][k]]
  <2>1. handledBy[b] # <<>>
    BY <1>2
  <2>2. PICK c \in Generations : ipc[c].to = b
    BY <2>1 DEF SupervisorInv, InLine
  <2>3. Line(b, c) /\ \A j \in DOMAIN handledBy[b] : handledBy[b][j] # 0
    BY <2>2 DEF SupervisorInv, InLine
  <2>4. QED
    BY <1>2, <2>3 DEF Line, From, Increasing
<1>3. QED
  BY <1>1, <1>2 DEF OwnBackend

(* stop_be waits for the exit before anything else is started on the       *)
(* shared pipe name, and a backend accepts one client: so an unkilled      *)
(* client talks to its own backend or to none, and what a backend handles  *)
(* are requests queued for one generation, in the order they were sent.    *)
THEOREM BackendIsOwn == SupervisorSpec => []OwnBackend
  BY SupervisorStarts, SupervisorStep, SupervisorImplies, PTL DEF SupervisorSpec

-----------------------------------------------------------------------------
(* The caps of a program: every cap and every script. *)

(* CapsHold is not inductive: what the stopped script may do depends on    *)
(* the token, which the waiter's state implies, and on nobody having been  *)
(* called while the pipeline still waited; what the model reads depends on *)
(* the thread being over by then, and on the buffer holding all that was   *)
(* said until the cap is passed.                                           *)
CapsInv ==
    /\ hostCalls \in Nat /\ afterwards \in {0, 1}
    /\ waiter \in {"waits", "answered", "timedOut", "dropped"}
    /\ hostCalls <= HostCap
    /\ waiter = "answered" => thread = "over"
    /\ waiter = "waits" => afterwards = 0
    /\ waiter = "dropped" => token /\ afterwards = 0
OutputInv ==
    /\ printedBytes \in Nat /\ resultBytes \in Nat /\ said \in Nat
    /\ printedBytes < 2 * OutputMax + LineMax
    /\ said <= OutputMax => printedBytes = said
ReadInv ==
    waiter = "answered" =>
      /\ answer <= OutputMax + Notice
      /\ said + resultBytes <= OutputMax => answer = said + resultBytes

(* window keeps at most the cap and the notice, and all of a short output. *)
LEMMA WindowFits ==
    ASSUME NEW n \in Nat
    PROVE  Windowed(n) <= OutputMax + Notice /\ (n <= OutputMax => Windowed(n) = n)
<1> USE ProgramAssumption
<1>1. (3 * OutputMax) \div 4 + OutputMax \div 4 <= OutputMax
  OBVIOUS
<1>2. (3 * OutputMax) \div 4 \in Int /\ OutputMax \div 4 \in Int
  OBVIOUS
<1>3. QED
  BY <1>1, <1>2 DEF Windowed

LEMMA CapsInitially == ProgramInit => CapsInv /\ OutputInv /\ ReadInv
  BY ProgramAssumption DEF ProgramInit, CapsInv, OutputInv, ReadInv

(* The script's thread: it reaches no operation once the token has fired.  *)
LEMMA CapsThread == CapsInv /\ ThreadSteps => CapsInv'
<1> SUFFICES ASSUME CapsInv, ThreadSteps PROVE CapsInv'
  OBVIOUS
<1> USE ProgramAssumption DEF CapsInv, loopVars
<1>1. CASE ScriptAborts
  BY <1>1 DEF ScriptAborts
<1>2. CASE Computes
  BY <1>2 DEF Computes, Operates
<1>3. ASSUME NEW n \in LineSizes, Prints(n) PROVE CapsInv'
  BY <1>3 DEF Prints, Operates
<1>4. CASE CallsHost
  <2>1. ~token /\ thread = "script"
    BY <1>4 DEF CallsHost, Operates, Aborts
  <2>2. QED
    BY <1>4, <2>1 DEF CallsHost
<1>5. CASE HostReturns
  BY <1>5 DEF HostReturns
<1>6. CASE HostFails
  BY <1>6 DEF HostFails
<1>7. ASSUME NEW n \in ResultSizes, ScriptReturns(n) PROVE CapsInv'
  BY <1>7 DEF ScriptReturns, Operates
<1>8. ASSUME NEW caught \in BOOLEAN, HostRefuses(caught) PROVE CapsInv'
  <2>1. waiter # "answered"
    BY <1>8 DEF HostRefuses, Operates
  <2>2. QED
    BY <1>8, <2>1 DEF HostRefuses
<1>9. QED
  BY <1>1, <1>2, <1>3, <1>4, <1>5, <1>6, <1>7, <1>8 DEF ThreadSteps

(* What the thread does to its output, and that it does it unread.         *)
LEMMA OutputThread == CapsInv /\ OutputInv /\ ThreadSteps => OutputInv' /\ waiter' # "answered"
<1> SUFFICES ASSUME CapsInv, OutputInv, ThreadSteps
             PROVE  OutputInv' /\ waiter' # "answered"
  OBVIOUS
<1> USE ProgramAssumption
<1>1. thread # "over" /\ waiter' = waiter
  <2>1. CASE ScriptAborts \/ Computes \/ CallsHost \/ HostReturns \/ HostFails
    BY <2>1 DEF ScriptAborts, Computes, CallsHost, HostReturns, HostFails, Operates, loopVars
  <2>2. ASSUME NEW n \in LineSizes, Prints(n) PROVE thread # "over" /\ waiter' = waiter
    BY <2>2 DEF Prints, Operates, loopVars
  <2>3. ASSUME NEW n \in ResultSizes, ScriptReturns(n) PROVE thread # "over" /\ waiter' = waiter
    BY <2>3 DEF ScriptReturns, Operates, loopVars
  <2>4. ASSUME NEW caught \in BOOLEAN, HostRefuses(caught) PROVE thread # "over" /\ waiter' = waiter
    BY <2>4 DEF HostRefuses, Operates, loopVars
  <2>5. QED
    BY <2>1, <2>2, <2>3, <2>4 DEF ThreadSteps
<1>2. waiter # "answered" /\ waiter' # "answered"
  BY <1>1 DEF CapsInv
<1>3. CASE UNCHANGED outputVars
  BY <1>2, <1>3 DEF OutputInv, outputVars
<1>4. ASSUME NEW n \in LineSizes, Prints(n) PROVE OutputInv'
  <2>1. n \in Nat /\ n <= LineMax /\ LineMax \in Nat /\ OutputMax \in Nat
    OBVIOUS
  <2>2. /\ printedBytes' = IF printedBytes < 2 * OutputMax THEN printedBytes + n ELSE printedBytes
        /\ said' = IF said > OutputMax THEN said ELSE said + n
        /\ resultBytes' = resultBytes
    BY <1>4 DEF Prints
  <2>3. printedBytes' \in Nat /\ said' \in Nat /\ printedBytes' < 2 * OutputMax + LineMax
    BY <2>1, <2>2 DEF OutputInv
  <2>4. ASSUME said' <= OutputMax PROVE printedBytes' = said'
    <3>1. said <= OutputMax /\ said' = said + n
      BY <2>1, <2>2, <2>4 DEF OutputInv
    <3>2. printedBytes = said /\ n >= 1
      BY <3>1 DEF OutputInv
    <3>3. printedBytes < 2 * OutputMax
      BY <2>1, <2>4, <3>1, <3>2 DEF OutputInv
    <3>4. QED
      BY <2>2, <3>1, <3>2, <3>3
  <2>5. QED
    BY <2>2, <2>3, <2>4 DEF OutputInv
<1>5. ASSUME NEW n \in ResultSizes, ScriptReturns(n) PROVE OutputInv'
  BY <1>5 DEF ScriptReturns, OutputInv
<1>6. QED
  BY <1>2, <1>3, <1>4, <1>5
     DEF ThreadSteps, ScriptAborts, Computes, CallsHost, HostReturns, HostFails, HostRefuses

LEMMA CapsStep ==
    CapsInv /\ OutputInv /\ ReadInv /\ [ProgramNext]_programVars
      => CapsInv' /\ OutputInv' /\ ReadInv'
<1> SUFFICES ASSUME CapsInv, OutputInv, ReadInv, [ProgramNext]_programVars
             PROVE  CapsInv' /\ OutputInv' /\ ReadInv'
  OBVIOUS
<1> USE ProgramAssumption
<1>1. CASE ThreadSteps
  BY <1>1, CapsThread, OutputThread DEF ReadInv
<1>2. CASE Answers
  <2>1. CapsInv'
    BY <1>2 DEF CapsInv, Answers
  <2>2. OutputInv'
    BY <1>2 DEF OutputInv, Answers
  <2>3. printedBytes \in Nat /\ resultBytes \in Nat /\ said \in Nat
        /\ printedBytes + resultBytes \in Nat
        /\ (said <= OutputMax => printedBytes = said)
    BY DEF OutputInv
  <2>4. /\ answer' = Windowed(printedBytes + resultBytes)
        /\ said' = said /\ resultBytes' = resultBytes
    BY <1>2 DEF Answers
  <2>5. answer' <= OutputMax + Notice
    BY <2>3, <2>4, WindowFits
  <2>6. ASSUME said + resultBytes <= OutputMax PROVE answer' = said + resultBytes
    <3>1. said <= OutputMax
      BY <2>3, <2>6
    <3>2. QED
      BY <2>3, <2>4, <2>6, <3>1, WindowFits
  <2>7. QED
    BY <2>1, <2>2, <2>4, <2>5, <2>6 DEF ReadInv
<1>3. CASE TimesOut
  BY <1>3 DEF CapsInv, OutputInv, ReadInv, TimesOut, outputVars
<1>4. CASE StopPressed
  BY <1>4 DEF CapsInv, OutputInv, ReadInv, StopPressed, outputVars
<1>5. CASE TimePasses
  BY <1>5 DEF CapsInv, OutputInv, ReadInv, TimePasses, outputVars
<1>6. CASE UNCHANGED programVars
  BY <1>6 DEF CapsInv, OutputInv, ReadInv, programVars, outputVars
<1>7. QED
  BY <1>1, <1>2, <1>3, <1>4, <1>5, <1>6 DEF ProgramNext

(* Whatever a script does, it makes no more host calls than the cap, and   *)
(* begins none after Stop: script.rs polls the token before every          *)
(* operation.  Whatever the sizes of its lines, its buffer stays below     *)
(* twice the output cap but for the one line that passed it, and window    *)
(* gives the model the cap and a notice at most, or all of a short output. *)
THEOREM CapsKept == ProgramSpec => []CapsHold
<1>1. CapsInv /\ OutputInv /\ ReadInv => CapsHold
  BY DEF CapsInv, OutputInv, ReadInv, CapsHold
<1>2. QED
  BY CapsInitially, CapsStep, <1>1, PTL DEF ProgramSpec

-----------------------------------------------------------------------------
LEMMA PartsStep ==
    [Next]_<<part, allVars>> => /\ [KeeperNext]_keeperVars
                                /\ [SupervisorNext]_supVars
                                /\ [ProgramNext]_programVars
  BY DEF Next, KeeperPart, SupervisorPart, ProgramPart, allVars, keeperVars, turnsOf, supVars, programVars

LEMMA SpecOfParts == Spec => KeeperSpec /\ SupervisorSpec /\ ProgramSpec
<1>1. Init => KeeperInit /\ SupervisorInit /\ ProgramInit
  BY DEF Init
<1>2. QED
  BY PartsStep, <1>1, PTL DEF Spec, KeeperSpec, SupervisorSpec, ProgramSpec

(* A memory pass gives way to a turn it could see; a window talks to the   *)
(* backend it started, or its client was killed; a program keeps its caps  *)
(* on host calls and output (twice the cap and one line), and calls        *)
(* nothing once its turn was stopped.                                      *)
THEOREM NothingOutlives == Spec => []LifetimesKept
<1>1. TurnStopsPass /\ OwnBackend /\ CapsHold => LifetimesKept
  BY DEF LifetimesKept
<1>2. QED
  BY SpecOfParts, PassGivesWay, BackendIsOwn, CapsKept, <1>1, PTL

(* No memory pass writes over what it has not read. *)
THEOREM MemoryKept == Spec => NewsKept
  BY SpecOfParts, RowsNotOverwritten, PTL
=============================================================================
