------------------------------- MODULE Keeper -------------------------------
(***************************************************************************)
(* The memory keeper (crates/backend/src/memory_keeper.rs): idle timers    *)
(* feed one queue, one worker takes a job, waits for a quiet moment, reads *)
(* the part of the log the session's memory has not covered and asks the   *)
(* model.  Its result is one SessionMemory row; the remember tool and the  *)
(* person write such rows too.  Turns of all sessions announce themselves  *)
(* (session_active) when start_turn begins and are in active_turns only    *)
(* once it registers them.                                                 *)
(***************************************************************************)
EXTENDS Integers, Sequences

CONSTANTS
    Chats,      \* sessions
    MinNew,     \* min_new_chars, in messages
    StartBound, \* bound: turns started
    WriteBound, \* bound: memory rows per session
    RefreshBound \* bound: jobs in the channel when a person asks for one more

VARIABLES
    phase,    \* each session's turn: "none", "opening", "running"
    msgs,     \* messages in its log
    starts,   \* turns started
    mem,      \* its newest SessionMemory row
    timer,    \* Keeper.idle
    jobs,     \* the channel
    worker,   \* the worker: where it is, its job, its plan, its token
    (* history, read by the properties only *)
    slipped,  \* the pass looked while a turn had announced itself too early
    dropped,  \* sessions whose last pass failed since they grew
    refused   \* sessions a refused turn took the timer from

turnsOf == <<phase, msgs, starts>>
keeperVars == <<turnsOf, mem, timer, jobs, worker, slipped, dropped, refused>>

(* A row's number, how far it has read the log, and its author. *)
NoMemory == [seq |-> 0, through |-> 0, by |-> "none"]
NoJob == [chat |-> "none", forced |-> FALSE]
NoPlan == [base |-> 0, through |-> 0]
Resting == [at |-> "idle", job |-> NoJob, plan |-> NoPlan, cancelled |-> FALSE, reply |-> "none"]

KeeperInit ==
    /\ phase = [s \in Chats |-> "none"]
    /\ msgs = [s \in Chats |-> 0]
    /\ starts = 0
    /\ mem = [s \in Chats |-> NoMemory]
    /\ timer = [s \in Chats |-> FALSE]
    /\ jobs = <<>>
    /\ worker = Resting
    /\ slipped = FALSE /\ dropped = {} /\ refused = {}

Running(s) == phase[s] = "running"
Quiet == \A s \in Chats : ~Running(s)
Unread(s) == msgs[s] - mem[s].through

(* plan: whether a job has anything to do. *)
Worth(job) == Unread(job.chat) > 0 /\ (job.forced \/ Unread(job.chat) >= MinNew)
Enqueue(job) == jobs' = Append(jobs, job)

-----------------------------------------------------------------------------
(* Turns *)

(* session_active: the timer is void (a timer firing at this moment may    *)
(* still get its job through), a published pass is cancelled.              *)
Announce(s) ==
    /\ phase[s] = "none"
    /\ starts < StartBound
    /\ starts' = starts + 1
    /\ phase' = [phase EXCEPT ![s] = "opening"]
    /\ timer' = [timer EXCEPT ![s] = FALSE]
    /\ \/ UNCHANGED jobs
       \/ timer[s] /\ Enqueue([chat |-> s, forced |-> FALSE])
    /\ worker' = [worker EXCEPT !.cancelled = @ \/ worker.at \in {"looking", "asking"}]
    /\ refused' = IF timer[s] /\ jobs' = jobs THEN refused \cup {s} ELSE refused
    /\ UNCHANGED <<msgs, mem, slipped, dropped>>

(* start_turn logs the message and registers the turn in active_turns. *)
Register(s) ==
    /\ phase[s] = "opening"
    /\ phase' = [phase EXCEPT ![s] = "running"]
    /\ msgs' = [msgs EXCEPT ![s] = @ + 1]
    /\ dropped' = dropped \ {s}
    /\ refused' = refused \ {s}
    /\ UNCHANGED <<starts, mem, timer, jobs, worker, slipped>>

(* ... or gives up before that: no model, a prompt hook said no. *)
Refuse(s) ==
    /\ phase[s] = "opening"
    /\ phase' = [phase EXCEPT ![s] = "none"]
    /\ UNCHANGED <<msgs, starts, mem, timer, jobs, worker, slipped, dropped, refused>>

(* remember ... session: its fact is added to the newest row's. *)
Remember(s) ==
    /\ Running(s)
    /\ mem[s].seq < WriteBound
    /\ mem' = [mem EXCEPT ![s] = [seq |-> @.seq + 1, through |-> @.through, by |-> "model"]]
    /\ UNCHANGED <<turnsOf, timer, jobs, worker, slipped, dropped, refused>>

(* The turn ends idle: session_idle arms the timer. *)
GoesIdle(s) ==
    /\ Running(s)
    /\ phase' = [phase EXCEPT ![s] = "none"]
    /\ timer' = [timer EXCEPT ![s] = TRUE]
    /\ UNCHANGED <<msgs, starts, mem, jobs, worker, slipped, dropped, refused>>

(* SetSessionMemory: counts as having read the whole log. *)
SetSessionMemory(s) ==
    /\ mem[s].seq < WriteBound
    /\ mem' = [mem EXCEPT ![s] = [seq |-> @.seq + 1, through |-> msgs[s], by |-> "user"]]
    /\ UNCHANGED <<turnsOf, timer, jobs, worker, slipped, dropped, refused>>

-----------------------------------------------------------------------------
(* Jobs *)

TimerFires(s) ==
    /\ timer[s]
    /\ timer' = [timer EXCEPT ![s] = FALSE]
    /\ Enqueue([chat |-> s, forced |-> FALSE])
    /\ UNCHANGED <<turnsOf, mem, worker, slipped, dropped, refused>>

(* RefreshSessionMemory *)
RefreshRequest(s) ==
    /\ Len(jobs) < RefreshBound
    /\ Worth([chat |-> s, forced |-> TRUE])
    /\ Enqueue([chat |-> s, forced |-> TRUE])
    /\ UNCHANGED <<turnsOf, mem, timer, worker, slipped, dropped, refused>>

WorkerTakes ==
    /\ worker.at = "idle"
    /\ jobs # <<>>
    /\ jobs' = Tail(jobs)
    /\ worker' = IF Worth(Head(jobs)) THEN [Resting EXCEPT !.at = "waiting", !.job = Head(jobs)]
                 ELSE Resting
    /\ UNCHANGED <<turnsOf, mem, timer, slipped, dropped, refused>>

(* quiet_client: no turn is registered. *)
WorkerSeesQuiet ==
    /\ worker.at = "waiting"
    /\ Quiet
    /\ worker' = [worker EXCEPT !.at = "planning"]
    /\ UNCHANGED <<turnsOf, mem, timer, jobs, slipped, dropped, refused>>

(* The plan: the row it starts from and how far it reads. *)
WorkerPlans ==
    /\ worker.at = "planning"
    /\ worker' = IF Worth(worker.job)
                 THEN [worker EXCEPT !.at = "publishing",
                          !.plan = [base |-> mem[worker.job.chat].seq, through |-> msgs[worker.job.chat]]]
                 ELSE Resting
    /\ UNCHANGED <<turnsOf, mem, timer, jobs, slipped, dropped, refused>>

WorkerPublishes ==
    /\ worker.at = "publishing"
    /\ worker' = [worker EXCEPT !.at = "looking"]
    /\ slipped' = FALSE
    /\ UNCHANGED <<turnsOf, mem, timer, jobs, dropped, refused>>

NeverLooks ==
    /\ worker.at = "looking"
    /\ worker' = [worker EXCEPT !.at = "asking"]
    /\ slipped' = \E s \in Chats : phase[s] = "opening"
    /\ UNCHANGED <<turnsOf, mem, timer, jobs, dropped, refused>>

(* Publish the token, then look again. *)
WorkerLooks ==
    /\ worker.at = "looking"
    /\ worker' = [worker EXCEPT !.at = "asking", !.cancelled = @ \/ ~Quiet]
    /\ slipped' = \E s \in Chats : phase[s] = "opening"
    /\ UNCHANGED <<turnsOf, mem, timer, jobs, dropped, refused>>

(* complete returns: a usable reply, or a timeout, a lost connection, a    *)
(* cut-off or unusable text.  The token is taken down.                     *)
PassReplies(ok) ==
    /\ worker.at = "asking"
    /\ ~worker.cancelled
    /\ worker' = [worker EXCEPT !.at = "landing", !.reply = IF ok THEN "ok" ELSE "failed"]
    /\ UNCHANGED <<turnsOf, mem, timer, jobs, slipped, dropped, refused>>

CancelledForgotten ==
    /\ worker.at = "asking"
    /\ worker.cancelled
    /\ worker' = Resting
    /\ UNCHANGED <<turnsOf, mem, timer, jobs, slipped, dropped, refused>>

(* Cancelled: back into the queue unless the turn is the session's own. *)
PassCancelled ==
    /\ worker.at = "asking"
    /\ worker.cancelled
    /\ IF Running(worker.job.chat) THEN UNCHANGED jobs ELSE Enqueue(worker.job)
    /\ worker' = Resting
    /\ UNCHANGED <<turnsOf, mem, timer, slipped, dropped, refused>>

PassFails ==
    /\ worker.at = "landing" /\ worker.reply = "failed"
    /\ dropped' = dropped \cup {worker.job.chat}
    /\ worker' = Resting
    /\ UNCHANGED <<turnsOf, mem, timer, jobs, slipped, refused>>

LandUnchecked ==
    LET s == worker.job.chat IN
    /\ worker.at = "landing" /\ worker.reply = "ok"
    /\ mem' = [mem EXCEPT ![s] = [seq |-> @.seq + 1, through |-> worker.plan.through, by |-> "auto"]]
    /\ worker' = Resting
    /\ UNCHANGED <<turnsOf, timer, jobs, slipped, dropped, refused>>

(* apply: compare-and-set on the row the pass started from.  A superseded  *)
(* pass goes back into the queue.                                          *)
Land ==
    LET s == worker.job.chat IN
    /\ worker.at = "landing" /\ worker.reply = "ok"
    /\ IF mem[s].seq = worker.plan.base
       THEN /\ mem' = [mem EXCEPT ![s] = [seq |-> @.seq + 1, through |-> worker.plan.through, by |-> "auto"]]
            /\ UNCHANGED jobs
       ELSE /\ Enqueue(worker.job)
            /\ UNCHANGED mem
    /\ worker' = Resting
    /\ UNCHANGED <<turnsOf, timer, slipped, dropped, refused>>

KeeperNext ==
    \/ \E s \in Chats : Announce(s) \/ Register(s) \/ Refuse(s) \/ Remember(s) \/ GoesIdle(s)
                          \/ SetSessionMemory(s) \/ TimerFires(s) \/ RefreshRequest(s)
    \/ WorkerTakes \/ WorkerSeesQuiet \/ WorkerPlans \/ WorkerPublishes \/ WorkerLooks
    \/ \E ok \in BOOLEAN : PassReplies(ok)
    \/ PassCancelled \/ PassFails \/ Land

KeeperSpec == KeeperInit /\ [][KeeperNext]_keeperVars

(* Timers, the worker and the model's answer go on; turns end. *)
KeeperFairness ==
    /\ \A s \in Chats : WF_keeperVars(Register(s) \/ Refuse(s)) /\ WF_keeperVars(GoesIdle(s))
                          /\ WF_keeperVars(TimerFires(s))
    /\ WF_keeperVars(WorkerTakes \/ WorkerSeesQuiet \/ WorkerPlans \/ WorkerPublishes \/ WorkerLooks
                       \/ (\E ok \in BOOLEAN : PassReplies(ok)) \/ PassCancelled \/ PassFails \/ Land)

-----------------------------------------------------------------------------
(* Properties *)

(* A pass in front of the model goes on next to a running turn only if it  *)
(* looked while that turn had announced itself and was not yet registered: *)
(* on every other order of token, look and turn one stops the other.       *)
TurnStopsPass ==
    worker.at = "asking" /\ ~worker.cancelled /\ ~Quiet => slipped

(* What the model or the person put into the memory while a pass ran is    *)
(* never written over by it, and how far the log has been read neither     *)
(* goes back nor runs ahead of the log.                                    *)
NewsKept ==
    [][\A s \in Chats :
          /\ mem'[s].through <= msgs'[s]
          /\ mem'[s].through >= mem[s].through
          /\ mem'[s].by = "auto" /\ mem'[s].seq # mem[s].seq => worker.plan.base = mem[s].seq]_keeperVars

(* Once a session stays idle its conversation gets into its memory, unless *)
(* the model failed on it or a refused turn took its timer away; passes    *)
(* cancelled by other sessions' turns and passes that lost the row come    *)
(* back.                                                                   *)
MemoryCatchesUp ==
    \A s \in Chats : []<>(Unread(s) < MinNew \/ phase[s] # "none" \/ s \in dropped \cup refused)

(* "any turn starting cancels it".  Refuted: see slipped. *)
NeverCompetes == worker.at = "asking" /\ ~worker.cancelled => Quiet

(* The timer comes back: "that session's own turn (whose end re-arms the   *)
(* timer anyway)".  Refuted by a turn that is refused.                     *)
IdleIsRead ==
    \A s \in Chats : []<>(Unread(s) < MinNew \/ phase[s] # "none" \/ s \in dropped)
=============================================================================
