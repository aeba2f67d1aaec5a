---------------------------- MODULE Investigator ----------------------------
(***************************************************************************)
(* Failures of one session and what becomes of them: incident.rs notes a   *)
(* failure in the session's ledger and publishes it on the trigger bus,    *)
(* the idealist daemon files it as a ticket, a person may close the        *)
(* ticket, and at the end of the session the investigator                  *)
(* (crates/backend/src/investigate.rs) works through the pending entries   *)
(* while no turn needs the model.  Ledger and tickets are files; bus,      *)
(* timer and queue are memory.                                             *)
(***************************************************************************)
EXTENDS Integers, Sequences, FiniteSets, SequencesExt

CONSTANTS
    Kinds,       \* kinds of failure: one ticket each
    MaxPicked,   \* max_per_session
    PromoteAt,   \* RECOVERED_PROMOTE_AT
    FailBound,   \* bound: failures reported
    TurnBound,   \* bound: turns of the session
    CloseBound,  \* bound: tickets closed by a person
    LossBound    \* bound: restarts of the backend

(* The books hold what was recorded, so finitely many kinds. *)
ASSUME InvestAssumption == IsFiniteSet(Kinds)

VARIABLES
    ledger,   \* per kind: no entry, "pending" or "done", and recovered()
    ticket,   \* per kind: its status on disk
    seen,     \* per kind: occurrences
    bus,      \* triggers the daemon has not filed
    lessons,  \* kinds with a line in lessons.md
    turnAt,   \* the session's turn: "none", "opening", "running"
    clock,    \* its idle timer
    ends,     \* jobs in the investigator's channel
    inv,      \* the worker: where it is, what it picked, its token
    faults,   \* failures, turns, closings, restarts so far
    (* history, read by the properties only *)
    owed,     \* kinds that failed since they were last investigated
    excused   \* ... and that the end of a run passed over knowingly

ledgerVars == <<ledger, ticket, seen, bus, lessons>>
investVars == <<ledgerVars, turnAt, clock, ends, inv, faults, owed, excused>>

AtRest == [at |-> "idle", todo |-> <<>>, cancelled |-> FALSE, raced |-> {}]
NoEntry == [is |-> "none", recovered |-> FALSE]
Closed == {"resolved", "wontfix"}

InvestInit ==
    /\ ledger = [k \in Kinds |-> NoEntry]
    /\ ticket = [k \in Kinds |-> "absent"]
    /\ seen = [k \in Kinds |-> 0]
    /\ bus = <<>>
    /\ lessons = {}
    /\ turnAt = "none" /\ clock = FALSE
    /\ ends = 0
    /\ inv = AtRest
    /\ faults = [fail |-> 0, turn |-> 0, close |-> 0, loss |-> 0]
    /\ owed = {} /\ excused = {}

HasPending == \E k \in Kinds : ledger[k].is = "pending"
Counts(f, bound) == faults[f] < bound /\ faults' = [faults EXCEPT ![f] = @ + 1]

-----------------------------------------------------------------------------
(* Failures *)

RepeatStaysDone(k) ==
    ledger' = [ledger EXCEPT ![k] = IF @.is = "none" THEN [is |-> "pending", recovered |-> FALSE] ELSE @]

(* Ledger::record: a repeat is pending again. *)
RecordInLedger(k) ==
    ledger' = [ledger EXCEPT ![k] = [is |-> "pending", recovered |-> @.recovered]]

(* incident::file, under its order lock: log row, ledger, bus. *)
FileFailure(k) ==
    /\ turnAt = "running"
    /\ Counts("fail", FailBound)
    /\ RecordInLedger(k)
    /\ bus' = Append(bus, k)
    /\ owed' = owed \cup {k}
    /\ excused' = excused \ {k}
    /\ inv' = [inv EXCEPT !.raced = @ \cup {k}]
    /\ UNCHANGED <<ticket, seen, lessons, turnAt, clock, ends>>

(* The daemon: upsert.  A resolved ticket that fires again reopens. *)
DaemonFiles ==
    LET k == Head(bus) IN
    /\ bus # <<>>
    /\ bus' = Tail(bus)
    /\ seen' = [seen EXCEPT ![k] = IF @ < PromoteAt THEN @ + 1 ELSE @]
    /\ ticket' = [ticket EXCEPT ![k] = IF @ \in {"absent", "resolved"} THEN "open" ELSE @]
    /\ UNCHANGED <<ledger, lessons, turnAt, clock, ends, inv, faults, owed, excused>>

(* SetTicketStatus of a person. *)
CloseTicket(k, s) ==
    /\ ticket[k] \notin {"absent", s}
    /\ Counts("close", CloseBound)
    /\ ticket' = [ticket EXCEPT ![k] = s]
    /\ UNCHANGED <<ledger, seen, bus, lessons, turnAt, clock, ends, inv, owed, excused>>

-----------------------------------------------------------------------------
(* Turns of the session *)

(* session_active: the timer is void, a run in flight is cancelled. *)
TurnAnnounces ==
    /\ turnAt = "none"
    /\ Counts("turn", TurnBound)
    /\ turnAt' = "opening"
    /\ clock' = FALSE
    /\ inv' = [inv EXCEPT !.cancelled = @ \/ inv.at \in {"looking", "next", "examining"}]
    /\ UNCHANGED <<ledgerVars, ends, owed, excused>>

TurnRegisters ==
    /\ turnAt = "opening"
    /\ turnAt' = "running"
    /\ UNCHANGED <<ledgerVars, clock, ends, inv, faults, owed, excused>>

(* turn_ended: entries whose tool worked in the end count as recovered;    *)
(* session_idle: the timer, if anything is pending.                        *)
TurnGoesIdle(R) ==
    /\ turnAt = "running"
    /\ R \subseteq {k \in Kinds : ledger[k].is = "pending"}
    /\ turnAt' = "none"
    /\ ledger' = [k \in Kinds |-> IF ledger[k].is = "pending" THEN [ledger[k] EXCEPT !.recovered = k \in R]
                                  ELSE ledger[k]]
    /\ clock' = HasPending
    /\ UNCHANGED <<ticket, seen, bus, lessons, ends, inv, faults, owed, excused>>

(* end(): after idle_minutes, when archived, or when someone asks. *)
SessionEnds(why) ==
    /\ \/ why = "idle" /\ clock /\ clock' = FALSE
       \/ why = "archived" /\ clock' = FALSE
       \/ why = "requested" /\ HasPending /\ UNCHANGED clock
    /\ ends = 0
    /\ ends' = ends + 1
    /\ UNCHANGED <<ledgerVars, turnAt, inv, faults, owed, excused>>

-----------------------------------------------------------------------------
(* The worker *)

WorkTaken ==
    /\ inv.at = "idle" /\ ends > 0
    /\ ends' = ends - 1
    /\ inv' = IF HasPending THEN [AtRest EXCEPT !.at = "waiting"] ELSE AtRest
    /\ UNCHANGED <<ledgerVars, turnAt, clock, faults, owed, excused>>

(* pick: entries whose ticket can be read and is open or failed, without   *)
(* the rare ones the turn recovered from, at most max_per_session.         *)
Pickable ==
    {k \in Kinds : /\ ledger[k].is = "pending"
                   /\ ticket[k] \in {"open", "failed"}
                   /\ ~ledger[k].recovered \/ seen[k] >= PromoteAt}

WorkPicks(picked) ==
    /\ inv.at = "waiting"
    /\ turnAt # "running"
    /\ picked \subseteq Pickable
    /\ Cardinality(picked) = IF Cardinality(Pickable) < MaxPicked THEN Cardinality(Pickable) ELSE MaxPicked
    /\ inv' = [at |-> IF picked = {} THEN "marking" ELSE "publishing", todo |-> SetToSeq(picked),
               cancelled |-> FALSE, raced |-> {}]
    /\ UNCHANGED <<ledgerVars, turnAt, clock, ends, faults, owed, excused>>

WorkPublishes ==
    /\ inv.at = "publishing"
    /\ inv' = [inv EXCEPT !.at = "looking"]
    /\ UNCHANGED <<ledgerVars, turnAt, clock, ends, faults, owed, excused>>

WorkLooks ==
    /\ inv.at = "looking"
    /\ inv' = [inv EXCEPT !.at = "next", !.cancelled = @ \/ turnAt = "running"]
    /\ UNCHANGED <<ledgerVars, turnAt, clock, ends, faults, owed, excused>>

(* The next ticket is marked investigating and the model asked. *)
ExamineBegins ==
    /\ inv.at = "next" /\ ~inv.cancelled
    /\ inv.todo # <<>>
    /\ ticket' = [ticket EXCEPT ![Head(inv.todo)] = "investigating"]
    /\ inv' = [inv EXCEPT !.at = "examining"]
    /\ UNCHANGED <<ledger, seen, bus, lessons, turnAt, clock, ends, faults, owed, excused>>

CancelLeavesTicket ==
    /\ inv.cancelled
    /\ inv.at \in {"next", "examining"}
    /\ UNCHANGED ticket
    /\ ends' = ends + 1
    /\ inv' = AtRest
    /\ UNCHANGED <<ledger, seen, bus, lessons, turnAt, clock, faults, owed, excused>>

(* A turn started: the ticket goes back to open, the session into the      *)
(* queue.                                                                  *)
WorkInterrupted ==
    /\ inv.cancelled
    /\ inv.at \in {"next", "examining"}
    /\ ticket' = IF inv.at = "examining" THEN [ticket EXCEPT ![Head(inv.todo)] = "open"] ELSE ticket
    /\ ends' = ends + 1
    /\ inv' = AtRest
    /\ UNCHANGED <<ledger, seen, bus, lessons, turnAt, clock, faults, owed, excused>>

(* record: the lesson, then the ticket; a ticket a person closed meanwhile *)
(* keeps its status.                                                       *)
ExamineEnds(found, teaches) ==
    LET k == Head(inv.todo) IN
    /\ inv.at = "examining" /\ ~inv.cancelled
    /\ teaches => found
    /\ lessons' = IF teaches THEN lessons \cup {k} ELSE lessons
    /\ ticket' = IF ticket[k] \in Closed THEN ticket
                 ELSE [ticket EXCEPT ![k] = IF found THEN "diagnosed" ELSE "failed"]
    /\ inv' = [inv EXCEPT !.at = "next", !.todo = Tail(@)]
    /\ owed' = owed \ ({k} \ inv.raced)
    /\ UNCHANGED <<ledger, seen, bus, turnAt, clock, ends, faults, excused>>

WorkDone ==
    /\ inv.at = "next" /\ ~inv.cancelled
    /\ inv.todo = <<>>
    /\ inv' = [inv EXCEPT !.at = "marking"]
    /\ UNCHANGED <<ledgerVars, turnAt, clock, ends, faults, owed, excused>>

(* mark_investigated marks every entry of the session. *)
WorkMarks ==
    /\ inv.at = "marking"
    /\ ledger' = [k \in Kinds |-> IF ledger[k].is = "none" THEN NoEntry ELSE [ledger[k] EXCEPT !.is = "done"]]
    /\ excused' = owed
    /\ inv' = AtRest
    /\ UNCHANGED <<ticket, seen, bus, lessons, turnAt, clock, ends, faults, owed>>

(* The backend dies and comes back: reset_stale, then the startup sweep. *)
InvestRestart ==
    /\ Counts("loss", LossBound)
    /\ ticket' = [k \in Kinds |-> IF ticket[k] = "investigating" THEN "open" ELSE ticket[k]]
    /\ bus' = <<>>
    /\ turnAt' = "none" /\ clock' = FALSE
    /\ ends' = IF HasPending THEN 1 ELSE 0
    /\ inv' = AtRest
    /\ UNCHANGED <<ledger, seen, lessons, owed, excused>>

InvestNext ==
    \/ \E k \in Kinds : FileFailure(k) \/ CloseTicket(k, "resolved") \/ CloseTicket(k, "wontfix")
    \/ DaemonFiles
    \/ TurnAnnounces \/ TurnRegisters
    \/ \E R \in SUBSET Kinds : TurnGoesIdle(R) \/ WorkPicks(R)
    \/ \E why \in {"idle", "archived", "requested"} : SessionEnds(why)
    \/ WorkTaken \/ WorkPublishes \/ WorkLooks
    \/ ExamineBegins \/ WorkInterrupted \/ WorkDone \/ WorkMarks
    \/ \E found, teaches \in BOOLEAN : ExamineEnds(found, teaches)
    \/ InvestRestart

InvestSpec == InvestInit /\ [][InvestNext]_investVars

-----------------------------------------------------------------------------
(* Properties *)

(* A failure nobody has looked into stays pending for the next end of the  *)
(* session, through repeats of what was investigated before, interrupted   *)
(* runs and restarts - until a run that ends marks the whole ledger.       *)
FailureStaysPending == \A k \in owed \ excused : ledger[k].is = "pending"

(* A ticket says "investigating" only while the worker has it in hand, and *)
(* a lesson is kept only for a failure that is on file: whatever turn,     *)
(* person, daemon or restart comes in between.                             *)
InvestigatingInHand ==
    /\ \A k \in Kinds : ticket[k] = "investigating" => inv.at = "examining" /\ Head(inv.todo) = k
    /\ \A k \in lessons : ticket[k] # "absent" /\ ledger[k].is # "none"

(* "marks it investigation_failed (retried at the next session end)".      *)
(* Refuted: the run that failed marks the ledger entry all the same.       *)
FailedIsRetried ==
    inv.at = "idle" => \A k \in Kinds : ticket[k] = "failed" => ledger[k].is = "pending"

(* append_investigation: "A person may have closed the ticket while the    *)
(* run was going; their call stands".  Refuted: the interrupted run opens  *)
(* it again.                                                               *)
ClosingStands ==
    [][\A k \in Kinds : ticket[k] \in Closed /\ ticket'[k] # ticket[k] =>
          ticket'[k] \in Closed \/ (bus # <<>> /\ bus' = Tail(bus))]_investVars
=============================================================================
