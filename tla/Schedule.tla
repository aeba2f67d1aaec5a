------------------------------ MODULE Schedule ------------------------------
(***************************************************************************)
(* The reminders of one session: validation in crates/agents/src/          *)
(* schedule.rs, the fold of Schedule rows in crates/sica-core/src/         *)
(* project.rs, the tools and the timer in crates/backend/src/chat.rs.      *)
(* The log owns the state: `logged` is the fold of its Schedule rows and   *)
(* `active` the hub's copy, renewed by refold_schedules.  A turn creates   *)
(* and deletes; the timer claims the idle slot, writes the dispatch rows   *)
(* one by one and starts a turn.  Time is in units of the `every` floor.              *)
(***************************************************************************)
EXTENDS Integers, FiniteSets

CONSTANTS
    Periods,     \* every_seconds a caller may ask for
    TimeBound,   \* bound: the clock
    CreateBound, \* bound: reminders created
    CrashBound   \* bound: restarts

(* A repeating reminder has a period: validate has a floor. *)
ASSUME ScheduleAssumption == Periods \subseteq Nat \ {0}

VARIABLES
    now,
    logged,   \* the fold of the log's Schedule rows
    active,   \* ChatHub.schedules
    created,  \* reminders created so far: ids are never used again
    tool,     \* a schedule tool between its row and its refold
    pass,     \* the clock reading of the timer's pass, or NoPass
    slotOwner,\* "none", "turn", or the timer with its claim: "timer" before
              \* it has picked, "rows" until the refold, "ready" to start
    rowsDue,  \* what it has picked and not yet written a dispatch row for
    claimed,  \* what it has written dispatch rows for
    crashes,
    (* history, read by the properties only *)
    told,     \* occurrences whose turn started
    twice,    \* an occurrence was told again, or an older one after it
    lost,     \* occurrences dispatched whose turn never started
    uncertain \* a checkpoint failed since the last refold

schedVars == <<now, logged, active, created, tool, pass, slotOwner, rowsDue, claimed, crashes,
               told, twice, lost, uncertain>>

NoPass == -1

ScheduleInit ==
    /\ now = 0
    /\ logged = {} /\ active = {}
    /\ created = 0
    /\ tool = "idle"
    /\ pass = NoPass
    /\ slotOwner = "none"
    /\ rowsDue = {} /\ claimed = {}
    /\ crashes = 0
    /\ told = {} /\ twice = FALSE /\ lost = {} /\ uncertain = FALSE

-----------------------------------------------------------------------------
(* The fold *)

(* next_after: the first anchor-aligned target strictly after t. *)
NotStrictlyAfter(r, t) ==
    IF t < r.anchor THEN r.anchor
    ELSE r.anchor + ((t - r.anchor + r.every - 1) \div r.every) * r.every
NextAfter(r, t) ==
    IF t < r.anchor THEN r.anchor
    ELSE r.anchor + ((t - r.anchor) \div r.every + 1) * r.every

(* A one-shot dispatch is terminal, an `every` record moves on. *)
Dispatched(S, ids, t) ==
    {r \in S : r.id \notin ids}
        \cup {[r EXCEPT !.fire = NextAfter(r, t)] : r \in {q \in S : q.id \in ids /\ q.every > 0}}

-----------------------------------------------------------------------------
(* The tools of a turn *)

TurnBegins ==
    /\ slotOwner = "none"
    /\ slotOwner' = "turn"
    /\ UNCHANGED <<now, logged, active, created, tool, pass, rowsDue, claimed, crashes, told, twice, lost, uncertain>>

TurnEnds ==
    /\ slotOwner = "turn" /\ tool = "idle"
    /\ slotOwner' = "none"
    /\ UNCHANGED <<now, logged, active, created, tool, pass, rowsDue, claimed, crashes, told, twice, lost, uncertain>>

(* parse_create: after and at give a one-shot in the future, every a       *)
(* repeating record whose first target is one period away.                 *)
NewRecords ==
    {[id |-> created + 1, every |-> 0, fire |-> t, anchor |-> t] : t \in now + 1 .. TimeBound}
        \cup {[id |-> created + 1, every |-> p, fire |-> now + p, anchor |-> now + p] : p \in Periods}

ScheduleCreate(r) ==
    /\ slotOwner = "turn" /\ tool = "idle"
    /\ created < CreateBound
    /\ created' = created + 1
    /\ logged' = logged \cup {r}
    /\ tool' = "checkpoint"
    /\ UNCHANGED <<now, active, pass, slotOwner, rowsDue, claimed, crashes, told, twice, lost, uncertain>>

(* schedule-delete looks the id up in the hub's copy. *)
ScheduleDelete(r) ==
    /\ slotOwner = "turn" /\ tool = "idle"
    /\ r \in active
    /\ logged' = {q \in logged : q.id # r.id}
    /\ tool' = "checkpoint"
    /\ UNCHANGED <<now, active, created, pass, slotOwner, rowsDue, claimed, crashes, told, twice, lost, uncertain>>

(* checkpoint: refold_schedules only if the row reached the disk. *)
Checkpoint(ok) ==
    /\ tool = "checkpoint"
    /\ tool' = "idle"
    /\ active' = IF ok THEN logged ELSE active
    /\ uncertain' = ~ok
    /\ UNCHANGED <<now, logged, created, pass, slotOwner, rowsDue, claimed, crashes, told, twice, lost>>

-----------------------------------------------------------------------------
(* The timer *)

DueOneShots == {r \in active : r.every = 0 /\ r.fire <= pass}
DueRepeats == {r \in active : r.every > 0 /\ r.fire <= pass}

(* The occurrence a due record is told for: its latest, not its backlog. *)
Occurrence(r) ==
    IF r.every = 0 THEN r.fire ELSE r.fire + ((pass - r.fire) \div r.every) * r.every

(* deliver_due_schedules reads the clock once and lists what is due. *)
DeliverScan ==
    /\ pass = NoPass
    /\ \E r \in active : r.fire <= now
    /\ pass' = now
    /\ UNCHANGED <<now, logged, active, created, tool, slotOwner, rowsDue, claimed, crashes, told, twice, lost, uncertain>>

(* It takes the slot, or passes the session over while a turn holds it. *)
DeliverClaim ==
    /\ pass # NoPass
    /\ \/ /\ slotOwner = "none"
          /\ slotOwner' = "timer"
          /\ UNCHANGED pass
       \/ /\ slotOwner = "turn"
          /\ pass' = NoPass
          /\ UNCHANGED slotOwner
    /\ UNCHANGED <<now, logged, active, created, tool, rowsDue, claimed, crashes, told, twice, lost, uncertain>>

(* The earliest one-shot alone, else every due repeating record. *)
Batch ==
    IF DueOneShots # {}
    THEN {{r} : r \in {q \in DueOneShots : \A o \in DueOneShots : q.fire <= o.fire}}
    ELSE {DueRepeats}

(* Nothing is due any more: a turn deleted it between scan and claim. *)
DeliverNothing ==
    /\ slotOwner = "timer"
    /\ Batch = {{}}
    /\ slotOwner' = "none"
    /\ pass' = NoPass
    /\ UNCHANGED <<now, logged, active, created, tool, rowsDue, claimed, crashes, told, twice, lost, uncertain>>

(* The batch and its text are made from one look at the hub's copy. *)
DeliverPick(B) ==
    /\ slotOwner = "timer"
    /\ B # {}
    /\ rowsDue' = B
    /\ slotOwner' = "rows"
    /\ UNCHANGED <<now, logged, active, created, tool, pass, claimed, crashes, told, twice, lost, uncertain>>

(* One dispatch row after the other, with the pass's clock, the earliest   *)
(* occurrence first.                                                       *)
DeliverDispatch(r) ==
    /\ slotOwner = "rows"
    /\ \A q \in rowsDue : Occurrence(r) <= Occurrence(q)
    /\ logged' = Dispatched(logged, {r.id}, pass)
    /\ claimed' = claimed \cup {<<r.id, Occurrence(r)>>}
    /\ rowsDue' = rowsDue \ {r}
    /\ UNCHANGED <<now, active, created, tool, pass, slotOwner, crashes, told, twice, lost, uncertain>>

(* refold_schedules, once after the last row. *)
DeliverRefold ==
    /\ slotOwner = "rows" /\ rowsDue = {}
    /\ active' = logged
    /\ uncertain' = FALSE
    /\ slotOwner' = "ready"
    /\ UNCHANGED <<now, logged, created, tool, pass, rowsDue, claimed, crashes, told, twice, lost>>

(* start_boxed with TurnSource::Schedule: the reminder's turn runs. *)
DeliverStart ==
    /\ slotOwner = "ready"
    /\ slotOwner' = "turn"
    /\ told' = told \cup claimed
    /\ twice' = (twice \/ \E c \in claimed, d \in told : c[1] = d[1] /\ c[2] <= d[2])
    /\ claimed' = {}
    /\ pass' = NoPass
    /\ UNCHANGED <<now, logged, active, created, tool, rowsDue, crashes, lost, uncertain>>

(* ... or is refused: no model any more, or a prompt hook said no. *)
DeliverRefused ==
    /\ slotOwner = "ready"
    /\ slotOwner' = "none"
    /\ lost' = lost \cup claimed
    /\ claimed' = {}
    /\ pass' = NoPass
    /\ UNCHANGED <<now, logged, active, created, tool, rowsDue, crashes, told, twice, uncertain>>

Tick ==
    /\ now < TimeBound
    /\ now' = now + 1
    /\ UNCHANGED <<logged, active, created, tool, pass, slotOwner, rowsDue, claimed, crashes, told, twice, lost, uncertain>>

(* new_loaded folds the rows; what passed meanwhile is overdue, and so is  *)
(* what the timer had picked and not written a row for.                    *)
ScheduleRestart ==
    /\ crashes < CrashBound
    /\ crashes' = crashes + 1
    /\ active' = logged
    /\ tool' = "idle"
    /\ pass' = NoPass
    /\ slotOwner' = "none"
    /\ lost' = lost \cup claimed
    /\ rowsDue' = {} /\ claimed' = {}
    /\ uncertain' = FALSE
    /\ UNCHANGED <<now, logged, created, told, twice>>

ScheduleNext ==
    \/ TurnBegins \/ TurnEnds \/ Tick \/ ScheduleRestart
    \/ \E r \in NewRecords : ScheduleCreate(r)
    \/ \E r \in active : ScheduleDelete(r)
    \/ \E ok \in BOOLEAN : Checkpoint(ok)
    \/ DeliverScan \/ DeliverClaim \/ DeliverNothing \/ DeliverStart \/ DeliverRefused
    \/ \E B \in Batch : DeliverPick(B)
    \/ \E r \in rowsDue : DeliverDispatch(r)
    \/ DeliverRefold

ScheduleSpec == ScheduleInit /\ [][ScheduleNext]_schedVars

-----------------------------------------------------------------------------
(* Properties *)

(* No occurrence of a reminder is told twice and none after a later one,   *)
(* whatever the timer, restarts and a sleeping clock do, and a repeating   *)
(* record is told only at targets of its own grid: a backlog is skipped.   *)
RemindersOnce ==
    /\ ~twice
    /\ \A r \in logged : r.every > 0 =>
          \A o \in told : o[1] = r.id => o[2] < r.fire /\ (o[2] - r.anchor) % r.every = 0

(* Outside a tool call and the timer's rows the hub's copy is what a       *)
(* restart would rebuild, unless a checkpoint failed: the tools answer     *)
(* from it.                                                                *)
ActiveIsLogged ==
    tool = "idle" /\ slotOwner # "rows" /\ ~uncertain => active = logged

(* skills/schedule.md: a due reminder that cannot go out "becomes overdue  *)
(* and goes out on the next chance".  Refuted: the dispatch rows are       *)
(* written before the turn starts, so a refused start uses it up.          *)
DueGoesOut == lost = {}
=============================================================================
