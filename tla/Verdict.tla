------------------------------ MODULE Verdict ------------------------------
(***************************************************************************)
(* What the completion check reads (crates/backend/src/verdict.rs): the    *)
(* request a turn is audited against and whether it got anything done,     *)
(* both looked up in the session's log under the turn's id.  Turn ids come *)
(* from a counter the whole hub shares and every process starts at 1.      *)
(*                                                                         *)
(* Of the log only user messages, turn starts and tool results are kept.   *)
(* A text is a number: 0 is what a machine wrote (a continuation's or a    *)
(* round's prompt), the others are minted, one per human message.          *)
(***************************************************************************)
EXTENDS Naturals, Sequences, FiniteSetsExt

CONSTANTS
    MaxLog,     \* bound: rows of the log
    MaxTurnId,   \* bound: turn ids one process hands out
    MaxRestarts  \* bound: restarts

ASSUME VerdictAssumption == {MaxLog, MaxTurnId, MaxRestarts} \subseteq Nat

VARIABLES
    log,      \* the session's rows
    nextTurn, \* ChatHub.next_turn
    turn,     \* the id of the turn that runs, or 0
    restarts,
    (* history *)
    asked,    \* the text of the newest human turn; 0 before the first
    progress  \* a tool call of the running turn succeeded

verdictVars == <<log, nextTurn, turn, restarts, asked, progress>>

User(text) == [kind |-> "user", text |-> text]
Start(id, human) == [kind |-> "start", id |-> id, human |-> human]
Result(ok, pruned) == [kind |-> "result", ok |-> ok, pruned |-> pruned]

VerdictInit ==
    /\ log = <<>>
    /\ nextTurn = 1
    /\ turn = 0
    /\ restarts = 0
    /\ asked = 0
    /\ progress = FALSE

-----------------------------------------------------------------------------
(* The lookups *)

StartsOf(l, id) == {i \in 1 .. Len(l) : l[i].kind = "start" /\ l[i].id = id}

(* Mutant of MadeProgress: from the first start under the id. *)
ProgressSinceFirst(l, id) ==
    /\ StartsOf(l, id) # {}
    /\ \E i \in Min(StartsOf(l, id)) .. Len(l) :
          l[i].kind = "result" /\ l[i].ok /\ ~l[i].pruned

(* made_progress: from the newest start under the id. *)
MadeProgress(l, id) ==
    /\ StartsOf(l, id) # {}
    /\ \E i \in Max(StartsOf(l, id)) .. Len(l) :
          l[i].kind = "result" /\ l[i].ok /\ ~l[i].pruned

(* objective: the walk stops at the first start under the id, and keeps    *)
(* the user message before the last human start it met.                    *)
Walked(l, id) == IF StartsOf(l, id) = {} THEN Len(l) ELSE Min(StartsOf(l, id))
LastUser(l, i) == l[Max({j \in 1 .. i : l[j].kind = "user"})].text

(* Mutant of Objective: any start will do, a continuation's too. *)
ObjectiveOfAny(l, id) ==
    LET starts == {i \in 1 .. Walked(l, id) : l[i].kind = "start"}
    IN  IF starts = {} THEN 0 ELSE LastUser(l, Max(starts))

Objective(l, id) ==
    LET starts == {i \in 1 .. Walked(l, id) : l[i].kind = "start" /\ l[i].human}
    IN  IF starts = {} THEN 0 ELSE LastUser(l, Max(starts))

-----------------------------------------------------------------------------
(* The steps that write what the lookups read *)

(* Mutant of TakeId: the counter is read and not moved. *)
TakeIdTwice == nextTurn <= MaxTurnId /\ UNCHANGED nextTurn

(* next_turn.fetch_add *)
TakeId ==
    /\ nextTurn <= MaxTurnId
    /\ nextTurn' = nextTurn + 1

(* The log block of start_turn. *)
StartTurn(human) ==
    /\ turn = 0
    /\ Len(log) + 2 <= MaxLog
    /\ TakeId
    /\ turn' = nextTurn
    /\ LET text == IF human THEN Len(log) + 1 ELSE 0
       IN  /\ log' = log \o <<User(text), Start(nextTurn, human)>>
           /\ asked' = IF human THEN text ELSE asked
    /\ progress' = FALSE
    /\ UNCHANGED restarts

(* A steer drained at the top of a hop. *)
Steer ==
    /\ turn # 0
    /\ Len(log) < MaxLog
    /\ log' = Append(log, User(Len(log) + 1))
    /\ UNCHANGED <<nextTurn, turn, restarts, asked, progress>>

(* A request of this turn, or a turn of another session, takes an id. *)
OtherId ==
    /\ TakeId
    /\ UNCHANGED <<log, turn, restarts, asked, progress>>

(* A tool call's result. *)
ToolAnswers(ok) ==
    /\ turn # 0
    /\ Len(log) < MaxLog
    /\ log' = Append(log, Result(ok, FALSE))
    /\ progress' = (progress \/ ok)
    /\ UNCHANGED <<nextTurn, turn, restarts, asked>>

(* An old result is pruned: its row is written again, shorter. *)
PruneResult ==
    /\ turn # 0
    /\ Len(log) < MaxLog
    /\ \E i \in 1 .. Len(log) :
          /\ log[i].kind = "result"
          /\ log' = Append(log, Result(log[i].ok, TRUE))
    /\ UNCHANGED <<nextTurn, turn, restarts, asked, progress>>

EndTurn ==
    /\ turn # 0
    /\ turn' = 0
    /\ UNCHANGED <<log, nextTurn, restarts, asked, progress>>

(* The process ends, in a turn or between two, and comes back: new_loaded  *)
(* restores the log, and next_turn is what `new` makes it.                 *)
Restart ==
    /\ restarts < MaxRestarts
    /\ restarts' = restarts + 1
    /\ turn' = 0
    /\ nextTurn' = 1
    /\ UNCHANGED <<log, asked, progress>>

VerdictNext ==
    \/ \E human \in BOOLEAN : StartTurn(human)
    \/ Steer \/ OtherId
    \/ \E ok \in BOOLEAN : ToolAnswers(ok)
    \/ PruneResult \/ EndTurn \/ Restart

VerdictSpec == VerdictInit /\ [][VerdictNext]_verdictVars

-----------------------------------------------------------------------------
(* Properties *)

Texts == 0 .. MaxLog
LogRows ==
    [kind : {"user"}, text : Texts]
        \cup [kind : {"start"}, id : 1 .. MaxTurnId, human : BOOLEAN]
        \cup [kind : {"result"}, ok : BOOLEAN, pruned : BOOLEAN]

(* An id in use is never one that is still to be handed out. *)
VerdictTypeOK ==
    /\ log \in Seq(LogRows)
    /\ nextTurn \in 1 .. MaxTurnId + 1
    /\ turn \in 0 .. nextTurn - 1
    /\ restarts \in 0 .. MaxRestarts
    /\ asked \in Texts
    /\ progress \in BOOLEAN

(* A continuation is refunded for work of its own and no other: whatever   *)
(* ids earlier processes used and whatever was pruned meanwhile,           *)
(* made_progress finds what this turn did.                                 *)
ProgressOfThisTurn == turn # 0 => (MadeProgress(log, turn) <=> progress)

(* Within the process that opened the log, a turn is audited against what  *)
(* the person asked last, however many machine turns and steers ago.       *)
ObjectiveInOneRun == turn # 0 /\ restarts = 0 => Objective(log, turn) = asked

-----------------------------------------------------------------------------
(* A property the sources state and the code does not keep (see README).   *)

(* objective "keeps the last user message that opened a turn with human    *)
(* authority - the thing the person actually asked for".                   *)
ObjectiveIsLatest == turn # 0 => Objective(log, turn) = asked
=============================================================================
