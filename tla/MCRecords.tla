------------------------------ MODULE MCRecords ------------------------------
(***************************************************************************)
(* What is read back: a history from the log, the log from its file, a     *)
(* turn by its id, the reader's views of a log, a call from a reply, a     *)
(* tool's output from its files.                                           *)
(* The modules share no state: each behaviour is one of one part, chosen   *)
(* at the start, with the others at rest in their initial state.           *)
(***************************************************************************)
EXTENDS Surface, SessionStore, Verdict, CallSyntax, ToolOutput, Projections

VARIABLE part

allVars == <<surfaceVars, storeVars, verdictVars, syntaxVars, outVars, projVars>>

Init ==
    /\ part \in {"surface", "store", "verdict", "syntax", "output", "views"}
    /\ SurfaceInit /\ StoreInit /\ VerdictInit /\ SyntaxInit /\ OutInit /\ ProjInit
    /\ part # "store" => gen = "current" /\ toml = "none"
    /\ part # "views" => room = CHOOSE r \in Rooms : TRUE

SurfacePart ==
    /\ part = "surface" /\ SurfaceNext
    /\ UNCHANGED <<part, storeVars, verdictVars, syntaxVars, outVars, projVars>>

StorePart ==
    /\ part = "store" /\ StoreNext
    /\ UNCHANGED <<part, surfaceVars, verdictVars, syntaxVars, outVars, projVars>>

VerdictPart ==
    /\ part = "verdict" /\ VerdictNext
    /\ UNCHANGED <<part, surfaceVars, storeVars, syntaxVars, outVars, projVars>>

SyntaxPart ==
    /\ part = "syntax" /\ SyntaxNext
    /\ UNCHANGED <<part, surfaceVars, storeVars, verdictVars, outVars, projVars>>

OutputPart ==
    /\ part = "output" /\ OutNext
    /\ UNCHANGED <<part, surfaceVars, storeVars, verdictVars, syntaxVars, projVars>>

ViewsPart ==
    /\ part = "views" /\ ProjNext
    /\ UNCHANGED <<part, surfaceVars, storeVars, verdictVars, syntaxVars, outVars>>

Next ==
    \/ SurfacePart \/ StorePart \/ VerdictPart
    \/ SyntaxPart \/ OutputPart \/ ViewsPart

Spec == Init /\ [][Next]_<<part, allVars>>

ArgText(n) == UNION {[1 .. k -> {"x", "'", "\\", "nl", " "}] : k \in 0 .. n}
MCArgLists == {<<<<" ", ">", " ">>>>} \cup {<<a>> : a \in ArgText(3)} \cup {<<a, b>> : a, b \in ArgText(1)}
MCLeads == {<<>>, <<"s", " ", "x", "nl">>, <<"u", " ", "x", " ", ">", " ", "x", "nl">>}

MCPrints ==
    UNION {[1 .. n -> {1, 2}] : n \in 0 .. 3}
    \cup {<<1, 1, 1, 1>>, <<2, 2, 2, 2>>, <<1, 1, 1, 1, 1>>, <<2, 1, 2, 2, 2>>, <<1, 1, 2, 2, 2, 2>>}

(* Two members that share label and phase; turns with a restart between,   *)
(* and a run with its tasks.                                               *)
MCLabelOf == [m \in 1 .. 2 |-> "scout"]
MCPhaseOf == [m \in 1 .. 2 |-> "search"]
MCRooms == {[rows |-> 7, runs |-> 0, restarts |-> 1], [rows |-> 4, runs |-> 1, restarts |-> 0]}

(* The history the model gets holds one runtime snapshot, and a compaction *)
(* splits it where no tool call is parted from its result.                 *)
SurfaceSound == SurfaceTypeOK /\ OneSnapshot /\ SplitKeepsPairs

(* After any crash the log is loaded without what no flush had confirmed   *)
(* and with everything older, and a file of another format is left alone.  *)
StoreSound == StoreTypeOK /\ CleanRestart /\ LossBounded /\ OldLeftAlone

(* The completion check judges the turn it belongs to: its progress and    *)
(* its objective are those of this turn and this run.                      *)
VerdictSound == VerdictTypeOK /\ ProgressOfThisTurn /\ ObjectiveInOneRun

(* A call written by the model is read as it was meant, and what a tool    *)
(* printed is shown, on disk where the result says, or reported as cut.    *)
ToolTextSound == SyntaxSound /\ OutputsSound
=============================================================================
