------------------------------ MODULE MCDesktop ------------------------------
(***************************************************************************)
(* What the window shows and sends, and the two drivers that measure the   *)
(* agent: replay and model evaluation.                                     *)
(* The modules share no state: each behaviour is one of one part, chosen   *)
(* at the start, with the others at rest in their initial state.           *)
(***************************************************************************)
EXTENDS Mirror, Ledger, Workspaces, Composer, Replay, Evaluation, TLC

VARIABLE part

allVars == <<mirrorVars, ledgerVars, wsVars, composerVars, replayVars, evalVars>>

Init ==
    /\ part \in {"mirror", "ledger", "workspaces", "composer", "replay", "evaluation"}
    /\ MirrorInit /\ LedgerInit /\ WsInit /\ ComposerInit
    /\ ReplayInit /\ EvalInit
    /\ part # "mirror" => active = CHOOSE t \in Tabs : TRUE
    /\ part # "ledger" => openBook = CHOOSE b \in Books : TRUE
    /\ part # "composer" => busyEnter = "queue"
    /\ part # "replay" => overrides = <<>> /\ pad = 0 /\ drift = "none" /\ Len(toSend) = 1

MirrorPart ==
    /\ part = "mirror" /\ MirrorNext
    /\ UNCHANGED <<part, ledgerVars, wsVars, composerVars, replayVars, evalVars>>

LedgerPart ==
    /\ part = "ledger" /\ LedgerNext
    /\ UNCHANGED <<part, mirrorVars, wsVars, composerVars, replayVars, evalVars>>

WorkspacesPart ==
    /\ part = "workspaces" /\ WsNext
    /\ UNCHANGED <<part, mirrorVars, ledgerVars, composerVars, replayVars, evalVars>>

ComposerPart ==
    /\ part = "composer" /\ ComposerNext
    /\ UNCHANGED <<part, mirrorVars, ledgerVars, wsVars, replayVars, evalVars>>

ReplayPart ==
    /\ part = "replay" /\ ReplayNext
    /\ UNCHANGED <<part, mirrorVars, ledgerVars, wsVars, composerVars, evalVars>>

EvaluationPart ==
    /\ part = "evaluation" /\ EvalNext
    /\ UNCHANGED <<part, mirrorVars, ledgerVars, wsVars, composerVars, replayVars>>

Next ==
    \/ MirrorPart \/ LedgerPart \/ WorkspacesPart \/ ComposerPart
    \/ ReplayPart \/ EvaluationPart

Spec == Init /\ [][Next]_<<part, allVars>>

MCRestored == 1 :> [cwd |-> "p", archived |-> FALSE] @@ 2 :> [cwd |-> "p", archived |-> FALSE]

MCLiveReplies == {Message("a", "none"), Message("b", "none"), Message("a", "date"), Message("b", "big")}
Injected(before, kind) == [before |-> before, kind |-> kind]
MCOverrideFiles ==
    {<<>>, <<Injected(0, "empty"), Injected(1, "error")>>, <<Injected(1, "fatal")>>,
     <<Injected(1, "hang")>>, <<Injected(0, "hang")>>}

EvalCase(id, tools, noTool, judge) ==
    [id |-> id, category |-> "c", tools |-> tools, requires |-> TRUE, minArgs |-> 1, noTool |-> noTool,
     single |-> TRUE, needle |-> FALSE, maxWords |-> 2, judge |-> judge]
ReplyOf(called, shaped, expects, count, words) ==
    [call |-> called, shaped |-> shaped, json |-> FALSE, expects |-> expects, args |-> 1,
     calls |-> count, needle |-> FALSE, words |-> words]
MCSuites ==
    {[name |-> <<100>>, repeats |-> 2,
      cases |-> <<EvalCase("c1", {"t"}, FALSE, FALSE), EvalCase("c2", {}, TRUE, TRUE)>>],
     [name |-> <<100, 101>>, repeats |-> 1,
      cases |-> <<EvalCase("c3", {}, FALSE, TRUE), EvalCase("c4", {}, FALSE, TRUE),
                  EvalCase("c5", {}, FALSE, FALSE)>>],
     [name |-> <<100>>, repeats |-> 2,
      cases |-> <<EvalCase("c1", {}, FALSE, FALSE), EvalCase("c1", {}, FALSE, FALSE)>>]}
MCReplies ==
    {ReplyOf("t", FALSE, TRUE, 1, 2), ReplyOf("none", FALSE, FALSE, 0, 1), ReplyOf("none", TRUE, FALSE, 2, 3)}

(* The window shows what the backend holds once everything sent has        *)
(* arrived: the queue of the session in front and the busy marks, the rows *)
(* of the trajectory view, the sidebar.                                    *)
ViewsSound == ScreenSettles /\ LedgerFaithful /\ SidebarIsTrue
=============================================================================
