------------------------------- MODULE MCTools -------------------------------
(***************************************************************************)
(* What the model's tool calls go through.                                 *)
(* The modules share no state: each behaviour is one of one part, chosen   *)
(* at the start, with the others at rest in their initial state.           *)
(***************************************************************************)
EXTENDS Calls, Jobs, Delegation, Hooks, Catalogue, Mcp, TLC

VARIABLE part

allVars == <<callVars, jobVars, delegVars, hookVars, catVars, mcpVars>>

Init ==
    /\ part \in {"calls", "jobs", "delegation", "hooks", "catalogue", "mcp"}
    /\ CallsInit /\ JobsInit /\ DelegInit /\ HooksInit
    /\ CatInit /\ McpInit
    /\ part # "calls" => policy = CHOOSE p \in [mode : Modes, plan : BOOLEAN, never : BOOLEAN] : TRUE
    /\ part # "delegation" => skill = CHOOSE s \in Skills : TRUE
    /\ part # "catalogue" => registry = CHOOSE r \in Registries(files) : TRUE

CallsPart ==
    /\ part = "calls" /\ CallsNext
    /\ UNCHANGED <<part, jobVars, delegVars, hookVars, catVars, mcpVars>>

JobsPart ==
    /\ part = "jobs" /\ JobsNext
    /\ UNCHANGED <<part, callVars, delegVars, hookVars, catVars, mcpVars>>

DelegationPart ==
    /\ part = "delegation" /\ DelegNext
    /\ UNCHANGED <<part, callVars, jobVars, hookVars, catVars, mcpVars>>

HooksPart ==
    /\ part = "hooks" /\ HooksNext
    /\ UNCHANGED <<part, callVars, jobVars, delegVars, catVars, mcpVars>>

CataloguePart ==
    /\ part = "catalogue" /\ CatNext
    /\ UNCHANGED <<part, callVars, jobVars, delegVars, hookVars, mcpVars>>

McpPart ==
    /\ part = "mcp" /\ McpNext
    /\ UNCHANGED <<part, callVars, jobVars, delegVars, hookVars, catVars>>

Next ==
    \/ CallsPart \/ JobsPart \/ DelegationPart \/ HooksPart
    \/ CataloguePart \/ McpPart

Spec == Init /\ [][Next]_<<part, allVars>>

H(id, on, matcher, kind) == [id |-> id, on |-> on, matcher |-> matcher, kind |-> kind, empty |-> FALSE]
MCHookFile ==
    <<H(1, "PreToolUse", "*", "command"), H(2, "PreToolUse", "t1", "command"),
      H(3, "unknown", "*", "command"), H(4, "PreToolUse", "bad", "command"),
      H(5, "PostToolUse", "*", "other"), H(6, "PostToolUse", "*", "command"),
      H(7, "UserPromptSubmit", "*", "command"), H(8, "SessionStart", "*", "command"),
      H(9, "SessionEnd", "*", "command")>>

MdFile(name, hidden) == [name |-> name, hidden |-> hidden, tools |-> {}]
MCContents ==
    <<"skills", "run-cli">> :> {GoneFile} @@ <<"skills", "memory">> :> {OffFile}
    @@ <<"skills", "m">> :> {MdFile("m", FALSE), MdFile("m", TRUE), MdFile("run-cli", FALSE)}
    @@ <<"agents", "reviewer">> :> {MdFile("reviewer", FALSE), MdFile("q", FALSE), BrokenFile}
    @@ <<"commands", "reviewer">> :> {MdFile("p", FALSE)}

McpFile(stem, state) == [stem |-> stem, state |-> state]
MCMcpFiles ==
    <<McpFile("m", "malformed"), McpFile("s1", "enabled"), McpFile("off", "disabled"), McpFile("s2", "enabled")>>
MCToolLists == {<<>>, <<<<"r">>, <<"r", "!">>>>, <<<<"r", "_">>, <<"r", "!">>>>}

(* No call that needs a yes runs without one, whatever the order of        *)
(* answer, timeout and stop, and every call row shown as started is closed *)
(* once.                                                                   *)
CallsSound == NothingUnapproved /\ RowsClose

(* A finished job is told to the session that started it, once, and its    *)
(* output is shown, spilled or reported as dropped.                        *)
JobsSound == EndsAreTold /\ OutputAccounted

(* What files, hooks and servers add to the tools takes nothing from the   *)
(* built-in ones: a broken one of them abstains, is warned about or        *)
(* leaves the others as they were.                                         *)
ExtensionsSound == CatalogueSound /\ HooksSound /\ McpSound
=============================================================================
