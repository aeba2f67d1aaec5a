--------------------------------- MODULE Mcp ---------------------------------
(***************************************************************************)
(* The MCP client (agents/mcp.rs): at start the backend connects to every  *)
(* configured server in turn, registers the tools each one lists, and      *)
(* later calls go to the server that listed the tool.  A server is another *)
(* program: it may not start, may fail or say nothing, and may die or      *)
(* answer late while a call waits.                                         *)
(*                                                                         *)
(* A remote tool's name is a sequence of characters; "!" stands for every  *)
(* character outside the function-name charset.                            *)
(***************************************************************************)
EXTENDS Integers, Sequences, SequencesExt, FiniteSetsExt

CONSTANTS
    McpFiles,         \* the files of sica-settings/mcp, by name: stem, state
    ToolLists,        \* what a server may list
    ConnectTimeout, CallTimeLimit,   \* CONNECT_TIMEOUT, CALL_TIMEOUT
    McpCallBound      \* bound: tool calls

(* There is a file (without any the backend connects to nothing); files of *)
(* one directory differ by name, and a list is a sequence.                 *)
ASSUME McpAssumption ==
    /\ Len(McpFiles) \in Nat \ {0} /\ DOMAIN McpFiles = 1 .. Len(McpFiles)
    /\ \A i \in DOMAIN McpFiles : McpFiles[i].state \in {"malformed", "disabled", "enabled"}
    /\ \A i, j \in DOMAIN McpFiles : McpFiles[i].stem = McpFiles[j].stem => i = j
    /\ \A l \in ToolLists : Len(l) \in Nat /\ DOMAIN l = 1 .. Len(l)
    /\ ConnectTimeout \in Nat

VARIABLES
    loadAt,           \* "spawn", "init", "list": where connect is; "up": load_all returned
    nextFile,         \* the file load_all is at
    mcpClock,         \* time since connect's last await began
    connectTime,      \* history: time connect took for this server
    mcpTools,         \* LoadReport.tools
    mcpWarnings, mcpServers,
    registered,       \* the registry's mcp__ entries, by name
    serversUp,        \* servers whose process lives
    mcpCall,          \* the call that waits, and where it went
    mcpAnswer, mcpCalls

mcpVars == <<loadAt, nextFile, mcpClock, connectTime, mcpTools, mcpWarnings, mcpServers, registered,
             serversUp, mcpCall, mcpAnswer, mcpCalls>>
loadVars == <<loadAt, nextFile, connectTime, mcpTools, mcpWarnings, mcpServers, registered>>
mcpCallVars == <<registered, mcpCall, mcpAnswer, mcpCalls>>

NoMcpCall == [server |-> "", remote |-> <<>>, as |-> <<>>]

McpInit ==
    /\ loadAt = "spawn" /\ nextFile = 1 /\ mcpClock = 0 /\ connectTime = 0
    /\ mcpTools = <<>> /\ mcpWarnings = {} /\ mcpServers = {} /\ registered = {}
    /\ serversUp = {} /\ mcpCall = NoMcpCall /\ mcpAnswer = "none" /\ mcpCalls = 0

Clean(s) == [i \in DOMAIN s |-> IF s[i] = "!" THEN "_" ELSE s[i]]
ToolName(server, tool) == <<server>> \o Clean(tool)

(* main: of two tools with one name the registry keeps the later. *)
RegisterAll(tools) ==
    {tools[i] : i \in {j \in DOMAIN tools :
                          \A k \in j + 1 .. Len(tools) : ToolName(tools[k].server, tools[k].remote)
                                                # ToolName(tools[j].server, tools[j].remote)}}

(* load_all goes on to the next file; after the last one the backend       *)
(* registers and serves.                                                   *)
OnToNext(tools) ==
    /\ nextFile' = nextFile + 1 /\ mcpClock' = 0 /\ connectTime' = 0 /\ mcpTools' = tools
    /\ IF nextFile = Len(McpFiles)
       THEN loadAt' = "up" /\ registered' = RegisterAll(tools)
       ELSE loadAt' = "spawn" /\ UNCHANGED registered
    /\ UNCHANGED <<mcpCall, mcpAnswer, mcpCalls>>

File == McpFiles[nextFile]

ReadsFile ==
    /\ loadAt = "spawn" /\ File.state \in {"malformed", "disabled"}
    /\ mcpWarnings' = mcpWarnings \cup (IF File.state = "malformed" THEN {File.stem} ELSE {})
    /\ OnToNext(mcpTools) /\ UNCHANGED <<mcpServers, serversUp>>

SpawnsServer ==
    /\ loadAt = "spawn" /\ File.state = "enabled"
    /\ loadAt' = "init" /\ mcpClock' = 0 /\ serversUp' = serversUp \cup {File.stem}
    /\ UNCHANGED <<nextFile, connectTime, mcpTools, mcpWarnings, mcpServers, mcpCallVars>>

ServerInitialises ==
    /\ loadAt = "init" /\ File.stem \in serversUp /\ loadAt' = "list" /\ mcpClock' = 0
    /\ UNCHANGED <<nextFile, connectTime, mcpTools, mcpWarnings, mcpServers, serversUp, mcpCallVars>>

ServerLists(tools) ==
    /\ loadAt = "list" /\ File.stem \in serversUp
    /\ mcpServers' = mcpServers \cup {File.stem}
    /\ OnToNext(mcpTools \o [i \in DOMAIN tools |-> [server |-> File.stem, remote |-> tools[i]]])
    /\ UNCHANGED <<mcpWarnings, serversUp>>

(* A command that will not start, an error of the server, or its silence:  *)
(* a warning, and the transport that is dropped ends the process.          *)
ConnectFailsQuietly ==
    /\ \/ loadAt = "spawn" /\ File.state = "enabled"
       \/ loadAt \in {"init", "list"}
    /\ serversUp' = serversUp \ {File.stem}
    /\ OnToNext(mcpTools) /\ UNCHANGED <<mcpWarnings, mcpServers>>

ConnectFails ==
    /\ \/ loadAt = "spawn" /\ File.state = "enabled"
       \/ loadAt \in {"init", "list"}
    /\ mcpWarnings' = mcpWarnings \cup {File.stem} /\ serversUp' = serversUp \ {File.stem}
    /\ OnToNext(mcpTools) /\ UNCHANGED mcpServers

(* Time passes while an await is pending; its timeout ends it. *)
McpTimePasses ==
    /\ \/ loadAt \in {"init", "list"} /\ mcpClock < ConnectTimeout /\ connectTime' = connectTime + 1
       \/ mcpCall # NoMcpCall /\ mcpClock < CallTimeLimit /\ UNCHANGED connectTime
    /\ mcpClock' = mcpClock + 1
    /\ UNCHANGED <<loadAt, nextFile, mcpTools, mcpWarnings, mcpServers, serversUp, mcpCallVars>>

CallsTool(t) ==
    /\ loadAt = "up" /\ t \in registered /\ mcpCall = NoMcpCall /\ mcpCalls < McpCallBound
    /\ mcpCall' = [server |-> t.server, remote |-> t.remote, as |-> ToolName(t.server, t.remote)]
    /\ mcpCalls' = mcpCalls + 1 /\ mcpClock' = 0 /\ mcpAnswer' = "none"
    /\ UNCHANGED <<loadVars, serversUp>>

(* Text blocks, or the name of what was left out: never nothing. *)
RenderContent(blocks) ==
    CASE blocks = "text" -> "text" [] blocks = "image" -> "omitted" [] OTHER -> "no content"

CallEnds(answer) ==
    /\ mcpAnswer' = answer /\ mcpCall' = NoMcpCall /\ mcpClock' = 0
    /\ UNCHANGED <<loadVars, serversUp, mcpCalls>>

CallAnswered(blocks) ==
    /\ mcpCall # NoMcpCall /\ mcpCall.server \in serversUp /\ CallEnds(RenderContent(blocks))

(* The transport's error when the server is gone, the tool's own error,    *)
(* or the timeout.                                                         *)
CallFails == mcpCall # NoMcpCall /\ CallEnds("failed")

ServerDies(s) ==
    /\ s \in serversUp /\ serversUp' = serversUp \ {s}
    /\ UNCHANGED <<loadVars, mcpClock, mcpCall, mcpAnswer, mcpCalls>>

McpNext ==
    \/ ReadsFile \/ SpawnsServer \/ ServerInitialises \/ ConnectFails \/ McpTimePasses \/ CallFails
    \/ \E tools \in ToolLists : ServerLists(tools)
    \/ \E t \in registered : CallsTool(t)
    \/ \E blocks \in {"text", "image", "none"} : CallAnswered(blocks)
    \/ \E s \in serversUp : ServerDies(s)
----------------------------------------------------------------------------
(* One bad server hides no other, and none goes missing in silence: when   *)
(* the backend serves, every file was skipped on purpose, warned about or  *)
(* connected with its tools, and a registered name leads to one tool.      *)
EveryServerAccounted ==
    loadAt = "up" =>
        /\ \A i \in DOMAIN McpFiles : McpFiles[i].state = "disabled" <=> McpFiles[i].stem \notin mcpWarnings \cup mcpServers
        /\ mcpWarnings \cap mcpServers = {}
        /\ \A t, u \in registered : ToolName(t.server, t.remote) = ToolName(u.server, u.remote) => t = u
        /\ \A i \in DOMAIN mcpTools :
              \E t \in registered : ToolName(t.server, t.remote)
                                    = ToolName(mcpTools[i].server, mcpTools[i].remote)

(* No server can hold the backend's start for ever: each is given up after *)
(* two timeouts.                                                           *)
StartBounded == connectTime <= 2 * ConnectTimeout

(* Servers neither vanish in silence nor hold up the start.                *)
McpSound == EveryServerAccounted /\ StartBounded

(* "How long a server gets to start up and answer tools/list" is           *)
(* CONNECT_TIMEOUT (mcp.rs).                                               *)
OneTimeout == connectTime <= ConnectTimeout

(* "the agent comes up with the tools it does have" (mcp.rs): every listed *)
(* tool can be called.                                                     *)
AllListedCallable == loadAt = "up" => \A i \in DOMAIN mcpTools : mcpTools[i] \in registered
=============================================================================
