------------------------------ MODULE Catalogue ------------------------------
(***************************************************************************)
(* Which tools a session has: the markdown files of skills/, agents/ and   *)
(* commands/, the registry built from them when the backend starts         *)
(* (crates/backend/src/main.rs, crates/agents/src/registry.rs,             *)
(* md_skill.rs), the agent preset that narrows it (preset.rs, chat.rs),    *)
(* what a turn's request announces (prompt.rs, chat.rs) and what its       *)
(* dispatch runs, while the user and the model edit the files.             *)
(***************************************************************************)
EXTENDS Integers, FiniteSets

CONSTANTS
    Contents,     \* per path <<family, stem>>: the contents a file may get
    EditLimit,    \* bound: edits of files by the user
    StartLimit    \* bound: starts of the backend

VARIABLES
    files,        \* what is on disk
    registry,     \* SkillRegistry.by_name: what answers to a name
    preset,       \* ChatHub.presets of the session
    presetLog,    \* the latest AgentPreset event of its log
    replied,      \* the log holds an AssistantMessage
    working,      \* the running turn: the view and persona it resolved
    injected,     \* the body injected ahead of its message
    ranNow,       \* the call this turn dispatched last
    personas,     \* ghost: the presets replies were made under
    replaced,     \* ghost: stems the model wrote over
    edits, starts

catVars == <<files, registry, preset, presetLog, replied, working, injected, ranNow,
             personas, replaced, edits, starts>>

-----------------------------------------------------------------------------
(* Files.  A file is gone, does not parse, or has a frontmatter: its name, *)
(* disable-model-invocation and the skills: list.                          *)

GoneFile == [name |-> "", hidden |-> FALSE, tools |-> {}]
BrokenFile == [name |-> "?", hidden |-> FALSE, tools |-> {}]
OffFile == [name |-> ".off", hidden |-> FALSE, tools |-> {}]     \* renamed to *.md.off
Present(f) == f.name \notin {"", ".off"}
Readable(f) == f.name \notin {"", ".off", "?"}

RustSkills == {"run-cli", "skill-creator", "run-code", "ask-user"}
Controls == {"todo-write", "remember"}
NoAgent == "none"
NoWork == [view |-> {}, persona |-> NoAgent, mode |-> "none", told |-> {}]
Modes3 == {"text", "native", "ptc"}

(* Opt-in tools register when their doc is on disk.                        *)
OptIn == [n \in {"remember", "agent-team"} |->
            IF n = "remember" THEN <<"skills", "memory">> ELSE <<"skills", "agent-team">>]

Built(disk) ==
    RustSkills \cup {"todo-write"}
        \cup {n \in DOMAIN OptIn : OptIn[n] \in DOMAIN disk /\ Present(disk[OptIn[n]])}

(* register_all: a markdown skill never takes a name that is bound.        *)
Shadows(disk) ==                                                  \* mutant
    {disk[p] : p \in {q \in DOMAIN disk : q[1] = "skills" /\ Readable(disk[q])}}

RegisterIfAbsent(disk) ==
    {disk[p] : p \in {q \in DOMAIN disk : /\ q[1] = "skills" /\ Readable(disk[q])
                                          /\ disk[q].name \notin Built(disk)}}

(* The registry.  Of two files with one name the first read stays, and the *)
(* order of read_dir is not fixed.                                         *)
Registries(disk) ==
    LET docs == RegisterIfAbsent(disk)
        names == {d.name : d \in docs}
        kindOf(d) == IF d.hidden THEN "hidden" ELSE "markdown"
    IN  {[n \in Built(disk) \cup names |-> IF n \in DOMAIN pick THEN kindOf(pick[n]) ELSE "rust"] :
           pick \in {f \in [names -> docs] : \A n \in names : f[n].name = n}}

(* seed_defaults writes the docs and the preset that are missing.          *)
Seeds == [p \in {<<"skills", "run-cli">>, <<"skills", "memory">>, <<"agents", "reviewer">>} |->
            [name |-> p[2], hidden |-> FALSE, tools |-> IF p[1] = "agents" THEN {"run-cli"} ELSE {}]]
Seeded(disk) == [p \in DOMAIN disk |-> IF p \in DOMAIN Seeds /\ disk[p] = GoneFile THEN Seeds[p] ELSE disk[p]]

CatInit ==
    /\ files = Seeded([p \in DOMAIN Contents |-> GoneFile])
    /\ registry \in Registries(files)
    /\ preset = NoAgent /\ presetLog = NoAgent /\ replied = FALSE
    /\ working = NoWork /\ injected = "none" /\ ranNow = "none"
    /\ personas = {} /\ replaced = {} /\ edits = 0 /\ starts = 0

(* The user edits, creates or deletes a file at any time.                  *)
UserEditsFile ==
    /\ edits < EditLimit /\ edits' = edits + 1
    /\ \E p \in DOMAIN Contents : \E c \in Contents[p] \ {files[p]} : files' = [files EXCEPT ![p] = c]
    /\ UNCHANGED <<registry, preset, presetLog, replied, working, injected, ranNow, personas, replaced, starts>>

(* A start of the backend: seeds, registry, the selection from the log.    *)
BackendStarts ==
    /\ starts < StartLimit /\ starts' = starts + 1
    /\ files' = Seeded(files)
    /\ registry' \in Registries(files')
    /\ preset' = presetLog
    /\ working' = NoWork /\ injected' = "none" /\ ranNow' = "none"
    /\ UNCHANGED <<presetLog, replied, personas, replaced, edits>>

-----------------------------------------------------------------------------
(* Presets.                                                                *)

AgentFile(name) == IF <<"agents", name>> \in DOMAIN files THEN files[<<"agents", name>>] ELSE GoneFile

(* preset::load: the file is there, parses, and bears its own name.        *)
Loadable(name) == Readable(AgentFile(name)) /\ AgentFile(name).name = name

SelectUnchecked(name) == name = NoAgent \/ Loadable(name)         \* mutant
MaySelect(name) == (name = NoAgent \/ Loadable(name)) /\ (name # preset => ~replied)

(* set_session_agent: validated, refused once the session has a reply.     *)
Select(name) ==
    IF MaySelect(name) THEN preset' = name /\ presetLog' = name
    ELSE UNCHANGED <<preset, presetLog>>

SetSessionAgent(name) ==
    /\ Select(name)
    /\ UNCHANGED <<files, registry, replied, working, injected, ranNow, personas, replaced, edits, starts>>

RestrictedTo(names) == names \cap DOMAIN registry

(* preset::view: the listed skills and what a preset can never hide.       *)
ListedOnly(tools) == {n \in DOMAIN registry : n \in tools}         \* mutant
ViewOf(tools) ==
    IF tools = {} THEN DOMAIN registry
    ELSE RestrictedTo(tools \cup Controls \cup {"ask-user"})

-----------------------------------------------------------------------------
(* A turn: the typed /name, the agent, and what the request announces.     *)

Invocation(name) ==
    LET is(family) == <<family, name>> \in DOMAIN files /\ Readable(files[<<family, name>>])
    IN  IF is("commands") THEN "command"
        ELSE IF is("agents") THEN "agent"
        ELSE IF is("skills") THEN "skill" ELSE "none"

Offered(view) == {n \in view : registry[n] # "hidden"}
DirectCallable(n) == n \in Controls \cup {"run-code", "ask-user"}
Catalogued(view) == Offered(view) \ {"run-code"}
ToolsArray(view) == Offered(view)

(* Text: the catalogue in the prompt.  Native: the tools array.  PTC: the  *)
(* tools array of what may be called directly.                             *)
Announced(view, mode) ==
    CASE mode = "text" -> Catalogued(view)
      [] mode = "native" -> ToolsArray(view \ {"run-code"})
      [] mode = "ptc" -> ToolsArray({n \in view : DirectCallable(n)})

StartTurn(name, mode) ==
    /\ working = NoWork
    /\ LET kind == Invocation(name) IN
         /\ injected' = IF kind \in {"command", "skill"} THEN kind ELSE "none"
         /\ IF kind = "agent" THEN Select(name) ELSE UNCHANGED <<preset, presetLog>>
    /\ LET known == preset' # NoAgent /\ Loadable(preset')
           view == IF known THEN ViewOf(AgentFile(preset').tools) ELSE DOMAIN registry
       IN  working' = [view |-> view, persona |-> IF known THEN preset' ELSE NoAgent,
                       mode |-> mode, told |-> Announced(view, mode)]
    /\ ranNow' = "none"
    /\ UNCHANGED <<files, registry, replied, personas, replaced, edits, starts>>

(* Dispatch.  The text protocol resolves through the registry view; a      *)
(* native call is taken by name, and a control without asking the view.    *)
InRegistry(n) == n \in DOMAIN registry /\ registry[n] # "hidden"        \* mutant
Resolves(n) == n \in working.view /\ registry[n] # "hidden"
NativeTakes(n) == n \in Controls \/ n \in working.view

Dispatches(n) ==
    \/ working.mode = "text" /\ Resolves(n)
    \/ working.mode = "native" /\ NativeTakes(n)
    \/ working.mode = "ptc" /\ DirectCallable(n) /\ NativeTakes(n)

ModelCalls(n) ==
    /\ working # NoWork /\ Dispatches(n)
    /\ ranNow' = n
    /\ UNCHANGED <<files, registry, preset, presetLog, replied, working, injected, personas,
                   replaced, edits, starts>>

(* skill-creator: an existing file is kept, unless the call says overwrite *)
(* (an argument only the JSON form of a call carries).                     *)
ModelCreates(stem) ==
    /\ working # NoWork /\ Dispatches("skill-creator")
    /\ LET p == <<"skills", stem>>
           doc == [name |-> stem, hidden |-> FALSE, tools |-> {}]
       IN  \E overwrite \in {FALSE, working.mode = "native"} :
             /\ ~Present(files[p]) \/ overwrite
             /\ files' = [files EXCEPT ![p] = doc]
             /\ replaced' = IF Present(files[p]) THEN replaced \cup {stem} ELSE replaced
    /\ ranNow' = "skill-creator"
    /\ UNCHANGED <<registry, preset, presetLog, replied, working, injected, personas, edits, starts>>

Answers(ends) ==
    /\ working # NoWork
    /\ replied' = TRUE /\ personas' = personas \cup {working.persona}
    /\ working' = IF ends THEN NoWork ELSE working
    /\ UNCHANGED <<files, registry, preset, presetLog, injected, ranNow, replaced, edits, starts>>

CatNext ==
    \/ UserEditsFile \/ BackendStarts
    \/ \E n \in {p[2] : p \in DOMAIN Contents} \cup {NoAgent} : \E mode \in Modes3 : StartTurn(n, mode)
    \/ \E n \in {p[2] : p \in {q \in DOMAIN Contents : q[1] = "agents"}} \cup {NoAgent} : SetSessionAgent(n)
    \/ \E n \in DOMAIN registry \cup Controls : ModelCalls(n)
    \/ \E p \in {q \in DOMAIN Contents : q[1] = "skills"} : ModelCreates(p[2])
    \/ \E ends \in BOOLEAN : Answers(ends)

-----------------------------------------------------------------------------
(* A built-in stays itself: whatever files are written, by whom, and over  *)
(* any number of starts, its name answers with the Rust skill ("the file   *)
(* body must not shadow the real RunCli").                                 *)
BuiltinsStay == \A n \in RustSkills \cup {"todo-write"} : registry[n] = "rust"

(* What the text protocol runs was announced in the request of the same    *)
(* turn, though files and selection may have changed since ("the prompt    *)
(* can never advertise a skill the dispatcher would refuse", and the other *)
(* way round).  run-code stays callable, for the human's /run-code.        *)
TextRunsOffered ==
    working.mode = "text" => /\ ranNow \in working.told \cup {"run-code", "none"}
                             /\ \A n \in working.told : Dispatches(n)

(* No preset takes the harness's own controls from a turn.                 *)
ControlsReachable ==
    working # NoWork => (Controls \cup {"ask-user"}) \cap DOMAIN registry \subseteq working.view

(* Files add tools and take none of the harness's own away.                *)
CatalogueSound == BuiltinsStay /\ TextRunsOffered /\ ControlsReachable

(* Once a session has a reply its agent never changes again, by a request, *)
(* a typed name or a restart.                                              *)
AgentFixed == [][replied => preset' = preset]_catVars

(* Refuted: "A skill the model was never offered cannot be called by it,   *)
(* whatever name it guessed" - a native call is looked up by name without  *)
(* the check, and a control that is switched off is still handled.         *)
OnlyOffered == working # NoWork => ranNow \in working.told \cup {"run-code", "none"}

(* Refuted: a change of agent "leaves the earlier half of the transcript   *)
(* answering to rules that are no longer in force" - the first turn is     *)
(* still without a reply while it runs, so a selection made meanwhile is   *)
(* accepted and takes the next turn.                                       *)
OneAgent == edits = 0 => Cardinality(personas) <= 1

(* Refuted: "An existing skills/<name>.md is never overwritten".           *)
CreatorKeeps == replaced = {}
=============================================================================
