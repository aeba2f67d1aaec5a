------------------------------ MODULE Settings ------------------------------
(***************************************************************************)
(* The settings and the title of one session (crates/backend/src/chat.rs): *)
(* permission mode, plan mode, agent preset and approval policy live in a  *)
(* map of the hub and in the log, the map first and the row after an       *)
(* await; a restart folds the rows back.  A turn changes two of them itself: *)
(* exit-plan-mode, and an agent its message names.  The title lives in the *)
(* log only and has three writers: the person, the send that opens the first turn,  *)
(* and the titler spawned after it.                                        *)
(* A setting is 0 (the default) or 1.                                      *)
(***************************************************************************)
EXTENDS Integers, FiniteSets

CONSTANTS
    OffBound,     \* bound: settings changed away from their default
    SendBound,    \* bound: user messages
    ReloadBound   \* bound: restarts and forks

SettingKeys == {"permission", "plan", "preset", "approval"}
SettingActors == {"user", "turn"}

VARIABLES
    setting,     \* the hub's maps
    settingRow,  \* what a fold of the log restores
    cutRow,      \* what a fold up to the last TurnEnd restores
    change,      \* a setting each actor has changed and not yet logged
    typed,       \* who started a turn whose `/name` is not dealt with: the
                 \* dispatcher ("user"), a spawned task ("turn") or "none"
    inTurn, asking, replied, \* a turn runs; its plan waits for an answer; it has answered
    title,       \* log.title()
    provisional, \* provisional_title of the running turn
    titler,      \* "none" or "asking" the model
    titledBy,    \* provisional_title of the spawned titler
    sends, reloads,
    (* history, read by the properties only *)
    doubtful,    \* settings whose two copies the code lets differ
    pinned       \* the person gave it a new name after the last send

titleVars == <<title, provisional, titler, titledBy, sends, pinned>>
modeVars == <<setting, settingRow, change, typed, asking, doubtful>>
settingsVars == <<modeVars, cutRow, inTurn, replied, titleVars, reloads>>

NoChange == [key |-> "none", value |-> 0]
Zero == [k \in SettingKeys |-> 0]

SettingsInit ==
    /\ setting = Zero /\ settingRow = Zero /\ cutRow = Zero
    /\ change = [a \in SettingActors |-> NoChange] /\ typed = "none"
    /\ inTurn = FALSE /\ asking = FALSE /\ replied = FALSE
    /\ title = "default" /\ provisional = "default"
    /\ titler = "none" /\ titledBy = "default"
    /\ sends = 0 /\ reloads = 0
    /\ doubtful = {} /\ pinned = FALSE

-----------------------------------------------------------------------------
(* Modes: the map first, the row after an await *)

Off == {k \in SettingKeys : setting[k] = 1 \/ settingRow[k] = 1 \/ cutRow[k] = 1}

(* The map entry; the row an actor owes.  A row still owed by the other    *)
(* actor for the same setting may now land last.                           *)
Changes(a, k, v) ==
    /\ change[a] = NoChange
    /\ Cardinality(Off \cup {k}) <= OffBound
    /\ setting' = [setting EXCEPT ![k] = v]
    /\ change' = [change EXCEPT ![a] = [key |-> k, value |-> v]]
    /\ doubtful' = IF \E b \in SettingActors \ {a} : change[b].key = k
                   THEN doubtful \cup {k} ELSE doubtful \ {k}
    /\ UNCHANGED <<settingRow, typed, cutRow, replied, inTurn, titleVars, reloads>>

(* The dispatcher waits for the requests it handles, a send included until *)
(* the turn is started.                                                    *)
DispatcherFree == change["user"] = NoChange /\ typed # "user"

SetPermissionMode(v) ==
    /\ DispatcherFree
    /\ setting["permission"] # v
    /\ Changes("user", "permission", v)
    /\ UNCHANGED asking

SetPlanMode(v) ==
    /\ DispatcherFree
    /\ setting["plan"] # v
    /\ Changes("user", "plan", v)
    /\ UNCHANGED asking

(* The agent is fixed once the session has produced a reply. *)
SelectAgent(a, v) ==
    /\ setting["preset"] # v
    /\ ~replied
    /\ Changes(a, "preset", v)
    /\ UNCHANGED asking

(* /agent, and the palette's row *)
SetSessionAgent(v) == DispatcherFree /\ SelectAgent("user", v)

(* start_turn, after the message is logged: the agent a typed `/name` is.  *)
(* A refusal never stops the turn.                                         *)
TypedAgent ==
    /\ typed # "none" /\ change["turn"] = NoChange
    /\ \/ SelectAgent("turn", 1)
       \/ /\ setting["preset"] = 1 \/ replied
          /\ typed' = "none"
          /\ UNCHANGED <<setting, settingRow, cutRow, change, asking, doubtful, inTurn, replied, titleVars, reloads>>

(* /approval never | ask *)
CommandApproval(v) ==
    /\ DispatcherFree
    /\ Changes("user", "approval", v)
    /\ UNCHANGED asking

(* Bare /approval only reports, but its Command row is an `ok` row whose   *)
(* input is not "never", which is what approval_never_state looks for.     *)
QueryApproval ==
    /\ DispatcherFree
    /\ change' = [change EXCEPT !["user"] = [key |-> "approval", value |-> 0]]
    /\ doubtful' = IF setting["approval"] = 1 THEN doubtful \cup {"approval"} ELSE doubtful
    /\ UNCHANGED <<setting, settingRow, cutRow, typed, asking, replied, inTurn, titleVars, reloads>>

(* exit-plan-mode: refused outside plan mode; the person's answer finds    *)
(* whatever mode the session is in by then.                                *)
ExitPlanAsk ==
    /\ inTurn /\ typed = "none" /\ ~asking /\ change["turn"] = NoChange
    /\ setting["plan"] = 1
    /\ asking' = TRUE
    /\ UNCHANGED <<setting, settingRow, cutRow, change, typed, doubtful, inTurn, replied, titleVars, reloads>>

ExitPlanApproved ==
    /\ asking
    /\ asking' = FALSE
    /\ Changes("turn", "plan", 0)

ExitPlanRefused ==
    /\ asking
    /\ asking' = FALSE
    /\ UNCHANGED <<setting, settingRow, cutRow, change, typed, doubtful, inTurn, replied, titleVars, reloads>>

NotLoggedByTurn(a) ==
    /\ change[a] # NoChange
    /\ settingRow' = IF a = "turn" THEN settingRow
                     ELSE [settingRow EXCEPT ![change[a].key] = change[a].value]
    /\ change' = [change EXCEPT ![a] = NoChange]
    /\ typed' = IF a = "turn" THEN "none" ELSE typed
    /\ UNCHANGED <<setting, cutRow, asking, doubtful, inTurn, replied, titleVars, reloads>>

(* append_event of the row; control_state and approval_never_state take    *)
(* the newest one.                                                         *)
LogSetting(a) ==
    /\ change[a] # NoChange
    /\ settingRow' = [settingRow EXCEPT ![change[a].key] = change[a].value]
    /\ change' = [change EXCEPT ![a] = NoChange]
    /\ typed' = IF a = "turn" THEN "none" ELSE typed
    /\ UNCHANGED <<setting, cutRow, asking, doubtful, inTurn, replied, titleVars, reloads>>

-----------------------------------------------------------------------------
(* Title *)

(* start_turn: a placeholder title becomes the first words of the message. *)
(* The message may name an agent: then `by` is who started the turn, the   *)
(* dispatcher or, for a queued message, a spawned task.                    *)
Send(by) ==
    /\ by = "user" => change["user"] = NoChange
    /\ by = "turn" => sends > 0
    /\ ~inTurn
    /\ sends < SendBound
    /\ sends' = sends + 1
    /\ inTurn' = TRUE
    /\ title' = IF title = "default" THEN "words" ELSE title
    /\ provisional' = title'
    /\ pinned' = FALSE
    /\ typed' = by
    /\ UNCHANGED <<setting, settingRow, change, asking, doubtful, cutRow, replied, titler, titledBy, reloads>>

(* The turn answers and ends uncancelled: the first exchange is titled if  *)
(* the title is the one its send left.                                     *)
EndReplied ==
    /\ inTurn /\ typed = "none" /\ ~asking /\ change["turn"] = NoChange
    /\ inTurn' = FALSE
    /\ replied' = TRUE
    /\ cutRow' = settingRow
    /\ IF sends = 1 /\ title = provisional
       THEN titler' = "asking" /\ titledBy' = provisional
       ELSE UNCHANGED <<titler, titledBy>>
    /\ UNCHANGED <<modeVars, title, provisional, sends, pinned, reloads>>

EndStopped ==
    /\ inTurn /\ typed = "none" /\ change["turn"] = NoChange
    /\ inTurn' = FALSE
    /\ asking' = FALSE
    /\ cutRow' = settingRow
    /\ UNCHANGED <<setting, settingRow, change, typed, doubtful, replied, titleVars, reloads>>

LandsUnchecked ==
    /\ titler = "asking"
    /\ titler' = "none"
    /\ title' = "model"
    /\ UNCHANGED <<modeVars, cutRow, inTurn, replied, provisional, titledBy, sends, pinned, reloads>>

(* The titler's answer, if any, under the sessions lock. *)
TitlerLands ==
    /\ titler = "asking"
    /\ titler' = "none"
    /\ title' = IF title = titledBy THEN "model" ELSE title
    /\ UNCHANGED <<modeVars, cutRow, inTurn, replied, provisional, titledBy, sends, pinned, reloads>>

TitlerFails ==
    /\ titler = "asking"
    /\ titler' = "none"
    /\ UNCHANGED <<modeVars, cutRow, inTurn, replied, title, provisional, titledBy, sends, pinned, reloads>>

RenameSession ==
    /\ title' = "mine"
    /\ pinned' = (pinned \/ title # "mine")
    /\ UNCHANGED <<modeVars, cutRow, inTurn, replied, provisional, titler, titledBy, sends, reloads>>

-----------------------------------------------------------------------------
(* new_loaded: maps and flags come back from the rows. *)
SettingsRestart ==
    /\ reloads < ReloadBound
    /\ reloads' = reloads + 1
    /\ setting' = settingRow
    /\ change' = [a \in SettingActors |-> NoChange] /\ typed' = "none"
    /\ inTurn' = FALSE /\ asking' = FALSE
    /\ titler' = "none"
    /\ doubtful' = {}
    /\ UNCHANGED <<settingRow, cutRow, replied, title, provisional, titledBy, sends, pinned>>

(* fork_session copies the rows up to the last TurnEnd and mints a title;  *)
(* the hub's maps get no entry for the new session.  The fork is what is   *)
(* followed from here on.                                                  *)
ForkSession ==
    /\ reloads < ReloadBound
    /\ DispatcherFree
    /\ sends > (IF inTurn THEN 1 ELSE 0)
    /\ reloads' = reloads + 1
    /\ settingRow' = cutRow
    /\ setting' = Zero
    /\ change' = [a \in SettingActors |-> NoChange] /\ typed' = "none"
    /\ inTurn' = FALSE /\ asking' = FALSE
    /\ sends' = IF inTurn THEN sends - 1 ELSE sends
    /\ title' = "fork"
    /\ titler' = "none"
    /\ pinned' = FALSE
    /\ doubtful' = {k \in SettingKeys : cutRow[k] # 0}
    /\ UNCHANGED <<cutRow, replied, provisional, titledBy>>

SettingsNext ==
    \/ \E v \in {0, 1} : SetPermissionMode(v) \/ SetPlanMode(v) \/ SetSessionAgent(v) \/ CommandApproval(v)
    \/ QueryApproval \/ TypedAgent
    \/ ExitPlanAsk \/ ExitPlanApproved \/ ExitPlanRefused
    \/ \E a \in SettingActors : LogSetting(a)
    \/ \E by \in SettingActors \cup {"none"} : Send(by)
    \/ EndReplied \/ EndStopped
    \/ TitlerLands \/ TitlerFails \/ RenameSession
    \/ SettingsRestart \/ ForkSession

SettingsSpec == SettingsInit /\ [][SettingsNext]_settingsVars

-----------------------------------------------------------------------------
(* Properties *)

Settled == \A a \in SettingActors : change[a] = NoChange

(* With no change in flight a restart brings back every setting the        *)
(* session had, except the four cases in which the code lets map and log   *)
(* differ: the person and exit-plan-mode switched plan mode at once, the   *)
(* person changed the agent while a queued message that names one started, *)
(* bare /approval under "never", and a fork of a session with other modes. *)
SettingsSurviveRestart ==
    Settled => \A k \in SettingKeys \ doubtful : setting[k] = settingRow[k]

(* A new name the person gives a session after sending a message is never  *)
(* written over by the titler of that message, whichever lands last.       *)
RenameAfterSendSticks == pinned /\ sends > 0 => title = "mine"

(* rename_session: the auto-titler "only writes over the title it wrote    *)
(* itself".  Refuted: a name given before the first message is taken for   *)
(* the provisional title and written over.                                 *)
RenamePinsTitle == [][title = "mine" => title' # "model"]_settingsVars

(* "the latest /approval command decides, so a restart keeps it".  Refuted *)
(* by asking for the policy.                                               *)
ApprovalSurvives == Settled /\ reloads = 0 => setting["approval"] = settingRow["approval"]
=============================================================================
