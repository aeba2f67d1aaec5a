-------------------------------- MODULE MCHub --------------------------------
(***************************************************************************)
(* Session state, reminders, the provider and the failure queue of the backend. *)
(* The modules share no state: each behaviour is one of one part, chosen   *)
(* at the start, with the others at rest in their initial state.           *)
(***************************************************************************)
EXTENDS Goal, Settings, Schedule, Connection, Stream, Investigator, LongTerm

VARIABLE part

allVars == <<goalVars, settingsVars, schedVars, connVars, streamVars, investVars, longVars>>

Init ==
    /\ part \in {"goal", "settings", "schedule", "connection", "stream", "investigator", "longterm"}
    /\ GoalInit /\ SettingsInit /\ ScheduleInit /\ ConnInit
    /\ StreamInit /\ InvestInit /\ LongTermInit
    /\ part # "stream" => said = CHOOSE t \in StreamTexts : TRUE

GoalPart ==
    /\ part = "goal" /\ GoalNext
    /\ UNCHANGED <<part, settingsVars, schedVars, connVars, streamVars, investVars, longVars>>

SettingsPart ==
    /\ part = "settings" /\ SettingsNext
    /\ UNCHANGED <<part, goalVars, schedVars, connVars, streamVars, investVars, longVars>>

SchedulePart ==
    /\ part = "schedule" /\ ScheduleNext
    /\ UNCHANGED <<part, goalVars, settingsVars, connVars, streamVars, investVars, longVars>>

ConnectionPart ==
    /\ part = "connection" /\ ConnNext
    /\ UNCHANGED <<part, goalVars, settingsVars, schedVars, streamVars, investVars, longVars>>

StreamPart ==
    /\ part = "stream" /\ StreamNext
    /\ UNCHANGED <<part, goalVars, settingsVars, schedVars, connVars, investVars, longVars>>

InvestigatorPart ==
    /\ part = "investigator" /\ InvestNext
    /\ UNCHANGED <<part, goalVars, settingsVars, schedVars, connVars, streamVars, longVars>>

LongtermPart ==
    /\ part = "longterm" /\ LongTermNext
    /\ UNCHANGED <<part, goalVars, settingsVars, schedVars, connVars, streamVars, investVars>>

Next ==
    \/ GoalPart \/ SettingsPart \/ SchedulePart \/ ConnectionPart
    \/ StreamPart \/ InvestigatorPart \/ LongtermPart

Spec == Init /\ [][Next]_<<part, allVars>>

(* Every text of at most three of the characters the splitter tells apart, *)
(* and three longer ones with whole tags.                                  *)
MCStreamTexts ==
    UNION {[1 .. n -> {"<", "t", "/", ">"}] : n \in 0 .. 3}
    \cup {<<"<", "t", ">", "a", "<", "/", "t", ">", "a">>,
          <<"a", "<", "<", "t", ">", "a", "<", "/", "t", ">", "<">>,
          <<"a", "<", "/", "t", ">", "a", "<", "t">>}
MCAlike == {<<"f", "f2">>, <<"f2", "f">>}

(* A session's goal and settings are the ones last set, wherever a restart *)
(* falls.  As long as no two writers met inside put_goal the copies of a   *)
(* goal agree when no write is under way, it opens no round past its       *)
(* budget, and what the person armed stays armed, unless a turn that was   *)
(* stopped before they said continue ends after it.  A changed setting is  *)
(* found again after a restart unless the code let its map and its rows    *)
(* differ (`doubtful`), and a name given after a message outlives the      *)
(* titler.                                                                 *)
SessionStateKept ==
    /\ GoalCopiesAgree /\ RoundsWithinBudget /\ ContinueKept
    /\ SettingsSurviveRestart /\ RenameAfterSendSticks

(* A due reminder starts no second turn for one due time, and what the hub *)
(* holds of the schedules is what the log's rows say.                      *)
RemindersSound == RemindersOnce /\ ActiveIsLogged

(* What the hub announces as connected is installed, and a reply is the    *)
(* same however the server cuts it into pieces.                            *)
ProviderSound == ReadyIsInstalled /\ ChunkingInvisible /\ CompleteIsWhole

(* A failure recorded while an investigation runs stays to be looked at,   *)
(* and a ticket shown as under investigation is in someone's hands.        *)
InvestigatorSound == FailureStaysPending /\ InvestigatingInHand
=============================================================================
