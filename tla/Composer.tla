------------------------------ MODULE Composer ------------------------------
(***************************************************************************)
(* The desktop's input area (crates/frontend/src/ui/chat: composer.rs,      *)
(* slash_menu.rs, at_menu.rs, control.rs, dock.rs): the draft and the rail  *)
(* of attachments, the two pickers that float above it, the fields of the   *)
(* dock, and the takeover by an approval or a question.  One step is one    *)
(* frame that saw one key, click or event.  A draft is an optional leading  *)
(* slash and a sequence of words, the caret at its end; glued says that no  *)
(* whitespace follows the last word.  The toolkit's focus rules (Escape     *)
(* and Enter take the focus off a single-line field and stay readable in    *)
(* that frame) are external.                                                *)
(***************************************************************************)
EXTENDS Integers, Sequences, SequencesExt, FiniteSets, Picked

CONSTANTS
    Words,      \* words the user may type, each once
    Images,     \* images the user may attach, each once
    Cards,      \* text files the user may attach, each once
    Marks,      \* what else the user may type: names and "@" tokens
    Options,    \* the options of a question
    DraftBound,    \* bound: words of a draft
    StepBound      \* bound: keys, clicks and events of a behaviour

VARIABLES
    draft,      \* chat.draft
    rail,       \* chat.pending_images
    palette,    \* chat.slash: the selection, dismissed, last_query
    picker,     \* chat.at: the same
    index,      \* chat.at: what the walk of the workspace has brought
    focus,      \* the field that has the keyboard
    ready,      \* the LLM is connected
    busyEnter,  \* the preference: Enter "queue"s or "steer"s
    lastRow,    \* the last transcript row: none, open, done, marker
    inHop, inRun, stopAsked,  \* streaming, running_sessions, interrupt_requested
    queueDock,  \* chat.queued, by row kind
    ask,        \* pending_approval or pending_question
    inputDeeds, \* history: what the last step did
    request,    \* history: the last text or answer sent
    madeItems, erasedItems, deliveries,  \* history, of words and attachments
    inputSteps  \* counter

composerVars == <<draft, rail, palette, picker, index, focus, ready, busyEnter, lastRow, inHop,
                  inRun, stopAsked, queueDock, ask, inputDeeds, request, madeItems,
                  erasedItems, deliveries, inputSteps>>
turnVars == <<lastRow, inHop, inRun, stopAsked>>
itemVars == <<madeItems, erasedItems, deliveries>>

Items == Words \cup Images \cup Cards
NoDraft == [slash |-> FALSE, body |-> <<>>, glued |-> FALSE]
FreshMenu == [sel |-> 0, gone |-> FALSE, last |-> "none"]
NoAsk == [kind |-> "none", picked |-> {}, typed |-> FALSE]
NoRequest == [kind |-> "none", body |-> <<>>, images |-> 0]

ComposerInit ==
    /\ draft = NoDraft /\ rail = <<>> /\ palette = FreshMenu /\ picker = FreshMenu
    /\ index = [have |-> FALSE, scan |-> FALSE, stale |-> TRUE]
    /\ focus = "input" /\ ready = TRUE /\ busyEnter \in {"queue", "steer"}
    /\ lastRow = "none" /\ inHop = FALSE /\ inRun = FALSE /\ stopAsked = FALSE
    /\ queueDock = <<>> /\ ask = NoAsk
    /\ inputDeeds = {} /\ request = NoRequest
    /\ madeItems = {} /\ erasedItems = {} /\ deliveries = [x \in Items |-> 0]
    /\ inputSteps = 0

-----------------------------------------------------------------------------
(* The pickers. *)

(* query_of: from a leading slash up to the first whitespace. *)
IsQuery(d) == d.slash /\ (d.body = <<>> \/ (Len(d.body) = 1 /\ d.glued))
QueryOf(d) == IF d.body = <<>> THEN "" ELSE d.body[1]

(* token_at: the caret's word opens with "@", at the start or after a space. *)
AtMarks == {"@", "@src/", "@zz"}
IsToken(d) ==
    /\ d.glued /\ d.body # <<>> /\ Last(d.body) \in AtMarks
    /\ ~(d.slash /\ Len(d.body) = 1)

(* The frame's first look: another query opens the list on its first row. *)
MenuSees(open, query, menu) ==
    IF ~open THEN FreshMenu
    ELSE IF query # menu.last THEN [FreshMenu EXCEPT !.last = query]
    ELSE menu

(* Every step that writes the draft ends in a frame that looks at it. *)
Writes(d) ==
    /\ draft' = d
    /\ palette' = MenuSees(IsQuery(d), QueryOf(d), palette)
    /\ picker' = MenuSees(IsToken(d), IF IsToken(d) THEN Last(d.body) ELSE "", picker)

(* candidates: an empty query keeps every row, a name its own, and a word   *)
(* that is no name none; the rank that orders a group is left out.          *)
SlashAll == <<"plan", "stop", "goal", "clear", "lint", "coder">>
SlashRows(d) == Picked(SlashAll, {i \in DOMAIN SlashAll : QueryOf(d) \in {"", SlashAll[i]}})

(* candidates and session_rows: files once the walk has answered, then the  *)
(* other session by title.                                                  *)
AtRows(d) ==
    LET q == Last(d.body)
    IN  (IF ~index.have \/ q = "@zz" THEN <<>>
         ELSE IF q = "@" THEN <<"@a.rs", "@src/">> ELSE <<"@src/b.rs">>)
        \o (IF q = "@" THEN <<"session:2">> ELSE <<>>)

(* What the pickers write, and what else may be typed, is no word or file  *)
(* whose fate is followed; a question has finitely many options.           *)
MenuNames == Range(SlashAll) \cup AtMarks \cup {"", "@a.rs", "@src/b.rs", "session:2"}
ASSUME ComposerAssumption == IsFiniteSet(Options) /\ Items \cap (Marks \cup MenuNames) = {}

PaletteOpen == IsQuery(draft) /\ ~palette.gone
PickerOpen == IsToken(draft) /\ ~picker.gone
MenuOpen == PaletteOpen \/ PickerOpen

(* parse_session_refs, of the backend: what a sent text names. *)
SessionRefs(text) == {t \in Range(text) : t = "@session:2"}

(* last_turn_in_flight *)
InFlight == inRun \/ lastRow = "open"

Quietly == inputDeeds' = {} /\ request' = NoRequest

-----------------------------------------------------------------------------
(* Editing. *)

Editable == ask = NoAsk /\ focus = "input" /\ ready
editRest == <<rail, index, focus, ready, busyEnter, turnVars, queueDock, ask>>

TypesWord(w) ==
    /\ Editable /\ w \notin madeItems /\ (draft.glued => draft.body = <<>>) /\ Len(draft.body) < DraftBound
    /\ Writes([draft EXCEPT !.body = Append(@, w), !.glued = TRUE])
    /\ madeItems' = IF w \in Words THEN madeItems \cup {w} ELSE madeItems
    /\ Quietly /\ UNCHANGED <<editRest, erasedItems, deliveries>>

TypesSlash ==
    /\ Editable /\ draft = NoDraft
    /\ Writes([NoDraft EXCEPT !.slash = TRUE])
    /\ Quietly /\ UNCHANGED <<editRest, itemVars>>

TypesSpace ==
    /\ Editable /\ draft.glued /\ Writes([draft EXCEPT !.glued = FALSE])
    /\ Quietly /\ UNCHANGED <<editRest, itemVars>>

ErasesWord ==
    /\ Editable /\ draft # NoDraft
    /\ LET body == draft.body
       IN  /\ Writes(IF body = <<>> THEN NoDraft
                     ELSE [draft EXCEPT !.body = Front(body), !.glued = FALSE])
           /\ erasedItems' = erasedItems \cup (IF body = <<>> THEN {} ELSE {Last(body)} \cap Items)
    /\ Quietly /\ UNCHANGED <<editRest, madeItems, deliveries>>

(* The + button puts a slash in front of the draft. *)
ClicksPlus ==
    /\ ask = NoAsk
    /\ LET d == [draft EXCEPT !.slash = TRUE]
           m == MenuSees(IsQuery(d), QueryOf(d), [palette EXCEPT !.gone = FALSE])
       IN  /\ draft' = d /\ palette' = m
           /\ picker' = MenuSees(IsToken(d), IF IsToken(d) THEN Last(d.body) ELSE "", picker)
    /\ focus' = "input" /\ inputDeeds' = {"plus"}
    /\ UNCHANGED <<request, rail, index, ready, busyEnter, turnVars, queueDock, ask, itemVars>>

Rails(x) ==
    /\ x \notin madeItems /\ rail' = Append(rail, x) /\ madeItems' = madeItems \cup {x}
    /\ Quietly
    /\ UNCHANGED <<draft, palette, picker, index, focus, ready, busyEnter, turnVars,
                   queueDock, ask, erasedItems, deliveries>>

(* attach_from_path, by drop or by the dialog.  It runs under a takeover    *)
(* too; a refused file leaves everything.                                   *)
Attaches(x) == x \in Images \cup Cards /\ Rails(x)

(* handle_paste brings an image. *)
Pastes(x) == x \in Images /\ Rails(x)

RemovesCard(i) ==
    /\ ask = NoAsk
    /\ erasedItems' = erasedItems \cup {rail[i]} /\ rail' = RemoveAt(rail, i)
    /\ Quietly
    /\ UNCHANGED <<draft, palette, picker, index, focus, ready, busyEnter, turnVars,
                   queueDock, ask, madeItems, deliveries>>

-----------------------------------------------------------------------------
(* Sending. *)

Harness == {"goal", "plan"}

Delivered(text, images) ==
    deliveries' = [x \in Items |-> deliveries[x]
                     + IF x \in Range(text) \cup Range(images) THEN 1 ELSE 0]

(* Mutant: a steer is taken before the images are looked at. *)
RouteUnchecked(steer, text, images) ==
    IF steer THEN "steer"
    ELSE IF images = <<>> /\ draft.slash /\ draft.body # <<>> /\ draft.body[1] \in Harness
         THEN "command" ELSE "send"

(* send_message: a steer without images joins the turn, a harness command   *)
(* runs, everything else is a message.                                      *)
Route(steer, text, images) ==
    IF steer /\ images = <<>> THEN "steer"
    ELSE IF images = <<>> /\ draft.slash /\ draft.body # <<>> /\ draft.body[1] \in Harness
         THEN "command" ELSE "send"

(* send_message: the draft and the rail are taken, the cards become         *)
(* references after the text, and only a message carries images.            *)
SendMessage(steer) ==
    LET refs == Picked(rail, {i \in DOMAIN rail : rail[i] \in Cards})
        images == Picked(rail, {i \in DOMAIN rail : rail[i] \in Images})
        text == draft.body \o refs
        route == Route(steer, text, images)
    IN  /\ Writes(NoDraft) /\ rail' = <<>>
        /\ request' = [kind |-> route, slash |-> draft.slash, body |-> text, images |-> Len(images)]
        /\ Delivered(text, IF route = "send" THEN images ELSE <<>>)
        /\ lastRow' = CASE route = "steer" -> "marker" [] route = "send" -> "open"
                        [] OTHER -> lastRow
        /\ queueDock' = IF route = "send" /\ InFlight THEN Append(queueDock, "echo") ELSE queueDock
        /\ stopAsked' = IF route = "send" THEN FALSE ELSE stopAsked
        /\ UNCHANGED <<index, ready, busyEnter, inHop, inRun, ask, madeItems, erasedItems>>

CanSubmit == ready /\ (draft # NoDraft \/ rail # <<>>)

(* read_submit_keys: Enter is the composer's when no picker wants it. *)
KeysReach == ask = NoAsk /\ focus = "input" /\ ready /\ ~MenuOpen

(* Enter, and Ctrl+Enter which does the other thing.  Bound: one echo. *)
EnterSends(accelerated) ==
    /\ KeysReach /\ CanSubmit /\ Len(queueDock) < 1
    /\ SendMessage(InFlight /\ ((busyEnter = "steer") # accelerated))
    /\ inputDeeds' = {"send"} /\ UNCHANGED focus

(* steer_queue: every row the backend has named. *)
EnterSteersQueue ==
    /\ KeysReach /\ ~CanSubmit
    /\ InFlight /\ queueDock # <<>>
    /\ inputDeeds' = IF \E i \in DOMAIN queueDock : queueDock[i] # "echo" THEN {"steerQueue"} ELSE {}
    /\ UNCHANGED <<draft, rail, palette, picker, index, focus, ready, busyEnter, turnVars,
                   queueDock, ask, request, itemVars>>

(* The round button: Stop on an empty draft while the agent works. *)
ClicksSend ==
    /\ ask = NoAsk /\ ready /\ Len(queueDock) < 1
    /\ IF draft = NoDraft /\ rail = <<>>
       THEN /\ InFlight /\ ~stopAsked /\ stopAsked' = TRUE /\ inputDeeds' = {"interrupt"}
            /\ UNCHANGED <<draft, rail, palette, picker, index, focus, ready, busyEnter, lastRow,
                           inHop, inRun, queueDock, ask, request, itemVars>>
       ELSE /\ SendMessage(InFlight /\ busyEnter = "steer")
            /\ inputDeeds' = {"send"} /\ UNCHANGED focus

-----------------------------------------------------------------------------
(* Keys of the pickers. *)

MoveIn(menu, n, key) ==
    LET at == IF menu.sel < n THEN menu.sel ELSE n - 1
    IN  [menu EXCEPT !.sel = IF key = "down" THEN (at + 1) % n ELSE (at + n - 1) % n]

Chosen(menu, rows) == rows[IF menu.sel < Len(rows) THEN menu.sel + 1 ELSE Len(rows)]

(* accept and run_app_command. *)
AcceptSlash(row) ==
    /\ inputDeeds' = {"accept"}
    /\ Writes(IF row \in {"goal", "lint"} THEN [slash |-> TRUE, body |-> <<row>>, glued |-> FALSE]
              ELSE NoDraft)
    /\ stopAsked' = (stopAsked \/ (row = "stop" /\ lastRow = "open"))
    /\ rail' = IF row = "clear" THEN <<>> ELSE rail
    /\ erasedItems' = IF row = "clear" THEN erasedItems \cup Range(rail) ELSE erasedItems
    /\ request' = IF row \in {"stop", "plan", "coder"}
                  THEN [kind |-> IF row # "stop" THEN row
                                 ELSE IF lastRow = "open" THEN "interrupt" ELSE "nothing",
                        slash |-> TRUE, body |-> <<>>, images |-> 0]
                  ELSE request
    /\ UNCHANGED <<index, focus, ready, busyEnter, lastRow, inHop, inRun, queueDock, ask,
                   madeItems, deliveries>>

(* A file closes the picker with a space, a directory narrows it, and a     *)
(* session replaces the token by its reference.                             *)
AcceptAt(row) ==
    /\ inputDeeds' = {"accept"}
    /\ Writes([draft EXCEPT !.body = Append(Front(@), row), !.glued = (row = "@src/")])
    /\ UNCHANGED <<request, editRest, itemVars>>

menuRest == <<draft, rail, index, focus, ready, busyEnter, lastRow, inHop, inRun, queueDock, ask,
              request, itemVars>>

(* Mutant: Escape is seen by the picker and left for the composer. *)
EscapeKept(menu) ==
    /\ inputDeeds' = IF InFlight /\ ~stopAsked THEN {"dismiss", "interrupt"} ELSE {"dismiss"}
    /\ stopAsked' = (stopAsked \/ InFlight)

(* consume_key takes Escape away: the picker closes and nothing else. *)
EscapeTaken(menu) == inputDeeds' = {"dismiss"} /\ UNCHANGED stopAsked

PaletteKey(key) ==
    LET rows == SlashRows(draft)
    IN  /\ ask = NoAsk /\ PaletteOpen /\ (rows # <<>> => focus = "input")
        /\ \/ key = "esc" /\ palette' = [palette EXCEPT !.gone = TRUE]
              /\ EscapeTaken(palette) /\ UNCHANGED <<picker, menuRest>>
           \/ rows # <<>> /\ key \in {"up", "down"}
              /\ palette' = MoveIn(palette, Len(rows), key)
              /\ inputDeeds' = {} /\ UNCHANGED <<picker, stopAsked, menuRest>>
           \/ rows # <<>> /\ key = "enter" /\ AcceptSlash(Chosen(palette, rows))

PickerKey(key) ==
    LET rows == AtRows(draft)
    IN  /\ ask = NoAsk /\ PickerOpen /\ (rows # <<>> => focus = "input")
        /\ \/ key = "esc" /\ picker' = [picker EXCEPT !.gone = TRUE]
              /\ EscapeTaken(picker) /\ UNCHANGED <<palette, menuRest>>
           \/ rows # <<>> /\ key \in {"up", "down"}
              /\ picker' = MoveIn(picker, Len(rows), key)
              /\ inputDeeds' = {} /\ UNCHANGED <<palette, stopAsked, menuRest>>
           \/ rows # <<>> /\ key = "enter" /\ AcceptAt(Chosen(picker, rows))

(* A press outside the list closes it. *)
PressesOutside ==
    /\ ask = NoAsk /\ MenuOpen
    /\ palette' = [palette EXCEPT !.gone = @ \/ PaletteOpen]
    /\ picker' = [picker EXCEPT !.gone = @ \/ PickerOpen]
    /\ Quietly /\ UNCHANGED <<draft, editRest, itemVars>>

(* poll_index: the walk starts while the picker shows and lands likewise. *)
PollsIndex ==
    /\ ask = NoAsk /\ PickerOpen
    /\ index' = IF index.scan THEN [have |-> TRUE, scan |-> FALSE, stale |-> FALSE]
                ELSE [index EXCEPT !.scan = TRUE]
    /\ index.scan \/ index.stale
    /\ Quietly
    /\ UNCHANGED <<draft, palette, picker, rail, focus, ready, busyEnter, turnVars, queueDock,
                   ask, itemVars>>

-----------------------------------------------------------------------------
(* Escape, and the fields of the dock. *)

StopShown == InFlight /\ ~stopAsked

(* handle_escape: only with both pickers closed. *)
EscapeInterrupts ==
    /\ ask = NoAsk /\ focus \in {"input", "none"} /\ ~MenuOpen /\ StopShown
    /\ stopAsked' = TRUE /\ inputDeeds' = {"interrupt"}
    /\ UNCHANGED <<draft, palette, picker, rail, index, focus, ready, busyEnter, lastRow, inHop,
                   inRun, queueDock, ask, request, itemVars>>

Named == \E i \in DOMAIN queueDock : queueDock[i] # "echo"

(* A row the backend has named offers Edit, Remove and, in a run, Steer;    *)
(* Edit moves the keyboard to the row's field.                              *)
RowButton(act) ==
    /\ ask = NoAsk /\ Named /\ focus # "row" /\ (act = "steer" => inRun)
    /\ focus' = IF act = "edit" THEN "row" ELSE focus
    /\ inputDeeds' = {act} /\ request' = NoRequest
    /\ UNCHANGED <<draft, palette, picker, rail, index, ready, busyEnter, turnVars, queueDock,
                   ask, itemVars>>

OpensGoal ==
    /\ ask = NoAsk /\ focus # "goal" /\ focus' = "goal" /\ Quietly
    /\ UNCHANGED <<draft, palette, picker, rail, index, ready, busyEnter, turnVars, queueDock,
                   ask, itemVars>>

(* Enter saves, Escape or a click elsewhere abandons.  The Escape that left *)
(* the field is still there for handle_escape.                              *)
LeavesField(key) ==
    /\ focus' = "none"
    /\ LET both == key = "esc" /\ ~MenuOpen /\ StopShown
       IN  /\ inputDeeds' = {IF key = "enter" THEN "save" ELSE "abandon"}
                              \cup (IF both THEN {"interrupt"} ELSE {})
           /\ stopAsked' = (stopAsked \/ both)
    /\ UNCHANGED <<draft, palette, picker, rail, index, ready, busyEnter, lastRow, inHop, inRun,
                   queueDock, ask, request, itemVars>>

(* queue_row: the field of a queued message. *)
LeavesRow(key) == ask = NoAsk /\ focus = "row" /\ LeavesField(key)

(* goal_bar: the field of the objective. *)
LeavesGoal(key) == ask = NoAsk /\ focus = "goal" /\ LeavesField(key)

FocusesInput ==
    /\ ask = NoAsk /\ focus = "none" /\ focus' = "input" /\ Quietly
    /\ UNCHANGED <<draft, palette, picker, rail, index, ready, busyEnter, turnVars, queueDock,
                   ask, itemVars>>

-----------------------------------------------------------------------------
(* The takeover by an approval or a question. *)

askRest == <<draft, rail, palette, picker, index, focus, ready, busyEnter, turnVars, queueDock,
             itemVars>>

AskArrives(kind) ==
    /\ inRun /\ ask = NoAsk /\ ask' = [NoAsk EXCEPT !.kind = kind]
    /\ Quietly /\ UNCHANGED askRest

(* Under multi a click ticks. *)
TicksOption(o) ==
    /\ ask.kind = "multi"
    /\ ask' = [ask EXCEPT !.picked = IF o \in @ THEN @ \ {o} ELSE @ \cup {o}]
    /\ Quietly /\ UNCHANGED askRest

TypesAnswer ==
    /\ ask.kind \in {"single", "multi"} /\ ~ask.typed /\ ask' = [ask EXCEPT !.typed = TRUE]
    /\ Quietly /\ UNCHANGED askRest

Answers(body) ==
    /\ request' = [kind |-> "answer", of |-> ask, body |-> body, images |-> 0]
    /\ ask' = NoAsk /\ inputDeeds' = {"answer"} /\ UNCHANGED askRest

(* Mutant: the ticks are the answer. *)
JoinedTicks(picked, typed) == SetToSeq(picked)

(* joined_answer: the ticked labels, then what was typed. *)
JoinedAnswer(picked, typed) == SetToSeq(picked) \o (IF typed THEN <<"text">> ELSE <<>>)

(* approval: exactly two actions. *)
ApprovalAnswered ==
    ask.kind = "approval" /\ \E v \in {"allow", "reject"} : Answers(<<v>>)

(* question: a button of the plan review, an option that answers on the     *)
(* click, or Submit.                                                        *)
QuestionAnswered ==
    \/ ask.kind = "plan" /\ \E v \in {"approve", "refuse", "discuss"} : Answers(<<v>>)
    \/ ask.kind = "single" /\ \E o \in Options : Answers(<<o>>)
    \/ ask.kind = "single" /\ ask.typed /\ Answers(<<"text">>)
    \/ ask.kind = "multi" /\ (ask.typed \/ ask.picked # {})
       /\ Answers(JoinedAnswer(ask.picked, ask.typed))

-----------------------------------------------------------------------------
(* Events, as App applies them. *)

eventRest == <<draft, rail, palette, picker, index, busyEnter, itemVars>>

HopBegins ==
    /\ ~inHop /\ inHop' = TRUE /\ inRun' = TRUE /\ lastRow' = "open"
    /\ Quietly /\ UNCHANGED <<eventRest, focus, ready, stopAsked, queueDock, ask>>

HopFinishes ==
    /\ inHop /\ inHop' = FALSE /\ stopAsked' = FALSE
    /\ lastRow' = IF lastRow = "open" THEN "done" ELSE lastRow
    /\ Quietly /\ UNCHANGED <<eventRest, focus, ready, inRun, queueDock, ask>>

RunFinishes ==
    /\ inRun /\ ~inHop /\ inRun' = FALSE /\ stopAsked' = FALSE
    /\ Quietly /\ UNCHANGED <<eventRest, focus, ready, lastRow, inHop, queueDock, ask>>

(* QueueChanged supersedes the echoes; an editor whose row left closes. *)
QueueArrives(rows) ==
    /\ rows # queueDock /\ queueDock' = rows
    /\ focus' = IF focus = "row" /\ rows = <<>> THEN "none" ELSE focus
    /\ Quietly /\ UNCHANGED <<eventRest, ready, turnVars, ask>>

ModelChanges ==
    /\ ready' = ~ready /\ Quietly
    /\ UNCHANGED <<eventRest, focus, turnVars, queueDock, ask>>

ComposerStep ==
    \/ \E w \in Words \cup Marks : TypesWord(w)
    \/ TypesSlash \/ TypesSpace \/ ErasesWord \/ ClicksPlus
    \/ \E x \in Images \cup Cards : Attaches(x) \/ Pastes(x)
    \/ \E i \in DOMAIN rail : RemovesCard(i)
    \/ \E accelerated \in BOOLEAN : EnterSends(accelerated)
    \/ EnterSteersQueue \/ ClicksSend
    \/ \E key \in {"up", "down", "enter", "esc"} : PaletteKey(key) \/ PickerKey(key)
    \/ PressesOutside \/ PollsIndex \/ EscapeInterrupts
    \/ \E act \in {"edit", "remove", "steer"} : RowButton(act)
    \/ OpensGoal
    \/ \E key \in {"enter", "esc", "click"} : LeavesRow(key) \/ LeavesGoal(key)
    \/ FocusesInput
    \/ \E kind \in {"approval", "single", "multi", "plan"} : AskArrives(kind)
    \/ \E o \in Options : TicksOption(o)
    \/ TypesAnswer \/ ApprovalAnswered \/ QuestionAnswered
    \/ HopBegins \/ HopFinishes \/ RunFinishes
    \/ \E rows \in {<<>>, <<"plain">>} : QueueArrives(rows)
    \/ ModelChanges

ComposerNext == inputSteps < StepBound /\ inputSteps' = inputSteps + 1 /\ ComposerStep

-----------------------------------------------------------------------------
(* Every word typed and every file attached is in the draft or on the rail  *)
(* until the user erases it or it leaves in exactly one request             *)
(* (send_message takes both and branches three ways).                       *)
NothingTypedLost ==
    \A x \in Items :
        (IF x \in Range(draft.body) \cup Range(rail) THEN 1 ELSE 0)
          + (IF x \in erasedItems THEN 1 ELSE 0) + deliveries[x]
        = (IF x \in madeItems THEN 1 ELSE 0)

(* A key a picker took does nothing else: Escape closes the list and leaves *)
(* the turn alone, Enter accepts a row and sends nothing (read_keys).       *)
PickerKeepsKeys ==
    inputDeeds \cap {"dismiss", "accept"} # {} => Cardinality(inputDeeds) = 1

(* The answer to a multi-select question carries every tick and the text    *)
(* (joined_answer).                                                         *)
AnswerIsWhole ==
    request.kind = "answer" =>
        (request.of.kind = "multi" =>
            Range(request.body) = request.of.picked \cup (IF request.of.typed THEN {"text"} ELSE {}))

(* What is typed is sent once or stays, a key belongs to one reader, and    *)
(* an answer is the one on the screen (composer.rs, dock.rs, control.rs).   *)
ComposerSound == NothingTypedLost /\ PickerKeepsKeys /\ AnswerIsWhole

(* at_menu.rs on accepting a session: "is resolved by the backend on send". *)
SessionPickResolves ==
    request.kind \in {"send", "steer"} =>
        (Contains(request.body, "session:2") => SessionRefs(request.body) # {})

(* composer.rs on parse_harness_command: they "run as harness commands      *)
(* instead of model turns".                                                 *)
HarnessCommandRuns ==
    request.kind \in {"send", "steer"} =>
        ~(request.slash /\ request.images = 0 /\ request.body # <<>> /\ request.body[1] \in Harness)

(* slash_menu.rs: app commands "mirror controls that already exist          *)
(* elsewhere in the UI"; /stop while the stop button is live.               *)
StopMirrorsButton == [][request'.kind = "nothing" /\ request' # request => ~StopShown]_composerVars

(* composer.rs: "+ opens the / menu". *)
PlusOpensMenu == "plus" \in inputDeeds => PaletteOpen

(* dock.rs: "Escape abandons"; and nothing else. *)
EscapeOnlyAbandons == "abandon" \in inputDeeds => inputDeeds = {"abandon"}
=============================================================================
