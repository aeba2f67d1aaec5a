----------------------------- MODULE Supervisor -----------------------------
(***************************************************************************)
(* The desktop's supervisor (crates/frontend/src/supervisor.rs), the tasks *)
(* of its IPC client (ipc_client.rs), the backend processes it starts and  *)
(* stops, and what the status line shows of them (app.rs).  Generation g   *)
(* names the g-th backend process and the client task started with it; all *)
(* generations use one pipe name, made of the frontend's pid.              *)
(***************************************************************************)
EXTENDS Integers, Sequences

CONSTANTS
    Generations,   \* 1..n: backends that can be started
    AskBound,      \* bound: requests the interface sends
    DeathBound     \* bound: backends that die on their own

ASSUME SupervisorAssumption == Generations \subseteq Nat \ {0}

VARIABLES
    running,     \* Option<Running>: the generation on the books, or 0
    sup,         \* what `run` is doing: at, the generation it stops, what follows
    autoWatch,   \* auto_watch
    fsPending,   \* a debounced change waits in fs_rx
    proc,        \* per generation: the process
    ipc,         \* per generation: the client task, the backend it reached
    outbox,      \* per generation: the request channel; Shutdown is 0
    sealed,      \* per generation: request_tx is dropped and kill_rx has fired
    intake,      \* per generation: frames the backend has received, not handled
    lineUi,      \* the interface: process running, connection up
    (* history, read by the properties only *)
    sentBy,      \* per request: the generation it was queued for
    handledBy,   \* per generation: requests its backend handled, in order
    deaths       \* backends that died on their own

supVars == <<running, sup, autoWatch, fsPending, proc, ipc, outbox, sealed,
             intake, lineUi, sentBy, handledBy, deaths>>

Shutdown == 0
Alive == {"starting", "listening", "serving"}
SupIdle == [at |-> "idle", of |-> 0, next |-> "none"]
Unborn == [at |-> "none", to |-> 0, writing |-> FALSE]

SupervisorInit ==
    /\ running = 0 /\ sup = SupIdle
    /\ autoWatch = FALSE /\ fsPending = FALSE
    /\ proc = [g \in Generations |-> "none"]
    /\ ipc = [g \in Generations |-> Unborn]
    /\ outbox = [g \in Generations |-> <<>>]
    /\ sealed = [g \in Generations |-> FALSE]
    /\ intake = [g \in Generations |-> <<>>]
    /\ lineUi = [running |-> FALSE, connected |-> FALSE]
    /\ sentBy = <<>>
    /\ handledBy = [g \in Generations |-> <<>>]
    /\ deaths = 0

-----------------------------------------------------------------------------
(* The supervisor's loop.  It awaits each step, so a command or a file     *)
(* event is only taken at rest.                                            *)

(* child::spawn: the next process, killed when its handle is dropped.      *)
SpawnsBackend(g) ==
    /\ proc[g] = "none" /\ \A h \in Generations : h < g => proc[h] # "none"
    /\ proc' = [proc EXCEPT ![g] = "starting"]

(* start_be_with_profile: spawn, BeStarted, a new client task.  A missing  *)
(* binary leaves nothing on the books.                                     *)
Starts ==
    \/ \E g \in Generations :
          /\ SpawnsBackend(g) /\ running' = g
          /\ ipc' = [ipc EXCEPT ![g].at = "connecting"]
          /\ lineUi' = [lineUi EXCEPT !.running = TRUE]
    \/ UNCHANGED <<running, proc, ipc, lineUi>>

(* "BE already running" as long as something is on the books. *)
StartBe ==
    /\ sup.at = "idle" /\ running = 0
    /\ Starts
    /\ UNCHANGED <<sup, autoWatch, fsPending, outbox, sealed, intake, sentBy, handledBy, deaths>>

(* The head of StopBe, Rebuild, RebuildAndRestart, Quit and of an automatic *)
(* rebuild: take what is on the books and begin stop_be, or go on.          *)
Leaving(next) ==
    /\ sup.at = "idle"
    /\ IF running # 0
       THEN /\ sup' = [at |-> "stopping", of |-> running, next |-> next]
            /\ outbox' = [outbox EXCEPT ![running] = Append(@, Shutdown)]
       ELSE /\ sup' = [SupIdle EXCEPT !.at = IF next = "quit" THEN "over" ELSE IF next = "none" THEN "idle" ELSE "building",
                                      !.next = next]
            /\ outbox' = outbox
    /\ running' = 0
    /\ UNCHANGED <<autoWatch, proc, ipc, sealed, intake, lineUi, sentBy, handledBy, deaths>>

StopBe == running # 0 /\ Leaving("none") /\ UNCHANGED fsPending
Rebuild == Leaving("build") /\ UNCHANGED fsPending
RebuildAndRestart == Leaving("restart") /\ UNCHANGED fsPending
Quit == Leaving("quit") /\ UNCHANGED fsPending

FsEvent ==
    /\ fsPending /\ fsPending' = FALSE
    /\ IF autoWatch
       THEN Leaving("restart")
       ELSE sup.at = "idle" /\ UNCHANGED <<running, sup, autoWatch, proc, ipc, outbox, sealed,
                                           intake, lineUi, sentBy, handledBy, deaths>>

(* stop_be: 500 ms for a clean exit, then the kill. *)
KillChild ==
    /\ sup.at = "stopping" /\ proc[sup.of] \in Alive
    /\ proc' = [proc EXCEPT ![sup.of] = "dead"]
    /\ UNCHANGED <<running, sup, autoWatch, fsPending, ipc, outbox, sealed, intake, lineUi, sentBy, handledBy, deaths>>

(* Mutant: the exit is not waited for. *)
ReapUnawaited ==
    /\ sup.at = "stopping"
    /\ lineUi' = [lineUi EXCEPT !.running = FALSE]
    /\ sealed' = [sealed EXCEPT ![sup.of] = TRUE]
    /\ sup' = [SupIdle EXCEPT !.at = CASE sup.next = "none" -> "idle" [] sup.next = "quit" -> "over" [] OTHER -> "building",
                              !.next = IF sup.next = "none" THEN "none" ELSE sup.next]
    /\ UNCHANGED <<running, autoWatch, fsPending, proc, ipc, outbox, intake, sentBy, handledBy, deaths>>

(* The child has exited: BeStopped, the client's kill, request_tx dropped. *)
Reap ==
    /\ sup.at = "stopping" /\ proc[sup.of] = "dead"
    /\ lineUi' = [lineUi EXCEPT !.running = FALSE]
    /\ sealed' = [sealed EXCEPT ![sup.of] = TRUE]
    /\ sup' = [SupIdle EXCEPT !.at = CASE sup.next = "none" -> "idle" [] sup.next = "quit" -> "over" [] OTHER -> "building",
                              !.next = IF sup.next = "none" THEN "none" ELSE sup.next]
    /\ UNCHANGED <<running, autoWatch, fsPending, proc, ipc, outbox, intake, sentBy, handledBy, deaths>>

(* do_build, and what RebuildAndRestart does after it: a failed build      *)
(* leaves no backend; pending file events are drained either way.          *)
BuildEnds(ok) ==
    /\ sup.at = "building"
    /\ sup' = SupIdle
    /\ IF ok /\ sup.next = "restart" THEN Starts ELSE UNCHANGED <<running, proc, ipc, lineUi>>
    /\ fsPending' = (IF sup.next = "restart" THEN FALSE ELSE fsPending)
    /\ UNCHANGED <<autoWatch, outbox, sealed, intake, sentBy, handledBy, deaths>>

(* SendRequest: into the channel of what is on the books, whatever became  *)
(* of its process; with nothing there it is dropped.                       *)
SendRequest ==
    /\ sup.at = "idle" /\ running # 0
    /\ Len(sentBy) < AskBound
    /\ sentBy' = Append(sentBy, running)
    /\ outbox' = [outbox EXCEPT ![running] = Append(@, Len(sentBy) + 1)]
    /\ UNCHANGED <<running, sup, autoWatch, fsPending, proc, ipc, sealed, intake, lineUi, handledBy, deaths>>

SetAutoWatch ==
    /\ sup.at = "idle" /\ autoWatch' = ~autoWatch
    /\ UNCHANGED <<running, sup, fsPending, proc, ipc, outbox, sealed, intake, lineUi, sentBy, handledBy, deaths>>

(* watcher.rs: a debounced batch of changes reaches fs_rx. *)
SourceChanges ==
    /\ ~fsPending /\ fsPending' = TRUE
    /\ UNCHANGED <<running, sup, autoWatch, proc, ipc, outbox, sealed, intake, lineUi, sentBy, handledBy, deaths>>

-----------------------------------------------------------------------------
(* The client task.  connect_with_backoff does not look at kill_rx, and    *)
(* dropping a JoinHandle detaches its task: the reader and the writer run  *)
(* on after the kill.                                                      *)

Connects(c, b) ==
    /\ ipc[c].at = "connecting" /\ proc[b] = "listening"
    /\ ipc' = [ipc EXCEPT ![c] = [at |-> "open", to |-> b, writing |-> TRUE]]
    /\ proc' = [proc EXCEPT ![b] = "serving"]
    /\ lineUi' = [lineUi EXCEPT !.connected = TRUE]
    /\ UNCHANGED <<running, sup, autoWatch, fsPending, outbox, sealed, intake, sentBy, handledBy, deaths>>

ConnectTimesOut(c) ==
    /\ ipc[c].at = "connecting"
    /\ ipc' = [ipc EXCEPT ![c].at = "ended"]
    /\ UNCHANGED <<running, sup, autoWatch, fsPending, proc, outbox, sealed, intake, lineUi, sentBy, handledBy, deaths>>

(* Mutant: only the kill ends the task. *)
DisconnectsOnKill(c) ==
    /\ ipc[c].at = "open" /\ sealed[c]
    /\ ipc' = [ipc EXCEPT ![c].at = "ended"]
    /\ lineUi' = [lineUi EXCEPT !.connected = FALSE]
    /\ UNCHANGED <<running, sup, autoWatch, fsPending, proc, outbox, sealed, intake, sentBy, handledBy, deaths>>

(* The select of `spawn`: killed, or one of its loops returned. *)
Disconnects(c) ==
    /\ ipc[c].at = "open"
    /\ sealed[c] \/ ~ipc[c].writing \/ proc[ipc[c].to] = "dead"
    /\ ipc' = [ipc EXCEPT ![c].at = "ended"]
    /\ lineUi' = [lineUi EXCEPT !.connected = FALSE]
    /\ UNCHANGED <<running, sup, autoWatch, fsPending, proc, outbox, sealed, intake, sentBy, handledBy, deaths>>

(* write_loop: a frame reaches the backend, or finds it gone. *)
WritesFrame(c) ==
    /\ ipc[c].writing /\ outbox[c] # <<>>
    /\ outbox' = [outbox EXCEPT ![c] = Tail(@)]
    /\ IF proc[ipc[c].to] = "serving"
       THEN intake' = [intake EXCEPT ![ipc[c].to] = Append(@, Head(outbox[c]))] /\ ipc' = ipc
       ELSE ipc' = [ipc EXCEPT ![c].writing = FALSE] /\ intake' = intake
    /\ UNCHANGED <<running, sup, autoWatch, fsPending, proc, sealed, lineUi, sentBy, handledBy, deaths>>

(* The channel is drained and closed: the write half is shut down. *)
WriterEnds(c) ==
    /\ ipc[c].writing /\ outbox[c] = <<>> /\ sealed[c]
    /\ ipc' = [ipc EXCEPT ![c].writing = FALSE]
    /\ UNCHANGED <<running, sup, autoWatch, fsPending, proc, outbox, sealed, intake, lineUi, sentBy, handledBy, deaths>>

-----------------------------------------------------------------------------
(* The backend process: it accepts exactly one client, handles frames in   *)
(* order, and leaves on Shutdown or at the end of its input.               *)

Listens(b) ==
    /\ proc[b] = "starting" /\ proc' = [proc EXCEPT ![b] = "listening"]
    /\ UNCHANGED <<running, sup, autoWatch, fsPending, ipc, outbox, sealed, intake, lineUi, sentBy, handledBy, deaths>>

Handles(b) ==
    /\ proc[b] = "serving" /\ intake[b] # <<>>
    /\ intake' = [intake EXCEPT ![b] = Tail(@)]
    /\ IF Head(intake[b]) = Shutdown
       THEN proc' = [proc EXCEPT ![b] = "dead"] /\ handledBy' = handledBy
       ELSE handledBy' = [handledBy EXCEPT ![b] = Append(@, Head(intake[b]))] /\ proc' = proc
    /\ UNCHANGED <<running, sup, autoWatch, fsPending, ipc, outbox, sealed, lineUi, sentBy, deaths>>

InputEnds(b) ==
    /\ proc[b] = "serving" /\ intake[b] = <<>>
    /\ \A c \in Generations : ipc[c].to = b => ~ipc[c].writing
    /\ proc' = [proc EXCEPT ![b] = "dead"]
    /\ UNCHANGED <<running, sup, autoWatch, fsPending, ipc, outbox, sealed, intake, lineUi, sentBy, handledBy, deaths>>

Dies(b) ==
    /\ proc[b] \in Alive /\ deaths < DeathBound
    /\ deaths' = deaths + 1
    /\ proc' = [proc EXCEPT ![b] = "dead"]
    /\ UNCHANGED <<running, sup, autoWatch, fsPending, ipc, outbox, sealed, intake, lineUi, sentBy, handledBy>>

SupervisorNext ==
    \/ StartBe \/ StopBe \/ Rebuild \/ RebuildAndRestart \/ Quit \/ FsEvent
    \/ KillChild \/ Reap \/ (\E ok \in BOOLEAN : BuildEnds(ok))
    \/ SendRequest \/ SetAutoWatch \/ SourceChanges
    \/ \E c \in Generations :
          \/ \E b \in Generations : Connects(c, b)
          \/ ConnectTimesOut(c) \/ Disconnects(c) \/ WritesFrame(c) \/ WriterEnds(c)
          \/ Listens(c) \/ Handles(c) \/ InputEnds(c) \/ Dies(c)

SupervisorSpec == SupervisorInit /\ [][SupervisorNext]_supVars

(* The runtime polls every ready task and a process told to end ends.      *)
(* Commands, source changes and deaths are up to their sources.            *)
SupervisorFairness ==
    /\ WF_supVars(KillChild) /\ WF_supVars(Reap) /\ WF_supVars(\E ok \in BOOLEAN : BuildEnds(ok))
    /\ \A c \in Generations : WF_supVars(Disconnects(c)) /\ WF_supVars(WritesFrame(c)) /\ WF_supVars(WriterEnds(c))

-----------------------------------------------------------------------------
(* A client that has not been killed talks to its own backend or to none,  *)
(* and what a backend handles are requests queued for one generation, in   *)
(* the order they were sent: stop_be waits for the exit before anything    *)
(* else is started on the shared pipe name.                                *)
OwnBackend ==
    /\ \A c \in Generations : ~sealed[c] => ipc[c].to \in {0, c}
    /\ \A b \in Generations :
          \A i, k \in DOMAIN handledBy[b] :
             i < k => /\ handledBy[b][i] < handledBy[b][k]
                      /\ sentBy[handledBy[b][i]] = sentBy[handledBy[b][k]]

(* The status line does not show a connection for ever once no backend     *)
(* lives: every IpcConnected is followed by its task's IpcDisconnected.    *)
ConnectionLossShown ==
    lineUi.connected ~> (~lineUi.connected \/ \E b \in Generations : proc[b] \in Alive)

(* ipc_client.rs:1-2 "run reader+writer tasks until either side            *)
(* disconnects or `kill_rx` fires": no backend is written to by a client   *)
(* killed before it was started.  Refuted: the next backend can get the    *)
(* Shutdown meant for the last.                                            *)
KilledClientIsSilent ==
    \A b, c \in Generations : c < b /\ intake[b] # <<>> => ipc[c].to # b

=============================================================================
