----------------------------- MODULE Connection -----------------------------
(***************************************************************************)
(* The model connection of the hub (crates/backend/src/chat.rs): client,   *)
(* options, prompt window, usage anchors and the state the frontend shows  *)
(* are five cells under five locks.  connect_llm runs in a task of its own *)
(* and writes them one after the other once the server answered its probe; *)
(* disconnect_llm runs in the dispatcher.  A turn copies client, options   *)
(* and window when it starts and keeps them.  A cell is modelled by the    *)
(* provider its content came from.                                         *)
(***************************************************************************)
EXTENDS Integers

CONSTANTS
    Providers,
    AttemptBound, \* bound: connects and disconnects
    RequestBound  \* bound: turns

NoProvider == "none"
Attempts == 1 .. AttemptBound

VARIABLES
    client, options, window, anchor, \* llm, llm_opts, context_window, meters
    shown,    \* llm_state: [is, of]
    attempt,  \* each connect or disconnect: where it is, and its provider
    request,  \* the running turn's copies, and where it is
    requests,
    (* history, read by the properties only *)
    mixed     \* two attempts overlapped, or a turn wrote for a provider it
              \* was no longer connected to

cells == <<client, options, window, anchor, shown>>
connVars == <<cells, attempt, request, requests, mixed>>

NoAttempt == [at |-> "unused", of |-> NoProvider]
NoRequest == [at |-> "none", client |-> NoProvider, options |-> NoProvider, window |-> NoProvider]
InFlight(k) == attempt[k].at \notin {"unused", "over"}

ConnInit ==
    /\ client = NoProvider /\ options = NoProvider /\ window = NoProvider
    /\ anchor = NoProvider
    /\ shown = [is |-> "disconnected", of |-> NoProvider]
    /\ attempt = [k \in Attempts |-> NoAttempt]
    /\ request = NoRequest
    /\ requests = 0
    /\ mixed = FALSE

-----------------------------------------------------------------------------
Goes(k, step) == attempt' = [attempt EXCEPT ![k].at = step]

(* The dispatcher waits for a disconnect and for no connect. *)
NewAttempt(step, p) ==
    \E k \in Attempts :
        /\ attempt[k] = NoAttempt
        /\ \A j \in 1 .. k - 1 : attempt[j] # NoAttempt
        /\ \A j \in Attempts : attempt[j].of = NoProvider => ~InFlight(j)
        /\ attempt' = [attempt EXCEPT ![k] = [at |-> step, of |-> p]]
        /\ mixed' = (mixed \/ \E j \in Attempts : InFlight(j))

(* spawn_connect_llm *)
ConnectLlm(p) ==
    /\ NewAttempt("spawned", p)
    /\ UNCHANGED <<cells, request, requests>>

(* connect_llm up to client.health(). *)
ConnectBegins(k) ==
    /\ attempt[k].at = "spawned"
    /\ shown' = [is |-> "connecting", of |-> attempt[k].of]
    /\ Goes(k, "probe")
    /\ UNCHANGED <<client, options, window, anchor, request, requests, mixed>>

(* The server does not answer: the error is shown, the old client stays. *)
ProbeFails(k) ==
    /\ attempt[k].at = "probe"
    /\ shown' = [is |-> "error", of |-> attempt[k].of]
    /\ Goes(k, "over")
    /\ UNCHANGED <<client, options, window, anchor, request, requests, mixed>>

(* It answers, with its window: the atomic is stored first. *)
ProbeAnswers(k) ==
    /\ attempt[k].at = "probe"
    /\ window' = attempt[k].of
    /\ Goes(k, "options")
    /\ UNCHANGED <<client, options, anchor, shown, request, requests, mixed>>

StoreOptions(k) ==
    /\ attempt[k].at = "options"
    /\ options' = attempt[k].of
    /\ Goes(k, "client")
    /\ UNCHANGED <<client, window, anchor, shown, request, requests, mixed>>

StoreClient(k) ==
    /\ attempt[k].at = "client"
    /\ client' = attempt[k].of
    /\ Goes(k, "meters")
    /\ UNCHANGED <<options, window, anchor, shown, request, requests, mixed>>

AnchorsKept(k) ==
    /\ attempt[k].at = "meters"
    /\ Goes(k, "announce")
    /\ UNCHANGED <<client, options, window, anchor, shown, request, requests, mixed>>

(* A new provider invalidates every usage anchor. *)
ClearMeters(k) ==
    /\ attempt[k].at = "meters"
    /\ anchor' = NoProvider
    /\ Goes(k, "announce")
    /\ UNCHANGED <<client, options, window, shown, request, requests, mixed>>

(* set_llm_state: Ready with its model and window, or Disconnected. *)
Announce(k) ==
    /\ attempt[k].at = "announce"
    /\ shown' = IF attempt[k].of = NoProvider
                THEN [is |-> "disconnected", of |-> NoProvider]
                ELSE [is |-> "ready", of |-> attempt[k].of]
    /\ Goes(k, "over")
    /\ UNCHANGED <<client, options, window, anchor, request, requests, mixed>>

(* disconnect_llm takes the same last steps, without options and window. *)
DisconnectLlm ==
    /\ NewAttempt("client", NoProvider)
    /\ UNCHANGED <<cells, request, requests>>

-----------------------------------------------------------------------------
(* A turn: refused without a client; client, then options, then window. *)
TakeClient ==
    /\ request.at = "none"
    /\ requests < RequestBound
    /\ client # NoProvider
    /\ requests' = requests + 1
    /\ request' = [NoRequest EXCEPT !.at = "opening", !.client = client]
    /\ UNCHANGED <<cells, attempt, mixed>>

TakeOptions ==
    /\ request.at = "opening"
    /\ request' = [request EXCEPT !.at = "sizing", !.options = options]
    /\ UNCHANGED <<cells, attempt, requests, mixed>>

TakeWindow ==
    /\ request.at = "sizing"
    /\ request' = [request EXCEPT !.at = "running", !.window = window]
    /\ UNCHANGED <<cells, attempt, requests, mixed>>

(* A reply with usage: the count becomes the session's anchor. *)
RecordAnchor ==
    /\ request.at = "running"
    /\ anchor' = request.client
    /\ mixed' = (mixed \/ request.client # client)
    /\ UNCHANGED <<client, options, window, shown, attempt, request, requests>>

(* A refusal that names a smaller window: adopted for the hub, announced.  *)
LearnWindow ==
    /\ request.at = "running"
    /\ window' = request.client
    /\ request' = [request EXCEPT !.window = request.client]
    /\ shown' = [is |-> "ready", of |-> request.client]
    /\ mixed' = (mixed \/ request.client # client \/ \E k \in Attempts : InFlight(k))
    /\ UNCHANGED <<client, options, anchor, attempt, requests>>

RequestEnds ==
    /\ request.at = "running"
    /\ request' = NoRequest
    /\ UNCHANGED <<cells, attempt, requests, mixed>>

ConnNext ==
    \/ \E p \in Providers : ConnectLlm(p)
    \/ DisconnectLlm
    \/ \E k \in Attempts :
          ConnectBegins(k) \/ ProbeFails(k) \/ ProbeAnswers(k) \/ StoreOptions(k)
             \/ StoreClient(k) \/ ClearMeters(k) \/ Announce(k)
    \/ TakeClient \/ TakeOptions \/ TakeWindow \/ RecordAnchor \/ LearnWindow \/ RequestEnds

ConnSpec == ConnInit /\ [][ConnNext]_connVars

-----------------------------------------------------------------------------
(* Properties *)

(* While connects do not overlap and no turn outlives its connection, what *)
(* the frontend shows as ready is what the next turn gets: its client, its *)
(* options, its window, and no anchor counted by another server.  The      *)
(* cells are written before they are announced, also when a connect fails  *)
(* half way or a turn learns its window.                                   *)
ReadyIsInstalled ==
    shown.is = "ready" /\ ~mixed /\ ~(\E k \in Attempts : InFlight(k)) =>
        /\ client = shown.of /\ options = shown.of /\ window = shown.of
        /\ anchor \in {shown.of, NoProvider}

(* "A new provider invalidates every usage anchor."  Refuted: a turn still *)
(* running against the old one stores its count after the clear.           *)
AnchorOfClient ==
    ~(\E k \in Attempts : InFlight(k)) /\ client # NoProvider =>
        anchor \in {client, NoProvider}
=============================================================================
