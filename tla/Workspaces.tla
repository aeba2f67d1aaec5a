----------------------------- MODULE Workspaces -----------------------------
(***************************************************************************)
(* Workspaces: the backend's registry of folders (backend/workspaces.rs)   *)
(* and the session requests that change what it shows (chat.rs,            *)
(* dispatcher.rs), the document it keeps on disk, and the sidebar that     *)
(* draws the projection (app.rs, sidebar.rs).  Requests and answers go     *)
(* over the one connection, in order each way.  Folders come and go.       *)
(***************************************************************************)
EXTENDS Integers, Sequences, SequencesExt, Picked

CONSTANTS
    Folders,      \* directories
    Restored,     \* sessions on disk at the start: id -> [cwd, archived]
    ClickBound,   \* bound: requests of the user
    BootBound,    \* bound: restarts of the backend
    MountBound    \* bound: folders coming and going

(* No folder is named "none"; a session may be in none. *)
ASSUME WorkspacesAssumption ==
    /\ "none" \notin Folders
    /\ IsFiniteSet(DOMAIN Restored) /\ DOMAIN Restored \subseteq Nat
    /\ \A s \in DOMAIN Restored : Restored[s] \in [cwd : Folders \cup {"none"}, archived : BOOLEAN]

VARIABLES
    nextId,       \* ChatHub::next_id, shared by sessions and workspaces
    wsDoc,        \* Document: [order, rows]; rows : id -> [path, sessions]
    wsDisk,       \* the document on disk
    sess,         \* the session map: id -> [cwd, archived]
    mounted,      \* folders there now
    reqs, evs,    \* the connection, each way
    side,         \* the sidebar: [rows, ungrouped, list, current, creating]
    bar,          \* the search field: [query, sent, hits]
    drifted,        \* history: a folder came or went since the last projection
    namedBy,      \* history: the folder a workspace id was registered for
    unanswered,       \* history: the folder being created and its answer unseen
    wsClicks, boots, flips

wsVars == <<nextId, wsDoc, wsDisk, sess, mounted, reqs, evs, side, bar, drifted, namedBy,
            unanswered, wsClicks, boots, flips>>
backVars == <<nextId, wsDoc, wsDisk, sess, mounted, drifted, namedBy>>
countVars == <<wsClicks, boots, flips>>

Without(s, x) == Picked(s, {i \in DOMAIN s : s[i] # x})
InFrontOf(s, x, b) ==
    LET r == Without(s, x) IN
    IF \E i \in DOMAIN r : r[i] = b
    THEN LET i == CHOOSE i \in DOMAIN r : r[i] = b IN InsertAt(r, i, x)
    ELSE Append(r, x)
Descending(S) == Reverse(Picked([x \in S |-> x], S))
Knows(f, k) == k \in DOMAIN f
WithoutKey(f, k) == [x \in DOMAIN f \ {k} |-> f[x]]
WithKey(f, k, v) == [x \in DOMAIN f \cup {k} |-> IF x = k THEN v ELSE f[x]]

-----------------------------------------------------------------------------
(* canonical fails for a folder that is not there. *)
Canonical(p, there) == IF p \in there THEN p ELSE "none"

(* Registry::project: the account orders, the session's header decides. *)
Project(doc, ss, there) ==
    LET live == {s \in DOMAIN ss : ~ss[s].archived}
        Here(s, r) == Canonical(ss[s].cwd, there) = r.path
        Kept(r) == Picked(r.sessions, {i \in DOMAIN r.sessions : LET s == r.sessions[i] IN s \in live /\ Here(s, r)})
        Extra(r) == Descending({s \in live : Here(s, r)} \ ToSet(Kept(r)))
        Group(w) == [id |-> w, path |-> doc.rows[w].path, missing |-> doc.rows[w].path \notin there,
                     members |-> Kept(doc.rows[w]) \o Extra(doc.rows[w])]
        rows == [i \in DOMAIN doc.order |-> Group(doc.order[i])] IN
    [rows |-> rows, ungrouped |-> live \ UNION {ToSet(rows[i].members) : i \in DOMAIN rows}]

(* Registry::prune. *)
Prune(doc, ss, there) ==
    LET Kept(r) == Picked(r.sessions, {i \in DOMAIN r.sessions :
                      LET s == r.sessions[i] IN Knows(ss, s) /\ Canonical(ss[s].cwd, there) = r.path}) IN
    [doc EXCEPT !.rows = [w \in DOMAIN @ |-> [@[w] EXCEPT !.sessions = Kept(doc.rows[w])]]]

(* bootstrap_if_empty, from the headers of the sessions on disk: one       *)
(* workspace for each folder, ids from the shared counter.                 *)
Bootstrap(ss, there, next) ==
    LET firsts == {s \in DOMAIN ss : /\ ss[s].cwd \in there
                                      /\ \A r \in DOMAIN ss : ss[r].cwd = ss[s].cwd => s <= r}
        sorted == Picked([s \in DOMAIN ss |-> ss[s].cwd], firsts)
        IdOf(i) == next + i - 1 IN
    [order |-> [i \in DOMAIN sorted |-> IdOf(i)],
     rows |-> [w \in {IdOf(i) : i \in DOMAIN sorted} |->
                 [path |-> sorted[w - next + 1],
                  sessions |-> Descending({s \in DOMAIN ss : ss[s].cwd = sorted[w - next + 1]})]]]

LargestId(S) == IF S = {} THEN 0 ELSE CHOOSE x \in S : \A y \in S : y <= x

(* new_loaded: the counter past the restored sessions, the document        *)
(* bootstrapped if it has no rows.                                         *)
Loads(disk, ss, there) ==
    LET next == LargestId(DOMAIN ss) + 1
        doc == IF DOMAIN disk.rows = {} THEN Bootstrap(ss, there, next) ELSE disk IN
    [doc |-> doc, next |-> IF doc = disk THEN next ELSE next + Len(doc.order)]

NoDoc == [order |-> <<>>, rows |-> <<>>]
NamesOf(doc) == [w \in DOMAIN doc.rows |-> doc.rows[w].path]

WsInit ==
    LET l == Loads(NoDoc, Restored, Folders) IN
    /\ nextId = l.next /\ wsDoc = l.doc /\ wsDisk = l.doc /\ sess = Restored /\ mounted = Folders
    /\ reqs = <<[ask |-> "list"]>> /\ evs = <<>> /\ drifted = FALSE /\ namedBy = NamesOf(l.doc)
    /\ side = [rows |-> <<>>, ungrouped |-> {}, list |-> {}, current |-> 0, creating |-> "none"]
    /\ bar = [query |-> 0, sent |-> 0, hits |-> 0]
    /\ unanswered = FALSE /\ wsClicks = 0 /\ boots = 0 /\ flips = 0

-----------------------------------------------------------------------------
(* The backend, one request at a time (main.rs, dispatcher.rs). *)
ReqIs(a) == reqs # <<>> /\ Head(reqs).ask = a
HubReplies(es) == reqs' = Tail(reqs) /\ evs' = evs \o es

AsEvent(doc, ss) == [ev |-> "workspaces", view |-> Project(doc, ss, mounted)]

(* publish_workspaces: prune, then the whole projection. *)
Published(doc, ss) ==
    LET d == Prune(doc, ss, mounted) IN <<d, <<AsEvent(d, ss)>>>>

(* The registry's mutations: save, publish, and the projection again as    *)
(* the answer.                                                             *)
Mutates(doc, ss) ==
    LET p == Published(doc, ss) IN
    /\ wsDoc' = p[1] /\ wsDisk' = p[1] /\ drifted' = FALSE
    /\ HubReplies(p[2] \o <<AsEvent(p[1], ss)>>)

WsRefuses == HubReplies(<<[ev |-> "failed"]>>) /\ UNCHANGED <<wsDoc, wsDisk, drifted>>

ListWorkspaces ==
    /\ ReqIs("list") /\ drifted' = FALSE
    /\ HubReplies(<<AsEvent(wsDoc, sess), [ev |-> "sessions", list |-> {s \in DOMAIN sess : ~sess[s].archived}]>>)
    /\ UNCHANGED <<nextId, wsDoc, wsDisk, sess, mounted, namedBy, side, bar, unanswered, countVars>>

(* Registry::create: idempotent by canonical path. *)
CreateWorkspace ==
    /\ ReqIs("create") /\ nextId' = nextId + 1
    /\ LET p == Head(reqs).path IN
       IF p \notin mounted THEN WsRefuses /\ UNCHANGED namedBy
       ELSE IF \E w \in DOMAIN wsDoc.rows : wsDoc.rows[w].path = p
       THEN Mutates(wsDoc, sess) /\ UNCHANGED namedBy
       ELSE /\ Mutates([order |-> Append(wsDoc.order, nextId),
                        rows |-> WithKey(wsDoc.rows, nextId, [path |-> p, sessions |-> <<>>])], sess)
            /\ namedBy' = IF Knows(wsDoc.rows, nextId) THEN namedBy ELSE WithKey(namedBy, nextId, p)
    /\ UNCHANGED <<sess, mounted, side, bar, unanswered, countVars>>

(* Registry::delete and rename, by id; a rename changes the title only. *)
DeleteWorkspace ==
    /\ ReqIs("remove")
    /\ LET w == Head(reqs).ws IN
       IF ~Knows(wsDoc.rows, w) THEN WsRefuses /\ UNCHANGED namedBy
       ELSE /\ Mutates([order |-> Without(wsDoc.order, w), rows |-> WithoutKey(wsDoc.rows, w)], sess)
            /\ namedBy' = WithoutKey(namedBy, w)
    /\ UNCHANGED <<nextId, sess, mounted, side, bar, unanswered, countVars>>

RenameWorkspace ==
    /\ ReqIs("rename")
    /\ IF Knows(wsDoc.rows, Head(reqs).ws) THEN Mutates(wsDoc, sess) ELSE WsRefuses
    /\ UNCHANGED <<nextId, sess, mounted, namedBy, side, bar, unanswered, countVars>>

MoveWorkspace ==
    /\ ReqIs("move")
    /\ LET r == Head(reqs) IN
       IF ~Knows(wsDoc.rows, r.ws) THEN WsRefuses
       ELSE Mutates([wsDoc EXCEPT !.order = InFrontOf(@, r.ws, r.before)], sess)
    /\ UNCHANGED <<nextId, sess, mounted, namedBy, side, bar, unanswered, countVars>>

(* create_session: the workspace's folder, or the process default; the     *)
(* header first, then the account.                                         *)
NewSession ==
    /\ ReqIs("new") /\ nextId' = nextId + 1
    /\ LET w == Head(reqs).ws
           cwd == IF Knows(wsDoc.rows, w) THEN wsDoc.rows[w].path ELSE CHOOSE p \in Folders : TRUE
           ss == WithKey(sess, nextId, [cwd |-> cwd, archived |-> FALSE])
           doc == IF ~Knows(wsDoc.rows, w) THEN wsDoc
                  ELSE [wsDoc EXCEPT !.rows[w].sessions = <<nextId>> \o Without(@, nextId)]
           p == Published(doc, ss) IN
       /\ sess' = ss /\ wsDoc' = p[1] /\ wsDisk' = p[1] /\ drifted' = FALSE
       /\ HubReplies(p[2] \o <<[ev |-> "created", id |-> nextId]>>)
    /\ UNCHANGED <<mounted, namedBy, side, bar, unanswered, countVars>>

(* delete_session, archive_session, fork_session: prune saves only what it *)
(* changed.                                                                *)
Republishes(ss, tail) ==
    LET p == Published(wsDoc, ss) IN
    /\ sess' = ss /\ wsDoc' = p[1] /\ wsDisk' = IF p[1] = wsDoc THEN wsDisk ELSE p[1]
    /\ drifted' = FALSE /\ HubReplies(p[2] \o tail)

DeleteSession ==
    /\ ReqIs("delete")
    /\ LET s == Head(reqs).id IN
       IF Knows(sess, s) THEN Republishes(WithoutKey(sess, s), <<>>)
       ELSE HubReplies(<<>>) /\ UNCHANGED <<sess, wsDoc, wsDisk, drifted>>
    /\ UNCHANGED <<nextId, mounted, namedBy, side, bar, unanswered, countVars>>

(* Mutant: archiving says nothing to the sidebar. *)
ArchiveQuietly ==
    /\ ReqIs("archive")
    /\ LET s == Head(reqs).id IN
       IF Knows(sess, s) THEN sess' = [sess EXCEPT ![s].archived = TRUE] ELSE UNCHANGED sess
    /\ HubReplies(<<>>)
    /\ UNCHANGED <<nextId, wsDoc, wsDisk, drifted, mounted, namedBy, side, bar, unanswered, countVars>>

ArchiveSession ==
    /\ ReqIs("archive")
    /\ LET s == Head(reqs).id IN
       IF Knows(sess, s) /\ ~sess[s].archived
       THEN Republishes([sess EXCEPT ![s].archived = TRUE], <<>>)
       ELSE HubReplies(<<>>) /\ UNCHANGED <<sess, wsDoc, wsDisk, drifted>>
    /\ UNCHANGED <<nextId, mounted, namedBy, side, bar, unanswered, countVars>>

ForkSession ==
    /\ ReqIs("fork") /\ nextId' = nextId + 1
    /\ LET s == Head(reqs).id IN
       IF Knows(sess, s)
       THEN Republishes(WithKey(sess, nextId, [cwd |-> sess[s].cwd, archived |-> FALSE]),
                        <<[ev |-> "created", id |-> nextId]>>)
       ELSE HubReplies(<<[ev |-> "failed"]>>) /\ UNCHANGED <<sess, wsDoc, wsDisk, drifted>>
    /\ UNCHANGED <<mounted, namedBy, side, bar, unanswered, countVars>>

(* search_sessions: what it found for the query. *)
SearchSessions ==
    /\ ReqIs("search") /\ HubReplies(<<[ev |-> "hits", for |-> Head(reqs).query]>>)
    /\ UNCHANGED <<backVars, side, bar, unanswered, countVars>>

(* The folder's drive is unmounted, or back. *)
Flip(p) ==
    /\ flips < MountBound /\ flips' = flips + 1 /\ drifted' = TRUE
    /\ mounted' = IF p \in mounted THEN mounted \ {p} ELSE mounted \cup {p}
    /\ UNCHANGED <<nextId, wsDoc, wsDisk, sess, reqs, evs, side, bar, namedBy, unanswered, wsClicks, boots>>

(* The backend dies and starts again; the frontend reconnects and asks.    *)
(* Sessions are on disk (SessionStore).                                    *)
Reboots ==
    /\ boots < BootBound /\ boots' = boots + 1
    /\ LET l == Loads(wsDisk, sess, mounted) IN
       /\ nextId' = l.next /\ wsDoc' = l.doc /\ wsDisk' = l.doc
       /\ namedBy' = IF DOMAIN wsDisk.rows = {} THEN NamesOf(l.doc) ELSE namedBy
    /\ reqs' = <<[ask |-> "list"]>> /\ evs' = <<>>
    /\ UNCHANGED <<sess, mounted, side, bar, drifted, unanswered, wsClicks, flips>>

-----------------------------------------------------------------------------
(* The sidebar. *)
UserAsks(r) == wsClicks < ClickBound /\ wsClicks' = wsClicks + 1 /\ reqs' = Append(reqs, r)
             /\ UNCHANGED <<backVars, evs, boots, flips>>

(* WsAction::Add. *)
AddFolder(p) ==
    /\ UserAsks([ask |-> "create", path |-> p]) /\ side' = [side EXCEPT !.creating = p]
    /\ unanswered' = TRUE /\ UNCHANGED bar

RowIds == [i \in DOMAIN side.rows |-> side.rows[i].id]

(* WsAction::Move: the row it should land in front of, from what is drawn. *)
MoveRow(i, up) ==
    /\ IF up THEN i > 1 ELSE i < Len(side.rows)
    /\ UserAsks([ask |-> "move", ws |-> RowIds[i],
               before |-> IF up THEN RowIds[i - 1]
                          ELSE IF i + 2 <= Len(side.rows) THEN RowIds[i + 2] ELSE 0])
    /\ UNCHANGED <<side, bar, unanswered>>

RemoveRow(i) == UserAsks([ask |-> "remove", ws |-> RowIds[i]]) /\ UNCHANGED <<side, bar, unanswered>>
RenameRow(i) == UserAsks([ask |-> "rename", ws |-> RowIds[i]]) /\ UNCHANGED <<side, bar, unanswered>>

(* "New session here", not offered for a missing folder. *)
NewHere(i) ==
    /\ ~side.rows[i].missing /\ UserAsks([ask |-> "new", ws |-> RowIds[i]])
    /\ UNCHANGED <<side, bar, unanswered>>

(* "New session": in the workspace of the current one. *)
OfSession(s) ==
    LET at == {i \in DOMAIN side.rows : s \in ToSet(side.rows[i].members)} IN
    IF at = {} THEN 0 ELSE RowIds[CHOOSE i \in at : \A j \in at : i <= j]
NewRow == UserAsks([ask |-> "new", ws |-> OfSession(side.current)]) /\ UNCHANGED <<side, bar, unanswered>>

(* delete_session and RowAction::Archive take the row away at once. *)
TakeRow(s, a) ==
    /\ s \in side.list /\ side.list # {s}
    /\ UserAsks([ask |-> a, id |-> s])
    /\ side' = [side EXCEPT !.list = @ \ {s},
                  !.current = IF @ # s THEN @ ELSE CHOOSE r \in side.list \ {s} : TRUE]
    /\ UNCHANGED <<bar, unanswered>>

ForkRow(s) == s \in side.list /\ UserAsks([ask |-> "fork", id |-> s]) /\ UNCHANGED <<side, bar, unanswered>>

(* The search field, search_tick and close_search. *)
TypesQuery(q) ==
    /\ wsClicks < ClickBound /\ wsClicks' = wsClicks + 1 /\ bar' = [bar EXCEPT !.query = q]
    /\ UNCHANGED <<backVars, reqs, evs, side, unanswered, boots, flips>>
SearchTick ==
    /\ bar.query # bar.sent
    /\ IF bar.query = 0 THEN bar' = [bar EXCEPT !.sent = 0, !.hits = 0] /\ UNCHANGED reqs
       ELSE /\ bar' = [bar EXCEPT !.sent = bar.query]
            /\ reqs' = Append(reqs, [ask |-> "search", query |-> bar.query])
    /\ UNCHANGED <<backVars, evs, side, unanswered, countVars>>
CloseSearch ==
    /\ bar.query # 0 /\ bar' = [query |-> 0, sent |-> 0, hits |-> 0]
    /\ UNCHANGED <<backVars, reqs, evs, side, unanswered, countVars>>

Arrives(e) == evs # <<>> /\ Head(evs).ev = e /\ evs' = Tail(evs) /\ UNCHANGED <<backVars, countVars>>

(* WorkspacesChanged: the folder just added, found by path, gets a session. *)
WorkspacesChanged ==
    /\ Arrives("workspaces")
    /\ LET v == Head(evs).view
           mine == {i \in DOMAIN v.rows : v.rows[i].path = side.creating} IN
       /\ side' = [side EXCEPT !.rows = v.rows, !.ungrouped = v.ungrouped, !.creating = "none"]
       /\ reqs' = IF mine = {} THEN reqs
                  ELSE Append(reqs, [ask |-> "new", ws |-> v.rows[CHOOSE i \in mine : TRUE].id])
       /\ unanswered' = (unanswered /\ mine = {})
    /\ UNCHANGED bar

RequestFailed ==
    /\ Arrives("failed") /\ side' = [side EXCEPT !.creating = "none"]
    /\ unanswered' = FALSE /\ UNCHANGED <<reqs, bar>>

(* SessionList: the current one must be in it; none at all asks for one. *)
SessionListed ==
    /\ Arrives("sessions")
    /\ LET l == Head(evs).list IN
       /\ side' = [side EXCEPT !.list = l,
                     !.current = IF @ \in l \/ l = {} THEN @ ELSE LargestId(l)]
       /\ reqs' = IF l = {} THEN Append(reqs, [ask |-> "new", ws |-> 0]) ELSE reqs
    /\ UNCHANGED <<bar, unanswered>>

(* SessionCreated: adopted, switched to, and listed again. *)
SessionCreated ==
    /\ Arrives("created")
    /\ side' = [side EXCEPT !.list = @ \cup {Head(evs).id}, !.current = Head(evs).id]
    /\ reqs' = Append(reqs, [ask |-> "list"]) /\ UNCHANGED <<bar, unanswered>>

SearchHits ==
    /\ Arrives("hits") /\ bar' = [bar EXCEPT !.hits = Head(evs).for]
    /\ UNCHANGED <<reqs, side, unanswered>>

HubHandles ==
    \/ ListWorkspaces \/ CreateWorkspace \/ DeleteWorkspace \/ RenameWorkspace \/ MoveWorkspace
    \/ NewSession \/ DeleteSession \/ ArchiveSession \/ ForkSession \/ SearchSessions

Sidebar ==
    \/ WorkspacesChanged \/ RequestFailed \/ SessionListed \/ SessionCreated \/ SearchHits
    \/ SearchTick \/ CloseSearch \/ NewRow
    \/ \E q \in {0, 1, 2} : TypesQuery(q)
    \/ \E p \in Folders : AddFolder(p)
    \/ \E i \in DOMAIN side.rows :
         \/ RemoveRow(i) \/ RenameRow(i) \/ NewHere(i)
         \/ \E up \in BOOLEAN : MoveRow(i, up)
    \/ \E s \in side.list : TakeRow(s, "delete") \/ TakeRow(s, "archive") \/ ForkRow(s)

WsNext == HubHandles \/ Sidebar \/ Reboots \/ \E p \in Folders : Flip(p)

-----------------------------------------------------------------------------
(* "The session header is the proof" (workspaces.rs:10): in what the       *)
(* sidebar draws once the connection is quiet, each session that is not    *)
(* archived is in a group or Ungrouped, none is in a group whose folder    *)
(* its header does not name nor Ungrouped while that folder is there and   *)
(* drawn, a folder is marked missing when it is, and every session has its *)
(* row.                                                                    *)
SidebarIsTrue ==
    reqs = <<>> /\ evs = <<>> /\ ~drifted =>
        LET live == {s \in DOMAIN sess : ~sess[s].archived}
            in == UNION {ToSet(side.rows[i].members) : i \in DOMAIN side.rows} IN
        /\ in \cup side.ungrouped = live /\ in \cap side.ungrouped = {}
        /\ \A i \in DOMAIN side.rows : \A s \in ToSet(side.rows[i].members) :
              sess[s].cwd = side.rows[i].path
        /\ \A i \in DOMAIN side.rows :
              /\ side.rows[i].missing <=> side.rows[i].path \notin mounted
              /\ ~side.rows[i].missing => \A s \in side.ungrouped : sess[s].cwd # side.rows[i].path
        /\ RowIds = wsDoc.order /\ live \subseteq side.list

(* "the ids a bootstrap mints are stable from the moment the document is   *)
(* written" (workspaces.rs:132): an id goes on naming the folder it was    *)
(* registered for.  Does not hold: after a restart the counter starts past *)
(* the sessions, not past the workspaces.                                  *)
WorkspaceIdsStable == \A w \in DOMAIN wsDoc.rows : wsDoc.rows[w].path = namedBy[w]

(* "an unmounted drive is a status and not a deletion" (workspaces.rs:23): *)
(* a step that registers, removes, moves and deletes nothing keeps the     *)
(* manual order of a workspace's sessions.  Does not hold: prune drops     *)
(* them while the folder is away.                                          *)
OrderOutlivesUnmount ==
    [][\A w \in DOMAIN wsDoc.rows \cap DOMAIN wsDoc'.rows :
         wsDoc.rows[w].path = wsDoc'.rows[w].path =>
            \A s \in ToSet(wsDoc.rows[w].sessions) :
               s \in DOMAIN sess' => s \in ToSet(wsDoc'.rows[w].sessions)]_wsVars

(* "held until the answer arrives" (app.rs:779): the folder being added is *)
(* remembered until it was answered.  Does not hold: any projection that   *)
(* arrives takes it.                                                       *)
HeldUntilAnswer == unanswered => side.creating # "none"

(* "A row that only matched on content shows the line it matched on"       *)
(* (sidebar.rs): hits on screen are those of the query.  Does not hold.    *)
HitsOfQuery == bar.hits \in {0, bar.sent}
=============================================================================
