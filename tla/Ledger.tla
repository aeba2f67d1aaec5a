------------------------------- MODULE Ledger -------------------------------
(***************************************************************************)
(* The Trajectory view: pages of a session's raw log                       *)
(* (crates/backend/src/trajectory.rs) asked for and put together by the    *)
(* desktop (crates/frontend/src/app.rs), while turns append to the log and *)
(* the user moves between sessions, reloads and loads more.                *)
(***************************************************************************)
EXTENDS Integers, Sequences, SequencesExt, FiniteSetsExt, Picked

CONSTANTS
    Books,        \* the sessions
    PageSize,     \* DEFAULT_PAGE
    LineBound,    \* bound: rows a log grows to
    AskPages,     \* bound: pages asked for
    MoveBound     \* bound: moves to another session

ASSUME LedgerAssumption == PageSize \in Nat \ {0}

VARIABLES
    books,       \* per session: the log, as kinds of rows; seq is the place
    openBook,    \* chat.session_id
    ledgerOf,    \* trajectory.session_id
    lines,       \* trajectory.rows
    envs,        \* trajectory.envelopes: seqs held
    more,        \* trajectory.next_seq, or none
    loading,     \* trajectory.loading
    pageAsks,    \* requests on their way
    pages,       \* answers on their way
    asked, moved

ledgerVars == <<books, openBook, ledgerOf, lines, envs, more, loading, pageAsks, pages, asked, moved>>

None == 0
RowKinds == {"start", "end", "envelope", "message"}
Within(log) == \E i \in DOMAIN log : log[i] = "start" /\ \A j \in i .. Len(log) : log[j] # "end"

LedgerInit ==
    /\ books = [b \in Books |-> <<>>]
    /\ openBook \in Books /\ ledgerOf = None
    /\ lines = <<>> /\ envs = {} /\ more = None /\ loading = FALSE
    /\ pageAsks = <<>> /\ pages = <<>> /\ asked = 0 /\ moved = 0

-----------------------------------------------------------------------------
(* trajectory::page.  The walk carries the turn and the envelope forward   *)
(* over the whole prefix; a turn's end still belongs to it.                *)

CarryTurn(log) ==
    LET turn[j \in 0 .. Len(log)] ==
            IF j = 0 THEN None
            ELSE IF log[j] = "start" THEN j
            ELSE IF j > 1 /\ log[j - 1] = "end" THEN None
            ELSE turn[j - 1]
    IN  turn

CarryEnvelope(log) ==
    LET env[j \in 0 .. Len(log)] ==
            IF j = 0 THEN None ELSE IF log[j] = "envelope" THEN j ELSE env[j - 1]
    IN  env

LineOf(log, i) == [seq |-> i, turn |-> CarryTurn(log)[i], env |-> CarryEnvelope(log)[i]]

Page(log, from) ==
    LET upto == Min({Len(log), from + PageSize - 1})
        rows == [k \in 1 .. upto - from + 1 |-> LineOf(log, from + k - 1)]
    IN  [rows |-> rows,
         envs |-> {rows[k].env : k \in DOMAIN rows} \ {None},
         next |-> IF upto < Len(log) THEN upto + 1 ELSE None]

(* A turn appends to a log. *)
LogGrows(b, k) ==
    /\ Len(books[b]) < LineBound
    /\ k = "start" => ~Within(books[b])
    /\ k = "end" => Within(books[b])
    /\ books' = [books EXCEPT ![b] = Append(@, k)]
    /\ UNCHANGED <<openBook, ledgerOf, lines, envs, more, loading, pageAsks, pages, asked, moved>>

(* LoadSessionEvents. *)
BackendPages ==
    /\ pageAsks # <<>> /\ pageAsks' = Tail(pageAsks)
    /\ LET a == Head(pageAsks)
       IN  pages' = Append(pages, [of |-> a.of, page |-> Page(books[a.of], a.from)])
    /\ UNCHANGED <<books, openBook, ledgerOf, lines, envs, more, loading, asked, moved>>

-----------------------------------------------------------------------------
(* switch_session drops the ledger, the loading mark included. *)
MoveTo(b) ==
    /\ b # openBook /\ moved < MoveBound /\ moved' = moved + 1
    /\ openBook' = b
    /\ ledgerOf' = None /\ lines' = <<>> /\ envs' = {} /\ more' = None /\ loading' = FALSE
    /\ UNCHANGED <<books, pageAsks, pages, asked>>

Ask(from) == pageAsks' = Append(pageAsks, [of |-> openBook, from |-> from])

(* load_trajectory: from the top, or the next page of what is shown. *)
LoadTrajectory(reset) ==
    LET fresh == reset \/ ledgerOf # openBook
    IN  /\ ~loading /\ asked < AskPages /\ asked' = asked + 1
        /\ fresh \/ more # None \/ lines = <<>>
        /\ loading' = TRUE
        /\ IF fresh
           THEN lines' = <<>> /\ envs' = {} /\ ledgerOf' = openBook /\ more' = None /\ Ask(1)
           ELSE Ask(IF more = None THEN 1 ELSE more) /\ UNCHANGED <<lines, envs, ledgerOf, more>>
        /\ UNCHANGED <<books, openBook, pages, moved>>

(* Mutant: a page that is on screen already is added again. *)
PageAdds(p) ==
    /\ lines' = lines \o p.rows
    /\ envs' = envs \cup p.envs /\ more' = p.next /\ ledgerOf' = openBook

(* SessionEvents: rows from the page's first on are replaced. *)
PageLands(p) ==
    /\ lines' = (IF p.rows = <<>> THEN lines
                 ELSE Picked(lines, {i \in DOMAIN lines : lines[i].seq < p.rows[1].seq})) \o p.rows
    /\ envs' = envs \cup p.envs /\ more' = p.next /\ ledgerOf' = openBook

PageArrives ==
    /\ pages # <<>> /\ pages' = Tail(pages)
    /\ loading' = FALSE
    /\ IF Head(pages).of = openBook
       THEN PageLands(Head(pages).page)
       ELSE UNCHANGED <<lines, envs, more, ledgerOf>>
    /\ UNCHANGED <<books, openBook, pageAsks, asked, moved>>

LedgerNext ==
    \/ \E b \in Books : MoveTo(b) \/ \E k \in RowKinds : LogGrows(b, k)
    \/ \E reset \in BOOLEAN : LoadTrajectory(reset)
    \/ BackendPages \/ PageArrives

-----------------------------------------------------------------------------
(* What the enclosing turn and the envelope in force are, said once for a  *)
(* whole log.                                                              *)
TurnAt(log, i) ==
    LET begun == {s \in 1 .. i : log[s] = "start"}
        open == {s \in begun : \A e \in s .. i - 1 : log[e] # "end"}
    IN  IF open = {} THEN None ELSE Max(open)
EnvelopeAt(log, i) ==
    LET seen == {e \in 1 .. i : log[e] = "envelope"} IN IF seen = {} THEN None ELSE Max(seen)

(* The ledger shows rows of the open session only, each once and in order, *)
(* under the turn and the envelope the whole log puts them in, and holds   *)
(* every envelope its rows point at, however pages, reloads, moves and     *)
(* appends interleave.                                                     *)
LedgerFaithful ==
    /\ \A i, j \in DOMAIN lines : i < j => lines[i].seq < lines[j].seq
    /\ \A i \in DOMAIN lines :
          LET r == lines[i]
          IN  /\ r.seq <= Len(books[openBook])
              /\ r.turn = TurnAt(books[openBook], r.seq)
              /\ r.env = EnvelopeAt(books[openBook], r.seq)
              /\ r.env # None => r.env \in envs

(* No page is missing from the middle.  Does not hold: a late answer for   *)
(* the session clears the loading mark of a newer request, and pages cross *)
(* a reload.                                                               *)
LedgerHasNoGap == \A i \in DOMAIN lines : lines[i].seq = i

=============================================================================
