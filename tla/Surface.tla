------------------------------ MODULE Surface ------------------------------
(***************************************************************************)
(* The model-visible history of a session: the fold of its append-only     *)
(* event log (derive_surface in crates/sica-core/src/event.rs) and the     *)
(* steps of crates/backend/src/chat.rs that shadow parts of it: context    *)
(* snapshots, pruned tool results, compaction summaries, edited prompts.   *)
(*                                                                         *)
(* derive_surface folds the log one event at a time, so the fold is kept   *)
(* as the variable `surface` and every append applies one more step of it. *)
(* Only what the fold looks at is kept of an event: its seq, its role and  *)
(* the tool call it makes or answers.  Rows that are not model-visible     *)
(* (TurnStart, TurnEnd, titles, notices) only move last_seq: those written *)
(* with a visible row are counted with it, the others are Note.  The       *)
(* native protocol is modelled, one call per assistant message.            *)
(***************************************************************************)
EXTENDS Naturals, Sequences, SequencesExt, Picked

CONSTANTS
    MaxSeq,   \* bound: rows a log may grow to
    MinFold,  \* compact::MIN_FOLD, 4 in the code
    MinTail   \* compact::MIN_TAIL, 2 in the code

ASSUME SurfaceAssumption ==
    MaxSeq \in Nat /\ MinFold \in Nat \ {0} /\ MinTail \in Nat \ {0}

(* "runtime" and "instructions" are the contexts of which one copy is kept *)
(* (long-term and session memory are refreshed as the instructions are);   *)
(* "calls" is an assistant message with a tool call, "tool" its result.    *)
Contexts == {"runtime", "instructions"}
Roles == Contexts \cup {"user", "calls", "tool", "reply", "summary"}
Entries == [seq : 1 .. MaxSeq, role : Roles, call : 0 .. MaxSeq, big : BOOLEAN]

Entry(q, r) == [seq |-> q, role |-> r, call |-> 0, big |-> FALSE]

(* SurfaceOp::Replace and EventKind::Rewind, as derive_surface applies them. *)
Retain(s, from, to) == Picked(s, {i \in DOMAIN s : s[i].seq < from \/ s[i].seq > to})

(* Mutant of Replace: the end of the span is excluded. *)
ReplaceShortSpan(s, from, to, e) ==
    LET kept == SelectSeq(s, LAMBDA x : x.seq < from \/ x.seq >= to)
        at == SelectInSeq(kept, LAMBDA x : x.seq >= from)
    IN  InsertAt(kept, IF at = 0 THEN Len(kept) + 1 ELSE at, e)

Replace(s, from, to, e) ==
    LET kept == Retain(s, from, to)
        at == SelectInSeq(kept, LAMBDA x : x.seq >= from)
    IN  InsertAt(kept, IF at = 0 THEN Len(kept) + 1 ELSE at, e)

(* append_runtime_context, refresh_instructions: the newest copy still on  *)
(* the surface is shadowed, or the snapshot is appended.                   *)
Latest(s, k) == SelectLastInSeq(s, LAMBDA e : e.role = k)

(* Mutant of Snapshot: the predecessor is not looked for. *)
SnapshotAppends(s, q, k) == Append(s, Entry(q, k))

Snapshot(s, q, k) ==
    LET i == Latest(s, k)
    IN  IF i = 0 THEN Append(s, Entry(q, k))
        ELSE Replace(s, s[i].seq, s[i].seq, Entry(q, k))

(* prune_tool_results on the first `keep` entries: each big result is      *)
(* replaced, in order, by a shorter row of its own.                        *)
Prunable(s, keep) ==
    Picked(s, {i \in 1 .. keep : s[i].role = "tool" /\ s[i].big})

(* Mutant of Prune: the new rows' seqs are one too far. *)
PruneSkipsSeq(s, q, keep) ==
    LET old == Prunable(s, keep)
        row(k) == [old[k] EXCEPT !.seq = q + k + 1, !.big = FALSE]
        after[k \in 0 .. Len(old)] ==
            IF k = 0 THEN s
            ELSE Replace(after[k - 1], old[k].seq, old[k].seq, row(k))
    IN  after[Len(old)]

Prune(s, q, keep) ==
    LET old == Prunable(s, keep)
        row(k) == [old[k] EXCEPT !.seq = q + k, !.big = FALSE]
        after[k \in 0 .. Len(old)] ==
            IF k = 0 THEN s
            ELSE Replace(after[k - 1], old[k].seq, old[k].seq, row(k))
    IN  after[Len(old)]

(* split_index: the token budget asks for a tail from position `raw` + 1   *)
(* on, and the split walks back until it parts no call from its result.    *)
PartsPair(s, k) ==
    \/ k < Len(s) /\ s[k + 1].role = "tool"
    \/ k > 0 /\ s[k].role = "calls"

(* Mutant of SplitIndex: the split stays where the budget puts it. *)
SplitAtBudget(s, raw) == raw

SplitIndex(s, raw) ==
    CHOOSE k \in 0 .. raw :
        /\ k = 0 \/ ~PartsPair(s, k)
        /\ \A j \in k + 1 .. raw : PartsPair(s, j)

(* What it may answer over every budget; NoSplit is its None. *)
NoSplit == 0
Splits(s) ==
    IF Len(s) < MinFold + MinTail THEN {NoSplit}
    ELSE LET answers == {SplitIndex(s, raw) : raw \in 0 .. Len(s) - MinTail}
         IN  {IF k < MinFold THEN NoSplit ELSE k : k \in answers}

-----------------------------------------------------------------------------
VARIABLES
    surface, \* the derived history
    seq,     \* SessionLog::last_seq
    phase,   \* "idle", or "hop" while a turn runs
    call,    \* the tool call the turn is waiting on, or 0
    comp     \* the compaction that waits for its summary, or None

surfaceVars == <<surface, seq, phase, call, comp>>

None == [on |-> FALSE, split |-> 0, last |-> 0, view |-> <<>>]

SurfaceInit ==
    /\ surface = <<>>
    /\ seq = 0
    /\ phase = "idle"
    /\ call = 0
    /\ comp = None

Room(n) == seq + n <= MaxSeq

(* The log block of start_turn, over the surface s at seq q: the           *)
(* instructions when they changed, the runtime snapshot, the user message. *)
OpenTurn(s, q) ==
    \E changed \in BOOLEAN :
        LET a == IF changed THEN Snapshot(s, q + 1, "instructions") ELSE s
            n == IF changed THEN q + 1 ELSE q
            b == Snapshot(a, n + 1, "runtime")
        IN  /\ n + 2 <= MaxSeq
            /\ surface' = Append(b, Entry(n + 2, "user"))
            /\ seq' = n + 2
            /\ phase' = "hop"
            /\ UNCHANGED <<call, comp>>

NewTurn ==
    /\ phase = "idle"
    /\ OpenTurn(surface, seq)

(* edit_user_message: the same block, after a rewind from a visible prompt *)
(* to the end of the log.                                                  *)
EditedTurn(i) ==
    /\ phase = "idle"
    /\ surface[i].role = "user"
    /\ OpenTurn(Retain(surface, surface[i].seq, seq), seq + 1)

(* The hops of a turn: a steer drained at the top of one, a tool call and  *)
(* its result, the final reply.                                            *)
Appended(e) ==
    /\ Room(1)
    /\ surface' = Append(surface, e)
    /\ seq' = seq + 1
    /\ UNCHANGED comp

Steered ==
    /\ phase = "hop" /\ call = 0
    /\ Appended(Entry(seq + 1, "user"))
    /\ UNCHANGED <<phase, call>>

ToolCall ==
    /\ phase = "hop" /\ call = 0
    /\ Appended([Entry(seq + 1, "calls") EXCEPT !.call = seq + 1])
    /\ call' = seq + 1
    /\ UNCHANGED phase

ToolResult ==
    /\ call # 0
    /\ \E big \in BOOLEAN :
          Appended([Entry(seq + 1, "tool") EXCEPT !.call = call, !.big = big])
    /\ call' = 0
    /\ UNCHANGED phase

Reply ==
    /\ phase = "hop" /\ call = 0
    /\ Appended(Entry(seq + 1, "reply"))
    /\ phase' = "idle"
    /\ UNCHANGED call

(* A row that is not model-visible: a job notice, a mode change, a title.  *)
Note ==
    /\ Room(1)
    /\ seq' = seq + 1
    /\ UNCHANGED <<surface, phase, call, comp>>

(* prune_oversized_results, after a request overflowed the window. *)
PruneAll ==
    /\ phase = "hop" /\ call = 0
    /\ LET n == Len(Prunable(surface, Len(surface)))
       IN  /\ n > 0 /\ Room(n)
           /\ seq' = seq + n
    /\ surface' = Prune(surface, seq, Len(surface))
    /\ UNCHANGED <<phase, call, comp>>

(* compact_session up to its request: prune what is older than the tail,   *)
(* and, unless that was enough or nothing can be folded, send what is      *)
(* before the split to the summariser.  The turn calls it between hops,    *)
(* /compact whenever it likes.                                             *)
CompactStart ==
    /\ ~comp.on
    /\ \E split \in Splits(surface) :
          LET keep == IF split # NoSplit THEN split
                      ELSE IF Len(surface) > MinTail THEN Len(surface) - MinTail
                      ELSE 0
              n == Len(Prunable(surface, keep))
              s == Prune(surface, seq, keep)
          IN  /\ Room(n + 1)
              /\ surface' = s
              /\ seq' = seq + n
              /\ \/ n > 0 /\ UNCHANGED comp
                 \/ \E k \in (IF n > 0 THEN Splits(s) ELSE {split}) \ {NoSplit} :
                       comp' = [on |-> TRUE, split |-> k, last |-> seq + n,
                                view |-> s]
    /\ UNCHANGED <<phase, call>>

(* The summary arrives and is written over the span it was made from,      *)
(* provided the log did not move meanwhile.                                *)
SummaryLands ==
    /\ surface' = Replace(surface, comp.view[1].seq, comp.view[comp.split].seq,
                          Entry(seq + 1, "summary"))
    /\ seq' = seq + 1
    /\ comp' = None
    /\ UNCHANGED <<phase, call>>

(* Mutant of CompactLand: the log's seq is not compared. *)
CompactLandUnchecked == comp.on /\ Room(1) /\ SummaryLands

CompactLand ==
    /\ comp.on
    /\ Room(1)
    /\ comp.last = seq
    /\ SummaryLands

(* The log moved, or the summariser gave nothing usable. *)
CompactDiscard ==
    /\ comp.on
    /\ comp' = None
    /\ UNCHANGED <<surface, seq, phase, call>>

SurfaceNext ==
    \/ NewTurn
    \/ \E i \in 1 .. Len(surface) : EditedTurn(i)
    \/ Steered \/ ToolCall \/ ToolResult \/ Reply \/ Note
    \/ PruneAll \/ CompactStart \/ CompactLand \/ CompactDiscard

SurfaceSpec == SurfaceInit /\ [][SurfaceNext]_surfaceVars

-----------------------------------------------------------------------------
(* Properties *)

(* Types, and every visible entry carries the seq of a row already logged. *)
SurfaceTypeOK ==
    /\ surface \in Seq(Entries)
    /\ seq \in 0 .. MaxSeq
    /\ \A i \in 1 .. Len(surface) : surface[i].seq <= seq
    /\ phase \in {"idle", "hop"}
    /\ call \in 0 .. MaxSeq
    /\ comp.on \in BOOLEAN
    /\ comp.view \in Seq(Entries)
    /\ comp.split \in 0 .. Len(comp.view)

Seqs(s) == {s[i].seq : i \in 1 .. Len(s)}

(* "One copy is ever model-visible" (append_runtime_context): however      *)
(* snapshots, prunes, compactions and edits interleave, no context has two *)
(* copies on the surface.                                                  *)
OneSnapshot ==
    \A i, j \in 1 .. Len(surface) :
        surface[i].role \in Contexts /\ surface[j].role = surface[i].role => i = j

(* A landing summary is of what the model still sees: nothing it was       *)
(* written from has left the surface, and nothing has joined it, while the *)
(* summariser was at work (the last_seq check of compact_session).         *)
SummaryOfVisible ==
    [][CompactLand => Seqs(comp.view) = Seqs(surface)]_surfaceVars

(* Call j of s has its result at i, with nothing but results between.     *)
Answers(s, j, i) ==
    /\ s[j].role = "calls" /\ s[i].role = "tool" /\ s[i].call = s[j].call
    /\ \A m \in j + 1 .. i - 1 : s[m].role = "tool"

(* Every result of s stands behind its call, and every call has one. *)
InPairs(s) ==
    /\ \A i \in 1 .. Len(s) : s[i].role = "tool" => \E j \in 1 .. i - 1 : Answers(s, j, i)
    /\ \A j \in 1 .. Len(s) : s[j].role = "calls" => \E i \in j + 1 .. Len(s) : Answers(s, j, i)

(* Whatever the budget asks for, split_index cuts a history whose results  *)
(* stand behind their calls into two such histories, and leaves a tail.    *)
SplitKeepsPairs ==
    comp.on /\ InPairs(comp.view) =>
        /\ InPairs(SubSeq(comp.view, 1, comp.split))
        /\ InPairs(SubSeq(comp.view, comp.split + 1, Len(comp.view)))
        /\ Len(comp.view) - comp.split >= MinTail

(* The surface after a compaction as the splice in place would leave it.   *)
Folded == <<Entry(seq', "summary")>> \o SubSeq(surface, comp.split + 1, Len(surface))
InLogOrder(s) == \A i, j \in 1 .. Len(s) : i < j => s[i].seq < s[j].seq
(* While the surface is in log order, a summary's Replace does what the    *)
(* in-place splice did: the summary, then the tail it was told to keep.    *)
SpliceInLogOrder ==
    [][CompactLand /\ InLogOrder(surface) => surface' = Folded]_surfaceVars

-----------------------------------------------------------------------------
(* Properties the sources state and the code does not keep (see README).   *)

(* Where the entry with this seq stands in s; 0 when it does not. *)
At(s, q) == SelectInSeq(s, LAMBDA e : e.seq = q)

(* A new runtime snapshot "shadows its predecessor at the position the     *)
(* first one took": it does not move past another entry.                   *)
SnapshotKeepsPlace ==
    [][NewTurn /\ Latest(surface, "runtime") # 0 =>
          \A j \in 1 .. Len(surface) : surface[j].role \notin Contexts =>
              (j < Latest(surface, "runtime")
                  <=> At(surface', surface[j].seq) < Latest(surface', "runtime"))
      ]_surfaceVars

(* "The Replace fold must produce exactly what the old in-place splice     *)
(* (summary + messages[split..]) produced."                                *)
FoldIsSplice == [][CompactLand => surface' = Folded]_surfaceVars

(* "The rewind drops that message and everything after it": the summary of *)
(* what came before the edited prompt stays.                               *)
RewindDropsTail ==
    [][\A i \in 1 .. Len(surface) : EditedTurn(i) =>
          \A j \in 1 .. i - 1 : surface[j].role = "summary" =>
              surface[j].seq \in Seqs(surface')]_surfaceVars

(* Every result of s follows the call it answers, at whatever distance. *)
Paired(s) ==
    \A i \in 1 .. Len(s) : s[i].role = "tool" =>
        \E j \in 1 .. i - 1 : s[j].role = "calls" /\ s[j].call = s[i].call

(* "The tail must not open on a tool result whose assistant message is     *)
(* about to be folded": the summariser gets no call without its result.    *)
SplitPartsNoPair ==
    comp.on /\ Paired(comp.view) => Paired(SubSeq(comp.view, comp.split + 1, Len(comp.view)))

(* "A Replace span never splits a tool call from its result": a visible    *)
(* result has its call before it.                                          *)
PairsStayTogether == Paired(surface)
=============================================================================
