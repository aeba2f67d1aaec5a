------------------------------ MODULE LongTerm ------------------------------
(***************************************************************************)
(* The long-term memory store (crates/agents/src/long_term.rs): one JSON   *)
(* document under one lock, written by the model's tools (remember.rs and  *)
(* memory_control of chat.rs), by a person and by the keeper, damaged from *)
(* outside, and shown to a session at the start of its turns.              *)
(***************************************************************************)
EXTENDS Integers, FiniteSets, Sequences, SequencesExt, FiniteSetsExt

CONSTANTS
    Facts,         \* texts of facts
    Alike,         \* pairs of facts is_duplicate calls the same
    Folders,       \* project folders; the session works in Here
    Here,
    StoreCap,      \* STORE_CAP
    PromptItems,   \* memory.toml prompt_items
    SaveBound      \* bound: writes

VARIABLES
    document,    \* memories of the document on disk, in order
    health,      \* the document: "good", "newer", "garbled" JSON, "unreadable" bytes
    moved,       \* ids in documents moved aside
    snapshot,    \* ids on the session's surface: the newest snapshot, or none
    folded,      \* a compaction folded older history away
    attached,    \* the session's own memory is on the surface
    (* history, read by the properties only *)
    saves,       \* writes so far; the clock
    chosen,      \* ids a person or the model chose: their write, or told they had it
    authored,    \* ids a person or the model wrote
    forgotten,   \* ids deleted
    overwritten  \* ids of a document that could not be read

longVars == <<document, health, moved, snapshot, folded, attached, saves, chosen, authored, forgotten, overwritten>>
pastVars == <<chosen, authored, forgotten, overwritten>>

Global == "global"
Scopes == Folders \cup {Global}
NoSnapshot == {}
IdsOf(ms) == {ms[i].id : i \in DOMAIN ms}

LongTermInit ==
    /\ document = <<>> /\ health = "good" /\ moved = {} /\ snapshot = NoSnapshot /\ folded = FALSE /\ attached = FALSE
    /\ saves = 0 /\ chosen = {} /\ authored = {} /\ forgotten = {} /\ overwritten = {}

-----------------------------------------------------------------------------
(* Store::read: what does not parse is moved aside, what cannot be read at *)
(* all is taken for a missing file.                                        *)
Read == IF health \in {"good", "newer"} THEN document ELSE <<>>

MovesAside ==
    moved' = IF health = "garbled" THEN moved \cup IdsOf(document) ELSE moved

(* read_for_write refuses a newer document. *)
Writable == health # "newer" /\ saves < SaveBound

Replaces(ms) ==
    /\ document' = ms /\ health' = "good"
    /\ overwritten' = IF health = "unreadable" THEN overwritten \cup IdsOf(document) ELSE overwritten
    /\ saves' = saves + 1

Leaves ==
    /\ document' = IF health = "garbled" THEN <<>> ELSE document
    /\ health' = IF health = "garbled" THEN "good" ELSE health
    /\ UNCHANGED <<overwritten, saves>>

(* add's comparison: the same words, or for the keeper nearly so. *)
Says(m, fact, scope, source) ==
    /\ m.scope = scope
    /\ \/ m.text = fact
       \/ source = "auto" /\ <<m.text, fact>> \in Alike

(* Mutant: the oldest entry goes, whoever wrote it. *)
EvictOldest(ms) ==
    IF Len(ms) <= StoreCap THEN ms ELSE Tail(ms)

(* evict: over the cap the keeper's oldest goes; never a deliberate one. *)
Evict(ms) ==
    LET autos == {i \in DOMAIN ms : ms[i].source = "auto"}
    IN  IF Len(ms) <= StoreCap \/ autos = {} THEN ms
        ELSE RemoveAt(ms, CHOOSE i \in autos : \A j \in autos : ms[i].at <= ms[j].at)

(* Store::add by the model, a person or the keeper.  Writing may fail and  *)
(* then leaves the document as it was (atomic_write).                      *)
AddMemory(fact, scope, source, diskTakes) ==
    LET twins == {i \in DOMAIN Read : Says(Read[i], fact, scope, source)}
        m == [id |-> saves + 1, text |-> fact, scope |-> scope, source |-> source, at |-> saves + 1]
    IN  /\ Writable /\ MovesAside
        /\ \/ /\ twins # {} /\ Leaves
              /\ chosen' = IF source = "auto" THEN chosen ELSE chosen \cup {Read[Min(twins)].id}
              /\ UNCHANGED authored
           \/ /\ twins = {} /\ diskTakes
              /\ Replaces(Evict(Append(Read, m)))
              /\ chosen' = IF source = "auto" THEN chosen ELSE chosen \cup {m.id}
              /\ authored' = IF source = "auto" THEN authored ELSE authored \cup {m.id}
           \/ twins = {} /\ ~diskTakes /\ Leaves /\ UNCHANGED <<chosen, authored>>
        /\ UNCHANGED <<snapshot, folded, attached, forgotten>>

(* Store::update: id, source and creation stay. *)
UpdateMemory(i, fact, scope) ==
    /\ Writable /\ i \in DOMAIN Read /\ MovesAside
    /\ Replaces([Read EXCEPT ![i].text = fact, ![i].scope = scope, ![i].at = saves + 1])
    /\ chosen' = chosen \cup {Read[i].id}
    /\ UNCHANGED <<snapshot, folded, attached, authored, forgotten>>

DeleteMemory(i) ==
    /\ Writable /\ i \in DOMAIN Read /\ MovesAside
    /\ Replaces(RemoveAt(Read, i))
    /\ forgotten' = forgotten \cup {Read[i].id}
    /\ UNCHANGED <<snapshot, folded, attached, chosen, authored>>

Applies(m) == m.scope \in {Global, Here}
Visible == SelectSeq(Read, Applies)

(* forget: an id, or words that a single visible memory holds. *)
Forget(fact) ==
    LET hits == {i \in DOMAIN Read : Applies(Read[i]) /\ Read[i].text = fact}
    IN  Cardinality(hits) = 1 /\ DeleteMemory(Min(hits))

-----------------------------------------------------------------------------
(* render_block: the newest memories within the caps. *)
Newest(ms) ==
    {ms[i].id : i \in {k \in DOMAIN ms : Cardinality({j \in DOMAIN ms : ms[j].at > ms[k].at}) < PromptItems}}

(* refresh_long_term at the start of a turn: the snapshot is replaced when *)
(* it changed; with nothing to say the old one is withdrawn.               *)
TurnReads ==
    /\ MovesAside /\ Leaves
    /\ snapshot' = Newest(Visible)
    /\ UNCHANGED <<folded, attached, chosen, authored, forgotten>>

(* A compaction folds both memories away and reattach_memory puts them     *)
(* back; the session's own only once history was folded.                   *)
CompactReattaches ==
    /\ MovesAside /\ Leaves
    /\ folded' = TRUE /\ attached' = folded' /\ snapshot' = Newest(Visible)
    /\ UNCHANGED <<chosen, authored, forgotten>>

(* From outside: another build, a bad edit, bytes that are no text. *)
DocumentDamaged(how) ==
    /\ health = "good" /\ document # <<>> /\ health' = how
    /\ UNCHANGED <<document, moved, snapshot, folded, attached, saves, pastVars>>

(* memory_control: remember writes for this folder or for all, forget only *)
(* reaches what the session sees; recall reads.                            *)
MemoryControl ==
    \/ \E f \in Facts, s \in {Global, Here}, ok \in BOOLEAN : AddMemory(f, s, "model", ok)
    \/ \E f \in Facts : Forget(f)

(* save_memory and delete_memory: a person in Settings, any folder. *)
SaveMemory ==
    \/ \E f \in Facts, s \in Scopes, ok \in BOOLEAN : AddMemory(f, s, "user", ok)
    \/ \E i \in DOMAIN document : DeleteMemory(i) \/ \E f \in Facts, s \in Scopes : UpdateMemory(i, f, s)

(* The keeper promotes a fact of its session's memory. *)
Promotes == \E f \in Facts, s \in {Global, Here}, ok \in BOOLEAN : AddMemory(f, s, "auto", ok)

LongTermNext ==
    \/ MemoryControl \/ SaveMemory \/ Promotes
    \/ TurnReads \/ CompactReattaches
    \/ \E how \in {"newer", "garbled", "unreadable"} : DocumentDamaged(how)

LongTermSpec == LongTermInit /\ [][LongTermNext]_longVars

-----------------------------------------------------------------------------
(* What a person or the model wrote is in the document, was deleted by id, *)
(* or is in a file moved aside, except for a document whose bytes could    *)
(* not be read as text: neither the cap, nor a promotion, nor a failed     *)
(* write, nor a document found garbled loses it.                           *)
DeliberateKept == authored \subseteq IdsOf(document) \cup moved \cup forgotten \cup overwritten

(* long_term.rs:277-278 "What a person or the model chose to remember is   *)
(* never evicted."  Refuted: a fact the keeper promoted first keeps its    *)
(* `auto` mark when a person edits it or is told it is already remembered. *)
ChosenKept == chosen \subseteq IdsOf(document) \cup moved \cup forgotten \cup overwritten

(* long_term.rs:20-22 "A document that will not parse is moved aside       *)
(* rather than overwritten".  Refuted for one that is not text.            *)
NeverOverwritten == overwritten \subseteq forgotten

=============================================================================
