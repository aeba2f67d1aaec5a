---------------------------- MODULE SessionStore ----------------------------
(***************************************************************************)
(* One session's log in memory and on disk                                 *)
(* (crates/backend/src/sessions_store.rs): appends, flushes that may fail  *)
(* half way, crashes at any moment, loading, the rewrite of an older       *)
(* format and the migration of a legacy TOML file.                         *)
(*                                                                         *)
(* A row is a number, minted once.  The file is its sequence of lines: the *)
(* row a line holds, or Bad when the line does not parse.  `open` says     *)
(* that the last line has no newline yet, so that the next write goes on   *)
(* from there: two rows in one line parse as neither.  What a write leaves *)
(* behind when it does not finish is a prefix of what it was given.        *)
(***************************************************************************)
EXTENDS Naturals, Sequences, FiniteSets, SequencesExt, Picked

CONSTANTS
    Bad,        \* a line that does not parse
    MaxRows,    \* bound: rows minted
    MaxTears,   \* bound: writes that do not finish
    OldRows     \* rows of the session an older or newer build left behind

ASSUME SessionStoreAssumption ==
    /\ Bad \notin Nat
    /\ {MaxRows, MaxTears} \subseteq Nat
    /\ OldRows \in 1 .. MaxRows

VARIABLES
    file,    \* the lines of <id>.jsonl
    present, \* the file exists
    open,    \* its last line is not terminated
    gen,     \* its format: "current", "old" or "future"
    toml,    \* the legacy file: "none", "toml" or "bak"
    pc,      \* "down", "up", or "moving" inside migrate_toml
    loaded,  \* the session is in the hub
    mem,     \* SessionLog.events
    flushed, \* SessionLog.flushed
    rewrite, \* SessionLog.rewrite
    minted,  \* rows minted so far
    heads,   \* those of them that are SessionCreated rows
    tears,   \* writes that did not finish
    (* history *)
    acked    \* rows a flush has confirmed or a load has found

disk == <<file, present, open, gen, toml>>
memory == <<loaded, mem, flushed, rewrite>>
storeVars == <<disk, pc, memory, minted, heads, tears, acked>>

Rows(s) == Picked(s, {i \in DOMAIN s : s[i] # Bad})
Legacy == [i \in 1 .. OldRows |-> i]

(* What the process may find: nothing, a legacy file, a log of another     *)
(* format.                                                                 *)
StoreInit ==
    /\ \/ gen = "current" /\ toml = "none" /\ file = <<>> /\ minted = 0
       \/ gen = "current" /\ toml = "toml" /\ file = <<>> /\ minted = OldRows
       \/ gen \in {"old", "future"} /\ toml = "none" /\ file = Legacy
            /\ minted = OldRows
    /\ present = (file # <<>>)
    /\ open = FALSE
    /\ pc = "down"
    /\ loaded = FALSE
    /\ mem = <<>>
    /\ flushed = 0
    /\ rewrite = FALSE
    /\ heads = 1 .. minted \cap {1}
    /\ tears = 0
    /\ acked = {}

(* The lines s, the last of them terminated or not, join the file. *)
Joined(s) ==
    IF s = <<>> THEN file
    ELSE IF open THEN Front(file) \o <<Bad>> \o Tail(s)
    ELSE file \o s

Written(s) ==
    /\ file' = Joined(s)
    /\ open' = (open /\ s = <<>>)

(* A write of s stops after k lines; the next one may have begun, and may  *)
(* even lack only its newline.                                             *)
Torn(s, k) ==
    /\ tears < MaxTears
    /\ tears' = tears + 1
    /\ \/ Written(SubSeq(s, 1, k))
       \/ /\ k < Len(s)
          /\ \E piece \in {Bad, s[k + 1]} :
                file' = Joined(Append(SubSeq(s, 1, k), piece))
          /\ open' = TRUE

Pending == SubSeq(mem, flushed + 1, Len(mem))

-----------------------------------------------------------------------------
(* The hub *)

(* new_session, under an id above every id that was loaded: the file of a  *)
(* log that was skipped does not count.                                    *)
Create ==
    /\ pc = "up"
    /\ ~loaded
    /\ minted < MaxRows
    /\ loaded' = TRUE
    /\ mem' = <<minted + 1>>
    /\ minted' = minted + 1
    /\ heads' = heads \cup {minted + 1}
    /\ flushed' = 0
    /\ rewrite' = FALSE
    /\ UNCHANGED <<disk, pc, tears, acked>>

AppendRow ==
    /\ pc = "up"
    /\ loaded
    /\ minted < MaxRows
    /\ mem' = Append(mem, minted + 1)
    /\ minted' = minted + 1
    /\ UNCHANGED <<disk, pc, loaded, flushed, rewrite, heads, tears, acked>>

(* Mutant of Flush: a rewrite is confirmed before it is written. *)
FlushSkipsRewrite ==
    /\ pc = "up"
    /\ loaded
    /\ \/ rewrite /\ UNCHANGED <<file, open, gen, present>>
       \/ /\ ~rewrite /\ Pending # <<>>
          /\ Written(Pending) /\ present' = TRUE
          /\ UNCHANGED gen
    /\ flushed' = Len(mem)
    /\ rewrite' = FALSE
    /\ acked' = acked \cup ToSet(mem)
    /\ UNCHANGED <<toml, pc, loaded, mem, minted, heads, tears>>

(* Mutant of Flush: the count of flushed rows is left as it was. *)
FlushForgets ==
    /\ pc = "up"
    /\ loaded
    /\ \/ /\ rewrite
          /\ file' = mem /\ open' = FALSE /\ gen' = "current" /\ present' = TRUE
       \/ /\ ~rewrite /\ Pending # <<>>
          /\ Written(Pending) /\ present' = TRUE
          /\ UNCHANGED gen
    /\ rewrite' = FALSE
    /\ acked' = acked \cup ToSet(mem)
    /\ UNCHANGED <<toml, pc, loaded, mem, flushed, minted, heads, tears>>

(* flush_in and rewrite_in *)
Flush ==
    /\ pc = "up"
    /\ loaded
    /\ \/ /\ rewrite
          /\ file' = mem /\ open' = FALSE /\ gen' = "current" /\ present' = TRUE
       \/ /\ ~rewrite /\ Pending # <<>>
          /\ Written(Pending) /\ present' = TRUE
          /\ UNCHANGED gen
    /\ flushed' = Len(mem)
    /\ rewrite' = FALSE
    /\ acked' = acked \cup ToSet(mem)
    /\ UNCHANGED <<toml, pc, loaded, mem, minted, heads, tears>>

(* The append stops before its last byte and the caller is told; an        *)
(* atomic_write that fails leaves the file as it was, so a rewrite that    *)
(* fails is no step.                                                       *)
FlushFails ==
    /\ pc = "up"
    /\ loaded
    /\ ~rewrite /\ Pending # <<>>
    /\ \E k \in 0 .. Len(Pending) - 1 : Torn(Pending, k)
    /\ present' = TRUE
    /\ UNCHANGED <<gen, toml, pc, memory, minted, heads, acked>>

(* The process dies, between two flushes or inside one. *)
Gone == pc' = "down" /\ loaded' = FALSE /\ mem' = <<>> /\ flushed' = 0 /\ rewrite' = FALSE

Crash ==
    /\ pc = "up"
    /\ Gone
    /\ \/ UNCHANGED <<file, present, open, tears>>
       \/ /\ loaded /\ ~rewrite /\ Pending # <<>>
          /\ \E k \in 0 .. Len(Pending) : Torn(Pending, k)
          /\ present' = TRUE
    /\ UNCHANGED <<gen, toml, minted, heads, acked>>

(* delete_in *)
Delete ==
    /\ pc = "up"
    /\ loaded
    /\ file' = <<>> /\ present' = FALSE /\ open' = FALSE
    /\ gen' = "current" /\ toml' = "none"
    /\ loaded' = FALSE /\ mem' = <<>> /\ flushed' = 0 /\ rewrite' = FALSE
    /\ acked' = {}
    /\ UNCHANGED <<pc, minted, heads, tears>>

-----------------------------------------------------------------------------
(* load_all_in: the legacy file first, then the log *)

(* migrate_toml writes the log unless there is one ... *)
MigrateWrites ==
    /\ pc = "down"
    /\ toml = "toml"
    /\ \/ ~present /\ Written(Legacy) /\ UNCHANGED tears
       \/ present /\ UNCHANGED <<file, open, tears>>
    /\ present' = TRUE
    /\ pc' = "moving"
    /\ UNCHANGED <<gen, toml, memory, minted, heads, acked>>

(* ... or fails to, or dies at it, and the next start finds what it left;  *)
(* after a failure this start goes on to read that too.                    *)
MigrateFails ==
    /\ pc = "down"
    /\ toml = "toml"
    /\ ~present
    /\ \E k \in 0 .. Len(Legacy) :
          /\ Torn(Legacy, k)
          /\ pc' = "down" \/ (k < Len(Legacy) /\ pc' = "reading")
    /\ present' = TRUE
    /\ UNCHANGED <<gen, toml, memory, minted, heads, acked>>

(* The TOML file is renamed; a failing rename is tried again next time. *)
MigrateRenames ==
    /\ pc = "moving"
    /\ toml' \in {"bak", "toml"}
    /\ pc' = "reading"
    /\ UNCHANGED <<file, present, open, gen, memory, minted, heads, tears, acked>>

(* The header row, which names the format, is torn: migrate::plan takes    *)
(* such a log for the oldest there is.                                     *)
Headless == ToSet(file) \cap heads = {}

(* Mutant of Load: an older format is appended to like the current one. *)
LoadNoRewrite ==
    /\ pc = "reading" \/ (pc = "down" /\ toml # "toml")
    /\ pc' = "up"
    /\ IF Rows(file) = <<>> \/ gen = "future"
       THEN UNCHANGED <<memory, acked>>
       ELSE /\ loaded' = TRUE
            /\ mem' = Rows(file)
            /\ flushed' = Len(Rows(file))
            /\ rewrite' = FALSE
            /\ acked' = acked \cup ToSet(Rows(file))
    /\ UNCHANGED <<disk, minted, heads, tears>>

(* Mutant of Load: lines that do not parse are counted as flushed rows. *)
LoadCountsLines ==
    /\ pc = "reading" \/ (pc = "down" /\ toml # "toml")
    /\ pc' = "up"
    /\ IF Rows(file) = <<>> \/ gen = "future"
       THEN UNCHANGED <<memory, acked>>
       ELSE /\ loaded' = TRUE
            /\ mem' = Rows(file)
            /\ flushed' = Len(file)
            /\ rewrite' = (gen = "old" \/ Headless)
            /\ acked' = acked \cup ToSet(Rows(file))
    /\ UNCHANGED <<disk, minted, heads, tears>>

(* read_log and from_events: lines that do not parse are skipped, and a    *)
(* log without rows, or from a newer build, is not loaded.                 *)
Load ==
    /\ pc = "reading" \/ (pc = "down" /\ toml # "toml")
    /\ pc' = "up"
    /\ IF Rows(file) = <<>> \/ gen = "future"
       THEN UNCHANGED <<memory, acked>>
       ELSE /\ loaded' = TRUE
            /\ mem' = Rows(file)
            /\ flushed' = Len(Rows(file))
            /\ rewrite' = (gen = "old" \/ Headless)
            /\ acked' = acked \cup ToSet(Rows(file))
    /\ UNCHANGED <<disk, minted, heads, tears>>

StoreNext ==
    \/ Create \/ AppendRow \/ Flush \/ FlushFails \/ Crash \/ Delete
    \/ MigrateWrites \/ MigrateFails \/ MigrateRenames \/ Load

StoreSpec == StoreInit /\ [][StoreNext]_storeVars

-----------------------------------------------------------------------------
(* Properties *)

(* Types, and no more rows count as flushed than the log in memory has.    *)
StoreTypeOK ==
    /\ file \in Seq((1 .. MaxRows) \cup {Bad})
    /\ present \in BOOLEAN
    /\ open \in BOOLEAN
    /\ gen \in {"current", "old", "future"}
    /\ toml \in {"none", "toml", "bak"}
    /\ pc \in {"down", "moving", "reading", "up"}
    /\ loaded \in BOOLEAN
    /\ mem \in Seq(1 .. MaxRows)
    /\ flushed \in 0 .. Len(mem)
    /\ rewrite \in BOOLEAN
    /\ minted \in 0 .. MaxRows
    /\ heads \in SUBSET (1 .. minted)
    /\ tears \in 0 .. MaxTears
    /\ acked \in SUBSET (1 .. MaxRows)

Lost == acked \ ToSet(file)

(* A process that only ever dies between two writes loses nothing it       *)
(* flushed and reads it back in order: what is on disk is the flushed part *)
(* of the log in memory, through rewrites, migrations and restarts.        *)
CleanRestart ==
    tears = 0 /\ loaded /\ gen # "future" =>
        Rows(file) = SubSeq(mem, 1, flushed)

(* However often writes are torn and retried, each tear costs at most the  *)
(* row it cut and the one written after it.                                *)
LossBounded == Cardinality(Lost) <= 2 * tears

(* A log of an older format stays as it is on disk until a rewrite         *)
(* replaces it whole: its rows are never mixed with newer ones.            *)
OldLeftAlone == gen = "old" => file = Legacy /\ ~open

-----------------------------------------------------------------------------
(* Properties the sources state and the code does not keep (see README).   *)

(* The durability barrier: after a flush "every appended row is on disk,   *)
(* or the caller learns why not".                                          *)
FlushedSurvives == Lost = {}

(* A flush "writes only the lines appended since the last flush": no row   *)
(* is in the log twice.                                                    *)
NoRowTwice ==
    \A i, j \in 1 .. Len(file) : file[i] # Bad /\ file[i] = file[j] => i = j

(* "The .jsonl is written in full, and the .toml is renamed": once the     *)
(* legacy file is set aside, the log holds all of it.                      *)
MigratedWhole == toml = "bak" => ToSet(Legacy) \subseteq ToSet(file)

(* A log written by a newer backend is "skipped, not touched". *)
FutureUntouched == gen = "future" => file = Legacy /\ ~open
=============================================================================
