----------------------------- MODULE ToolOutput -----------------------------
(***************************************************************************)
(* What a tool prints and what of it the model can reach: the caps of the  *)
(* shell, grep and web-fetch skills (crates/agents/src/builtins.rs,        *)
(* web.rs), the spill file and its digest (spill.rs, subagent.rs), the     *)
(* summariser that rewrites a long result, and the pages of read-file with *)
(* which the model reads the named files back.                             *)
(*                                                                         *)
(* A text is a sequence of lines.  A line is one the tool printed, with    *)
(* its width, or a marker that names a file.                               *)
(***************************************************************************)
EXTENDS Integers, Sequences, SequencesExt, FiniteSetsExt

CONSTANTS
    StreamCap,     \* MAX_OUTPUT
    SpillAt,       \* SPILL_THRESHOLD
    HeadKeep,      \* HEAD_BYTES
    TailKeep,      \* TAIL_BYTES
    SummariseAt,   \* SUMMARIZE_THRESHOLD
    PageCap,       \* READ_FILE_MAX_BYTES
    FileCap,       \* MAX_FILE
    FetchCap,      \* MAX_FETCH
    GrepRows,      \* MAX_GREP_MATCHES
    GrepKeep,      \* OVERFLOW_CAP
    SkillTimeout,  \* Skill::timeout of the shell skills
    CliTimeout,    \* CLI_TIMEOUT
    Prints         \* bound: what a tool may print, as sequences of widths

VARIABLES
    body,       \* the skill's future
    child,      \* the shell's process
    elapsed,    \* wall clock of the call
    limit,      \* shell_timeout
    printed,    \* what the tool printed
    result,     \* the result as the model gets it
    spills,     \* files under spill/
    reading,    \* the next read-file call of the model, or none
    unread,     \* files whose marker the model has seen and not opened
    known,      \* lines the model has seen
    why         \* ghost: where something was cut for good

outVars == <<body, child, elapsed, limit, printed, result, spills, reading, unread, known, why>>

NoRead == [file |-> 0, from |-> 0, upto |-> 0]
Line(i, w) == [line |-> i, w |-> w, file |-> 0]
Marker(f) == [line |-> 0, w |-> 1, file |-> f]

LinesOf(text) == {text[i].line : i \in DOMAIN text} \ {0}
FilesOf(text) == {text[i].file : i \in DOMAIN text} \ {0}
Bytes(text) == FoldSeq(LAMBDA l, n : l.w + n, 0, text)

OutInit ==
    /\ body = "none" /\ child = "none" /\ elapsed = 0 /\ limit = 0
    /\ printed = <<>> /\ result = <<>> /\ spills = <<>>
    /\ reading = NoRead /\ unread = {} /\ known = {} /\ why = {}

-----------------------------------------------------------------------------
(* The shell skills: run_shell races the child against its own limit and   *)
(* the pipeline's, and against the interrupt; dropping the future kills    *)
(* the child.                                                              *)

ShellTimeout(asked) == IF asked > 0 THEN Min({asked, SkillTimeout}) ELSE CliTimeout

Spawns ==
    /\ body = "none"
    /\ \E asked \in 0 .. SkillTimeout + 1 : limit' = ShellTimeout(asked)
    /\ \/ body' = "shell" /\ child' = "running"
       \/ body' = "failed" /\ child' = "none"
    /\ UNCHANGED <<elapsed, printed, result, spills, reading, unread, known, why>>

TimeGoes ==
    /\ body = "shell" /\ elapsed < limit
    /\ elapsed' = elapsed + 1
    /\ UNCHANGED <<body, child, limit, printed, result, spills, reading, unread, known, why>>

ChildKept == child' = child                    \* mutant
ChildDropped == child' = "killed"

(* At its own limit or the pipeline's, or at any moment the interrupt.     *)
GivesUp ==
    /\ body = "shell" /\ ChildDropped
    /\ body' = "failed"
    /\ UNCHANGED <<elapsed, limit, printed, result, spills, reading, unread, known, why>>

-----------------------------------------------------------------------------
(* What a body returns.  A write of a spill file may fail.                 *)

HeadOf(text, max) ==
    LET fits == {n \in 0 .. Len(text) : Bytes(SubSeq(text, 1, n)) <= max}
    IN  SubSeq(text, 1, Max(fits))

TailOf(text, max) == Reverse(HeadOf(Reverse(text), max))

Digest(text, f) ==
    IF Bytes(text) <= HeadKeep + TailKeep THEN text
    ELSE HeadOf(text, HeadKeep) \o <<Marker(f)>> \o TailOf(text, TailKeep)

CapStream(text, f) == IF f = 0 THEN HeadOf(text, StreamCap)
                      ELSE HeadOf(text, StreamCap) \o <<Marker(f)>>

Whole(ws, from) == [i \in DOMAIN ws |-> Line(from + i, ws[i])]

(* The child exits; stdout and stderr are each capped.                     *)
ShellReturns ==
    /\ body = "shell" /\ elapsed < limit
    /\ child' = "exited" /\ body' = "returned"
    /\ \E out, errs \in Prints :
          LET stdout == Whole(out, 0)
              stderr == Whole(errs, Len(out))
              long(s) == Bytes(s) > StreamCap
          IN  /\ printed' = stdout \o stderr
              /\ \E kept \in SUBSET {s \in {stdout, stderr} : long(s)} :
                    LET files == (IF stdout \in kept THEN <<stdout>> ELSE <<>>)
                                 \o (IF stderr \in kept THEN <<stderr>> ELSE <<>>)
                        at(s) == IF s \in kept THEN CHOOSE f \in DOMAIN files : files[f] = s ELSE 0
                        cut(s) == IF long(s) THEN CapStream(s, at(s)) ELSE s
                    IN  /\ spills' = files
                        /\ result' = cut(stdout) \o cut(stderr)
                        /\ why' = IF \E s \in {stdout, stderr} : long(s) /\ s \notin kept
                                  THEN {"disk"} ELSE {}
    /\ UNCHANGED <<elapsed, limit, reading, unread, known>>

(* grep keeps MAX_GREP_MATCHES rows and writes the rest to a file.         *)
GrepReturns ==
    /\ body = "none"
    /\ \E ws \in Prints :
          LET rows == Whole(ws, 0)
              rest == SubSeq(rows, GrepRows + 1, Min({Len(rows), GrepRows + GrepKeep}))
              over == Len(rows) > GrepRows
          IN  /\ printed' = rows
              /\ \E wrote \in BOOLEAN :
                    /\ spills' = IF over /\ wrote THEN <<rest>> ELSE <<>>
                    /\ result' = SubSeq(rows, 1, Min({Len(rows), GrepRows}))
                                 \o (IF over /\ wrote THEN <<Marker(1)>> ELSE <<>>)
                    /\ why' = (IF over /\ ~wrote THEN {"disk"} ELSE {})
                              \cup (IF Len(rows) > GrepRows + GrepKeep THEN {"grep"} ELSE {})
    /\ body' = "returned"
    /\ UNCHANGED <<child, elapsed, limit, reading, unread, known>>

(* web-fetch cuts the page before anything spills it.                      *)
FetchReturns ==
    /\ body = "none"
    /\ \E ws \in Prints :
          /\ printed' = Whole(ws, 0)
          /\ result' = HeadOf(Whole(ws, 0), FetchCap)
          /\ why' = IF Bytes(Whole(ws, 0)) > FetchCap THEN {"fetch"} ELSE {}
    /\ body' = "returned" /\ spills' = <<>>
    /\ UNCHANGED <<child, elapsed, limit, reading, unread, known>>

-----------------------------------------------------------------------------
(* ToolSubAgent::run_report after the body: spill, then the summariser.    *)

Pipeline ==
    /\ body = "returned" /\ body' = "told"
    /\ LET big == Bytes(result) > SpillAt
           f == Len(spills) + 1
       IN  \E wrote, expects \in BOOLEAN :
             LET spilled == big /\ wrote
                 digest == IF spilled THEN Digest(result, f) ELSE result
                 rewritten == expects /\ Bytes(digest) > SummariseAt
                 told == IF ~rewritten THEN digest ELSE IF spilled THEN <<Marker(f)>> ELSE <<>>
                 \* A paraphrase stands for the lines it was made from.
                 seen == LinesOf(digest)
             IN  /\ spills' = IF spilled THEN Append(spills, result) ELSE spills
                 /\ result' = told
                 /\ known' = seen
                 /\ unread' = FilesOf(told)
                 /\ why' = why \cup (IF ~(FilesOf(digest) \subseteq FilesOf(told)) THEN {"path"} ELSE {})
    /\ UNCHANGED <<child, elapsed, limit, printed, reading>>

-----------------------------------------------------------------------------
(* read-file on a named file: numbered_range, cut to a page at a line      *)
(* boundary.  A range adds one line, which counts for the cap of the whole *)
(* and not for the cap of the page.                                        *)

Header(call) == IF call.from > 1 THEN 1 ELSE 0

LastShown(text, from, upto) ==
    LET fits == {n \in from - 1 .. upto : Bytes(SubSeq(text, from, n)) <= PageCap}
    IN  Max(fits)

NextSkips(f, from, last, upto) ==                \* mutant
    [file |-> f, from |-> last + 2, upto |-> Min({last + 2 + (last - from), upto})]

NextCall(f, from, last, upto) ==
    [file |-> f, from |-> last + 1, upto |-> Min({last + 1 + (last - from), upto})]

NumberedPage(text, call) ==
    LET upto == Min({call.upto, Len(text)})
        fits == Header(call) + Bytes(SubSeq(text, call.from, upto)) <= PageCap
        last == IF fits THEN upto ELSE LastShown(text, call.from, upto)
    IN  IF call.from > upto THEN [shown |-> <<>>, last |-> upto, mark |-> NoRead]
        ELSE IF last < call.from          \* one line alone is over the cap
        THEN [shown |-> <<>>, last |-> call.from, mark |-> NoRead]
        ELSE [shown |-> SubSeq(text, call.from, last), last |-> last,
              mark |-> IF fits THEN NoRead ELSE NextCall(call.file, call.from, last, upto)]

OpensFile(f) ==
    /\ body = "told" /\ reading = NoRead /\ f \in unread
    /\ unread' = unread \ {f}
    /\ IF Bytes(spills[f]) > FileCap
       THEN /\ why' = why \cup {"refused"}
            /\ UNCHANGED reading
       ELSE /\ reading' = [file |-> f, from |-> 1, upto |-> Len(spills[f])]
            /\ UNCHANGED why
    /\ UNCHANGED <<body, child, elapsed, limit, printed, result, spills, known>>

(* The model reads on from the last line it was shown: with the call the   *)
(* page names, or, when the page was not cut, to the end of the file.      *)
ReadsPage ==
    /\ reading # NoRead
    /\ LET text == spills[reading.file]
           page == NumberedPage(text, reading)
           rest == [file |-> reading.file, from |-> page.last + 1, upto |-> Len(text)]
       IN  /\ known' = known \cup LinesOf(page.shown)
           /\ unread' = unread \cup FilesOf(page.shown)
           /\ reading' = IF page.mark # NoRead /\ page.mark.from <= page.mark.upto THEN page.mark
                         ELSE IF page.last < Len(text) THEN rest ELSE NoRead
           /\ why' = why \cup (IF page.shown = <<>> THEN {"wide"} ELSE {})
    /\ UNCHANGED <<body, child, elapsed, limit, printed, result, spills>>

OutNext ==
    \/ Spawns \/ TimeGoes \/ GivesUp \/ ShellReturns \/ GrepReturns \/ FetchReturns
    \/ Pipeline \/ ReadsPage
    \/ \E f \in 1 .. 3 : OpensFile(f)

-----------------------------------------------------------------------------
(* Over means the model has opened every file it was pointed to and read   *)
(* on to the end of each.                                                  *)
Over == body = "told" /\ unread = {} /\ reading = NoRead

(* No output is lost without a word: unless a cap cut it for good (why     *)
(* names the place), following the markers and the pages of read-file      *)
(* shows the model every line the tool printed ("The raw text is never     *)
(* lost - it is on disk, and the marker tells the model to read-file it"). *)
NothingLost == Over /\ why = {} => known = LinesOf(printed)

(* No process outlives its call: once the skill's future is gone, by its   *)
(* own limit, the pipeline's or the interrupt, the child is not running.   *)
ChildGone == body \notin {"none", "shell"} => child # "running"

(* Neither a tool's output nor its process gets out of hand.               *)
OutputsSound == NothingLost /\ ChildGone

(* Refuted: "the path must survive so the model can still reach the raw    *)
(* output" - the summariser keeps the path of the pipeline's own spill and *)
(* not the one a capped stream or grep names.                              *)
PathSurvives == "path" \notin why

(* Refuted: a long page reaches the model "as a head/tail digest with the  *)
(* full text on disk" - what lies past MAX_FETCH is cut before the spill.  *)
PageOnDisk == "fetch" \notin why

(* Refuted: "use read-file to inspect it" - read-file refuses a file over  *)
(* MAX_FILE, and a spill file may be larger.                               *)
SpillReadable == "refused" \notin why

(* Refuted: the file grep names does not hold all matches, "all of them    *)
(* are in" it: only those past the cap are.                                *)
GrepFileWhole ==
    body = "returned" /\ child = "none" /\ FilesOf(result) # {}
        => LinesOf(spills[1]) = LinesOf(printed)

(* Refuted: "a READ_FILE_CAP_MARK line naming the next call to make" - the *)
(* header counts for the cap of the whole page only, so a page that fits   *)
(* without it names a call whose start is past its end.                    *)
MarkShowsMore ==
    reading # NoRead
        => LET mark == NumberedPage(spills[reading.file], reading).mark
           IN  mark = NoRead \/ mark.from <= mark.upto
=============================================================================
