-------------------------------- MODULE Jobs --------------------------------
(***************************************************************************)
(* Background jobs of one session (crates/agents/src/jobs.rs) and their    *)
(* way back into it (crates/backend/src/jobs_bridge.rs): the call that     *)
(* starts one, the watcher task of its child, reads by the model and by    *)
(* the user, kills, and the session being deleted.  A byte of output is    *)
(* its position.                                                           *)
(***************************************************************************)
EXTENDS Integers, FiniteSets

CONSTANTS
    JobIds,      \* the jobs that can be started
    MaxJobs,     \* MAX_JOBS_PER_SESSION
    OutputCap,   \* OUTPUT_CAP
    ReadHead,    \* READ_CAP * 3 / 4
    ReadTail,    \* READ_CAP / 4
    ByteBound    \* bound: bytes one job prints

VARIABLES
    owner,     \* the session: "live", "removed" from the hub, "cleared" of jobs
    job,       \* the registry's entry, or none
    watcher,   \* per job: its child and what its task is doing
    spilled,   \* per job: positions in its spill file
    refusedBy, \* ... and those a full disk refused
    rows,      \* JobFinished rows in the session's log
    notes,     \* job notices in the session's inbox
    (* history, read by the properties only *)
    handed,    \* per job: positions a read gave out
    admitted,  \* ... and those a read said were lost
    again      \* positions given out twice

jobVars == <<owner, job, watcher, spilled, refusedBy, rows, notes, handed, admitted, again>>
outputVars == <<spilled, refusedBy, handed, admitted, again>>

NoEntryYet == [status |-> "none", produced |-> 0, start |-> 0, mark |-> 0]
Sleeping == [child |-> "none", cancelled |-> FALSE, doing |-> "none"]
Final == {"exited", "failed", "killed"}

JobsInit ==
    /\ owner = "live"
    /\ job = [j \in JobIds |-> NoEntryYet]
    /\ watcher = [j \in JobIds |-> Sleeping]
    /\ spilled = [j \in JobIds |-> {}] /\ refusedBy = [j \in JobIds |-> {}]
    /\ rows = [j \in JobIds |-> 0] /\ notes = [j \in JobIds |-> 0]
    /\ handed = [j \in JobIds |-> {}] /\ admitted = [j \in JobIds |-> {}]
    /\ again = {}

HasEntry(j) == job[j].status \notin {"none", "gone"}
RunningJobs == {j \in JobIds : job[j].status = "running"}

-----------------------------------------------------------------------------
(* start_shell: the limit, the child, the entry, the watcher.  Nothing     *)
(* asks whether the session is still there.                                *)
StartShell(j) ==
    /\ watcher[j] = Sleeping
    /\ Cardinality(RunningJobs) < MaxJobs
    /\ job' = [job EXCEPT ![j].status = "running"]
    /\ watcher' = [watcher EXCEPT ![j] = [child |-> "alive", cancelled |-> FALSE, doing |-> "watch"]]
    /\ UNCHANGED <<owner, rows, notes, outputVars>>

(* Job::append: what leaves the window goes to the spill file, if the disk *)
(* takes it.                                                               *)
AppendOutput(j, diskTakes) ==
    LET e == [job[j] EXCEPT !.produced = @ + 1]
        overflow == e.produced - e.start > OutputCap
    IN  /\ watcher[j].child = "alive" /\ watcher[j].doing = "watch"
        /\ HasEntry(j)
        /\ job[j].produced < ByteBound
        /\ job' = [job EXCEPT ![j] = IF overflow THEN [e EXCEPT !.start = @ + 1] ELSE e]
        /\ spilled' = IF overflow /\ diskTakes THEN [spilled EXCEPT ![j] = @ \cup {e.start + 1}] ELSE spilled
        /\ refusedBy' = IF overflow /\ ~diskTakes THEN [refusedBy EXCEPT ![j] = @ \cup {e.start + 1}] ELSE refusedBy
        /\ UNCHANGED <<owner, watcher, rows, notes, handed, admitted, again>>

FromMark(j) == job[j].mark + 1 .. job[j].produced

WindowAgain(j) == job[j].start + 1 .. job[j].produced

(* Job::take_unread: what of the unread output is still in the window. *)
UnreadOutput(j) == {b \in FromMark(j) : b > job[j].start}

(* job-output and /job-output: head and tail of what is unread, and the    *)
(* mark moves past all of it.                                              *)
ReadOutput(j) ==
    LET text == UnreadOutput(j)
        n == Cardinality(text)
        first == job[j].produced - n
        window == IF n <= ReadHead + ReadTail THEN text
                  ELSE {b \in text : b <= first + ReadHead \/ b > job[j].produced - ReadTail}
    IN  /\ HasEntry(j)
        /\ job' = [job EXCEPT ![j].mark = @ + Cardinality(FromMark(j))]
        /\ again' = again \cup {<<j, b>> : b \in window \cap handed[j]}
        /\ handed' = [handed EXCEPT ![j] = @ \cup window]
        /\ admitted' = [admitted EXCEPT ![j] = @ \cup (FromMark(j) \ text)]
        /\ UNCHANGED <<owner, watcher, spilled, refusedBy, rows, notes>>

KillJob(j) ==
    /\ job[j].status = "running" /\ ~watcher[j].cancelled
    /\ watcher' = [watcher EXCEPT ![j].cancelled = TRUE]
    /\ UNCHANGED <<owner, job, rows, notes, outputVars>>

(* The watcher's select: a kill, or the child ends by itself. *)
WatcherKills(j) ==
    /\ watcher[j].doing = "watch" /\ watcher[j].cancelled
    /\ watcher' = [watcher EXCEPT ![j].child = "dead", ![j].doing = "killed"]
    /\ UNCHANGED <<owner, job, rows, notes, outputVars>>

ChildEnds(j, how) ==
    /\ watcher[j].doing = "watch"
    /\ watcher' = [watcher EXCEPT ![j].child = "dead", ![j].doing = how]
    /\ UNCHANGED <<owner, job, rows, notes, outputVars>>

(* settle: the final status, and the notifier; nothing for a job that was  *)
(* cleared.                                                                *)
Settle(j) ==
    /\ watcher[j].doing \in Final
    /\ IF HasEntry(j)
       THEN /\ job' = [job EXCEPT ![j].status = watcher[j].doing]
            /\ watcher' = [watcher EXCEPT ![j].doing = "log"]
       ELSE /\ UNCHANGED job
            /\ watcher' = [watcher EXCEPT ![j].doing = "over"]
    /\ UNCHANGED <<owner, rows, notes, outputVars>>

(* JobsBridge::finished, a task of its own: the audit row (a session that  *)
(* is gone has no log), then the notice.                                   *)
NoticeLogged(j) ==
    /\ watcher[j].doing = "log"
    /\ rows' = IF owner = "live" THEN [rows EXCEPT ![j] = @ + 1] ELSE rows
    /\ watcher' = [watcher EXCEPT ![j].doing = "push"]
    /\ UNCHANGED <<owner, job, notes, outputVars>>

NoticePushed(j) ==
    /\ watcher[j].doing = "push"
    /\ notes' = [notes EXCEPT ![j] = @ + 1]
    /\ watcher' = [watcher EXCEPT ![j].doing = "over"]
    /\ UNCHANGED <<owner, job, rows, outputVars>>

(* delete_session: out of the hub and off the disk, its inbox cleared; the *)
(* running turn is not stopped.                                            *)
DeleteOwner ==
    /\ owner = "live" /\ owner' = "removed"
    /\ notes' = [j \in JobIds |-> 0]
    /\ UNCHANGED <<job, watcher, rows, outputVars>>

ClearForgetsOnly ==
    /\ owner = "removed" /\ owner' = "cleared"
    /\ job' = [j \in JobIds |-> IF HasEntry(j) THEN [job[j] EXCEPT !.status = "gone"] ELSE job[j]]
    /\ UNCHANGED <<watcher, rows, notes, outputVars>>

(* JobRegistry::clear *)
ClearJobs ==
    /\ owner = "removed" /\ owner' = "cleared"
    /\ job' = [j \in JobIds |-> IF HasEntry(j) THEN [job[j] EXCEPT !.status = "gone"] ELSE job[j]]
    /\ watcher' = [j \in JobIds |-> IF HasEntry(j) THEN [watcher[j] EXCEPT !.cancelled = TRUE] ELSE watcher[j]]
    /\ UNCHANGED <<rows, notes, outputVars>>

JobsNext ==
    \/ \E j \in JobIds :
          \/ StartShell(j) \/ ReadOutput(j) \/ KillJob(j)
          \/ \E diskTakes \in BOOLEAN : AppendOutput(j, diskTakes)
          \/ WatcherKills(j) \/ ChildEnds(j, "exited") \/ ChildEnds(j, "failed")
          \/ Settle(j) \/ NoticeLogged(j) \/ NoticePushed(j)
    \/ DeleteOwner \/ ClearJobs

JobsSpec == JobsInit /\ [][JobsNext]_jobVars

-----------------------------------------------------------------------------
(* Properties *)

(* The model of a session that lives hears of every job that ended, once,  *)
(* and never of one whose child still runs; a job that was cleared comes   *)
(* back by no late settling of its watcher; and every child a cleared      *)
(* registry had is being stopped.                                          *)
EndsAreTold ==
    \A j \in JobIds :
        /\ notes[j] <= 1
        /\ watcher[j].doing = "over" /\ owner = "live" => notes[j] = 1 /\ rows[j] = 1
        /\ notes[j] = 1 \/ job[j].status \in Final => watcher[j].child = "dead"
        /\ job[j].status = "gone" => watcher[j].cancelled \/ watcher[j].child = "dead"

(* No byte a job printed is given out twice, and none that scrolled out of *)
(* the window goes unmentioned: it is in the spill file, or the disk       *)
(* refused it, and the read that missed it says so.                        *)
OutputAccounted ==
    /\ again = {}
    /\ \A j \in JobIds, b \in 1..ByteBound :
          /\ b <= job[j].start => b \in spilled[j] \cup refusedBy[j]
          /\ b \in admitted[j] => b \notin handed[j] /\ b <= job[j].start

(* READ_CAP: "Most output handed back in one job-output call.  The rest    *)
(* stays for the next read."  Refuted: the mark moves past the middle that *)
(* was left out.                                                           *)
RestStaysForNextRead ==
    \A j \in JobIds, b \in 1..ByteBound : b <= job[j].mark => b \in handed[j] \cup admitted[j]

(* delete_session: "Its background jobs go with it, process trees          *)
(* included."  Refuted: the turn that was running starts one afterwards.   *)
JobsGoWithSession ==
    owner = "cleared" => \A j \in JobIds : watcher[j].child = "alive" => watcher[j].cancelled
=============================================================================
